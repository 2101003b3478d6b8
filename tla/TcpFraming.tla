----------------------------- MODULE TcpFraming -----------------------------
(***************************************************************************)
(* A connection between a client and the server, byte by byte: how each    *)
(* TcpSession (include/comms/TcpSession.h) finds the messages in the bytes *)
(* that arrive.  The server's first message is found by TcpMsgMatch        *)
(* (src/comms/TcpMsgMatch.cpp), which async_read_until calls after every   *)
(* read; all others are found by WaitForMsg.  Both throw away what they    *)
(* have read beyond the message.                                           *)
(*                                                                         *)
(* Every variable is a function of the end that receives.  A byte is       *)
(* <<k, i>>, the i-th byte of the k-th message sent to that end; a header  *)
(* has HeaderLength bytes and says what message it is and how long.        *)
(***************************************************************************)
EXTENDS Integers, SequencesExt

CONSTANTS Messages,      \* the ids MsgFactory knows, but for the bare header's
          BodyLength,    \* of each message, in bytes
          HeaderLength,  \* MSG_HEADER_SIZE
          MaxMessages    \* bound on the messages sent to an end

ASSUME LengthAssumption ==
    BodyLength \in [Messages -> Nat] /\ HeaderLength \in Nat \ {0}
ASSUME MessageBoundAssumption == MaxMessages \in Nat

Ends == {"server", "client"}
Other(e) == IF e = "server" THEN "client" ELSE "server"

VARIABLES sent,          \* messages sent to the end
          wire,          \* bytes sent to it that it has not read
          mode,          \* "match", "wait", "left" or, after an exception, "failed"
          buffer,        \* bytes it has read for the present message
          total_bytes_read,
          length,        \* what its m_msg_header says, its own length at first
          received       \* messages returned to its handler so far

framingVars == <<sent, wire, mode, buffer, total_bytes_read, length, received>>

Length(m) == HeaderLength + BodyLength[m]

\* MsgFactory::MaxLength, the most that read_some is asked for.
MaxLength == Max({Length(m) : m \in Messages})

\* Serialize: the bytes of the k-th message.
Serialize(m, k) == [i \in 1 .. Length(m) |-> <<k, i>>]

\* Deserialize reads a header at the start of the buffer, if there is a whole one.
HeaderIsIn(bytes) == Len(bytes) >= HeaderLength

\* The message the bytes start with.  No other message is ever looked for, since
\* every buffer starts at the start of a message: NothingIsThrownAway.
Header(e, bytes) == sent[e][bytes[1][1]]

Open(e) == mode[e] \in {"match", "wait"}

-----------------------------------------------------------------------------

\* The server waits with TcpMsgMatch first, the client never.
FramingInit ==
    /\ sent = [e \in Ends |-> <<>>]
    /\ wire = [e \in Ends |-> <<>>]
    /\ mode = [e \in Ends |-> IF e = "server" THEN "match" ELSE "wait"]
    /\ buffer = [e \in Ends |-> <<>>]
    /\ total_bytes_read = [e \in Ends |-> 0]
    /\ length = [e \in Ends |-> HeaderLength]
    /\ received = [e \in Ends |-> <<>>]

\* Mutant: an end does not wait for the answer.
PipelineMutant(e) == TRUE

\* The client begins, and then each end sends when its handler has been called: the
\* client when it has an answer to all it has sent, the server when it does not.
MaySend(e) ==
    IF e = "client"
    THEN Len(received["client"]) = Len(sent["server"])
    ELSE Len(received["server"]) = Len(sent["client"]) + 1

\* What an end writes after the other one has closed is in nobody's way.
SendMsg(e) ==
    /\ Open(e) /\ MaySend(e)
    /\ LET to == Other(e) IN
          /\ Len(sent[to]) < MaxMessages
          /\ \E m \in Messages :
                /\ sent' = [sent EXCEPT ![to] = Append(@, m)]
                /\ wire' = [wire EXCEPT ![to] = @ \o Serialize(m, Len(sent[to]) + 1)]
    /\ UNCHANGED <<mode, buffer, total_bytes_read, length, received>>

\* The process ends or closes the session, at any time.
HangUp(e) ==
    /\ Open(e)
    /\ mode' = [mode EXCEPT ![e] = "left"]
    /\ UNCHANGED <<sent, wire, buffer, total_bytes_read, length, received>>

\* A read returns some of the bytes that have arrived.
Read(e, n) ==
    /\ n \in 1 .. Len(wire[e])
    /\ wire' = [wire EXCEPT ![e] = SubSeq(@, n + 1, Len(@))]

\* Mutant: a read replaces what the reads before it left.
OverwriteMutant(e, n) == SubSeq(wire[e], 1, n)

Collected(e, n) == buffer[e] \o SubSeq(wire[e], 1, n)

\* What is read is kept: it is not a whole message yet.
Keep(e, n) ==
    /\ buffer' = [buffer EXCEPT ![e] = Collected(e, n)]
    /\ total_bytes_read' = [total_bytes_read EXCEPT ![e] = @ + n]

\* The loop of WaitForMsg: it reads until it has as many bytes as the header
\* says, the header's own length until it has seen one.
WaitReads(e) ==
    /\ mode[e] = "wait"
    /\ total_bytes_read[e] < length[e]
    /\ \E n \in 1 .. MaxLength :
          /\ Read(e, n)
          /\ Keep(e, n)
    /\ length' = [length EXCEPT ![e] =
                    IF HeaderIsIn(buffer'[e]) THEN Length(Header(e, buffer'[e])) ELSE @]
    /\ UNCHANGED <<sent, mode, received>>

\* The next message is waited for with an empty buffer.
StartOver(e) ==
    /\ mode' = [mode EXCEPT ![e] = "wait"]
    /\ buffer' = [buffer EXCEPT ![e] = <<>>]
    /\ total_bytes_read' = [total_bytes_read EXCEPT ![e] = 0]
    /\ length' = [length EXCEPT ![e] = HeaderLength]

WaitReturns(e) ==
    /\ mode[e] = "wait"
    /\ total_bytes_read[e] >= length[e]
    /\ received' = [received EXCEPT ![e] = Append(@, Header(e, buffer[e]))]
    /\ StartOver(e)
    /\ UNCHANGED <<sent, wire>>

\* Mutant: the message matches as soon as its header is there.
HeaderOnlyMutant(e, bytes, total) == HeaderIsIn(bytes)

\* Mutant: the message must be followed by another byte.
StrictMutant(e, bytes, total) == HeaderIsIn(bytes) /\ total > Length(Header(e, bytes))

\* ProcessBuffer: the message is complete.
Matches(e, bytes, total) ==
    /\ total >= HeaderLength
    /\ total >= Length(Header(e, bytes))

\* async_read_until: a read, and the match condition on the bytes it added.
MatchReads(e) ==
    /\ mode[e] = "match"
    /\ \E n \in 1 .. Len(wire[e]) :
          /\ Read(e, n)
          /\ \/ /\ ~Matches(e, Collected(e, n), total_bytes_read[e] + n)
                /\ Keep(e, n)
                /\ UNCHANGED <<mode, length, received>>
             \/ /\ Matches(e, Collected(e, n), total_bytes_read[e] + n)
                /\ received' = [received EXCEPT ![e] = Append(@, Header(e, Collected(e, n)))]
                /\ StartOver(e)
    /\ UNCHANGED sent

\* End of file before a whole message: both throw.  So may SendMsg.
ReadFails(e) ==
    /\ Open(e) /\ ~Open(Other(e))
    /\ mode[e] = "wait" => total_bytes_read[e] < length[e]
    /\ wire[e] = <<>>
    /\ mode' = [mode EXCEPT ![e] = "failed"]
    /\ UNCHANGED <<sent, wire, buffer, total_bytes_read, length, received>>

Waits(e) == WaitReads(e) \/ WaitReturns(e) \/ MatchReads(e) \/ ReadFails(e)

FramingNext == \E e \in Ends : SendMsg(e) \/ HangUp(e) \/ Waits(e)

\* Bytes that have been sent arrive, each end reads them, and its handler returns.
FramingSpec ==
    /\ FramingInit /\ [][FramingNext]_framingVars
    /\ \A e \in Ends : WF_framingVars(Waits(e)) /\ WF_framingVars(SendMsg(e))

-----------------------------------------------------------------------------

FramingTypeOK ==
    \A e \in Ends :
        /\ sent[e] \in Seq(Messages) /\ received[e] \in Seq(Messages)
        /\ mode[e] \in {"match", "wait", "left", "failed"}
        /\ total_bytes_read[e] = Len(buffer[e])
        /\ length[e] \in {HeaderLength} \cup {Length(m) : m \in Messages}

\* However the bytes are cut into reads, a buffer never holds bytes of two
\* messages: what is thrown away with it when its message is returned is nothing.
NothingIsThrownAway ==
    \A e \in Ends :
        buffer[e] # <<>> =>
            buffer[e] = SubSeq(Serialize(Last(sent[e]), Len(sent[e])), 1, Len(buffer[e]))

ToServer == INSTANCE MsgChannel
            WITH sent <- sent["server"], received <- received["server"], open <- Open("server")

ToClient == INSTANCE MsgChannel
            WITH sent <- sent["client"], received <- received["client"], open <- Open("client")

\* The handlers see a reliable channel of messages in either direction.
ImplementsChannel == ToServer!ChannelSpec /\ ToClient!ChannelSpec

\* A message sent in full is received, even if the sender hangs up after it, unless
\* its receiver leaves.
EverythingArrives ==
    \A e \in Ends, k \in 1 .. MaxMessages :
        Len(sent[e]) >= k ~> Len(received[e]) >= k \/ mode[e] = "left"

\* The two ends never wait for each other: every question there may be is asked and
\* answered, unless one of them leaves.
ConversationGoesOn ==
    <>(Len(received["client"]) = MaxMessages \/ \E e \in Ends : mode[e] = "left")
=============================================================================
