----------------------------- MODULE MsgChannel -----------------------------
(***************************************************************************)
(* What a TCP session promises its message handlers: each end receives the *)
(* messages the other sent, whole, once and in order, and a session that   *)
(* ends loses at most the messages not yet received.                       *)
(***************************************************************************)
EXTENDS Naturals, Sequences

CONSTANT Messages

VARIABLES sent,      \* the messages handed to SendMsg
          received,  \* the messages returned by the receiving end
          open       \* the receiver is still waiting for messages

channelVars == <<sent, received, open>>

ChannelInit == sent = <<>> /\ received = <<>> /\ open = TRUE

Send ==
    /\ \E m \in Messages : sent' = Append(sent, m)
    /\ UNCHANGED <<received, open>>

Receive ==
    /\ open
    /\ Len(received) < Len(sent)
    /\ received' = Append(received, sent[Len(received) + 1])
    /\ UNCHANGED <<sent, open>>

Close == open' = FALSE /\ UNCHANGED <<sent, received>>

ChannelNext == Send \/ Receive \/ Close

ChannelSpec == ChannelInit /\ [][ChannelNext]_channelVars
=============================================================================
