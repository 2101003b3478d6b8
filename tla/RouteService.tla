---------------------------- MODULE RouteService ----------------------------
(***************************************************************************)
(* The server and its clients as processes: TcpServer's one thread         *)
(* (src/comms/TcpServer.cpp) accepts connections and waits for first       *)
(* messages asynchronously, but serves a session to its end before it      *)
(* returns to its io_context (TcpSession::ProcessSession).  An error on    *)
(* any connection is an exception, which ends the process it is thrown in. *)
(*                                                                         *)
(* Here a message is of a kind, and a handler may return any message it    *)
(* has for that kind.  RouteSystem adds what the messages say; how they    *)
(* are found in the bytes is TcpFraming's subject.                         *)
(***************************************************************************)
EXTENDS Integers, Sequences

CONSTANTS Clients,
          None     \* no client

ASSUME NoneAssumption == None \notin Clients

VARIABLES client,   \* of each: "off", "connected", "waiting", "prompt", "gone"
          conn,     \* of each, at the server: "none", "backlog", "session", "closed"
          up,       \* messages from each client that the server has not read
          down,     \* messages to each client that it has not read
          serving,  \* the client whose session is in ProcessSession
          running   \* the server has not exited

serviceVars == <<client, conn, up, down, serving, running>>

\* A request and its response are of the same kind.
Messages == {"Status", "Locations", "Route"}

ServiceInit ==
    /\ client = [c \in Clients |-> "off"]
    /\ conn = [c \in Clients |-> "none"]
    /\ up = [c \in Clients |-> <<>>]
    /\ down = [c \in Clients |-> <<>>]
    /\ serving = None
    /\ running = TRUE

-----------------------------------------------------------------------------
(* The server                                                                *)

\* Mutant: the listening socket outlives the server.
BacklogStaysMutant(k) == IF k = "session" THEN "closed" ELSE k

\* What the end of the server makes of a connection.
AfterStop(k) == IF k = "none" THEN "none" ELSE "closed"

\* An exception leaves io_context::run and Start; main catches it and returns.
Stop ==
    /\ running' = FALSE
    /\ serving' = None
    /\ conn' = [c \in Clients |-> AfterStop(conn[c])]
    /\ up' = [c \in Clients |-> <<>>]

\* Mutant: sessions are processed concurrently.
ConcurrentMutant(c) == conn[c] = "session"

\* The thread is in c's session, or in io_context::run and c's session may start.
Attends(c) == conn[c] = "session" /\ serving \in {c, None}

\* The accept handler; asking for the remote address throws if the peer has reset
\* the connection.
Accept(c) ==
    /\ running /\ serving = None
    /\ conn[c] = "backlog"
    /\ \/ conn' = [conn EXCEPT ![c] = "session"] /\ UNCHANGED <<up, serving, running>>
       \/ client[c] = "gone" /\ Stop
    /\ UNCHANGED <<client, down>>

\* Mutant: something holds on to the session.
KeptOpenMutant == "session"

\* A session nobody refers to closes its socket.
SessionReleased == "closed"

\* Mutant: the message stays in the buffer it was found in.
StillThereMutant(requests) == requests

Consumed(requests) == Tail(requests)

\* ProcessSession has a message: the handler is called and its answer sent.
Answer(c) ==
    /\ running /\ Attends(c)
    /\ up[c] # <<>>
    /\ down' = [down EXCEPT ![c] = IF client[c] = "gone" THEN @ ELSE Append(@, Head(up[c]))]
    /\ up' = [up EXCEPT ![c] = Consumed(@)]
    /\ serving' = c
    /\ UNCHANGED <<client, conn, running>>

\* The handler has no answer: ProcessSession returns to io_context::run.
EndSession(c) ==
    /\ running /\ Attends(c)
    /\ up[c] # <<>> /\ Head(up[c]) # "Status"
    /\ conn' = [conn EXCEPT ![c] = SessionReleased]
    /\ up' = [up EXCEPT ![c] = <<>>]
    /\ serving' = None
    /\ UNCHANGED <<client, down, running>>

\* SendMsg throws, which the kernel may let it do once the peer is gone, or the
\* handler does, which loads the databases for every request but the first.
AnswerFails(c) ==
    /\ running /\ Attends(c)
    /\ up[c] # <<>>
    /\ client[c] = "gone" \/ Head(up[c]) # "Status"
    /\ Stop
    /\ UNCHANGED <<client, down>>

\* WaitForMsg, or the handler of async_read_until, throws: the peer is gone and has
\* left no message.
WaitFails(c) ==
    /\ running /\ Attends(c)
    /\ up[c] = <<>> /\ client[c] = "gone"
    /\ Stop
    /\ UNCHANGED <<client, down>>

-----------------------------------------------------------------------------
(* The clients                                                               *)

\* SendMsg at the client's end, after which it waits; what is sent on a closed
\* connection is lost.
Send(c, m) ==
    /\ up' = IF conn[c] = "closed" THEN up ELSE [up EXCEPT ![c] = Append(@, m)]
    /\ client' = [client EXCEPT ![c] = "waiting"]

\* StartSession: the connection is made by the listening socket, not by Accept.
StartSession(c) ==
    /\ client[c] = "off"
    /\ \/ /\ running
          /\ client' = [client EXCEPT ![c] = "connected"]
          /\ conn' = [conn EXCEPT ![c] = "backlog"]
       \/ /\ ~running
          /\ client' = [client EXCEPT ![c] = "gone"]
          /\ UNCHANGED conn
    /\ UNCHANGED <<up, down, serving, running>>

FirstSend(c) ==
    /\ client[c] = "connected"
    /\ Send(c, "Status")
    /\ UNCHANGED <<conn, down, serving, running>>

\* WaitForMsg returns a message, and its handler the next request - except for the
\* last of the locations, with which the user is asked first.
Receive(c) ==
    /\ client[c] = "waiting" /\ down[c] # <<>>
    /\ down' = [down EXCEPT ![c] = Tail(@)]
    /\ \/ Send(c, "Locations")
       \/ /\ Head(down[c]) = "Locations"
          /\ client' = [client EXCEPT ![c] = "prompt"]
          /\ UNCHANGED up
    /\ UNCHANGED <<conn, serving, running>>

\* GetRouteRequest: the user has entered two locations.
Choose(c) ==
    /\ client[c] = "prompt"
    /\ Send(c, "Route")
    /\ UNCHANGED <<conn, down, serving, running>>

\* WaitForMsg throws at the client's end, and its main returns.
ConnectionLost(c) ==
    /\ client[c] = "waiting"
    /\ conn[c] = "closed" /\ down[c] = <<>>
    /\ client' = [client EXCEPT ![c] = "gone"]
    /\ UNCHANGED <<conn, up, down, serving, running>>

\* The user interrupts the client, which has no other way to leave, or it fails.
Leave(c) ==
    /\ client[c] \in {"connected", "waiting", "prompt"}
    /\ client' = [client EXCEPT ![c] = "gone"]
    /\ down' = [down EXCEPT ![c] = <<>>]
    /\ UNCHANGED <<conn, up, serving, running>>

-----------------------------------------------------------------------------

ServerStep(c) == Accept(c) \/ Answer(c) \/ EndSession(c) \/ AnswerFails(c) \/ WaitFails(c)

\* What a client that is running does by itself.
ClientStep(c) == FirstSend(c) \/ Receive(c) \/ ConnectionLost(c)

ServiceNext ==
    \E c \in Clients :
        ServerStep(c) \/ ClientStep(c) \/ StartSession(c) \/ Choose(c) \/ Leave(c)

ServiceSpec == ServiceInit /\ [][ServiceNext]_serviceVars

-----------------------------------------------------------------------------

ServiceTypeOK ==
    /\ client \in [Clients -> {"off", "connected", "waiting", "prompt", "gone"}]
    /\ conn \in [Clients -> {"none", "backlog", "session", "closed"}]
    /\ up \in [Clients -> Seq(Messages)]
    /\ down \in [Clients -> Seq(Messages)]
    /\ serving \in Clients \cup {None}
    /\ running \in BOOLEAN
    /\ ~running => serving = None /\ \A c \in Clients : conn[c] \in {"none", "closed"}

\* The two ends of a connection take turns: there is never more than one message
\* under way, and none while the user is asked.  Both WaitForMsg and TcpMsgMatch
\* rely on it when they drop what they have read beyond a message.
OneMessageUnderWay ==
    \A c \in Clients :
        /\ Len(up[c]) + Len(down[c]) <= 1
        /\ client[c] \in {"connected", "prompt"} => up[c] = <<>> /\ down[c] = <<>>

\* A session that has had an answer is the one being served, so the handlers, which
\* share one RoutePlanner, never run in the middle of another session.
OneSessionAtATime ==
    \A c \in Clients :
        conn[c] = "session" /\ c # serving =>
            client[c] # "prompt" /\ down[c] = <<>> /\ up[c] \in {<<>>, <<"Status">>}
=============================================================================
