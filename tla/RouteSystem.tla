---------------------------- MODULE RouteSystem ----------------------------
(***************************************************************************)
(* The server and its clients with what their messages say: RouteService   *)
(* has the processes and their connections, RouteHandlers what the         *)
(* handlers answer.  The server's planner, with the list of locations it   *)
(* has loaded, is shared by all sessions.  Every action is one of          *)
(* RouteService together with what it does to the contents.                *)
(***************************************************************************)
EXTENDS RouteService, RouteHandlers

CONSTANT Observed   \* any client: the one whose session is compared

ASSUME ObservedAssumption == Observed \in Clients

VARIABLES locations,   \* in the server's planner
          handler,     \* the ClientMsgHandler of each client
          msg          \* of each, the message under way on its connection

systemVars == <<serviceVars, locations, handler, msg>>

SystemInit ==
    /\ ServiceInit
    /\ locations \in Databases
    /\ handler = [c \in Clients |-> NewHandler]
    /\ msg = [c \in Clients |-> StatusRequest]

-----------------------------------------------------------------------------
(* The server                                                                *)

\* The request is answered with the list as it is loaded now.
LoadedFor(c) ==
    IF Head(up[c]) = "Status" THEN UNCHANGED locations
                              ELSE locations' \in GetLocationNames(locations)

AnswerRequest(c) ==
    /\ Answer(c)
    /\ LoadedFor(c)
    /\ msg' = [msg EXCEPT ![c] = Answered(locations', @)]
    /\ msg'[c] # Ended
    /\ UNCHANGED handler

EndOfSession(c) ==
    /\ EndSession(c)
    /\ LoadedFor(c)
    /\ msg' = [msg EXCEPT ![c] = Answered(locations', @)]
    /\ msg'[c] = Ended
    /\ UNCHANGED handler

ServerSystemStep(c) ==
    \/ AnswerRequest(c)
    \/ EndOfSession(c)
    \/ (Accept(c) \/ AnswerFails(c) \/ WaitFails(c)) /\ UNCHANGED <<locations, handler, msg>>

-----------------------------------------------------------------------------
(* The clients                                                               *)

ReceiveResponse(c) ==
    /\ Receive(c)
    /\ LET result == Handled(handler[c], msg[c]) IN
          /\ handler' = [handler EXCEPT ![c] = result.handler]
          /\ msg' = [msg EXCEPT ![c] = result.reply]
          /\ result.reply.type = "Asking" <=> client'[c] = "prompt"
    /\ UNCHANGED locations

\* The program is gone with what its handler held; a message it had sent is still
\* the server's to handle.
Forgotten(c) ==
    /\ handler' = [handler EXCEPT ![c] = NewHandler]
    /\ msg' = [msg EXCEPT ![c] = IF up[c] = <<>> THEN Ended ELSE @]
    /\ UNCHANGED locations

ClientSystemStep(c) ==
    \/ FirstSend(c) /\ UNCHANGED <<locations, handler, msg>>
    \/ ReceiveResponse(c)
    \/ ConnectionLost(c) /\ Forgotten(c)

\* The user types, and after the second number that is accepted the client asks for
\* the route.
Enter(c, entry) ==
    /\ client[c] = "prompt"
    /\ LET result == GetRouteRequest(handler[c], msg[c], entry) IN
          /\ handler' = [handler EXCEPT ![c] = result.handler]
          /\ msg' = [msg EXCEPT ![c] = result.reply]
          /\ IF result.reply.type = "RouteRequest" THEN Choose(c)
                                                   ELSE UNCHANGED serviceVars
    /\ UNCHANGED locations

SystemNext ==
    \E c \in Clients :
        \/ ServerSystemStep(c)
        \/ ClientSystemStep(c)
        \/ \E entry \in Entries : Enter(c, entry)
        \/ StartSession(c) /\ UNCHANGED <<locations, handler, msg>>
        \/ Leave(c) /\ Forgotten(c)

SystemSpec == SystemInit /\ [][SystemNext]_systemVars

\* The user types a number of those shown.
EnterIndex(c) ==
    \E entry \in Entries :
        /\ entry.kind = "number" /\ entry.value < Len(handler[c].m_locations_cache)
        /\ Enter(c, entry)

\* The processes run, io_context::run reaches every connection that is ready, and
\* a user who is asked types an index sooner or later.  Nobody has to connect or to
\* leave.
FairSystemSpec ==
    /\ SystemSpec
    /\ \A c \in Clients :
          /\ WF_systemVars(ServerSystemStep(c))
          /\ WF_systemVars(ClientSystemStep(c))
          /\ WF_systemVars(EnterIndex(c))

-----------------------------------------------------------------------------

\* What the observed client and the server have together.
Session ==
    INSTANCE RouteSession
    WITH handler <- handler[Observed],
         msg <- IF client[Observed] = "gone" THEN Ended ELSE msg[Observed]

\* Whichever client is observed, it has a session of its own, as if the server had
\* no other client: the handlers share one planner, and every load replaces its
\* list, but never between the messages of somebody else's session.
SessionIsServed == Session!SessionSpec

\* No client waits for ever for a server that attends to nobody, or to that client:
\* an answer comes, or the end of the connection.  (It may wait for ever while
\* another client is served: a session goes on as long as its user asks.)
NoWaitWithoutCause ==
    \A c \in Clients :
        []<>(client[c] # "waiting" \/ serving \notin {c, None})

\* GetRouteRequest asks for ever and reads nothing any more.
AsksForEver(c) == client[c] = "prompt" /\ handler[c].cin = "failed"

\* When the server exits every client finds out, wherever in its session or in the
\* backlog it was - but for one whose std::cin has failed: it never sends again.
ServersEndIsNoticed ==
    \A c \in Clients : ~running ~> client[c] \in {"off", "gone"} \/ AsksForEver(c)
=============================================================================
