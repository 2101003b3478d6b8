-------------------------- MODULE RouteSystem_proof --------------------------
(***************************************************************************)
(* For any number of clients, any lists, pages and input: the server gives *)
(* whichever client is observed the session of RouteSession, as if there   *)
(* were no other client, so that every client has what RouteSession_proof  *)
(* proves of one.                                                          *)
(***************************************************************************)
EXTENDS RouteSystem, RouteService_proof

(* The messages of a kind, by the way they go.                                *)
RequestType(k) ==
    IF k = "Status" THEN "StatusRequest"
    ELSE IF k = "Locations" THEN "LocationsRequest" ELSE "RouteRequest"
ResponseType(k) ==
    IF k = "Status" THEN "StatusResponse"
    ELSE IF k = "Locations" THEN "LocationsResponse" ELSE "RouteResponse"

(* What the contents of a client's message and handler have to do with the    *)
(* state of its connection: its client k, connection n, directions u and d.   *)
Content(k, n, u, d, h, m) ==
    /\ u # <<>> => m.type = RequestType(Head(u))
    /\ d # <<>> => m.type = ResponseType(Head(d))
    /\ k = "prompt" => m.type = "Asking"
    /\ k \in {"off", "connected"} => m = StatusRequest
    /\ k = "off" => h = NewHandler
    /\ k = "waiting" => u # <<>> \/ d # <<>> \/ n = "closed"
    /\ n = "closed" /\ running => k = "gone" \/ m = Ended

ContentOf(c) == Content(client[c], conn[c], up[c], down[c], handler[c], msg[c])

ContentsInv ==
    /\ handler = [c \in Clients |-> handler[c]]
    /\ msg = [c \in Clients |-> msg[c]]
    /\ \A c \in Clients : ContentOf(c)

SystemInv == TurnsInv /\ ContentsInv

-----------------------------------------------------------------------------
(* What the handlers reply.                                                   *)

LEMMA AnswerTypes ==
    ASSUME NEW list, NEW m
    PROVE  /\ m.type = "StatusRequest" => Answered(list, m).type = "StatusResponse"
           /\ m.type = "LocationsRequest" =>
                 Answered(list, m) = Ended \/ Answered(list, m).type = "LocationsResponse"
           /\ m.type = "RouteRequest" =>
                 Answered(list, m) = Ended \/ Answered(list, m).type = "RouteResponse"
<1>1. CASE m.type = "StatusRequest"
  BY <1>1 DEF Answered, HandleStatusRequestMsg, StatusResponse
<1>2. CASE m.type = "LocationsRequest"
  <2>1. Answered(list, m) = HandleLocationsRequestMsg(list, m)
    BY <1>2 DEF Answered
  <2> QED
    BY <1>2, <2>1 DEF HandleLocationsRequestMsg, LocationsResponse
<1>3. CASE m.type = "RouteRequest"
  <2>1. Answered(list, m) = HandleRouteRequestMsg(list, m)
    BY <1>3 DEF Answered
  <2> QED
    BY <1>3, <2>1 DEF HandleRouteRequestMsg, RouteResponse
<1> QED
  BY <1>1, <1>2, <1>3

LEMMA HandledTypes ==
    ASSUME NEW h, NEW m,
           m.type \in {"StatusResponse", "LocationsResponse", "RouteResponse"}
    PROVE  Handled(h, m).reply.type \in {"LocationsRequest", "Asking"}
<1>1. CASE m.type = "StatusResponse"
  BY <1>1 DEF Handled, HandleStatusResponseMsg, Result, LocationsRequest
<1>2. CASE m.type = "LocationsResponse"
  <2>1. Handled(h, m) = HandleLocationsResponseMsg(h, m)
    BY <1>2 DEF Handled
  <2> QED
    BY <2>1 DEF HandleLocationsResponseMsg, Result, LocationsRequest, Asking
<1>3. CASE m.type = "RouteResponse"
  <2>1. Handled(h, m) = HandleRouteResponseMsg(h)
    BY <1>3 DEF Handled
  <2> QED
    BY <2>1 DEF HandleRouteResponseMsg, Result, LocationsRequest
<1> QED
  BY <1>1, <1>2, <1>3

LEMMA PromptTypes ==
    ASSUME NEW h, NEW m, NEW entry
    PROVE  GetRouteRequest(h, m, entry).reply.type \in {"RouteRequest", "Asking"}
BY DEF GetRouteRequest, Result, Request, RouteRequest, Asking

-----------------------------------------------------------------------------
(* The system takes the steps of the service.                                 *)

LEMMA StepsOfService == [SystemNext]_systemVars => [ServiceNext]_serviceVars
<1> SUFFICES ASSUME [SystemNext]_systemVars PROVE [ServiceNext]_serviceVars
  OBVIOUS
<1>1. CASE UNCHANGED systemVars
  BY <1>1 DEF systemVars, serviceVars
<1>2. ASSUME NEW c \in Clients, NEW entry \in Entries, Enter(c, entry)
      PROVE  [ServiceNext]_serviceVars
  BY <1>2 DEF Enter, ServiceNext
<1>3. ASSUME NEW c \in Clients, ServerSystemStep(c)
      PROVE  ServiceNext
  BY <1>3 DEF ServerSystemStep, AnswerRequest, EndOfSession, ServiceNext, ServerStep
<1>4. ASSUME NEW c \in Clients, ClientSystemStep(c)
      PROVE  ServiceNext
  BY <1>4 DEF ClientSystemStep, ReceiveResponse, ServiceNext, ClientStep
<1>5. ASSUME NEW c \in Clients, StartSession(c) \/ Leave(c)
      PROVE  ServiceNext
  BY <1>5 DEF ServiceNext
<1> QED
  BY <1>1, <1>2, <1>3, <1>4, <1>5 DEF SystemNext

(* The turns of RouteService hold with contents, too.                         *)
LEMMA TurnsOfSystem == SystemSpec => []TurnsInv
<1>1. SystemInit => ServiceInit
  BY DEF SystemInit
<1> QED
  BY <1>1, StepsOfService, InitTurns, NextTurns, PTL DEF SystemSpec

-----------------------------------------------------------------------------
(* The contents fit the turns.                                                *)

LEMMA InitContents == SystemInit => ContentsInv
BY DEF SystemInit, ServiceInit, ContentsInv, ContentOf, Content

(* The state of c's connection, by the turns of RouteService.                  *)
LEMMA SlotsOf ==
    ASSUME TurnsInv, NEW c \in Clients
    PROVE  /\ up[c] # <<>> => Head(up[c]) \in Messages /\ Tail(up[c]) = <<>>
           /\ down[c] # <<>> => Head(down[c]) \in Messages /\ Tail(down[c]) = <<>>
           /\ c # None
BY SlotFacts, NoneAssumption DEF TurnsInv, Types

(* A step that concerns one client leaves the contents of the others alone.   *)
LEMMA OthersKeepContents ==
    ASSUME ContentsInv, NEW c \in Clients, ContentOf(c)', running' = running,
           \A d \in Clients \ {c} :
              /\ client'[d] = client[d] /\ conn'[d] = conn[d]
              /\ up'[d] = up[d] /\ down'[d] = down[d]
              /\ handler'[d] = handler[d] /\ msg'[d] = msg[d],
           handler' = [d \in Clients |-> handler'[d]],
           msg' = [d \in Clients |-> msg'[d]]
    PROVE  ContentsInv'
<1>1. ASSUME NEW d \in Clients \ {c} PROVE ContentOf(d)'
  BY <1>1 DEF ContentsInv, ContentOf, Content
<1> QED
  BY <1>1 DEF ContentsInv

(* The end of the server loses requests, and closes the connections of those who *)
(* wait for an answer.                                                        *)
LEMMA StopContents ==
    ASSUME TurnsInv, ContentsInv, Stop, UNCHANGED <<client, down, handler, msg>>
    PROVE  ContentsInv'
<1>1. ASSUME NEW c \in Clients PROVE ContentOf(c)'
  <2>1. up'[c] = <<>> /\ ~running' /\ conn'[c] = AfterStop(conn[c])
    BY DEF Stop
  <2>2. client[c] = "waiting" => conn'[c] = "closed"
    BY <2>1 DEF TurnsInv, TurnOf, Turn, AfterStop
  <2> QED
    BY <2>1, <2>2 DEF ContentsInv, ContentOf, Content
<1> QED
  BY <1>1 DEF ContentsInv

(* The response is of the request's kind.                                     *)
LEMMA AnswerContents ==
    ASSUME TurnsInv, ContentsInv, NEW c \in Clients, AnswerRequest(c)
    PROVE  ContentsInv'
<1> USE DEF AnswerRequest, Answer, Consumed
<1>1. /\ Head(up[c]) \in Messages /\ Tail(up[c]) = <<>> /\ up[c] # <<>> /\ down[c] = <<>>
      /\ client[c] \in {"waiting", "gone"} /\ conn[c] = "session" /\ c # None
  BY SlotsOf DEF TurnsInv, Types, TurnOf, Turn, Attends
<1>2. msg'[c].type = ResponseType(Head(up[c]))
  <2>1. msg[c].type = RequestType(Head(up[c]))
    BY <1>1 DEF ContentsInv, ContentOf, Content
  <2>2. msg'[c] = Answered(locations', msg[c]) /\ msg'[c] # Ended
    BY DEF ContentsInv
  <2> QED
    BY <1>1, <2>1, <2>2, AnswerTypes DEF RequestType, ResponseType, Messages
<1>3. /\ up'[c] = <<>>
      /\ down'[c] = IF client[c] = "gone" THEN <<>> ELSE <<Head(up[c])>>
  BY <1>1, SlotFacts DEF TurnsInv, Types
<1>4. ContentOf(c)'
  <2>1. \A m \in Messages : <<m>> # <<>> /\ Head(<<m>>) = m
    OBVIOUS
  <2> QED
    BY <1>1, <1>2, <1>3, <2>1 DEF ContentOf, Content
<1> QED
  BY <1>4, OthersKeepContents DEF TurnsInv, Types, ContentsInv

(* A session ends without an answer, and with its connection.                 *)
LEMMA EndContents ==
    ASSUME TurnsInv, ContentsInv, NEW c \in Clients, EndOfSession(c)
    PROVE  ContentsInv'
<1> USE DEF EndOfSession, EndSession, SessionReleased
<1>1. client[c] \in {"waiting", "gone"} /\ down[c] = <<>>
  BY DEF TurnsInv, Types, TurnOf, Turn, Attends
<1>2. ContentOf(c)'
  BY <1>1 DEF TurnsInv, Types, ContentsInv, ContentOf, Content
<1> QED
  BY <1>2, OthersKeepContents DEF TurnsInv, Types, ContentsInv

(* The server's other steps leave the contents as they are.                   *)
LEMMA ServerContents ==
    ASSUME TurnsInv, ContentsInv, NEW c \in Clients,
           Accept(c) \/ AnswerFails(c) \/ WaitFails(c), UNCHANGED <<locations, handler, msg>>
    PROVE  ContentsInv'
<1>1. CASE Stop
  BY <1>1, StopContents DEF Accept, AnswerFails, WaitFails
<1>2. CASE ~Stop
  <2>1. /\ conn[c] = "backlog" /\ conn' = [conn EXCEPT ![c] = "session"]
        /\ UNCHANGED <<client, up, down, running>>
    BY <1>2 DEF Accept, AnswerFails, WaitFails
  <2>2. ContentOf(c)'
    BY <2>1 DEF TurnsInv, Types, ContentsInv, ContentOf, Content
  <2> QED
    BY <2>1, <2>2, OthersKeepContents DEF TurnsInv, Types, ContentsInv
<1> QED
  BY <1>1, <1>2

(* A message sent is of the kind its sender says, or lost with the connection. *)
LEMMA SendContents ==
    ASSUME TurnsInv, ContentsInv, NEW c \in Clients, NEW k \in Messages, Send(c, k),
           up[c] = <<>>, down'[c] = <<>>, UNCHANGED <<conn, running>>,
           \A d \in Clients \ {c} :
              down'[d] = down[d] /\ handler'[d] = handler[d] /\ msg'[d] = msg[d],
           handler' = [d \in Clients |-> handler'[d]],
           msg' = [d \in Clients |-> msg'[d]],
           msg'[c].type = RequestType(k),
           conn[c] = "closed" => ~running
    PROVE  ContentsInv'
<1>1. /\ client' = [client EXCEPT ![c] = "waiting"]
      /\ up' = IF conn[c] = "closed" THEN up ELSE [up EXCEPT ![c] = <<k>>]
  BY SlotFacts DEF Send, TurnsInv, Types
<1>2. <<k>> # <<>> /\ Head(<<k>>) = k
  OBVIOUS
<1>3. ContentOf(c)'
  BY <1>1, <1>2 DEF TurnsInv, Types, ContentOf, Content
<1> QED
  BY <1>1, <1>3, OthersKeepContents DEF TurnsInv, Types

(* The first message is the status request a client begins with.              *)
LEMMA FirstContents ==
    ASSUME TurnsInv, ContentsInv, NEW c \in Clients, FirstSend(c),
           UNCHANGED <<locations, handler, msg>>
    PROVE  ContentsInv'
<1>1. up[c] = <<>> /\ down[c] = <<>>
  BY DEF FirstSend, TurnsInv, TurnOf, Turn
<1>2. msg[c] = StatusRequest /\ (conn[c] = "closed" => ~running)
  BY DEF FirstSend, ContentsInv, ContentOf, Content, StatusRequest, Ended
<1>3. msg'[c].type = RequestType("Status")
  BY <1>2 DEF StatusRequest, RequestType
<1>4. /\ Send(c, "Status") /\ down'[c] = <<>> /\ UNCHANGED <<conn, running>>
      /\ \A d \in Clients \ {c} :
            down'[d] = down[d] /\ handler'[d] = handler[d] /\ msg'[d] = msg[d]
      /\ handler' = [d \in Clients |-> handler'[d]]
      /\ msg' = [d \in Clients |-> msg'[d]]
  BY <1>1 DEF FirstSend, ContentsInv
<1> QED
  BY <1>1, <1>2, <1>3, <1>4, SendContents DEF Messages

(* The handler replies with a request for locations, or the user is asked.    *)
LEMMA ReceiveContents ==
    ASSUME TurnsInv, ContentsInv, NEW c \in Clients, ReceiveResponse(c)
    PROVE  ContentsInv'
<1> USE DEF ReceiveResponse, Receive
<1> DEFINE result == Handled(handler[c], msg[c])
<1>1. /\ up[c] = <<>> /\ Tail(down[c]) = <<>> /\ Head(down[c]) \in Messages
      /\ down[c] # <<>>
  BY SlotsOf DEF TurnsInv, TurnOf, Turn
<1>2. /\ down'[c] = <<>> /\ UNCHANGED <<conn, running>>
      /\ \A d \in Clients \ {c} :
            down'[d] = down[d] /\ handler'[d] = handler[d] /\ msg'[d] = msg[d]
      /\ handler' = [d \in Clients |-> handler'[d]]
      /\ msg' = [d \in Clients |-> msg'[d]]
      /\ msg'[c] = result.reply
  BY <1>1 DEF TurnsInv, Types, ContentsInv
<1>3. msg[c].type = ResponseType(Head(down[c]))
  BY <1>1 DEF ContentsInv, ContentOf, Content
<1>4. conn[c] = "closed" => ~running
  BY <1>3 DEF ContentsInv, ContentOf, Content, ResponseType, Ended
<1>5. result.reply.type \in {"LocationsRequest", "Asking"}
  BY <1>3, HandledTypes DEF ResponseType
<1>6. CASE Send(c, "Locations")
  <2>1. client'[c] = "waiting"
    BY <1>6 DEF Send, TurnsInv, Types
  <2>2. msg'[c].type = RequestType("Locations")
    BY <1>2, <1>5, <2>1 DEF RequestType
  <2> QED
    BY <1>1, <1>2, <1>4, <1>6, <2>2, SendContents DEF Messages
<1>7. CASE client' = [client EXCEPT ![c] = "prompt"] /\ UNCHANGED up
  <2>1. client'[c] = "prompt"
    BY <1>7 DEF TurnsInv, Types
  <2>2. msg'[c].type = "Asking"
    BY <1>2, <2>1
  <2>3. ContentOf(c)'
    BY <1>1, <1>2, <1>4, <1>7, <2>1, <2>2 DEF ContentOf, Content
  <2> QED
    BY <1>2, <1>7, <2>3, OthersKeepContents DEF TurnsInv, Types
<1> QED
  BY <1>6, <1>7

(* The two numbers are still asked for, or sent.                               *)
LEMMA EnterContents ==
    ASSUME TurnsInv, ContentsInv, NEW c \in Clients, NEW entry \in Entries, Enter(c, entry)
    PROVE  ContentsInv'
<1> USE DEF Enter
<1> DEFINE result == GetRouteRequest(handler[c], msg[c], entry)
<1>1. up[c] = <<>> /\ down[c] = <<>>
  BY DEF TurnsInv, TurnOf, Turn
<1>2. /\ \A d \in Clients \ {c} : handler'[d] = handler[d] /\ msg'[d] = msg[d]
      /\ handler' = [d \in Clients |-> handler'[d]]
      /\ msg' = [d \in Clients |-> msg'[d]]
      /\ msg'[c] = result.reply
  BY DEF ContentsInv
<1>3. conn[c] = "closed" => ~running
  BY DEF ContentsInv, ContentOf, Content, Ended
<1>4. CASE result.reply.type = "RouteRequest"
  <2>1. Choose(c)
    BY <1>4
  <2>2. msg'[c].type = RequestType("Route")
    BY <1>2, <1>4 DEF RequestType
  <2> QED
    BY <1>1, <1>2, <1>3, <2>1, <2>2, SendContents DEF Choose, Messages
<1>5. CASE result.reply.type # "RouteRequest"
  <2>1. UNCHANGED serviceVars /\ msg'[c].type = "Asking"
    BY <1>2, <1>5, PromptTypes
  <2>2. ContentOf(c)'
    BY <1>1, <1>3, <2>1 DEF serviceVars, ContentOf, Content
  <2> QED
    BY <1>2, <2>1, <2>2, OthersKeepContents DEF serviceVars
<1> QED
  BY <1>4, <1>5

(* What a client has left in its connection is of the kind it was.            *)
LEMMA GoneContents ==
    ASSUME TurnsInv, ContentsInv, NEW c \in Clients, ConnectionLost(c) \/ Leave(c), Forgotten(c)
    PROVE  ContentsInv'
<1>1. /\ client' = [client EXCEPT ![c] = "gone"]
      /\ down'[c] = <<>>
      /\ \A d \in Clients \ {c} : down'[d] = down[d]
      /\ UNCHANGED <<conn, up, running>>
  BY DEF ConnectionLost, Leave, TurnsInv, Types
<1>2. ContentOf(c)'
  BY <1>1 DEF Forgotten, TurnsInv, Types, ContentsInv, ContentOf, Content
<1> QED
  BY <1>1, <1>2, OthersKeepContents DEF Forgotten, TurnsInv, Types, ContentsInv

(* A client that connects has its first message yet to send.                  *)
LEMMA StartContents ==
    ASSUME TurnsInv, ContentsInv, NEW c \in Clients, StartSession(c),
           UNCHANGED <<locations, handler, msg>>
    PROVE  ContentsInv'
<1>1. up[c] = <<>> /\ down[c] = <<>> /\ conn[c] = "none"
  BY DEF StartSession, TurnsInv, TurnOf, Turn
<1>2. ContentOf(c)'
  BY <1>1 DEF StartSession, TurnsInv, Types, ContentsInv, ContentOf, Content
<1> QED
  BY <1>2, OthersKeepContents DEF StartSession, TurnsInv, Types, ContentsInv

(* Every step keeps the contents of the messages in line with the turns.      *)
LEMMA NextContents == TurnsInv /\ ContentsInv /\ [SystemNext]_systemVars => ContentsInv'
<1> SUFFICES ASSUME TurnsInv, ContentsInv, [SystemNext]_systemVars PROVE ContentsInv'
  OBVIOUS
<1>1. CASE UNCHANGED systemVars
  BY <1>1 DEF systemVars, serviceVars, ContentsInv, ContentOf, Content
<1> QED
  BY <1>1, AnswerContents, EndContents, ServerContents, FirstContents, ReceiveContents,
     EnterContents, GoneContents, StartContents
     DEF SystemNext, ServerSystemStep, ClientSystemStep

(* In every reachable state what is under way on a connection is a message of  *)
(* the kind its two ends are at: a handler is never given a message of a kind  *)
(* that src/server.cpp and src/client.cpp do not expect of it.                *)
THEOREM ContentsInvariance == SystemSpec => []SystemInv
BY TurnsOfSystem, InitContents, NextContents, PTL DEF SystemSpec, SystemInv

-----------------------------------------------------------------------------
(* The handlers of the session and those of the system are the same.          *)

LEMMA SamePages ==
    ASSUME NEW list, NEW start, NEW page
    PROVE  /\ Session!PageFrom(list, start) = PageFrom(list, start)
           /\ Session!GetLocations(page) = GetLocations(page)
<1>1. Session!PageFrom(list, start) = PageFrom(list, start)
  BY DEF PageFrom, Session!PageFrom, FoldLeft, Session!FoldLeft, MapThenFoldSet,
         Session!MapThenFoldSet, AddLocation, Session!AddLocation, EmptyPage,
         Session!EmptyPage, Add, Session!Add, Max, Session!Max
<1>2. Session!GetLocations(page) = GetLocations(page)
  BY DEF GetLocations, Session!GetLocations, FlattenSeq, Session!FlattenSeq
<1> QED
  BY <1>1, <1>2

LEMMA SameAnswers ==
    ASSUME NEW list, NEW m
    PROVE  /\ Session!Answered(list, m) = Answered(list, m)
           /\ Session!GetLocationNames(list) = GetLocationNames(list)
<1>1. /\ Session!HandleStatusRequestMsg = HandleStatusRequestMsg
      /\ Session!HandleRouteRequestMsg(list, m) = HandleRouteRequestMsg(list, m)
  BY DEF HandleStatusRequestMsg, Session!HandleStatusRequestMsg, StatusResponse,
         Session!StatusResponse, HandleRouteRequestMsg, Session!HandleRouteRequestMsg,
         RouteResponse, Session!RouteResponse, Ended, Session!Ended
<1>2. Session!HandleLocationsRequestMsg(list, m) = HandleLocationsRequestMsg(list, m)
  BY SamePages DEF HandleLocationsRequestMsg, Session!HandleLocationsRequestMsg,
         LocationsResponse, Session!LocationsResponse, Ended, Session!Ended
<1>3. Session!Answered(list, m) = Answered(list, m)
  BY <1>1, <1>2 DEF Answered, Session!Answered
<1> QED
  BY <1>3 DEF GetLocationNames, Session!GetLocationNames

LEMMA SameReplies ==
    ASSUME NEW h, NEW m, NEW entry
    PROVE  /\ Session!Handled(h, m) = Handled(h, m)
           /\ Session!GetRouteRequest(h, m, entry) = GetRouteRequest(h, m, entry)
<1>1. /\ Session!HandleStatusResponseMsg(h) = HandleStatusResponseMsg(h)
      /\ Session!HandleRouteResponseMsg(h) = HandleRouteResponseMsg(h)
  BY DEF HandleStatusResponseMsg, Session!HandleStatusResponseMsg, Result, Session!Result,
         HandleRouteResponseMsg, Session!HandleRouteResponseMsg, ClearedCache,
         Session!ClearedCache, LocationsRequest, Session!LocationsRequest
<1>2. Session!HandleLocationsResponseMsg(h, m) = HandleLocationsResponseMsg(h, m)
  BY SamePages DEF HandleLocationsResponseMsg, Session!HandleLocationsResponseMsg, Result,
         Session!Result, LocationsRequest, Session!LocationsRequest, NextStart,
         Session!NextStart, Asking, Session!Asking
<1>3. Session!Handled(h, m) = Handled(h, m)
  BY <1>1, <1>2 DEF Handled, Session!Handled
<1>4. Session!GetRouteRequest(h, m, entry) = GetRouteRequest(h, m, entry)
  BY DEF GetRouteRequest, Session!GetRouteRequest, IsIndex, Session!IsIndex, Extracted,
         Session!Extracted, IsRead, Session!IsRead, CinAfter, Session!CinAfter, Chosen,
         Session!Chosen, Request, Session!Request, RouteRequest, Session!RouteRequest,
         Asking, Session!Asking, Result, Session!Result
<1> QED
  BY <1>3, <1>4

LEMMA SameConstants ==
    Session!NewHandler = NewHandler /\ Session!StatusRequest = StatusRequest /\ Session!Ended = Ended
BY DEF NewHandler, Session!NewHandler, StatusRequest, Session!StatusRequest, Ended, Session!Ended

-----------------------------------------------------------------------------
(* The observed client's session, step by step.                               *)

(* The message under way in it.                                               *)
MsgOf == IF client[Observed] = "gone" THEN Ended ELSE msg[Observed]

LEMMA StartsAsSession == SystemInit => Session!SessionInit
<1> SUFFICES ASSUME SystemInit PROVE Session!SessionInit
  OBVIOUS
<1>1. /\ locations \in Databases
      /\ client[Observed] = "off" /\ handler[Observed] = NewHandler
      /\ msg[Observed] = StatusRequest
  BY ObservedAssumption DEF SystemInit, ServiceInit
<1> QED
  BY <1>1, SameConstants DEF Session!SessionInit

(* While the server attends to another client, the observed one has not sent   *)
(* more than its first message, or its session is over.                       *)
LEMMA NotAttended ==
    ASSUME SystemInv, running, NEW c \in Clients \ {Observed}, Attends(c)
    PROVE  MsgOf.type \in {"StatusRequest", "Ended"}
<1> DEFINE o == Observed
<1>1. TurnOf(o) /\ ContentOf(o) /\ serving # o
  BY ObservedAssumption, NoneAssumption DEF SystemInv, TurnsInv, ContentsInv, Attends
<1>2. /\ client[o] \in {"off", "connected", "waiting", "prompt", "gone"}
      /\ conn[o] \in {"none", "backlog", "session", "closed"}
  BY ObservedAssumption DEF SystemInv, TurnsInv, Types
<1>3. StatusRequest.type = "StatusRequest" /\ Ended.type = "Ended"
  BY DEF StatusRequest, Ended
<1>4. CASE client[o] = "gone"
  BY <1>3, <1>4 DEF MsgOf
<1>5. CASE client[o] \in {"off", "connected"}
  BY <1>1, <1>3, <1>5 DEF MsgOf, ContentOf, Content
<1>6. CASE client[o] \in {"waiting", "prompt"} /\ conn[o] = "closed"
  BY <1>1, <1>3, <1>6 DEF MsgOf, ContentOf, Content
<1>7. CASE client[o] \in {"waiting", "prompt"} /\ conn[o] \in {"backlog", "session"}
  <2>1. client[o] = "waiting" /\ up[o] = <<"Status">>
    BY <1>1, <1>7 DEF TurnOf, Turn, ContentOf, Content
  <2>2. <<"Status">> # <<>> /\ Head(<<"Status">>) = "Status"
    OBVIOUS
  <2> QED
    BY <1>1, <2>1, <2>2 DEF MsgOf, ContentOf, Content, RequestType
<1> QED
  BY <1>1, <1>2, <1>4, <1>5, <1>6, <1>7 DEF TurnOf, Turn

LEMMA Stays ==
    ASSUME UNCHANGED locations, handler'[Observed] = handler[Observed], MsgOf' = MsgOf
    PROVE  UNCHANGED Session!sessionVars
BY DEF MsgOf, Session!sessionVars

LEMMA IsOver ==
    ASSUME UNCHANGED locations, handler'[Observed] = NewHandler, MsgOf' = Ended
    PROVE  Session!SessionNext
BY SameConstants DEF MsgOf, Session!SessionNext, Session!Exits

(* A list that is loaded for somebody else does not show.                     *)
LEMMA LoadsUnseen ==
    ASSUME NEW c \in Clients, LoadedFor(c), handler'[Observed] = handler[Observed],
           MsgOf' = MsgOf, MsgOf.type \in {"StatusRequest", "Ended"}
    PROVE  [Session!SessionNext]_(Session!sessionVars)
<1>1. CASE UNCHANGED locations
  BY <1>1, Stays
<1>2. CASE locations' \in GetLocationNames(locations)
  BY <1>2, SameAnswers DEF MsgOf, Session!SessionNext, Session!OtherSessionLoads
<1> QED
  BY <1>1, <1>2 DEF LoadedFor

(* The server handles the observed client's message, or somebody else's.      *)
LEMMA ServerIsSession ==
    ASSUME SystemInv, NEW c \in Clients, AnswerRequest(c) \/ EndOfSession(c)
    PROVE  [Session!SessionNext]_(Session!sessionVars)
<1>1. /\ running /\ Attends(c) /\ up[c] # <<>> /\ LoadedFor(c)
      /\ msg' = [msg EXCEPT ![c] = Answered(locations', @)]
      /\ UNCHANGED <<client, handler>>
  BY DEF AnswerRequest, EndOfSession, Answer, EndSession
<1>2. msg'[Observed] = IF c = Observed THEN Answered(locations', msg[c]) ELSE msg[Observed]
  BY <1>1, ObservedAssumption DEF SystemInv, ContentsInv
<1>3. CASE c # Observed
  <2>1. MsgOf.type \in {"StatusRequest", "Ended"}
    BY <1>1, <1>3, NotAttended
  <2>2. MsgOf' = MsgOf
    BY <1>1, <1>2, <1>3 DEF MsgOf
  <2> QED
    BY <1>1, <2>1, <2>2, LoadsUnseen
<1>4. CASE client[Observed] = "gone"
  <2>1. MsgOf' = Ended /\ MsgOf = Ended
    BY <1>1, <1>4 DEF MsgOf
  <2>2. MsgOf' = MsgOf /\ MsgOf.type \in {"StatusRequest", "Ended"}
    BY <2>1 DEF Ended
  <2> QED
    BY <1>1, <2>2, LoadsUnseen
<1>5. CASE c = Observed /\ client[Observed] # "gone"
  <2>1. MsgOf = msg[c] /\ MsgOf' = Answered(locations', msg[c])
    BY <1>1, <1>2, <1>5 DEF MsgOf
  <2>2. msg[c].type = RequestType(Head(up[c])) /\ Head(up[c]) \in Messages
    BY <1>1, SlotsOf DEF SystemInv, ContentsInv, ContentOf, Content
  <2>3. \/ msg[c].type = "StatusRequest" /\ UNCHANGED locations
        \/ /\ msg[c].type \in {"LocationsRequest", "RouteRequest"}
           /\ locations' \in GetLocationNames(locations)
    BY <1>1, <2>2 DEF LoadedFor, RequestType, Messages
  <2>4. Session!ServerHandles
    BY <1>1, <2>1, <2>3, SameAnswers DEF MsgOf, Session!ServerHandles
  <2> QED
    BY <2>4 DEF Session!SessionNext
<1> QED
  BY <1>3, <1>4, <1>5

(* A client handles its response.                                             *)
LEMMA ReceiveIsSession ==
    ASSUME SystemInv, NEW c \in Clients, ReceiveResponse(c)
    PROVE  [Session!SessionNext]_(Session!sessionVars)
<1> USE DEF ReceiveResponse, Receive
<1>1. client[c] = "waiting" /\ client'[c] \in {"waiting", "prompt"}
  BY DEF Send, SystemInv, TurnsInv, Types
<1>2. \A d \in Clients \ {c} : client'[d] = client[d]
  BY DEF Send, SystemInv, TurnsInv, Types
<1>3. CASE c # Observed
  <2>1. handler'[Observed] = handler[Observed] /\ MsgOf' = MsgOf
    BY <1>2, <1>3, ObservedAssumption DEF MsgOf, SystemInv, ContentsInv
  <2> QED
    BY <2>1, Stays
<1>4. CASE c = Observed
  <2>1. msg[c].type \in {"StatusResponse", "LocationsResponse", "RouteResponse"}
    BY SlotsOf DEF SystemInv, ContentsInv, ContentOf, Content, ResponseType
  <2>2. /\ handler'[c] = Handled(handler[c], msg[c]).handler
        /\ msg'[c] = Handled(handler[c], msg[c]).reply
    BY DEF SystemInv, ContentsInv
  <2>3. Session!ClientHandles
    BY <1>1, <1>4, <2>1, <2>2, SameReplies DEF Session!ClientHandles
  <2> QED
    BY <2>3 DEF Session!SessionNext
<1> QED
  BY <1>3, <1>4

(* A user types.                                                              *)
LEMMA EnterIsSession ==
    ASSUME SystemInv, NEW c \in Clients, NEW entry \in Entries, Enter(c, entry)
    PROVE  [Session!SessionNext]_(Session!sessionVars)
<1> USE DEF Enter
<1>1. client[c] = "prompt" /\ client'[c] \in {"waiting", "prompt"}
  BY DEF Choose, Send, serviceVars, SystemInv, TurnsInv, Types
<1>2. \A d \in Clients \ {c} : client'[d] = client[d]
  BY DEF Choose, Send, serviceVars, SystemInv, TurnsInv, Types
<1>3. CASE c # Observed
  <2>1. handler'[Observed] = handler[Observed] /\ MsgOf' = MsgOf
    BY <1>2, <1>3, ObservedAssumption DEF MsgOf, SystemInv, ContentsInv
  <2> QED
    BY <2>1, Stays
<1>4. CASE c = Observed
  <2>1. msg[c].type = "Asking"
    BY <1>1 DEF SystemInv, ContentsInv, ContentOf, Content
  <2>2. /\ handler'[c] = GetRouteRequest(handler[c], msg[c], entry).handler
        /\ msg'[c] = GetRouteRequest(handler[c], msg[c], entry).reply
    BY DEF SystemInv, ContentsInv
  <2>3. Session!Enter(entry)
    BY <1>1, <1>4, <2>1, <2>2, SameReplies DEF Session!Enter
  <2> QED
    BY <2>3 DEF Session!SessionNext
<1> QED
  BY <1>3, <1>4

(* A client connects, or is refused.                                          *)
LEMMA StartIsSession ==
    ASSUME SystemInv, NEW c \in Clients, StartSession(c), UNCHANGED <<locations, handler, msg>>
    PROVE  [Session!SessionNext]_(Session!sessionVars)
<1> USE DEF StartSession
<1>1. client' = [client EXCEPT ![c] = IF running THEN "connected" ELSE "gone"]
  OBVIOUS
<1>2. CASE c # Observed \/ running
  <2>1. MsgOf' = MsgOf
    BY <1>1, <1>2, ObservedAssumption DEF MsgOf, SystemInv, TurnsInv, Types
  <2> QED
    BY <2>1, Stays
<1>3. CASE c = Observed /\ ~running
  <2>1. handler'[Observed] = NewHandler
    BY <1>3 DEF SystemInv, ContentsInv, ContentOf, Content
  <2>2. MsgOf' = Ended
    BY <1>1, <1>3 DEF MsgOf, SystemInv, TurnsInv, Types
  <2> QED
    BY <2>1, <2>2, IsOver
<1> QED
  BY <1>2, <1>3

(* A client ends.                                                             *)
LEMMA GoneIsSession ==
    ASSUME SystemInv, NEW c \in Clients, ConnectionLost(c) \/ Leave(c), Forgotten(c)
    PROVE  [Session!SessionNext]_(Session!sessionVars)
<1>1. client' = [client EXCEPT ![c] = "gone"]
  BY DEF ConnectionLost, Leave
<1>2. CASE c # Observed
  <2>1. handler'[Observed] = handler[Observed] /\ MsgOf' = MsgOf
    BY <1>1, <1>2, ObservedAssumption
       DEF Forgotten, MsgOf, SystemInv, TurnsInv, Types, ContentsInv
  <2> QED
    BY <2>1, Stays DEF Forgotten
<1>3. CASE c = Observed
  <2>1. handler'[Observed] = NewHandler /\ MsgOf' = Ended
    BY <1>1, <1>3 DEF Forgotten, MsgOf, SystemInv, TurnsInv, Types, ContentsInv
  <2> QED
    BY <2>1, IsOver DEF Forgotten
<1> QED
  BY <1>2, <1>3

(* What the server does besides answering, and a first message that is sent.  *)
LEMMA RestIsUnseen ==
    ASSUME SystemInv, NEW c \in Clients,
           Accept(c) \/ AnswerFails(c) \/ WaitFails(c) \/ FirstSend(c),
           UNCHANGED <<locations, handler, msg>>
    PROVE  UNCHANGED Session!sessionVars
<1>1. MsgOf' = MsgOf
  BY ObservedAssumption DEF Accept, AnswerFails, WaitFails, FirstSend, Send, MsgOf,
     SystemInv, TurnsInv, Types
<1> QED
  BY <1>1, Stays

LEMMA NextIsSession ==
    SystemInv /\ [SystemNext]_systemVars => [Session!SessionNext]_(Session!sessionVars)
<1> SUFFICES ASSUME SystemInv, [SystemNext]_systemVars
             PROVE  [Session!SessionNext]_(Session!sessionVars)
  OBVIOUS
<1>1. CASE UNCHANGED systemVars
  BY <1>1, Stays DEF systemVars, serviceVars, MsgOf
<1> QED
  BY <1>1, ServerIsSession, ReceiveIsSession, EnterIsSession, StartIsSession, GoneIsSession,
     RestIsUnseen DEF SystemNext, ServerSystemStep, ClientSystemStep

(* However many clients there are, whatever they type and whenever they come,  *)
(* go or are cut off, the one that is observed has the session of RouteSession *)
(* with the server, and any client may be the observed one: the planner that  *)
(* all sessions share (server.cpp:51) never shows in another's answers.       *)
THEOREM ObservedIsServed == SystemSpec => SessionIsServed
BY ContentsInvariance, StartsAsSession, NextIsSession, PTL
   DEF SystemSpec, SessionIsServed, Session!SessionSpec

-----------------------------------------------------------------------------
(* What is proved of one session holds of every client's.  The theorems of    *)
(* RouteSession_proof are brought here by an instance of it, whose operators  *)
(* are those of Session by expansion.                                         *)

Alone ==
    INSTANCE RouteSession_proof
    WITH handler <- handler[Observed],
         msg <- IF client[Observed] = "gone" THEN Ended ELSE msg[Observed]

(* The constants are as RouteSession has them.                                *)
LEMMA AssumedAlone ==
    /\ Width \in [Names -> Nat]
    /\ \A n \in Names : Parts[n] \in Seq(Names)
    /\ MaxChars \in Nat
    /\ Databases \subseteq Seq(Names) /\ \A list \in Databases : Len(list) <= SizeMax
    /\ Edited \in BOOLEAN
    /\ SizeMax \in Nat
    /\ Entries \subseteq {Alone!Number(k) : k \in 0 .. SizeMax}
                           \cup {Alone!Word, Alone!TooBig, Alone!EndOfInput}
BY NameWidthAssumption, PartsAssumption, PageAssumption, DatabaseAssumption,
   EditedAssumption, EntriesAssumption
DEF Alone!Number, Alone!Word, Alone!TooBig, Alone!EndOfInput, Number, Word, TooBig, EndOfInput

LEMMA SameFolds ==
    ASSUME NEW list, NEW start, NEW page
    PROVE  /\ Alone!PageFrom(list, start) = PageFrom(list, start)
           /\ Alone!GetLocations(page) = GetLocations(page)
           /\ Alone!FoldLeft(Alone!AddLocation, Alone!EmptyPage, list)
                 = Session!FoldLeft(Session!AddLocation, Session!EmptyPage, list)
<1>1. Alone!PageFrom(list, start) = PageFrom(list, start)
  BY DEF PageFrom, Alone!PageFrom, FoldLeft, Alone!FoldLeft, MapThenFoldSet,
         Alone!MapThenFoldSet, AddLocation, Alone!AddLocation, EmptyPage,
         Alone!EmptyPage, Add, Alone!Add, Max, Alone!Max
<1>2. Alone!GetLocations(page) = GetLocations(page)
  BY DEF GetLocations, Alone!GetLocations, FlattenSeq, Alone!FlattenSeq
<1>3. Alone!FoldLeft(Alone!AddLocation, Alone!EmptyPage, list)
         = Session!FoldLeft(Session!AddLocation, Session!EmptyPage, list)
  BY DEF Session!FoldLeft, Alone!FoldLeft, Session!MapThenFoldSet, Alone!MapThenFoldSet,
         Session!AddLocation, Alone!AddLocation, Session!EmptyPage, Alone!EmptyPage,
         Session!Add, Alone!Add, Session!Max, Alone!Max
<1> QED
  BY <1>1, <1>2, <1>3

LEMMA AnswersAlone ==
    ASSUME NEW list, NEW m
    PROVE  /\ Alone!Answered(list, m) = Answered(list, m)
           /\ Alone!GetLocationNames(list) = GetLocationNames(list)
<1>1. /\ Alone!HandleStatusRequestMsg = HandleStatusRequestMsg
      /\ Alone!HandleRouteRequestMsg(list, m) = HandleRouteRequestMsg(list, m)
  BY DEF HandleStatusRequestMsg, Alone!HandleStatusRequestMsg, StatusResponse,
         Alone!StatusResponse, HandleRouteRequestMsg, Alone!HandleRouteRequestMsg,
         RouteResponse, Alone!RouteResponse, Ended, Alone!Ended
<1>2. Alone!HandleLocationsRequestMsg(list, m) = HandleLocationsRequestMsg(list, m)
  BY SameFolds DEF HandleLocationsRequestMsg, Alone!HandleLocationsRequestMsg,
         LocationsResponse, Alone!LocationsResponse, Ended, Alone!Ended
<1>3. Alone!Answered(list, m) = Answered(list, m)
  BY <1>1, <1>2 DEF Answered, Alone!Answered
<1> QED
  BY <1>3 DEF GetLocationNames, Alone!GetLocationNames

LEMMA RepliesAlone ==
    ASSUME NEW h, NEW m, NEW entry
    PROVE  /\ Alone!Handled(h, m) = Handled(h, m)
           /\ Alone!GetRouteRequest(h, m, entry) = GetRouteRequest(h, m, entry)
<1>1. /\ Alone!HandleStatusResponseMsg(h) = HandleStatusResponseMsg(h)
      /\ Alone!HandleRouteResponseMsg(h) = HandleRouteResponseMsg(h)
  BY DEF HandleStatusResponseMsg, Alone!HandleStatusResponseMsg, Result, Alone!Result,
         HandleRouteResponseMsg, Alone!HandleRouteResponseMsg, ClearedCache,
         Alone!ClearedCache, LocationsRequest, Alone!LocationsRequest
<1>2. Alone!HandleLocationsResponseMsg(h, m) = HandleLocationsResponseMsg(h, m)
  BY SameFolds DEF HandleLocationsResponseMsg, Alone!HandleLocationsResponseMsg, Result,
         Alone!Result, LocationsRequest, Alone!LocationsRequest, NextStart,
         Alone!NextStart, Asking, Alone!Asking
<1>3. Alone!Handled(h, m) = Handled(h, m)
  BY <1>1, <1>2 DEF Handled, Alone!Handled
<1>4. Alone!GetRouteRequest(h, m, entry) = GetRouteRequest(h, m, entry)
  BY DEF GetRouteRequest, Alone!GetRouteRequest, IsIndex, Alone!IsIndex, Extracted,
         Alone!Extracted, IsRead, Alone!IsRead, CinAfter, Alone!CinAfter, Chosen,
         Alone!Chosen, Request, Alone!Request, RouteRequest, Alone!RouteRequest,
         Asking, Alone!Asking, Result, Alone!Result
<1> QED
  BY <1>3, <1>4

LEMMA StartsAlone == Session!SessionInit => Alone!SessionInit
BY DEF Session!SessionInit, Alone!SessionInit, Session!NewHandler, Alone!NewHandler,
       Session!StatusRequest, Alone!StatusRequest

LEMMA NextAlone ==
    [Session!SessionNext]_(Session!sessionVars) => [Alone!SessionNext]_(Alone!sessionVars)
<1>1. Session!ServerHandles => Alone!ServerHandles
  BY SameAnswers, AnswersAlone DEF Session!ServerHandles, Alone!ServerHandles
<1>2. Session!ClientHandles => Alone!ClientHandles
  BY SameReplies, RepliesAlone DEF Session!ClientHandles, Alone!ClientHandles
<1>3. ASSUME NEW entry \in Entries PROVE Session!Enter(entry) => Alone!Enter(entry)
  BY SameReplies, RepliesAlone DEF Session!Enter, Alone!Enter
<1>4. Session!Exits => Alone!Exits
  BY DEF Session!Exits, Alone!Exits, Session!NewHandler, Alone!NewHandler,
         Session!Ended, Alone!Ended
<1>5. Session!OtherSessionLoads => Alone!OtherSessionLoads
  BY SameAnswers, AnswersAlone DEF Session!OtherSessionLoads, Alone!OtherSessionLoads
<1> QED
  BY <1>1, <1>2, <1>3, <1>4, <1>5
  DEF Session!SessionNext, Alone!SessionNext, Session!sessionVars, Alone!sessionVars

LEMMA ObservedAlone == SystemSpec => Alone!SessionSpec
<1>1. SystemSpec => Session!SessionSpec
  BY ObservedIsServed DEF SessionIsServed
<1> QED
  BY <1>1, StartsAlone, NextAlone, PTL DEF Session!SessionSpec, Alone!SessionSpec

(* Every client gets pages that fit, however many others there are.           *)
THEOREM EveryPageFits == SystemSpec => []Session!PageFits
<1>1. Alone!SessionSpec => []Alone!PageFits
  BY AssumedAlone, Alone!PagesFit
<1>2. Alone!PageFits => Session!PageFits
  BY DEF Alone!PageFits, Session!PageFits
<1> QED
  BY <1>1, <1>2, ObservedAlone, PTL

(* Every client requests what its user typed.                                 *)
THEOREM EveryRequestIsTheUsers ==
    ASSUME Session!NamesAreWhole
    PROVE  SystemSpec => []Session!RequestIsTheUsers
<1>1. Alone!NamesAreWhole
  BY DEF Session!NamesAreWhole, Alone!NamesAreWhole
<1>2. Alone!SessionSpec => []Alone!RequestIsTheUsers
  BY <1>1, AssumedAlone, Alone!RequestsAreTheUsers
<1>3. Alone!RequestIsTheUsers => Session!RequestIsTheUsers
  BY DEF Alone!RequestIsTheUsers, Session!RequestIsTheUsers
<1> QED
  BY <1>2, <1>3, ObservedAlone, PTL

LEMMA GaplessAlone == Session!GaplessLists => Alone!GaplessLists
<1>1. ASSUME NEW list PROVE Session!Gapless(list) => Alone!Gapless(list)
  BY SameFolds, Zenon DEF Session!Gapless, Alone!Gapless
<1>2. ASSUME NEW list, NEW starts
      PROVE  Session!PagesStartAt(list, starts) => Alone!PagesStartAt(list, starts)
  <2>1. \A start : Alone!PageFrom(list, start) = Session!PageFrom(list, start)
    BY SamePages, SameFolds
  <2>2. \A start : Session!Gapless(SubSeq(list, start + 1, Len(list)))
                      => Alone!Gapless(SubSeq(list, start + 1, Len(list)))
    BY <1>1
  <2> SUFFICES ASSUME Session!PagesStartAt(list, starts), NEW start \in starts
               PROVE  /\ 0 \in starts
                      /\ Alone!Gapless(SubSeq(list, start + 1, Len(list)))
                      /\ Alone!PageFrom(list, start).is_paginated =>
                            start + Len(Alone!PageFrom(list, start).names) \in starts
    BY Zenon DEF Alone!PagesStartAt, Session!PagesStartAt
  <2> QED
    BY <2>1, <2>2, Zenon DEF Session!PagesStartAt
<1> QED
  BY <1>2, Zenon DEF Session!GaplessLists, Alone!GaplessLists

(* Every user is offered the whole list, and shown the cost of the route it   *)
(* has chosen, when the files are left alone and the pages of their lists     *)
(* have no gaps: what other clients do changes neither.                       *)
THEOREM EveryUserIsServed ==
    ASSUME Session!NamesAreWhole, Session!GaplessLists, ~Edited
    PROVE  SystemSpec => [](Session!AllAreOffered /\ Session!CostIsForChosenRoute)
<1>1. Alone!NamesAreWhole /\ Alone!GaplessLists
  BY GaplessAlone DEF Session!NamesAreWhole, Alone!NamesAreWhole
<1>2. Alone!SessionSpec => []Alone!AllAreOffered
  BY <1>1, AssumedAlone, Alone!EveryLocationIsOffered
<1>3. Alone!SessionSpec => []Alone!CostIsForChosenRoute
  BY <1>1, AssumedAlone, Alone!CostIsOfTheChosenRoute
<1>4. /\ Alone!AllAreOffered => Session!AllAreOffered
      /\ Alone!CostIsForChosenRoute => Session!CostIsForChosenRoute
  BY DEF Alone!AllAreOffered, Session!AllAreOffered, Alone!CostIsForChosenRoute,
         Session!CostIsForChosenRoute
<1> QED
  BY <1>2, <1>3, <1>4, ObservedAlone, PTL
=============================================================================
