------------------------- MODULE RouteService_proof -------------------------
(***************************************************************************)
(* For any number of clients: the two ends of every connection take turns, *)
(* and the server serves one session at a time.                            *)
(***************************************************************************)
EXTENDS RouteService, TLAPS

(* At most one message is in a direction of a connection.                     *)
Slots == {<<>>} \cup {<<m>> : m \in Messages}

(* What the invariant says of a client's connection, given the state of its   *)
(* client k, its connection n, its two directions and whether it is served.   *)
Turn(k, n, u, d, served) ==
    /\ u = <<>> \/ d = <<>>
    /\ k \in {"off", "connected", "prompt"} => u = <<>> /\ d = <<>>
    /\ d # <<>> => k = "waiting"
    /\ k = "off" => n = "none"
    /\ n = "none" => k \in {"off", "gone"} /\ u = <<>>
    /\ n \in {"backlog", "session"} /\ ~served =>
          k # "prompt" /\ d = <<>> /\ u \in {<<>>, <<"Status">>}
    /\ k = "connected" => ~served
    /\ n = "closed" => u = <<>>
    /\ served => n = "session"

Types ==
    /\ client \in [Clients -> {"off", "connected", "waiting", "prompt", "gone"}]
    /\ conn \in [Clients -> {"none", "backlog", "session", "closed"}]
    /\ up \in [Clients -> Slots]
    /\ down \in [Clients -> Slots]
    /\ serving \in Clients \cup {None}
    /\ running \in BOOLEAN
    /\ ~running => serving = None /\ \A c \in Clients : conn[c] \in {"none", "closed"}

TurnOf(c) == Turn(client[c], conn[c], up[c], down[c], serving = c)

TurnsInv == Types /\ \A c \in Clients : TurnOf(c)

-----------------------------------------------------------------------------

(* A slot that is not empty holds one message, and an empty one takes one.    *)
LEMMA SlotFacts ==
    /\ <<>> \in Slots
    /\ \A q \in Slots : q # <<>> => Head(q) \in Messages /\ Tail(q) = <<>> /\ q = <<Head(q)>>
    /\ \A m \in Messages : <<m>> \in Slots /\ Append(<<>>, m) = <<m>> /\ <<m>> # <<>>
    /\ \A q \in Slots : q \in Seq(Messages) /\ Len(q) <= 1 /\ (q = <<>> <=> Len(q) = 0)
<1>1. ASSUME NEW m \in Messages
      PROVE  /\ <<m>> \in Seq(Messages) /\ Len(<<m>>) = 1 /\ Head(<<m>>) = m
             /\ Tail(<<m>>) = <<>> /\ Append(<<>>, m) = <<m>> /\ <<m>> # <<>>
  OBVIOUS
<1>2. <<>> \in Seq(Messages) /\ Len(<<>>) = 0
  OBVIOUS
<1>3. <<>> \in Slots /\ \A m \in Messages : <<m>> \in Slots
  BY DEF Slots
<1>4. ASSUME NEW q \in Slots PROVE q = <<>> \/ \E m \in Messages : q = <<m>>
  BY DEF Slots
<1>5. ASSUME NEW q \in Slots, q # <<>>
      PROVE  Head(q) \in Messages /\ Tail(q) = <<>> /\ q = <<Head(q)>> /\ q \in Seq(Messages) /\ Len(q) = 1
  <2>1. PICK m \in Messages : q = <<m>>
    BY <1>4, <1>5
  <2> QED
    BY <1>1, <2>1
<1>6. ASSUME NEW q \in Slots
      PROVE  q \in Seq(Messages) /\ Len(q) <= 1 /\ (q = <<>> <=> Len(q) = 0)
  <2>1. CASE q = <<>>
    BY <1>2, <2>1
  <2>2. CASE q # <<>>
    <3>1. q \in Seq(Messages) /\ Len(q) = 1
      BY <1>5, <2>2, Zenon
    <3> QED
      BY <2>2, <3>1
  <2> QED
    BY <2>1, <2>2
<1>7. \A m \in Messages : <<m>> \in Slots /\ Append(<<>>, m) = <<m>> /\ <<m>> # <<>>
  BY <1>1, <1>3, Zenon
<1>8. \A q \in Slots : q # <<>> => Head(q) \in Messages /\ Tail(q) = <<>> /\ q = <<Head(q)>>
  BY <1>5, Zenon
<1>9. \A q \in Slots : q \in Seq(Messages) /\ Len(q) <= 1 /\ (q = <<>> <=> Len(q) = 0)
  BY <1>6, Zenon
<1> QED
  BY <1>3, <1>7, <1>8, <1>9, Zenon

(* No client has done anything.                                               *)
LEMMA InitTurns == ServiceInit => TurnsInv
BY SlotFacts, NoneAssumption DEF ServiceInit, TurnsInv, Types, TurnOf, Turn

(* The end of the server empties what clients have sent.                      *)
LEMMA StopTurns ==
    ASSUME TurnsInv, Stop, UNCHANGED <<client, down>>,
           running
    PROVE  TurnsInv'
<1>1. Types'
  BY SlotFacts DEF TurnsInv, Types, Stop, AfterStop
<1>2. ASSUME NEW c \in Clients PROVE TurnOf(c)'
  <2>1. TurnOf(c) /\ c # None
    BY NoneAssumption DEF TurnsInv
  <2>2. /\ conn'[c] = AfterStop(conn[c]) /\ up'[c] = <<>> /\ serving' # c
        /\ client'[c] = client[c] /\ down'[c] = down[c]
    BY <2>1 DEF Stop
  <2>3. conn[c] \in {"none", "backlog", "session", "closed"}
    BY DEF TurnsInv, Types
  <2> QED
    BY <2>1, <2>2, <2>3 DEF TurnOf, Turn, AfterStop
<1> QED
  BY <1>1, <1>2 DEF TurnsInv

(* A step of one client's connection leaves the others as they are.           *)
LEMMA OthersKeepTurns ==
    ASSUME TurnsInv, NEW c \in Clients, Types', TurnOf(c)',
           \A d \in Clients \ {c} :
              /\ client'[d] = client[d] /\ conn'[d] = conn[d]
              /\ up'[d] = up[d] /\ down'[d] = down[d]
              /\ (serving' = d) = (serving = d)
    PROVE  TurnsInv'
<1>1. ASSUME NEW d \in Clients \ {c} PROVE TurnOf(d)'
  BY <1>1 DEF TurnsInv, TurnOf
<1> QED
  BY <1>1 DEF TurnsInv

(* Accepting a connection does not touch its messages, of which Status at
   most is there. *)
LEMMA AcceptTurns == ASSUME TurnsInv, NEW c \in Clients, Accept(c) PROVE TurnsInv'
<1>1. CASE Stop
  BY <1>1, StopTurns DEF Accept
<1>2. CASE conn' = [conn EXCEPT ![c] = "session"] /\ UNCHANGED <<up, serving, running>>
  <2>1. Types'
    BY <1>2 DEF TurnsInv, Types, Accept
  <2>2. TurnOf(c)'
    BY <1>2, NoneAssumption DEF TurnsInv, Types, TurnOf, Turn, Accept
  <2> QED
    BY <1>2, <2>1, <2>2, OthersKeepTurns DEF TurnsInv, Types, Accept
<1> QED
  BY <1>1, <1>2 DEF Accept

(* The answer takes the place of the request.                                 *)
LEMMA AnswerTurns == ASSUME TurnsInv, NEW c \in Clients, Answer(c) PROVE TurnsInv'
<1> USE DEF Answer, Attends, Consumed
<1>1. /\ up[c] \in Slots /\ up[c] # <<>> /\ down[c] = <<>>
      /\ Head(up[c]) \in Messages /\ Tail(up[c]) = <<>>
  BY SlotFacts DEF TurnsInv, Types, TurnOf, Turn
<1>2. /\ up' = [up EXCEPT ![c] = <<>>]
      /\ down' = [down EXCEPT ![c] = IF client[c] = "gone" THEN <<>> ELSE <<Head(up[c])>>]
  BY <1>1, SlotFacts DEF TurnsInv, Types
<1>3. Types'
  <2>1. up' \in [Clients -> Slots]
    BY <1>2, SlotFacts DEF TurnsInv, Types
  <2>2. (IF client[c] = "gone" THEN <<>> ELSE <<Head(up[c])>>) \in Slots
    BY <1>1, SlotFacts
  <2>3. down' \in [Clients -> Slots]
    BY <1>2, <2>2 DEF TurnsInv, Types
  <2> QED
    BY <2>1, <2>3 DEF TurnsInv, Types
<1>4. TurnOf(c)'
  <2>1. up'[c] = <<>> /\ (client[c] = "gone" => down'[c] = <<>>)
    BY <1>2 DEF TurnsInv, Types
  <2>2. client[c] \in {"waiting", "gone"}
    BY <1>1 DEF TurnsInv, Types, TurnOf, Turn
  <2> QED
    BY <2>1, <2>2 DEF TurnsInv, TurnOf, Turn
<1>5. \A d \in Clients \ {c} : (serving' = d) = (serving = d)
  BY NoneAssumption
<1> QED
  BY <1>2, <1>3, <1>4, <1>5, OthersKeepTurns DEF TurnsInv, Types

(* The connection is closed, and the server is free.                          *)
LEMMA EndSessionTurns == ASSUME TurnsInv, NEW c \in Clients, EndSession(c) PROVE TurnsInv'
<1> USE DEF EndSession, Attends, SessionReleased
<1>1. Types'
  BY SlotFacts DEF TurnsInv, Types
<1>2. TurnOf(c)'
  BY NoneAssumption DEF TurnsInv, Types, TurnOf, Turn
<1>3. \A d \in Clients \ {c} : (serving' = d) = (serving = d)
  BY NoneAssumption
<1> QED
  BY <1>1, <1>2, <1>3, OthersKeepTurns DEF TurnsInv, Types

(* A client that has nothing under way, and is served if it has been answered, *)
(* may send.                                                                  *)
LEMMA SendTurns ==
    ASSUME TurnsInv, NEW c \in Clients, NEW m \in Messages, Send(c, m),
           UNCHANGED <<conn, serving, running>>,
           down' \in [Clients -> Slots],
           \A d \in Clients : down'[d] = IF d = c THEN <<>> ELSE down[d],
           up[c] = <<>>,
           client[c] \in {"connected", "waiting", "prompt"},
           client[c] = "connected" => m = "Status",
           client[c] # "connected" => serving = c \/ conn[c] = "closed"
    PROVE  TurnsInv'
<1>1. /\ client' = [client EXCEPT ![c] = "waiting"]
      /\ up' = IF conn[c] = "closed" THEN up ELSE [up EXCEPT ![c] = <<m>>]
  BY SlotFacts DEF Send, TurnsInv, Types
<1>2. Types'
  BY <1>1, SlotFacts DEF TurnsInv, Types
<1>3. TurnOf(c)'
  BY <1>1 DEF TurnsInv, Types, TurnOf, Turn
<1> QED
  BY <1>1, <1>2, <1>3, OthersKeepTurns DEF TurnsInv, Types

(* A new connection is in the backlog, or refused. *)
LEMMA StartSessionTurns == ASSUME TurnsInv, NEW c \in Clients, StartSession(c) PROVE TurnsInv'
<1> USE DEF StartSession
<1>1. Types'
  BY DEF TurnsInv, Types
<1>2. TurnOf(c)'
  BY DEF TurnsInv, Types, TurnOf, Turn
<1> QED
  BY <1>1, <1>2, OthersKeepTurns DEF TurnsInv, Types

(* The first message is a status request, on a connection that is empty. *)
LEMMA FirstSendTurns == ASSUME TurnsInv, NEW c \in Clients, FirstSend(c) PROVE TurnsInv'
<1>1. up[c] = <<>> /\ down[c] = <<>>
  BY DEF FirstSend, TurnsInv, TurnOf, Turn
<1> QED
  BY <1>1, SendTurns DEF FirstSend, TurnsInv, Types, Messages

(* A message under way to a client leaves no room for one from it.            *)
LEMMA ReceiveTurns == ASSUME TurnsInv, NEW c \in Clients, Receive(c) PROVE TurnsInv'
<1> USE DEF Receive
<1>1. /\ down[c] \in Slots /\ up[c] = <<>>
      /\ Head(down[c]) \in Messages /\ Tail(down[c]) = <<>>
  BY SlotFacts DEF TurnsInv, Types, TurnOf, Turn
<1>2. serving = c \/ conn[c] = "closed"
  BY DEF TurnsInv, Types, TurnOf, Turn
<1>3. /\ down' = [down EXCEPT ![c] = <<>>] /\ down' \in [Clients -> Slots]
      /\ \A d \in Clients : down'[d] = IF d = c THEN <<>> ELSE down[d]
  BY <1>1, SlotFacts DEF TurnsInv, Types
<1>4. CASE \E m \in Messages : Send(c, m)
  BY <1>1, <1>2, <1>3, <1>4, SendTurns
<1>5. CASE client' = [client EXCEPT ![c] = "prompt"] /\ UNCHANGED up
  <2>1. Types'
    BY <1>3, <1>5 DEF TurnsInv, Types
  <2>2. TurnOf(c)'
    BY <1>1, <1>2, <1>3, <1>5 DEF TurnsInv, Types, TurnOf, Turn
  <2> QED
    BY <1>3, <1>5, <2>1, <2>2, OthersKeepTurns DEF TurnsInv, Types
<1> QED
  BY <1>4, <1>5 DEF Messages

(* A client is asked only while its connection is empty and its session served. *)
LEMMA ChooseTurns == ASSUME TurnsInv, NEW c \in Clients, Choose(c) PROVE TurnsInv'
<1>1. up[c] = <<>> /\ down[c] = <<>> /\ client[c] = "prompt"
  BY DEF Choose, TurnsInv, TurnOf, Turn
<1>2. serving = c \/ conn[c] = "closed"
  BY <1>1 DEF TurnsInv, Types, TurnOf, Turn
<1> QED
  BY <1>1, <1>2, SendTurns DEF Choose, TurnsInv, Types, Messages

(* A client that is gone reads nothing more.                                  *)
LEMMA GoneTurns ==
    ASSUME TurnsInv, NEW c \in Clients, ConnectionLost(c) \/ Leave(c)
    PROVE  TurnsInv'
<1>1. /\ client' = [client EXCEPT ![c] = "gone"]
      /\ down' = [down EXCEPT ![c] = <<>>]
      /\ UNCHANGED <<conn, up, serving, running>>
      /\ client[c] # "off"
  BY DEF ConnectionLost, Leave, TurnsInv, Types
<1>2. Types'
  BY <1>1, SlotFacts DEF TurnsInv, Types
<1>3. TurnOf(c)'
  BY <1>1 DEF TurnsInv, Types, TurnOf, Turn
<1> QED
  BY <1>1, <1>2, <1>3, OthersKeepTurns DEF TurnsInv, Types

(* Every step keeps the invariant.                                            *)
LEMMA NextTurns == TurnsInv /\ [ServiceNext]_serviceVars => TurnsInv'
<1> SUFFICES ASSUME TurnsInv, [ServiceNext]_serviceVars PROVE TurnsInv'
  OBVIOUS
<1>1. CASE UNCHANGED serviceVars
  BY <1>1 DEF serviceVars, TurnsInv, Types, TurnOf
<1>2. ASSUME NEW c \in Clients, AnswerFails(c) \/ WaitFails(c) PROVE TurnsInv'
  BY <1>2, StopTurns DEF AnswerFails, WaitFails
<1> QED
  BY <1>1, <1>2, AcceptTurns, AnswerTurns, EndSessionTurns, StartSessionTurns,
     FirstSendTurns, ReceiveTurns, ChooseTurns, GoneTurns
     DEF ServiceNext, ServerStep, ClientStep

(* In every reachable state each client and the server take turns on their
   connection, whatever fails or ends: TcpServer, TcpSession and both handlers. *)
THEOREM TurnsInvariance == ServiceSpec => []TurnsInv
BY InitTurns, NextTurns, PTL DEF ServiceSpec

-----------------------------------------------------------------------------

(* The state of the server, its clients and their connections is well typed   *)
(* whatever they do.                                                          *)
THEOREM ServiceTypeCorrect == ServiceSpec => []ServiceTypeOK
<1>1. TurnsInv => ServiceTypeOK
  BY SlotFacts DEF TurnsInv, Types, ServiceTypeOK
<1> QED
  BY <1>1, TurnsInvariance, PTL

(* Each connection carries one message at a time, so the readers that drop    *)
(* what they have read beyond a message drop nothing.                         *)
THEOREM TurnsAreTaken == ServiceSpec => []OneMessageUnderWay
<1>1. TurnsInv => OneMessageUnderWay
  <2> SUFFICES ASSUME TurnsInv, NEW c \in Clients
               PROVE  /\ Len(up[c]) + Len(down[c]) <= 1
                      /\ client[c] \in {"connected", "prompt"} => up[c] = <<>> /\ down[c] = <<>>
    BY DEF OneMessageUnderWay
  <2>1. up[c] \in Slots /\ down[c] \in Slots
    BY DEF TurnsInv, Types
  <2>2. Len(up[c]) \in {0, 1} /\ Len(down[c]) \in {0, 1}
    BY <2>1 DEF Slots
  <2>3. Len(up[c]) = 0 \/ Len(down[c]) = 0
    BY <2>1, SlotFacts DEF TurnsInv, TurnOf, Turn
  <2>4. Len(up[c]) + Len(down[c]) <= 1
    <3>1. \A a, b \in {0, 1} : a = 0 \/ b = 0 => a + b <= 1
      OBVIOUS
    <3> QED
      BY <2>2, <2>3, <3>1, Zenon
  <2>5. client[c] \in {"connected", "prompt"} => up[c] = <<>> /\ down[c] = <<>>
    BY DEF TurnsInv, TurnOf, Turn
  <2> QED
    BY <2>4, <2>5
<1> QED
  BY <1>1, TurnsInvariance, PTL

(* The handlers, which share a planner, serve one session at a time.          *)
THEOREM SessionsDoNotMix == ServiceSpec => []OneSessionAtATime
<1>1. TurnsInv => OneSessionAtATime
  BY DEF TurnsInv, TurnOf, Turn, OneSessionAtATime
<1> QED
  BY <1>1, TurnsInvariance, PTL
=============================================================================
