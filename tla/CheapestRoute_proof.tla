------------------------- MODULE CheapestRoute_proof -------------------------
(***************************************************************************)
(* What GetRouteCost answers, for every database, whatever its size and    *)
(* its costs: min_index is assigned whenever it is returned, every toll is *)
(* earned, and (as long as the costs fit an int) no route is cheaper:      *)
(* cutting the search short at the end location and leaving the last       *)
(* location unexpanded lose no cheaper route.  AnswerIsCheapest compares   *)
(* the answer to a recursive definition of the least tolls: LowerInv says  *)
(* that no toll is below them, NotTooDear that the answer is not above.    *)
(*                                                                         *)
(* The usual invariant of Dijkstra's algorithm, "a marked location has its *)
(* least toll", is false here: a neighbour skipped when the end location   *)
(* is improved may be marked with too high a toll.  What holds instead is  *)
(* that an edge u -> v whose improvement was skipped cannot matter, since  *)
(* the end location is already as cheap as going there from u directly.    *)
(***************************************************************************)
EXTENDS CheapestRoute, NumberFacts, FiniteSetTheorems

(* Unsigned addition yields an unsigned int. *)
LEMMA UAddType ==
    ASSUME NEW a \in Nat, NEW b \in Nat
    PROVE  UAdd(a, b) \in 0 .. UMax
BY WidthAssumption DEF UAdd, UMax

(* Two costs that fit an int add up without wrapping. *)
LEMMA UAddExact ==
    ASSUME NEW a \in 0 .. IntMax, NEW b \in 0 .. IntMax
    PROVE  UAdd(a, b) = a + b
<1> DEFINE m == UMax + 1
<1>1. m \in Nat \ {0} /\ a + b \in Nat /\ a + b < m
  BY WidthAssumption DEF UMax
<1>2. \A x, y \in Nat : x < y => x % y = x
  OBVIOUS
<1> QED
  BY <1>1, <1>2 DEF UAdd

(* What GetMinCostIndex returns when there is something to return: an         *)
(* unprocessed location whose toll no unprocessed location undercuts.         *)
LEMMA MinIndexIsCheapest ==
    ASSUME TypeOK, Unprocessed # {}
    PROVE  GetMinCostIndex \in Cheapest
<1>1. Cheapest # {}
  <2> DEFINE T == {route_costs[i] : i \in Unprocessed}
  <2>1. T \in SUBSET Nat /\ T # {}
    BY WidthAssumption DEF TypeOK, Unprocessed
  <2>2. PICK x \in T : \A y \in T : x <= y
    <3> HIDE DEF T
    <3> QED BY <2>1, LeastNat
  <2>3. PICK i \in Unprocessed : route_costs[i] = x
    BY <2>2
  <2>4. \A j \in Unprocessed : route_costs[i] <= route_costs[j]
    BY <2>2, <2>3
  <2> QED
    BY <2>3, <2>4 DEF Cheapest
<1>2. \E i \in Cheapest : \A j \in Cheapest : j <= i
  <2> DEFINE T == {N - i : i \in Cheapest}
  <2>0. Cheapest \subseteq 0 .. N-1
    BY DEF Cheapest, Unprocessed, Index
  <2>a. \A i \in Cheapest : N - i \in Nat
    BY SizeAssumption, <2>0
  <2>1. T \in SUBSET Nat /\ T # {}
    BY <1>1, <2>a, Zenon
  <2>2. PICK x \in T : \A y \in T : x <= y
    <3> HIDE DEF T
    <3> QED BY <2>1, LeastNat
  <2>3. PICK i \in Cheapest : N - i = x
    BY <2>2
  <2>4. ASSUME NEW j \in Cheapest PROVE j <= i
    <3>1. N - i <= N - j
      BY <2>2, <2>3
    <3> QED
      BY <3>1, <2>0, SizeAssumption
  <2> QED
    BY <2>4
<1> QED
  BY <1>2 DEF GetMinCostIndex

(* The indices of the list are as many as its size says.                      *)
LEMMA IndexIsFinite == IsFiniteSet(Index) /\ Cardinality(Index) = N
BY SizeAssumption, FS_Interval DEF Index

-----------------------------------------------------------------------------

(* A search under way, or finished, is between two known locations.           *)
KnownEnds ==
    (pc \in {"outer", "inner"} \/ (pc = "done" /\ Unknown \notin {start_i, end_i}))
        => start_i \in Index /\ end_i \in Index

(* The outer loop marks one location per iteration, and stops before the last. *)
Counting ==
    /\ Cardinality(spt_set) = IF pc = "inner" THEN count + 1 ELSE count
    /\ pc = "outer" => count <= N - 1
    /\ pc = "inner" => MoreToPick
    /\ (pc = "done" /\ Unknown \notin {start_i, end_i}) => count = N - 1

(* The inner loop expands a marked location at its present toll.              *)
Expanding ==
    pc = "inner" => /\ min_cost_i \in spt_set
                    /\ base_cost = route_costs[min_cost_i]

(* Nothing is reached before the search starts, and what is returned after it *)
(* ends is the total.                                                         *)
Outcome ==
    /\ pc = "call" => route_costs = UnreachedCosts /\ spt_set = {} /\ count = 0
    /\ (pc = "done" /\ Unknown \notin {start_i, end_i}) => route_cost = TotalCost

Inv == TypeOK /\ KnownEnds /\ Counting /\ Expanding /\ Outcome /\ TollsAreEarned

(* Fewer marks than locations: some location can still be picked.             *)
LEMMA SomethingToPick ==
    ASSUME TypeOK, Counting, pc = "outer", MoreToPick
    PROVE  Unprocessed # {}
<1>1. spt_set # Index
  BY IndexIsFinite, SizeAssumption DEF Counting, MoreToPick, TypeOK
<1>2. PICK i \in Index : i \notin spt_set
  BY <1>1 DEF TypeOK
<1> QED
  BY <1>2 DEF Unprocessed, TypeOK

(* The strengthened invariant holds when the call is made.                    *)
LEMMA InitInv == Init => Inv
<1> SUFFICES ASSUME Init PROVE Inv
  OBVIOUS
<1>1. TypeOK
  BY SizeAssumption, WidthAssumption, MapsAssumption
  DEF Init, TypeOK, UnreachedCosts, UMax
<1>2. KnownEnds /\ Counting /\ Expanding /\ Outcome
  BY FS_EmptySet DEF Init, KnownEnds, Counting, Expanding, Outcome
<1>3. TollsAreEarned
  BY WidthAssumption DEF Init, TollsAreEarned, UnreachedCosts
<1> QED
  BY <1>1, <1>2, <1>3 DEF Inv


(* No name, no search: only the result and pc change.                         *)
LEMMA NotFoundInv == Inv /\ NotFound => Inv'
<1> SUFFICES ASSUME Inv, NotFound PROVE Inv'
  OBVIOUS
<1> USE DEF Inv, NotFound, inputs
<1>1. TypeOK'
  BY WidthAssumption DEF TypeOK, UMax
<1>2. KnownEnds' /\ Expanding' /\ Outcome'
  BY DEF KnownEnds, Expanding, Outcome
<1>3. Counting'
  BY DEF Counting
<1>4. TollsAreEarned'
  BY DEF TollsAreEarned
<1> QED
  BY <1>1, <1>2, <1>3, <1>4

(* Only the start is reached when the search starts.                          *)
LEMMA StartInv == Inv /\ Start => Inv'
<1> SUFFICES ASSUME Inv, Start PROVE Inv'
  OBVIOUS
<1> USE DEF Inv, Start, inputs
<1>0. start_i \in Index /\ end_i \in Index
  BY DEF TypeOK
<1>1. TypeOK'
  BY <1>0, WidthAssumption DEF TypeOK
<1>2. KnownEnds' /\ Expanding' /\ Outcome'
  BY <1>0 DEF KnownEnds, Expanding, Outcome
<1>3. Counting'
  BY <1>0, SizeAssumption DEF Counting, Outcome, TypeOK, Index
<1>4. TollsAreEarned'
  BY <1>0, WidthAssumption DEF TollsAreEarned, Outcome, UnreachedCosts
<1> QED
  BY <1>1, <1>2, <1>3, <1>4

(* One more location is marked, and tolls stay as they were.                  *)
LEMMA PickMinInv == Inv /\ PickMin => Inv'
<1> SUFFICES ASSUME Inv, PickMin PROVE Inv'
  OBVIOUS
<1> USE DEF Inv, PickMin, inputs
<1>0. min_cost_i' \in Cheapest
  BY SomethingToPick, MinIndexIsCheapest
<1>a. min_cost_i' \in Index /\ min_cost_i' \notin spt_set
  BY <1>0 DEF Cheapest, Unprocessed
<1>1. TypeOK'
  BY <1>a, SizeAssumption DEF TypeOK
<1>2. KnownEnds' /\ Expanding' /\ Outcome'
  BY DEF KnownEnds, Expanding, Outcome
<1>3. Counting'
  <2>1. IsFiniteSet(spt_set)
    BY IndexIsFinite, FS_Subset DEF TypeOK
  <2>2. Cardinality(spt_set') = Cardinality(spt_set) + 1
    BY <1>a, <2>1, FS_AddElement
  <2> QED
    BY <2>2 DEF Counting, MoreToPick
<1>4. TollsAreEarned'
  BY DEF TollsAreEarned
<1> QED
  BY <1>1, <1>2, <1>3, <1>4

(* An improvement is earned from the location being expanded, and leaves the  *)
(* tolls of marked locations alone.                                           *)
LEMMA RelaxInv == Inv /\ Relax => Inv'
<1> SUFFICES ASSUME Inv, Relax PROVE Inv'
  OBVIOUS
<1> USE DEF Inv, Relax, inputs
<1> DEFINE c == UAdd(base_cost, locations.cost[adj_i])
<1>0. adj_i \in Index
  BY SizeAssumption DEF TypeOK, Index
<1>1. min_cost_i \in Index /\ adj_i # min_cost_i
  BY DEF Expanding, Improves, TypeOK
<1>2. base_cost \in Nat /\ locations.cost[adj_i] \in Nat
  BY <1>0, WidthAssumption DEF TypeOK, Map, UMax
<1>3. c \in Nat /\ c < route_costs[adj_i] /\ c < IntMax
  <2>1. c \in 0 .. UMax
    BY <1>2, UAddType
  <2>2. c < route_costs[adj_i] /\ route_costs[adj_i] \in 0 .. IntMax
    BY <1>0 DEF Improves, TypeOK
  <2> HIDE DEF c
  <2> QED
    BY <2>1, <2>2, WidthAssumption DEF UMax
<1>4. route_costs' = [route_costs EXCEPT ![adj_i] = c]
  OBVIOUS
<1> HIDE DEF c
<1>5. TypeOK'
  BY <1>0, <1>3, <1>4, SizeAssumption, WidthAssumption DEF TypeOK, KeepSearching, Index
<1>6. KnownEnds' /\ Outcome'
  BY DEF KnownEnds, Outcome
<1>7. Expanding'
  BY <1>1, <1>4 DEF Expanding, TypeOK
<1>8. Counting'
  BY DEF Counting, MoreToPick
<1>9. TollsAreEarned'
  <2> SUFFICES ASSUME NEW v \in Index, route_costs'[v] < IntMax, v # start_i
               PROVE  \E u \in spt_set :
                        /\ v \in locations.dest[u]
                        /\ route_costs'[u] < IntMax
                        /\ route_costs'[v] = UAdd(route_costs'[u], locations.cost[v])
    BY DEF TollsAreEarned
  <2>1. CASE v = adj_i
    <3>1. min_cost_i \in spt_set /\ v \in locations.dest[min_cost_i]
      BY <2>1 DEF Expanding, Improves
    <3>2. route_costs'[min_cost_i] = base_cost /\ base_cost < IntMax
      BY <1>1, <1>4, WidthAssumption DEF Expanding, Improves, TypeOK
    <3>3. route_costs'[v] = UAdd(base_cost, locations.cost[v])
      BY <2>1, <1>0 DEF TypeOK
    <3> QED
      BY <3>1, <3>2, <3>3
  <2>2. CASE v # adj_i
    <3>1. route_costs'[v] = route_costs[v]
      BY <2>2, <1>4 DEF TypeOK
    <3>2. \A u \in spt_set : route_costs'[u] = route_costs[u]
      BY <1>4 DEF Improves, TypeOK
    <3> QED
      BY <3>1, <3>2 DEF TollsAreEarned
  <2> QED
    BY <2>1, <2>2
<1> QED
  BY <1>5, <1>6, <1>7, <1>8, <1>9

(* A neighbour that is not improved moves only the loop index.                *)
LEMMA PassOverInv == Inv /\ PassOver => Inv'
<1> SUFFICES ASSUME Inv, PassOver PROVE Inv'
  OBVIOUS
<1> USE DEF Inv, PassOver, inputs
<1>1. TypeOK'
  BY SizeAssumption DEF TypeOK
<1>2. KnownEnds' /\ Counting' /\ Expanding' /\ Outcome'
  BY DEF KnownEnds, Counting, Expanding, Outcome, MoreToPick
<1>3. TollsAreEarned'
  BY DEF TollsAreEarned
<1> QED
  BY <1>1, <1>2, <1>3

(* The next iteration has its mark already.                                   *)
LEMMA NextIterationInv == Inv /\ NextIteration => Inv'
<1> SUFFICES ASSUME Inv, NextIteration PROVE Inv'
  OBVIOUS
<1> USE DEF Inv, NextIteration, inputs
<1>1. TypeOK'
  BY SizeAssumption DEF TypeOK, Counting, MoreToPick
<1>2. KnownEnds' /\ Expanding' /\ Outcome'
  BY DEF KnownEnds, Expanding, Outcome
<1>3. Counting'
  BY SizeAssumption DEF Counting, MoreToPick, TypeOK
<1>4. TollsAreEarned'
  BY DEF TollsAreEarned
<1> QED
  BY <1>1, <1>2, <1>3, <1>4

(* The total is an unsigned int and nothing else changes.                     *)
LEMMA FinishInv == Inv /\ Finish => Inv'
<1> SUFFICES ASSUME Inv, Finish PROVE Inv'
  OBVIOUS
<1> USE DEF Inv, Finish, inputs
<1>0. TotalCost \in 0 .. UMax
  <2>1. start_i \in Index /\ end_i \in Index
    BY DEF KnownEnds
  <2>2. route_costs[end_i] \in Nat /\ locations.cost[start_i] \in Nat
    BY <2>1, WidthAssumption DEF TypeOK, Map, UMax
  <2> QED
    BY <2>2, UAddType DEF TotalCost
<1>1. TypeOK'
  BY <1>0 DEF TypeOK
<1>2. KnownEnds' /\ Expanding'
  BY DEF KnownEnds, Expanding
<1>3. Outcome'
  BY DEF Outcome, TotalCost
<1>4. Counting'
  BY SizeAssumption DEF Counting, MoreToPick, TypeOK
<1>5. TollsAreEarned'
  BY DEF TollsAreEarned
<1> QED
  BY <1>1, <1>2, <1>3, <1>4, <1>5


-----------------------------------------------------------------------------

(* No step of the call, and no step of its environment, breaks the invariant. *)
LEMMA NextInv == Inv /\ [Next]_vars => Inv'
<1> SUFFICES ASSUME Inv, [Next]_vars PROVE Inv'
  OBVIOUS
<1>1. CASE NotFound
  BY <1>1, NotFoundInv
<1>2. CASE Start
  BY <1>2, StartInv
<1>3. CASE PickMin
  BY <1>3, PickMinInv
<1>4. CASE Relax
  BY <1>4, RelaxInv
<1>5. CASE PassOver
  BY <1>5, PassOverInv
<1>6. CASE NextIteration
  BY <1>6, NextIterationInv
<1>7. CASE Finish
  BY <1>7, FinishInv
<1>8. CASE UNCHANGED vars
  BY <1>8 DEF Inv, TypeOK, KnownEnds, Counting, Expanding, Outcome, TollsAreEarned,
     vars, inputs, MoreToPick, TotalCost
<1> QED
  BY <1>1, <1>2, <1>3, <1>4, <1>5, <1>6, <1>7, <1>8 DEF Next

(* The strengthened invariant of GetRouteCost.                                *)
THEOREM Invariance == Spec => []Inv
<1>1. Init => Inv
  BY InitInv
<1>2. Inv /\ [Next]_vars => Inv'
  BY NextInv
<1> QED
  BY <1>1, <1>2, PTL DEF Spec

(* Every variable of GetRouteCost keeps its type; in particular a toll never  *)
(* exceeds INT_MAX, so the comparison of an unsigned toll with the int min of *)
(* GetMinCostIndex is exact.                                                  *)
THEOREM TypeCorrect == Spec => []TypeOK
<1>1. Inv => TypeOK
  BY DEF Inv
<1> QED
  BY <1>1, Invariance, PTL

(* GetMinCostIndex is never asked for a location when there is none, so its   *)
(* uninitialised min_index is never used as a subscript, whatever the costs.  *)
THEOREM MinIndexCorrect == Spec => []MinIndexIsAssigned
<1>1. Inv => MinIndexIsAssigned
  BY SomethingToPick DEF Inv, MinIndexIsAssigned
<1> QED
  BY <1>1, Invariance, PTL

(* Every toll in the table of GetRouteCost is that of a real route, whatever  *)
(* the costs.                                                                 *)
THEOREM TollsCorrect == Spec => []TollsAreEarned
<1>1. Inv => TollsAreEarned
  BY DEF Inv
<1> QED
  BY <1>1, Invariance, PTL

-----------------------------------------------------------------------------

Searching == pc \in {"outer", "inner"}

(* Taking the route from u to v cannot improve v, or need not.                *)
Covered(u, v) ==
    \/ route_costs[v] <= route_costs[u] + locations.cost[v]
    \/ route_costs[end_i] <= route_costs[u] + locations.cost[end_i]

(* The routes out of marked locations that the search is done with.           *)
Scanned(u, v) == (pc = "inner" /\ u = min_cost_i) => (v < adj_i \/ ~bSearch)

StartIsFree == (Searching \/ Answered) => route_costs[start_i] = 0

(* Locations are marked in the order of their tolls.                          *)
MarkedFirst ==
    /\ Searching => \A u \in spt_set, v \in Index \ spt_set :
                        route_costs[u] <= route_costs[v]
    /\ pc = "inner" => \A u \in spt_set : route_costs[u] <= base_cost

CutIsJustified ==
    (pc = "inner" /\ ~bSearch) => route_costs[end_i] <= base_cost + locations.cost[end_i]

ScannedIsCovered ==
    Searching => \A u \in spt_set : \A v \in locations.dest[u] :
                    Scanned(u, v) => Covered(u, v)

AllIsCovered ==
    Answered => \A u \in Index : \A v \in locations.dest[u] : Covered(u, v)

SearchInv ==
    CostsInRange => /\ StartIsFree
                    /\ MarkedFirst
                    /\ CutIsJustified
                    /\ ScannedIsCovered
                    /\ AllIsCovered

-----------------------------------------------------------------------------

(* Before the search there is nothing to show.                                *)
LEMMA InitSearch == Init => SearchInv
BY DEF Init, SearchInv, StartIsFree, MarkedFirst, CutIsJustified, ScannedIsCovered,
   AllIsCovered, Searching, Answered

(* A call that finds no name does not search.                                 *)
LEMMA NotFoundSearch == Inv /\ NotFound => SearchInv'
BY DEF NotFound, SearchInv, StartIsFree, MarkedFirst, CutIsJustified, ScannedIsCovered,
   AllIsCovered, Searching, Answered, inputs

(* At the start of the search nothing is marked.                              *)
LEMMA StartSearch == Inv /\ Start => SearchInv'
<1> SUFFICES ASSUME Inv, Start PROVE SearchInv'
  OBVIOUS
<1> USE DEF Inv, Start, inputs
<1>1. start_i \in Index
  BY DEF TypeOK
<1>2. StartIsFree'
  BY <1>1 DEF StartIsFree, TypeOK
<1>3. MarkedFirst' /\ CutIsJustified' /\ ScannedIsCovered' /\ AllIsCovered'
  BY DEF Outcome, MarkedFirst, CutIsJustified, ScannedIsCovered, AllIsCovered, Answered
<1> QED
  BY <1>2, <1>3 DEF SearchInv

(* The location picked is as cheap as any unmarked one, and its neighbours    *)
(* are all still to be scanned.                                               *)
LEMMA PickMinSearch == Inv /\ SearchInv /\ PickMin => SearchInv'
<1> SUFFICES ASSUME Inv, SearchInv, PickMin, CostsInRange PROVE SearchInv'
  BY DEF SearchInv, PickMin, CostsInRange, inputs
<1> USE DEF Inv, PickMin, inputs
<1> DEFINE m == min_cost_i'
<1>1. m \in Index \ spt_set /\ \A v \in Index \ spt_set : route_costs[m] <= route_costs[v]
  <2>1. m \in Cheapest
    BY SomethingToPick, MinIndexIsCheapest
  <2>2. Unprocessed = Index \ spt_set
    BY DEF Unprocessed, TypeOK
  <2> QED
    BY <2>1, <2>2 DEF Cheapest
<1>2. spt_set' = spt_set \cup {m}
  OBVIOUS
<1>3. \A u \in spt_set : route_costs[u] <= route_costs[m]
  BY <1>1 DEF SearchInv, MarkedFirst, Searching
<1>4. MarkedFirst'
  <2>1. base_cost' = route_costs[m] /\ route_costs' = route_costs
    OBVIOUS
  <2>2. \A u \in spt_set, v \in Index \ spt_set : route_costs[u] <= route_costs[v]
    BY DEF SearchInv, MarkedFirst, Searching
  <2>3. route_costs[m] \in Int
    BY <1>1 DEF TypeOK
  <2> HIDE DEF m
  <2> QED
    BY <1>1, <1>2, <1>3, <2>1, <2>2, <2>3 DEF MarkedFirst
<1>5. StartIsFree' /\ CutIsJustified' /\ AllIsCovered'
  BY DEF SearchInv, StartIsFree, CutIsJustified, AllIsCovered, Searching, Answered
<1>6. ScannedIsCovered'
  <2> SUFFICES ASSUME NEW u \in spt_set', NEW v \in locations.dest[u], Scanned(u, v)'
               PROVE  Covered(u, v)'
    BY DEF ScannedIsCovered
  <2>1. v \in Index /\ u # m
    <3>1. v \in Index
      BY <1>1, <1>2 DEF TypeOK, Map
    <3>2. ~(v < 0)
      BY <3>1 DEF Index
    <3> QED
      BY <3>1, <3>2 DEF Scanned
  <2>2. u \in spt_set
    BY <1>2, <2>1
  <2>3. Covered(u, v)
    BY <2>2 DEF SearchInv, ScannedIsCovered, Searching, Scanned
  <2> QED
    BY <2>3 DEF Covered
<1> QED
  BY <1>4, <1>5, <1>6 DEF SearchInv


(* Below INT_MAX the inner loop adds without wrapping.                        *)
LEMMA InnerSum ==
    ASSUME Inv, CostsInRange, NEW v \in Index
    PROVE  /\ locations.cost[v] \in 0 .. IntMax
           /\ base_cost \in 0 .. IntMax
           /\ UAdd(base_cost, locations.cost[v]) = base_cost + locations.cost[v]
<1>1. locations.cost[v] \in 0 .. IntMax
  BY DEF Inv, TypeOK, Map, CostsInRange
<1>2. base_cost \in 0 .. IntMax
  BY DEF Inv, TypeOK
<1> QED
  BY <1>1, <1>2, UAddExact

(* An improvement lowers the toll of one unmarked location to that of the     *)
(* route through the picked one, and so uncovers nothing.                     *)
LEMMA RelaxSearch == Inv /\ SearchInv /\ Relax => SearchInv'
<1> SUFFICES ASSUME Inv, SearchInv, Relax, CostsInRange PROVE SearchInv'
  BY DEF SearchInv, Relax, CostsInRange, inputs
<1> USE DEF Relax, inputs
<1> DEFINE c == base_cost + locations.cost[adj_i]
<1>0. adj_i \in Index /\ adj_i \notin spt_set /\ end_i \in Index
  BY SizeAssumption DEF Inv, TypeOK, Index, Improves, KnownEnds
<1>1. /\ locations.cost[adj_i] \in 0 .. IntMax /\ base_cost \in 0 .. IntMax
      /\ route_costs' = [route_costs EXCEPT ![adj_i] = c]
      /\ c < route_costs[adj_i]
  BY <1>0, InnerSum DEF Improves
<1>2. c \in Int /\ c >= base_cost
  BY <1>1, WidthAssumption
<1>3. route_costs \in [Index -> 0 .. IntMax] /\ spt_set \subseteq Index
  BY DEF Inv, TypeOK
<1>4. \A v \in Index : v # adj_i => route_costs'[v] = route_costs[v]
  BY <1>1, <1>3
<1>5. route_costs'[adj_i] = c
  BY <1>0, <1>1, <1>3
<1>c. min_cost_i \in spt_set /\ base_cost = route_costs[min_cost_i]
  BY DEF Inv, Expanding
<1> HIDE DEF c
<1>6. \A v \in Index : route_costs'[v] <= route_costs[v]
  BY <1>1, <1>2, <1>3, <1>4, <1>5
<1>7. StartIsFree'
  <2>1. route_costs[start_i] = 0 /\ start_i \in Index
    BY DEF SearchInv, StartIsFree, Searching, Inv, KnownEnds
  <2>2. adj_i # start_i
    BY <1>1, <1>2, <2>1
  <2> QED
    BY <1>4, <2>1, <2>2 DEF StartIsFree
<1>8. MarkedFirst'
  <2>1. \A u \in spt_set : route_costs'[u] = route_costs[u] /\ route_costs[u] <= base_cost
    BY <1>0, <1>3, <1>4 DEF SearchInv, MarkedFirst
  <2>2. ASSUME NEW u \in spt_set, NEW v \in Index \ spt_set
        PROVE  route_costs'[u] <= route_costs'[v]
    <3>1. CASE v = adj_i
      BY <1>1, <1>2, <1>3, <1>5, <2>1, <3>1
    <3>2. CASE v # adj_i
      BY <1>4, <2>1, <3>2 DEF SearchInv, MarkedFirst, Searching
    <3> QED
      BY <3>1, <3>2
  <2> QED
    BY <2>1, <2>2 DEF MarkedFirst
<1>9. CutIsJustified'
  <2> SUFFICES ASSUME ~bSearch' PROVE route_costs'[end_i] <= base_cost + locations.cost[end_i]
    BY DEF CutIsJustified
  <2>1. adj_i = end_i
    BY DEF KeepSearching
  <2> QED
    BY <1>2, <1>5, <2>1 DEF c
<1>10. ScannedIsCovered'
  <2> SUFFICES ASSUME NEW u \in spt_set, NEW v \in locations.dest[u], Scanned(u, v)'
               PROVE  Covered(u, v)'
    BY DEF ScannedIsCovered
  <2>0. v \in Index /\ u \in Index
    BY <1>3 DEF Inv, TypeOK, Map
  <2>a. route_costs'[u] = route_costs[u]
    BY <1>0, <1>4, <2>0
  <2>1. CASE Covered(u, v)
    <3>1. /\ route_costs[u] \in Int /\ locations.cost[v] \in Int /\ locations.cost[end_i] \in Int
          /\ route_costs[v] \in Int /\ route_costs[end_i] \in Int
          /\ route_costs'[v] \in Int /\ route_costs'[end_i] \in Int
      BY <1>0, <1>2, <1>3, <1>4, <1>5, <2>0, InnerSum
    <3>2. route_costs'[v] <= route_costs[v] /\ route_costs'[end_i] <= route_costs[end_i]
      BY <1>0, <1>6, <2>0
    <3> QED
      BY <2>a, <2>1, <3>1, <3>2 DEF Covered
  <2>2. CASE u = min_cost_i /\ v = adj_i
    BY <1>2, <1>5, <1>c, <2>a, <2>2 DEF Covered, c
  <2>3. CASE u = min_cost_i /\ v # adj_i /\ ~bSearch'
    <3>1. adj_i = end_i
      BY <2>3 DEF KeepSearching
    <3> QED
      BY <1>2, <1>5, <1>c, <2>a, <2>3, <3>1 DEF Covered, c
  <2>4. CASE u # min_cost_i \/ (v < adj_i /\ v # adj_i)
    BY <2>1, <2>4 DEF SearchInv, ScannedIsCovered, Searching, Scanned
  <2>5. (u = min_cost_i) => (v < adj_i + 1 \/ ~bSearch')
    BY DEF Scanned
  <2> QED
    BY <1>0, <2>0, <2>1, <2>2, <2>3, <2>4, <2>5 DEF Index
<1>11. AllIsCovered'
  BY DEF AllIsCovered, Answered
<1> QED
  BY <1>7, <1>8, <1>9, <1>10, <1>11 DEF SearchInv

(* What is passed over is covered already.                                    *)
LEMMA PassOverSearch == Inv /\ SearchInv /\ PassOver => SearchInv'
<1> SUFFICES ASSUME Inv, SearchInv, PassOver, CostsInRange PROVE SearchInv'
  BY DEF SearchInv, PassOver, CostsInRange, inputs
<1> USE DEF PassOver, inputs
<1>1. StartIsFree' /\ MarkedFirst' /\ CutIsJustified' /\ AllIsCovered'
  BY DEF SearchInv, StartIsFree, MarkedFirst, CutIsJustified, AllIsCovered, Searching, Answered
<1>2. ScannedIsCovered'
  <2> SUFFICES ASSUME NEW u \in spt_set, NEW v \in locations.dest[u], Scanned(u, v)'
               PROVE  Covered(u, v)
    BY DEF ScannedIsCovered, Covered
  <2>0. v \in Index /\ route_costs \in [Index -> 0 .. IntMax] /\ adj_i \in Int
    BY SizeAssumption DEF Inv, TypeOK, Map
  <2>1. CASE u = min_cost_i /\ v = adj_i
    <3>1. base_cost = route_costs[u]
      BY <2>1 DEF Inv, Expanding
    <3>2. CASE adj_i \in spt_set
      BY <2>0, <2>1, <3>1, <3>2, InnerSum DEF SearchInv, MarkedFirst, Covered
    <3>3. CASE base_cost = IntMax
      BY <2>0, <2>1, <3>1, <3>3, InnerSum, WidthAssumption DEF Covered
    <3>4. CASE ~(UAdd(base_cost, locations.cost[adj_i]) < route_costs[adj_i])
      <4>1. ~(base_cost + locations.cost[v] < route_costs[v])
        BY <2>0, <2>1, <3>4, InnerSum
      <4> QED
        BY <2>0, <3>1, <4>1, InnerSum DEF Covered
    <3> QED
      BY <2>1, <3>2, <3>3, <3>4 DEF Improves
  <2>2. CASE ~(u = min_cost_i /\ v = adj_i)
    <3>1. Scanned(u, v)
      BY <2>0, <2>2 DEF Scanned, Index
    <3> QED
      BY <3>1 DEF SearchInv, ScannedIsCovered, Searching
  <2> QED
    BY <2>1, <2>2
<1> QED
  BY <1>1, <1>2 DEF SearchInv


(* After the inner loop every route out of the picked location is covered: by *)
(* being scanned, or by the cut.                                              *)
LEMMA NextIterationSearch == Inv /\ SearchInv /\ NextIteration => SearchInv'
<1> SUFFICES ASSUME Inv, SearchInv, NextIteration, CostsInRange PROVE SearchInv'
  BY DEF SearchInv, NextIteration, CostsInRange, inputs
<1> USE DEF NextIteration, inputs
<1>1. StartIsFree' /\ MarkedFirst' /\ CutIsJustified' /\ AllIsCovered'
  BY DEF SearchInv, StartIsFree, MarkedFirst, CutIsJustified, AllIsCovered, Searching, Answered
<1>2. ScannedIsCovered'
  <2> SUFFICES ASSUME NEW u \in spt_set, NEW v \in locations.dest[u]
               PROVE  Covered(u, v)
    BY DEF ScannedIsCovered, Covered
  <2>0. v \in Index
    BY DEF Inv, TypeOK, Map
  <2>1. CASE Scanned(u, v)
    BY <2>1 DEF SearchInv, ScannedIsCovered, Searching
  <2>2. CASE ~Scanned(u, v)
    <3>1. u = min_cost_i /\ ~bSearch
      BY <2>0, <2>2, SizeAssumption DEF Scanned, Index
    <3>2. base_cost = route_costs[u]
      BY <3>1 DEF Inv, Expanding
    <3> QED
      BY <3>1, <3>2 DEF SearchInv, CutIsJustified, Covered
  <2> QED
    BY <2>1, <2>2
<1> QED
  BY <1>1, <1>2 DEF SearchInv

(* All locations but one are marked when the search ends.                     *)
LEMMA OneLeft ==
    ASSUME Inv, pc = "outer", ~MoreToPick
    PROVE  \E r \in Index : \A i \in Index : i \in spt_set \/ i = r
<1>1. IsFiniteSet(spt_set) /\ spt_set \in SUBSET Index
  BY IndexIsFinite, FS_Subset DEF Inv, TypeOK
<1>2. Cardinality(spt_set) = N - 1
  BY SizeAssumption DEF Inv, Counting, MoreToPick, TypeOK
<1>3. spt_set # Index
  BY <1>2, IndexIsFinite, SizeAssumption
<1>4. PICK r \in Index : r \notin spt_set
  BY <1>1, <1>3
<1>5. Cardinality(spt_set \cup {r}) = N /\ spt_set \cup {r} \in SUBSET Index
  BY <1>1, <1>2, <1>4, FS_AddElement, SizeAssumption
<1>6. spt_set \cup {r} = Index
  BY <1>5, IndexIsFinite, FS_Subset
<1> QED
  BY <1>6

(* No route out of the location that is left can improve a marked one.        *)
LEMMA FinishSearch == Inv /\ SearchInv /\ Finish => SearchInv'
<1> SUFFICES ASSUME Inv, SearchInv, Finish, CostsInRange PROVE SearchInv'
  BY DEF SearchInv, Finish, CostsInRange, inputs
<1> USE DEF Finish, inputs
<1>1. StartIsFree' /\ MarkedFirst' /\ CutIsJustified' /\ ScannedIsCovered'
  BY DEF SearchInv, StartIsFree, MarkedFirst, CutIsJustified, ScannedIsCovered,
     Searching, Answered
<1>2. AllIsCovered'
  <2> SUFFICES ASSUME NEW u \in Index, NEW v \in locations.dest[u]
               PROVE  Covered(u, v)
    BY DEF AllIsCovered, Covered
  <2>0. v \in Index /\ route_costs \in [Index -> 0 .. IntMax]
    BY DEF Inv, TypeOK, Map
  <2>1. CASE u \in spt_set
    BY <2>1 DEF SearchInv, ScannedIsCovered, Searching, Scanned
  <2>2. CASE u \notin spt_set
    <3>1. v \in spt_set \/ v = u
      BY <2>0, <2>2, OneLeft
    <3>2. route_costs[v] <= route_costs[u]
      BY <2>0, <2>2, <3>1 DEF SearchInv, MarkedFirst, Searching
    <3>3. locations.cost[v] \in 0 .. IntMax
      BY <2>0, InnerSum
    <3> QED
      BY <2>0, <3>2, <3>3, WidthAssumption DEF Covered
  <2> QED
    BY <2>1, <2>2
<1> QED
  BY <1>1, <1>2 DEF SearchInv

(* The invariant of the search.                                               *)
LEMMA NextSearch == Inv /\ SearchInv /\ [Next]_vars => SearchInv'
<1> SUFFICES ASSUME Inv, SearchInv, [Next]_vars PROVE SearchInv'
  OBVIOUS
<1>1. CASE UNCHANGED vars
  BY <1>1 DEF SearchInv, StartIsFree, MarkedFirst, CutIsJustified, ScannedIsCovered,
     AllIsCovered, Searching, Answered, Scanned, Covered, CostsInRange, vars, inputs
<1> QED
  BY <1>1, NotFoundSearch, StartSearch, PickMinSearch, RelaxSearch, PassOverSearch,
     NextIterationSearch, FinishSearch DEF Next

-----------------------------------------------------------------------------

(* What the answer says of v and a toll t for which v can be reached: the     *)
(* table has no more, or makes going on to the end location useless.          *)
Matches(v, t) ==
    IF v = end_i THEN route_costs[end_i] <= t
    ELSE route_costs[v] <= t \/ route_costs[end_i] <= t + locations.cost[end_i]

LEMMA OneMoreHopMatches ==
    ASSUME Inv, SearchInv, Answered, CostsInRange,
           NEW u \in Index, NEW v \in locations.dest[u], NEW t \in Nat, Matches(u, t)
    PROVE  Matches(v, t + locations.cost[v])
<1>1. v \in Index /\ end_i \in Index
  BY DEF Inv, TypeOK, Map, KnownEnds, Answered
<1>2. Covered(u, v)
  BY DEF SearchInv, AllIsCovered
<1>3. /\ route_costs[u] \in Int /\ route_costs[v] \in Int /\ route_costs[end_i] \in Int
      /\ locations.cost[v] \in Nat /\ locations.cost[end_i] \in Nat
  BY <1>1, WidthAssumption DEF Inv, TypeOK, Map, UMax
<1>4. CASE u = end_i
  BY <1>2, <1>3, <1>4 DEF Covered, Matches
<1>5. CASE u # end_i
  BY <1>2, <1>3, <1>5 DEF Covered, Matches
<1> QED
  BY <1>4, <1>5

(* Until the answer is given the traveller waits at the start; after it, the  *)
(* answer matches every location it reaches.                                  *)
TravellerInv ==
    /\ at \in Index \cup {Unknown} /\ toll \in Nat
    /\ pc # "done" => at = start_i /\ toll = 0
    /\ (Answered /\ CostsInRange) =>
          at \in Index /\ Matches(at, toll)

(* The computation of the answer leaves the traveller at the start, which is  *)
(* free.                                                                      *)
LEMMA ComputeTraveller ==
    Inv /\ Inv' /\ SearchInv' /\ TravellerInv /\ Compute => TravellerInv'
<1> SUFFICES ASSUME Inv, Inv', SearchInv', TravellerInv, Compute PROVE TravellerInv'
  OBVIOUS
<1>1. pc # "done" /\ at' = start_i' /\ toll' = 0
  BY DEF TravellerInv, Compute, Next, NotFound, Start, PickMin, Relax, PassOver,
     NextIteration, Finish, inputs
<1>2. (at \in Index \cup {Unknown} /\ toll \in Nat)'
  BY <1>1 DEF Inv, TypeOK
<1>3. ASSUME Answered', CostsInRange'
      PROVE  at' \in Index /\ route_costs'[at'] = 0
  <2>1. start_i' \in Index
    BY <1>3 DEF Inv, KnownEnds, Answered
  <2>2. route_costs'[start_i'] = 0
    BY <1>3 DEF SearchInv, StartIsFree
  <2> QED
    BY <1>1, <2>1, <2>2
<1> QED
  BY <1>1, <1>2, <1>3 DEF TravellerInv, Matches, Inv, TypeOK

(* A hop follows a covered route.                                             *)
LEMMA HopTraveller ==
    ASSUME Inv, SearchInv, TravellerInv, NEW w \in Index, Hop(w)
    PROVE  TravellerInv'
<1> USE DEF Hop, vars, inputs
<1>0. locations.cost[w] \in Nat /\ toll \in Nat
  BY WidthAssumption DEF TravellerInv, Inv, TypeOK, Map, UMax
<1>1. (at \in Index \cup {Unknown} /\ toll \in Nat)'
  BY <1>0
<1>2. (pc # "done" => at = start_i /\ toll = 0)'
  OBVIOUS
<1>3. ASSUME Answered', CostsInRange'
      PROVE  Matches(w, toll + locations.cost[w])
  <2>1. Answered /\ CostsInRange
    BY <1>3 DEF Answered, CostsInRange
  <2>2. at \in Index /\ Matches(at, toll)
    BY <2>1 DEF TravellerInv
  <2> QED
    BY <1>0, <2>1, <2>2, OneMoreHopMatches
<1> QED
  BY <1>1, <1>2, <1>3 DEF TravellerInv, Matches, Answered, CostsInRange

CInv == Inv /\ SearchInv /\ TravellerInv

(* The invariants of the search and of the traveller, together.               *)
THEOREM CInvariance == CSpec => []CInv
<1>1. CInit => CInv
  <2>1. CInit => TravellerInv
    BY DEF CInit, Init, TravellerInv, Answered
  <2> QED
    BY <2>1, InitInv, InitSearch DEF CInit, CInv
<1>2. CInv /\ [CNext]_allVars => CInv'
  <2> SUFFICES ASSUME CInv, [CNext]_allVars PROVE CInv'
    OBVIOUS
  <2>1. CASE Compute
    BY <2>1, NextInv, NextSearch, ComputeTraveller DEF CInv, Compute
  <2>2. ASSUME NEW w \in Index, Hop(w) PROVE CInv'
    <3>1. UNCHANGED vars
      BY <2>2 DEF Hop
    <3> QED
      BY <2>2, <3>1, NextInv, NextSearch, HopTraveller DEF CInv
  <2>3. CASE UNCHANGED allVars
    <3>1. UNCHANGED vars /\ UNCHANGED <<at, toll>>
      BY <2>3 DEF allVars
    <3>2. TravellerInv'
      BY <3>1 DEF CInv, TravellerInv, Matches, Answered, CostsInRange, vars, inputs
    <3> QED
      BY <3>1, <3>2, NextInv, NextSearch DEF CInv
  <2> QED
    BY <2>1, <2>2, <2>3 DEF CNext
<1> QED
  BY <1>1, <1>2, PTL DEF CSpec

(* GetRouteCost never answers with more than the cost of a route that exists, *)
(* for every database whose costs fit an int.                                 *)
THEOREM NoCheaperRouteExists == CSpec => []NoCheaperRoute
<1>1. ASSUME CInv, Answered, CostsInRange, at = end_i
      PROVE  route_cost <= toll + locations.cost[start_i]
  <2>1. start_i \in Index /\ end_i \in Index
    BY <1>1 DEF CInv, Inv, KnownEnds, Answered
  <2>2. route_costs[end_i] \in 0 .. IntMax /\ locations.cost[start_i] \in 0 .. IntMax
    BY <1>1, <2>1 DEF CInv, Inv, TypeOK, Map, CostsInRange
  <2>3. route_cost = UAdd(route_costs[end_i], locations.cost[start_i])
    BY <1>1 DEF CInv, Inv, Outcome, TotalCost, Answered
  <2>4. route_cost = route_costs[end_i] + locations.cost[start_i]
    BY <2>2, <2>3, UAddExact
  <2>5. route_costs[end_i] <= toll /\ toll \in Nat
    BY <1>1 DEF CInv, TravellerInv, Matches
  <2> QED
    BY <2>2, <2>4, <2>5, WidthAssumption
<1>2. CInv => NoCheaperRoute
  BY <1>1 DEF NoCheaperRoute
<1> QED
  BY <1>2, CInvariance, PTL

-----------------------------------------------------------------------------

(* The tolls to v that one more hop offers when f has the tolls so far.       *)
Offers(f, v) ==
    {f[v]} \cup {f[u] + locations.cost[v] : u \in {w \in Index : v \in locations.dest[w]}}

OneMoreHop(f) == [v \in Index |-> Min(Offers(f, v))]

NoHop == [v \in Index |-> IF v = start_i THEN 0 ELSE IntMax]

Tolls == [Index -> Nat]

(* Min of the offers is one of them and none is below it.                     *)
LEMMA BestOffer ==
    ASSUME locations \in Map, NEW f \in Tolls, NEW v \in Index
    PROVE  /\ Min(Offers(f, v)) \in Offers(f, v)
           /\ Min(Offers(f, v)) \in Nat
           /\ Min(Offers(f, v)) <= f[v]
           /\ \A u \in Index : v \in locations.dest[u] =>
                 Min(Offers(f, v)) <= f[u] + locations.cost[v]
<1>1. locations.cost[v] \in Nat
  BY WidthAssumption DEF Map, UMax
<1>2. Offers(f, v) \in SUBSET Nat /\ f[v] \in Offers(f, v)
  BY <1>1 DEF Offers, Tolls
<1>3. \A u \in Index : v \in locations.dest[u] => f[u] + locations.cost[v] \in Offers(f, v)
  BY DEF Offers
<1>4. Min(Offers(f, v)) \in Offers(f, v) /\ \A x \in Offers(f, v) : Min(Offers(f, v)) <= x
  <2>1. Offers(f, v) # {}
    BY <1>2
  <2> QED
    BY <1>2, <2>1, MinIsLeast
<1> QED
  BY <1>2, <1>3, <1>4

(* The definition of BestToll has a solution, so BestToll is one.             *)
LEMMA BestTollEquations ==
    ASSUME locations \in Map
    PROVE  /\ BestToll \in [Nat -> Tolls]
           /\ BestToll[0] = NoHop
           /\ \A k \in Nat : BestToll[k + 1] = OneMoreHop(BestToll[k])
<1> DEFINE Step == [p \in Nat \X Tolls |-> OneMoreHop(p[2])]
           Solves(f) == f = [k \in Nat |-> IF k = 0 THEN NoHop ELSE OneMoreHop(f[k-1])]
<1>1. NoHop \in Tolls
  BY WidthAssumption DEF NoHop, Tolls
<1>2. \A f \in Tolls : OneMoreHop(f) \in Tolls
  BY BestOffer DEF OneMoreHop, Tolls
<1> HIDE DEF Step
<1>3. Step \in [Nat \X Tolls -> Tolls]
  <2>1. \A p \in Nat \X Tolls : p[2] \in Tolls
    OBVIOUS
  <2>2. \A p \in Nat \X Tolls : OneMoreHop(p[2]) \in Tolls
    BY <1>2, <2>1, Zenon
  <2> DEFINE P == Nat \X Tolls
             Hopped(p) == OneMoreHop(p[2])
  <2>3. \A p \in P : Hopped(p) \in Tolls
    BY <2>2
  <2>4. Step = [p \in P |-> Hopped(p)]
    BY DEF Step
  <2> HIDE DEF P, Hopped
  <2>5. Step \in [P -> Tolls]
    BY <2>3, <2>4
  <2> QED
    BY <2>5 DEF P
<1>4. \A k \in Nat, f \in Tolls : Step[<<k, f>>] = OneMoreHop(f)
  BY DEF Step
<1>5. PICK F \in [Nat -> Tolls] : Recurs(F, NoHop, Step)
  BY <1>1, <1>3, RecursionOnNat, Zenon
<1>6. \A k \in Nat : F[k + 1] = OneMoreHop(F[k])
  BY <1>4, <1>5 DEF Recurs
<1>7. Solves(F)
  <2>1. ASSUME NEW k \in Nat PROVE F[k] = IF k = 0 THEN NoHop ELSE OneMoreHop(F[k-1])
    <3>1. CASE k = 0
      BY <1>5, <3>1 DEF Recurs
    <3>2. CASE k # 0
      <4>1. k - 1 \in Nat /\ (k - 1) + 1 = k
        BY <3>2
      <4> QED
        BY <1>6, <3>2, <4>1
    <3> QED
      BY <3>1, <3>2
  <2>2. F = [k \in Nat |-> F[k]]
    BY <1>5
  <2> QED
    BY <2>1, <2>2
<1>8. BestToll = CHOOSE f : Solves(f)
  BY DEF BestToll, OneMoreHop, NoHop, Offers
<1> HIDE DEF Solves
<1>9. Solves(BestToll)
  BY <1>7, <1>8, Zenon
<1> USE DEF Solves
<1>10. BestToll[0] = NoHop
  BY <1>9
<1>11. ASSUME NEW k \in Nat PROVE BestToll[k + 1] = OneMoreHop(BestToll[k])
  <2>1. k + 1 \in Nat /\ k + 1 # 0 /\ (k + 1) - 1 = k
    OBVIOUS
  <2> QED
    BY <1>9, <2>1
<1>12. BestToll \in [Nat -> Tolls]
  <2> DEFINE T == {k \in Nat : BestToll[k] \in Tolls}
  <2>1. 0 \in T
    BY <1>1, <1>10
  <2>2. ASSUME NEW k \in T PROVE k + 1 \in T
    BY <1>2, <1>11
  <2>3. T = Nat
    BY <2>1, <2>2, InductionOnNat
  <2>4. BestToll = [k \in Nat |-> BestToll[k]]
    BY <1>9
  <2> QED
    BY <2>3, <2>4
<1> QED
  BY <1>10, <1>11, <1>12

(* More hops allow no dearer tolls, and the tolls of routes add up.           *)
LEMMA BestTollFacts ==
    ASSUME locations \in Map, NEW k \in Nat, NEW v \in Index
    PROVE  /\ BestToll[k][v] \in Nat
           /\ BestToll[k + 1][v] \in Offers(BestToll[k], v)
           /\ BestToll[k + 1][v] <= BestToll[k][v]
           /\ \A u \in Index : v \in locations.dest[u] =>
                 BestToll[k + 1][v] <= BestToll[k][u] + locations.cost[v]
<1>1. BestToll[k] \in Tolls
  BY BestTollEquations
<1>2. BestToll[k + 1][v] = Min(Offers(BestToll[k], v))
  BY BestTollEquations DEF OneMoreHop
<1>3. BestToll[k][v] \in Nat
  BY <1>1 DEF Tolls
<1> QED
  BY <1>1, <1>2, <1>3, BestOffer

(* The table is not below the exact tolls of as many hops as locations have   *)
(* been expanded.                                                             *)
Hops == IF pc = "inner" THEN count + 1 ELSE count

NotTooCheap ==
    (Searching \/ Answered) => \A v \in Index : BestToll[Hops][v] <= route_costs[v]

BaseNotTooCheap == pc = "inner" => BestToll[count][min_cost_i] <= base_cost

LowerInv == CostsInRange => NotTooCheap /\ BaseNotTooCheap

LEMMA SameTolls == UNCHANGED <<locations, start_i>> => BestToll' = BestToll
BY DEF BestToll

(* The tolls of the table stay those of routes of that many hops.             *)
LEMMA NextLower == Inv /\ LowerInv /\ Next => LowerInv'
<1> SUFFICES ASSUME Inv, LowerInv, Next, CostsInRange' PROVE (NotTooCheap /\ BaseNotTooCheap)'
  BY DEF LowerInv
<1>0. locations' = locations /\ start_i' = start_i /\ end_i' = end_i /\ CostsInRange
  BY DEF Next, NotFound, Start, PickMin, Relax, PassOver, NextIteration, Finish, inputs,
     CostsInRange
<1>1. BestToll' = BestToll
  BY <1>0, SameTolls
<1>2. locations \in Map /\ count \in Nat /\ route_costs \in [Index -> 0 .. IntMax]
  BY DEF Inv, TypeOK
<1>3. CASE NotFound
  BY <1>3 DEF NotFound, NotTooCheap, BaseNotTooCheap, Searching, Answered, inputs
<1>4. CASE Start
  <2>1. start_i \in Index /\ count' = 0 /\ pc' = "outer"
    BY <1>4 DEF Start, Inv, TypeOK, Outcome
  <2>2. route_costs' = [UnreachedCosts EXCEPT ![start_i] = 0]
    BY <1>4 DEF Start, Inv, Outcome
  <2>3. ASSUME NEW v \in Index PROVE BestToll[0][v] <= route_costs'[v]
    <3>1. BestToll[0][v] = IF v = start_i THEN 0 ELSE IntMax
      BY <1>2, BestTollEquations DEF NoHop
    <3>2. route_costs'[v] = IF v = start_i THEN 0 ELSE IntMax
      BY <2>1, <2>2 DEF UnreachedCosts
    <3> QED
      BY <3>1, <3>2, WidthAssumption
  <2> QED
    BY <1>1, <2>1, <2>3 DEF NotTooCheap, BaseNotTooCheap, Hops
<1>5. CASE PickMin
  <2>0. min_cost_i' \in Index
    BY <1>5, SomethingToPick, MinIndexIsCheapest DEF PickMin, Inv, Cheapest, Unprocessed
  <2>1. /\ pc = "outer" /\ pc' = "inner" /\ count' = count /\ route_costs' = route_costs
        /\ base_cost' = route_costs[min_cost_i']
    BY <1>5 DEF PickMin
  <2>2. \A v \in Index : BestToll[count][v] <= route_costs[v]
    BY <1>0, <2>1 DEF LowerInv, NotTooCheap, Searching, Hops
  <2>3. ASSUME NEW v \in Index PROVE BestToll[count + 1][v] <= route_costs[v]
    <3>1. /\ BestToll[count + 1][v] <= BestToll[count][v]
          /\ BestToll[count + 1][v] \in Nat /\ BestToll[count][v] \in Nat
      BY <1>2, BestTollFacts
    <3>2. route_costs[v] \in Int
      BY <1>2
    <3> QED
      BY <2>2, <3>1, <3>2
  <2> QED
    BY <1>1, <2>0, <2>1, <2>2, <2>3 DEF NotTooCheap, BaseNotTooCheap, Hops
<1>6. CASE Relax
  <2>1. /\ adj_i \in Index /\ min_cost_i \in Index /\ adj_i \in locations.dest[min_cost_i]
        /\ route_costs' = [route_costs EXCEPT ![adj_i] = base_cost + locations.cost[adj_i]]
        /\ base_cost \in Nat /\ locations.cost[adj_i] \in Nat
    <3>1. adj_i \in Index /\ min_cost_i \in Index
      BY <1>6, SizeAssumption DEF Relax, Inv, TypeOK, Expanding, Index
    <3>2. /\ locations.cost[adj_i] \in 0 .. IntMax /\ base_cost \in 0 .. IntMax
          /\ UAdd(base_cost, locations.cost[adj_i]) = base_cost + locations.cost[adj_i]
      BY <1>0, <3>1, InnerSum
    <3>3. base_cost \in Nat /\ locations.cost[adj_i] \in Nat
      BY <3>2, WidthAssumption
    <3> QED
      BY <1>6, <3>1, <3>2, <3>3 DEF Relax, Improves
  <2>2. pc = "inner" /\ UNCHANGED <<pc, count, min_cost_i, base_cost>>
    BY <1>6 DEF Relax
  <2>3. BestToll[count][min_cost_i] <= base_cost
    BY <1>0, <2>2 DEF LowerInv, BaseNotTooCheap
  <2>4. ASSUME NEW v \in Index PROVE BestToll[count + 1][v] <= route_costs'[v]
    <3>1. CASE v = adj_i
      <4>1. BestToll[count + 1][v] <= BestToll[count][min_cost_i] + locations.cost[v]
        BY <1>2, <2>1, <3>1, BestTollFacts
      <4>2. BestToll[count + 1][v] \in Nat /\ BestToll[count][min_cost_i] \in Nat
        BY <1>2, <2>1, BestTollFacts
      <4>3. route_costs'[v] = base_cost + locations.cost[v]
        BY <1>2, <2>1, <3>1
      <4> QED
        BY <2>1, <2>3, <3>1, <4>1, <4>2, <4>3
    <3>2. CASE v # adj_i
      <4>1. route_costs'[v] = route_costs[v]
        BY <1>2, <2>1, <3>2
      <4> QED
        BY <1>0, <2>2, <4>1 DEF LowerInv, NotTooCheap, Searching, Hops
    <3> QED
      BY <3>1, <3>2
  <2> QED
    BY <1>1, <2>2, <2>3, <2>4 DEF NotTooCheap, BaseNotTooCheap, Hops
<1>7. CASE PassOver
  BY <1>0, <1>1, <1>7
  DEF PassOver, LowerInv, NotTooCheap, BaseNotTooCheap, Hops, Searching, Answered
<1>8. CASE NextIteration
  BY <1>0, <1>1, <1>8
  DEF NextIteration, LowerInv, NotTooCheap, BaseNotTooCheap, Hops, Searching, Answered
<1>9. CASE Finish
  BY <1>0, <1>1, <1>9
  DEF Finish, LowerInv, NotTooCheap, BaseNotTooCheap, Hops, Searching, Answered
<1> QED
  BY <1>3, <1>4, <1>5, <1>6, <1>7, <1>8, <1>9 DEF Next

-----------------------------------------------------------------------------

(* The table matches every exact toll, by induction on the number of hops.    *)
LEMMA NotTooDear ==
    ASSUME Inv, SearchInv, Answered, CostsInRange, NEW v \in Index, NEW k \in Nat
    PROVE  Matches(v, BestToll[k][v])
<1> DEFINE T == {j \in Nat : \A w \in Index : Matches(w, BestToll[j][w])}
<1>0. /\ locations \in Map /\ start_i \in Index /\ end_i \in Index
      /\ route_costs \in [Index -> 0 .. IntMax] /\ route_costs[start_i] = 0
  BY DEF Inv, TypeOK, KnownEnds, Answered, SearchInv, StartIsFree
<1>1. 0 \in T
  <2> SUFFICES ASSUME NEW w \in Index PROVE Matches(w, BestToll[0][w])
    OBVIOUS
  <2>1. BestToll[0][w] = IF w = start_i THEN 0 ELSE IntMax
    BY <1>0, BestTollEquations DEF NoHop
  <2>2. route_costs[w] <= BestToll[0][w]
    BY <1>0, <2>1
  <2> QED
    BY <2>2 DEF Matches
<1>2. ASSUME NEW j \in T PROVE j + 1 \in T
  <2> SUFFICES ASSUME NEW w \in Index PROVE Matches(w, BestToll[j + 1][w])
    OBVIOUS
  <2>1. BestToll[j + 1][w] \in Offers(BestToll[j], w)
    BY <1>0, BestTollFacts
  <2>2. CASE BestToll[j + 1][w] = BestToll[j][w]
    BY <2>2
  <2>3. ASSUME NEW u \in Index, w \in locations.dest[u],
               BestToll[j + 1][w] = BestToll[j][u] + locations.cost[w]
        PROVE  Matches(w, BestToll[j + 1][w])
    <3>1. BestToll[j][u] \in Nat /\ Matches(u, BestToll[j][u])
      BY <1>0, BestTollFacts
    <3> QED
      BY <2>3, <3>1, OneMoreHopMatches
  <2> QED
    BY <2>1, <2>2, <2>3 DEF Offers
<1> HIDE DEF T
<1>3. T = Nat
  <2>1. T \in SUBSET Nat
    BY DEF T
  <2> QED
    BY <1>1, <1>2, <2>1, InductionOnNat
<1>4. k \in T
  BY <1>3
<1> QED
  BY <1>4 DEF T

(* GetRouteCost answers exactly what an exhaustive search finds, for every    *)
(* database whose costs fit an int, wherever it finds less than INT_MAX.      *)
THEOREM AnswerIsExact == Spec => []AnswerIsCheapest
<1> DEFINE AInv == Inv /\ SearchInv /\ LowerInv
<1>1. Init => AInv
  BY InitInv, InitSearch
  DEF Init, LowerInv, NotTooCheap, BaseNotTooCheap, Searching, Answered
<1>2. AInv /\ [Next]_vars => AInv'
  <2> SUFFICES ASSUME AInv, [Next]_vars PROVE AInv'
    OBVIOUS
  <2>1. CASE Next
    BY <2>1, NextInv, NextSearch, NextLower
  <2>2. CASE UNCHANGED vars
    <3>1. BestToll' = BestToll
      BY <2>2, SameTolls DEF vars, inputs
    <3>2. LowerInv'
      BY <2>2, <3>1 DEF LowerInv, NotTooCheap, BaseNotTooCheap, Hops, Searching, Answered,
         CostsInRange, vars, inputs
    <3> QED
      BY <2>2, <3>2, NextInv, NextSearch
  <2> QED
    BY <2>1, <2>2
<1>3. AInv => AnswerIsCheapest
  <2> SUFFICES ASSUME AInv, Answered, CostsInRange
               PROVE  route_cost = BestToll[N][end_i] + locations.cost[start_i]
    BY DEF AnswerIsCheapest
  <2>1. end_i \in Index /\ locations \in Map /\ route_costs[end_i] \in 0 .. IntMax
    BY DEF Inv, TypeOK, KnownEnds, Answered
  <2>9. locations.cost[start_i] \in 0 .. IntMax
    BY DEF Inv, TypeOK, KnownEnds, Answered, CostsInRange, Map
  <2>2. count = N - 1 /\ count \in Nat /\ N = count + 1
    BY SizeAssumption DEF Inv, TypeOK, Counting, Answered
  <2> DEFINE best == BestToll[N][end_i]
             reached == route_costs[end_i]
  <2>3. best \in Nat /\ best <= BestToll[count][end_i] /\ BestToll[count][end_i] \in Nat
    BY <2>1, <2>2, SizeAssumption, BestTollFacts
  <2>4. BestToll[count][end_i] <= reached
    BY <2>1 DEF LowerInv, NotTooCheap, Hops, Answered
  <2>5. reached <= best
    <3>1. Matches(end_i, best)
      BY <2>1, SizeAssumption, NotTooDear
    <3> QED
      BY <3>1 DEF Matches
  <2> HIDE DEF best, reached
  <2>6. best = reached
    BY <2>1, <2>3, <2>4, <2>5 DEF reached
  <2>7. UAdd(reached, locations.cost[start_i]) = reached + locations.cost[start_i]
    BY <2>1, <2>9, UAddExact DEF reached
  <2>8. route_cost = UAdd(reached, locations.cost[start_i])
    BY DEF Inv, Outcome, TotalCost, Answered, reached
  <2> QED
    BY <2>6, <2>7, <2>8 DEF best
<1> HIDE DEF AInv
<1> QED
  BY <1>1, <1>2, <1>3, PTL DEF Spec
=============================================================================
