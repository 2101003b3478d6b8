---------------------------- MODULE CheapestRoute ----------------------------
(***************************************************************************)
(* What GetRouteCost promises: the answer is the cost of a cheapest route. *)
(* The promise is stated twice.  An auxiliary traveller, who changes no    *)
(* variable of the code, sets out from the start location once the answer  *)
(* is given and hops along destinations: wherever it goes, it never pays   *)
(* less than the answer.  And BestToll, a recursive function over the      *)
(* number of hops, defines the exact answer by exhaustive search.          *)
(***************************************************************************)
EXTENDS RouteCost, FiniteSetsExt

CONSTANT MaxToll  \* bound on the traveller's journey

ASSUME MaxTollAssumption == MaxToll \in Nat

VARIABLES at,    \* where the traveller is
          toll   \* what it has paid, the start location not included

allVars == <<vars, at, toll>>

CInit == Init /\ at = start_i /\ toll = 0

Compute == Next /\ UNCHANGED <<at, toll>>

Hop(v) ==
    /\ pc = "done"
    /\ Unknown \notin {start_i, end_i}
    /\ v \in locations.dest[at]
    /\ toll + locations.cost[v] <= MaxToll
    /\ at' = v
    /\ toll' = toll + locations.cost[v]
    /\ UNCHANGED vars

CNext == Compute \/ \E v \in Index : Hop(v)

CSpec == CInit /\ [][CNext]_allVars

-----------------------------------------------------------------------------

Answered == pc = "done" /\ Unknown \notin {start_i, end_i}

\* No location of the database has a negative cost.
CostsInRange == \A i \in Index : locations.cost[i] <= IntMax

\* No journey to the end location is cheaper than the answer.  GetRouteCost
\* abandons the search of a location's neighbours as soon as it improves the end
\* location, and never expands the last location: neither loses a cheaper route.
NoCheaperRoute ==
    (Answered /\ CostsInRange /\ at = end_i) =>
        route_cost <= toll + locations.cost[start_i]

\* BestToll[k][v]: the least toll from the start to v in at most k hops, IntMax
\* if there is none or if it does not fit an int.
BestToll[k \in Nat] ==
    IF k = 0 THEN [v \in Index |-> IF v = start_i THEN 0 ELSE IntMax]
    ELSE [v \in Index |->
            Min({BestToll[k-1][v]} \cup
                {BestToll[k-1][u] + locations.cost[v] :
                    u \in {w \in Index : v \in locations.dest[w]}})]

\* Where a route is less than INT_MAX, the answer is exactly the cost of a
\* cheapest one.
AnswerIsCheapest ==
    (Answered /\ CostsInRange /\ BestToll[N][end_i] < IntMax) =>
        route_cost = BestToll[N][end_i] + locations.cost[start_i]

-----------------------------------------------------------------------------
(* What the interface says, and the code does not do.                        *)

\* Where one can go from the start: the locations of every set of them that has the
\* start and the destinations of its members.
Reachable ==
    {v \in Index :
        \A S \in SUBSET Index :
            (start_i \in S /\ \A u \in S : locations.dest[u] \subseteq S) => v \in S}

\* RoutePlanner.h:50: the cost is 0 on failure, so also when there is no route.
NoRouteCostsNothing ==
    (Answered /\ CostsInRange /\ end_i \notin Reachable) => route_cost = 0
==============================================================================
