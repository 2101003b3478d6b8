------------------------------ MODULE RouteCost ------------------------------
(***************************************************************************)
(* RoutePlanner::GetRouteCost (src/route/RoutePlanner.cpp): the cost of    *)
(* the cheapest route between two locations, one step per iteration of its *)
(* loops.  A location is its index in the list that                        *)
(* ILocationDatabase::GetLocations returns; a location of that list has a  *)
(* cost, charged by every route that enters it, and a set of destinations. *)
(*                                                                         *)
(* Costs are unsigned ints.  IntMax stands for INT_MAX, the code's "not    *)
(* reached yet", and arithmetic wraps at UMax + 1.  FileLocationDatabase   *)
(* reads a cost with std::stoi, so a negative cost in the file is a Cost() *)
(* above IntMax.                                                           *)
(***************************************************************************)
EXTENDS Integers, FiniteSets

CONSTANTS N,       \* locations.size()
          IntMax,  \* INT_MAX
          Maps     \* the databases GetRouteCost may be called on

Index == 0 .. N-1

UMax == 2*IntMax + 1

\* The index that std::distance gives for a name the list does not have; the
\* location map has a null pointer for it.
Unknown == N

Map == [cost : [Index -> 0 .. UMax], dest : [Index -> SUBSET Index]]

ASSUME SizeAssumption == N \in Nat
ASSUME WidthAssumption == IntMax \in Nat \ {0}
ASSUME MapsAssumption == Maps \subseteq Map

\* Mutant: the sum is kept in a wider type.
NoWrapMutant(a, b) == a + b

\* unsigned int addition
UAdd(a, b) == (a + b) % (UMax + 1)

-----------------------------------------------------------------------------

VARIABLES locations,    \* costs and destinations, constant during the call
          start_i,      \* GetLocationIndex(locations, start_location_name)
          end_i,
          route_costs,  \* the cheapest toll found so far for each location
          spt_set,      \* the indices marked as processed
          count,        \* iterations of the outer loop done
          min_cost_i,   \* the location being expanded
          base_cost,    \* its toll when it was picked
          adj_i,        \* inner loop index
          bSearch,      \* cleared when the end location is improved
          route_cost,   \* the value returned
          pc            \* "call", "outer", "inner" or "done"

inputs == <<locations, start_i, end_i>>
vars == <<inputs, route_costs, spt_set, count, min_cost_i, base_cost, adj_i,
          bSearch, route_cost, pc>>

\* Mutant: one location too few is expanded.
StopsTooSoonMutant == count < N - 2

\* The outer loop stops before the last location.  (The code's size_t N - 1 does
\* not wrap: an empty list has no start location, and NotFound returns.)
MoreToPick == count < N - 1

\* The indices GetMinCostIndex assigns min_index from.
Unprocessed == {i \in Index \ spt_set : route_costs[i] <= IntMax}

Cheapest == {i \in Unprocessed :
                \A j \in Unprocessed : route_costs[i] <= route_costs[j]}

\* The scan keeps the last of several equal minima.  With nothing to scan the
\* code returns min_index unassigned; MinIndexIsAssigned shows it never does.
GetMinCostIndex == CHOOSE i \in Cheapest : \A j \in Cheapest : j <= i

\* Mutant: UINT_MAX instead of INT_MAX for "not reached".
UnreachedAtUMaxMutant == [i \in Index |-> UMax]

UnreachedCosts == [i \in Index |-> IntMax]

Init ==
    /\ locations \in Maps
    /\ start_i \in Index \cup {Unknown}
    /\ end_i \in Index \cup {Unknown}
    /\ route_costs = UnreachedCosts
    /\ spt_set = {}
    /\ count = 0
    /\ min_cost_i = 0
    /\ base_cost = 0
    /\ adj_i = 0
    /\ bSearch = TRUE
    /\ route_cost = 0
    /\ pc = "call"

\* A name that is not in the database: the call returns 0.
NotFound ==
    /\ pc = "call"
    /\ Unknown \in {start_i, end_i}
    /\ route_cost' = 0
    /\ pc' = "done"
    /\ UNCHANGED <<inputs, route_costs, spt_set, count, min_cost_i, base_cost,
                   adj_i, bSearch>>

\* Both names are known: the start is at distance 0 from itself.
Start ==
    /\ pc = "call"
    /\ Unknown \notin {start_i, end_i}
    /\ route_costs' = [route_costs EXCEPT ![start_i] = 0]
    /\ pc' = "outer"
    /\ UNCHANGED <<inputs, spt_set, count, min_cost_i, base_cost, adj_i,
                   bSearch, route_cost>>

\* Head of the outer loop: mark the cheapest unprocessed location.
PickMin ==
    /\ pc = "outer"
    /\ MoreToPick
    /\ min_cost_i' = GetMinCostIndex
    /\ spt_set' = spt_set \cup {min_cost_i'}
    /\ base_cost' = route_costs[min_cost_i']
    /\ adj_i' = 0
    /\ bSearch' = TRUE
    /\ pc' = "inner"
    /\ UNCHANGED <<inputs, route_costs, count, route_cost>>

\* Mutant: an unreached location is expanded too.
UnreachedBaseMutant(adj) ==
    /\ adj \in locations.dest[min_cost_i]
    /\ adj \notin spt_set
    /\ UAdd(base_cost, locations.cost[adj]) < route_costs[adj]

\* The test of the inner loop: going to adj through the picked location is an
\* improvement.
Improves(adj) ==
    /\ adj \in locations.dest[min_cost_i]
    /\ adj \notin spt_set
    /\ base_cost # IntMax
    /\ UAdd(base_cost, locations.cost[adj]) < route_costs[adj]

\* Mutant: the scan stops at any improvement.
StopAtAnyMutant(adj) == FALSE

\* Improving the end location ends the scan of the picked location's neighbours.
KeepSearching(adj) == adj # end_i

Relax ==
    /\ pc = "inner"
    /\ adj_i < N /\ bSearch
    /\ Improves(adj_i)
    /\ route_costs' = [route_costs EXCEPT ![adj_i] =
                          UAdd(base_cost, locations.cost[adj_i])]
    /\ bSearch' = KeepSearching(adj_i)
    /\ adj_i' = adj_i + 1
    /\ UNCHANGED <<inputs, spt_set, count, min_cost_i, base_cost, route_cost, pc>>

PassOver ==
    /\ pc = "inner"
    /\ adj_i < N /\ bSearch
    /\ ~Improves(adj_i)
    /\ adj_i' = adj_i + 1
    /\ UNCHANGED <<inputs, route_costs, spt_set, count, min_cost_i, base_cost,
                   bSearch, route_cost, pc>>

\* The inner loop ends when it has seen every location, or early.
NextIteration ==
    /\ pc = "inner"
    /\ adj_i = N \/ ~bSearch
    /\ count' = count + 1
    /\ pc' = "outer"
    /\ UNCHANGED <<inputs, route_costs, spt_set, min_cost_i, base_cost, adj_i,
                   bSearch, route_cost>>

\* Mutant: the start location is free.
NoStartCostMutant == route_costs[end_i]

\* The toll to the end location, plus the cost of the start location.
TotalCost == UAdd(route_costs[end_i], locations.cost[start_i])

Finish ==
    /\ pc = "outer"
    /\ ~MoreToPick
    /\ route_cost' = TotalCost
    /\ pc' = "done"
    /\ UNCHANGED <<inputs, route_costs, spt_set, count, min_cost_i, base_cost,
                   adj_i, bSearch>>

Next == NotFound \/ Start \/ PickMin \/ Relax \/ PassOver \/ NextIteration \/ Finish

Spec == Init /\ [][Next]_vars

-----------------------------------------------------------------------------

TypeOK ==
    /\ locations \in Map
    /\ start_i \in Index \cup {Unknown}
    /\ end_i \in Index \cup {Unknown}
    /\ route_costs \in [Index -> 0 .. IntMax]
    /\ spt_set \subseteq Index
    /\ count \in 0 .. N
    /\ min_cost_i \in Index \cup {0}
    /\ base_cost \in 0 .. IntMax
    /\ adj_i \in 0 .. N
    /\ bSearch \in BOOLEAN
    /\ route_cost \in 0 .. UMax
    /\ pc \in {"call", "outer", "inner", "done"}

\* Whenever the outer loop asks GetMinCostIndex for a location there is one to
\* return, so the uninitialised min_index is never used as a subscript - even
\* when locations are unreachable or costs have wrapped around.
MinIndexIsAssigned == (pc = "outer" /\ MoreToPick) => Unprocessed # {}

\* Every toll in the table is the toll of a real route: a reached location other
\* than the start was reached from a processed location that has it as a
\* destination, and costs exactly its own cost more.  What is written to a
\* location after it is processed, or read from one before its toll is final,
\* breaks this.
TollsAreEarned ==
    \A v \in Index : (route_costs[v] < IntMax /\ v # start_i) =>
        \E u \in spt_set : /\ v \in locations.dest[u]
                           /\ route_costs[u] < IntMax
                           /\ route_costs[v] = UAdd(route_costs[u], locations.cost[v])
==============================================================================
