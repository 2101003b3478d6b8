----------------------------- MODULE RoutePlans -----------------------------
(***************************************************************************)
(* What the planner promises the route calculation: a table of locations,  *)
(* with the destinations of each.  No files, no pointers, no cached map;   *)
(* a request either leaves the plans alone, or makes them from a new list, *)
(* or adds to those of the present list what new routes give.              *)
(***************************************************************************)
EXTENDS Sequences

VARIABLES table,   \* of records [name, cost, destinations]
          routes   \* of the names that have routes, where they lead

plansVars == <<table, routes>>

NamesIn(rows) == {rows[i].name : i \in DOMAIN rows}

\* Where the routes known after the request lead from n, inside the list.
Leads(n, rows) ==
    (IF n \in DOMAIN routes' THEN routes'[n] ELSE {}) \cap NamesIn(rows)

PlansInit == table = <<>> /\ routes = <<>>

NothingNew == UNCHANGED plansVars

\* Nothing is taken over from the list that was there before.
NewList ==
    \A i \in DOMAIN table' : table'[i].destinations = Leads(table'[i].name, table')

\* Routes of an earlier version of the route file stay.
NewRoutes ==
    table' = [i \in DOMAIN table |->
                 [table[i] EXCEPT !.destinations = @ \cup Leads(table[i].name, table)]]

PlansNext == NothingNew \/ NewList \/ NewRoutes

PlansSpec == PlansInit /\ [][PlansNext]_plansVars
=============================================================================
