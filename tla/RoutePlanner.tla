---------------------------- MODULE RoutePlanner ----------------------------
(***************************************************************************)
(* RoutePlanner::GetLocationNames and SetupRoutes                          *)
(* (src/route/RoutePlanner.cpp) over the two file databases.  Every        *)
(* locations request and every route request of a client calls             *)
(* GetLocationNames, which loads both files again and, when either load    *)
(* changed something, adds the destinations of every location.             *)
(* Destinations are kept by name: that is all DestinationIsValid reads.    *)
(***************************************************************************)
EXTENDS FileLocationDatabase, FileRouteDatabase

VARIABLES m_destinations,  \* of each location of the list
          location_names,  \* what GetLocationNames returned last
          used_freed       \* GetLocationNames read a location that was deleted

plannerVars == <<locVars, routeVars, m_destinations, location_names, used_freed>>

PlannerInit ==
    /\ LocInit
    /\ RouteInit
    /\ m_destinations = <<>>
    /\ location_names = <<>>
    /\ used_freed = FALSE

\* A location starts without destinations.
DestinationsOf(p) == IF p \in DOMAIN m_destinations THEN m_destinations[p] ELSE {}

\* Mutant: the end of a route is not looked up.
UncheckedEndMutant(p) == GetRoutes(m_routes', heap'[p].name)

\* Mutant: the routes are looked up before the route file is loaded.
EarlyLookupMutant(p) ==
    GetRoutes(m_routes, heap'[p].name) \cap DOMAIN m_location_map'

\* The destinations AddDestination gives the location: the ends of its routes that
\* are locations too, in the databases as they are after both loads.
NewDestinations(p) ==
    GetRoutes(m_routes', heap'[p].name) \cap DOMAIN m_location_map'

\* Mutant: only a change of both databases counts.
BothMutant == outcome' = "updated" /\ RoutesUpdated

SomethingUpdated == outcome' = "updated" \/ RoutesUpdated

\* SetupRoutes, once both loads have returned.  Destinations are only ever added.
Configure ==
    m_destinations' =
        [p \in Held' |->
            DestinationsOf(p) \cup (IF SomethingUpdated THEN NewDestinations(p) ELSE {})]

\* The names are read through the pointers of the list.
ListIsReadable == Pointers(m_location_list') \subseteq DOMAIN heap'

GetLocationNames ==
    /\ ~used_freed
    /\ LocationLoad
    /\ ~fault' /\ outcome' # "threw"
    /\ RouteLoad
    /\ Configure
    /\ used_freed' = ~ListIsReadable
    /\ location_names' =
          IF ListIsReadable
          THEN [i \in DOMAIN m_location_list' |-> heap'[m_location_list'[i]].name]
          ELSE <<>>

\* The exception of the location database passes through SetupRoutes: the route
\* file is not read.
GetLocationNamesThrows ==
    /\ ~used_freed
    /\ LocationLoad
    /\ fault' \/ outcome' = "threw"
    /\ UNCHANGED <<routeVars, m_destinations, location_names, used_freed>>

PlannerNext ==
    \/ GetLocationNames
    \/ GetLocationNamesThrows
    \/ ~used_freed /\ EditLocationFile
       /\ UNCHANGED <<routeVars, m_destinations, location_names, used_freed>>
    \/ ~used_freed /\ ~fault /\ EditRouteFile
       /\ UNCHANGED <<locVars, m_destinations, location_names, used_freed>>

PlannerSpec == PlannerInit /\ [][PlannerNext]_plannerVars

-----------------------------------------------------------------------------

NameOf(p) == heap[p].name

PlannerTypeOK ==
    /\ LocTypeOK
    /\ route_file \in RouteFiles
    /\ \A s \in DOMAIN m_routes : s \in RouteNames /\ m_routes[s] \subseteq RouteNames
    /\ \A p \in DOMAIN m_destinations : m_destinations[p] \subseteq Names
    /\ \A i \in DOMAIN location_names : location_names[i] \in Names
    /\ used_freed \in BOOLEAN

\* However the two files change, and whichever of them is loaded again, every
\* location has all the destinations the loaded routes give it: a reload of the
\* locations does not lose the routes, nor do routes loaded before their
\* locations.
NoRouteIsMissing ==
    \A p \in Held :
        GetRoutes(m_routes, NameOf(p)) \cap DOMAIN m_location_map \subseteq m_destinations[p]

\* No destination leads out of the list of locations, however the list was
\* replaced: GetRouteCost, which looks only at listed locations, sees every route.
DestinationsAreListed ==
    \A p \in Held : m_destinations[p] \subseteq {NameOf(q) : q \in Held}

\* RoutePlanner.h:20-21: SetupRoutes uses the databases to calculate the
\* destinations of each location, so no location keeps a route that the loaded
\* routes do not have.
NoStaleRoute ==
    \A p \in Held : m_destinations[p] \subseteq GetRoutes(m_routes, NameOf(p))

\* What a route is calculated from.
Row(p) == [name |-> NameOf(p), cost |-> heap[p].cost, destinations |-> m_destinations[p]]

Table == [i \in DOMAIN m_location_list |-> Row(m_location_list[i])]

Plans == INSTANCE RoutePlans WITH routes <- m_routes, table <- Table

\* With its two files that change independently, its heap and its cached
\* destinations, the planner is a table that is made anew or added to: a request is
\* never planned with half of an old list, nor with destinations of an old list.
ImplementsPlans == Plans!PlansSpec

\* The planner never follows a pointer to a deleted location.
NoUseAfterFree == ~used_freed /\ ~fault
==============================================================================
