-------------------------- MODULE FileRouteDatabase --------------------------
(***************************************************************************)
(* FileRouteDatabase (src/route/FileRouteDatabase.cpp): where the routes   *)
(* of the route file lead.  A line names a source and its ends; the ends   *)
(* are a set, since nothing depends on their order or repetition.  A file  *)
(* that cannot be opened reads as the empty sequence.                      *)
(***************************************************************************)
EXTENDS Integers, Sequences, FiniteSets

CONSTANTS RouteNames,  \* the names the route file may mention
          RouteFiles   \* the contents it may have

ASSUME RouteFileAssumption ==
    RouteFiles \subseteq Seq([source : RouteNames, ends : SUBSET RouteNames])

VARIABLES route_file, m_routes

routeVars == <<route_file, m_routes>>

\* Lines with the same source are merged.
RoutesOnDisk ==
    [s \in {route_file[i].source : i \in DOMAIN route_file} |->
        UNION {route_file[i].ends : i \in {j \in DOMAIN route_file : route_file[j].source = s}}]

Sources(routes) == Cardinality(DOMAIN routes)

\* What Load returns: nothing is read when there is nothing on disk, or as many
\* sources as are known already.
RoutesUpdated == Sources(RoutesOnDisk) \notin {0, Sources(m_routes)}

RouteInit ==
    /\ route_file \in RouteFiles
    /\ m_routes = <<>>

RouteLoad ==
    /\ m_routes' = IF RoutesUpdated THEN RoutesOnDisk ELSE m_routes
    /\ UNCHANGED route_file

\* GetRoutes on a route table.
GetRoutes(routes, start_location) ==
    IF start_location \in DOMAIN routes THEN routes[start_location] ELSE {}

EditRouteFile ==
    /\ route_file' \in RouteFiles
    /\ UNCHANGED m_routes
==============================================================================
