--------------------------- MODULE MCRoutePlanner ---------------------------
(* Location and route files for TLC.  The route file may name "x", which is    *)
(* never a location.                                                           *)
EXTENDS RoutePlanner, MCFileLocationDatabase

\* Files of which every line is a location or makes Load throw.
PlannerFiles == EndingIn({"good", "huge"}, MaxLines)

RouteLinesFrom(sources) == [source : sources, ends : {{"a"}, {"b", "x"}}]

\* Up to two lines, of which the first is about "a": their order does not matter.
SmallRouteFiles ==
    {<<>>} \cup {<<line>> : line \in RouteLinesFrom({"a", "b"})} \cup
    {<<first, second>> :
        first \in RouteLinesFrom({"a"}), second \in RouteLinesFrom({"a", "b"})}
==============================================================================
