----------------------------- MODULE MCRouteCost -----------------------------
(* Databases for TLC: every map over N locations and a few costs, without a    *)
(* route from a location to itself.                                            *)
EXTENDS RouteCost

MapsOver(costs) ==
    {m \in [cost : [Index -> costs], dest : [Index -> SUBSET Index]] :
        \A i \in Index : i \notin m.dest[i]}

\* Free, cheap and dear locations.
SmallMaps == MapsOver({0, 1, 3})

\* Costs at the edges of the type: INT_MAX, and -1, which is UMax.
WrappedMaps == MapsOver({1, IntMax, UMax})

SmallAndWrappedMaps == SmallMaps \cup WrappedMaps
==============================================================================
