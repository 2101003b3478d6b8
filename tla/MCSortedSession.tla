-------------------------- MODULE MCSortedSession --------------------------
(* The lists of which the client is offered everything, however many pages    *)
(* they take: of these and of config/locations.dat the pages have no gaps.    *)
EXTENDS MCRouteSession

ASSUME GaplessAssumption == NamesAreWhole /\ GaplessLists
=============================================================================
