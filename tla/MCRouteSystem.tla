--------------------------- MODULE MCRouteSystem ---------------------------
(* Clients for TLC: while one is served, the others are in any other stage.    *)
EXTENDS RouteSystem

CONSTANTS c1, c2, c3, a, b

ThreeClients == {c1, c2, c3}

\* Two names, each of which fills a page.
TwoNames == {a, b}
AnyWidth == [n \in TwoNames |-> 1]
WholeNames == [n \in TwoNames |-> <<n>>]
Lists == {<<a>>, <<b, a>>}

\* Indices, of which the second may be out of range, and a word.
SomeEntries == {Number(0), Number(1), Word}
=============================================================================
