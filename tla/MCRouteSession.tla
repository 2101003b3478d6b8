--------------------------- MODULE MCRouteSession ---------------------------
(* Lists of locations for TLC.  A name is a pair of what it is and its width.  *)
EXTENDS RouteSession

CONSTANTS MaxLocations, SomeWidths

OwnWidth == [n \in Names |-> n[2]]

\* Without a ';' in it a name is read back as it was sent.
WholeNames == [n \in Names |-> <<n>>]

Invented == {<<"any", w>> : w \in SomeWidths}

Lists == UNION {[1 .. k -> Invented] : k \in 1 .. MaxLocations}

\* Lists in the order of the widths of their names.
SortedLists == {s \in Lists : \A i, j \in DOMAIN s : i < j => s[i][2] <= s[j][2]}

\* config/locations.dat, the apostrophe of John O'Groats being three bytes.
Shipped ==
    <<<<"London", 6>>, <<"Birmingham", 10>>, <<"Manchester", 10>>, <<"Liverpool", 9>>,
      <<"Glasgow", 7>>, <<"Leeds", 5>>, <<"Edinburgh", 9>>, <<"Peterborough", 12>>,
      <<"Newcastle", 9>>, <<"Bath", 4>>, <<"Brighton", 8>>, <<"Leicester", 9>>,
      <<"Oxford", 6>>, <<"Cambridge", 9>>, <<"Sheffield", 9>>, <<"John O'Groats", 15>>>>

ShippedAndInvented == Invented \cup ToSet(Shipped)
ShippedAndSorted == SortedLists \cup {Shipped}

\* Every index there is and one that is out of range.
Indices == {Number(k) : k \in 0 .. SizeMax}

\* With a number that is out of range, and everything that is no number.
Anything == {Number(k) : k \in 0 .. 3} \cup {Word, TooBig, EndOfInput}
=============================================================================
