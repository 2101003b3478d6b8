--------------------------- MODULE RouteMessages ---------------------------
(***************************************************************************)
(* What the messages of include/messages/ say.  A name is what its length  *)
(* and the client make of it: Width[n] chars on the wire, which            *)
(* GetLocations splits at ';' into the names Parts[n] - <<n>> for a name   *)
(* without a ';'.  An index counts from 0, as in the messages.             *)
(***************************************************************************)
EXTENDS Integers, SequencesExt

CONSTANTS Names, Width, Parts,
          MaxChars     \* MSG_LOCATIONS_MAX_CHARS

ASSUME NameWidthAssumption == Width \in [Names -> Nat]
ASSUME PartsAssumption == \A n \in Names : Parts[n] \in Seq(Names)
ASSUME PageAssumption == MaxChars \in Nat

StatusRequest == [type |-> "StatusRequest"]
StatusResponse == [type |-> "StatusResponse"]
LocationsRequest(start) == [type |-> "LocationsRequest", start_location |-> start]
LocationsResponse(page) == [type |-> "LocationsResponse", page |-> page]
RouteRequest(s, e) ==
    [type |-> "RouteRequest", start_location |-> s, end_location |-> e]

\* The cost is that of the route between these two names.
RouteResponse(s, e) == [type |-> "RouteResponse", between |-> <<s, e>>]

\* A handler returned no message: the session is over.
Ended == [type |-> "Ended"]

-----------------------------------------------------------------------------
(* MsgLocationsResponse                                                      *)

EmptyPage == [char_count |-> 0, names |-> <<>>, is_paginated |-> FALSE]

Add(page, n) ==
    [page EXCEPT !.char_count = @ + Width[n] + 1, !.names = Append(@, n)]

\* Mutant: the room for the separator is forgotten.
FullPageMutant(page, n) ==
    IF page.char_count + Width[n] <= MaxChars
    THEN Add(page, n)
    ELSE [page EXCEPT !.is_paginated = TRUE]

\* Mutant: room is kept for a terminating character, too.
TerminatedMutant(page, n) ==
    IF page.char_count + Width[n] + 1 < MaxChars
    THEN Add(page, n)
    ELSE [page EXCEPT !.is_paginated = TRUE]

\* A name is added with its separator if it fits, and otherwise marks the page.
AddLocation(page, n) ==
    IF page.char_count + Width[n] < MaxChars
    THEN Add(page, n)
    ELSE [page EXCEPT !.is_paginated = TRUE]

GetLocations(page) == FlattenSeq([i \in DOMAIN page.names |-> Parts[page.names[i]]])
=============================================================================
