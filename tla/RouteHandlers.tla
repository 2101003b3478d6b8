--------------------------- MODULE RouteHandlers ---------------------------
(***************************************************************************)
(* The message handlers of src/server.cpp and src/client.cpp: what each    *)
(* answers, and what it leaves in the client.                              *)
(*                                                                         *)
(* A ClientMsgHandler is [m_locations_cache, chosen, cin]: the names it    *)
(* has received, those whose numbers the user has typed since the last     *)
(* answer, and the state of std::cin.  While the user is asked there is no *)
(* message under way but                                                   *)
(* the two numbers GetRouteRequest holds (Asking).                         *)
(***************************************************************************)
EXTENDS RouteMessages

CONSTANTS Databases,   \* the lists of locations the server may have
          Edited,      \* the files may change while the server runs
          Entries,     \* what users type
          SizeMax      \* the largest size_t

\* What operator>> may meet: a number, which a minus sign makes a large one, a word,
\* digits no size_t holds, or the end of the input.
Number(k) == [kind |-> "number", value |-> k]
Word == [kind |-> "word", value |-> 0]
TooBig == [kind |-> "overflow", value |-> SizeMax]
EndOfInput == [kind |-> "end", value |-> 0]

ASSUME DatabaseAssumption ==
    Databases \subseteq Seq(Names) /\ \A list \in Databases : Len(list) <= SizeMax
ASSUME EditedAssumption == Edited \in BOOLEAN
ASSUME EntriesAssumption ==
    /\ SizeMax \in Nat
    /\ Entries \subseteq {Number(k) : k \in 0 .. SizeMax} \cup {Word, TooBig, EndOfInput}

-----------------------------------------------------------------------------
(* The server                                                                *)

\* The lists a load may leave in the place of this one.
GetLocationNames(list) == IF Edited THEN {list} \cup Databases ELSE {list}

\* Every location from the start is offered to the page, also after one that did
\* not fit.
PageFrom(list, start) ==
    FoldLeft(AddLocation, EmptyPage, SubSeq(list, start + 1, Len(list)))

HandleStatusRequestMsg == StatusResponse

HandleLocationsRequestMsg(list, m) ==
    IF m.start_location < Len(list)
    THEN LocationsResponse(PageFrom(list, m.start_location))
    ELSE Ended

HandleRouteRequestMsg(list, m) ==
    IF m.start_location < Len(list) /\ m.end_location < Len(list)
    THEN RouteResponse(list[m.start_location + 1], list[m.end_location + 1])
    ELSE Ended

\* ServerMsgHandler::MsgHandler.
Answered(list, m) ==
    CASE m.type = "StatusRequest" -> HandleStatusRequestMsg
      [] m.type = "LocationsRequest" -> HandleLocationsRequestMsg(list, m)
      [] m.type = "RouteRequest" -> HandleRouteRequestMsg(list, m)

-----------------------------------------------------------------------------
(* The client: each operator yields the handler as it is left, and its reply *)

NewHandler == [m_locations_cache |-> <<>>, chosen |-> <<>>, cin |-> "good"]

Result(handler, reply) == [handler |-> handler, reply |-> reply]

Asking(start, end) ==
    [type |-> "Asking", start_location |-> start, end_location |-> end]

HandleStatusResponseMsg(h) ==
    Result([h EXCEPT !.m_locations_cache = <<>>], LocationsRequest(0))

\* Where the next page starts.
NextStart(cache) == Len(cache)

HandleLocationsResponseMsg(h, m) ==
    LET cache == h.m_locations_cache \o GetLocations(m.page)
    IN  Result([h EXCEPT !.m_locations_cache = cache],
               IF m.page.is_paginated
               THEN LocationsRequest(NextStart(cache))
               ELSE Asking(Len(cache), Len(cache)))

\* Mutant: the cache survives the answer.
KeepsCacheMutant(h) == h.m_locations_cache

ClearedCache(h) == <<>>

HandleRouteResponseMsg(h) ==
    Result([h EXCEPT !.m_locations_cache = ClearedCache(h), !.chosen = <<>>],
           LocationsRequest(0))

\* ClientMsgHandler::MsgHandler.
Handled(h, m) ==
    CASE m.type = "StatusResponse" -> HandleStatusResponseMsg(h)
      [] m.type = "LocationsResponse" -> HandleLocationsResponseMsg(h, m)
      [] m.type = "RouteResponse" -> HandleRouteResponseMsg(h)

-----------------------------------------------------------------------------
(* GetRouteRequest, one reading of std::cin at a time                        *)

\* Mutant: a failure does not last, as if the stream were cleared.
ClearedMutant(cin, e) == TRUE

\* A stream that has failed once is not read again.
IsRead(cin, e) == cin = "good"

\* What operator>> leaves in its operand: 0 and the largest number when it fails on
\* what it has read, and nothing when there is nothing to read.
Extracted(cin, old, e) == IF IsRead(cin, e) /\ e.kind # "end" THEN e.value ELSE old

CinAfter(e) == IF e.kind = "number" THEN "good" ELSE "failed"

\* Mutant: the last number is not accepted.
LastIsRefusedMutant(k, cache) == k + 1 < Len(cache)

IsIndex(k, cache) == k < Len(cache)

\* The number just read, if the user has typed it and it is accepted, chooses a name.
Chosen(h, k) ==
    IF h.cin = "good" /\ IsIndex(k, h.m_locations_cache)
    THEN Append(h.chosen, h.m_locations_cache[k + 1])
    ELSE h.chosen

\* Mutant: the numbers of the request count from 1, as they do for the user.
OneBasedMutant(s, e) == RouteRequest(s + 1, e + 1)

Request(s, e) == RouteRequest(s, e)

\* The loop for the start location reads until its number is accepted, then the
\* loop for the end location does.
GetRouteRequest(h, m, entry) ==
    LET cache == h.m_locations_cache
        startAsked == ~IsIndex(m.start_location, cache)
        s == IF startAsked THEN Extracted(h.cin, m.start_location, entry)
                           ELSE m.start_location
        e == IF startAsked THEN m.end_location
                           ELSE Extracted(h.cin, m.end_location, entry)
        read == [h EXCEPT !.cin = IF IsRead(@, entry) THEN CinAfter(entry) ELSE @]
    IN  Result([read EXCEPT !.chosen = Chosen(read, IF startAsked THEN s ELSE e)],
               IF IsIndex(s, cache) /\ IsIndex(e, cache) THEN Request(s, e)
                                                         ELSE Asking(s, e))
=============================================================================
