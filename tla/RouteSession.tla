---------------------------- MODULE RouteSession ----------------------------
(***************************************************************************)
(* One client's session, from its status request to its end.  The two ends *)
(* take turns, so there is one message under way; the TCP sessions below   *)
(* are reliable and ordered.  RouteSystem shows that this is what each of  *)
(* many clients gets.                                                      *)
(***************************************************************************)
EXTENDS RouteHandlers

VARIABLES locations,   \* of the server: what its planner has loaded
          handler,     \* the ClientMsgHandler
          msg          \* the message under way

sessionVars == <<locations, handler, msg>>

SessionInit ==
    /\ locations \in Databases
    /\ handler = NewHandler
    /\ msg = StatusRequest

-----------------------------------------------------------------------------

\* The list is loaded again for every request but the first.
ServerHandles ==
    /\ \/ /\ msg.type = "StatusRequest"
          /\ UNCHANGED locations
       \/ /\ msg.type \in {"LocationsRequest", "RouteRequest"}
          /\ locations' \in GetLocationNames(locations)
    /\ msg' = Answered(locations', msg)
    /\ UNCHANGED handler

ClientHandles ==
    /\ msg.type \in {"StatusResponse", "LocationsResponse", "RouteResponse"}
    /\ LET result == Handled(handler, msg) IN
          handler' = result.handler /\ msg' = result.reply
    /\ UNCHANGED locations

Enter(entry) ==
    /\ msg.type = "Asking"
    /\ LET result == GetRouteRequest(handler, msg, entry) IN
          handler' = result.handler /\ msg' = result.reply
    /\ UNCHANGED locations

\* One of the processes ends: the user's interrupt, or an exception - of a database
\* that cannot be read, or of a connection that is lost.
Exits ==
    /\ msg' = Ended
    /\ handler' = NewHandler
    /\ UNCHANGED locations

\* The session is not being served, and another one has the list loaded.
OtherSessionLoads ==
    /\ msg.type \in {"StatusRequest", "Ended"}
    /\ locations' \in GetLocationNames(locations)
    /\ UNCHANGED <<handler, msg>>

SessionNext ==
    \/ ServerHandles
    \/ ClientHandles
    \/ \E entry \in Entries : Enter(entry)
    \/ Exits
    \/ OtherSessionLoads

SessionSpec == SessionInit /\ [][SessionNext]_sessionVars

\* The user types a number of those shown.
EnterIndex ==
    \E entry \in Entries :
        /\ entry.kind = "number" /\ entry.value < Len(handler.m_locations_cache)
        /\ Enter(entry)

\* Each end waits for the other's message and handles it, and a user who is asked
\* types a number that is accepted sooner or later.
FairSessionSpec ==
    /\ SessionSpec
    /\ WF_sessionVars(ServerHandles)
    /\ WF_sessionVars(ClientHandles)
    /\ WF_sessionVars(EnterIndex)

-----------------------------------------------------------------------------

\* No name has a ';' in it, at which the client would split it.
NamesAreWhole == \A n \in Names : Parts[n] = <<n>>

\* A page of these locations that has no room for one has none for a later one: so
\* it is when they are in the order of their widths, or when they fill their pages.
Gapless(list) ==
    \A i, j \in 1 .. Len(list) :
        LET page == FoldLeft(AddLocation, EmptyPage, SubSeq(list, 1, i - 1))
        IN  i < j /\ page.char_count + Width[list[i]] >= MaxChars
                => page.char_count + Width[list[j]] >= MaxChars

\* These are where pages of the list start, and none of them has gaps.
PagesStartAt(list, starts) ==
    /\ 0 \in starts
    /\ \A start \in starts :
          LET page == PageFrom(list, start)
          IN  /\ Gapless(SubSeq(list, start + 1, Len(list)))
              /\ page.is_paginated => start + Len(page.names) \in starts

GaplessLists ==
    \A list \in Databases : \E starts \in SUBSET (0 .. Len(list)) : PagesStartAt(list, starts)

\* A page never outgrows the char array of the message, its last separator
\* included.
PageFits == msg.type = "LocationsResponse" => msg.page.char_count <= MaxChars

\* client.cpp:74-75: the user is asked to select once all the locations have been
\* received - all of them, in the server's order, however many pages it took and
\* whatever was left in the cache by the previous question.
AllAreOffered == msg.type = "Asking" => handler.m_locations_cache = locations

\* The cost the client shows is that of the route the user chose: the indices mean
\* the same names at both ends.
CostIsForChosenRoute ==
    msg.type = "RouteResponse" /\ handler.cin = "good" => msg.between = handler.chosen

\* A number the user has not typed is in a request once at most, when a word is
\* typed for the end location: the request asks for the first location then.  With
\* any other failure of std::cin, GetRouteRequest makes no request any more.
RequestIsTheUsers ==
    msg.type = "RouteRequest" =>
        LET cache == handler.m_locations_cache
            start == cache[msg.start_location + 1]
        IN  IF handler.cin = "good"
            THEN handler.chosen = <<start, cache[msg.end_location + 1]>>
            ELSE handler.chosen = <<start>> /\ msg.end_location = 0

\* Paging comes to an end: the user is asked, or the server ends the session
\* because the list has become shorter than what the client has.
PagingEnds == msg.type = "LocationsRequest" ~> msg.type \in {"Asking", "Ended"}

\* The user who is asked gets to a request, whatever is mistyped on the way, unless
\* std::cin fails, after which the client asks for ever and reads nothing.
QuestionsEnd == msg.type = "Asking" ~> msg.type # "Asking" \/ handler.cin = "failed"
=============================================================================
