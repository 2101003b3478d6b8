# A verification of Route Planner

TLA+ models of the route planner of this repository: its client, its server, the
databases behind the server and the route calculation. TLC checks the models on small
instances; TLAPS proves every safety property and every refinement that the passing runs check, for
all values of the constants that the theorems allow. Liveness is model-checked only.
Paths below are relative to the repository's root.

## The system

| part | state | operations | used by |
|---|---|---|---|
| Route calculation, `src/route/RoutePlanner.cpp:56-129` | the table of tolls and the set of processed locations of one call | `GetRouteCost`, `GetMinCostIndex`, `GetLocationIndex` | the route request handler |
| Location database, `src/route/FileLocationDatabase.cpp` | a list and a map of raw pointers to locations it owns; the file | `Load`, `GetLocations`, `GetLocation`, destructor | the planner |
| Route database, `src/route/FileRouteDatabase.cpp` | a map from a name to names; the file | `Load`, `GetRoutes` | the planner |
| Planner set-up, `src/route/RoutePlanner.cpp:16-54` | the destinations inside the locations | `SetupRoutes`, `GetLocationNames` | both request handlers |
| Messages, `include/messages/` | contents, lengths | `AddLocation`, `GetLocations`, `Serialize`, `Deserialize`, `MsgFactory::Create` | handlers and sessions |
| Handlers, `src/server.cpp`, `src/client.cpp` | the client's cache of names and its `std::cin`; the planner all sessions share | one per message, and the prompt `GetRouteRequest` | sessions, by callback |
| Framing, `include/comms/TcpSession.h`, `src/comms/TcpMsgMatch.cpp` | bytes read so far | `SendMsg`, `WaitForMsg`, `ProcessBuffer` | sessions |
| Processes, `src/comms/TcpServer.cpp`, `src/comms/TcpClient.cpp` | connections, the one thread of the `io_context` | `Start`, `AsyncWaitForMsg`, `ProcessSession`, `Send` | the two programs |

A client connects and sends a status request. From then on each end answers every
message with one of its own: the client asks for pages of locations until it has them all,
asks the user for two of them, asks for the cost, shows it, and starts again. The server
loads both files again for every locations and every route request. A client sends
*indices* into the list it was shown.

What is hard to get right, and what would make each part correct:

- **Route calculation.** It is Dijkstra's algorithm with two early exits: the outer loop
  stops before the last location, and improving the end location abandons the scan of the
  current neighbours. Costs are `unsigned`, "unreached" is `INT_MAX`, and `std::stoi`
  lets negative costs in. Correct: the answer is the cost of a cheapest route, if there is one; no
  uninitialised index is used; the table is never inconsistent, even when costs wrap.
- **Location database.** Reloading, partial failure of parsing, and manual memory. Correct:
  every location of the list is allocated, in it once and freed once, list and map agree, a
  failed load changes nothing.
- **Planner.** Two databases that reload independently, and destinations that are cached
  in the locations. Correct: after any history of edits, the destinations are exactly what the
  loaded tables say.
- **Paging.** Boundary of the page, indices that count received names while the list
  changes. Correct: the user sees all locations, and the cost is that of the user's choice.
- **Prompt.** Two loops read `size_t`s from a stream that stays failed after a word. Correct:
  a request is what the user typed, and the prompt ends.
- **Framing.** Arbitrary splits by TCP, two readers that drop what they read in excess, two
  ends that block until the other's message is whole. Correct: messages arrive whole,
  once and in order, and the ends never wait for each other.
- **Processes.** One thread, asynchronous and blocking waits, errors as exceptions,
  clients that leave at any time, one planner for all sessions. Correct: nobody waits
  without a cause, and each client has its session as if it were alone.

`PROJECT.json` lists the hazards at their lines, with the properties that cover them.

## The modules

```
RouteCost ── CheapestRoute

FileLocationDatabase ─┐
FileRouteDatabase ────┴─ RoutePlanner ── implements ── RoutePlans

TcpFraming ── implements ── MsgChannel

RouteMessages ── RouteHandlers ─┬─ RouteSession ◄──────────┐
                                └─┐                    implements
                    RouteService ─┴─ RouteSystem ──────────┘
```

The theorems about a module `M` are in `M_proof`; those about `RouteCost` are in
`CheapestRoute_proof`. The proof modules build on each other, too:

```
NumberFacts ─┬─ CheapestRoute_proof
             ├─ FileLocationDatabase_proof ── RoutePlanner_proof
             └─ RouteSession_proof ───┐
                RouteService_proof ───┴─ RouteSystem_proof
                TcpFraming_proof
```

Each that is run has an `MC` module that gives its constants values for TLC.

**RouteCost** is one call of `GetRouteCost`. A location is its index; `locations` has the
cost and the destinations of each. `pc` says which loop the call is in: `PickMin` is the
head of the outer loop with `GetMinCostIndex`, `Relax` and `PassOver` are one iteration of the
inner loop, `NextIteration` and `Finish` leave the loops. `UAdd` is addition of
`unsigned`. `Unknown` is the index `std::distance` yields for a name that is not listed.

**CheapestRoute** says what the answer should be. `BestToll` is a definition by exhaustive
search over the number of hops, and `AnswerIsCheapest` compares the answer to it wherever a
route is less than INT_MAX, the code's "unreached". The promise is also made without a recursive
definition, with an auxiliary *traveller*, who sets out from the start location when the answer
is known: `NoCheaperRoute` says that it never stands at the end location having paid less.

**FileLocationDatabase** has an explicit heap: every `Location` that was made and not deleted,
those included that a load reads and drops. `Held` are the ones the list points to, `Leaked` the
others. A pointer is never reused, so that a dangling one can be told from a good one. A file is
a sequence of lines of four kinds, by what `std::stoi` does with the cost; reading past the end
of a short line is a choice among all that may be found there. `LocationLoad` is the whole of
`Load`, with one disjunct for each way it ends. Undefined behaviour sets `fault`, after which
nothing is said; `malformed` is a history variable that records whether any load met a line
without a number.

**FileRouteDatabase** and **RoutePlanner** add the route table and the destinations.
`GetLocationNames` is one action, since one handler runs at a time; it contains both loads,
the set-up and the reading of the names. The environment edits either file between requests.

**RoutePlans** is what the planner promises the route calculation: a table without files,
pointers and caches, which a request leaves alone, makes anew, or adds to. `RoutePlanner`
implements it (`ImplementsPlans`), through a mapping that reads the table through the pointers
of the list.

**RouteMessages** has the contents of the messages. A name is its width, and what
`GetLocations` makes of it. **RouteHandlers** has the handlers as operators, since each runs
from its call to its reply without a pause: `Answered` is the server's dispatch, `Handled` the
client's, and `GetRouteRequest` is one reading of `std::cin` at the prompt. The stream is
`"good"` or `"failed"`; a word leaves 0 in the number being read, digits that no `size_t` holds
leave the largest one, the end of the input leaves it alone, and a failed stream reads nothing
any more. A load of the databases leaves one of the lists in `GetLocationNames`. What the
planner answers is the pair of names the cost is for: the cost itself is `RouteCost`'s subject.

**RouteSession** is the conversation of one client with the server's handlers, with one action
for each end and one for the user. `Exits` is the end of either process.
`OtherSessionLoads` is what is left of the other clients in it: before the session's first
locations request and after its end, the server's list may be replaced.

**RouteService** has the server's thread and any number of clients, with the kinds of
messages but not their contents. `serving` is the session that `ProcessSession` is in;
`Stop` is an exception that leaves `io_context::run`. Its `OneMessageUnderWay` is what
`TcpFraming` assumes of the sender (`MaySend`), and the reliable connections that it and
`RouteSession` assume are what `TcpFraming` shows.

**RouteSystem** composes `RouteService` with the handlers: each of its actions is one of
`RouteService` together with what it does to the one planner of the server, to the handler of
its client and to the message under way. It implements `RouteSession` for the client
`Observed`, which may be any (`SessionIsServed`): its handler and its message are
those of the session, except that the message of a client that is gone is `Ended`.

**TcpFraming** is a connection, byte by byte, in both directions: `WaitReads` and
`WaitReturns` are `WaitForMsg`, `MatchReads` is `async_read_until` with
`TcpMsgMatch::ProcessBuffer`, which only the server uses, for its first message. Every variable
is a function of the end that receives. Its abstract specification is **MsgChannel**, once
for either direction.

## The runs

| run | question | instance | states |
|---|---|---|---|
| `cheapest_route` | is the answer the cost of a cheapest route, and the table sound when costs wrap? | 3 locations, all 64 sets of routes, all pairs; costs 0, 1, 3 and costs 1, INT_MAX, -1; INT_MAX = 5 | 541486 |
| `locations` | does the database own its locations, leak none it has listed, and load all or nothing? | files of up to 2 lines that may end in any kind of bad line, and of 3 that may end in a "nan" or "huge" one, over 2 names; files of one line with the costs 2 and -1; 3 loads | 527807 |
| `planner_wellformed` | does every location have the routes the tables give it? | 2 names in both files and one in the route file only; up to 2 lines in either file, the last location line good or "huge"; 3 requests | 1245660 |
| `session_sorted` | is everything offered, and the right cost shown? | 100 chars a page; `config/locations.dat`, and up to 5 names of the widths 19, 24, 32, 49, 99 in order; every index there is and one that is not | 25296 |
| `session_reloads` | do pages fit, does paging end, is a request what the user typed? | up to 3 names of the widths 1, 3, 4 and 5 chars a page, the list replaced by any other at any load; numbers, words, too many digits and the end of the input typed in any order | 27291 |
| `framing` | do whole messages come out of the bytes, and do the ends never wait for each other? | 3 messages in either direction, each with a body of 0, 2 or 5 bytes after a header of 3 | 41123 |
| `service` | are sessions kept apart, is each as if it were alone, does nobody wait without a cause? | 3 clients, lists of one and of two names with one name a page, replaced at any load; two numbers and a word typed | 66845 |

Why these are enough. Three locations are the fewest with a detour, an early exit that skips a
neighbour and a location that is never expanded; INT_MAX is so small that tolls reach it and
sums wrap. Bad lines come last in the files, since `Load` reads none after
one. Three loads are the fewest in which a load meets the state left by one that changed
something and one that did not. Three lines over two names contain duplicates beside
another name. The widths are those at which five, four, three, two and one names just fill a page
with their separators, and a listing has up to five pages; in `session_reloads` a name may be as
wide as a page allows. Header and bodies cover the cases of a body that is empty, shorter and
longer than the header, and three messages each way the transition from
`TcpMsgMatch` to `WaitForMsg` and a second `WaitForMsg` at either end. Of three clients one is
served while the others are in any other stages, and the lists are of different
length, so that an index may be good for one and not for the other.

`MaxToll`, `MaxLoads`, `MaxLines`, `MaxLocations` and `MaxMessages`
bound the runs; none exists in the code. `SizeMax` is the largest `size_t`, made small but never
smaller than a list is long, and `Entries` is what users type. `Edited` says whether the location
file may change while the server runs: with it a load may leave any of the lists, any number
of times. Runs switch the deadlock check off where the system does come to a rest: a
call that has returned, a database that is destroyed, a session that has ended, a conversation
of `MaxMessages`, clients that have all left. (`planner_wellformed`
does not: it ends with its loads, but its files go on changing.)

### Where the code does not do what it says

Each of these runs checks one claim that a comment makes; TLC's counterexample shows
what happens instead.

| run | claim | what happens |
|---|---|---|
| `no_route` | `RoutePlanner.h:50`, 0 on failure | INT_MAX plus the start's cost, if no route leads to the end |
| `previous_list_kept` | `ILocationDatabase.h:17-18`, the previous list is kept on an error | it is freed, and still pointed to |
| `load_refreshes` | `FileLocationDatabase.h:41`, repeated calls refresh | not if the number of locations is the same |
| `stale_route` | `RoutePlanner.h:20`, calculates all destinations | removed routes stay |
| `mixed_widths` | `client.cpp:74-75`, asked once all locations are received | a short name overtakes a long one at the end of a page |

The passing runs exclude just these: `cheapest_route` asks for the answer where a route is less
than INT_MAX; `locations` asks for ownership until a malformed line is met, and lets loads leak
only what never was in the list (`OnlyUnusedLeak`); `planner_wellformed` has no malformed lines,
but lines whose exception leaves `Load`; `session_sorted` has lists in the order of their
widths, and the shipped one, whose pages happen to end before a longer name only
(`MCSortedSession` has TLC check that its lists are those the proofs are about, as
`GaplessAssumption`).

More effects can be seen in the models without a run of their own:

- A load that does not replace the list leaks the locations it has read, though
  `ILocationDatabase.h:6-7` makes the database responsible for their lifetime. `OnlyUnusedLeak`
  says that nothing else leaks.
- A client that leaves while the server waits for its next message stops the server for
  everybody: `WaitForMsg` throws, as `tests/comms/test_tcp_session.cpp:141-163` expects
  and its comment at `TcpSession.h:76` ("nullptr on failure") does not say, and the exception leaves
  `io_context::run` (`WaitFails` and `Stop`). `ServersEndIsNoticed` says what the others make of it.
- A name of 100 chars or more fits no page, and the client asks for it for ever:
  `session_reloads` has only names that fit.
- A word typed for the end location leaves 0, which is the index of a location: the request goes
  out with it (`RequestIsTheUsers` says that this is the only case in which a request has a
  number nobody typed). Any other failure of `std::cin` makes the prompt repeat for ever,
  so that `QuestionsEnd` and `ServersEndIsNoticed` except it: such a client does not even notice
  that the server is gone.
- While one client is served the others wait, for ever if its user goes on asking:
  `NoWaitWithoutCause` excepts them.

### Fairness

`FairSessionSpec` has weak fairness of each end, which handles the message it has waited for, and of
a user who is asked and types an index that is listed sooner or later (`EnterIndex`), whatever
else is typed before. `FramingSpec` has it of the reads of either end and of `SendMsg`: bytes
that were sent arrive, both waits read until they have a message or an error, and a handler
returns. `FairSystemSpec` has it of the server for each client, because `io_context::run` gets
to every ready connection once it is not in a session, of what each client does by
itself, and of the user's indices. Nothing is assumed of who connects or leaves, nor that any
list is ever loaded again.

## The proofs

Each module `M_proof` shows an inductive invariant of `M` - that the initial states have it, and
that each action preserves it, one lemma per action where an action is more than a few
lines - and takes the theorems from it.

| properties | theorems | invariant | assumed besides the types of the constants |
|---|---|---|---|
| `TypeOK`, `MinIndexIsAssigned`, `TollsAreEarned` | `TypeCorrect`, `MinIndexCorrect`, `TollsCorrect` | `Inv` | nothing: costs may wrap |
| `NoCheaperRoute` | `NoCheaperRouteExists` | `CInv` | nothing (the property itself asks for `CostsInRange`) |
| `AnswerIsCheapest` | `AnswerIsExact` | with `LowerInv` | nothing (likewise) |
| `LocTypeOK`, `OwnsItsLocations`, `MapAgreesWithList`, `OnlyUnusedLeak`, `NoPartialLoad` | `LocTypeCorrect`, `LocationsAreOwned`, `MapMeansList`, `ListedLocationsAreFreed`, `LoadsAreWhole` | `LocInv` | nothing |
| `PlannerTypeOK`, `NoRouteIsMissing`, `DestinationsAreListed` | `PlannerTypeCorrect`, `RoutesAreSetUp`, `DestinationsStayListed` | `PlannerInv` | nothing |
| `NoUseAfterFree`, `ImplementsPlans` | `NothingFreedIsUsed`, `PlannerMakesPlans` | `PlannerInv` | `WellFormedFiles` |
| `PageFits` | `PagesFit` | `SessionTypeOK` | nothing |
| `RequestIsTheUsers` | `RequestsAreTheUsers` | with `CacheInv`, `ChoiceInv` | `NamesAreWhole` |
| `AllAreOffered`, `CostIsForChosenRoute` | `EveryLocationIsOffered`, `CostIsOfTheChosenRoute`, `SortedListsAreOffered` | with `OfferInv` | `NamesAreWhole`, `GaplessLists` or lists in the order of their widths, `~Edited` |
| `FramingTypeOK`, `NothingIsThrownAway`, `ImplementsChannel` | `FramingTypeCorrect`, `NoByteIsLost`, `ChannelsAreReliable` | `FramingInv` | nothing |
| `ServiceTypeOK`, `OneMessageUnderWay`, `OneSessionAtATime` | `ServiceTypeCorrect`, `TurnsAreTaken`, `SessionsDoNotMix` | `TurnsInv` | nothing |
| `SessionIsServed` | `ObservedIsServed` | `SystemInv` | nothing |
| what is proved of one session, for every client | `EveryPageFits`, `EveryRequestIsTheUsers`, `EveryUserIsServed` | | as for one session |

The types of the constants are the named `ASSUME`s of the modules: `N` and `IntMax` are naturals,
`IntMax` positive, files and databases are sequences of what they should be, no list is longer than
a `size_t` counts, `None` is no client, and `Observed` is one. TLC evaluates them in every run.
The hypotheses in the last column exclude what the runs that expect a violation show, and no more:

- `WellFormedFiles`: every line of the location files is a location or makes `Load` throw. A line
  that is no number leaves the planner with pointers to freed locations
  (`previous_list_kept`). Without the hypothesis `OnlyMalformedLinesHarm` still holds: no freed
  location is used before such a line has been met.
- `NamesAreWhole`: no name has a `;`, at which the client splits the names of a page.
- `GaplessLists`: a page that has no room for a name has none for a later one, on every page that
  the server comes to send of the list. It is just what `mixed_widths` violates. A list whose
  names are in the order of their widths has it (`SortedListsAreGapless`, proved), and the shipped
  one has it, too (TLC).
- `~Edited`: the location file stays as it is while the server runs. When it is replaced between two
  pages or between an offer and the choice, the client has indices into a list that is gone.

**Route calculation.** The types are not inductive by themselves: that a minimum always exists
needs that the processed set has as many members as iterations begun, and that no toll exceeds
INT_MAX, which holds although sums wrap because the code only ever writes a smaller toll.

The textbook invariant - a processed location has
its final toll and its neighbours are updated - is false here: the scan may be cut short
when the end location is improved. What holds instead is that every edge from u to v out
of a scanned location is *covered*: either v's toll is at most u's plus the cost of v, or the
end's toll is at most u's plus the cost of the end, so that the detour through v, which
still has to pay the end's cost, cannot win; and that what is still unprocessed is not
cheaper than what was processed. When the last location is left over, its outgoing edges
lead to processed locations only. The traveller's invariant then says that at the end
location it has paid at least the end's toll, and that elsewhere it has paid at least the toll
of where it stands, or would pay at least the end's by going there.

`AnswerIsExact` is the other direction, too: the answer is *attained*. It is proved of `Spec`,
the code's own, without the traveller. `LowerInv` says that no
toll in the table is below `BestToll` for as many hops as locations have been processed, each
iteration being worth one hop at most; `NotTooDear` that it is not above the toll of any
number of hops, which is the traveller's argument once more, by induction on the hops.

**Databases and planner.** `LocInv` says that the list is what one load allocated, in its order, and
that all of it is allocated and the map means the same locations (`Sound`), or that nothing of it is
allocated, as after a malformed line. `OnlyUnusedLeak` follows since what a load makes is new, and
what it deletes is the whole list. That the map finds the *first* location of a name rests on
`insert` keeping what the map has. `PlannerInv` adds the destinations: they have all the loaded
routes to listed names, whichever file was loaded again last, and they lead to listed names
only. The refinement maps every location of the list to a row of the table of `RoutePlans`.

**One session.** `CacheInv` says that the client asks for the location after those it has, so
its cache never outgrows a list, and the largest number, which the digits no `size_t` holds
are read as, never is an index. `ChoiceInv` says that while the user is asked no end location is
accepted, and the start location that is accepted is the one chosen. `OfferInv` says that the
cache is a beginning of the server's list, that it ends where a page may start, and that a page
under way goes on from there. Below them are lemmas about the folds: what a page holds after k
names were offered (`Filled`), that it holds the first of them up to the one that does
not fit (`GaplessPage`), and that reading a page yields its names (`GetLocationsReads`).

**Framing.** `FramingInv` says of each end that the bytes in its buffer and those on the wire make
up the message it has not received, and nothing else; that the length it waits for is that of
the message as soon as it has the header; and that questions and answers alternate. The step
in which `WaitForMsg` or the match returns is then one `Receive` of `MsgChannel`.

**Service and system.** `TurnsInv` says of each client that at most
one direction of its connection holds a message, that the server's answer is under way only
to a client that waits, that a client is asked only while its session is being served or
after its connection was closed, and that a session that is not served has had no answer.
Because every step of the system is one of the service, it holds of the system, too.
`ContentsInv` adds what is under way: the message is of the kind its place on the
connection says, a client that is asked has no message but the two numbers, one that has not
sent anything is at its status request with a new handler, and a connection the server has closed
while it runs is one it has ended. The heart is `NotAttended`: while
the server is in another client's session, the observed one has sent nothing but its status
request, or is over, so that a list that is loaded for the other one cannot be seen - which is
what fails when sessions are processed concurrently. The operators of the instance are those of
the system by expansion (`SamePages`, `SameAnswers`, `SameReplies`). `Observed` is a constant of
which nothing is assumed but that it is a client, so that what `RouteSession_proof` shows of one
session is shown of every client's (`EveryPageFits`, `EveryRequestIsTheUsers`,
`EveryUserIsServed`): `Alone` brings its theorems to the system.

**Induction and recursion.** The induction theorems of the library are about operators, which the
provers cannot instantiate. `NumberFacts` has induction on sets of numbers, from the
well-foundedness of `<`, and from it that functions defined by recursion exist and satisfy
their equations, also those that `FoldLeft` and `FlattenSeq` expand to. That is how
`BestToll`, `PageFrom` and `GetLocations`, each a `CHOOSE` by its definition, are reasoned
about.

Model-checked only: liveness, that is `PagingEnds`, `QuestionsEnd`, `EverythingArrives`,
`ConversationGoesOn`, `NoWaitWithoutCause` and `ServersEndIsNoticed`, since the provers at hand
have neither `ENABLED` nor rules for fairness. The runs that expect a violation have
counterexamples, and nothing to prove.

## What is not modelled

- Logging, usage messages, build files, timestamps.
- `AsyncSendMsg`, which nothing calls; `Location::Destinations`, which only tests call.
- The stack that grows with a session's recursion, and the life of the client's `io_context`
  after `StartSession`, which are the compiler's and boost's.
- Messages with an unknown id: both ends are built from the same `MsgFactory`.
- The reading of the files itself: trimming and splitting are abstracted to the kinds of lines.
- The kernel's limit of the backlog.

## Plan

Done: the modules above, their composition in `RouteSystem`, the refinements of `RouteSession`,
`RoutePlans` and `MsgChannel`, and proofs of all safety properties and refinements the runs check.
Left:

1. A proof that `RouteService`'s connections are those of `MsgChannel`, so that
   `ChannelsAreReliable` carries over to the system.
2. What `RequestIsTheUsers` and `AllAreOffered` become for a name with a `;`.
