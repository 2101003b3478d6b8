------------------------- MODULE RoutePlanner_proof -------------------------
(***************************************************************************)
(* For any location and route files, edited and loaded in any order: the   *)
(* planner's destinations are those of its databases.  For files of which  *)
(* every line is a location or makes Load throw, it makes RoutePlans.      *)
(***************************************************************************)
EXTENDS RoutePlanner, FileLocationDatabase_proof

RoutesTypeOK ==
    /\ route_file \in RouteFiles
    /\ \A s \in DOMAIN m_routes : s \in RouteNames /\ m_routes[s] \subseteq RouteNames

(* Every location has been set up, with all its routes and no others; the     *)
(* locations that a malformed line freed have been read if any were listed.   *)
PlannerInv ==
    /\ LocInv
    /\ RoutesTypeOK
    /\ m_destinations = [p \in Held |-> m_destinations[p]]
    /\ NoRouteIsMissing
    /\ DestinationsAreListed
    /\ \A i \in DOMAIN location_names : location_names[i] \in Names
    /\ used_freed \in BOOLEAN
    /\ ~used_freed => Sound
    /\ ~malformed => ~used_freed

LEMMA InitPlanner == PlannerInit => PlannerInv
<1> SUFFICES ASSUME PlannerInit PROVE PlannerInv
  OBVIOUS
<1>1. DOMAIN <<>> = {}
  OBVIOUS
<1>2. LocInv
  BY InitLoc DEF PlannerInit
<1>3. Held = {} /\ DOMAIN m_destinations = {} /\ DOMAIN location_names = {}
  BY <1>1 DEF PlannerInit, LocInit, Held
<1>4. RoutesTypeOK
  BY <1>1 DEF PlannerInit, RouteInit, RoutesTypeOK
<1>5. NoRouteIsMissing /\ DestinationsAreListed
  BY <1>3 DEF NoRouteIsMissing, DestinationsAreListed
<1>7. m_destinations = [p \in Held |-> m_destinations[p]]
  BY <1>1, <1>3 DEF PlannerInit
<1>6. used_freed = FALSE /\ malformed = FALSE
  BY DEF PlannerInit, LocInit
<1> QED
  BY <1>2, <1>3, <1>4, <1>5, <1>6, <1>7 DEF PlannerInv, LocInv

-----------------------------------------------------------------------------

(* What a load does to the list of a database that is sound: nothing; replace it by *)
(* new objects; free it; or stop.  Whatever else it allocates is not in the list. *)
LoadChangesNothing == SameHeld /\ outcome' = "kept" /\ fault' = FALSE

LoadReplaces ==
    /\ Held' \cap Held = {}
    /\ Sound' /\ outcome' = "updated" /\ fault' = FALSE

LoadFrees ==
    /\ Held' = {} /\ UNCHANGED <<m_location_list, m_location_map>>
    /\ malformed' /\ outcome' = "kept" /\ fault' = FALSE

LoadStops ==
    /\ SameHeld
    /\ (outcome' = "threw" /\ fault' = FALSE) \/ (fault' /\ malformed')

LEMMA LoadCases ==
    ASSUME LocInv, Sound, LocationLoad
    PROVE  LoadChangesNothing \/ LoadReplaces \/ LoadFrees \/ LoadStops
<1>1. PICK lines \in Readings(loc_file) :
        /\ malformed' = (malformed \/ FirstIs(lines, "nan") \/ FirstIs(lines, "wild"))
        /\ \/ LoadKeeps(lines)
           \/ LoadUpdates(lines)
           \/ LoadMalformed(lines)
           \/ LoadThrows(lines)
           \/ LoadFaults(lines)
  BY DEF LocationLoad
<1>2. lines \in Seq(Line)
  BY ReadingProperties DEF LocInv, LocTypeOK
<1>3. fault = FALSE /\ DeleteIsDefined
  BY DeleteLeavesNothing DEF LocationLoad, LocInv, LocTypeOK
<1>9. loads < MaxLoads /\ loads' = loads + 1
  BY DEF LocationLoad
<1>4. CASE LoadKeeps(lines)
  <2>1. SameHeld
    BY <1>2, <1>4, <1>9, DroppedBeside, Zenon DEF LoadKeeps
  <2> QED
    BY <1>3, <1>4, <2>1 DEF LoadKeeps, LoadChangesNothing
<1>5. CASE LoadUpdates(lines)
  <2>1. Updated(lines) /\ Sound'
    BY <1>2, <1>5, <1>9, UpdatedState, UpdateIsSound, Zenon
  <2>2. Held' = New(Len(lines)) /\ Held \subseteq Pointers(m_location_list)
    BY <2>1 DEF Updated, Held
  <2>4. Held' \cap Held = {}
    BY <2>2, ListIsOld
  <2>5. outcome' = "updated" /\ fault' = FALSE
    BY <1>3, <1>5 DEF LoadUpdates
  <2> QED
    BY <2>1, <2>4, <2>5 DEF LoadReplaces
<1>6. CASE LoadMalformed(lines)
  <2>1. malformed'
    BY <1>1, <1>6 DEF LoadMalformed
  <2>2. Held' = {}
    BY <1>2, <1>6, <1>9, MalformedLeavesNothing, Zenon
  <2> QED
    BY <1>3, <1>6, <2>1, <2>2 DEF LoadMalformed, LoadFrees
<1>7. CASE LoadThrows(lines)
  <2>1. Before(lines) \in Seq(Line)
    BY <1>2, BeforeIsRead
  <2>2. SameHeld
    BY <1>7, <1>9, <2>1, DroppedBeside, Zenon DEF LoadThrows
  <2> QED
    BY <1>3, <1>7, <2>2 DEF LoadThrows, LoadStops
<1>8. CASE LoadFaults(lines)
  <2>1. malformed'
    BY <1>1, <1>8 DEF LoadFaults
  <2> QED
    BY <1>8, <2>1 DEF LoadFaults, LoadStops, SameHeld, Held
<1> QED
  BY <1>1, <1>4, <1>5, <1>6, <1>7, <1>8

-----------------------------------------------------------------------------

RouteLine == [source : RouteNames, ends : SUBSET RouteNames]

(* Reading the route file yields names.                                       *)
LEMMA RoutesAreTyped == ASSUME RoutesTypeOK, RouteLoad PROVE RoutesTypeOK'
<1>1. \A i \in DOMAIN route_file :
        route_file[i].source \in RouteNames /\ route_file[i].ends \subseteq RouteNames
  <2>1. route_file \in Seq(RouteLine)
    BY RouteFileAssumption DEF RoutesTypeOK, RouteLine
  <2>2. \A i \in DOMAIN route_file : route_file[i] \in RouteLine
    BY <2>1
  <2> QED
    BY <2>2 DEF RouteLine
<1>2. \A s \in DOMAIN RoutesOnDisk :
        s \in RouteNames /\ RoutesOnDisk[s] \subseteq RouteNames
  BY <1>1 DEF RoutesOnDisk
<1> QED
  BY <1>2 DEF RoutesTypeOK, RouteLoad

(* A route leads only where the map knows a location.                         *)
LEMMA NewAreListed ==
    ASSUME Sound', NEW p \in Held'
    PROVE  NewDestinations(p) \subseteq {heap'[q].name : q \in Held'}
BY DEF NewDestinations, Sound

(* SetupRoutes leaves every location with all its routes, and only listed ones. *)
LEMMA SetUpRoutes ==
    ASSUME PlannerInv, ~used_freed, GetLocationNames
    PROVE  /\ m_destinations' = [p \in Held' |-> m_destinations'[p]]
           /\ NoRouteIsMissing' /\ DestinationsAreListed'
<1>1. m_destinations' = [p \in Held' |-> m_destinations'[p]]
  BY DEF GetLocationNames, Configure
<1>2. \A p \in Held' :
        m_destinations'[p] =
            DestinationsOf(p) \cup (IF SomethingUpdated THEN NewDestinations(p) ELSE {})
  BY DEF GetLocationNames, Configure
<1>3. \/ LoadChangesNothing \/ LoadReplaces \/ Held' = {}
  BY LoadCases DEF PlannerInv, GetLocationNames, LoadStops, LoadFrees
<1>4. ASSUME NEW p \in Held'
      PROVE  /\ NewDestinations(p) \subseteq m_destinations'[p]
             /\ m_destinations'[p] \subseteq {heap'[q].name : q \in Held'}
  <2>1. CASE LoadReplaces
    <3>1. DestinationsOf(p) = {} /\ SomethingUpdated /\ Sound'
      BY <2>1 DEF PlannerInv, DestinationsOf, SomethingUpdated, LoadReplaces
    <3> QED
      BY <1>2, <3>1, NewAreListed
  <2>2. CASE LoadChangesNothing
    <3>1. /\ Held' = Held /\ m_location_map' = m_location_map /\ outcome' = "kept"
          /\ \A q \in Held : heap'[q] = heap[q]
      BY <2>2 DEF LoadChangesNothing, SameHeld
    <3>2. Sound'
      BY <2>2, SoundDepends DEF LoadChangesNothing, PlannerInv
    <3>3. DestinationsOf(p) = m_destinations[p] /\ p \in Held
      BY <3>1 DEF PlannerInv, DestinationsOf
    <3>4. m_destinations[p] \subseteq {heap'[q].name : q \in Held'}
      BY <3>1, <3>3 DEF PlannerInv, DestinationsAreListed, NameOf
    <3>5. CASE RoutesUpdated
      <4>1. SomethingUpdated
        BY <3>5 DEF SomethingUpdated
      <4> QED
        BY <1>2, <3>2, <3>3, <3>4, <4>1, NewAreListed
    <3>6. CASE ~RoutesUpdated
      <4>1. ~SomethingUpdated /\ m_routes' = m_routes
        BY <3>1, <3>6 DEF SomethingUpdated, GetLocationNames, RouteLoad
      <4>2. NewDestinations(p) \subseteq m_destinations[p]
        BY <3>1, <3>3, <4>1
           DEF PlannerInv, NoRouteIsMissing, NewDestinations, NameOf
      <4> QED
        BY <1>2, <3>3, <3>4, <4>1, <4>2
    <3> QED
      BY <3>5, <3>6
  <2> QED
    BY <1>3, <2>1, <2>2
<1>5. NoRouteIsMissing'
  BY <1>4 DEF NoRouteIsMissing, NewDestinations, NameOf
<1>6. DestinationsAreListed'
  BY <1>4 DEF DestinationsAreListed, NameOf
<1> QED
  BY <1>1, <1>5, <1>6

(* A whole request.                                                           *)
LEMMA GetLocationNamesInv == ASSUME PlannerInv, GetLocationNames PROVE PlannerInv'
<1>1. LocInv' /\ ~used_freed /\ Sound
  BY LoadInv DEF PlannerInv, GetLocationNames
<1>2. RoutesTypeOK'
  BY RoutesAreTyped DEF PlannerInv, GetLocationNames
<1>3. \A i \in DOMAIN location_names' : location_names'[i] \in Names
  <2>1. CASE ListIsReadable
    <3>1. location_names' = [i \in DOMAIN m_location_list' |-> heap'[m_location_list'[i]].name]
      BY <2>1 DEF GetLocationNames
    <3>2. \A i \in DOMAIN m_location_list' : m_location_list'[i] \in Held'
      BY <2>1 DEF ListIsReadable, Pointers, Held
    <3>3. \A p \in Held' : heap'[p].name \in Names
      BY <1>1 DEF LocInv, LocTypeOK, Held
    <3> QED
      BY <3>1, <3>2, <3>3
  <2>2. CASE ~ListIsReadable
    BY <2>2 DEF GetLocationNames
  <2> QED
    BY <2>1, <2>2
<1>4. used_freed' = ~ListIsReadable
  BY DEF GetLocationNames
<1>5. LoadChangesNothing \/ LoadReplaces \/ LoadFrees
  BY <1>1, LoadCases DEF PlannerInv, GetLocationNames, LoadStops
<1>6. Sound' => ListIsReadable
  BY DEF Sound, ListIsReadable
<1>7. ListIsReadable => Sound'
  <2>1. CASE LoadChangesNothing
    BY <1>1, <2>1, SoundDepends DEF LoadChangesNothing
  <2>2. CASE LoadFrees
    <3>1. ASSUME ListIsReadable
          PROVE  /\ Held' = {} /\ Pointers(m_location_list') = {}
                 /\ DOMAIN m_location_map' = {}
      <4>1. Held' = {} /\ m_location_list' = m_location_list /\ m_location_map' = m_location_map
        BY <2>2 DEF LoadFrees
      <4>2. Held' = DOMAIN heap' \cap Pointers(m_location_list')
        BY DEF Held, Pointers
      <4>3. Pointers(m_location_list') = {}
        BY <3>1, <4>1, <4>2 DEF ListIsReadable
      <4>4. Held = {}
        BY <4>1, <4>3 DEF Held
      <4> QED
        BY <1>1, <4>1, <4>3, <4>4 DEF Sound
    <3> QED
      BY <3>1 DEF Sound
  <2> QED
    BY <1>5, <2>1, <2>2 DEF LoadReplaces
<1>8. ~malformed' => Sound'
  BY <1>1 DEF LocInv
<1> QED
  BY <1>1, <1>2, <1>3, <1>4, <1>6, <1>7, <1>8, SetUpRoutes DEF PlannerInv, ListIsReadable

(* Nothing the planner says depends on the files.                             *)
LEMMA PlannerDepends ==
    ASSUME PlannerInv, SameHeld, LocInv', RoutesTypeOK',
           UNCHANGED <<m_routes, m_destinations, location_names, used_freed>>,
           ~malformed' => ~malformed
    PROVE  PlannerInv'
<1>1. /\ Held' = Held /\ m_location_map' = m_location_map
      /\ \A p \in Held : heap'[p] = heap[p]
      /\ m_routes' = m_routes /\ m_destinations' = m_destinations
      /\ location_names' = location_names /\ used_freed' = used_freed
  BY DEF SameHeld
<1>2. NoRouteIsMissing' /\ DestinationsAreListed'
  BY <1>1 DEF PlannerInv, NoRouteIsMissing, DestinationsAreListed, NameOf
<1>3. Sound => Sound'
  BY SoundDepends
<1> QED
  BY <1>1, <1>2, <1>3 DEF PlannerInv

LEMMA GetLocationNamesThrowsInv == ASSUME PlannerInv, GetLocationNamesThrows PROVE PlannerInv'
<1>1. LocInv' /\ Sound
  BY LoadInv DEF PlannerInv, GetLocationNamesThrows
<1>2. ~malformed' => ~malformed
  BY DEF GetLocationNamesThrows, LocationLoad
<1>3. RoutesTypeOK'
  BY DEF PlannerInv, RoutesTypeOK, GetLocationNamesThrows, routeVars
<1>4. SameHeld
  <2>1. fault' \/ outcome' = "threw"
    BY DEF GetLocationNamesThrows
  <2>2. ~LoadChangesNothing /\ ~LoadReplaces /\ ~LoadFrees
    BY <2>1 DEF LoadChangesNothing, LoadReplaces, LoadFrees
  <2> QED
    BY <1>1, <2>2, LoadCases DEF PlannerInv, GetLocationNamesThrows, LoadStops
<1> QED
  BY <1>1, <1>2, <1>3, <1>4, PlannerDepends DEF GetLocationNamesThrows, routeVars

LEMMA NextPlanner == PlannerInv /\ [PlannerNext]_plannerVars => PlannerInv'
<1> SUFFICES ASSUME PlannerInv, [PlannerNext]_plannerVars PROVE PlannerInv'
  OBVIOUS
<1>1. CASE GetLocationNames
  BY <1>1, GetLocationNamesInv
<1>2. CASE GetLocationNamesThrows
  BY <1>2, GetLocationNamesThrowsInv
<1>3. CASE /\ EditLocationFile
           /\ UNCHANGED <<routeVars, m_destinations, location_names, used_freed>>
  <2>1. LocInv'
    BY <1>3, NextLoc DEF PlannerInv, LocNext
  <2> QED
    BY <1>3, <2>1, PlannerDepends
       DEF PlannerInv, RoutesTypeOK, EditLocationFile, routeVars, SameHeld, Held
<1>4. CASE EditRouteFile /\ UNCHANGED <<locVars, m_destinations, location_names, used_freed>>
  <2>1. LocInv' /\ SameHeld /\ malformed' = malformed
    BY <1>4, NextLoc DEF PlannerInv, locVars, SameHeld, Held
  <2> QED
    BY <1>4, <2>1, PlannerDepends DEF PlannerInv, RoutesTypeOK, EditRouteFile
<1>5. CASE UNCHANGED plannerVars
  <2>1. LocInv' /\ SameHeld /\ malformed' = malformed
    BY <1>5, NextLoc DEF PlannerInv, plannerVars, locVars, SameHeld, Held
  <2> QED
    BY <1>5, <2>1, PlannerDepends DEF PlannerInv, RoutesTypeOK, plannerVars, routeVars
<1> QED
  BY <1>1, <1>2, <1>3, <1>4, <1>5 DEF PlannerNext

(* In every reachable state of the planner, src/route/RoutePlanner.cpp, every
   location is set up from the databases as they are. *)
THEOREM PlannerInvariance == PlannerSpec => []PlannerInv
BY InitPlanner, NextPlanner, PTL DEF PlannerSpec

-----------------------------------------------------------------------------

(* The state of the planner is well typed, for any files.                     *)
THEOREM PlannerTypeCorrect == PlannerSpec => []PlannerTypeOK
<1>1. PlannerInv => PlannerTypeOK
  <2> SUFFICES ASSUME PlannerInv PROVE PlannerTypeOK
    OBVIOUS
  <2>1. \A p \in Held : NameOf(p) \in Names
    BY DEF PlannerInv, LocInv, LocTypeOK, NameOf, Held
  <2>2. \A p \in DOMAIN m_destinations : m_destinations[p] \subseteq Names
    BY <2>1 DEF PlannerInv, DestinationsAreListed
  <2> QED
    BY <2>2 DEF PlannerTypeOK, PlannerInv, LocInv, RoutesTypeOK
<1> QED
  BY <1>1, PlannerInvariance, PTL

(* However the two files are edited, and whichever load takes effect, a location has *)
(* every destination that the loaded routes give it.                          *)
THEOREM RoutesAreSetUp == PlannerSpec => []NoRouteIsMissing
<1>1. PlannerInv => NoRouteIsMissing
  BY DEF PlannerInv
<1> QED
  BY <1>1, PlannerInvariance, PTL

(* No destination is left over from a list that was replaced.                 *)
THEOREM DestinationsStayListed == PlannerSpec => []DestinationsAreListed
<1>1. PlannerInv => DestinationsAreListed
  BY DEF PlannerInv
<1> QED
  BY <1>1, PlannerInvariance, PTL

-----------------------------------------------------------------------------

(* Every line of every file is a location, or makes Load throw.               *)
WellFormedFiles ==
    \A file \in LocationFiles : \A i \in DOMAIN file : file[i].kind \in {"good", "huge"}

(* Nothing malformed is met in such files.                                    *)
LEMMA NeverMalformed ==
    ASSUME WellFormedFiles, PlannerInv, ~malformed, [PlannerNext]_plannerVars
    PROVE  ~malformed'
<1>1. ASSUME LocationLoad PROVE ~malformed'
  <2>1. PICK lines \in Readings(loc_file) :
          malformed' = (malformed \/ FirstIs(lines, "nan") \/ FirstIs(lines, "wild"))
    BY <1>1 DEF LocationLoad
  <2>2. loc_file \in LocationFiles
    BY DEF PlannerInv, LocInv, LocTypeOK
  <2>3. /\ lines \in Seq(Line) /\ DOMAIN lines = DOMAIN loc_file
        /\ \A i \in DOMAIN loc_file :
              lines[i].kind = loc_file[i].kind \/ loc_file[i].kind = "short"
    BY <2>2, ReadingProperties
  <2>4. \A i \in DOMAIN lines : lines[i].kind \in {"good", "huge"}
    BY <2>2, <2>3 DEF WellFormedFiles
  <2>5. ~FirstIs(lines, "nan") /\ ~FirstIs(lines, "wild")
    BY <2>3, <2>4, FirstBadInLines DEF FirstIs
  <2> QED
    BY <2>1, <2>5
<1> QED
  BY <1>1 DEF PlannerNext, GetLocationNames, GetLocationNamesThrows, EditLocationFile,
              EditRouteFile, plannerVars, locVars

(* The names of the table.                                                    *)
LEMMA TableNames == Sound => Plans!NamesIn(Table) = DOMAIN m_location_map
<1> SUFFICES ASSUME Sound PROVE Plans!NamesIn(Table) = DOMAIN m_location_map
  OBVIOUS
<1>1. DOMAIN Table = DOMAIN m_location_list
  BY DEF Table
<1>2. \A i \in DOMAIN m_location_list : Table[i].name = heap[m_location_list[i]].name
  BY DEF Table, Row, NameOf
<1> QED
  BY <1>1, <1>2 DEF Plans!NamesIn, Sound, Pointers, Held

(* A location's routes are its leads in the table.                            *)
LEMMA LeadsAreDestinations ==
    ASSUME Sound', NEW p
    PROVE  NewDestinations(p) = Plans!Leads(heap'[p].name, Table')
<1>2. (Sound => Plans!NamesIn(Table) = DOMAIN m_location_map)'
  BY TableNames, PTL
<1>1. Plans!NamesIn(Table') = DOMAIN m_location_map'
  BY <1>2 DEF Plans!NamesIn
<1> QED
  BY <1>1 DEF NewDestinations, GetRoutes, Plans!Leads

(* Adding destinations to a row.                                              *)
LEMMA RowWithMore ==
    ASSUME NEW row, NEW n, NEW c, NEW ends, NEW more,
           row = [name |-> n, cost |-> c, destinations |-> ends]
    PROVE  [row EXCEPT !.destinations = @ \cup more] =
               [name |-> n, cost |-> c, destinations |-> ends \cup more]
OBVIOUS

(* What keeps the list and its destinations changes no plan.                  *)
LEMMA SamePlans ==
    ASSUME Sound, SameHeld, m_destinations' = m_destinations
    PROVE  Table' = Table
<1>1. m_location_list' = m_location_list /\ \A p \in Held : heap'[p] = heap[p]
  BY DEF SameHeld
<1>2. \A i \in DOMAIN m_location_list : m_location_list[i] \in Held
  BY DEF Sound, Pointers, Held
<1> QED
  BY <1>1, <1>2 DEF Table, Row, NameOf

(* A request, seen as one of the plans.                                       *)
LEMMA RequestMakesPlans ==
    ASSUME PlannerInv, Sound, Sound', GetLocationNames, ~malformed'
    PROVE  Plans!PlansNext
<1>1. LoadChangesNothing \/ LoadReplaces
  BY LoadCases DEF PlannerInv, GetLocationNames, LoadStops, LoadFrees
<1>2. \A p \in Held' :
        m_destinations'[p] =
            DestinationsOf(p) \cup (IF SomethingUpdated THEN NewDestinations(p) ELSE {})
  BY DEF GetLocationNames, Configure
<1>3. ASSUME NEW i \in DOMAIN m_location_list'
      PROVE  /\ m_location_list'[i] \in Held'
             /\ Table'[i] = [name |-> heap'[m_location_list'[i]].name,
                             cost |-> heap'[m_location_list'[i]].cost,
                             destinations |-> m_destinations'[m_location_list'[i]]]
  BY DEF Table, Row, NameOf, Sound, Pointers, Held
<1>4. DOMAIN Table' = DOMAIN m_location_list'
  BY DEF Table
<1>5. CASE LoadReplaces
  <2>1. ASSUME NEW i \in DOMAIN Table'
        PROVE  Table'[i].destinations = Plans!Leads(Table'[i].name, Table')
    <3> DEFINE p == m_location_list'[i]
    <3>1. /\ p \in Held' /\ Table'[i].name = heap'[p].name
          /\ Table'[i].destinations = m_destinations'[p]
      BY <1>3, <1>4
    <3>2. DestinationsOf(p) = {} /\ SomethingUpdated
      BY <1>5, <3>1 DEF PlannerInv, DestinationsOf, SomethingUpdated, LoadReplaces
    <3>3. m_destinations'[p] = NewDestinations(p)
      BY <1>2, <3>1, <3>2
    <3> HIDE DEF p
    <3> QED
      BY <3>1, <3>3, LeadsAreDestinations
  <2> QED
    BY <2>1 DEF Plans!PlansNext, Plans!NewList
<1>6. CASE LoadChangesNothing
  <2>1. /\ UNCHANGED <<m_location_list, m_location_map>> /\ outcome' = "kept"
        /\ Held' = Held /\ \A p \in Held : heap'[p] = heap[p]
    BY <1>6 DEF LoadChangesNothing, SameHeld
  <2>2. \A p \in Held : DestinationsOf(p) = m_destinations[p]
    BY DEF PlannerInv, DestinationsOf
  <2>3. CASE ~RoutesUpdated
    <3>1. ~SomethingUpdated /\ m_routes' = m_routes
      BY <2>1, <2>3 DEF SomethingUpdated, GetLocationNames, RouteLoad
    <3>2. m_destinations' = m_destinations
      <4>1. m_destinations' = [p \in Held' |-> m_destinations[p]]
        BY <2>1, <2>2, <3>1 DEF GetLocationNames, Configure
      <4> QED
        BY <2>1, <4>1 DEF PlannerInv
    <3>3. Table' = Table
      BY <1>6, <3>2, SamePlans DEF LoadChangesNothing
    <3> QED
      BY <3>1, <3>3 DEF Plans!PlansNext, Plans!NothingNew, Plans!plansVars
  <2>4. CASE RoutesUpdated
    <3>1. ASSUME NEW i \in DOMAIN Table
          PROVE  Table'[i] =
                   [Table[i] EXCEPT !.destinations = @ \cup Plans!Leads(Table[i].name, Table)]
      <4> DEFINE p == m_location_list[i]
                 old == [name |-> heap[p].name, cost |-> heap[p].cost,
                         destinations |-> m_destinations[p]]
      <4>1. Table[i] = old /\ i \in DOMAIN m_location_list /\ p \in Held
        BY DEF Table, Row, NameOf, Sound, Pointers, Held
      <4>2. Table'[i] = [name |-> heap[p].name, cost |-> heap[p].cost,
                         destinations |-> m_destinations'[p]]
        BY <1>3, <2>1, <4>1
      <4>3. NewDestinations(p) = Plans!Leads(heap[p].name, Table)
        <5>1. Plans!NamesIn(Table) = DOMAIN m_location_map
          BY TableNames
        <5> QED
          BY <2>1, <4>1, <5>1 DEF NewDestinations, GetRoutes, Plans!Leads
      <4>4. m_destinations'[p] = m_destinations[p] \cup Plans!Leads(heap[p].name, Table)
        BY <1>2, <2>1, <2>2, <2>4, <4>1, <4>3 DEF SomethingUpdated
      <4>5. Table[i].name = heap[p].name
        BY <4>1
      <4>6. [Table[i] EXCEPT !.destinations = @ \cup Plans!Leads(Table[i].name, Table)]
              = [name |-> heap[p].name, cost |-> heap[p].cost,
                 destinations |-> m_destinations[p] \cup Plans!Leads(heap[p].name, Table)]
        BY <4>1, <4>5, RowWithMore
      <4> QED
        BY <4>2, <4>4, <4>6
    <3>2. DOMAIN Table' = DOMAIN Table /\ Table' = [i \in DOMAIN Table' |-> Table'[i]]
      BY <2>1 DEF Table
    <3>3. Table' = [i \in DOMAIN Table |->
                      [Table[i] EXCEPT !.destinations = @ \cup Plans!Leads(Table[i].name, Table)]]
      BY <3>1, <3>2
    <3> QED
      BY <3>3 DEF Plans!PlansNext, Plans!NewRoutes
  <2> QED
    BY <2>3, <2>4
<1> QED
  BY <1>1, <1>5, <1>6

(* A request that ends in an exception, an edit and a stutter change none.    *)
LEMMA StepMakesPlans ==
    ASSUME PlannerInv, PlannerInv', ~malformed', [PlannerNext]_plannerVars, ~malformed
    PROVE  [Plans!PlansNext]_(Plans!plansVars)
<1>1. CASE GetLocationNames
  BY <1>1, RequestMakesPlans DEF PlannerInv, LocInv
<1>2. ASSUME SameHeld, UNCHANGED <<m_routes, m_destinations>>
      PROVE  UNCHANGED Plans!plansVars
  <2>1. Table' = Table
    BY <1>2, SamePlans DEF PlannerInv, LocInv
  <2> QED
    BY <1>2, <2>1 DEF Plans!plansVars
<1>3. CASE GetLocationNamesThrows
  <2>1. SameHeld
    BY <1>3, LoadCases
       DEF PlannerInv, LocInv, GetLocationNamesThrows, LoadStops, LoadFrees,
           LoadChangesNothing, LoadReplaces
  <2> QED
    BY <1>2, <1>3, <2>1 DEF GetLocationNamesThrows, routeVars
<1>4. CASE EditLocationFile /\ UNCHANGED <<routeVars, m_destinations>>
  BY <1>2, <1>4 DEF EditLocationFile, routeVars, SameHeld, Held
<1>5. CASE EditRouteFile /\ UNCHANGED <<locVars, m_destinations>>
  BY <1>2, <1>5 DEF EditRouteFile, locVars, SameHeld, Held
<1>6. CASE UNCHANGED plannerVars
  BY <1>2, <1>6 DEF plannerVars, locVars, routeVars, SameHeld, Held
<1> QED
  BY <1>1, <1>3, <1>4, <1>5, <1>6 DEF PlannerNext

(* Only a malformed line makes the planner read a location that was deleted.  *)
THEOREM OnlyMalformedLinesHarm == PlannerSpec => [](~malformed => NoUseAfterFree)
<1>1. PlannerInv => (~malformed => NoUseAfterFree)
  BY DEF PlannerInv, LocInv, NoUseAfterFree
<1> QED
  BY <1>1, PlannerInvariance, PTL

(* With such files no location is read after it was deleted.                  *)
THEOREM NothingFreedIsUsed ==
    ASSUME WellFormedFiles
    PROVE  PlannerSpec => []NoUseAfterFree
<1>1. PlannerInit => ~malformed
  BY DEF PlannerInit, LocInit
<1>2. PlannerInv /\ ~malformed /\ [PlannerNext]_plannerVars => ~malformed'
  BY NeverMalformed
<1> QED
  BY <1>1, <1>2, OnlyMalformedLinesHarm, PlannerInvariance, PTL DEF PlannerSpec

(* With such files the planner makes RoutePlans: a request makes all plans anew from
   one list, adds the new routes to those there are, or changes nothing. *)
THEOREM PlannerMakesPlans ==
    ASSUME WellFormedFiles
    PROVE  PlannerSpec => ImplementsPlans
<1>1. PlannerInit => Plans!PlansInit
  <2> SUFFICES ASSUME PlannerInit PROVE Plans!PlansInit
    OBVIOUS
  <2>1. m_location_list = <<>> /\ m_routes = <<>>
    BY DEF PlannerInit, LocInit, RouteInit
  <2>2. Table = <<>>
    BY <2>1 DEF Table
  <2> QED
    BY <2>1, <2>2 DEF Plans!PlansInit
<1>2. PlannerInit => ~malformed
  BY DEF PlannerInit, LocInit
<1>3. PlannerInv /\ ~malformed /\ [PlannerNext]_plannerVars => ~malformed'
  BY NeverMalformed
<1>4. PlannerInv /\ PlannerInv' /\ ~malformed /\ ~malformed' /\ [PlannerNext]_plannerVars
        => [Plans!PlansNext]_(Plans!plansVars)
  BY StepMakesPlans
<1> QED
  BY <1>1, <1>2, <1>3, <1>4, PlannerInvariance, PTL
     DEF PlannerSpec, ImplementsPlans, Plans!PlansSpec
=============================================================================
