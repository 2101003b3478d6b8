------------------------ MODULE FileLocationDatabase ------------------------
(***************************************************************************)
(* FileLocationDatabase (src/route/FileLocationDatabase.cpp): the          *)
(* locations a file lists, read again on every Load.  The object owns its  *)
(* locations through raw pointers, so the heap is part of the state: a     *)
(* pointer is <<g, i>>, the object allocated for line i by the g-th Load,  *)
(* and is never used for another object, even when its memory is.          *)
(*                                                                         *)
(* A file is a sequence of lines.  A file that cannot be opened, and one   *)
(* of blank lines, read as the empty sequence.  Lines differ in what       *)
(* std::stoi makes of their second field:                                  *)
(*   "good"   a number                                                     *)
(*   "nan"    it throws std::invalid_argument, which is caught             *)
(*   "huge"   it throws std::out_of_range, which is not                    *)
(*   "short"  there is no second field: the code reads past the end of the *)
(*            vector, and anything may be read there, or nothing ("wild")  *)
(***************************************************************************)
EXTENDS Integers, SequencesExt

CONSTANTS Names, Costs,   \* of locations; a cost is what stoi returns
          UMax,           \* UINT_MAX
          LocationFiles,  \* the contents the location file may have
          MaxLoads        \* bound on the calls of Load

Kinds == {"good", "nan", "huge", "short"}

ASSUME CostAssumption == Costs \subseteq Int /\ UMax \in Nat
ASSUME FileAssumption ==
    LocationFiles \subseteq Seq([kind : Kinds, name : Names, cost : Costs])
ASSUME LoadBoundAssumption == MaxLoads \in Nat

VARIABLES loc_file,         \* what is on disk
          heap,             \* the Location objects that are allocated
          m_location_list,
          m_location_map,
          loads,            \* calls of Load so far
          outcome,          \* of the last one
          malformed,        \* some Load met a line without a number: history only
          fault             \* a freed or foreign object was used

locVars == <<loc_file, heap, m_location_list, m_location_map, loads, outcome,
             malformed, fault>>

\* Mutant: the cost stays an int.
SignedMutant(c) == c

\* The conversion of an int argument to Location's unsigned cost.
Unsigned(c) == c % (UMax + 1)

\* The readings of a file: whatever is past the end of a short line.
Garbage(line) == {[line EXCEPT !.kind = k] : k \in {"nan", "huge", "wild"}}
                 \cup {[line EXCEPT !.kind = "good", !.cost = c] : c \in Costs}

Readings(file) ==
    {r \in [DOMAIN file -> UNION {Garbage(file[i]) \cup {file[i]} : i \in DOMAIN file}] :
        \A i \in DOMAIN file :
            r[i] \in (IF file[i].kind = "short" THEN Garbage(file[i]) ELSE {file[i]})}

\* The first line that does not yield a location, one past the end if all do.
FirstBad(lines) ==
    Min({i \in DOMAIN lines : lines[i].kind # "good"} \cup {Len(lines) + 1})

AllGood(lines) == FirstBad(lines) = Len(lines) + 1

FirstIs(lines, kind) == ~AllGood(lines) /\ lines[FirstBad(lines)].kind = kind

-----------------------------------------------------------------------------

Pointers(list) == {list[i] : i \in DOMAIN list}

\* The objects of the list that are still there, and those nobody points to.
Held == DOMAIN heap \cap Pointers(m_location_list)

Leaked == DOMAIN heap \ Pointers(m_location_list)

\* Mutant: the old locations are dropped without being deleted.
NeverDeletesMutant == heap

\* What DeleteLocations leaves allocated, whichever vector it is asked to clear:
\* it deletes the members of m_location_list.
AfterDelete == [p \in DOMAIN heap \ Pointers(m_location_list) |-> heap[p]]

\* Deleting an object that is not allocated is undefined.
DeleteIsDefined == Pointers(m_location_list) \subseteq DOMAIN heap

Allocated(lines) ==
    [p \in {<<loads + 1, i>> : i \in DOMAIN lines} |->
        [name |-> lines[p[2]].name, cost |-> Unsigned(lines[p[2]].cost)]]

\* The new objects with those that are still there.
Beside(new, old) ==
    [p \in DOMAIN new \cup DOMAIN old |-> IF p \in DOMAIN new THEN new[p] ELSE old[p]]

\* The lines whose locations are allocated when Load meets a bad one; the one
\* that was being made is not.
Before(lines) == SubSeq(lines, 1, FirstBad(lines) - 1)

\* Mutant: a name listed twice is the later location.
LastWinsMutant(lines) ==
    [n \in {lines[i].name : i \in DOMAIN lines} |->
        <<loads + 1, Max({i \in DOMAIN lines : lines[i].name = n})>>]

\* Mutant: the map is not cleared, and insert keeps what it has.
NotClearedMutant(lines) ==
    [n \in DOMAIN m_location_map \cup {lines[i].name : i \in DOMAIN lines} |->
        IF n \in DOMAIN m_location_map THEN m_location_map[n]
        ELSE <<loads + 1, Min({i \in DOMAIN lines : lines[i].name = n})>>]

\* AddLocation on each of the new objects: a name already in the map keeps the
\* location it has.
NewMap(lines) ==
    [n \in {lines[i].name : i \in DOMAIN lines} |->
        <<loads + 1, Min({i \in DOMAIN lines : lines[i].name = n})>>]

-----------------------------------------------------------------------------

LocInit ==
    /\ loc_file \in LocationFiles
    /\ heap = <<>>
    /\ m_location_list = <<>>
    /\ m_location_map = <<>>
    /\ loads = 0
    /\ outcome = "none"
    /\ malformed = FALSE
    /\ fault = FALSE

\* Load keeps what it has when nothing could be read, or as many locations as the
\* map holds; the locations it just read are left allocated.
LoadKeeps(lines) ==
    /\ AllGood(lines)
    /\ Len(lines) \in {0, Cardinality(DOMAIN m_location_map)}
    /\ heap' = Beside(Allocated(lines), heap)
    /\ outcome' = "kept"
    /\ UNCHANGED <<m_location_list, m_location_map, fault>>

\* Otherwise it replaces everything.
LoadUpdates(lines) ==
    /\ AllGood(lines)
    /\ Len(lines) \notin {0, Cardinality(DOMAIN m_location_map)}
    /\ fault' = ~DeleteIsDefined
    /\ heap' = Beside(Allocated(lines), AfterDelete)
    /\ m_location_list' = [i \in DOMAIN lines |-> <<loads + 1, i>>]
    /\ m_location_map' = NewMap(lines)
    /\ outcome' = "updated"

\* Mutant: the locations before the bad line replace the old ones.
KeepsPrefixMutant(lines) ==
    /\ FirstIs(lines, "nan")
    /\ fault' = ~DeleteIsDefined
    /\ heap' = Beside(Allocated(Before(lines)), AfterDelete)
    /\ m_location_list' = [i \in DOMAIN Before(lines) |-> <<loads + 1, i>>]
    /\ m_location_map' = NewMap(Before(lines))
    /\ outcome' = "updated"

\* A line that is not a number: the locations read so far are forgotten and left
\* allocated, the current ones are deleted, and the list and the map still point
\* to them.
LoadMalformed(lines) ==
    /\ FirstIs(lines, "nan")
    /\ fault' = ~DeleteIsDefined
    /\ heap' = Beside(Allocated(Before(lines)), AfterDelete)
    /\ outcome' = "kept"
    /\ UNCHANGED <<m_location_list, m_location_map>>

\* Mutant: std::out_of_range is caught like std::invalid_argument.
CatchesAllMutant(lines) ==
    /\ FirstIs(lines, "huge")
    /\ fault' = ~DeleteIsDefined
    /\ heap' = Beside(Allocated(Before(lines)), AfterDelete)
    /\ outcome' = "kept"
    /\ UNCHANGED <<m_location_list, m_location_map>>

\* A number that is no int: the exception leaves Load, and the vector with what
\* was read so far goes, but not its locations.
LoadThrows(lines) ==
    /\ FirstIs(lines, "huge")
    /\ heap' = Beside(Allocated(Before(lines)), heap)
    /\ outcome' = "threw"
    /\ UNCHANGED <<m_location_list, m_location_map, fault>>

\* A line without a number, past whose end there is no string.
LoadFaults(lines) ==
    /\ FirstIs(lines, "wild")
    /\ fault' = TRUE
    /\ outcome' = "none"
    /\ UNCHANGED <<heap, m_location_list, m_location_map>>

LocationLoad ==
    /\ ~fault /\ outcome # "destroyed"
    /\ loads < MaxLoads
    /\ loads' = loads + 1
    /\ UNCHANGED loc_file
    /\ \E lines \in Readings(loc_file) :
          /\ malformed' = (malformed \/ FirstIs(lines, "nan") \/ FirstIs(lines, "wild"))
          /\ \/ LoadKeeps(lines)
             \/ LoadUpdates(lines)
             \/ LoadMalformed(lines)
             \/ LoadThrows(lines)
             \/ LoadFaults(lines)

\* ~FileLocationDatabase deletes what the list points to.
Destructor ==
    /\ ~fault
    /\ outcome # "destroyed"
    /\ fault' = ~DeleteIsDefined
    /\ heap' = AfterDelete
    /\ m_location_list' = <<>>
    /\ m_location_map' = <<>>
    /\ outcome' = "destroyed"
    /\ UNCHANGED <<loc_file, loads, malformed>>

EditLocationFile ==
    /\ ~fault
    /\ loc_file' \in LocationFiles
    /\ UNCHANGED <<heap, m_location_list, m_location_map, loads, outcome, malformed, fault>>

LocNext == LocationLoad \/ Destructor \/ EditLocationFile

LocSpec == LocInit /\ [][LocNext]_locVars

-----------------------------------------------------------------------------

LocTypeOK ==
    /\ loc_file \in LocationFiles
    /\ \A p \in DOMAIN heap : /\ p[1] \in 1 .. loads
                               /\ heap[p] \in [name : Names, cost : 0 .. UMax]
    /\ \A i \in DOMAIN m_location_list : m_location_list[i][1] \in 1 .. loads
    /\ \A n \in DOMAIN m_location_map : n \in Names /\ m_location_map[n][1] \in 1 .. loads
    /\ loads \in 0 .. MaxLoads
    /\ outcome \in {"none", "kept", "updated", "threw", "destroyed"}
    /\ malformed \in BOOLEAN /\ fault \in BOOLEAN

\* GetLocation: the map's location, or Null.
Null == <<0, 0>>

GetLocation(n) == IF n \in DOMAIN m_location_map THEN m_location_map[n] ELSE Null

\* RoutePlanner::GetLocationIndex on the list of GetLocations, for a listed name.
ListedUnder(n) == {i \in DOMAIN m_location_list : heap[m_location_list[i]].name = n}

\* The database owns its locations: until a load meets a malformed line, and
\* whatever line makes a load throw, the list holds each of its locations once and
\* all of them are allocated, so that DeleteLocations frees none twice, and the map
\* points to no others.
OwnsItsLocations ==
    ~malformed =>
        /\ Pointers(m_location_list) \subseteq DOMAIN heap
        /\ IsInjective(m_location_list)
        /\ \A n \in DOMAIN m_location_map : m_location_map[n] \in Held
        /\ ~fault

\* Only a load leaks, and only what it has just read: when the list is replaced or
\* destroyed, a location that was ever in it is freed with it.  A load that takes
\* over what it read leaks nothing.
OnlyUnusedLeak ==
    [][ LET lost == Leaked' \ Leaked
        IN  lost # {} => /\ lost \cap DOMAIN heap = {}
                         /\ outcome' # "updated"
                         /\ LocationLoad
      ]_locVars

\* A name of the list is found in the map, and is the location that
\* GetLocationIndex finds first: GetRouteCost looks a name up both ways and means
\* one location, even if the file lists the name twice.  The map has no other names.
MapAgreesWithList ==
    ~malformed =>
        /\ DOMAIN m_location_map = {heap[p].name : p \in Held}
        /\ \A n \in DOMAIN m_location_map :
              GetLocation(n) = m_location_list[Min(ListedUnder(n))]

\* A list is the whole of one version of the file: a load that stops half-way,
\* at whatever line, changes no pointer.
NoPartialLoad ==
    [][ (m_location_list' # m_location_list /\ LocationLoad) =>
          /\ Len(m_location_list') = Len(loc_file)
          /\ \A i \in DOMAIN loc_file : /\ loc_file[i].kind \in {"good", "short"}
                                        /\ heap'[m_location_list'[i]].name = loc_file[i].name
      ]_locVars

-----------------------------------------------------------------------------
(* What the interfaces say, and the code does not do.                        *)

\* ILocationDatabase.h:17-18: after a failed load the previous list is kept.
PreviousListIsKept == outcome = "kept" => DeleteIsDefined

\* FileLocationDatabase.h:41: repeated calls refresh the database.
LoadRefreshes ==
    [][ (LocationLoad /\ AllGood(loc_file) /\ loc_file # <<>>) =>
          /\ Len(m_location_list') = Len(loc_file)
          /\ \A i \in DOMAIN loc_file :
                heap'[m_location_list'[i]] =
                    [name |-> loc_file[i].name, cost |-> Unsigned(loc_file[i].cost)]
      ]_locVars
==============================================================================
