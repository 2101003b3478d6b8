--------------------- MODULE FileLocationDatabase_proof ---------------------
(***************************************************************************)
(* For any files, names and costs: the database owns its locations until   *)
(* it meets a malformed line, its list and its map agree, and what leaks   *)
(* was never in the list.                                                  *)
(***************************************************************************)
EXTENDS FileLocationDatabase, NumberFacts, SequenceTheorems

(* A line of a file, and one that has been read.                              *)
WrittenLine == [kind : Kinds, name : Names, cost : Costs]
Line == [kind : Kinds \cup {"wild"}, name : Names, cost : Costs]

(* What was read of a file: as many lines as it has, with their names.        *)
LEMMA ReadingProperties ==
    ASSUME NEW file \in LocationFiles, NEW lines \in Readings(file)
    PROVE  /\ lines \in Seq(Line) /\ Len(lines) = Len(file) /\ DOMAIN lines = DOMAIN file
           /\ \A i \in DOMAIN file :
                 /\ lines[i].name = file[i].name
                 /\ lines[i].kind = file[i].kind \/ file[i].kind = "short"
<1>1. file \in Seq(WrittenLine)
  BY FileAssumption DEF WrittenLine
<1>2. /\ Len(file) \in Nat /\ DOMAIN file = 1 .. Len(file)
      /\ \A i \in DOMAIN file : file[i] \in WrittenLine
  BY <1>1
<1>5. DOMAIN lines = 1 .. Len(file) /\ lines = [i \in 1 .. Len(file) |-> lines[i]]
  BY <1>2 DEF Readings
<1>3. ASSUME NEW i \in DOMAIN file
      PROVE  /\ lines[i] \in Line
             /\ lines[i].name = file[i].name
             /\ lines[i].kind = file[i].kind \/ file[i].kind = "short"
  <2>1. file[i] \in WrittenLine
    BY <1>2
  <2>2. lines[i] \in (IF file[i].kind = "short" THEN Garbage(file[i]) ELSE {file[i]})
    BY DEF Readings
  <2> QED
    BY <2>1, <2>2 DEF WrittenLine, Garbage, Line, Kinds
<1>4. lines \in Seq(Line) /\ Len(lines) = Len(file)
  <2>1. lines \in [1 .. Len(file) -> Line]
    BY <1>2, <1>3, <1>5
  <2> QED
    BY <1>2, <2>1
<1> QED
  BY <1>2, <1>3, <1>4, <1>5, Zenon

(* If no line is the first that is bad, all are good.                         *)
LEMMA GoodLines ==
    ASSUME NEW lines \in Seq(Line), AllGood(lines)
    PROVE  \A i \in DOMAIN lines : lines[i].kind = "good"
<1> DEFINE Bad == {i \in DOMAIN lines : lines[i].kind # "good"}
           Ends == Bad \cup {Len(lines) + 1}
<1>1. DOMAIN lines = 1 .. Len(lines) /\ Len(lines) \in Nat
  OBVIOUS
<1>2. Ends \in SUBSET Nat /\ Ends # {}
  BY <1>1
<1>3. Min(Ends) = Len(lines) + 1
  BY DEF AllGood, FirstBad
<1>4. \A i \in Bad : Len(lines) + 1 <= i
  <2> HIDE DEF Ends
  <2>1. \A i \in Ends : Len(lines) + 1 <= i
    BY <1>2, <1>3, MinIsLeast
  <2> QED
    BY <2>1 DEF Ends
<1> QED
  BY <1>1, <1>4

-----------------------------------------------------------------------------

(* What was read before a bad line is lines.                                  *)
LEMMA FirstBadInLines ==
    ASSUME NEW lines \in Seq(Line)
    PROVE  /\ FirstBad(lines) \in 1 .. Len(lines) + 1
           /\ ~AllGood(lines) => FirstBad(lines) \in DOMAIN lines
<1> DEFINE Ends == {i \in DOMAIN lines : lines[i].kind # "good"} \cup {Len(lines) + 1}
<1>1. DOMAIN lines = 1 .. Len(lines) /\ Len(lines) \in Nat
  OBVIOUS
<1>2. Ends \in SUBSET Nat /\ Ends # {}
  BY <1>1
<1>3. Min(Ends) \in Ends
  <2> HIDE DEF Ends
  <2> QED
    BY <1>2, MinIsLeast
<1>4. FirstBad(lines) = Min(Ends)
  BY DEF FirstBad
<1> QED
  BY <1>1, <1>3, <1>4 DEF AllGood

LEMMA BeforeIsRead ==
    ASSUME NEW lines \in Seq(Line)
    PROVE  Before(lines) \in Seq(Line)
<1> DEFINE n == FirstBad(lines) - 1
<1>1. n \in 0 .. Len(lines) /\ Len(lines) \in Nat /\ DOMAIN lines = 1 .. Len(lines)
  BY FirstBadInLines
<1>2. \A i \in 1 .. n : lines[i] \in Line
  BY <1>1
<1>3. Before(lines) = SubSeq(lines, 1, n)
  BY DEF Before
<1> HIDE DEF n
<1>4. SubSeq(lines, 1, n) \in Seq(Line)
  BY <1>1, <1>2, SubSeqProperties
<1> QED
  BY <1>3, <1>4

-----------------------------------------------------------------------------

(* The locations of the list are allocated, and list and map mean the same ones: *)
(* the map has the names of all, each with the first of that name.            *)
Sound ==
    /\ Pointers(m_location_list) \subseteq DOMAIN heap
    /\ DOMAIN m_location_map = {heap[p].name : p \in Held}
    /\ \A n \in DOMAIN m_location_map :
          /\ m_location_map[n] \in Held
          /\ m_location_map[n] = m_location_list[Min(ListedUnder(n))]

(* The list holds what one load allocated, in its order.                      *)
ListOfOneLoad ==
    \E g \in 0 .. loads, n \in Nat :
        /\ m_location_list = [i \in 1 .. n |-> <<g, i>>]
        /\ n > 0 => g > 0

(* After a malformed line nothing of the list is left.                        *)
LocInv ==
    /\ LocTypeOK
    /\ ListOfOneLoad
    /\ Sound \/ Held = {}
    /\ ~malformed => Sound /\ ~fault

(* Nothing has been loaded.                                                   *)
LEMMA InitLoc == LocInit => LocInv
<1> SUFFICES ASSUME LocInit PROVE LocInv
  OBVIOUS
<1>1. DOMAIN <<>> = {}
  OBVIOUS
<1>2. LocTypeOK
  <2>1. DOMAIN heap = {} /\ DOMAIN m_location_list = {} /\ DOMAIN m_location_map = {}
    BY <1>1 DEF LocInit
  <2>2. /\ loc_file \in LocationFiles /\ loads \in 0 .. MaxLoads
        /\ outcome = "none" /\ malformed = FALSE /\ fault = FALSE
    BY LoadBoundAssumption DEF LocInit
  <2> QED
    BY <2>1, <2>2 DEF LocTypeOK
<1>3. m_location_list = [i \in 1 .. 0 |-> <<0, i>>] /\ 0 \in 0 .. loads
  BY DEF LocInit
<1>4. ListOfOneLoad
  BY <1>3 DEF ListOfOneLoad
<1>5. Sound
  BY <1>1 DEF LocInit, Sound, Pointers, Held
<1> QED
  BY <1>2, <1>4, <1>5 DEF LocInv, LocInit

(* Deleting the list leaves nothing of it, and the rest as it is.             *)
LEMMA DeleteLeavesNothing ==
    ASSUME LocInv
    PROVE  /\ DOMAIN AfterDelete = Leaked
           /\ \A p \in DOMAIN AfterDelete : AfterDelete[p] = heap[p]
           /\ Sound => DeleteIsDefined
BY DEF LocInv, Sound, AfterDelete, DeleteIsDefined, Leaked

(* The conversion of the cost yields an unsigned.                             *)
LEMMA UnsignedType == \A c \in Costs : Unsigned(c) \in 0 .. UMax
BY CostAssumption DEF Unsigned

(* A load puts new objects beside the old ones it leaves.                     *)
New(n) == {<<loads + 1, i>> : i \in 1 .. n}

LEMMA NewBesideOld ==
    ASSUME LocInv, loads < MaxLoads, loads' = loads + 1,
           NEW lines \in Seq(Line), NEW old, DOMAIN old \subseteq DOMAIN heap,
           \A p \in DOMAIN old : old[p] = heap[p],
           heap' = Beside(Allocated(lines), old)
    PROVE  /\ DOMAIN heap' = New(Len(lines)) \cup DOMAIN old
           /\ New(Len(lines)) \cap DOMAIN heap = {}
           /\ \A i \in 1 .. Len(lines) :
                 heap'[<<loads + 1, i>>] =
                     [name |-> lines[i].name, cost |-> Unsigned(lines[i].cost)]
           /\ \A p \in DOMAIN old : heap'[p] = heap[p]
           /\ \A p \in DOMAIN heap' : /\ p[1] \in 1 .. loads'
                                       /\ heap'[p] \in [name : Names, cost : 0 .. UMax]
<1>1. /\ DOMAIN lines = 1 .. Len(lines) /\ Len(lines) \in Nat
      /\ \A i \in 1 .. Len(lines) : lines[i] \in Line
  OBVIOUS
<1>2. loads \in Nat
  BY LoadBoundAssumption DEF LocInv, LocTypeOK
<1>3. DOMAIN Allocated(lines) = New(Len(lines))
  BY <1>1 DEF Allocated, New
<1>4. \A i \in 1 .. Len(lines) :
        /\ <<loads + 1, i>> \in DOMAIN Allocated(lines)
        /\ Allocated(lines)[<<loads + 1, i>>] =
              [name |-> lines[i].name, cost |-> Unsigned(lines[i].cost)]
  BY <1>1 DEF Allocated
<1>5. New(Len(lines)) \cap DOMAIN heap = {}
  BY <1>2 DEF New, LocInv, LocTypeOK
<1>6. /\ DOMAIN heap' = New(Len(lines)) \cup DOMAIN old
      /\ \A p \in New(Len(lines)) : heap'[p] = Allocated(lines)[p]
      /\ \A p \in DOMAIN old : heap'[p] = old[p]
  BY <1>3, <1>5 DEF Beside
<1>7. \A i \in 1 .. Len(lines) : heap'[<<loads + 1, i>>] = Allocated(lines)[<<loads + 1, i>>]
  BY <1>3, <1>4, <1>6
<1>8. ASSUME NEW p \in DOMAIN heap'
      PROVE  p[1] \in 1 .. loads' /\ heap'[p] \in [name : Names, cost : 0 .. UMax]
  <2>1. CASE p \in DOMAIN old
    BY <1>2, <1>6, <2>1 DEF LocInv, LocTypeOK
  <2>2. CASE p \in New(Len(lines))
    <3>1. PICK i \in 1 .. Len(lines) : p = <<loads + 1, i>>
      BY <2>2 DEF New
    <3>2. heap'[p] = [name |-> lines[i].name, cost |-> Unsigned(lines[i].cost)]
      BY <1>4, <1>7, <3>1, Zenon
    <3>3. lines[i].name \in Names /\ Unsigned(lines[i].cost) \in 0 .. UMax
      BY <1>1, UnsignedType DEF Line
    <3> QED
      BY <1>2, <3>1, <3>2, <3>3
  <2> QED
    BY <1>6, <2>1, <2>2
<1>9. \A i \in 1 .. Len(lines) :
        heap'[<<loads + 1, i>>] = [name |-> lines[i].name, cost |-> Unsigned(lines[i].cost)]
  BY <1>4, <1>7, Zenon
<1>10. \A p \in DOMAIN old : heap'[p] = heap[p]
  BY <1>6
<1> QED
  BY <1>5, <1>6, <1>8, <1>9, <1>10, Zenon

(* What a load that replaces everything leaves.                               *)
LinesNamed(lines, n) == {i \in 1 .. Len(lines) : lines[i].name = n}

Updated(lines) ==
    /\ DOMAIN lines = 1 .. Len(lines) /\ Len(lines) \in Nat \ {0}
    /\ \A i \in 1 .. Len(lines) : lines[i] \in Line
    /\ m_location_list' = [i \in 1 .. Len(lines) |-> <<loads + 1, i>>]
    /\ Pointers(m_location_list') = New(Len(lines)) /\ Held' = New(Len(lines))
    /\ New(Len(lines)) \subseteq DOMAIN heap'
    /\ \A i \in 1 .. Len(lines) :
          heap'[<<loads + 1, i>>] = [name |-> lines[i].name, cost |-> Unsigned(lines[i].cost)]
    /\ DOMAIN m_location_map' = {lines[i].name : i \in 1 .. Len(lines)}
    /\ \A n \in DOMAIN m_location_map' :
          m_location_map'[n] = <<loads + 1, Min(LinesNamed(lines, n))>>

LEMMA UpdatedState ==
    ASSUME LocInv, loads < MaxLoads, loads' = loads + 1,
           NEW lines \in Seq(Line), LoadUpdates(lines)
    PROVE  Updated(lines)
<1>1. /\ DOMAIN lines = 1 .. Len(lines) /\ Len(lines) \in Nat \ {0}
      /\ \A i \in 1 .. Len(lines) : lines[i] \in Line
  BY DEF LoadUpdates
<1>2. m_location_list' = [i \in 1 .. Len(lines) |-> <<loads + 1, i>>]
  BY <1>1 DEF LoadUpdates
<1>3. /\ DOMAIN heap' = New(Len(lines)) \cup DOMAIN AfterDelete
      /\ \A i \in 1 .. Len(lines) :
            heap'[<<loads + 1, i>>] =
                [name |-> lines[i].name, cost |-> Unsigned(lines[i].cost)]
  <2>1. heap' = Beside(Allocated(lines), AfterDelete)
    BY DEF LoadUpdates
  <2>2. /\ DOMAIN AfterDelete \subseteq DOMAIN heap
        /\ \A p \in DOMAIN AfterDelete : AfterDelete[p] = heap[p]
    BY DeleteLeavesNothing DEF Leaked
  <2> QED
    BY <2>1, <2>2, NewBesideOld, Zenon
<1>4. Pointers(m_location_list') = New(Len(lines))
  BY <1>2 DEF Pointers, New
<1>5. Held' = New(Len(lines))
  BY <1>3, <1>4 DEF Held, Pointers
<1>6. /\ DOMAIN m_location_map' = {lines[i].name : i \in 1 .. Len(lines)}
      /\ \A n \in DOMAIN m_location_map' :
            m_location_map'[n] =
                <<loads + 1, Min(LinesNamed(lines, n))>>
  BY <1>1 DEF LoadUpdates, NewMap, LinesNamed
<1>7. New(Len(lines)) \subseteq DOMAIN heap'
  BY <1>3
<1> QED
  BY <1>1, <1>2, <1>3, <1>4, <1>5, <1>6, <1>7 DEF Updated

(* The objects have the names of the lines.                                    *)
LEMMA UpdatedNames ==
    ASSUME NEW lines, Updated(lines), NEW i \in 1 .. Len(lines)
    PROVE  heap'[<<loads + 1, i>>].name = lines[i].name
<1> DEFINE loc == [name |-> lines[i].name, cost |-> Unsigned(lines[i].cost)]
<1>1. heap'[<<loads + 1, i>>] = loc
  BY Zenon DEF Updated
<1>2. loc.name = lines[i].name
  OBVIOUS
<1> HIDE DEF loc
<1> QED
  BY <1>1, <1>2, Zenon

(* The first line of a name that some line has.                               *)
LEMMA FirstOfName ==
    ASSUME NEW lines, NEW i \in 1 .. Len(lines), Len(lines) \in Nat
    PROVE  /\ Min(LinesNamed(lines, lines[i].name)) \in 1 .. Len(lines)
           /\ lines[Min(LinesNamed(lines, lines[i].name))].name = lines[i].name
<1> DEFINE Named == LinesNamed(lines, lines[i].name)
<1>1. i \in Named /\ Named \in SUBSET Nat
  BY DEF LinesNamed
<1>2. Min(Named) \in Named
  <2> HIDE DEF Named
  <2> QED
    BY <1>1, MinIsLeast
<1> QED
  BY <1>2 DEF LinesNamed

(* Then list, objects and map mean the same locations.                        *)
LEMMA UpdateIsSound ==
    ASSUME NEW lines, Updated(lines)
    PROVE  Sound'
<1>1. Updated(lines)
  OBVIOUS
<1>2. Pointers(m_location_list') \subseteq DOMAIN heap'
  BY <1>1 DEF Updated
<1>3. \A i \in 1 .. Len(lines) : heap'[<<loads + 1, i>>].name = lines[i].name
  BY <1>1, UpdatedNames
<1>4. DOMAIN m_location_map' = {heap'[p].name : p \in Held'}
  <2>1. ASSUME NEW i \in 1 .. Len(lines)
        PROVE  lines[i].name \in {heap'[p].name : p \in Held'}
    BY <1>1, <1>3 DEF Updated, New
  <2>2. ASSUME NEW p \in Held'
        PROVE  heap'[p].name \in {lines[i].name : i \in 1 .. Len(lines)}
    BY <1>1, <1>3 DEF Updated, New
  <2> QED
    BY <1>1, <2>1, <2>2 DEF Updated
<1>5. ASSUME NEW n \in DOMAIN m_location_map'
      PROVE  /\ m_location_map'[n] \in Held'
             /\ m_location_map'[n] = m_location_list'[Min(ListedUnder(n)')]
  <2>1. ListedUnder(n)' = LinesNamed(lines, n)
    <3>1. ListedUnder(n)' =
             {i \in DOMAIN m_location_list' : heap'[m_location_list'[i]].name = n}
      BY DEF ListedUnder
    <3> QED
      BY <1>1, <1>3, <3>1 DEF Updated, LinesNamed
  <2>2. PICK i \in 1 .. Len(lines) : n = lines[i].name
    BY <1>1 DEF Updated
  <2>3. Min(LinesNamed(lines, n)) \in 1 .. Len(lines)
    BY <1>1, <2>2, FirstOfName DEF Updated
  <2>4. m_location_map'[n] = <<loads + 1, Min(LinesNamed(lines, n))>>
    BY <1>1 DEF Updated
  <2> QED
    BY <1>1, <2>1, <2>3, <2>4 DEF Updated, New
<1> QED
  BY <1>2, <1>4, <1>5 DEF Sound

(* What is loaded is a list, and has the names and costs of locations.        *)
LEMMA UpdateInv ==
    ASSUME LocInv, NEW lines \in Seq(Line), LoadUpdates(lines),
           loads < MaxLoads, loads' = loads + 1, loc_file' = loc_file,
           malformed' \in BOOLEAN, ~malformed' => ~malformed
    PROVE  LocInv'
<1>1. loads \in Nat /\ loads' \in 0 .. MaxLoads /\ loads' \in 1 .. loads'
  BY LoadBoundAssumption DEF LocInv, LocTypeOK
<1>2. Updated(lines)
  BY UpdatedState, Zenon
<1>3. \A i \in 1 .. Len(lines) : lines[i].name \in Names /\ lines[i].cost \in Costs
  BY <1>2 DEF Updated, Line
<1>4. \A p \in DOMAIN heap' : p[1] \in 1 .. loads' /\ heap'[p] \in [name : Names, cost : 0 .. UMax]
  <2>1. /\ heap' = Beside(Allocated(lines), AfterDelete)
        /\ DOMAIN AfterDelete \subseteq DOMAIN heap
        /\ \A p \in DOMAIN AfterDelete : AfterDelete[p] = heap[p]
    BY DeleteLeavesNothing DEF LoadUpdates, Leaked
  <2> QED
    BY <2>1, NewBesideOld, Zenon
<1>5. \A i \in DOMAIN m_location_list' : m_location_list'[i][1] \in 1 .. loads'
  BY <1>1, <1>2 DEF Updated
<1>6. \A n \in DOMAIN m_location_map' : n \in Names /\ m_location_map'[n][1] \in 1 .. loads'
  <2> SUFFICES ASSUME NEW n \in DOMAIN m_location_map'
               PROVE  n \in Names /\ m_location_map'[n][1] \in 1 .. loads'
    OBVIOUS
  <2>1. PICK i \in 1 .. Len(lines) : n = lines[i].name
    BY <1>2 DEF Updated
  <2>2. m_location_map'[n] = <<loads + 1, Min(LinesNamed(lines, n))>>
    BY <1>2, Zenon DEF Updated
  <2> QED
    BY <1>1, <1>3, <2>1, <2>2
<1>9. LocTypeOK'
  <2>1. outcome' = "updated" /\ fault' \in BOOLEAN /\ loc_file' \in LocationFiles
    BY DEF LocInv, LocTypeOK, LoadUpdates, DeleteIsDefined
  <2> QED
    BY <1>1, <1>4, <1>5, <1>6, <2>1 DEF LocTypeOK
<1>7. ListOfOneLoad'
  <2>1. loads + 1 \in 0 .. loads' /\ loads + 1 > 0
    BY <1>1
  <2>2. /\ m_location_list' = [i \in 1 .. Len(lines) |-> <<loads + 1, i>>]
        /\ Len(lines) \in Nat
    BY <1>2 DEF Updated
  <2> QED
    BY <2>1, <2>2 DEF ListOfOneLoad
<1>8. ~malformed' => ~fault'
  BY DeleteLeavesNothing DEF LocInv, LoadUpdates
<1> QED
  BY <1>2, <1>7, <1>8, <1>9, UpdateIsSound DEF LocInv

(* Nothing the list, the map and its objects say depends on the rest.          *)
SameHeld ==
    /\ UNCHANGED <<m_location_list, m_location_map>>
    /\ Held' = Held
    /\ \A p \in Held : heap'[p] = heap[p]

LEMMA SoundDepends ==
    ASSUME Sound, SameHeld
    PROVE  Sound'
<1>1. m_location_list' = m_location_list /\ m_location_map' = m_location_map
  BY DEF SameHeld
<1>2. Pointers(m_location_list') \subseteq DOMAIN heap'
  BY <1>1 DEF Sound, SameHeld, Held
<1>3. {heap'[p].name : p \in Held'} = {heap[p].name : p \in Held}
  BY DEF SameHeld
<1>4. \A n : ListedUnder(n)' = ListedUnder(n)
  <2> SUFFICES ASSUME NEW n PROVE ListedUnder(n)' = ListedUnder(n)
    OBVIOUS
  <2>1. \A i \in DOMAIN m_location_list : m_location_list[i] \in Held
    BY DEF Sound, Held, Pointers
  <2> QED
    BY <1>1, <2>1 DEF SameHeld, ListedUnder
<1> QED
  BY <1>1, <1>2, <1>3, <1>4 DEF Sound, SameHeld

(* The list is still one load's.                                              *)
LEMMA SameListOfOneLoad ==
    ASSUME LocInv, m_location_list' = m_location_list, loads' \in {loads, loads + 1}
    PROVE  ListOfOneLoad'
<1>1. loads \in Nat
  BY LoadBoundAssumption DEF LocInv, LocTypeOK
<1>2. PICK g \in 0 .. loads, n \in Nat :
          m_location_list = [i \in 1 .. n |-> <<g, i>>] /\ (n > 0 => g > 0)
  BY DEF LocInv, ListOfOneLoad
<1>3. g \in 0 .. loads' /\ m_location_list' = [i \in 1 .. n |-> <<g, i>>]
  BY <1>1, <1>2
<1> QED
  BY <1>2, <1>3 DEF ListOfOneLoad

(* A load that keeps the list, or cannot go on.                               *)
LEMMA KeepInv ==
    ASSUME LocInv, SameHeld,
           \A p \in DOMAIN heap' :
              p[1] \in 1 .. loads' /\ heap'[p] \in [name : Names, cost : 0 .. UMax],
           loads' \in {loads, loads + 1}, loads' \in 0 .. MaxLoads, loc_file' \in LocationFiles,
           outcome' \in {"none", "kept", "updated", "threw", "destroyed"},
           malformed' \in BOOLEAN, fault' \in BOOLEAN, ~malformed' => ~malformed /\ ~fault'
    PROVE  LocInv'
<1>1. loads \in Nat
  BY LoadBoundAssumption DEF LocInv, LocTypeOK
<1>2. LocTypeOK'
  BY <1>1 DEF LocInv, LocTypeOK, SameHeld
<1>3. ListOfOneLoad'
  BY SameListOfOneLoad DEF SameHeld
<1>4. Sound => Sound'
  BY SoundDepends
<1>5. Held' = Held
  BY DEF SameHeld
<1> QED
  BY <1>2, <1>3, <1>4, <1>5 DEF LocInv

(* The list does not point to what is new.                                    *)
LEMMA ListIsOld ==
    ASSUME LocInv, NEW n
    PROVE  Pointers(m_location_list) \cap New(n) = {}
<1>1. loads \in Nat
  BY LoadBoundAssumption DEF LocInv, LocTypeOK
<1> QED
  BY <1>1 DEF LocInv, LocTypeOK, Pointers, New

(* Objects that are read and dropped do not touch the list.                   *)
LEMMA DroppedBeside ==
    ASSUME LocInv, loads < MaxLoads, loads' = loads + 1, NEW lines \in Seq(Line),
           heap' = Beside(Allocated(lines), heap),
           UNCHANGED <<m_location_list, m_location_map>>
    PROVE  /\ SameHeld
           /\ \A p \in DOMAIN heap' :
                 p[1] \in 1 .. loads' /\ heap'[p] \in [name : Names, cost : 0 .. UMax]
<1>1. /\ DOMAIN heap' = New(Len(lines)) \cup DOMAIN heap
      /\ \A p \in DOMAIN heap : heap'[p] = heap[p]
      /\ \A p \in DOMAIN heap' : /\ p[1] \in 1 .. loads'
                                  /\ heap'[p] \in [name : Names, cost : 0 .. UMax]
  BY NewBesideOld, Zenon
<1>2. Pointers(m_location_list) \cap New(Len(lines)) = {}
  BY ListIsOld
<1> QED
  BY <1>1, <1>2 DEF SameHeld, Held

(* A malformed line: nothing of the list is allocated any more.               *)
LEMMA MalformedLeavesNothing ==
    ASSUME LocInv, loads < MaxLoads, loads' = loads + 1,
           NEW lines \in Seq(Line), LoadMalformed(lines)
    PROVE  /\ Held' = {}
           /\ \A p \in DOMAIN heap' :
                 p[1] \in 1 .. loads' /\ heap'[p] \in [name : Names, cost : 0 .. UMax]
<1> DEFINE read == Before(lines)
<1>1. read \in Seq(Line)
  BY BeforeIsRead
<1>2. heap' = Beside(Allocated(read), AfterDelete) /\ m_location_list' = m_location_list
  BY DEF LoadMalformed
<1>3. /\ DOMAIN AfterDelete = Leaked
      /\ DOMAIN AfterDelete \subseteq DOMAIN heap
      /\ \A p \in DOMAIN AfterDelete : AfterDelete[p] = heap[p]
  BY DeleteLeavesNothing DEF Leaked
<1> HIDE DEF read
<1>4. /\ DOMAIN heap' = New(Len(read)) \cup DOMAIN AfterDelete
      /\ \A p \in DOMAIN heap' : /\ p[1] \in 1 .. loads'
                                  /\ heap'[p] \in [name : Names, cost : 0 .. UMax]
  BY <1>1, <1>2, <1>3, NewBesideOld, Zenon
<1>5. Pointers(m_location_list) \cap New(Len(read)) = {}
  BY ListIsOld
<1> QED
  BY <1>2, <1>3, <1>4, <1>5 DEF Held, Leaked

LEMMA MalformedInv ==
    ASSUME LocInv, NEW lines \in Seq(Line), LoadMalformed(lines),
           loads < MaxLoads, loads' = loads + 1, loc_file' = loc_file, malformed'
    PROVE  LocInv'
<1>1. loads \in Nat /\ loads' \in 0 .. MaxLoads
  BY LoadBoundAssumption DEF LocInv, LocTypeOK
<1>2. /\ Held' = {} /\ fault' \in BOOLEAN
      /\ \A p \in DOMAIN heap' : /\ p[1] \in 1 .. loads'
                                  /\ heap'[p] \in [name : Names, cost : 0 .. UMax]
  BY MalformedLeavesNothing DEF LoadMalformed, DeleteIsDefined
<1>3. LocTypeOK'
  BY <1>1, <1>2 DEF LocInv, LocTypeOK, LoadMalformed
<1>4. ListOfOneLoad'
  BY SameListOfOneLoad DEF LoadMalformed
<1> QED
  BY <1>2, <1>3, <1>4 DEF LocInv

(* Load, in each of its ways.                                                 *)
LEMMA LoadInv == ASSUME LocInv, LocationLoad PROVE LocInv'
<1>1. PICK lines \in Readings(loc_file) :
        /\ malformed' = (malformed \/ FirstIs(lines, "nan") \/ FirstIs(lines, "wild"))
        /\ \/ LoadKeeps(lines)
           \/ LoadUpdates(lines)
           \/ LoadMalformed(lines)
           \/ LoadThrows(lines)
           \/ LoadFaults(lines)
  BY DEF LocationLoad
<1>2. lines \in Seq(Line)
  BY ReadingProperties DEF LocInv, LocTypeOK
<1>3. /\ loads' = loads + 1 /\ loc_file' = loc_file /\ loads < MaxLoads /\ ~fault
      /\ loads' \in 0 .. MaxLoads /\ loc_file' \in LocationFiles
      /\ malformed \in BOOLEAN /\ malformed' \in BOOLEAN /\ (~malformed' => ~malformed)
  BY <1>1, LoadBoundAssumption DEF LocationLoad, LocInv, LocTypeOK
<1>4. CASE LoadKeeps(lines) \/ LoadThrows(lines)
  <2>1. /\ UNCHANGED <<m_location_list, m_location_map>>
        /\ fault' = fault
        /\ outcome' \in {"kept", "threw"}
        /\ \E read \in {lines, Before(lines)} : heap' = Beside(Allocated(read), heap)
    BY <1>4 DEF LoadKeeps, LoadThrows
  <2>2. fault' \in BOOLEAN
    BY <2>1 DEF LocInv, LocTypeOK
  <2>3. PICK read \in Seq(Line) : heap' = Beside(Allocated(read), heap)
    BY <1>2, <2>1, BeforeIsRead
  <2>4. /\ SameHeld
        /\ \A p \in DOMAIN heap' : /\ p[1] \in 1 .. loads'
                                    /\ heap'[p] \in [name : Names, cost : 0 .. UMax]
    BY <1>3, <2>1, <2>3, DroppedBeside, Zenon
  <2> QED
    BY <1>3, <2>1, <2>2, <2>4, KeepInv
<1>5. CASE LoadFaults(lines)
  <2>1. malformed' /\ SameHeld /\ heap' = heap
    BY <1>1, <1>5 DEF LoadFaults, SameHeld, Held
  <2>2. loads \in Nat
    BY LoadBoundAssumption DEF LocInv, LocTypeOK
  <2>3. \A p \in DOMAIN heap' :
          p[1] \in 1 .. loads' /\ heap'[p] \in [name : Names, cost : 0 .. UMax]
    BY <1>3, <2>1, <2>2 DEF LocInv, LocTypeOK
  <2> QED
    BY <1>3, <1>5, <2>1, <2>3, KeepInv DEF LoadFaults
<1>6. CASE LoadUpdates(lines)
  BY <1>2, <1>3, <1>6, UpdateInv
<1>7. CASE LoadMalformed(lines)
  <2>1. malformed'
    BY <1>1, <1>7 DEF LoadMalformed
  <2> QED
    BY <1>2, <1>3, <1>7, <2>1, MalformedInv
<1> QED
  BY <1>1, <1>4, <1>5, <1>6, <1>7

(* The destructor leaves nothing of the list.                                 *)
LEMMA DestructorInv == ASSUME LocInv, Destructor PROVE LocInv'
<1>1. /\ fault' \in BOOLEAN /\ (~malformed => ~fault')
      /\ DOMAIN heap' \subseteq DOMAIN heap /\ \A p \in DOMAIN heap' : heap'[p] = heap[p]
  BY DeleteLeavesNothing DEF LocInv, Destructor, DeleteIsDefined, Leaked
<1>2. DOMAIN m_location_list' = {} /\ DOMAIN m_location_map' = {} /\ m_location_list' = <<>>
  BY DEF Destructor
<1>6. Held' = {}
  BY <1>2 DEF Held, Pointers
<1>3. LocTypeOK'
  BY <1>1, <1>2 DEF LocInv, LocTypeOK, Destructor
<1>4. ListOfOneLoad'
  <2>1. m_location_list' = [i \in 1 .. 0 |-> <<0, i>>] /\ 0 \in 0 .. loads'
    BY <1>2, LoadBoundAssumption DEF LocInv, LocTypeOK, Destructor
  <2> QED
    BY <2>1 DEF ListOfOneLoad
<1>5. Sound'
  BY <1>2, <1>6 DEF Sound, Pointers
<1> QED
  BY <1>1, <1>3, <1>4, <1>5 DEF LocInv, Destructor

LEMMA NextLoc == LocInv /\ [LocNext]_locVars => LocInv'
<1> SUFFICES ASSUME LocInv, [LocNext]_locVars PROVE LocInv'
  OBVIOUS
<1>1. CASE EditLocationFile
  BY <1>1, KeepInv DEF EditLocationFile, LocInv, LocTypeOK, SameHeld, Held
<1>2. CASE UNCHANGED locVars
  BY <1>2, KeepInv DEF locVars, LocInv, LocTypeOK, SameHeld, Held
<1> QED
  BY <1>1, <1>2, LoadInv, DestructorInv DEF LocNext

(* In every reachable state of the location database, src/route/
   FileLocationDatabase.cpp, list, map and objects mean the same locations, or
   a malformed line was met and nothing of the list is allocated. *)
THEOREM LocInvariance == LocSpec => []LocInv
BY InitLoc, NextLoc, PTL DEF LocSpec

-----------------------------------------------------------------------------

(* The state of the location database is well typed, for any files.           *)
THEOREM LocTypeCorrect == LocSpec => []LocTypeOK
<1>1. LocInv => LocTypeOK
  BY DEF LocInv
<1> QED
  BY <1>1, LocInvariance, PTL

(* Every location of the list is allocated and is there once, and so is freed once, *)
(* whatever loads and edits there were - until a line is met that is no number, *)
(* after which DeleteLocations has freed the list that is still in use.        *)
THEOREM LocationsAreOwned == LocSpec => []OwnsItsLocations
<1>1. LocInv => OwnsItsLocations
  <2> SUFFICES ASSUME LocInv, ~malformed
               PROVE  /\ Pointers(m_location_list) \subseteq DOMAIN heap
                      /\ IsInjective(m_location_list)
                      /\ \A n \in DOMAIN m_location_map : m_location_map[n] \in Held
                      /\ ~fault
    BY DEF OwnsItsLocations
  <2>1. IsInjective(m_location_list)
    BY DEF LocInv, ListOfOneLoad, IsInjective
  <2> QED
    BY <2>1 DEF LocInv, Sound
<1> QED
  BY <1>1, LocInvariance, PTL

(* What is leaked has never been in the list: it was read by a load that did not  *)
(* replace the list.  What was in it is freed, by a load or by the destructor.  *)
THEOREM ListedLocationsAreFreed == LocSpec => OnlyUnusedLeak
<1> DEFINE lost == Leaked' \ Leaked
<1>1. ASSUME LocInv, LocationLoad
      PROVE  lost \cap DOMAIN heap = {} /\ (outcome' = "updated" => lost = {})
  <2>1. PICK lines \in Readings(loc_file) :
          \/ LoadKeeps(lines)
          \/ LoadUpdates(lines)
          \/ LoadMalformed(lines)
          \/ LoadThrows(lines)
          \/ LoadFaults(lines)
    BY <1>1 DEF LocationLoad
  <2>2. lines \in Seq(Line) /\ Before(lines) \in Seq(Line)
    BY <1>1, ReadingProperties, BeforeIsRead DEF LocInv, LocTypeOK
  <2>3. loads < MaxLoads /\ loads' = loads + 1
    BY <1>1 DEF LocationLoad
  <2>4. DOMAIN AfterDelete = Leaked /\ DOMAIN AfterDelete \subseteq DOMAIN heap
        /\ \A p \in DOMAIN AfterDelete : AfterDelete[p] = heap[p]
    BY <1>1, DeleteLeavesNothing DEF Leaked
  <2>5. CASE LoadUpdates(lines)
    <3>1. Pointers(m_location_list') = New(Len(lines))
      BY <1>1, <2>2, <2>3, <2>5, UpdatedState, Zenon DEF Updated
    <3>2. DOMAIN heap' = New(Len(lines)) \cup DOMAIN AfterDelete
      BY <1>1, <2>2, <2>3, <2>4, <2>5, NewBesideOld, Zenon DEF LoadUpdates
    <3>3. lost = {}
      BY <2>4, <3>1, <3>2 DEF Leaked
    <3> QED
      BY <3>3
  <2>6. ASSUME NEW read \in Seq(Line), UNCHANGED m_location_list, outcome' # "updated",
               \/ heap' = Beside(Allocated(read), heap)
               \/ heap' = Beside(Allocated(read), AfterDelete)
        PROVE  lost \cap DOMAIN heap = {} /\ (outcome' = "updated" => lost = {})
    <3>1. /\ New(Len(read)) \cap DOMAIN heap = {}
          /\ \/ DOMAIN heap' = New(Len(read)) \cup DOMAIN heap
             \/ DOMAIN heap' = New(Len(read)) \cup DOMAIN AfterDelete
      BY <1>1, <2>3, <2>4, <2>6, NewBesideOld, Zenon
    <3> QED
      BY <2>4, <2>6, <3>1 DEF Leaked
  <2>7. CASE LoadKeeps(lines) \/ LoadThrows(lines) \/ LoadMalformed(lines)
    <3>1. /\ UNCHANGED m_location_list /\ outcome' # "updated"
          /\ \E read \in {lines, Before(lines)} :
                \/ heap' = Beside(Allocated(read), heap)
                \/ heap' = Beside(Allocated(read), AfterDelete)
      BY <2>7 DEF LoadKeeps, LoadThrows, LoadMalformed
    <3> HIDE DEF lost
    <3> QED
      BY <2>2, <2>6, <3>1, Zenon
  <2>8. CASE LoadFaults(lines)
    BY <2>8 DEF LoadFaults, Leaked
  <2> QED
    BY <2>1, <2>5, <2>7, <2>8
<1>2. ASSUME LocInv, Destructor PROVE lost = {}
  <2>1. DOMAIN heap' = Leaked
    BY <1>2, DeleteLeavesNothing DEF Destructor
  <2> QED
    BY <2>1 DEF Leaked
<1>3. ASSUME EditLocationFile PROVE lost = {}
  BY <1>3 DEF EditLocationFile, Leaked
<1>4. ASSUME LocInv, [LocNext]_locVars
      PROVE  [lost # {} => /\ lost \cap DOMAIN heap = {}
                           /\ outcome' # "updated"
                           /\ LocationLoad]_locVars
  BY <1>1, <1>2, <1>3, <1>4 DEF LocNext
<1> QED
  BY <1>4, LocInvariance, PTL DEF LocSpec, OnlyUnusedLeak

(* GetLocation and GetLocationIndex mean the same location by a name, listed once *)
(* or twice.                                                                  *)
THEOREM MapMeansList == LocSpec => []MapAgreesWithList
<1>1. LocInv => MapAgreesWithList
  BY DEF LocInv, Sound, MapAgreesWithList, GetLocation
<1> QED
  BY <1>1, LocInvariance, PTL

(* A load takes over the whole of a file or nothing: whatever line it stops at, *)
(* no pointer has changed.                                                    *)
THEOREM LoadsAreWhole == LocSpec => NoPartialLoad
<1>1. ASSUME LocInv, LocationLoad, m_location_list' # m_location_list
      PROVE  /\ Len(m_location_list') = Len(loc_file)
             /\ \A i \in DOMAIN loc_file :
                   /\ loc_file[i].kind \in {"good", "short"}
                   /\ heap'[m_location_list'[i]].name = loc_file[i].name
  <2>1. PICK lines \in Readings(loc_file) : LoadUpdates(lines)
    BY <1>1 DEF LocationLoad, LoadKeeps, LoadMalformed, LoadThrows, LoadFaults
  <2>2. /\ lines \in Seq(Line) /\ Len(lines) = Len(loc_file) /\ DOMAIN lines = DOMAIN loc_file
        /\ \A i \in DOMAIN loc_file :
              /\ lines[i].name = loc_file[i].name
              /\ lines[i].kind = loc_file[i].kind \/ loc_file[i].kind = "short"
    BY <1>1, ReadingProperties DEF LocInv, LocTypeOK
  <2>3. \A i \in DOMAIN lines : lines[i].kind = "good"
    BY <2>1, <2>2, GoodLines DEF LoadUpdates
  <2>6. loads < MaxLoads /\ loads' = loads + 1
    BY <1>1 DEF LocationLoad
  <2>5. Updated(lines)
    BY <1>1, <2>1, <2>2, <2>6, UpdatedState, Zenon
  <2>4. /\ DOMAIN lines = 1 .. Len(lines) /\ Len(lines) \in Nat
        /\ m_location_list' = [i \in 1 .. Len(lines) |-> <<loads + 1, i>>]
        /\ \A i \in 1 .. Len(lines) : heap'[<<loads + 1, i>>].name = lines[i].name
    BY <2>5, UpdatedNames DEF Updated
  <2> QED
    BY <2>2, <2>3, <2>4
<1> QED
  BY <1>1, LocInvariance, PTL DEF LocSpec, NoPartialLoad
=============================================================================
