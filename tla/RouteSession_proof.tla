------------------------- MODULE RouteSession_proof -------------------------
(***************************************************************************)
(* One session, for any names, lists of locations, size of a page, and     *)
(* anything typed, in three inductive invariants, each resting on those    *)
(* before it:                                                              *)
(*   SessionTypeOK  types, and pages that fit their message;               *)
(*   CacheInv and ChoiceInv  what the client asks for is what it lacks,    *)
(*       and what it has accepted is what the user typed;                  *)
(*   OfferInv  the client has the first locations of the server's list,    *)
(*       and the page under way goes on with it.                           *)
(* A name with a ';', a page with gaps or an edited file break OfferInv,   *)
(* and what the user is offered with it, so that its theorems assume that  *)
(* there are none: GaplessLists states what the pages need of the lists,   *)
(* and lists in the order of the widths of their names do meet it.         *)
(***************************************************************************)
EXTENDS RouteSession, NumberFacts

-----------------------------------------------------------------------------
(* Filling a page                                                            *)

(* The pages a message holds.                                                 *)
Pages == [char_count : 0 .. MaxChars, names : Seq(Names), is_paginated : BOOLEAN]

(* A name that does not fit leaves the page as it is, but for the mark.       *)
LEMMA AddLocationFits ==
    ASSUME NEW page \in Pages, NEW n \in Names
    PROVE  AddLocation(page, n) \in Pages
<1>1. Width[n] \in Nat /\ page.char_count \in 0 .. MaxChars /\ page.names \in Seq(Names)
  BY NameWidthAssumption DEF Pages
<1>2. CASE page.char_count + Width[n] < MaxChars
  <2>1. page.char_count + Width[n] + 1 \in 0 .. MaxChars
    BY <1>1, <1>2, PageAssumption
  <2>2. Append(page.names, n) \in Seq(Names)
    BY <1>1
  <2> QED
    BY <1>2, <2>1, <2>2 DEF AddLocation, Add, Pages
<1>3. CASE ~(page.char_count + Width[n] < MaxChars)
  BY <1>3 DEF AddLocation, Pages
<1> QED
  BY <1>2, <1>3

LEMMA EmptyPageFits == EmptyPage \in Pages
BY PageAssumption DEF EmptyPage, Pages

(* The pages that offering the locations of a list one by one leads to.       *)
Filled(f, seq) ==
    f[0] = EmptyPage /\ \A k \in 1 .. Len(seq) : f[k] = AddLocation(f[k-1], seq[k])

(* The fold that PageFrom is does offer them one by one.                      *)
LEMMA PageIsFilled ==
    ASSUME NEW seq \in Seq(Names)
    PROVE  \E f : Filled(f, seq) /\ FoldLeft(AddLocation, EmptyPage, seq) = f[Len(seq)]
<1> DEFINE D == 1 .. Len(seq)
           Offer == [p \in Names \X Pages |-> AddLocation(p[2], p[1])]
           Solves(f) == f = [s \in SUBSET D |->
                               IF s = {} THEN EmptyPage
                               ELSE AddLocation(f[s \ {Max(s)}], seq[Max(s)])]
           it == CHOOSE f : Solves(f)
<1>1. Len(seq) \in Nat /\ seq \in [D -> Names] /\ DOMAIN seq = D
  OBVIOUS
<1>2. Offer \in [Names \X Pages -> Pages]
  <2> DEFINE P == Names \X Pages
             Offered(p) == AddLocation(p[2], p[1])
  <2>1. \A p \in P : p[1] \in Names /\ p[2] \in Pages
    OBVIOUS
  <2>2. \A p \in P : Offered(p) \in Pages
    BY <2>1, AddLocationFits
  <2>3. Offer = [p \in P |-> Offered(p)]
    OBVIOUS
  <2> HIDE DEF P, Offered, Offer
  <2>4. Offer \in [P -> Pages]
    BY <2>2, <2>3
  <2> QED
    BY <2>4 DEF P, Offer
<1>3. \A n \in Names, page \in Pages : Offer[<<n, page>>] = AddLocation(page, n)
  OBVIOUS
<1> HIDE DEF Offer
<1>4. PICK g \in [SUBSET D -> Pages] : Folds(g, Len(seq), EmptyPage, Offer, seq)
  <2> DEFINE l == Len(seq)
  <2> SUFFICES \E g \in [SUBSET (1 .. l) -> Pages] : Folds(g, l, EmptyPage, Offer, seq)
    OBVIOUS
  <2>1. l \in Nat /\ seq \in [1 .. l -> Names]
    BY <1>1
  <2> HIDE DEF l
  <2> QED
    BY <1>2, <2>1, EmptyPageFits, FoldExists, Zenon
<1>5. Solves(g)
  <2>1. ASSUME NEW s \in SUBSET D
        PROVE  g[s] = IF s = {} THEN EmptyPage ELSE AddLocation(g[s \ {Max(s)}], seq[Max(s)])
    <3>1. CASE s = {}
      BY <1>4, <3>1 DEF Folds
    <3>2. CASE s # {}
      <4>1. g[s] = Offer[<<seq[Max(s)], g[s \ {Max(s)}]>>]
        BY <1>4, <3>2 DEF Folds
      <4>2. Max(s) \in D
        BY <1>1, <3>2, MaxIsGreatest
      <4>3. seq[Max(s)] \in Names /\ g[s \ {Max(s)}] \in Pages
        BY <1>1, <1>4, <4>2
      <4> QED
        BY <1>3, <3>2, <4>1, <4>3
    <3> QED
      BY <3>1, <3>2
  <2>2. g = [s \in SUBSET D |-> g[s]]
    BY <1>4
  <2> QED
    BY <2>1, <2>2
<1>6. FoldLeft(AddLocation, EmptyPage, seq) = it[D]
  BY <1>1 DEF FoldLeft, MapThenFoldSet
<1>7. Solves(it)
  <2> HIDE DEF Solves
  <2> QED
    BY <1>5, Zenon
<1> HIDE DEF it
<1>8. it[{}] = EmptyPage
  BY <1>7
<1>9. ASSUME NEW k \in Nat, k + 1 <= Len(seq)
      PROVE  it[1 .. k + 1] = AddLocation(it[1 .. k], seq[k + 1])
  <2> DEFINE s == 1 .. k + 1
  <2>1. s \in SUBSET D /\ s # {} /\ Max(s) = k + 1 /\ s \ {k + 1} = 1 .. k
    <3>1. s \in SUBSET D
      BY <1>1, <1>9
    <3> QED
      BY <3>1, MaxOfPositions
  <2> HIDE DEF s, D
  <2>2. it[s] = AddLocation(it[s \ {Max(s)}], seq[Max(s)])
    BY <1>7, <2>1
  <2> QED
    BY <2>1, <2>2 DEF s
<1> HIDE DEF Solves
<1> DEFINE offered(k) == it[1 .. k]
           f == [k \in 0 .. Len(seq) |-> offered(k)]
<1>a. offered(0) = EmptyPage /\ offered(Len(seq)) = it[D]
  BY <1>8, MaxOfPositions
<1>b. ASSUME NEW k \in Nat, k + 1 <= Len(seq)
      PROVE  offered(k + 1) = AddLocation(offered(k), seq[k + 1])
  BY <1>9, <1>b
<1> HIDE DEF offered, D
<1>10. f[0] = EmptyPage
  BY <1>1, <1>a
<1>11. ASSUME NEW k \in 1 .. Len(seq) PROVE f[k] = AddLocation(f[k-1], seq[k])
  <2>1. k - 1 \in Nat /\ (k - 1) + 1 = k /\ k - 1 \in 0 .. Len(seq) /\ k \in 0 .. Len(seq)
    BY <1>1
  <2>2. offered(k) = AddLocation(offered(k-1), seq[k])
    BY <1>1, <1>b, <2>1
  <2> QED
    BY <2>1, <2>2
<1>12. f[Len(seq)] = it[D]
  BY <1>1, <1>a
<1> HIDE DEF f
<1> QED
  BY <1>6, <1>10, <1>11, <1>12 DEF Filled

-----------------------------------------------------------------------------
(* Reading a page                                                            *)

(* \o, under a name that hides it from the provers until it matters.          *)
Joins(a, b) == a \o b

LEMMA JoinsType ==
    ASSUME NEW a \in Seq(Names), NEW b \in Seq(Names)
    PROVE  Joins(a, b) \in Seq(Names)
BY DEF Joins

(* f[i] is what the first i sequences make together.                          *)
Joined(f, seqs) ==
    f[1] = seqs[1] /\ \A i \in 2 .. Len(seqs) : f[i] = Joins(f[i-1], seqs[i])

(* FlattenSeq joins the sequences one by one.                                 *)
LEMMA FlattenIsJoined ==
    ASSUME NEW seqs \in Seq(Seq(Names)), seqs # <<>>
    PROVE  \E f : Joined(f, seqs) /\ FlattenSeq(seqs) = f[Len(seqs)]
<1> DEFINE V == Seq(Names)
           L == Len(seqs)
           Next1(p) == IF p[1] + 2 <= L THEN Joins(p[2], seqs[p[1] + 2]) ELSE p[2]
           Grow == [p \in Nat \X V |-> Next1(p)]
           Solves(f) == f = [i \in 1 .. L |-> IF i = 1 THEN seqs[i] ELSE Joins(f[i-1], seqs[i])]
           it == CHOOSE f : Solves(f)
<1>1. L \in Nat \ {0} /\ seqs \in [1 .. L -> V]
  OBVIOUS
<1> HIDE DEF L, V
<1>2. Grow \in [Nat \X V -> V]
  <2> DEFINE P == Nat \X V
  <2>1. ASSUME NEW p \in P PROVE Next1(p) \in V
    <3>1. p[1] \in Nat /\ p[2] \in V
      OBVIOUS
    <3>2. CASE p[1] + 2 <= L
      <4>1. seqs[p[1] + 2] \in V
        BY <1>1, <3>1, <3>2
      <4> QED
        BY <3>1, <3>2, <4>1, JoinsType DEF V
    <3> QED
      BY <3>1, <3>2
  <2>2. Grow = [p \in P |-> Next1(p)]
    OBVIOUS
  <2> HIDE DEF P, Next1, Grow
  <2>3. Grow \in [P -> V]
    BY <2>1, <2>2
  <2> QED
    BY <2>3 DEF P, Grow
<1>3. ASSUME NEW k \in Nat, k + 2 <= L, NEW x \in V
      PROVE  Grow[<<k, x>>] = Joins(x, seqs[k + 2])
  BY <1>3
<1> HIDE DEF Grow
<1>4. PICK F \in [Nat -> V] : Recurs(F, seqs[1], Grow)
  <2>1. seqs[1] \in V
    BY <1>1
  <2> QED
    BY <1>2, <2>1, RecursionOnNat, Zenon
<1> DEFINE g == [i \in 1 .. L |-> F[i-1]]
<1>5. Solves(g)
  <2>1. ASSUME NEW i \in 1 .. L
        PROVE  g[i] = IF i = 1 THEN seqs[i] ELSE Joins(g[i-1], seqs[i])
    <3>1. CASE i = 1
      BY <1>1, <1>4, <3>1 DEF Recurs
    <3>2. CASE i # 1
      <4>1. i - 2 \in Nat /\ (i - 2) + 1 = i - 1 /\ (i - 2) + 2 = i /\ i - 1 \in 1 .. L
        BY <1>1, <3>2
      <4>2. F[i - 1] = Joins(F[i - 2], seqs[i])
        <5>1. F[i - 1] = Grow[<<i - 2, F[i - 2]>>]
          BY <1>4, <4>1 DEF Recurs
        <5>2. (i - 2) + 2 <= L /\ F[i - 2] \in V
          BY <1>1, <1>4, <4>1
        <5> QED
          BY <1>3, <4>1, <5>1, <5>2
      <4>3. g[i] = F[i - 1] /\ g[i - 1] = F[i - 2]
        BY <4>1
      <4> QED
        BY <3>2, <4>2, <4>3
    <3> QED
      BY <3>1, <3>2
  <2>2. g = [i \in 1 .. L |-> g[i]]
    OBVIOUS
  <2> HIDE DEF g
  <2> QED
    BY <2>1, <2>2
<1>6. FlattenSeq(seqs) = it[L]
  BY <1>1 DEF FlattenSeq, L, Joins
<1>7. Solves(it)
  <2> HIDE DEF Solves
  <2> QED
    BY <1>5, Zenon
<1> HIDE DEF it
<1>8. Joined(it, seqs)
  <2>1. it[1] = seqs[1]
    BY <1>1, <1>7
  <2>2. ASSUME NEW i \in 2 .. L PROVE it[i] = Joins(it[i-1], seqs[i])
    <3>1. i \in 1 .. L /\ i # 1
      BY <1>1
    <3>2. \A j \in 1 .. L : it[j] = IF j = 1 THEN seqs[j] ELSE Joins(it[j-1], seqs[j])
      BY <1>7
    <3> HIDE DEF Solves
    <3> QED
      BY <3>1, <3>2
  <2> QED
    BY <2>1, <2>2 DEF Joined, L
<1> QED
  BY <1>6, <1>8 DEF L

SplitNames(names) == [i \in DOMAIN names |-> Parts[names[i]]]

LEMMA SplitNamesType ==
    ASSUME NEW names \in Seq(Names)
    PROVE  /\ SplitNames(names) \in Seq(Seq(Names)) /\ Len(SplitNames(names)) = Len(names)
           /\ \A i \in 1 .. Len(names) : SplitNames(names)[i] = Parts[names[i]]
<1>1. names \in [1 .. Len(names) -> Names] /\ DOMAIN names = 1 .. Len(names) /\ Len(names) \in Nat
  OBVIOUS
<1>2. \A i \in 1 .. Len(names) : Parts[names[i]] \in Seq(Names)
  BY <1>1, PartsAssumption
<1> QED
  BY <1>1, <1>2 DEF SplitNames

(* What the client reads from a page are names.                               *)
LEMMA GetLocationsType ==
    ASSUME NEW page \in Pages
    PROVE  GetLocations(page) \in Seq(Names)
<1> DEFINE names == page.names
           seqs == SplitNames(names)
<1>1. names \in Seq(Names)
  BY DEF Pages
<1>2. GetLocations(page) = FlattenSeq(seqs)
  BY DEF GetLocations, SplitNames
<1>3. /\ seqs \in Seq(Seq(Names)) /\ Len(seqs) \in Nat
      /\ \A i \in 1 .. Len(seqs) : seqs[i] \in Seq(Names)
  BY <1>1, SplitNamesType
<1> HIDE DEF names, seqs
<1>4. CASE seqs = <<>>
  BY <1>2, <1>4 DEF FlattenSeq
<1>5. CASE seqs # <<>>
  <2>1. PICK f : Joined(f, seqs) /\ FlattenSeq(seqs) = f[Len(seqs)]
    BY <1>3, <1>5, FlattenIsJoined
  <2> DEFINE T == {k \in Nat : k + 1 <= Len(seqs) => f[k + 1] \in Seq(Names)}
  <2>2. 0 \in T
    BY <1>3, <2>1 DEF Joined
  <2>3. ASSUME NEW k \in T PROVE k + 1 \in T
    <3> SUFFICES ASSUME k + 2 <= Len(seqs) PROVE f[k + 2] \in Seq(Names)
      OBVIOUS
    <3>1. k + 2 \in 2 .. Len(seqs) /\ (k + 2) - 1 = k + 1 /\ f[k + 1] \in Seq(Names)
      BY <1>3
    <3>2. f[k + 2] = Joins(f[k + 1], seqs[k + 2]) /\ seqs[k + 2] \in Seq(Names)
      BY <1>3, <2>1, <3>1 DEF Joined
    <3> QED
      BY <3>1, <3>2, JoinsType
  <2> HIDE DEF T
  <2>4. T = Nat
    <3>1. T \in SUBSET Nat
      BY DEF T
    <3> QED
      BY <2>2, <2>3, <3>1, InductionOnNat
  <2>5. Len(seqs) - 1 \in T /\ (Len(seqs) - 1) + 1 = Len(seqs)
    BY <1>3, <1>5, <2>4
  <2> QED
    BY <1>2, <2>1, <2>5 DEF T
<1> QED
  BY <1>4, <1>5

(* Names without a ';' are read as they were written.                         *)
LEMMA GetLocationsReads ==
    ASSUME NamesAreWhole, NEW page \in Pages
    PROVE  GetLocations(page) = page.names
<1> DEFINE names == page.names
           seqs == SplitNames(names)
<1>1. names \in Seq(Names)
  BY DEF Pages
<1>2. GetLocations(page) = FlattenSeq(seqs)
  BY DEF GetLocations, SplitNames
<1>3. /\ seqs \in Seq(Seq(Names)) /\ Len(seqs) = Len(names) /\ Len(names) \in Nat
      /\ \A i \in 1 .. Len(names) : seqs[i] = <<names[i]>> /\ names[i] \in Names
  <2>1. /\ seqs \in Seq(Seq(Names)) /\ Len(seqs) = Len(names)
        /\ \A i \in 1 .. Len(names) : seqs[i] = Parts[names[i]]
    BY <1>1, SplitNamesType
  <2>2. Len(names) \in Nat /\ \A i \in 1 .. Len(names) : names[i] \in Names
    BY <1>1
  <2> QED
    BY <2>1, <2>2 DEF NamesAreWhole
<1> HIDE DEF names, seqs
<1>4. CASE seqs = <<>>
  <2>1. names = <<>>
    BY <1>1, <1>3, <1>4
  <2> QED
    BY <1>2, <1>4, <2>1 DEF FlattenSeq, names
<1>5. CASE seqs # <<>>
  <2>1. PICK f : Joined(f, seqs) /\ FlattenSeq(seqs) = f[Len(seqs)]
    BY <1>3, <1>5, FlattenIsJoined
  <2> DEFINE T == {k \in Nat : k + 1 <= Len(seqs) => f[k + 1] = SubSeq(names, 1, k + 1)}
  <2>2. 0 \in T
    BY <1>1, <1>3, <2>1 DEF Joined
  <2>3. ASSUME NEW k \in T PROVE k + 1 \in T
    <3> SUFFICES ASSUME k + 2 <= Len(seqs) PROVE f[k + 2] = SubSeq(names, 1, k + 2)
      OBVIOUS
    <3>1. k + 2 \in 2 .. Len(seqs) /\ (k + 2) - 1 = k + 1 /\ f[k + 1] = SubSeq(names, 1, k + 1)
      BY <1>3
    <3>2. f[k + 2] = SubSeq(names, 1, k + 1) \o <<names[k + 2]>>
      <4>1. f[k + 2] = Joins(f[k + 1], seqs[k + 2])
        BY <2>1, <3>1 DEF Joined
      <4>2. seqs[k + 2] = <<names[k + 2]>>
        BY <1>3, <3>1
      <4> QED
        BY <3>1, <4>1, <4>2 DEF Joins
    <3>3. SubSeq(names, 1, k + 1) \o <<names[k + 2]>> = SubSeq(names, 1, k + 2)
      BY <1>1, <1>3
    <3> QED
      BY <3>2, <3>3
  <2> HIDE DEF T
  <2>4. T = Nat
    <3>1. T \in SUBSET Nat
      BY DEF T
    <3> QED
      BY <2>2, <2>3, <3>1, InductionOnNat
  <2>5. Len(seqs) - 1 \in T /\ (Len(seqs) - 1) + 1 = Len(seqs)
    BY <1>3, <1>5, <2>4
  <2>6. f[Len(seqs)] = SubSeq(names, 1, Len(seqs))
    BY <2>5 DEF T
  <2>7. SubSeq(names, 1, Len(names)) = names
    BY <1>1
  <2> QED
    BY <1>2, <1>3, <2>1, <2>6, <2>7 DEF names
<1> QED
  BY <1>4, <1>5

-----------------------------------------------------------------------------
(* What a page holds                                                         *)

(* A page holds some of the locations it is filled with.                      *)
LEMMA FilledFits ==
    ASSUME NEW seq \in Seq(Names), NEW f, Filled(f, seq), NEW k \in 0 .. Len(seq)
    PROVE  f[k] \in Pages /\ Len(f[k].names) <= k
<1> DEFINE T == {j \in Nat : j <= Len(seq) => f[j] \in Pages /\ Len(f[j].names) <= j}
<1>1. 0 \in T
  <2>1. f[0] = EmptyPage /\ EmptyPage.names = <<>>
    BY DEF Filled, EmptyPage
  <2>2. Len(f[0].names) = 0
    BY <2>1
  <2> QED
    BY <2>1, <2>2, EmptyPageFits
<1>2. ASSUME NEW j \in T PROVE j + 1 \in T
  <2> SUFFICES ASSUME j + 1 <= Len(seq)
               PROVE  f[j + 1] \in Pages /\ Len(f[j + 1].names) <= j + 1
    OBVIOUS
  <2>1. /\ j + 1 \in 1 .. Len(seq) /\ (j + 1) - 1 = j /\ seq[j + 1] \in Names
        /\ f[j] \in Pages /\ Len(f[j].names) <= j /\ j \in Nat
    OBVIOUS
  <2>2. f[j + 1] = AddLocation(f[j], seq[j + 1])
    BY <2>1 DEF Filled
  <2>3. f[j + 1] \in Pages
    BY <2>1, <2>2, AddLocationFits
  <2>4. f[j].names \in Seq(Names)
    BY <2>1 DEF Pages
  <2>5. f[j + 1].names \in {f[j].names, Append(f[j].names, seq[j + 1])}
    BY <2>1, <2>2 DEF AddLocation, Add, Pages
  <2>6. Len(f[j + 1].names) <= j + 1
    <3> DEFINE old == f[j].names
               new == f[j + 1].names
    <3>1. old \in Seq(Names) /\ Len(old) <= j /\ (new = old \/ new = Append(old, seq[j + 1]))
      BY <2>1, <2>4, <2>5
    <3> HIDE DEF old, new
    <3>2. Len(new) <= j + 1
      BY <2>1, <3>1
    <3> QED
      BY <3>2 DEF new
  <2> QED
    BY <2>3, <2>6
<1> HIDE DEF T
<1>3. T = Nat
  <2>1. T \in SUBSET Nat
    BY DEF T
  <2> QED
    BY <1>1, <1>2, <2>1, InductionOnNat
<1>4. k \in T /\ k <= Len(seq)
  BY <1>3
<1> QED
  BY <1>4 DEF T

(* What is filled with the first locations does not depend on the others.     *)
LEMMA FilledBefore ==
    ASSUME NEW seq \in Seq(Names), NEW f, Filled(f, seq), NEW i \in 0 .. Len(seq)
    PROVE  f[i] = FoldLeft(AddLocation, EmptyPage, SubSeq(seq, 1, i))
<1> DEFINE first == SubSeq(seq, 1, i)
<1>1. first \in Seq(Names) /\ Len(first) = i /\ i \in Nat /\ \A k \in 1 .. i : first[k] = seq[k]
  OBVIOUS
<1> HIDE DEF first
<1>2. PICK g : Filled(g, first) /\ FoldLeft(AddLocation, EmptyPage, first) = g[i]
  BY <1>1, PageIsFilled
<1> DEFINE T == {k \in Nat : k <= i => f[k] = g[k]}
<1>3. 0 \in T
  BY <1>2 DEF Filled
<1>4. ASSUME NEW k \in T PROVE k + 1 \in T
  <2> SUFFICES ASSUME k + 1 <= i PROVE f[k + 1] = g[k + 1]
    OBVIOUS
  <2>1. k + 1 \in 1 .. i /\ k + 1 \in 1 .. Len(seq) /\ (k + 1) - 1 = k /\ f[k] = g[k]
    BY <1>1
  <2>2. f[k + 1] = AddLocation(f[k], seq[k + 1]) /\ g[k + 1] = AddLocation(g[k], first[k + 1])
    BY <1>1, <1>2, <2>1 DEF Filled
  <2> QED
    BY <1>1, <2>1, <2>2
<1> HIDE DEF T
<1>5. T = Nat
  <2>1. T \in SUBSET Nat
    BY DEF T
  <2> QED
    BY <1>3, <1>4, <2>1, InductionOnNat
<1>6. i \in T
  BY <1>1, <1>5
<1> QED
  BY <1>1, <1>2, <1>6 DEF T, first

(* PageFrom fits the message, and has no more names than it is offered.       *)
LEMMA PageFromFits ==
    ASSUME NEW list \in Seq(Names), NEW start \in Nat, start <= Len(list)
    PROVE  PageFrom(list, start) \in Pages /\ Len(PageFrom(list, start).names) <= Len(list) - start
<1> DEFINE seq == SubSeq(list, start + 1, Len(list))
<1>1. seq \in Seq(Names) /\ Len(seq) = Len(list) - start /\ Len(seq) \in 0 .. Len(seq)
  OBVIOUS
<1>2. PageFrom(list, start) = FoldLeft(AddLocation, EmptyPage, seq)
  BY DEF PageFrom
<1> HIDE DEF seq
<1>3. PICK f : Filled(f, seq) /\ PageFrom(list, start) = f[Len(seq)]
  BY <1>1, <1>2, PageIsFilled
<1> QED
  BY <1>1, <1>3, FilledFits

(* Of a list without gaps, a page holds the locations up to the first that    *)
(* does not fit.                                                              *)
HoldsFirst(page, seq, k, j) ==
    page.names = SubSeq(seq, 1, j) /\ (page.is_paginated <=> j < k)

LEMMA GaplessPage ==
    ASSUME NEW seq \in Seq(Names), Gapless(seq)
    PROVE  \E j \in 0 .. Len(seq) :
               HoldsFirst(FoldLeft(AddLocation, EmptyPage, seq), seq, Len(seq), j)
<1>1. PICK f : Filled(f, seq) /\ FoldLeft(AddLocation, EmptyPage, seq) = f[Len(seq)]
  BY PageIsFilled
<1> DEFINE Full(j) == f[j].char_count + Width[seq[j + 1]] >= MaxChars
           Good(k, j) == /\ HoldsFirst(f[k], seq, k, j)
                         /\ f[k].char_count = f[j].char_count
                         /\ j < k => Full(j)
           T == {k \in Nat : k <= Len(seq) => \E j \in 0 .. k : Good(k, j)}
<1>2. 0 \in T
  <2>1. f[0].names = <<>> /\ f[0].is_paginated = FALSE
    BY <1>1 DEF Filled, EmptyPage
  <2>2. Good(0, 0)
    <3>1. SubSeq(seq, 1, 0) = <<>>
      OBVIOUS
    <3> QED
      BY <2>1, <3>1 DEF HoldsFirst
  <2> HIDE DEF Good
  <2> QED
    BY <2>2
<1>3. ASSUME NEW k \in T PROVE k + 1 \in T
  <2>0. k \in Nat
    OBVIOUS
  <2>1. SUFFICES ASSUME k + 1 <= Len(seq) PROVE \E j \in 0 .. k + 1 : Good(k + 1, j)
    <3> HIDE DEF Good
    <3> QED
      OBVIOUS
  <2>2. PICK j \in 0 .. k : Good(k, j)
    <3> HIDE DEF Good
    <3> QED
      BY <2>0, <2>1
  <2> DEFINE n == seq[k + 1]
  <2>3. /\ f[k + 1] = AddLocation(f[k], n) /\ n \in Names
        /\ f[k] \in Pages /\ f[k].char_count \in Nat /\ Width[n] \in Nat
    <3>1. k + 1 \in 1 .. Len(seq) /\ (k + 1) - 1 = k /\ k \in 0 .. Len(seq)
      BY <2>0, <2>1
    <3>2. f[k] \in Pages /\ n \in Names
      BY <1>1, <3>1, FilledFits
    <3> QED
      BY <1>1, <3>1, <3>2, NameWidthAssumption DEF Filled, Pages
  <2> HIDE DEF n
  <2>4. CASE j = k
    <3>1. CASE f[k].char_count + Width[n] < MaxChars
      <4>1. f[k + 1].names = Append(SubSeq(seq, 1, k), n) /\ ~f[k + 1].is_paginated
        BY <2>2, <2>3, <2>4, <3>1 DEF AddLocation, Add, HoldsFirst, Pages
      <4>2. Append(SubSeq(seq, 1, k), n) = SubSeq(seq, 1, k + 1)
        BY <2>0, <2>1 DEF n
      <4>3. Good(k + 1, k + 1)
        <5>1. f[k + 1].names = SubSeq(seq, 1, k + 1)
          BY <4>1, <4>2
        <5>2. ~(k + 1 < k + 1)
          BY <2>0
        <5> QED
          BY <4>1, <5>1, <5>2, Zenon DEF HoldsFirst
      <4> HIDE DEF Good
      <4> QED
        BY <2>0, <4>3
    <3>2. CASE ~(f[k].char_count + Width[n] < MaxChars)
      <4>1. /\ f[k + 1].names = f[k].names /\ f[k + 1].is_paginated = TRUE
            /\ f[k + 1].char_count = f[k].char_count
        BY <2>3, <3>2 DEF AddLocation, Pages
      <4>2. Full(k)
        BY <2>3, <3>2, PageAssumption DEF n
      <4>3. Good(k + 1, k)
        BY <2>0, <2>2, <2>4, <4>1, <4>2 DEF HoldsFirst
      <4> HIDE DEF Good
      <4> QED
        BY <2>0, <4>3
    <3> QED
      BY <3>1, <3>2
  <2>5. CASE j # k
    <3>1. j < k /\ Full(j) /\ j + 1 \in 1 .. Len(seq) /\ k + 1 \in 1 .. Len(seq) /\ j \in 0 .. Len(seq)
      BY <2>0, <2>1, <2>2, <2>5
    <3>2. f[j] = FoldLeft(AddLocation, EmptyPage, SubSeq(seq, 1, (j + 1) - 1))
      BY <1>1, <3>1, FilledBefore
    <3>3. f[j].char_count + Width[n] >= MaxChars
      BY <3>1, <3>2 DEF Gapless, n
    <3>4. /\ f[k + 1].names = f[k].names /\ f[k + 1].is_paginated = TRUE
          /\ f[k + 1].char_count = f[k].char_count
      BY <2>2, <2>3, <3>3, PageAssumption DEF AddLocation, Pages
    <3>5. Good(k + 1, j)
      BY <2>0, <2>2, <3>1, <3>4 DEF HoldsFirst
    <3> HIDE DEF Good
    <3> QED
      BY <2>0, <3>5
  <2> QED
    BY <2>4, <2>5
<1> HIDE DEF T
<1>4. T = Nat
  <2>1. T \in SUBSET Nat
    BY DEF T
  <2> QED
    BY <1>2, <1>3, <2>1, InductionOnNat
<1>5. Len(seq) \in T /\ Len(seq) \in Nat
  BY <1>4
<1>6. PICK j \in 0 .. Len(seq) : Good(Len(seq), j)
  <2> HIDE DEF Good
  <2> QED
    BY <1>5 DEF T
<1> QED
  BY <1>1, <1>6

-----------------------------------------------------------------------------
(* What the actions do to the session                                        *)

Handlers == [m_locations_cache : Seq(Names), chosen : Seq(Names), cin : {"good", "failed"}]

Cache == handler.m_locations_cache

(* Types, for every session.                                                  *)
SessionTypeOK ==
    /\ locations \in Databases
    /\ handler \in Handlers
    /\ msg.type \in {"StatusRequest", "StatusResponse", "LocationsRequest",
                     "LocationsResponse", "RouteRequest", "RouteResponse", "Asking", "Ended"}
    /\ msg.type = "LocationsRequest" => msg.start_location \in Nat
    /\ msg.type = "LocationsResponse" => msg.page \in Pages
    /\ msg.type \in {"Asking", "RouteRequest"} =>
           msg.start_location \in Nat /\ msg.end_location \in Nat

(* The client asks for the location after those it has, so its cache does not *)
(* outgrow the list and the largest number is never an index.                 *)
CacheInv ==
    /\ Len(Cache) <= SizeMax
    /\ msg.type = "LocationsRequest" => msg.start_location = Len(Cache)
    /\ msg.type = "LocationsResponse" => Len(Cache) + Len(msg.page.names) <= SizeMax

(* While the user is asked no end is accepted, and the start that is accepted *)
(* is the one chosen, as long as std::cin is read.                            *)
ChoiceInv ==
    /\ msg.type \in {"StatusRequest", "StatusResponse", "LocationsRequest", "LocationsResponse"} =>
           handler.chosen = <<>>
    /\ msg.type = "Asking" =>
           /\ ~IsIndex(msg.end_location, Cache)
           /\ handler.cin = "good" =>
                 handler.chosen = IF IsIndex(msg.start_location, Cache)
                                  THEN <<Cache[msg.start_location + 1]>> ELSE <<>>
    /\ msg.type = "RouteRequest" =>
           IsIndex(msg.start_location, Cache) /\ IsIndex(msg.end_location, Cache)
    /\ RequestIsTheUsers

LEMMA DatabaseType ==
    ASSUME NEW list \in Databases
    PROVE  list \in Seq(Names) /\ Len(list) <= SizeMax /\ Len(list) \in Nat
BY DatabaseAssumption

LEMMA NewHandlerType == NewHandler \in Handlers
BY DEF NewHandler, Handlers

(* The server's answer, by the kind of request.                               *)
LEMMA ServerAnswers ==
    ASSUME SessionTypeOK, ServerHandles
    PROVE  /\ locations' \in Databases /\ locations' \in GetLocationNames(locations)
           /\ handler' = handler
           /\ \/ msg.type = "StatusRequest" /\ msg' = StatusResponse
              \/ /\ msg.type = "LocationsRequest" /\ msg.start_location \in Nat
                 /\ msg.start_location < Len(locations')
                 /\ msg' = LocationsResponse(PageFrom(locations', msg.start_location))
              \/ /\ msg.type = "RouteRequest"
                 /\ msg' = RouteResponse(locations'[msg.start_location + 1],
                                         locations'[msg.end_location + 1])
              \/ msg' = Ended
<1>1. locations' \in Databases /\ locations' \in GetLocationNames(locations)
  BY DEF ServerHandles, GetLocationNames, SessionTypeOK
<1>2. CASE msg.type = "StatusRequest"
  BY <1>1, <1>2 DEF ServerHandles, Answered, HandleStatusRequestMsg
<1>3. CASE msg.type = "LocationsRequest"
  BY <1>1, <1>3 DEF ServerHandles, Answered, HandleLocationsRequestMsg, SessionTypeOK
<1>4. CASE msg.type = "RouteRequest"
  BY <1>1, <1>4 DEF ServerHandles, Answered, HandleRouteRequestMsg
<1> QED
  BY <1>2, <1>3, <1>4 DEF ServerHandles

(* What the client does with an answer, by its kind.                          *)
LEMMA ClientReplies ==
    ASSUME SessionTypeOK, ClientHandles
    PROVE  /\ locations' = locations /\ handler' \in Handlers
           /\ \/ /\ msg.type = "StatusResponse" /\ msg' = LocationsRequest(0)
                 /\ Cache' = <<>> /\ handler'.chosen = handler.chosen
              \/ /\ msg.type = "LocationsResponse"
                 /\ msg.page \in Pages /\ Cache' = Cache \o GetLocations(msg.page)
                 /\ handler'.chosen = handler.chosen
                 /\ msg' = IF msg.page.is_paginated THEN LocationsRequest(Len(Cache'))
                                                    ELSE Asking(Len(Cache'), Len(Cache'))
              \/ /\ msg.type = "RouteResponse" /\ msg' = LocationsRequest(0)
                 /\ Cache' = <<>> /\ handler'.chosen = <<>>
<1>0. /\ handler \in Handlers /\ Cache \in Seq(Names) /\ handler.chosen \in Seq(Names)
      /\ handler.cin \in {"good", "failed"}
  BY DEF SessionTypeOK, Handlers, Cache
<1>1. CASE msg.type = "StatusResponse"
  <2>1. handler' = [handler EXCEPT !.m_locations_cache = <<>>] /\ msg' = LocationsRequest(0)
    BY <1>1 DEF ClientHandles, Handled, HandleStatusResponseMsg, Result
  <2>2. <<>> \in Seq(Names)
    OBVIOUS
  <2>3. handler' \in Handlers /\ Cache' = <<>> /\ handler'.chosen = handler.chosen
    BY <1>0, <2>1, <2>2 DEF Handlers, Cache
  <2> QED
    BY <1>1, <2>1, <2>3 DEF ClientHandles
<1>2. CASE msg.type = "LocationsResponse"
  <2> DEFINE cache == Cache \o GetLocations(msg.page)
  <2>1. msg.page \in Pages /\ GetLocations(msg.page) \in Seq(Names)
    BY <1>2, GetLocationsType DEF SessionTypeOK
  <2>2. cache \in Seq(Names)
    BY <1>0, <2>1
  <2>3. /\ handler' = [handler EXCEPT !.m_locations_cache = cache]
        /\ msg' = IF msg.page.is_paginated THEN LocationsRequest(Len(cache))
                                           ELSE Asking(Len(cache), Len(cache))
    BY <1>2 DEF ClientHandles, Handled, HandleLocationsResponseMsg, Result, NextStart, Cache
  <2> HIDE DEF cache
  <2>4. handler' \in Handlers /\ Cache' = cache /\ handler'.chosen = handler.chosen
    BY <1>0, <2>2, <2>3 DEF Handlers, Cache
  <2> QED
    BY <1>2, <2>1, <2>3, <2>4 DEF ClientHandles, cache
<1>3. CASE msg.type = "RouteResponse"
  <2>1. /\ handler' = [handler EXCEPT !.m_locations_cache = <<>>, !.chosen = <<>>]
        /\ msg' = LocationsRequest(0)
    BY <1>3 DEF ClientHandles, Handled, HandleRouteResponseMsg, Result, ClearedCache
  <2>2. <<>> \in Seq(Names)
    OBVIOUS
  <2>3. handler' \in Handlers /\ Cache' = <<>> /\ handler'.chosen = <<>>
    BY <1>0, <2>1, <2>2 DEF Handlers, Cache
  <2> QED
    BY <1>3, <2>1, <2>3 DEF ClientHandles
<1> QED
  BY <1>1, <1>2, <1>3 DEF ClientHandles

(* What is typed is read as a number, whatever it is.                         *)
LEMMA EntryType ==
    ASSUME NEW entry \in Entries
    PROVE  /\ entry.value \in Nat
           /\ \/ entry.kind = "number"
              \/ entry.kind = "word" /\ entry.value = 0
              \/ entry.kind = "overflow" /\ entry.value = SizeMax
              \/ entry.kind = "end"
<1>1. entry \in {Number(k) : k \in 0 .. SizeMax} \cup {Word, TooBig, EndOfInput}
  BY EntriesAssumption
<1>2. CASE entry \in {Number(k) : k \in 0 .. SizeMax}
  BY <1>2 DEF Number
<1>3. CASE entry \in {Word, TooBig, EndOfInput}
  BY <1>3, EntriesAssumption DEF Word, TooBig, EndOfInput
<1> QED
  BY <1>1, <1>2, <1>3

(* The names chosen when the number k is read and leaves std::cin as it is.   *)
NowChosen(cin, k) ==
    IF cin = "good" /\ IsIndex(k, Cache) THEN Append(handler.chosen, Cache[k + 1])
                                         ELSE handler.chosen

(* A reading is one of the start location, or one of the end location.        *)
Reads(entry, s, e) ==
    \/ /\ ~IsIndex(msg.start_location, Cache)
       /\ s = Extracted(handler.cin, msg.start_location, entry) /\ e = msg.end_location
       /\ handler'.chosen = NowChosen(handler'.cin, s)
    \/ /\ IsIndex(msg.start_location, Cache)
       /\ s = msg.start_location /\ e = Extracted(handler.cin, msg.end_location, entry)
       /\ handler'.chosen = NowChosen(handler'.cin, e)

LEMMA UserEnters ==
    ASSUME SessionTypeOK, NEW entry \in Entries, Enter(entry)
    PROVE  /\ msg.type = "Asking" /\ locations' = locations /\ Cache' = Cache
           /\ handler' \in Handlers
           /\ handler'.cin = IF handler.cin = "good" THEN CinAfter(entry) ELSE handler.cin
           /\ \E s, e \in Nat :
                 /\ Reads(entry, s, e)
                 /\ msg' = IF IsIndex(s, Cache) /\ IsIndex(e, Cache)
                           THEN RouteRequest(s, e) ELSE Asking(s, e)
<1> DEFINE startAsked == ~IsIndex(msg.start_location, Cache)
           s == IF startAsked THEN Extracted(handler.cin, msg.start_location, entry)
                              ELSE msg.start_location
           e == IF startAsked THEN msg.end_location
                              ELSE Extracted(handler.cin, msg.end_location, entry)
           cin == IF IsRead(handler.cin, entry) THEN CinAfter(entry) ELSE handler.cin
           chosen == NowChosen(cin, IF startAsked THEN s ELSE e)
<1>1. /\ msg.type = "Asking" /\ locations' = locations
      /\ msg.start_location \in Nat /\ msg.end_location \in Nat
  BY DEF Enter, SessionTypeOK
<1>2. /\ handler \in Handlers /\ Cache \in Seq(Names) /\ handler.chosen \in Seq(Names)
      /\ handler.cin \in {"good", "failed"}
  BY DEF SessionTypeOK, Handlers, Cache
<1>3. s \in Nat /\ e \in Nat
  BY <1>1, EntryType DEF Extracted
<1>4. cin \in {"good", "failed"} /\ cin = IF handler.cin = "good" THEN CinAfter(entry) ELSE handler.cin
  BY <1>2 DEF CinAfter, IsRead
<1>5. \A k \in Nat : IsIndex(k, Cache) => Cache[k + 1] \in Names
  BY <1>2 DEF IsIndex
<1>6. chosen \in Seq(Names)
  <2>1. \A k \in Nat : NowChosen(cin, k) \in Seq(Names)
    BY <1>2, <1>5 DEF NowChosen
  <2> QED
    BY <1>3, <2>1
<1>7. /\ handler' = [handler EXCEPT !.cin = cin, !.chosen = chosen]
      /\ msg' = IF IsIndex(s, Cache) /\ IsIndex(e, Cache) THEN RouteRequest(s, e) ELSE Asking(s, e)
  BY <1>2 DEF Enter, GetRouteRequest, Result, Request, Chosen, NowChosen, Cache, Handlers
<1> HIDE DEF startAsked, s, e, cin, chosen
<1>8. /\ handler' \in Handlers /\ Cache' = Cache
      /\ handler'.cin = cin /\ handler'.chosen = chosen
  BY <1>2, <1>4, <1>6, <1>7 DEF Handlers, Cache
<1>9. Reads(entry, s, e)
  BY <1>8 DEF Reads, startAsked, s, e, chosen
<1> QED
  BY <1>1, <1>3, <1>4, <1>7, <1>8, <1>9

USE DEF StatusRequest, StatusResponse, LocationsRequest, LocationsResponse, RouteRequest,
        RouteResponse, Ended, Asking

-----------------------------------------------------------------------------
(* Types                                                                     *)

LEMMA InitTypes == SessionInit => SessionTypeOK
BY NewHandlerType DEF SessionInit, SessionTypeOK

LEMMA NextTypes == SessionTypeOK /\ [SessionNext]_sessionVars => SessionTypeOK'
<1> SUFFICES ASSUME SessionTypeOK, [SessionNext]_sessionVars PROVE SessionTypeOK'
  OBVIOUS
<1>1. CASE ServerHandles
  <2>1. ASSUME msg.type = "LocationsRequest", msg.start_location \in Nat,
               msg.start_location < Len(locations')
        PROVE  PageFrom(locations', msg.start_location) \in Pages
    BY <1>1, <2>1, ServerAnswers, DatabaseType, PageFromFits
  <2> QED
    BY <1>1, <2>1, ServerAnswers DEF SessionTypeOK
<1>2. CASE ClientHandles
  <2>1. Len(Cache') \in Nat
    <3>1. Cache' \in Seq(Names)
      BY <1>2, ClientReplies DEF Handlers, Cache
    <3> QED
      BY <3>1
  <2> QED
    BY <1>2, <2>1, ClientReplies DEF SessionTypeOK
<1>3. ASSUME NEW entry \in Entries, Enter(entry) PROVE SessionTypeOK'
  BY <1>3, UserEnters DEF SessionTypeOK
<1>4. CASE Exits
  BY <1>4, NewHandlerType DEF Exits, SessionTypeOK
<1>5. CASE OtherSessionLoads
  BY <1>5 DEF OtherSessionLoads, SessionTypeOK, GetLocationNames
<1>6. CASE UNCHANGED sessionVars
  BY <1>6 DEF sessionVars, SessionTypeOK
<1> QED
  BY <1>1, <1>2, <1>3, <1>4, <1>5, <1>6 DEF SessionNext

(* No page outgrows the message, for any names, lists and size of a page,     *)
(* also when the lists change between the requests.                           *)
THEOREM PagesFit == SessionSpec => []PageFits
<1>1. SessionTypeOK => PageFits
  BY DEF SessionTypeOK, PageFits, Pages
<1> QED
  BY <1>1, InitTypes, NextTypes, PTL DEF SessionSpec

-----------------------------------------------------------------------------
(* Requests                                                                  *)

LEMMA InitCache == SessionInit => CacheInv
BY EntriesAssumption DEF SessionInit, CacheInv, NewHandler, Cache

LEMMA NextCache ==
    ASSUME NamesAreWhole
    PROVE  SessionTypeOK /\ CacheInv /\ [SessionNext]_sessionVars => CacheInv'
<1> SUFFICES ASSUME SessionTypeOK, CacheInv, [SessionNext]_sessionVars PROVE CacheInv'
  OBVIOUS
<1>0. Cache \in Seq(Names) /\ Len(Cache) \in Nat /\ SizeMax \in Nat
  BY EntriesAssumption DEF SessionTypeOK, Handlers, Cache
<1>1. CASE ServerHandles
  <2>1. Cache' = Cache /\ Len(locations') <= SizeMax /\ locations' \in Seq(Names)
    BY <1>1, ServerAnswers, DatabaseType DEF Cache
  <2>2. ASSUME msg.type = "LocationsRequest", msg.start_location \in Nat,
               msg.start_location < Len(locations'),
               msg' = LocationsResponse(PageFrom(locations', msg.start_location))
        PROVE  Len(Cache) + Len(msg'.page.names) <= SizeMax
    <3> DEFINE page == PageFrom(locations', msg.start_location)
    <3>1. page \in Pages /\ Len(page.names) <= Len(locations') - msg.start_location
      BY <2>1, <2>2, PageFromFits
    <3>2. Len(page.names) \in Nat
      BY <3>1 DEF Pages
    <3>3. msg.start_location = Len(Cache) /\ msg'.page = page
      BY <2>2 DEF CacheInv
    <3>4. Len(locations') \in Nat
      BY <2>1
    <3> HIDE DEF page
    <3> QED
      BY <1>0, <2>1, <3>1, <3>2, <3>3, <3>4
  <2> QED
    BY <1>1, <2>1, <2>2, ServerAnswers DEF CacheInv
<1>2. CASE ClientHandles
  <2>1. ASSUME msg.type = "LocationsResponse", msg.page \in Pages,
               Cache' = Cache \o GetLocations(msg.page)
        PROVE  Len(Cache') <= SizeMax
    <3>1. GetLocations(msg.page) = msg.page.names /\ msg.page.names \in Seq(Names)
      BY <2>1, GetLocationsReads DEF Pages
    <3>2. Len(Cache) + Len(msg.page.names) <= SizeMax
      BY <2>1 DEF CacheInv
    <3>3. Len(Cache') = Len(Cache) + Len(msg.page.names)
      BY <1>0, <2>1, <3>1
    <3> QED
      BY <3>2, <3>3
  <2>2. Len(<<>>) = 0
    OBVIOUS
  <2> QED
    BY <1>0, <1>2, <2>1, <2>2, ClientReplies DEF CacheInv
<1>3. ASSUME NEW entry \in Entries, Enter(entry) PROVE CacheInv'
  BY <1>3, UserEnters DEF CacheInv
<1>4. CASE Exits
  BY <1>0, <1>4 DEF Exits, CacheInv, NewHandler, Cache
<1>5. CASE OtherSessionLoads
  BY <1>5 DEF OtherSessionLoads, CacheInv, Cache
<1>6. CASE UNCHANGED sessionVars
  BY <1>6 DEF sessionVars, CacheInv, Cache
<1> QED
  BY <1>1, <1>2, <1>3, <1>4, <1>5, <1>6 DEF SessionNext

LEMMA InitChoice == SessionInit => ChoiceInv
BY DEF SessionInit, ChoiceInv, NewHandler, RequestIsTheUsers

LEMMA SecondChoice ==
    ASSUME NEW m \in Names, NEW n \in Names
    PROVE  Append(<<m>>, n) = <<m, n>>
<1>1. <<m>> \in Seq(Names) /\ Len(<<m>>) = 1
  OBVIOUS
<1>2. <<m, n>> = [i \in 1 .. 2 |-> IF i = 1 THEN m ELSE n]
  OBVIOUS
<1>3. Append(<<m>>, n) = [i \in 1 .. 2 |-> IF i = 1 THEN m ELSE n]
  BY <1>1
<1> QED
  BY <1>2, <1>3

(* The numbers of a request are those typed, but for a word after the first.  *)
LEMMA EnterChoice ==
    ASSUME SessionTypeOK, CacheInv, ChoiceInv, NEW entry \in Entries, Enter(entry)
    PROVE  ChoiceInv'
<1>0. /\ Cache \in Seq(Names) /\ Len(Cache) \in Nat /\ Len(Cache) <= SizeMax /\ SizeMax \in Nat
      /\ handler.cin \in {"good", "failed"} /\ handler.chosen \in Seq(Names)
  BY EntriesAssumption DEF SessionTypeOK, Handlers, Cache, CacheInv
<1>1. /\ msg.type = "Asking" /\ Cache' = Cache
      /\ handler'.cin = IF handler.cin = "good" THEN CinAfter(entry) ELSE handler.cin
  BY UserEnters
<1>2. PICK s, e \in Nat :
         /\ Reads(entry, s, e)
         /\ msg' = IF IsIndex(s, Cache) /\ IsIndex(e, Cache) THEN RouteRequest(s, e) ELSE Asking(s, e)
  BY UserEnters
<1>3. /\ ~IsIndex(msg.end_location, Cache) /\ ~IsIndex(SizeMax, Cache)
      /\ handler.cin = "good" =>
            handler.chosen = IF IsIndex(msg.start_location, Cache)
                             THEN <<Cache[msg.start_location + 1]>> ELSE <<>>
  BY <1>0, <1>1 DEF ChoiceInv, IsIndex
<1>4. handler'.cin = "good" => handler.cin = "good" /\ entry.kind = "number"
  BY <1>0, <1>1 DEF CinAfter
<1>5. CASE /\ ~IsIndex(msg.start_location, Cache)
           /\ e = msg.end_location /\ handler'.chosen = NowChosen(handler'.cin, s)
  <2>1. msg' = Asking(s, e)
    BY <1>2, <1>3, <1>5
  <2>2. ASSUME handler'.cin = "good"
        PROVE  handler'.chosen = IF IsIndex(s, Cache) THEN <<Cache[s + 1]>> ELSE <<>>
    <3>1. handler.chosen = <<>>
      BY <1>3, <1>4, <1>5, <2>2
    <3>2. \A n \in Names : Append(<<>>, n) = <<n>>
      OBVIOUS
    <3>3. IsIndex(s, Cache) => Cache[s + 1] \in Names
      BY <1>0 DEF IsIndex
    <3> QED
      BY <1>5, <2>2, <3>1, <3>2, <3>3, Zenon DEF NowChosen
  <2> QED
    BY <1>1, <1>3, <1>5, <2>1, <2>2 DEF ChoiceInv, RequestIsTheUsers
<1>6. CASE /\ IsIndex(msg.start_location, Cache) /\ s = msg.start_location
           /\ e = Extracted(handler.cin, msg.end_location, entry)
           /\ handler'.chosen = NowChosen(handler'.cin, e)
  <2> DEFINE start == Cache[s + 1]
  <2>1. handler.cin = "good" => handler.chosen = <<start>>
    BY <1>3, <1>6
  <2>2. CASE IsIndex(e, Cache)
    <3>1. handler.cin = "good" /\ entry.kind # "end" /\ e = entry.value
      BY <1>3, <1>6, <2>2 DEF Extracted, IsRead
    <3>2. msg' = RouteRequest(s, e)
      BY <1>2, <1>6, <2>2
    <3>3. CASE handler'.cin = "good"
      <4>1. handler'.chosen = Append(handler.chosen, Cache[e + 1])
        BY <1>6, <2>2, <3>3 DEF NowChosen
      <4>2. handler'.chosen = <<start, Cache[e + 1]>>
        <5>1. start \in Names /\ Cache[e + 1] \in Names
          BY <1>0, <1>6, <2>2 DEF IsIndex
        <5> HIDE DEF start
        <5> QED
          BY <2>1, <3>1, <4>1, <5>1, SecondChoice, Zenon
      <4> QED
        BY <1>1, <1>6, <2>2, <3>2, <3>3, <4>2 DEF ChoiceInv, RequestIsTheUsers, Cache
    <3>4. CASE handler'.cin # "good"
      <4>1. entry.kind # "number"
        BY <1>1, <3>1, <3>4 DEF CinAfter
      <4>2. e = 0
        BY <1>3, <2>2, <3>1, <4>1, EntryType
      <4>3. handler'.chosen = <<start>>
        BY <1>6, <2>1, <3>1, <3>4 DEF NowChosen
      <4> QED
        BY <1>1, <1>6, <2>2, <3>2, <3>4, <4>2, <4>3 DEF ChoiceInv, RequestIsTheUsers, Cache
    <3> QED
      BY <3>3, <3>4
  <2>3. CASE ~IsIndex(e, Cache)
    <3>1. msg' = Asking(s, e)
      BY <1>2, <2>3
    <3>2. handler'.chosen = handler.chosen
      BY <1>6, <2>3 DEF NowChosen
    <3> QED
      BY <1>1, <1>4, <1>6, <2>1, <2>3, <3>1, <3>2 DEF ChoiceInv, RequestIsTheUsers
  <2> QED
    BY <2>2, <2>3
<1> QED
  BY <1>2, <1>5, <1>6 DEF Reads

LEMMA NextChoice ==
    SessionTypeOK /\ CacheInv /\ ChoiceInv /\ [SessionNext]_sessionVars => ChoiceInv'
<1> SUFFICES ASSUME SessionTypeOK, CacheInv, ChoiceInv, [SessionNext]_sessionVars
             PROVE  ChoiceInv'
  OBVIOUS
<1>1. CASE ServerHandles
  BY <1>1, ServerAnswers DEF ChoiceInv, RequestIsTheUsers
<1>2. CASE ClientHandles
  <2>1. Cache' \in Seq(Names) /\ ~(Len(Cache') < Len(Cache'))
    <3>1. Cache' \in Seq(Names)
      BY <1>2, ClientReplies DEF Handlers, Cache
    <3> QED
      BY <3>1
  <2> QED
    BY <1>2, <2>1, ClientReplies DEF ChoiceInv, RequestIsTheUsers, IsIndex
<1>3. ASSUME NEW entry \in Entries, Enter(entry) PROVE ChoiceInv'
  BY <1>3, EnterChoice
<1>4. CASE Exits
  BY <1>4 DEF Exits, ChoiceInv, RequestIsTheUsers
<1>5. CASE OtherSessionLoads
  BY <1>5 DEF OtherSessionLoads, ChoiceInv, RequestIsTheUsers
<1>6. CASE UNCHANGED sessionVars
  BY <1>6 DEF sessionVars, ChoiceInv, RequestIsTheUsers, Cache
<1> QED
  BY <1>1, <1>2, <1>3, <1>4, <1>5, <1>6 DEF SessionNext

(* A request asks for what the user has typed, but for a word in the place of *)
(* the end location, for any lists - changed or not - and any input.          *)
THEOREM RequestsAreTheUsers ==
    ASSUME NamesAreWhole
    PROVE  SessionSpec => []RequestIsTheUsers
<1>1. SessionInit => SessionTypeOK /\ CacheInv /\ ChoiceInv
  BY InitTypes, InitCache, InitChoice
<1>2. SessionTypeOK /\ CacheInv /\ ChoiceInv /\ [SessionNext]_sessionVars
        => SessionTypeOK' /\ CacheInv' /\ ChoiceInv'
  BY NextTypes, NextCache, NextChoice
<1>3. ChoiceInv => RequestIsTheUsers
  BY DEF ChoiceInv
<1> QED
  BY <1>1, <1>2, <1>3, PTL DEF SessionSpec

-----------------------------------------------------------------------------
(* Paging                                                                    *)

(* The places at which the pages of a list without gaps start.                *)
PageStarts(list) == CHOOSE starts \in SUBSET (0 .. Len(list)) : PagesStartAt(list, starts)

(* What the client has received is the beginning of the list, a page goes on  *)
(* where it ends, and the next one has no gaps either.                        *)
Received(end) == end \in PageStarts(locations) /\ Cache = SubSeq(locations, 1, Len(Cache))

GoesOn(page, j) ==
    /\ Len(Cache) + j <= Len(locations)
    /\ page.names = SubSeq(locations, Len(Cache) + 1, Len(Cache) + j)
    /\ IF page.is_paginated THEN Len(Cache) + j \in PageStarts(locations)
                            ELSE Len(Cache) + j = Len(locations)

OfferInv ==
    /\ msg.type \in {"LocationsRequest", "LocationsResponse"} => Received(Len(Cache))
    /\ msg.type = "LocationsResponse" => \E j \in Nat : GoesOn(msg.page, j)
    /\ msg.type \in {"Asking", "RouteRequest"} => Cache = locations
    /\ CostIsForChosenRoute

LEMMA PageStartsAreChosen ==
    ASSUME GaplessLists, NEW list \in Databases
    PROVE  PageStarts(list) \in SUBSET (0 .. Len(list)) /\ PagesStartAt(list, PageStarts(list))
BY DEF GaplessLists, PageStarts

(* A list in the order of the widths of its names is one: no page of it has   *)
(* gaps, wherever it starts.                                                  *)
Sorted(list) == \A i, j \in DOMAIN list : i < j => Width[list[i]] <= Width[list[j]]

LEMMA SortedIsGapless ==
    ASSUME NEW list \in Seq(Names), Sorted(list)
    PROVE  Gapless(list)
<1> SUFFICES ASSUME NEW i \in 1 .. Len(list), NEW j \in 1 .. Len(list), i < j,
                    NEW page, page = FoldLeft(AddLocation, EmptyPage, SubSeq(list, 1, i - 1)),
                    page.char_count + Width[list[i]] >= MaxChars
             PROVE  page.char_count + Width[list[j]] >= MaxChars
  BY Zenon DEF Gapless
<1>1. PICK f : Filled(f, list)
  BY PageIsFilled
<1>2. i - 1 \in 0 .. Len(list)
  OBVIOUS
<1>3. page \in Pages
  <2>1. f[i - 1] \in Pages
    BY <1>1, <1>2, FilledFits
  <2> QED
    BY <1>1, <1>2, <2>1, FilledBefore
<1>4. page.char_count \in Nat
  BY <1>3, PageAssumption DEF Pages
<1>5. Width[list[i]] \in Nat /\ Width[list[j]] \in Nat /\ Width[list[i]] <= Width[list[j]]
  BY NameWidthAssumption DEF Sorted
<1> QED
  BY <1>4, <1>5, PageAssumption

LEMMA SortedListsAreGapless ==
    ASSUME \A list \in Databases : Sorted(list)
    PROVE  GaplessLists
<1> SUFFICES ASSUME NEW list \in Databases
             PROVE  PagesStartAt(list, 0 .. Len(list))
  BY Zenon DEF GaplessLists
<1>1. list \in Seq(Names) /\ Len(list) \in Nat /\ Sorted(list)
  BY DatabaseType
<1>2. ASSUME NEW start \in 0 .. Len(list)
      PROVE  Gapless(SubSeq(list, start + 1, Len(list)))
  <2> DEFINE seq == SubSeq(list, start + 1, Len(list))
  <2>1. /\ seq \in Seq(Names) /\ DOMAIN seq = 1 .. Len(list) - start
        /\ \A i \in DOMAIN seq : seq[i] = list[start + i] /\ start + i \in DOMAIN list
    BY <1>1
  <2> HIDE DEF seq
  <2>2. Sorted(seq)
    <3> SUFFICES ASSUME NEW i \in DOMAIN seq, NEW j \in DOMAIN seq, i < j
                 PROVE  Width[seq[i]] <= Width[seq[j]]
      BY DEF Sorted
    <3>1. start + i < start + j
      BY <1>1, <2>1
    <3>2. Width[list[start + i]] <= Width[list[start + j]]
      BY <1>1, <2>1, <3>1 DEF Sorted
    <3> QED
      BY <2>1, <3>2
  <2> QED
    BY <2>1, <2>2, SortedIsGapless DEF seq
<1>3. ASSUME NEW start \in 0 .. Len(list)
      PROVE  start + Len(PageFrom(list, start).names) \in 0 .. Len(list)
  <2> DEFINE names == PageFrom(list, start).names
  <2>1. start \in Nat /\ start <= Len(list)
    BY <1>1
  <2>2. names \in Seq(Names) /\ Len(names) <= Len(list) - start
    BY <1>1, <2>1, PageFromFits DEF Pages
  <2> HIDE DEF names
  <2>3. Len(names) \in Nat
    BY <2>2
  <2>4. start + Len(names) \in 0 .. Len(list)
    BY <1>1, <2>1, <2>2, <2>3
  <2> QED
    BY <2>4 DEF names
<1>4. 0 \in 0 .. Len(list)
  BY <1>1
<1> QED
  BY <1>2, <1>3, <1>4, Zenon DEF PagesStartAt

(* A page that starts where one may goes on with the list up to where the     *)
(* next one starts.                                                           *)
LEMMA NextPage ==
    ASSUME GaplessLists, NEW list \in Databases,
           NEW start \in PageStarts(list), start < Len(list)
    PROVE  LET page == PageFrom(list, start) IN
           \E j \in Nat :
              /\ start + j <= Len(list)
              /\ page.names = SubSeq(list, start + 1, start + j)
              /\ IF page.is_paginated THEN start + j \in PageStarts(list)
                                      ELSE start + j = Len(list)
<1> DEFINE page == PageFrom(list, start)
           seq == SubSeq(list, start + 1, Len(list))
<1>1. list \in Seq(Names) /\ Len(list) \in Nat
  BY DatabaseType
<1>2. start \in 0 .. Len(list) /\ PagesStartAt(list, PageStarts(list))
  BY PageStartsAreChosen
<1>3. Gapless(seq) /\ (page.is_paginated => start + Len(page.names) \in PageStarts(list))
  BY <1>2 DEF PagesStartAt
<1>4. seq \in Seq(Names) /\ Len(seq) = Len(list) - start
  BY <1>1, <1>2
<1>5. page = FoldLeft(AddLocation, EmptyPage, seq)
  BY DEF PageFrom
<1>6. PICK j \in 0 .. Len(seq) : HoldsFirst(page, seq, Len(seq), j)
  <2> HIDE DEF seq, page
  <2> QED
    BY <1>3, <1>4, <1>5, GaplessPage
<1>7. page.names = SubSeq(seq, 1, j) /\ (page.is_paginated <=> j < Len(seq))
  BY <1>6 DEF HoldsFirst
<1>8. SubSeq(seq, 1, j) = SubSeq(list, start + 1, start + j) /\ Len(SubSeq(seq, 1, j)) = j
  BY <1>1, <1>2, <1>4, <1>6
<1> HIDE DEF page, seq
<1>9. page.is_paginated => start + j \in PageStarts(list)
  BY <1>3, <1>7, <1>8
<1>10. ~page.is_paginated => start + j = Len(list)
  BY <1>1, <1>2, <1>4, <1>6, <1>7
<1>11. j \in Nat /\ start + j <= Len(list)
  BY <1>1, <1>2, <1>4, <1>6
<1> QED
  BY <1>7, <1>8, <1>9, <1>10, <1>11 DEF page

LEMMA InitOffer == SessionInit => OfferInv
BY DEF SessionInit, OfferInv, CostIsForChosenRoute

LEMMA ServerOffers ==
    ASSUME GaplessLists, SessionTypeOK, CacheInv, ChoiceInv, OfferInv, ServerHandles,
           locations' = locations
    PROVE  OfferInv'
<1>0. Cache' = Cache /\ handler' = handler /\ locations \in Databases
  BY ServerAnswers DEF Cache, SessionTypeOK
<1>1. ASSUME msg.type = "LocationsRequest", msg.start_location \in Nat,
             msg.start_location < Len(locations),
             msg' = LocationsResponse(PageFrom(locations, msg.start_location))
      PROVE  OfferInv'
  <2>1. msg.start_location = Len(Cache) /\ Received(Len(Cache))
    BY <1>1 DEF CacheInv, OfferInv
  <2>2. \E j \in Nat : GoesOn(msg'.page, j)
    <3>1. msg'.page = PageFrom(locations, Len(Cache)) /\ Len(Cache) < Len(locations)
      BY <1>1, <2>1
    <3> QED
      BY <1>0, <2>1, <3>1, NextPage DEF GoesOn, Received
  <2> QED
    BY <1>0, <1>1, <2>1, <2>2 DEF OfferInv, Received, GoesOn, CostIsForChosenRoute
<1>2. ASSUME msg.type = "RouteRequest",
             msg' = RouteResponse(locations[msg.start_location + 1],
                                  locations[msg.end_location + 1])
      PROVE  OfferInv'
  <2>1. Cache = locations
    BY <1>2 DEF OfferInv
  <2>2. handler.cin = "good" =>
           handler.chosen = <<Cache[msg.start_location + 1], Cache[msg.end_location + 1]>>
    BY <1>2 DEF ChoiceInv, RequestIsTheUsers, Cache
  <2>3. CostIsForChosenRoute'
    BY <1>0, <1>2, <2>1, <2>2 DEF CostIsForChosenRoute
  <2> QED
    BY <1>2, <2>3 DEF OfferInv
<1>3. ASSUME msg' = StatusResponse \/ msg' = Ended PROVE OfferInv'
  BY <1>3 DEF OfferInv, CostIsForChosenRoute
<1> QED
  BY <1>1, <1>2, <1>3, ServerAnswers

LEMMA ClientReceives ==
    ASSUME NamesAreWhole, GaplessLists, SessionTypeOK, OfferInv, ClientHandles
    PROVE  OfferInv'
<1>0. /\ locations' = locations /\ locations \in Databases
      /\ locations \in Seq(Names) /\ Len(locations) \in Nat
      /\ Cache \in Seq(Names) /\ Len(Cache) \in Nat
  BY ClientReplies, DatabaseType DEF SessionTypeOK, Handlers, Cache
<1>1. ASSUME Cache' = <<>>, msg' = LocationsRequest(0) PROVE OfferInv'
  <2>1. 0 \in PageStarts(locations)
    BY <1>0, PageStartsAreChosen DEF PagesStartAt
  <2>2. Len(<<>>) = 0 /\ <<>> = SubSeq(locations, 1, 0)
    BY <1>0
  <2>3. Received(Len(Cache))'
    BY <1>0, <1>1, <2>1, <2>2 DEF Received
  <2> QED
    BY <1>1, <2>3 DEF OfferInv, CostIsForChosenRoute
<1>2. ASSUME msg.type = "LocationsResponse", msg.page \in Pages,
             Cache' = Cache \o GetLocations(msg.page),
             msg' = IF msg.page.is_paginated THEN LocationsRequest(Len(Cache'))
                                             ELSE Asking(Len(Cache'), Len(Cache'))
      PROVE  OfferInv'
  <2>1. PICK j \in Nat : GoesOn(msg.page, j)
    BY <1>2 DEF OfferInv
  <2>2. Cache' = Cache \o msg.page.names
    BY <1>2, GetLocationsReads
  <2> DEFINE k == Len(Cache)
             n == k + j
  <2>3. /\ k \in Nat /\ n \in Nat /\ k <= n /\ n <= Len(locations)
        /\ Cache = SubSeq(locations, 1, k)
        /\ msg.page.names = SubSeq(locations, k + 1, n)
    <3>1. k + j <= Len(locations)
      BY <2>1 DEF GoesOn
    <3>2. Received(k)
      BY <1>2 DEF OfferInv
    <3>3. msg.page.names = SubSeq(locations, k + 1, k + j)
      BY <2>1 DEF GoesOn
    <3>4. Cache = SubSeq(locations, 1, k)
      BY <3>2 DEF Received
    <3> QED
      BY <1>0, <2>1, <3>1, <3>3, <3>4
  <2>4. SubSeq(locations, 1, k) \o SubSeq(locations, k + 1, n) = SubSeq(locations, 1, n)
    <3> HIDE DEF k, n
    <3> QED
      BY <1>0, <2>3
  <2>5. Cache' = SubSeq(locations, 1, n) /\ Len(SubSeq(locations, 1, n)) = n
    <3>1. Len(SubSeq(locations, 1, n)) = n
      <4> HIDE DEF k, n
      <4> QED
        BY <1>0, <2>3
    <3> DEFINE head == SubSeq(locations, 1, k)
               rest == SubSeq(locations, k + 1, n)
               whole == SubSeq(locations, 1, n)
    <3>2. Cache = head /\ msg.page.names = rest
      BY <2>3
    <3>3. head \o rest = whole
      BY <2>4
    <3> HIDE DEF head, rest, whole
    <3>4. Cache' = whole
      BY <2>2, <3>2, <3>3
    <3> QED
      BY <3>1, <3>4 DEF whole
  <2>6. CASE msg.page.is_paginated
    <3>1. n \in PageStarts(locations)
      BY <2>1, <2>6 DEF GoesOn
    <3> HIDE DEF n, k
    <3>2. Received(Len(Cache))'
      BY <1>0, <2>5, <3>1 DEF Received
    <3> QED
      BY <1>2, <2>6, <3>2 DEF OfferInv, CostIsForChosenRoute
  <2>7. CASE ~msg.page.is_paginated
    <3>1. n = Len(locations)
      BY <2>1, <2>7 DEF GoesOn
    <3> HIDE DEF n, k
    <3>2. SubSeq(locations, 1, Len(locations)) = locations
      BY <1>0
    <3>3. Cache' = locations'
      BY <1>0, <2>5, <3>1, <3>2
    <3> QED
      BY <1>2, <2>7, <3>3 DEF OfferInv, CostIsForChosenRoute
  <2> QED
    BY <2>6, <2>7
<1> QED
  BY <1>1, <1>2, ClientReplies

LEMMA NextOffer ==
    ASSUME NamesAreWhole, GaplessLists, ~Edited
    PROVE  SessionTypeOK /\ CacheInv /\ ChoiceInv /\ OfferInv /\ [SessionNext]_sessionVars
              => OfferInv'
<1> SUFFICES ASSUME SessionTypeOK, CacheInv, ChoiceInv, OfferInv, [SessionNext]_sessionVars
             PROVE  OfferInv'
  OBVIOUS
<1>1. CASE ServerHandles
  <2>1. locations' = locations
    BY <1>1, ServerAnswers DEF GetLocationNames
  <2> QED
    BY <1>1, <2>1, ServerOffers
<1>2. CASE ClientHandles
  BY <1>2, ClientReceives
<1>3. ASSUME NEW entry \in Entries, Enter(entry) PROVE OfferInv'
  BY <1>3, UserEnters DEF OfferInv, CostIsForChosenRoute
<1>4. CASE Exits
  BY <1>4 DEF Exits, OfferInv, CostIsForChosenRoute
<1>5. CASE OtherSessionLoads
  BY <1>5 DEF OtherSessionLoads, GetLocationNames, OfferInv, CostIsForChosenRoute
<1>6. CASE UNCHANGED sessionVars
  BY <1>6 DEF sessionVars, OfferInv, Received, GoesOn, CostIsForChosenRoute, Cache
<1> QED
  BY <1>1, <1>2, <1>3, <1>4, <1>5, <1>6 DEF SessionNext

LEMMA OfferInvariance ==
    ASSUME NamesAreWhole, GaplessLists, ~Edited
    PROVE  SessionSpec => []OfferInv
<1>1. SessionInit => SessionTypeOK /\ CacheInv /\ ChoiceInv /\ OfferInv
  BY InitTypes, InitCache, InitChoice, InitOffer
<1>2. SessionTypeOK /\ CacheInv /\ ChoiceInv /\ OfferInv /\ [SessionNext]_sessionVars
        => SessionTypeOK' /\ CacheInv' /\ ChoiceInv' /\ OfferInv'
  BY NextTypes, NextCache, NextChoice, NextOffer
<1> QED
  BY <1>1, <1>2, PTL DEF SessionSpec

(* The user is offered the server's whole list, in its order, when its files  *)
(* are left alone and its pages have no gaps.                                 *)
THEOREM EveryLocationIsOffered ==
    ASSUME NamesAreWhole, GaplessLists, ~Edited
    PROVE  SessionSpec => []AllAreOffered
<1>1. OfferInv => AllAreOffered
  BY DEF OfferInv, AllAreOffered, Cache
<1> QED
  BY <1>1, OfferInvariance, PTL

(* And the cost that is shown is that of the route between the locations the  *)
(* user has chosen.                                                           *)
THEOREM CostIsOfTheChosenRoute ==
    ASSUME NamesAreWhole, GaplessLists, ~Edited
    PROVE  SessionSpec => []CostIsForChosenRoute
<1>1. OfferInv => CostIsForChosenRoute
  BY DEF OfferInv
<1> QED
  BY <1>1, OfferInvariance, PTL

(* So it is with all lists in the order of the widths of their names.         *)
THEOREM SortedListsAreOffered ==
    ASSUME NamesAreWhole, \A list \in Databases : Sorted(list), ~Edited
    PROVE  SessionSpec => [](AllAreOffered /\ CostIsForChosenRoute)
<1>1. GaplessLists
  BY SortedListsAreGapless
<1>2. OfferInv => AllAreOffered /\ CostIsForChosenRoute
  BY DEF OfferInv, AllAreOffered, Cache
<1> QED
  BY <1>1, <1>2, OfferInvariance, PTL
=============================================================================
