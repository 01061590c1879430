-------------------------- MODULE RecordingProofs --------------------------
(***************************************************************************)
(* Proofs about the files that are written: the path a rotation leaves     *)
(* behind, the journal of orders, and the file of a tick writer with the   *)
(* index and the store that read it, for every number of records, every    *)
(* flush of the operating system and a crash at any moment.                *)
(***************************************************************************)
EXTENDS DataFiles, FiniteSetTheorems, TLAPS

------------------------------------------------------------------------------
\* Induction, and functions defined by recursion.

\* A set of numbers that is not empty has a least one.
LEMMA LeastNumber ==
    ASSUME NEW T \in SUBSET Nat, T # {}
    PROVE  \E n \in T : \A m \in T : n <= m
<1> DEFINE R == {ss \in Nat \X Nat : ss[1] < ss[2]}
<1>1. IsWellFoundedOn(R, Nat)
  BY NatLessThanWellFounded DEF OpToRel
<1>2. PICK n \in T : \A m \in T : ~ (<<m, n>> \in R)
  <2> HIDE DEF R
  <2> QED
    BY <1>1, WFMin, Zenon
<1>3. \A m \in T : n <= m
  <2> TAKE m \in T
  <2>1. ~ (<<m, n>> \in R)
    BY <1>2
  <2> QED
    BY <2>1
<1> QED
  BY <1>3

\* Min of numbers is the least of them.
LEMMA MinIs ==
    ASSUME NEW T \in SUBSET Nat, T # {}
    PROVE  Min(T) \in T /\ \A y \in T : Min(T) <= y
<1>1. \E n \in T : \A m \in T : n <= m
  BY LeastNumber, Zenon
<1> QED
  BY <1>1, Zenon DEF Min

\* A set that has 0 and with n < top also n + 1 has every number up to top.
LEMMA Induction ==
    ASSUME NEW top \in Nat, NEW P, 0 \in P,
           \A n \in Nat : n \in P /\ n < top => n + 1 \in P
    PROVE  \A n \in 0 .. top : n \in P
<1> SUFFICES ASSUME (0 .. top) \ P # {} PROVE FALSE
  OBVIOUS
<1> DEFINE T == (0 .. top) \ P
<1>1. PICK n \in T : \A m \in T : n <= m
  <2>1. T \in SUBSET Nat /\ T # {}
    OBVIOUS
  <2> HIDE DEF T
  <2> QED
    BY <2>1, LeastNumber, Zenon
<1>2. n # 0 /\ n - 1 \in Nat /\ n - 1 \in P /\ n - 1 < top
  BY <1>1
<1> QED
  BY <1>1, <1>2

\* f starts with base and goes on by step.
Iterates(f, S, base, step, top) ==
    /\ f \in [0 .. top -> S]
    /\ f[0] = base
    /\ \A n \in 1 .. top : f[n] = step[n][f[n - 1]]

\* A function on 0 .. top may be defined by its first value and a step.
LEMMA Recursion ==
    ASSUME NEW top \in Nat, NEW S, NEW base \in S, NEW step,
           \A n \in 1 .. top : step[n] \in [S -> S]
    PROVE  \E f : Iterates(f, S, base, step, top)
<1> DEFINE P == {n \in 0 .. top : \E f : Iterates(f, S, base, step, n)}
<1>1. 0 \in P
  <2> DEFINE f == [n \in 0 .. 0 |-> base]
  <2>1. Iterates(f, S, base, step, 0)
    BY DEF Iterates
  <2> HIDE DEF f
  <2> QED
    BY <2>1
<1>2. ASSUME NEW n \in Nat, n \in P, n < top
      PROVE  n + 1 \in P
  <2>1. PICK f : Iterates(f, S, base, step, n)
    BY <1>2
  <2> DEFINE g == [i \in 0 .. n + 1 |-> IF i = n + 1 THEN step[n + 1][f[n]] ELSE f[i]]
  <2>2. f[n] \in S /\ step[n + 1] \in [S -> S] /\ f \in [0 .. n -> S]
    BY <1>2, <2>1 DEF Iterates
  <2>3. g \in [0 .. n + 1 -> S] /\ g[0] = base
    BY <2>1, <2>2 DEF Iterates
  <2>4. ASSUME NEW i \in 1 .. n + 1 PROVE g[i] = step[i][g[i - 1]]
    <3>1. CASE i = n + 1
      BY <3>1
    <3>2. CASE i # n + 1
      <4>1. g[i] = f[i] /\ g[i - 1] = f[i - 1] /\ i \in 1 .. n
        BY <3>2
      <4> QED
        BY <2>1, <4>1 DEF Iterates
    <3> QED
      BY <3>1, <3>2
  <2>5. Iterates(g, S, base, step, n + 1)
    <3> HIDE DEF g
    <3> QED
      BY <2>3, <2>4, Zenon DEF Iterates
  <2> HIDE DEF g
  <2> QED
    BY <1>2, <2>5
<1>3. top \in P
  <2> HIDE DEF P
  <2>1. \A n \in 0 .. top : n \in P
    BY <1>1, <1>2, Induction, Zenon
  <2> QED
    BY <2>1
<1> QED
  BY <1>3

------------------------------------------------------------------------------
\* The three parts move one at a time.

\* A step is a step of one part; the others stand still.
LEMMA PartsMove ==
    ASSUME [DataNext]_data_vars
    PROVE  /\ [RotationNext]_rotation_vars
           /\ [JournalNext]_journal_vars
           /\ RecordStep \/ ReplayStep \/ UNCHANGED vars
  BY Zenon DEF DataNext, data_vars

------------------------------------------------------------------------------
\* The daily directories.

RotationInv ==
    /\ day \in 0 .. MaxDay /\ path \in -1 .. MaxDay
    /\ last_day \in -1 .. Month - 1 /\ dirs \subseteq 0 .. MaxDay
    /\ PathIsThere

\* A step of the rotation keeps RotationInv: cleanup only takes directories
\* that are retention_days old.
LEMMA RotationStep ==
    ASSUME RotationInv, [RotationNext]_rotation_vars
    PROVE  RotationInv'
<1>1. ASSUME NEW n \in 1 .. Month + 1, DaysPass(n)
      PROVE  RotationInv'
  BY <1>1, CalendarAssumption DEF DaysPass, RotationInv, PathIsThere
<1>2. CASE Poll
  <2>1. CASE needs_rotation
    <3>1. day' = day /\ path' = day /\ last_day' = tm_mday(day) /\ dirs' = dirs \cup {day}
      BY <1>2, <2>1, Zenon DEF Poll, current_path
    <3>2. tm_mday(day) \in 0 .. Month - 1
      BY CalendarAssumption DEF tm_mday, RotationInv
    <3> QED
      BY <3>1, <3>2, CalendarAssumption DEF RotationInv, PathIsThere
  <2>2. CASE ~needs_rotation
    <3>1. day' = day /\ path' = path /\ last_day' = last_day /\ dirs' = dirs
      BY <1>2, <2>2 DEF Poll
    <3> QED
      BY <3>1, Zenon DEF RotationInv, PathIsThere
  <2> QED
    BY <2>1, <2>2
<1>3. CASE cleanup
  <2>1. UNCHANGED <<day, last_day, path>> /\ dirs' = {d \in dirs : ~(d <= day - retention_days)}
    BY <1>3, Zenon DEF cleanup, Expired
  <2>2. dirs' \subseteq dirs
    BY <2>1, Zenon
  <2>3. path >= 0 /\ day - path < retention_days => path \in dirs'
    <3>1. path \in Int /\ day \in Int /\ retention_days \in Int
      BY CalendarAssumption DEF RotationInv
    <3>2. day - path < retention_days => ~(path <= day - retention_days)
      BY <3>1
    <3> QED
      BY <2>1, <3>2, Zenon DEF RotationInv, PathIsThere
  <2> QED
    BY <2>1, <2>2, <2>3, Zenon DEF RotationInv, PathIsThere
<1>4. CASE UNCHANGED rotation_vars
  BY <1>4, Zenon DEF rotation_vars, RotationInv, PathIsThere
<1> QED
  BY <1>1, <1>2, <1>3, <1>4 DEF RotationNext

\* RotationInv holds always.
LEMMA RotationHolds == DataSpec => []RotationInv
<1>1. DataInit => RotationInv
  BY CalendarAssumption DEF DataInit, RotationInit, RotationInv, PathIsThere
<1>2. RotationInv /\ [DataNext]_data_vars => RotationInv'
  BY PartsMove, RotationStep
<1> QED
  BY <1>1, <1>2, PTL DEF DataSpec

\* The directory of the path in use is there until it is retention_days old,
\* whatever the client polls and cleans up (rotation.cpp: current_path,
\* rotate and cleanup).
THEOREM PathCorrect == DataSpec => []PathIsThere
<1>1. RotationInv => PathIsThere
  BY DEF RotationInv
<1> QED
  BY <1>1, RotationHolds, PTL

------------------------------------------------------------------------------
\* The order journal.

JournalEntry == [seq : Nat \ {0}, order : OrderIds]

Increasing(list) == \A i, j \in DOMAIN list : i < j => list[i].seq < list[j].seq

\* places are the places of the entries of o among the first n, in order.
Indexes(places, list, o, n) ==
    /\ places \in Seq(Nat)
    /\ \A k \in DOMAIN places : places[k] \in 1 .. n /\ list[places[k]].order = o
    /\ \A i \in 1 .. n : list[i].order = o => \E k \in DOMAIN places : places[k] = i
    /\ \A j, k \in DOMAIN places : j < k => places[j] < places[k]

\* One more entry is indexed by its place, at the end.
LEMMA IndexOneMore ==
    ASSUME NEW n \in Nat, NEW list, NEW o, NEW places, Indexes(places, list, o, n)
    PROVE  Indexes(IF list[n + 1].order = o THEN Append(places, n + 1) ELSE places,
                   list, o, n + 1)
<1>1. CASE list[n + 1].order = o
  <2> DEFINE new == Append(places, n + 1)
  <2>1. /\ new \in Seq(Nat) /\ Len(new) = Len(places) + 1 /\ Len(places) \in Nat
        /\ \A k \in 1 .. Len(places) : new[k] = places[k]
        /\ new[Len(places) + 1] = n + 1
        /\ DOMAIN new = 1 .. Len(places) + 1 /\ DOMAIN places = 1 .. Len(places)
    BY DEF Indexes
  <2> HIDE DEF new
  <2>2. \A k \in DOMAIN new : new[k] \in 1 .. n + 1 /\ list[new[k]].order = o
    <3> TAKE k \in DOMAIN new
    <3>1. CASE k \in 1 .. Len(places)
      BY <2>1, <3>1 DEF Indexes
    <3>2. CASE k = Len(places) + 1
      BY <1>1, <2>1, <3>2
    <3> QED
      BY <2>1, <3>1, <3>2
  <2>3. \A i \in 1 .. n + 1 : list[i].order = o => \E k \in DOMAIN new : new[k] = i
    <3> TAKE i \in 1 .. n + 1
    <3>1. CASE i = n + 1
      BY <2>1, <3>1
    <3>2. CASE i \in 1 .. n
      BY <2>1, <3>2 DEF Indexes
    <3> QED
      BY <3>1, <3>2
  <2>4. \A j, k \in DOMAIN new : j < k => new[j] < new[k]
    <3> TAKE j, k \in DOMAIN new
    <3>1. CASE k \in 1 .. Len(places)
      <4>1. j < k => j \in 1 .. Len(places)
        BY <2>1, <3>1
      <4> QED
        BY <2>1, <3>1, <4>1, Zenon DEF Indexes
    <3>2. CASE k = Len(places) + 1
      <4>1. j < k => j \in 1 .. Len(places)
        BY <2>1, <3>2
      <4>2. j \in 1 .. Len(places) => new[j] = places[j] /\ places[j] \in 1 .. n
        BY <2>1 DEF Indexes
      <4>3. new[k] = n + 1
        BY <2>1, <3>2
      <4>4. \A x \in 1 .. n : x < n + 1
        OBVIOUS
      <4> QED
        BY <4>1, <4>2, <4>3, <4>4, Zenon
    <3> QED
      BY <2>1, <3>1, <3>2
  <2> QED
    BY <1>1, <2>1, <2>2, <2>3, <2>4 DEF Indexes, new
<1>2. CASE list[n + 1].order # o
  <2>1. \A i \in 1 .. n + 1 : list[i].order = o => i \in 1 .. n
    BY <1>2
  <2>2. 1 .. n \subseteq 1 .. n + 1
    OBVIOUS
  <2>3. Indexes(places, list, o, n + 1)
    BY <2>1, <2>2, Zenon DEF Indexes
  <2> QED
    BY <1>2, <2>3, Zenon
<1> QED
  BY <1>1, <1>2

\* The index that load_from_file builds is the index of the entries.
LEMMA PlacesIndex ==
    ASSUME NEW list, Len(list) \in Nat, NEW o
    PROVE  Indexes(PlacesOf(list, o), list, o, Len(list))
<1> DEFINE top == Len(list)
           S == Seq(Nat)
           F(f) == f = [n \in 0 .. top |->
                          IF n = 0 THEN <<>>
                          ELSE IF list[n].order = o THEN Append(f[n - 1], n)
                          ELSE f[n - 1]]
           step == [n \in 1 .. top |->
                      [s \in S |-> IF list[n].order = o THEN Append(s, n) ELSE s]]
           places == CHOOSE f : F(f)
<1>1. \A n \in 1 .. top : step[n] \in [S -> S]
  OBVIOUS
<1>2. PICK f : Iterates(f, S, <<>>, step, top)
  <2>1. <<>> \in S
    OBVIOUS
  <2> HIDE DEF step, S
  <2> QED
    BY <1>1, <2>1, Recursion
<1>3. F(f)
  <2>1. ASSUME NEW n \in 1 .. top
        PROVE  f[n] = IF list[n].order = o THEN Append(f[n - 1], n) ELSE f[n - 1]
    <3>1. f[n - 1] \in S /\ f[n] = step[n][f[n - 1]]
      <4> HIDE DEF step, S
      <4> QED
        BY <1>2 DEF Iterates
    <3> QED
      BY <3>1
  <2>2. f = [n \in 0 .. top |-> f[n]] /\ f[0] = <<>>
    BY <1>2, Zenon DEF Iterates
  <2>3. ASSUME NEW n \in 0 .. top
        PROVE  f[n] = IF n = 0 THEN <<>>
                      ELSE IF list[n].order = o THEN Append(f[n - 1], n)
                      ELSE f[n - 1]
    <3>1. CASE n = 0
      BY <2>2, <3>1
    <3>2. CASE n # 0
      <4>1. n \in 1 .. top
        BY <3>2
      <4> QED
        BY <2>1, <3>2, <4>1, Zenon
    <3> QED
      BY <3>1, <3>2
  <2> QED
    BY <2>2, <2>3, Zenon
<1>4. F(places)
  BY <1>3, Zenon
<1>5. PlacesOf(list, o) = places[top]
  BY Zenon DEF PlacesOf
<1> HIDE DEF places
<1>6. places[0] = <<>>
      /\ \A n \in 1 .. top : places[n] = IF list[n].order = o THEN Append(places[n - 1], n)
                                         ELSE places[n - 1]
  <2>1. ASSUME NEW n \in 0 .. top
        PROVE  places[n] = IF n = 0 THEN <<>>
                           ELSE IF list[n].order = o THEN Append(places[n - 1], n)
                           ELSE places[n - 1]
    BY <1>4, Zenon
  <2>2. 0 \in 0 .. top /\ \A n \in 1 .. top : n \in 0 .. top /\ n # 0
    OBVIOUS
  <2> QED
    BY <2>1, <2>2, Zenon
<1> DEFINE P == {n \in Nat : n <= top /\ Indexes(places[n], list, o, n)}
<1>7. 0 \in P
  <2>1. Indexes(<<>>, list, o, 0)
    BY DEF Indexes
  <2> QED
    BY <1>6, <2>1
<1>8. ASSUME NEW n \in Nat, n \in P, n < top PROVE n + 1 \in P
  <2>1. places[n + 1] = IF list[n + 1].order = o THEN Append(places[n], n + 1) ELSE places[n]
    BY <1>6, <1>8
  <2>2. Indexes(places[n + 1], list, o, n + 1)
    BY <1>8, <2>1, IndexOneMore
  <2> QED
    BY <1>8, <2>2
<1>9. top \in P
  <2> HIDE DEF P
  <2>1. \A n \in 0 .. top : n \in P
    BY <1>7, <1>8, Induction, Zenon
  <2> QED
    BY <2>1
<1> QED
  BY <1>5, <1>9

ListOK(list) == list \in Seq(JournalEntry) /\ Increasing(list)

JournalInv ==
    /\ ListOK(entries)
    /\ next_sequence \in Nat \ {0}
    /\ \A i \in DOMAIN entries : entries[i].seq < next_sequence
    /\ \A o \in OrderIds : Indexes(by_order[o], entries, o, Len(entries))
    /\ DOMAIN by_order = OrderIds
    /\ \A list \in saved : ListOK(list)

\* An entry with a higher number goes to the end of a list.
LEMMA ListGrows ==
    ASSUME NEW list, ListOK(list), NEW e \in JournalEntry,
           \A i \in DOMAIN list : list[i].seq < e.seq
    PROVE  ListOK(Append(list, e))
<1> DEFINE new == Append(list, e)
<1>1. /\ new \in Seq(JournalEntry) /\ Len(list) \in Nat
      /\ DOMAIN new = 1 .. Len(list) + 1 /\ DOMAIN list = 1 .. Len(list)
      /\ \A k \in 1 .. Len(list) : new[k] = list[k]
      /\ new[Len(list) + 1] = e
  BY DEF ListOK
<1> HIDE DEF new
<1>2. ASSUME NEW i \in DOMAIN new, NEW j \in DOMAIN new, i < j
      PROVE  new[i].seq < new[j].seq
  <2>1. i \in 1 .. Len(list)
    BY <1>1, <1>2
  <2>2. CASE j \in 1 .. Len(list)
    BY <1>1, <1>2, <2>1, <2>2, Zenon DEF ListOK, Increasing
  <2>3. CASE j = Len(list) + 1
    BY <1>1, <2>1, <2>3, Zenon
  <2> QED
    BY <1>1, <2>2, <2>3
<1>3. Increasing(new)
  BY <1>2, Zenon DEF Increasing
<1> QED
  BY <1>1, <1>3, Zenon DEF ListOK, new

\* The first entries of a list are such a list too.
LEMMA ListCut ==
    ASSUME NEW list, ListOK(list), NEW n \in 0 .. Len(list)
    PROVE  ListOK(SubSeq(list, 1, n))
<1> DEFINE cut == SubSeq(list, 1, n)
<1>1. /\ cut \in Seq(JournalEntry) /\ Len(list) \in Nat
      /\ DOMAIN cut = 1 .. n /\ DOMAIN list = 1 .. Len(list)
      /\ \A k \in 1 .. n : cut[k] = list[k]
  BY DEF ListOK
<1> HIDE DEF cut
<1>2. 1 .. n \subseteq DOMAIN list
  BY <1>1
<1>3. ASSUME NEW i \in DOMAIN cut, NEW j \in DOMAIN cut, i < j
      PROVE  cut[i].seq < cut[j].seq
  <2>1. i \in DOMAIN list /\ j \in DOMAIN list /\ cut[i] = list[i] /\ cut[j] = list[j]
    BY <1>1, <1>2, Zenon
  <2> QED
    BY <1>3, <2>1, Zenon DEF ListOK, Increasing
<1>4. Increasing(cut)
  BY <1>3, Zenon DEF Increasing
<1> QED
  BY <1>1, <1>4, Zenon DEF ListOK, cut

\* The entries of a list have numbers.
LEMMA ListNumbers ==
    ASSUME NEW list, ListOK(list)
    PROVE  /\ Len(list) \in Nat /\ DOMAIN list = 1 .. Len(list)
           /\ \A i \in DOMAIN list : list[i] \in JournalEntry /\ list[i].seq \in Nat \ {0}
<1>1. list \in Seq(JournalEntry)
  BY DEF ListOK
<1>2. Len(list) \in Nat /\ DOMAIN list = 1 .. Len(list)
      /\ \A i \in DOMAIN list : list[i] \in JournalEntry
  BY <1>1
<1>3. \A e \in JournalEntry : e.seq \in Nat \ {0}
  BY DEF JournalEntry
<1> QED
  BY <1>2, <1>3, Zenon

\* The number after the highest of a list, which is the last.
LEMMA NextNumber ==
    ASSUME NEW list, ListOK(list),
           NEW m, m = Max({1} \cup {list[i].seq + 1 : i \in DOMAIN list})
    PROVE  m \in Nat \ {0} /\ \A i \in DOMAIN list : list[i].seq < m
<1> DEFINE T == {1} \cup {list[i].seq + 1 : i \in DOMAIN list}
           n == Len(list)
<1>1. n \in Nat /\ DOMAIN list = 1 .. n /\ \A i \in 1 .. n : list[i].seq \in Nat \ {0}
  BY ListNumbers, Zenon
<1>2. \E x \in T : \A y \in T : x >= y
  <2>1. CASE n = 0
    BY <1>1, <2>1
  <2>2. CASE n # 0
    <3>1. n \in DOMAIN list /\ list[n].seq \in Nat
      BY <1>1, <2>2
    <3>2. \A i \in DOMAIN list : list[i].seq <= list[n].seq
      <4> TAKE i \in DOMAIN list
      <4>1. i = n \/ i < n
        BY <1>1
      <4>2. i < n => list[i].seq < list[n].seq
        BY <3>1, Zenon DEF ListOK, Increasing
      <4> QED
        BY <1>1, <3>1, <4>1, <4>2
    <3>3. list[n].seq + 1 \in T
      BY <3>1
    <3>4. \A y \in T : list[n].seq + 1 >= y
      <4> TAKE y \in T
      <4>1. CASE y = 1
        BY <3>1, <4>1
      <4>2. ASSUME NEW i \in DOMAIN list, y = list[i].seq + 1
            PROVE  list[n].seq + 1 >= y
        BY <1>1, <3>1, <3>2, <4>2
      <4> QED
        BY <4>1, <4>2
    <3> HIDE DEF T
    <3> QED
      BY <3>3, <3>4, Zenon
  <2> QED
    BY <2>1, <2>2
<1>3. m = CHOOSE x \in T : \A y \in T : x >= y
  BY Zenon DEF Max
<1>4. m \in T /\ \A y \in T : m >= y
  <2> HIDE DEF T
  <2> QED
    BY <1>2, <1>3, Zenon
<1>5. m \in Nat \ {0}
  BY <1>1, <1>4
<1>6. ASSUME NEW i \in DOMAIN list PROVE list[i].seq < m
  <2>1. m >= list[i].seq + 1
    BY Zenon, <1>4
  <2> QED
    BY <1>1, <1>5, <2>1
<1> QED
  BY <1>5, <1>6

\* An index depends on the first entries only.
LEMMA SameIndex ==
    ASSUME NEW n \in Nat, NEW list, NEW new, NEW o, NEW places, Indexes(places, list, o, n),
           \A i \in 1 .. n : new[i] = list[i]
    PROVE  Indexes(places, new, o, n)
  BY Zenon DEF Indexes

\* A step of the journal keeps JournalInv: append numbers and indexes its
\* entry, and load_from_file takes numbers and index from what it has read.
LEMMA JournalStep ==
    ASSUME JournalInv, [JournalNext]_journal_vars
    PROVE  JournalInv'
<1>0. /\ Len(entries) \in Nat /\ DOMAIN entries = 1 .. Len(entries)
      /\ \A i \in DOMAIN entries : entries[i].seq \in Nat \ {0}
  BY ListNumbers, Zenon DEF JournalInv
<1>1. ASSUME Forgotten PROVE ListOK(entries') /\ next_sequence' \in Nat \ {0}
                             /\ (\A i \in DOMAIN entries' : entries'[i].seq < next_sequence')
                             /\ DOMAIN by_order' = OrderIds
                             /\ \A o \in OrderIds : Indexes(by_order'[o], entries', o, Len(entries'))
  <2>1. Len(<<>>) = 0 /\ DOMAIN <<>> = {} /\ <<>> \in Seq(JournalEntry)
    OBVIOUS
  <2>2. ASSUME NEW o PROVE Indexes(<<>>, <<>>, o, 0)
    BY DEF Indexes
  <2>3. ListOK(<<>>)
    BY <2>1, Zenon DEF ListOK, Increasing
  <2>4. entries' = <<>> /\ next_sequence' = 1 /\ by_order' = [o \in OrderIds |-> <<>>]
    BY <1>1, Zenon DEF Forgotten
  <2>5. 1 \in Nat \ {0}
    OBVIOUS
  <2> QED
    BY <2>1, <2>2, <2>3, <2>4, <2>5, Zenon
<1>2. ASSUME NEW order \in OrderIds, JournalAppend(order)
      PROVE  JournalInv'
  <2> DEFINE e == [seq |-> next_sequence, order |-> order]
             n == Len(entries)
  <2>1. /\ entries' = Append(entries, e) /\ next_sequence' = next_sequence + 1 /\ saved' = saved
        /\ by_order' = [by_order EXCEPT ![order] = Append(@, n + 1)]
    BY <1>2, Zenon DEF JournalAppend
  <2>2. e \in JournalEntry /\ e.seq = next_sequence /\ e.order = order
        /\ next_sequence + 1 \in Nat \ {0}
    BY DEF JournalEntry, JournalInv
  <2> HIDE DEF e
  <2>3. ListOK(entries')
    BY <2>1, <2>2, ListGrows, Zenon DEF JournalInv
  <2>4. /\ Len(entries') = n + 1 /\ DOMAIN entries' = 1 .. n + 1
        /\ entries'[n + 1] = e /\ \A i \in 1 .. n : entries'[i] = entries[i]
    <3>1. entries \in Seq(JournalEntry)
      BY DEF JournalInv, ListOK
    <3> QED
      BY <2>1, <2>2, <3>1
  <2>5. ASSUME NEW i \in DOMAIN entries' PROVE entries'[i].seq < next_sequence'
    <3>1. CASE i = n + 1
      BY <2>1, <2>2, <2>4, <3>1 DEF JournalInv
    <3>2. CASE i \in 1 .. n
      <4>1. entries'[i] = entries[i] /\ entries[i].seq < next_sequence
            /\ entries[i].seq \in Nat /\ next_sequence \in Nat
        BY <1>0, <2>4, <3>2 DEF JournalInv
      <4> QED
        BY <2>1, <4>1
    <3> QED
      BY <1>0, <2>4, <3>1, <3>2
  <2>6. ASSUME NEW o \in OrderIds
        PROVE  Indexes(by_order'[o], entries', o, Len(entries'))
    <3>1. Indexes(by_order[o], entries', o, n)
      BY <1>0, <2>4, SameIndex, Zenon DEF JournalInv
    <3>2. Indexes(IF entries'[n + 1].order = o THEN Append(by_order[o], n + 1) ELSE by_order[o],
                  entries', o, n + 1)
      BY <1>0, <3>1, IndexOneMore, Zenon
    <3>3. by_order'[o] = IF order = o THEN Append(by_order[o], n + 1) ELSE by_order[o]
      BY <2>1 DEF JournalInv
    <3> QED
      BY <2>2, <2>4, <3>2, <3>3, Zenon
  <2>7. DOMAIN by_order' = OrderIds
    BY <2>1, Zenon DEF JournalInv
  <2> QED
    BY <2>1, <2>2, <2>3, <2>5, <2>6, <2>7, Zenon DEF JournalInv
<1>3. CASE flush_to_file
  <2>1. UNCHANGED <<entries, by_order, next_sequence>> /\ saved' = {entries}
    BY <1>3, Zenon DEF flush_to_file, journal
  <2> QED
    BY <2>1, Zenon DEF JournalInv
<1>4. CASE FlushDies
  <2>1. Forgotten /\ saved' \in {{}} \cup {{SubSeq(entries, 1, n)} : n \in 0 .. Len(entries)}
    BY <1>4, Zenon DEF FlushDies
  <2>2. ASSUME NEW list \in saved' PROVE ListOK(list)
    <3>1. PICK n \in 0 .. Len(entries) : list = SubSeq(entries, 1, n)
      BY <2>1, Zenon
    <3> QED
      BY <3>1, ListCut, Zenon DEF JournalInv
  <2> QED
    BY <1>1, <2>1, <2>2, Zenon DEF JournalInv
<1>5. CASE ProcessDies
  BY <1>1, <1>5, Zenon DEF ProcessDies, JournalInv
<1>6. CASE load_from_file
  <2>1. PICK list \in saved :
          /\ entries' = list
          /\ by_order' = [o \in OrderIds |-> PlacesOf(list, o)]
          /\ next_sequence' = Max({1} \cup {list[i].seq + 1 : i \in DOMAIN list})
    BY <1>6, Zenon DEF load_from_file
  <2>2. saved' = saved
    BY <1>6, Zenon DEF load_from_file
  <2>3. ListOK(list) /\ Len(list) \in Nat
    BY ListNumbers, Zenon DEF JournalInv
  <2>4. next_sequence' \in Nat \ {0} /\ \A i \in DOMAIN list : list[i].seq < next_sequence'
    BY <2>1, <2>3, NextNumber, Zenon
  <2>5. ASSUME NEW o \in OrderIds PROVE Indexes(by_order'[o], list, o, Len(list))
    BY <2>1, <2>3, PlacesIndex, Zenon
  <2>6. DOMAIN by_order' = OrderIds
    BY <2>1, Zenon
  <2> QED
    BY <2>1, <2>2, <2>3, <2>4, <2>5, <2>6, Zenon DEF JournalInv
<1>7. CASE UNCHANGED journal_vars
  BY <1>7, Zenon DEF journal_vars, journal, JournalInv
<1> QED
  BY <1>2, <1>3, <1>4, <1>5, <1>6, <1>7, Zenon DEF JournalNext

\* JournalInv holds always.
LEMMA JournalHolds == DataSpec => []JournalInv
<1>1. DataInit => JournalInv
  <2>1. ListOK(<<>>) /\ \A o : Indexes(<<>>, <<>>, o, 0)
    BY DEF ListOK, Increasing, Indexes
  <2>2. Len(<<>>) = 0 /\ DOMAIN <<>> = {} /\ 1 \in Nat \ {0}
    OBVIOUS
  <2> QED
    BY <2>1, <2>2, Zenon DEF DataInit, JournalInit, JournalInv
<1>2. JournalInv /\ [DataNext]_data_vars => JournalInv'
  BY PartsMove, JournalStep
<1> QED
  BY <1>1, <1>2, PTL DEF DataSpec

\* The journal's numbers increase and its index is complete, after appends,
\* crashes and loads of files that were cut anywhere (order_journal.cpp:
\* append, get_history, flush_to_file and load_from_file).
THEOREM JournalCorrect == DataSpec => []JournalIsSound
<1>1. JournalInv => JournalIsSound
  <2> SUFFICES ASSUME JournalInv PROVE JournalIsSound
    OBVIOUS
  <2>1. SequencesIncrease
    BY Zenon DEF JournalInv, ListOK, Increasing, SequencesIncrease
  <2>2. ASSUME NEW o \in OrderIds, NEW list, list = get_history(o)
        PROVE  /\ Range(list) = {e \in Range(entries) : e.order = o}
               /\ \A i, j \in DOMAIN list : i < j => list[i].seq < list[j].seq
    <3>1. /\ DOMAIN list = DOMAIN by_order[o]
          /\ \A k \in DOMAIN list : list[k] = entries[by_order[o][k]]
      BY <2>2, Zenon DEF get_history
    <3>2. /\ Indexes(by_order[o], entries, o, Len(entries))
          /\ DOMAIN entries = 1 .. Len(entries)
      BY ListNumbers, Zenon DEF JournalInv
    <3>3. ASSUME NEW e \in Range(list) PROVE e \in Range(entries) /\ e.order = o
      <4>1. PICK k \in DOMAIN list : e = list[k]
        BY <3>3, Zenon DEF Range
      <4>2. by_order[o][k] \in DOMAIN entries /\ entries[by_order[o][k]].order = o
        BY <3>1, <3>2, Zenon DEF Indexes
      <4> QED
        BY <3>1, <4>1, <4>2, Zenon DEF Range
    <3>5. ASSUME NEW e \in Range(entries), e.order = o PROVE e \in Range(list)
      <4>1. PICK i \in DOMAIN entries : e = entries[i]
        BY <3>5, Zenon DEF Range
      <4>2. PICK k \in DOMAIN by_order[o] : by_order[o][k] = i
        BY <3>2, <3>5, <4>1, Zenon DEF Indexes
      <4> QED
        BY <3>1, <4>1, <4>2, Zenon DEF Range
    <3>4. ASSUME NEW i \in DOMAIN list, NEW j \in DOMAIN list, i < j
          PROVE  list[i].seq < list[j].seq
      <4>1. by_order[o][i] < by_order[o][j]
            /\ by_order[o][i] \in DOMAIN entries /\ by_order[o][j] \in DOMAIN entries
        BY <3>1, <3>2, <3>4, Zenon DEF Indexes
      <4> QED
        BY <2>1, <3>1, <4>1, Zenon DEF SequencesIncrease
    <3>6. Range(list) = {e \in Range(entries) : e.order = o}
      BY <3>3, <3>5, Zenon
    <3> QED
      BY <3>4, <3>6, Zenon
  <2>3. HistoryIsComplete
    BY <2>2, Zenon DEF HistoryIsComplete
  <2> QED
    BY <2>1, <2>3, Zenon DEF JournalIsSound
<1> QED
  BY <1>1, JournalHolds, PTL

------------------------------------------------------------------------------
\* Reading a range of a file.

\* The records of data from place i on that are in wanted, in their order.
Gathers(got, data, i, wanted) ==
    /\ got \in Seq(Record)
    /\ \A k \in DOMAIN got : \E j \in i .. Len(data) : got[k] = data[j] /\ data[j] \in wanted
    /\ \A j \in i .. Len(data) : data[j] \in wanted => \E k \in DOMAIN got : got[k] = data[j]
    /\ \A k, l \in DOMAIN got : k < l => got[k].n < got[l].n

\* A record that is not wanted may be left out.
LEMMA GatherNot ==
    ASSUME NEW data \in Seq(Record), NEW i \in DOMAIN data, NEW wanted,
           NEW rest, Gathers(rest, data, i + 1, wanted), data[i] \notin wanted
    PROVE  Gathers(rest, data, i, wanted)
<1>1. i \in Nat /\ Len(data) \in Nat /\ i <= Len(data)
  OBVIOUS
<1>2. \A j \in i .. Len(data) : j = i \/ j \in i + 1 .. Len(data)
  BY <1>1
<1>3. \A j \in i + 1 .. Len(data) : j \in i .. Len(data)
  BY <1>1
<1> QED
  BY <1>2, <1>3, Zenon DEF Gathers

\* A record that is wanted comes before the later ones.
LEMMA GatherMore ==
    ASSUME NEW data \in Seq(Record), InOrder(data), NEW i \in DOMAIN data, NEW wanted,
           NEW rest, Gathers(rest, data, i + 1, wanted), data[i] \in wanted
    PROVE  Gathers(<<data[i]>> \o rest, data, i, wanted)
<1> DEFINE got == <<data[i]>> \o rest
<1>1. i \in Nat /\ Len(data) \in Nat /\ i <= Len(data) /\ data[i] \in Record
  OBVIOUS
<1>2. \A j \in i .. Len(data) : j = i \/ j \in i + 1 .. Len(data)
  BY <1>1
<1>3. \A j \in i + 1 .. Len(data) : j \in i .. Len(data) /\ i < j /\ j \in DOMAIN data
  BY <1>1
<1>4. /\ got \in Seq(Record) /\ got[1] = data[i]
      /\ DOMAIN got = 1 .. Len(rest) + 1 /\ DOMAIN rest = 1 .. Len(rest) /\ Len(rest) \in Nat
      /\ \A k \in DOMAIN rest : got[k + 1] = rest[k]
  BY <1>1 DEF Gathers
<1> HIDE DEF got
<1>5. 1 \in DOMAIN got
      /\ (\A k \in DOMAIN rest : k + 1 \in DOMAIN got /\ k \in Nat)
      /\ \A k \in DOMAIN got : k = 1 \/ (k - 1 \in DOMAIN rest /\ got[k] = rest[k - 1] /\ k > 1)
  BY <1>4
<1>6. ASSUME NEW k \in DOMAIN got
      PROVE  \E j \in i .. Len(data) : got[k] = data[j] /\ data[j] \in wanted
  <2>1. CASE k = 1
    BY <1>1, <1>4, <2>1
  <2>2. CASE k - 1 \in DOMAIN rest /\ got[k] = rest[k - 1]
    <3>1. PICK j \in i + 1 .. Len(data) : rest[k - 1] = data[j] /\ data[j] \in wanted
      BY <2>2, Zenon DEF Gathers
    <3> QED
      BY <1>3, <2>2, <3>1, Zenon
  <2> QED
    BY <1>5, <2>1, <2>2, Zenon
<1>7. ASSUME NEW j \in i .. Len(data), data[j] \in wanted
      PROVE  \E k \in DOMAIN got : got[k] = data[j]
  <2>1. CASE j = i
    BY <1>4, <1>5, <2>1, Zenon
  <2>2. CASE j \in i + 1 .. Len(data)
    <3>1. PICK k \in DOMAIN rest : rest[k] = data[j]
      BY <1>7, <2>2, Zenon DEF Gathers
    <3>2. k + 1 \in DOMAIN got
      BY <1>5, Zenon
    <3>3. got[k + 1] = rest[k]
      BY <1>4, Zenon
    <3> QED
      BY <3>1, <3>2, <3>3, Zenon
  <2> QED
    BY <1>2, <2>1, <2>2, Zenon
<1>8. ASSUME NEW k \in DOMAIN got, NEW l \in DOMAIN got, k < l
      PROVE  got[k].n < got[l].n
  <2>1. k \in Nat /\ l \in Nat /\ l # 1
    BY <1>4, <1>8
  <2>2. l - 1 \in DOMAIN rest /\ got[l] = rest[l - 1]
    BY <1>5, <2>1, Zenon
  <2>3. CASE k = 1
    <3>1. PICK j \in i + 1 .. Len(data) : rest[l - 1] = data[j]
      BY <2>2, Zenon DEF Gathers
    <3> QED
      BY <1>3, <1>4, <2>2, <2>3, <3>1, Zenon DEF InOrder
  <2>4. CASE k - 1 \in DOMAIN rest /\ got[k] = rest[k - 1]
    <3>1. k - 1 < l - 1
      BY <1>8, <2>1
    <3> QED
      BY <2>2, <2>4, <3>1, Zenon DEF Gathers
  <2> QED
    BY <1>5, <2>3, <2>4, Zenon
<1>9. Gathers(got, data, i, wanted)
  BY <1>4, <1>6, <1>7, <1>8, Zenon DEF Gathers
<1> QED
  BY <1>9 DEF got

\* g ends with base and goes down by step.
Descends(g, S, base, step, top) ==
    /\ g \in [1 .. top + 1 -> S]
    /\ g[top + 1] = base
    /\ \A i \in 1 .. top : g[i] = step[i][g[i + 1]]

\* A function may also be defined from its last value downwards.
LEMMA DownRecursion ==
    ASSUME NEW top \in Nat, NEW S, NEW base \in S, NEW step,
           \A n \in 1 .. top : step[n] \in [S -> S]
    PROVE  \E g : Descends(g, S, base, step, top)
<1> DEFINE turned == [n \in 1 .. top |-> step[top + 1 - n]]
<1>1. \A n \in 1 .. top : turned[n] \in [S -> S]
  <2> TAKE n \in 1 .. top
  <2>1. top + 1 - n \in 1 .. top
    OBVIOUS
  <2> QED
    BY <2>1, Zenon
<1>2. PICK f : Iterates(f, S, base, turned, top)
  <2> HIDE DEF turned
  <2> QED
    BY Zenon, <1>1, Recursion
<1> DEFINE g == [i \in 1 .. top + 1 |-> f[top + 1 - i]]
<1>3. f \in [0 .. top -> S] /\ f[0] = base /\ \A n \in 1 .. top : f[n] = turned[n][f[n - 1]]
  BY <1>2, Zenon DEF Iterates
<1>4. g \in [1 .. top + 1 -> S] /\ g[top + 1] = base
  BY <1>3
<1>5. ASSUME NEW i \in 1 .. top PROVE g[i] = step[i][g[i + 1]]
  <2>1. top + 1 - i \in 1 .. top /\ i \in 1 .. top + 1 /\ i + 1 \in 1 .. top + 1
        /\ top + 1 - (top + 1 - i) = i /\ (top + 1 - i) - 1 = top + 1 - (i + 1)
    OBVIOUS
  <2>2. g[i] = f[top + 1 - i] /\ g[i + 1] = f[top + 1 - (i + 1)]
    BY <2>1, Zenon
  <2>3. f[top + 1 - i] = turned[top + 1 - i][f[(top + 1 - i) - 1]]
    BY <1>3, <2>1, Zenon
  <2>4. turned[top + 1 - i] = step[top + 1 - (top + 1 - i)]
    BY <2>1, Zenon
  <2> QED
    BY <2>1, <2>2, <2>3, <2>4, Zenon
<1> HIDE DEF g
<1> QED
  BY <1>4, <1>5, Zenon DEF Descends

\* What read_range collects when it starts at place from.
Collected(data, from, symbol, start, end) ==
    LET result[i \in 1 .. Len(data) + 1] ==
            IF i > Len(data) \/ data[i].ts > end THEN <<>>
            ELSE IF Wanted(data[i], symbol, start, end)
            THEN <<data[i]>> \o result[i + 1]
            ELSE result[i + 1]
    IN  result[from]

\* The loop of read_range gathers the records in the range, from its start on.
LEMMA LoopGathers ==
    ASSUME NEW data \in Seq(Record), InOrder(data), NEW symbol, NEW start \in Nat, NEW end \in Nat,
           NEW from \in DOMAIN data
    PROVE  Gathers(Collected(data, from, symbol, start, end), data, from,
                   {r \in Record : Wanted(r, symbol, start, end)})
<1> DEFINE top == Len(data)
           S == Seq(Record)
           wanted == {r \in Record : Wanted(r, symbol, start, end)}
           Step(i, s) == IF data[i].ts > end THEN <<>>
                         ELSE IF Wanted(data[i], symbol, start, end) THEN <<data[i]>> \o s
                         ELSE s
           step == [i \in 1 .. top |-> [s \in S |-> Step(i, s)]]
           F(f) == f = [i \in 1 .. top + 1 |->
                          IF i > top \/ data[i].ts > end THEN <<>>
                          ELSE IF Wanted(data[i], symbol, start, end)
                          THEN <<data[i]>> \o f[i + 1]
                          ELSE f[i + 1]]
           result == CHOOSE f : F(f)
<1>0. top \in Nat /\ DOMAIN data = 1 .. top /\ \A i \in 1 .. top : data[i] \in Record
  OBVIOUS
<1>1. ASSUME NEW i \in 1 .. top PROVE step[i] \in [S -> S]
  <2>1. ASSUME NEW s \in S PROVE Step(i, s) \in S
    <3>1. <<>> \in S /\ <<data[i]>> \o s \in S
      BY <1>0, <2>1
    <3> HIDE DEF S
    <3> QED
      BY <2>1, <3>1, Zenon
  <2> HIDE DEF Step, S
  <2> QED
    BY <2>1, Zenon
<1>a. PICK g : Descends(g, S, <<>>, step, top)
  <2>1. <<>> \in S
    OBVIOUS
  <2>2. \A n \in 1 .. top : step[n] \in [S -> S]
    BY <1>1, Zenon
  <2>3. top \in Nat
    BY <1>0, Zenon
  <2> HIDE DEF step, S, top
  <2> QED
    BY Zenon, <2>1, <2>2, <2>3, DownRecursion
<1>2. /\ g \in [1 .. top + 1 -> S]
      /\ g[top + 1] = <<>>
      /\ \A i \in 1 .. top : g[i] = step[i][g[i + 1]]
  BY <1>a, Zenon DEF Descends
<1>3. ASSUME NEW i \in 1 .. top + 1
      PROVE  g[i] = IF i > top \/ data[i].ts > end THEN <<>>
                    ELSE IF Wanted(data[i], symbol, start, end)
                    THEN <<data[i]>> \o g[i + 1]
                    ELSE g[i + 1]
  <2>1. CASE i = top + 1
    BY <1>0, <1>2, <2>1
  <2>2. CASE i \in 1 .. top
    <3>1. i + 1 \in 1 .. top + 1 /\ ~ (i > top)
      BY <1>0, <2>2
    <3>2. g[i + 1] \in S /\ g[i] = step[i][g[i + 1]]
      BY <1>2, <2>2, <3>1, Zenon
    <3>3. g[i] = Step(i, g[i + 1])
      <4> HIDE DEF Step, S
      <4> QED
        BY <2>2, <3>2, Zenon
    <3> QED
      BY <3>1, <3>3, Zenon
  <2> QED
    BY <1>0, <2>1, <2>2
<1>4. F(g)
  <2>1. g = [i \in 1 .. top + 1 |-> g[i]]
    BY <1>2, Zenon
  <2> QED
    BY <1>3, <2>1, Zenon
<1>5. F(result)
  BY <1>4, Zenon
<1>6. Collected(data, from, symbol, start, end) = result[from]
  BY Zenon DEF Collected
<1> HIDE DEF result
<1>7. \A i \in 1 .. top + 1 :
        result[i] = IF i > top \/ data[i].ts > end THEN <<>>
                    ELSE IF Wanted(data[i], symbol, start, end)
                    THEN <<data[i]>> \o result[i + 1]
                    ELSE result[i + 1]
  BY <1>5, Zenon
<1> DEFINE P == {n \in Nat : n <= top /\ Gathers(result[top + 1 - n], data, top + 1 - n, wanted)}
<1>8. 0 \in P
  <2>1. top + 1 \in 1 .. top + 1 /\ top + 1 > top /\ top + 1 - 0 = top + 1 /\ 0 <= top
    BY <1>0
  <2>2. result[top + 1] = <<>>
    BY <1>7, <2>1, Zenon
  <2>3. Gathers(<<>>, data, top + 1, wanted)
    BY <1>0 DEF Gathers
  <2> QED
    BY <2>1, <2>2, <2>3
<1>9. ASSUME NEW n \in Nat, n \in P, n < top PROVE n + 1 \in P
  <2> DEFINE i == top + 1 - (n + 1)
  <2>1. i \in 1 .. top /\ i \in 1 .. top + 1 /\ ~ (i > top) /\ top + 1 - n = i + 1
        /\ n + 1 <= top /\ i \in DOMAIN data /\ n + 1 \in Nat
    BY <1>0, <1>9
  <2> HIDE DEF i
  <2>2. Gathers(result[i + 1], data, i + 1, wanted)
    BY <1>9, <2>1, Zenon
  <2>3. result[i] = IF data[i].ts > end THEN <<>>
                    ELSE IF Wanted(data[i], symbol, start, end)
                    THEN <<data[i]>> \o result[i + 1]
                    ELSE result[i + 1]
    BY <1>7, <2>1, Zenon
  <2>4. data[i] \in Record
    BY <1>0, <2>1
  <2>5. CASE data[i].ts > end
    <3>1. ASSUME NEW j \in i .. Len(data) PROVE data[j] \notin wanted
      <4>1. j \in DOMAIN data /\ (i = j \/ i < j)
        BY <2>1
      <4>2. data[i].ts <= data[j].ts \/ i = j
        BY <2>1, <4>1, Zenon DEF InOrder
      <4>3. data[i].ts \in Nat /\ data[j].ts \in Nat
        BY Zenon, <1>0, <2>4, <4>1, FileAssumption DEF Record
      <4>4. ~ (data[j].ts <= end)
        BY <2>5, <4>2, <4>3
      <4> QED
        BY <4>4, Zenon DEF Wanted
    <3>2. <<>> \in Seq(Record) /\ DOMAIN <<>> = {}
      OBVIOUS
    <3>3. Gathers(<<>>, data, i, wanted)
      BY <3>1, <3>2, Zenon DEF Gathers
    <3> QED
      BY <2>1, <2>3, <2>5, <3>3, Zenon DEF i
  <2>6. CASE ~ (data[i].ts > end) /\ Wanted(data[i], symbol, start, end)
    <3>1. data[i] \in wanted
      BY <2>4, <2>6, Zenon
    <3>2. Gathers(<<data[i]>> \o result[i + 1], data, i, wanted)
      <4> HIDE DEF wanted
      <4> QED
        BY <2>1, <2>2, <3>1, GatherMore, Zenon
    <3> QED
      BY <2>1, <2>3, <2>6, <3>2, Zenon DEF i
  <2>7. CASE ~ (data[i].ts > end) /\ ~ Wanted(data[i], symbol, start, end)
    <3>1. data[i] \notin wanted
      BY <2>7, Zenon
    <3>2. Gathers(result[i + 1], data, i, wanted)
      <4> HIDE DEF wanted
      <4> QED
        BY <2>1, <2>2, <3>1, GatherNot, Zenon
    <3> QED
      BY <2>1, <2>3, <2>7, <3>2, Zenon DEF i
  <2> QED
    BY <2>5, <2>6, <2>7, Zenon
<1>10. \A n \in 0 .. top : n \in P
  <2> HIDE DEF P
  <2> QED
    BY <1>0, <1>8, <1>9, Induction, Zenon
<1>11. top + 1 - from \in 0 .. top /\ top + 1 - (top + 1 - from) = from
  BY <1>0
<1> QED
  BY <1>6, <1>10, <1>11, Zenon

\* A file that nobody writes to: all of it is on the disk, in order, under a
\* header that is right or says nothing.
FileOK(f) ==
    /\ f \in File
    /\ InOrder(f.data)
    /\ f.safe = Len(f.data)
    /\ f.head \in {None, 0, Len(f.data)}
    /\ f.head = None => f.data = <<>>

\* The records of a file are records.
LEMMA FileData ==
    ASSUME NEW f, FileOK(f)
    PROVE  /\ f.data \in Seq(Record)
           /\ DOMAIN f.data = 1 .. Len(f.data) /\ Len(f.data) \in Nat
           /\ \A i \in DOMAIN f.data : f.data[i] \in Record /\ f.data[i].ts \in Nat
<1>1. f.data \in Seq(Record)
  BY DEF FileOK, File
<1>2. \A r \in Record : r.ts \in Nat
  BY Zenon, FileAssumption DEF Record
<1>3. \A d \in Seq(Record) : /\ DOMAIN d = 1 .. Len(d) /\ Len(d) \in Nat
                             /\ \A i \in DOMAIN d : d[i] \in Record
  OBVIOUS
<1> QED
  BY <1>1, <1>2, <1>3, Zenon

\* What read_range returns, whatever the index.
LEMMA RangeRead ==
    ASSUME NEW f, FileOK(f), NEW idx, NEW symbol, NEW start \in Nat, NEW end \in Nat
    PROVE  IF find(idx, start) \in DOMAIN f.data
           THEN Gathers(read_range(idx, f, symbol, start, end), f.data, find(idx, start),
                        {r \in Record : Wanted(r, symbol, start, end)})
           ELSE read_range(idx, f, symbol, start, end) = <<>>
<1>1. f \in File /\ f.data \in Seq(Record) /\ f.safe = Len(f.data)
  BY DEF FileOK, File
<1>2. Survived(f).data = f.data
  <2>1. Survived(f).data = SubSeq(f.data, 1, Len(f.data))
    BY <1>1 DEF Survived, File
  <2>2. \A d \in Seq(Record) : SubSeq(d, 1, Len(d)) = d
    OBVIOUS
  <2> QED
    BY <1>1, <2>1, <2>2, Zenon
<1> DEFINE from == find(idx, start)
<1>3. read_range(idx, f, symbol, start, end) =
        IF from \in DOMAIN f.data THEN Collected(f.data, from, symbol, start, end) ELSE <<>>
  <2>1. read_range(idx, f, symbol, start, end) =
          IF from \in DOMAIN Survived(f).data
          THEN Collected(Survived(f).data, from, symbol, start, end) ELSE <<>>
    BY Zenon DEF read_range, Collected
  <2> QED
    BY <1>2, <2>1, Zenon
<1>4. CASE from \in DOMAIN f.data
  <2>1. Gathers(Collected(f.data, from, symbol, start, end), f.data, from,
                {r \in Record : Wanted(r, symbol, start, end)})
    <3> HIDE DEF from
    <3> QED
      BY <1>1, <1>4, LoopGathers, Zenon DEF FileOK
  <2> QED
    BY <1>3, <1>4, <2>1, Zenon
<1>5. CASE from \notin DOMAIN f.data
  BY <1>3, <1>5, Zenon
<1> QED
  BY <1>4, <1>5, Zenon

\* find on an index of the file: a record with the least timestamp that is not
\* before the target, whichever way build has sorted the ties.
LEMMA IndexFinds ==
    ASSUME NEW f, FileOK(f), Indexable(f), NEW idx \in build(f), NEW target \in Nat
    PROVE  \/ /\ find(idx, target) = 0
              /\ \A i \in DOMAIN f.data : ~ (f.data[i].ts >= target)
           \/ /\ find(idx, target) \in DOMAIN f.data
              /\ f.data[find(idx, target)].ts >= target
              /\ \A i \in DOMAIN f.data :
                    f.data[i].ts >= target => f.data[find(idx, target)].ts <= f.data[i].ts
<1> DEFINE D == DOMAIN f.data
           entries_ == [i \in D |-> Entry(f.data[i], i)]
           found == {i \in DOMAIN idx : idx[i].ts >= target}
<1>1. D = 1 .. Len(f.data) /\ Len(f.data) \in Nat
  BY DEF FileOK, File
<1>2. PICK p \in [D -> D] : IsInjective(p) /\ idx = [i \in D |-> entries_[p[i]]]
  BY Zenon DEF build
<1>3. Sorted(idx)
  BY Zenon DEF build
<1>4. p \in Surjection(D, D)
  <2>1. IsFiniteSet(D)
    BY <1>1, FS_Interval
  <2>2. p \in Injection(D, D)
    BY <1>2, Zenon DEF Injection
  <2> QED
    BY <2>1, <2>2, FS_Injection, Zenon
<1>5. ASSUME NEW i \in D
      PROVE  p[i] \in D /\ i \in DOMAIN idx
             /\ idx[i].ts = f.data[p[i]].ts /\ idx[i].offset = p[i]
  <2>1. p[i] \in D /\ i \in DOMAIN idx /\ idx[i] = Entry(f.data[p[i]], p[i])
    BY <1>2, Zenon
  <2> QED
    BY <2>1 DEF Entry
<1>6. DOMAIN idx = D
  BY <1>2, Zenon
<1>7. ASSUME NEW i \in D PROVE \E k \in D : p[k] = i
  BY <1>4, Zenon DEF Surjection
<1>8. find(idx, target) = IF found = {} THEN 0 ELSE idx[Min(found)].offset
  BY Zenon DEF find
<1>9. CASE found = {}
  <2>1. ASSUME NEW i \in D PROVE ~ (f.data[i].ts >= target)
    <3>1. PICK k \in D : p[k] = i
      BY <1>7, Zenon
    <3>2. k \notin found
      BY <1>9, Zenon
    <3> QED
      BY <1>5, <3>1, <3>2, Zenon
  <2> QED
    BY <1>8, <1>9, <2>1, Zenon
<1>10. CASE found # {}
  <2> DEFINE m == Min(found)
  <2>1. found \in SUBSET Nat
    BY <1>1, <1>6
  <2>2. m \in found /\ \A y \in found : m <= y
    <3> HIDE DEF found
    <3> QED
      BY <1>10, <2>1, MinIs, Zenon
  <2> HIDE DEF m
  <2>3. find(idx, target) = p[m] /\ p[m] \in D /\ f.data[p[m]].ts >= target /\ m \in D
    BY <1>5, <1>6, <1>8, <1>10, <2>2, Zenon DEF m
  <2>4. ASSUME NEW i \in D, f.data[i].ts >= target
        PROVE  f.data[p[m]].ts <= f.data[i].ts
    <3>1. PICK k \in D : p[k] = i
      BY <1>7, Zenon
    <3>2. k \in found
      BY <1>5, <2>4, <3>1, Zenon
    <3>3. m = k \/ m < k
      <4>1. m \in Nat /\ k \in Nat /\ m <= k
        BY <1>1, <2>2, <2>3, <3>2
      <4> QED
        BY <4>1
    <3>4. CASE m = k
      <4>1. f.data[i].ts \in Nat
        BY FileData, Zenon
      <4> QED
        BY <3>1, <3>4, <4>1
    <3>5. CASE m < k
      <4>1. idx[m].ts <= idx[k].ts
        BY <1>3, <1>6, <2>3, <3>5, Zenon DEF Sorted
      <4> QED
        BY <1>5, <2>3, <3>1, <4>1, Zenon
    <3> QED
      BY <3>3, <3>4, <3>5, Zenon
  <2> QED
    BY <2>3, <2>4, Zenon
<1> QED
  BY <1>9, <1>10, Zenon

\* A store that opens a sound file misses only ties.
LEMMA RangeMissesTies ==
    ASSUME file # None => FileOK(file)
    PROVE  MissesOnlyTies
<1> SUFFICES ASSUME file # None, NEW idx \in build(file), NEW sym \in SymbolSet \cup {AnySymbol},
                    NEW start \in Times, NEW end \in Times
             PROVE  LET got == read_range(idx, file, sym, start, end)
                        wanted == {r \in Range(file.data) : Wanted(r, sym, start, end)}
                    IN  /\ Range(got) \subseteq wanted
                        /\ \A i, j \in DOMAIN got : i < j => got[i].n < got[j].n
                        /\ \A r \in wanted \ Range(got) :
                               /\ \A q \in Range(got) : r.n < q.n
                               /\ \A q \in Range(file.data) : q.ts >= start => r.ts <= q.ts
  BY Zenon DEF MissesOnlyTies
<1> DEFINE data == file.data
           from == find(idx, start)
           got == read_range(idx, file, sym, start, end)
           asked == {r \in Record : Wanted(r, sym, start, end)}
           wanted == {r \in Range(data) : Wanted(r, sym, start, end)}
<1>1. FileOK(file) /\ start \in Nat /\ end \in Nat
  BY FileAssumption
<1>2. /\ data \in Seq(Record) /\ DOMAIN data = 1 .. Len(data) /\ Len(data) \in Nat
      /\ \A i \in DOMAIN data : data[i] \in Record /\ data[i].ts \in Nat
  BY <1>1, FileData, Zenon
<1>3. DOMAIN data # {} => Indexable(file)
  <2>1. DOMAIN <<>> = {}
    OBVIOUS
  <2> QED
    BY <1>1, <2>1, Zenon DEF FileOK, Indexable
<1>4. CASE from \in DOMAIN data
  <2>1. Gathers(got, data, from, asked)
    BY <1>1, <1>4, RangeRead, Zenon
  <2>2. from = find(idx, start) /\ 0 \notin DOMAIN data
    BY <1>2
  <2>3. \A i \in DOMAIN data : data[i].ts >= start => data[from].ts <= data[i].ts
    BY <1>1, <1>3, <1>4, <2>2, IndexFinds, Zenon
  <2> HIDE DEF got, from
  <2>4. \A j \in from .. Len(data) : j \in DOMAIN data
    BY <1>2, <1>4
  <2>5. Range(got) \subseteq wanted
    <3> SUFFICES ASSUME NEW k \in DOMAIN got PROVE got[k] \in wanted
      BY Zenon DEF Range
    <3>1. PICK j \in from .. Len(data) : got[k] = data[j] /\ data[j] \in asked
      BY <2>1, Zenon DEF Gathers
    <3> QED
      BY <2>4, <3>1, Zenon DEF Range
  <2>6. \A i, j \in DOMAIN got : i < j => got[i].n < got[j].n
    BY <2>1, Zenon DEF Gathers
  <2>7. ASSUME NEW r \in wanted \ Range(got)
        PROVE  /\ \A q \in Range(got) : r.n < q.n
               /\ \A q \in Range(data) : q.ts >= start => r.ts <= q.ts
    <3>1. PICK i \in DOMAIN data : r = data[i]
      BY <2>7, Zenon DEF Range
    <3>2. i \notin from .. Len(data)
      <4> SUFFICES ASSUME i \in from .. Len(data) PROVE FALSE
        OBVIOUS
      <4>1. data[i] \in asked
        BY <1>2, <2>7, <3>1, Zenon
      <4>2. PICK k \in DOMAIN got : got[k] = data[i]
        BY <2>1, <4>1, Zenon DEF Gathers
      <4> QED
        BY <2>7, <3>1, <4>2, Zenon DEF Range
    <3>3. i < from /\ \A j \in from .. Len(data) : i < j
      BY <1>2, <1>4, <3>2
    <3>4. ASSUME NEW q \in Range(got) PROVE r.n < q.n
      <4>1. PICK k \in DOMAIN got : q = got[k]
        BY <3>4, Zenon DEF Range
      <4>2. PICK j \in from .. Len(data) : got[k] = data[j]
        BY <2>1, Zenon DEF Gathers
      <4> QED
        BY <1>1, <2>4, <3>1, <3>3, <4>1, <4>2, Zenon DEF FileOK, InOrder
    <3>5. ASSUME NEW q \in Range(data), q.ts >= start PROVE r.ts <= q.ts
      <4>1. PICK j \in DOMAIN data : q = data[j]
        BY <3>5, Zenon DEF Range
      <4>2. data[i].ts <= data[from].ts
        BY <1>1, <1>4, <3>3, Zenon DEF FileOK, InOrder
      <4>3. data[from].ts <= data[j].ts
        BY <2>3, <3>5, <4>1, Zenon
      <4> QED
        BY <1>2, <1>4, <3>1, <4>1, <4>2, <4>3
    <3> QED
      BY <3>4, <3>5, Zenon
  <2> QED
    BY <2>5, <2>6, <2>7, Zenon DEF got
<1>5. CASE from \notin DOMAIN data
  <2>1. got = <<>>
    BY <1>1, <1>5, RangeRead, Zenon
  <2>2. wanted = {}
    <3> SUFFICES ASSUME NEW i \in DOMAIN data, data[i].ts >= start PROVE FALSE
      BY Zenon DEF Range, Wanted
    <3> QED
      BY <1>1, <1>3, <1>5, IndexFinds, Zenon
  <2>3. Range(<<>>) = {} /\ DOMAIN <<>> = {}
    BY DEF Range
  <2> QED
    BY <2>1, <2>2, <2>3, Zenon
<1> QED
  BY <1>4, <1>5, Zenon

------------------------------------------------------------------------------
\* Recording: what the writer holds, across flushes, spills and crashes.

\* The records given to a writer, those in its buffer last.
Held(w) == w.file.data \o w.buffer

\* A writer counts its records and knows its place in the file; the header of
\* an open file is written out with the first records.
WriterOK(w) ==
    /\ w \in Writer
    /\ w.count = Len(w.file.data) + Len(w.buffer)
    /\ w.next_offset = Len(w.file.data) + 1
    /\ w.file.safe <= Len(w.file.data)
    /\ w.file.head \in {None, 0}
    /\ w.file.head = None => w.file.safe = 0

\* Records of the events made so far.
Traced(records, times) ==
    \A i \in DOMAIN records : /\ records[i].n \in DOMAIN times
                              /\ records[i].ts = times[records[i].n]

Numbered(records) ==
    \A i, j \in DOMAIN records : i < j => records[i].n < records[j].n

\* The offsets in the last part of the index are those of the records.
Located(idx, records) ==
    /\ Len(records) <= Len(idx)
    /\ \A i \in 1 .. Len(records) :
          idx[Len(idx) - Len(records) + i] = Entry(records[i], i)

\* The threads of the recorder and of the store.
ThreadsInv ==
    /\ owner \in {"nobody", "recorder", "store"}
    /\ writer = None <=> owner = "nobody"
    /\ recording \in BOOLEAN
    /\ recording => owner = "recorder"
    /\ ctl \in {"idle", "close", "reset"}
    /\ ctl = "close" => owner = "recorder"
    /\ ctl # "idle" => ~ recording

\* The writer holds records of events, in their order; the next one is later.
RecordsInv ==
    /\ made \in Seq(Times)
    /\ \A i, j \in DOMAIN made : i < j => made[i] <= made[j]
    /\ writer # None => /\ WriterOK(writer)
                        /\ Traced(Held(writer), made)
                        /\ Numbered(Held(writer))
    /\ ev # None => ev \in Record /\ Traced(<<ev>>, made)
    /\ ev # None /\ owner = "recorder" => \A i \in DOMAIN Held(writer) : Held(writer)[i].n < ev.n

\* What is promised is on the disk.
DiskInv ==
    /\ file # None => FileOK(file)
    /\ promised \in Nat
    /\ Disk # None => promised <= Disk.safe

\* The index of the store.
IndexInv ==
    /\ index # None => index \in Index
    /\ owner = "store" => index # None /\ Located(index, Held(writer))

StoreInv == ThreadsInv /\ RecordsInv /\ DiskInv /\ IndexInv

\* A writer taken apart.
LEMMA WriterParts ==
    ASSUME NEW w \in Writer
    PROVE  /\ w.buffer \in Seq(Record) /\ w.count \in Nat /\ w.next_offset \in Nat
           /\ w.file \in File /\ w.file.data \in Seq(Record) /\ w.file.safe \in Nat
           /\ w.file.head \in Nat \cup {None}
           /\ Len(w.file.data) \in Nat /\ Len(w.buffer) \in Nat
           /\ Held(w) \in Seq(Record) /\ Len(Held(w)) = Len(w.file.data) + Len(w.buffer)
<1>1. w.buffer \in Seq(Record) /\ w.count \in Nat /\ w.next_offset \in Nat /\ w.file \in File
  BY DEF Writer
<1>2. w.file.data \in Seq(Record) /\ w.file.safe \in Nat /\ w.file.head \in Nat \cup {None}
  BY <1>1 DEF File
<1>3. \A d, b \in Seq(Record) : /\ Len(d) \in Nat /\ d \o b \in Seq(Record)
                                /\ Len(d \o b) = Len(d) + Len(b)
  OBVIOUS
<1> QED
  BY <1>1, <1>2, <1>3, Zenon DEF Held

\* Lengths add up.
LEMMA Lengths ==
    ASSUME NEW d \in Seq(Record), NEW b \in Seq(Record)
    PROVE  /\ Len(d) \in Nat /\ d \o b \in Seq(Record) /\ Len(d \o b) = Len(d) + Len(b)
           /\ d \o <<>> = d /\ Len(<<>>) = 0 /\ <<>> \in Seq(Record)
           /\ \A r \in Record : /\ Append(b, r) \in Seq(Record) /\ Len(Append(b, r)) = Len(b) + 1
                                /\ d \o Append(b, r) = Append(d \o b, r)
  OBVIOUS

\* flush_buffer moves the buffer to the end of the data.
LEMMA BufferFlushed ==
    ASSUME NEW w, WriterOK(w)
    PROVE  /\ WriterOK(flush_buffer(w))
           /\ Held(flush_buffer(w)) = Held(w)
           /\ flush_buffer(w).file.data = Held(w)
           /\ flush_buffer(w).file.safe = w.file.safe
           /\ flush_buffer(w).count = w.count
<1> DEFINE v == flush_buffer(w)
<1>1. w \in Writer
  BY DEF WriterOK
<1>2. /\ w.buffer \in Seq(Record) /\ w.count \in Nat /\ w.next_offset \in Nat
      /\ w.file \in File /\ w.file.data \in Seq(Record) /\ w.file.safe \in Nat
      /\ Len(w.file.data) \in Nat /\ Len(w.buffer) \in Nat
      /\ Held(w) \in Seq(Record) /\ Len(Held(w)) = Len(w.file.data) + Len(w.buffer)
  BY <1>1, WriterParts, Zenon
<1>3. /\ v.buffer = <<>> /\ v.count = w.count /\ v.next_offset = w.next_offset + Len(w.buffer)
      /\ v.file = [w.file EXCEPT !.data = Held(w)]
  BY <1>1, Zenon DEF flush_buffer, Held, Writer
<1>4. v \in Writer
  <2>1. <<>> \in Seq(Record) /\ w.next_offset + Len(w.buffer) \in Nat
    BY <1>2
  <2>2. [w.file EXCEPT !.data = Held(w)] \in File
    BY <1>2, Zenon DEF File
  <2> QED
    BY <1>1, <1>2, <2>1, <2>2, Zenon DEF flush_buffer, Held, Writer
<1> HIDE DEF v
<1>5. v.file.data = Held(w) /\ v.file.safe = w.file.safe /\ v.file.head = w.file.head
  BY <1>2, <1>3, Zenon DEF File
<1>6. Held(v) = Held(w) /\ Len(v.buffer) = 0
  BY <1>2, <1>3, <1>5, Lengths, Zenon DEF Held
<1>7. /\ w.count = Len(w.file.data) + Len(w.buffer) /\ w.next_offset = Len(w.file.data) + 1
      /\ w.file.safe <= Len(w.file.data)
  BY Zenon DEF WriterOK
<1>8. /\ v.count = Len(v.file.data) + Len(v.buffer)
      /\ v.next_offset = Len(v.file.data) + 1
      /\ v.file.safe <= Len(v.file.data)
  <2> DEFINE a == Len(w.file.data)
             b == Len(w.buffer)
             c == v.file.safe
  <2>1. a \in Nat /\ b \in Nat /\ Len(v.file.data) = a + b
    BY <1>2, <1>5, Zenon
  <2>2. v.count = a + b /\ v.next_offset = (a + 1) + b /\ c <= a /\ c \in Nat
    BY <1>2, <1>3, <1>5, <1>7, Zenon
  <2>3. v.count = Len(v.file.data) + Len(v.buffer)
    <3>1. a + b = (a + b) + 0
      <4> HIDE DEF a, b
      <4> QED
        BY <2>1
    <3> QED
      BY <1>6, <2>1, <2>2, <3>1, Zenon
  <2>4. (a + 1) + b = (a + b) + 1 /\ c <= a + b
    <3>1. c \in Nat /\ c <= a
      BY <2>2, Zenon
    <3> HIDE DEF a, b, c
    <3> QED
      BY <2>1, <3>1
  <2> QED
    BY <2>1, <2>2, <2>3, <2>4, Zenon
<1>9. WriterOK(v)
  BY <1>4, <1>5, <1>8, Zenon DEF WriterOK
<1> QED
  BY <1>3, <1>5, <1>6, <1>9, Zenon DEF v

\* write puts one record at the end, buffered or flushed, at the offset that
\* it returns.
LEMMA RecordWritten ==
    ASSUME NEW w, WriterOK(w), NEW r \in Record
    PROVE  /\ WriterOK(WriteRecord(w, r))
           /\ Held(WriteRecord(w, r)) = Append(Held(w), r)
           /\ WriteRecord(w, r).file.safe = w.file.safe
           /\ OffsetOf(w) = Len(Held(w)) + 1
<1> DEFINE v == [w EXCEPT !.buffer = Append(@, r), !.count = @ + 1]
<1>1. w \in Writer
  BY DEF WriterOK
<1>2. /\ w.buffer \in Seq(Record) /\ w.count \in Nat /\ w.next_offset \in Nat /\ w.file \in File
      /\ w.file.data \in Seq(Record) /\ Len(w.file.data) \in Nat /\ Len(w.buffer) \in Nat
      /\ Len(Held(w)) = Len(w.file.data) + Len(w.buffer)
  BY <1>1, WriterParts, Zenon
<1>3. WriteRecord(w, r) = IF Len(v.buffer) >= FlushCount THEN flush_buffer(v) ELSE v
  BY Zenon DEF WriteRecord
<1>4. /\ v.buffer = Append(w.buffer, r) /\ v.count = w.count + 1
      /\ v.next_offset = w.next_offset /\ v.file = w.file
  BY <1>1, Zenon DEF Writer
<1>5. v \in Writer
  <2>1. Append(w.buffer, r) \in Seq(Record) /\ w.count + 1 \in Nat
    BY <1>2, Lengths
  <2> QED
    BY <1>1, <2>1, Zenon DEF Writer
<1> HIDE DEF v
<1>6. /\ w.count = Len(w.file.data) + Len(w.buffer) /\ w.next_offset = Len(w.file.data) + 1
  BY Zenon DEF WriterOK
<1>7. Held(v) = Append(Held(w), r) /\ Len(v.buffer) = Len(w.buffer) + 1
  <2>1. w.file.data \o Append(w.buffer, r) = Append(w.file.data \o w.buffer, r)
        /\ Len(Append(w.buffer, r)) = Len(w.buffer) + 1
    BY <1>2, Lengths, Zenon
  <2> QED
    BY <1>4, <2>1, Zenon DEF Held
<1>8. \A a, b \in Nat : (a + b) + 1 = a + (b + 1) /\ (a + 1) + b = (a + b) + 1
  OBVIOUS
<1>9. v.count = Len(v.file.data) + Len(v.buffer)
  <2>1. v.count = (Len(w.file.data) + Len(w.buffer)) + 1
    BY <1>4, <1>6, Zenon
  <2>2. Len(v.file.data) + Len(v.buffer) = Len(w.file.data) + (Len(w.buffer) + 1)
    BY <1>4, <1>7, Zenon
  <2> QED
    <3>1. (Len(w.file.data) + Len(w.buffer)) + 1 = Len(w.file.data) + (Len(w.buffer) + 1)
      BY <1>2, <1>8, Zenon
    <3> QED
      BY <2>1, <2>2, <3>1, Zenon
<1>10. WriterOK(v)
  BY <1>4, <1>5, <1>9, Zenon DEF WriterOK
<1>11. OffsetOf(w) = Len(Held(w)) + 1
  BY <1>2, <1>6, <1>8, Zenon DEF OffsetOf
<1> QED
  BY <1>3, <1>4, <1>7, <1>10, <1>11, BufferFlushed, Zenon

\* The writer whose file has n records on the disk.
SpilledTo(w, n) == [w EXCEPT !.file = Spilled(@, n)]

\* Writing out more of the C buffer changes no record.
LEMMA FileSpilled ==
    ASSUME NEW w, WriterOK(w), NEW n \in Nat, n <= Len(w.file.data)
    PROVE  /\ WriterOK(SpilledTo(w, n)) /\ Held(SpilledTo(w, n)) = Held(w)
           /\ SpilledTo(w, n).count = w.count /\ SpilledTo(w, n).file.safe = n
           /\ SpilledTo(w, n).file.data = w.file.data
<1> DEFINE v == SpilledTo(w, n)
<1>1. w \in Writer
  BY DEF WriterOK
<1>2. /\ w.buffer \in Seq(Record) /\ w.count \in Nat /\ w.next_offset \in Nat /\ w.file \in File
      /\ w.file.data \in Seq(Record)
  BY <1>1, WriterParts, Zenon
<1>3. /\ v.buffer = w.buffer /\ v.count = w.count /\ v.next_offset = w.next_offset
      /\ v.file = Spilled(w.file, n)
  BY <1>1, Zenon DEF Writer, SpilledTo
<1> DEFINE h == IF w.file.head = None THEN 0 ELSE w.file.head
<1>4. Spilled(w.file, n).data = w.file.data /\ Spilled(w.file, n).safe = n
      /\ Spilled(w.file, n).head = h
  BY <1>2, Zenon DEF Spilled, File
<1>5. h = 0
  BY Zenon DEF WriterOK
<1>6. Spilled(w.file, n) \in File
  <2>1. h \in Nat \cup {None}
    BY <1>5
  <2> QED
    BY <1>2, <2>1, Zenon DEF Spilled, File
<1>7. v \in Writer
  BY <1>1, <1>6, Zenon DEF Writer, SpilledTo
<1> HIDE DEF v
<1>8. 0 # None
  BY FileAssumption
<1>9. WriterOK(v)
  BY <1>3, <1>4, <1>5, <1>7, <1>8, Zenon DEF WriterOK
<1> QED
  BY <1>3, <1>4, <1>5, <1>9, Zenon DEF Held, v

\* flush puts every record on the disk.
LEMMA WriterFlushed ==
    ASSUME NEW w, WriterOK(w)
    PROVE  LET v == FlushWriter(w)
           IN  /\ WriterOK(v) /\ Held(v) = Held(w) /\ v.count = w.count
               /\ v.file.data = Held(w) /\ v.file.safe = Len(Held(w)) /\ w.count = Len(Held(w))
<1> DEFINE u == flush_buffer(w)
           v == FlushWriter(w)
<1>1. WriterOK(u) /\ Held(u) = Held(w) /\ u.file.data = Held(w) /\ u.count = w.count
  BY BufferFlushed, Zenon
<1>2. v = SpilledTo(u, Len(u.file.data))
  BY Zenon DEF FlushWriter, AllSafe, SpilledTo
<1> HIDE DEF u, v
<1>3. Len(u.file.data) \in Nat /\ Len(u.file.data) <= Len(u.file.data)
  <2>1. Len(u.file.data) \in Nat
    BY <1>1, WriterParts, Zenon DEF WriterOK
  <2> QED
    BY <2>1
<1>4. w.count = Len(Held(w))
  BY WriterParts, Zenon DEF WriterOK
<1>5. /\ WriterOK(v) /\ Held(v) = Held(u) /\ v.count = u.count
      /\ v.file.safe = Len(u.file.data) /\ v.file.data = u.file.data
  BY <1>1, <1>2, <1>3, FileSpilled, Zenon
<1> QED
  BY <1>1, <1>4, <1>5, Zenon DEF v

\* close leaves a file with every record and the right header.
LEMMA WriterClosed ==
    ASSUME NEW w, WriterOK(w), InOrder(Held(w))
    PROVE  FileOK(CloseWriter(w)) /\ CloseWriter(w).safe = w.count
<1> DEFINE f == FlushWriter(w).file
           g == CloseWriter(w)
<1>1. /\ WriterOK(FlushWriter(w)) /\ f.data = Held(w) /\ f.safe = Len(Held(w))
      /\ w.count = Len(Held(w))
  BY WriterFlushed, Zenon
<1>2. f \in File /\ w.count \in Nat
  BY <1>1, WriterParts, Zenon DEF WriterOK
<1>3. g = [f EXCEPT !.head = w.count]
  BY Zenon DEF CloseWriter
<1> HIDE DEF f, g
<1>4. g \in File /\ g.head = w.count /\ g.data = f.data /\ g.safe = f.safe
  BY <1>2, <1>3 DEF File
<1>5. None \notin Nat
  BY FileAssumption
<1> QED
  BY <1>1, <1>2, <1>4, <1>5, Zenon DEF FileOK, g

\* A crash leaves a file with the records that were on the disk.
LEMMA WriterDies ==
    ASSUME NEW w, WriterOK(w), InOrder(Held(w))
    PROVE  FileOK(Survived(w.file)) /\ Survived(w.file).safe = w.file.safe
<1> DEFINE g == Survived(w.file)
           d == w.file.data
           n == w.file.safe
<1>1. w.file \in File /\ d \in Seq(Record) /\ n \in Nat /\ n <= Len(d)
  BY WriterParts, Zenon DEF WriterOK
<1>2. g = [w.file EXCEPT !.data = SubSeq(d, 1, n)]
  BY Zenon DEF Survived
<1>3. /\ SubSeq(d, 1, n) \in Seq(Record) /\ Len(SubSeq(d, 1, n)) = n
      /\ DOMAIN SubSeq(d, 1, n) = 1 .. n
      /\ \A i \in 1 .. n : SubSeq(d, 1, n)[i] = d[i]
  <2> HIDE DEF d, n
  <2> QED
    BY <1>1
<1>4. g \in File /\ g.head = w.file.head /\ g.data = SubSeq(d, 1, n) /\ g.safe = n
  BY <1>1, <1>2, <1>3, Zenon DEF File
<1>5. ASSUME NEW i \in 1 .. n PROVE SubSeq(d, 1, n)[i] = Held(w)[i] /\ i \in DOMAIN Held(w)
  <2>1. \A a, b \in Seq(Record) : \A k \in 1 .. Len(a) :
          (a \o b)[k] = a[k] /\ k \in DOMAIN (a \o b)
    OBVIOUS
  <2>2. i \in 1 .. Len(d) /\ w.buffer \in Seq(Record)
    <3>1. Len(d) \in Nat /\ w.buffer \in Seq(Record)
      BY WriterParts, Zenon DEF WriterOK
    <3> HIDE DEF d, n
    <3> QED
      BY <1>1, <3>1
  <2> QED
    BY <1>1, <1>3, <2>1, <2>2, Zenon DEF Held
<1>6. InOrder(SubSeq(d, 1, n))
  BY <1>3, <1>5, Zenon DEF InOrder
<1>7. g.head = None => SubSeq(d, 1, n) = <<>>
  <2> SUFFICES ASSUME g.head = None PROVE SubSeq(d, 1, n) = <<>>
    OBVIOUS
  <2>1. n = 0
    BY <1>4, Zenon DEF WriterOK
  <2> HIDE DEF d, n
  <2> QED
    BY <1>1, <2>1
<1>8. g.head \in {None, 0}
  BY <1>4, Zenon DEF WriterOK
<1> QED
  BY <1>3, <1>4, <1>6, <1>7, <1>8, Zenon DEF FileOK

\* A new writer has truncated the file.
LEMMA WriterOpened ==
    WriterOK(OpenWriter) /\ Held(OpenWriter) = <<>> /\ OpenWriter.file.safe = 0
<1> DEFINE w == OpenWriter
<1>1. /\ w.buffer = <<>> /\ w.count = 0 /\ w.next_offset = 1
      /\ w.file = [head |-> None, data |-> <<>>, safe |-> 0]
  BY DEF OpenWriter
<1>2. w.file.head = None /\ w.file.data = <<>> /\ w.file.safe = 0
  BY <1>1
<1>3. w \in Writer
  <2>1. <<>> \in Seq(Record) /\ 0 \in Nat /\ 1 \in Nat /\ None \in Nat \cup {None}
    OBVIOUS
  <2>2. [head |-> None, data |-> <<>>, safe |-> 0] \in File
    BY <2>1, Zenon DEF File
  <2> QED
    BY <2>1, <2>2, Zenon DEF Writer, OpenWriter
<1>4. Len(<<>>) = 0 /\ 0 + 0 = 0 /\ 0 + 1 = 1 /\ 0 <= 0
  OBVIOUS
<1>5. <<>> \o <<>> = <<>>
  OBVIOUS
<1> HIDE DEF w
<1>6. WriterOK(w) /\ Held(w) = <<>>
  BY <1>1, <1>2, <1>3, <1>4, <1>5, Zenon DEF WriterOK, Held
<1> QED
  BY <1>2, <1>6, Zenon DEF w

\* Records of events are in the order of time if they are in the order of
\* their numbers.
LEMMA TracedInOrder ==
    ASSUME NEW times \in Seq(Times), \A i, j \in DOMAIN times : i < j => times[i] <= times[j],
           NEW records, Traced(records, times), Numbered(records)
    PROVE  InOrder(records)
  BY Zenon DEF Traced, Numbered, InOrder

\* One more event.
LEMMA OneMoreTime ==
    ASSUME NEW times \in Seq(Times), \A i, j \in DOMAIN times : i < j => times[i] <= times[j],
           NEW t \in Times, \A i \in DOMAIN times : times[i] <= t
    PROVE  LET new == Append(times, t)
           IN  /\ new \in Seq(Times) /\ \A i, j \in DOMAIN new : i < j => new[i] <= new[j]
               /\ Len(times) + 1 \in DOMAIN new /\ new[Len(times) + 1] = t
               /\ \A records : Traced(records, times) =>
                      /\ Traced(records, new)
                      /\ \A i \in DOMAIN records : records[i].n < Len(times) + 1
<1> DEFINE new == Append(times, t)
           n == Len(times)
<1>1. /\ new \in Seq(Times) /\ n \in Nat /\ DOMAIN times = 1 .. n /\ DOMAIN new = 1 .. n + 1
      /\ new[n + 1] = t /\ \A i \in 1 .. n : new[i] = times[i]
  OBVIOUS
<1> HIDE DEF new, n
<1>2. n + 1 \in 1 .. n + 1 /\ (\A i \in 1 .. n : i \in 1 .. n + 1 /\ i < n + 1)
      /\ (\A i, j \in 1 .. n + 1 : i < j => i \in 1 .. n /\ (j \in 1 .. n \/ j = n + 1))
  BY <1>1
<1>3. ASSUME NEW i \in DOMAIN new, NEW j \in DOMAIN new, i < j PROVE new[i] <= new[j]
  <2>1. i \in 1 .. n /\ new[i] = times[i] /\ (j \in 1 .. n \/ j = n + 1)
    BY <1>1, <1>2, <1>3, Zenon
  <2>2. CASE j \in 1 .. n
    BY <1>1, <1>3, <2>1, <2>2, Zenon
  <2>3. CASE j = n + 1
    BY <1>1, <2>1, <2>3, Zenon
  <2> QED
    BY <2>1, <2>2, <2>3, Zenon
<1>4. ASSUME NEW records, Traced(records, times)
      PROVE  Traced(records, new) /\ \A i \in DOMAIN records : records[i].n < n + 1
  BY <1>1, <1>2, <1>4, Zenon DEF Traced
<1> QED
  BY <1>1, <1>2, <1>3, <1>4, Zenon DEF new, n

\* One more record.
LEMMA OneMoreRecord ==
    ASSUME NEW records \in Seq(Record), NEW times, Traced(records, times), Numbered(records),
           NEW r \in Record, Traced(<<r>>, times), \A i \in DOMAIN records : records[i].n < r.n
    PROVE  Traced(Append(records, r), times) /\ Numbered(Append(records, r))
<1> DEFINE new == Append(records, r)
           n == Len(records)
<1>1. /\ n \in Nat /\ DOMAIN records = 1 .. n /\ DOMAIN new = 1 .. n + 1
      /\ new[n + 1] = r /\ \A i \in 1 .. n : new[i] = records[i]
  OBVIOUS
<1> HIDE DEF new, n
<1>2. \A i \in 1 .. n + 1 : i = n + 1 \/ i \in 1 .. n
  BY <1>1
<1>3. \A i, j \in 1 .. n + 1 : i < j => i \in 1 .. n /\ (j \in 1 .. n \/ j = n + 1)
  BY <1>1
<1>4. r.n \in DOMAIN times /\ r.ts = times[r.n]
  <2>1. 1 \in DOMAIN <<r>> /\ <<r>>[1] = r
    OBVIOUS
  <2> QED
    BY <2>1, Zenon DEF Traced
<1>5. Traced(new, times)
  BY <1>1, <1>2, <1>4, Zenon DEF Traced
<1>6. ASSUME NEW i \in DOMAIN new, NEW j \in DOMAIN new, i < j PROVE new[i].n < new[j].n
  <2>1. i \in 1 .. n /\ new[i] = records[i] /\ (j \in 1 .. n \/ j = n + 1)
    BY <1>1, <1>3, <1>6, Zenon
  <2>2. CASE j \in 1 .. n
    BY <1>1, <1>6, <2>1, <2>2, Zenon DEF Numbered
  <2>3. CASE j = n + 1
    BY <1>1, <2>1, <2>3, Zenon
  <2> QED
    BY <2>1, <2>2, <2>3, Zenon
<1> QED
  BY <1>5, <1>6, Zenon DEF new, Numbered

\* The entry of one more record.
LEMMA OneMoreEntry ==
    ASSUME NEW idx \in Index, NEW records \in Seq(Record), NEW r \in Record,
           Located(idx, records)
    PROVE  /\ Append(idx, Entry(r, Len(records) + 1)) \in Index
           /\ Located(Append(idx, Entry(r, Len(records) + 1)), Append(records, r))
<1> DEFINE e == Entry(r, Len(records) + 1)
           new == Append(idx, e)
           more == Append(records, r)
           n == Len(records)
           m == Len(idx)
<1>1. e \in [ts : Times, offset : Nat]
  BY DEF Entry, Record
<1> HIDE DEF e
<1>2. /\ n \in Nat /\ Len(more) = n + 1 /\ more[n + 1] = r /\ \A i \in 1 .. n : more[i] = records[i]
  OBVIOUS
<1>3. /\ m \in Nat /\ new \in Index /\ Len(new) = m + 1 /\ new[m + 1] = e
      /\ \A i \in 1 .. m : new[i] = idx[i]
  BY <1>1 DEF Index
<1> HIDE DEF new, more
<1>4. n <= m
  BY Zenon DEF Located
<1> HIDE DEF n, m
<1>5. ASSUME NEW i \in 1 .. n + 1 PROVE new[(m + 1) - (n + 1) + i] = Entry(more[i], i)
  <2>1. CASE i = n + 1
    <3>1. (m + 1) - (n + 1) + i = m + 1
      BY <1>2, <1>3, <1>4, <2>1
    <3> QED
      BY <1>2, <1>3, <2>1, <3>1, Zenon DEF e, n
  <2>2. CASE i # n + 1
    <3>1. i \in 1 .. n /\ (m + 1) - (n + 1) + i = m - n + i /\ m - n + i \in 1 .. m
      BY <1>2, <1>3, <1>4, <2>2
    <3>2. idx[m - n + i] = Entry(records[i], i)
      BY <3>1, Zenon DEF Located, n, m
    <3> QED
      BY <1>2, <1>3, <3>1, <3>2, Zenon
  <2> QED
    BY <2>1, <2>2
<1>6. n + 1 <= m + 1
  BY <1>2, <1>3, <1>4
<1>7. Located(new, more)
  BY <1>2, <1>3, <1>5, <1>6, Zenon DEF Located
<1> QED
  BY <1>3, <1>7, Zenon DEF new, more, e, n

\* build makes an index.
LEMMA BuildIndex ==
    ASSUME NEW f, f # None => f.data \in Seq(Record), NEW idx \in build(f)
    PROVE  idx \in Index
<1>1. CASE ~ Indexable(f)
  <2>1. idx = <<>>
    BY <1>1, Zenon DEF build
  <2> QED
    BY <2>1 DEF Index
<1>2. CASE Indexable(f)
  <2> DEFINE D == DOMAIN f.data
             list == [i \in D |-> Entry(f.data[i], i)]
  <2>1. PICK p \in [D -> D] : idx = [i \in D |-> list[p[i]]]
    BY <1>2, Zenon DEF build
  <2>2. f.data \in Seq(Record)
    BY <1>2, Zenon DEF Indexable
  <2>3. D = 1 .. Len(f.data) /\ Len(f.data) \in Nat /\ \A i \in D : f.data[i] \in Record /\ i \in Nat
    BY <2>2
  <2>4. ASSUME NEW i \in D PROVE list[i] \in [ts : Times, offset : Nat]
    <3>1. Entry(f.data[i], i) \in [ts : Times, offset : Nat]
      <4>1. f.data[i].ts \in Times /\ i \in Nat
        BY <2>3 DEF Record
      <4> QED
        BY <4>1, Zenon DEF Entry
    <3> QED
      BY <3>1, Zenon
  <2> HIDE DEF list, D
  <2>5. idx \in [D -> [ts : Times, offset : Nat]]
    BY <2>1, <2>4, Zenon
  <2>6. \A k \in Nat : \A S : \A g \in [1 .. k -> S] : g \in Seq(S)
    OBVIOUS
  <2> QED
    BY <2>3, <2>5, <2>6, Zenon DEF Index
<1> QED
  BY <1>1, <1>2, Zenon

\* What the writer holds is in order, and the file has it.
LEMMA HeldInOrder ==
    ASSUME RecordsInv, writer # None
    PROVE  /\ WriterOK(writer) /\ InOrder(Held(writer)) /\ Held(writer) \in Seq(Record)
           /\ writer.count = Len(Held(writer)) /\ writer.file.data \in Seq(Record)
<1>1. WriterOK(writer) /\ Traced(Held(writer), made) /\ Numbered(Held(writer))
  BY Zenon DEF RecordsInv
<1>2. InOrder(Held(writer))
  BY <1>1, TracedInOrder, Zenon DEF RecordsInv
<1>3. Held(writer) \in Seq(Record) /\ writer.file.data \in Seq(Record)
      /\ writer.count = Len(Held(writer))
  BY <1>1, WriterParts, Zenon DEF WriterOK
<1> QED
  BY <1>1, <1>2, <1>3, Zenon

\* Writers are not None.
LEMMA WriterIsThere ==
    ASSUME NEW w, WriterOK(w)
    PROVE  w # None
  BY FileAssumption DEF WriterOK

\* While a writer is open, its file is the one on the disk.
LEMMA DiskOpen ==
    ASSUME RecordsInv, writer # None
    PROVE  Disk = writer.file /\ writer.file # None
<1>1. writer.file \in File
  BY WriterParts, Zenon DEF RecordsInv, WriterOK
<1>2. None \notin File
  BY FileAssumption
<1> QED
  BY <1>1, <1>2, Zenon DEF Disk

\* start opens a new file, whatever was there.
LEMMA StartStep == ASSUME StoreInv, Start PROVE StoreInv'
<1>1. /\ ctl = "idle" /\ ~ recording /\ writer = None
      /\ writer' = OpenWriter /\ owner' = "recorder" /\ promised' = 0 /\ recording' = TRUE
      /\ file' = file /\ ev' = ev /\ ctl' = ctl /\ made' = made /\ index' = index
  BY Zenon DEF Start
<1>2. WriterOK(writer') /\ Held(writer') = <<>> /\ writer'.file.safe = 0 /\ writer' # None
  BY <1>1, WriterOpened, WriterIsThere, Zenon
<1>3. DOMAIN <<>> = {} /\ 0 \in Nat /\ 0 <= 0
  OBVIOUS
<1>4. ThreadsInv'
  BY <1>1, <1>2, Zenon DEF StoreInv, ThreadsInv
<1>5. RecordsInv'
  BY <1>1, <1>2, <1>3, Zenon DEF StoreInv, RecordsInv, Traced, Numbered
<1>6. DiskInv'
  BY <1>1, <1>2, <1>3, Zenon DEF StoreInv, DiskInv, Disk
<1>7. IndexInv'
  BY <1>1, Zenon DEF StoreInv, IndexInv
<1> QED
  BY <1>4, <1>5, <1>6, <1>7, Zenon DEF StoreInv

\* An event gets the next number and a time that is not before the others.
LEMMA NextEvent ==
    ASSUME RecordsInv, NEW sym \in SymbolSet, NEW ts \in Times, Later(ts), NEW r,
           r = NextRecord(sym, ts), made' = Append(made, ts)
    PROVE  /\ r \in Record /\ Traced(<<r>>, made')
           /\ made' \in Seq(Times) /\ \A i, j \in DOMAIN made' : i < j => made'[i] <= made'[j]
           /\ \A records : Traced(records, made) =>
                  Traced(records, made') /\ \A i \in DOMAIN records : records[i].n < r.n
<1>1. made \in Seq(Times) /\ \A i, j \in DOMAIN made : i < j => made[i] <= made[j]
  BY Zenon DEF RecordsInv
<1>2. r.n = Len(made) + 1 /\ r.ts = ts
  BY DEF NextRecord
<1>3. r \in Record
  <2>1. Len(made) + 1 \in Nat
    BY <1>1
  <2> QED
    BY <2>1, Zenon DEF NextRecord, Record
<1>4. /\ made' \in Seq(Times) /\ \A i, j \in DOMAIN made' : i < j => made'[i] <= made'[j]
      /\ Len(made) + 1 \in DOMAIN made' /\ made'[Len(made) + 1] = ts
      /\ \A records : Traced(records, made) =>
             /\ Traced(records, made')
             /\ \A i \in DOMAIN records : records[i].n < Len(made) + 1
  BY <1>1, OneMoreTime, Zenon DEF Later
<1>5. Traced(<<r>>, made')
  <2>1. \A i \in DOMAIN <<r>> : <<r>>[i] = r
    OBVIOUS
  <2> QED
    BY <1>2, <1>4, <2>1, Zenon DEF Traced
<1> QED
  BY <1>2, <1>3, <1>4, <1>5, Zenon

\* The test of recording_ keeps the event for the write.
LEMMA EventTestStep ==
    ASSUME StoreInv, NEW sym \in SymbolSet, NEW ts \in Times, EventTest(sym, ts)
    PROVE  StoreInv'
<1>1. /\ Later(ts) /\ ev = None /\ recording
      /\ ev' = NextRecord(sym, ts) /\ made' = Append(made, ts)
      /\ UNCHANGED <<writer, owner, file, recording, ctl, index, promised>>
  BY Zenon DEF EventTest
<1>2. /\ ev' \in Record /\ Traced(<<ev'>>, made')
      /\ made' \in Seq(Times) /\ \A i, j \in DOMAIN made' : i < j => made'[i] <= made'[j]
      /\ \A records : Traced(records, made) =>
             Traced(records, made') /\ \A i \in DOMAIN records : records[i].n < ev'.n
  BY <1>1, NextEvent, Zenon DEF StoreInv
<1>3. writer' = writer /\ owner' = owner /\ file' = file /\ recording' = recording
      /\ ctl' = ctl /\ index' = index /\ promised' = promised
  BY <1>1, Zenon
<1>4. owner = "recorder" => writer # None
  BY Zenon DEF StoreInv, ThreadsInv
<1>5. RecordsInv'
  BY <1>2, <1>3, <1>4, Zenon DEF StoreInv, RecordsInv
<1> QED
  BY <1>3, <1>5, Zenon DEF StoreInv, ThreadsInv, DiskInv, Disk, IndexInv

\* The write of an event that passed the test: into the file that is open now,
\* or nowhere.
LEMMA EventWriteStep == ASSUME StoreInv, EventWrite PROVE StoreInv'
<1>1. /\ ev # None /\ ev' = None /\ made' = made /\ index' = index /\ promised' = promised
  BY Zenon DEF EventWrite
<1>2. CASE /\ owner = "recorder" /\ writer' = WriteRecord(writer, ev)
           /\ UNCHANGED <<owner, file, recording, ctl>>
  <2>1. /\ owner' = owner /\ file' = file /\ recording' = recording /\ ctl' = ctl
        /\ writer # None /\ ev \in Record /\ Traced(<<ev>>, made)
        /\ WriterOK(writer) /\ Traced(Held(writer), made) /\ Numbered(Held(writer))
        /\ \A i \in DOMAIN Held(writer) : Held(writer)[i].n < ev.n
    BY <1>1, <1>2, Zenon DEF StoreInv, RecordsInv, ThreadsInv
  <2>2. /\ WriterOK(writer') /\ Held(writer') = Append(Held(writer), ev)
        /\ writer'.file.safe = writer.file.safe /\ writer' # None
    BY <1>2, <2>1, RecordWritten, WriterIsThere, Zenon
  <2>3. Held(writer) \in Seq(Record)
    BY <2>1, WriterParts, Zenon DEF WriterOK
  <2>4. Traced(Held(writer'), made) /\ Numbered(Held(writer'))
    BY <2>1, <2>2, <2>3, OneMoreRecord, Zenon
  <2>5. RecordsInv'
    BY <1>1, <2>2, <2>4, Zenon DEF StoreInv, RecordsInv
  <2>6. ThreadsInv'
    BY <2>1, <2>2, Zenon DEF StoreInv, ThreadsInv
  <2>7. DiskInv'
    <3>1. Disk = writer.file /\ writer.file # None
      BY <2>1, DiskOpen, Zenon DEF StoreInv
    <3>2. Disk' = writer'.file
      BY <2>2, Zenon DEF Disk
    <3> QED
      BY <1>1, <2>1, <2>2, <3>1, <3>2, Zenon DEF StoreInv, DiskInv
  <2>8. IndexInv'
    BY <1>1, <1>2, <2>1, Zenon DEF StoreInv, IndexInv
  <2> QED
    BY <2>5, <2>6, <2>7, <2>8, Zenon DEF StoreInv
<1>3. CASE /\ owner # "recorder" /\ UNCHANGED <<writer, owner, file>>
           /\ \/ recording' = recording /\ ctl' = ctl
              \/ recording' = FALSE /\ ctl' = "idle"
  <2>1. writer' = writer /\ owner' = owner /\ file' = file /\ ~ recording
    BY <1>3, Zenon DEF StoreInv, ThreadsInv
  <2>2. ThreadsInv'
    <3>1. CASE recording' = recording /\ ctl' = ctl
      BY <2>1, <3>1, Zenon DEF StoreInv, ThreadsInv
    <3>2. CASE recording' = FALSE /\ ctl' = "idle"
      BY Zenon, <2>1, <3>2 DEF StoreInv, ThreadsInv
    <3> QED
      BY <1>3, <3>1, <3>2, Zenon
  <2>3. RecordsInv' /\ DiskInv' /\ IndexInv'
    BY <1>1, <2>1, Zenon DEF StoreInv, RecordsInv, DiskInv, Disk, IndexInv
  <2> QED
    BY <2>2, <2>3, Zenon DEF StoreInv
<1>4. CASE owner # "recorder" /\ ctl = "reset" /\ UNCHANGED <<writer, owner, file, recording, ctl>>
  <2>1. recording' = recording /\ ctl' = ctl
    BY <1>4, Zenon
  <2> QED
    BY <1>3, <1>4, <2>1, Zenon
<1>5. CASE owner # "recorder" /\ ctl' = "idle" /\ recording' = FALSE /\ UNCHANGED <<writer, owner, file>>
  BY <1>3, <1>5, Zenon
<1> QED
  BY <1>2, <1>4, <1>5, Zenon DEF EventWrite

\* A close, by stop, by the store or by its rebuild.
LEMMA CloseStep ==
    ASSUME StoreInv, writer # None, file' = CloseWriter(writer), promised' = writer.count,
           writer' = None, owner' = "nobody", ev' = ev, made' = made
    PROVE  RecordsInv' /\ DiskInv'
<1>1. WriterOK(writer) /\ InOrder(Held(writer))
  BY HeldInOrder, Zenon DEF StoreInv
<1>2. FileOK(file') /\ file'.safe = writer.count
  BY <1>1, WriterClosed, Zenon
<1>3. writer.count \in Nat /\ writer.count <= writer.count
  <2>1. writer.count \in Nat
    BY <1>1, WriterParts, Zenon DEF WriterOK
  <2> QED
    BY <2>1
<1> QED
  BY <1>2, <1>3, Zenon DEF StoreInv, RecordsInv, DiskInv, Disk

\* stop: the flag, the close and the reset.
LEMMA StopStep == ASSUME StoreInv, StopStore \/ StopClose \/ StopReset PROVE StoreInv'
<1>1. CASE StopStore
  <2>1. /\ recording /\ recording' = FALSE /\ ctl' = "close"
        /\ UNCHANGED <<writer, owner, file, ev, made, index, promised>>
    BY <1>1, Zenon DEF StopStore
  <2>2. /\ writer' = writer /\ owner' = owner /\ file' = file /\ ev' = ev /\ made' = made
        /\ index' = index /\ promised' = promised
    BY <2>1, Zenon
  <2>3. ThreadsInv'
    BY <2>1, <2>2, Zenon DEF StoreInv, ThreadsInv
  <2> QED
    BY <2>2, <2>3, Zenon DEF StoreInv, RecordsInv, DiskInv, Disk, IndexInv
<1>2. CASE StopClose
  <2>1. /\ ctl = "close" /\ ctl' = "reset" /\ file' = CloseWriter(writer)
        /\ promised' = writer.count /\ writer' = None /\ owner' = "nobody"
        /\ recording' = recording /\ ev' = ev /\ made' = made /\ index' = index
    BY <1>2, Zenon DEF StopClose
  <2>2. writer # None /\ ~ recording
    BY <2>1, Zenon DEF StoreInv, ThreadsInv
  <2>3. RecordsInv' /\ DiskInv'
    BY <2>1, <2>2, CloseStep, Zenon
  <2>4. ThreadsInv' /\ IndexInv'
    BY <2>1, <2>2, Zenon DEF StoreInv, ThreadsInv, IndexInv
  <2> QED
    BY <2>3, <2>4, Zenon DEF StoreInv
<1>3. CASE StopReset
  <2>1. /\ ctl' = "idle"
        /\ UNCHANGED <<writer, owner, file, recording, ev, made, index, promised>>
    BY <1>3, Zenon DEF StopReset
  <2>2. /\ writer' = writer /\ owner' = owner /\ file' = file /\ ev' = ev /\ made' = made
        /\ index' = index /\ promised' = promised /\ recording' = recording
    BY <2>1, Zenon
  <2>3. ThreadsInv'
    BY <2>1, <2>2 DEF StoreInv, ThreadsInv
  <2> QED
    BY <2>2, <2>3, Zenon DEF StoreInv, RecordsInv, DiskInv, Disk, IndexInv
<1> QED
  BY <1>1, <1>2, <1>3

\* The C library writes out what it likes, and the process may die.
LEMMA DiskStep == ASSUME StoreInv, Spill \/ Crash PROVE StoreInv'
<1>1. CASE Spill
  <2>1. PICK n \in writer.file.safe .. Len(writer.file.data) : writer' = SpilledTo(writer, n)
    BY <1>1, Zenon DEF Spill, SpilledTo
  <2>2. /\ writer # None
        /\ owner' = owner /\ file' = file /\ recording' = recording /\ ev' = ev /\ ctl' = ctl
        /\ made' = made /\ index' = index /\ promised' = promised
    BY <1>1, Zenon DEF Spill
  <2>3. WriterOK(writer) /\ writer.file.safe \in Nat /\ Len(writer.file.data) \in Nat
    BY <2>2, WriterParts, Zenon DEF StoreInv, RecordsInv, WriterOK
  <2>4. n \in Nat /\ n <= Len(writer.file.data) /\ writer.file.safe <= n
    BY <2>3
  <2>5. WriterOK(writer') /\ Held(writer') = Held(writer) /\ writer'.file.safe = n
        /\ writer' # None
    BY <2>1, <2>3, <2>4, FileSpilled, WriterIsThere, Zenon
  <2>6. promised <= n
    <3>1. promised \in Nat /\ promised <= writer.file.safe
      <4>1. Disk = writer.file /\ writer.file # None
        BY <2>2, DiskOpen, Zenon DEF StoreInv
      <4> QED
        BY <4>1, Zenon DEF StoreInv, DiskInv
    <3> QED
      BY <2>3, <2>4, <3>1
  <2>7. ThreadsInv' /\ RecordsInv' /\ IndexInv'
    BY <2>2, <2>5, Zenon DEF StoreInv, ThreadsInv, RecordsInv, IndexInv
  <2>8. DiskInv'
    BY <2>2, <2>5, <2>6, Zenon DEF StoreInv, DiskInv, Disk
  <2> QED
    BY <2>7, <2>8, Zenon DEF StoreInv
<1>2. CASE Crash
  <2>1. /\ writer # None /\ file' = Survived(writer.file) /\ writer' = None
        /\ owner' = "nobody" /\ index' = (IF owner = "store" THEN None ELSE index)
        /\ recording' = FALSE /\ ev' = None /\ ctl' = "idle"
        /\ made' = made /\ promised' = promised
    BY <1>2, Zenon DEF Crash
  <2>2. WriterOK(writer) /\ InOrder(Held(writer))
    BY <2>1, HeldInOrder, Zenon DEF StoreInv
  <2>3. FileOK(file') /\ file'.safe = writer.file.safe
    BY <2>1, <2>2, WriterDies, Zenon
  <2>4. Disk = writer.file /\ writer.file # None
    BY <2>1, DiskOpen, Zenon DEF StoreInv
  <2>5. DiskInv'
    BY <2>1, <2>3, <2>4, Zenon DEF StoreInv, DiskInv, Disk
  <2>6. ThreadsInv' /\ RecordsInv' /\ IndexInv'
    BY <2>1, Zenon DEF StoreInv, ThreadsInv, RecordsInv, IndexInv
  <2> QED
    BY <2>5, <2>6, Zenon DEF StoreInv
<1> QED
  BY <1>1, <1>2

\* The constructor of the store indexes the file as it is.
LEMMA StoreOpenStep == ASSUME StoreInv, StoreOpen PROVE StoreInv'
<1>1. index = None /\ index' \in build(Disk) /\ UNCHANGED <<rec_vars, made, promised>>
  BY Zenon DEF StoreOpen
<1>2. /\ writer' = writer /\ owner' = owner /\ file' = file /\ recording' = recording
      /\ ev' = ev /\ ctl' = ctl /\ made' = made /\ promised' = promised
  BY <1>1, Zenon DEF rec_vars
<1>3. Disk # None => Disk.data \in Seq(Record)
  <2>1. CASE writer # None
    BY <2>1, DiskOpen, HeldInOrder, Zenon DEF StoreInv
  <2>2. CASE writer = None
    BY <2>2, FileData, Zenon DEF StoreInv, DiskInv, Disk
  <2> QED
    BY <2>1, <2>2, Zenon
<1>4. index' \in Index
  BY <1>1, <1>3, BuildIndex, Zenon
<1>5. owner # "store"
  BY <1>1, Zenon DEF StoreInv, IndexInv
<1>6. IndexInv'
  BY <1>2, <1>4, <1>5, Zenon DEF IndexInv
<1> QED
  BY <1>2, <1>6, Zenon DEF StoreInv, ThreadsInv, RecordsInv, DiskInv, Disk

\* write of the store: the first one truncates the file, the others append.
LEMMA StoreWriteStep ==
    ASSUME StoreInv, NEW sym \in SymbolSet, NEW ts \in Times, StoreWrite(sym, ts)
    PROVE  StoreInv'
<1> DEFINE w == IF writer = None THEN OpenWriter ELSE writer
           r == NextRecord(sym, ts)
<1>1. /\ index # None /\ owner # "recorder" /\ ctl = "idle" /\ ~ recording /\ Later(ts)
      /\ writer' = WriteRecord(w, r) /\ owner' = "store"
      /\ index' = Append(index, Entry(r, OffsetOf(w)))
      /\ made' = Append(made, ts)
      /\ promised' = (IF writer = None THEN 0 ELSE promised)
      /\ file' = file /\ recording' = recording /\ ev' = ev /\ ctl' = ctl
  BY Zenon DEF StoreWrite
<1>2. /\ r \in Record /\ Traced(<<r>>, made')
      /\ made' \in Seq(Times) /\ \A i, j \in DOMAIN made' : i < j => made'[i] <= made'[j]
      /\ \A records : Traced(records, made) =>
             Traced(records, made') /\ \A i \in DOMAIN records : records[i].n < r.n
  BY <1>1, NextEvent, Zenon DEF StoreInv
<1> HIDE DEF r
<1>3. /\ WriterOK(w) /\ Traced(Held(w), made) /\ Numbered(Held(w)) /\ Located(index, Held(w))
      /\ promised' \in Nat /\ promised' <= w.file.safe
  <2>1. CASE writer = None
    <3>1. WriterOK(w) /\ Held(w) = <<>> /\ w.file.safe = 0
      BY <2>1, WriterOpened, Zenon
    <3>2. DOMAIN <<>> = {} /\ Len(<<>>) = 0 /\ 0 \in Nat /\ 0 <= 0 /\ 1 .. 0 = {}
      OBVIOUS
    <3>3. 0 <= Len(index)
      <4>1. index \in Index
        BY <1>1, Zenon DEF StoreInv, IndexInv
      <4> QED
        BY <4>1 DEF Index
    <3>4. Traced(<<>>, made) /\ Numbered(<<>>)
      BY <3>2, Zenon DEF Traced, Numbered
    <3>5. Located(index, <<>>)
      BY <3>2, <3>3, Zenon DEF Located
    <3> QED
      BY <1>1, <2>1, <3>1, <3>2, <3>4, <3>5, Zenon
  <2>2. CASE writer # None
    <3>1. w = writer /\ promised' = promised
      BY <1>1, <2>2, Zenon
    <3>2. owner = "store"
      BY <1>1, <2>2, Zenon DEF StoreInv, ThreadsInv
    <3>3. Disk = writer.file /\ writer.file # None
      BY <2>2, DiskOpen, Zenon DEF StoreInv
    <3> QED
      BY <2>2, <3>1, <3>2, <3>3, Zenon DEF StoreInv, RecordsInv, DiskInv, IndexInv
  <2> QED
    BY <2>1, <2>2, Zenon
<1> HIDE DEF w
<1>4. /\ WriterOK(writer') /\ Held(writer') = Append(Held(w), r)
      /\ writer'.file.safe = w.file.safe /\ OffsetOf(w) = Len(Held(w)) + 1 /\ writer' # None
  BY <1>1, <1>2, <1>3, RecordWritten, WriterIsThere, Zenon
<1>5. Held(w) \in Seq(Record)
  BY <1>3, WriterParts, Zenon DEF WriterOK
<1>6. Traced(Held(writer'), made') /\ Numbered(Held(writer'))
  BY <1>2, <1>3, <1>4, <1>5, OneMoreRecord, Zenon
<1>7. index' \in Index /\ Located(index', Held(writer'))
  <2>1. index \in Index
    BY <1>1, Zenon DEF StoreInv, IndexInv
  <2>2. index' = Append(index, Entry(r, Len(Held(w)) + 1))
    BY <1>1, <1>4, Zenon
  <2> QED
    BY <1>2, <1>3, <1>4, <1>5, <2>1, <2>2, OneMoreEntry, Zenon
<1>8. index' # None
  BY <1>7, FileAssumption, Zenon
<1>9. RecordsInv'
  <2>1. owner' # "recorder" /\ (ev' # None => ev' \in Record /\ Traced(<<ev'>>, made'))
    BY <1>1, <1>2, Zenon DEF StoreInv, RecordsInv
  <2> QED
    BY <1>2, <1>4, <1>6, <2>1, Zenon DEF RecordsInv
<1>10. ThreadsInv'
  BY <1>1, <1>4, Zenon DEF StoreInv, ThreadsInv
<1>11. DiskInv'
  BY <1>1, <1>3, <1>4, Zenon DEF StoreInv, DiskInv, Disk
<1>12. IndexInv'
  BY <1>7, <1>8, Zenon DEF IndexInv
<1> QED
  BY <1>9, <1>10, <1>11, <1>12, Zenon DEF StoreInv

\* flush, close and rebuild_index of the store.
LEMMA StoreCloseStep ==
    ASSUME StoreInv, StoreFlush \/ StoreClose \/ StoreRebuild
    PROVE  StoreInv'
<1>1. CASE StoreFlush
  <2>1. /\ owner = "store" /\ writer' = FlushWriter(writer) /\ promised' = writer.count
        /\ owner' = owner /\ file' = file /\ recording' = recording /\ ev' = ev /\ ctl' = ctl
        /\ made' = made /\ index' = index
    BY <1>1, Zenon DEF StoreFlush
  <2>2. writer # None /\ WriterOK(writer) /\ writer.count \in Nat
    <3>1. writer # None /\ WriterOK(writer)
      BY <2>1, Zenon DEF StoreInv, ThreadsInv, RecordsInv
    <3> QED
      BY <3>1, WriterParts, Zenon DEF WriterOK
  <2>3. /\ WriterOK(writer') /\ Held(writer') = Held(writer) /\ writer'.file.safe = writer.count
        /\ writer' # None
    BY <2>1, <2>2, WriterFlushed, WriterIsThere, Zenon
  <2>4. writer.count <= writer.count
    BY <2>2
  <2>5. ThreadsInv' /\ RecordsInv' /\ IndexInv'
    BY <2>1, <2>2, <2>3, Zenon DEF StoreInv, ThreadsInv, RecordsInv, IndexInv
  <2>6. DiskInv'
    BY <2>1, <2>2, <2>3, <2>4, Zenon DEF StoreInv, DiskInv, Disk
  <2> QED
    BY <2>5, <2>6, Zenon DEF StoreInv
<1>2. CASE StoreClose
  <2>1. /\ owner = "store" /\ file' = CloseWriter(writer) /\ promised' = writer.count
        /\ writer' = None /\ owner' = "nobody" /\ recording' = recording /\ ev' = ev
        /\ ctl' = ctl /\ made' = made /\ index' = index
    BY <1>2, Zenon DEF StoreClose
  <2>2. writer # None
    BY <2>1, Zenon DEF StoreInv, ThreadsInv
  <2>3. RecordsInv' /\ DiskInv'
    BY <2>1, <2>2, CloseStep, Zenon
  <2>4. ThreadsInv' /\ IndexInv'
    BY <2>1, <2>2, Zenon DEF StoreInv, ThreadsInv, IndexInv
  <2> QED
    BY <2>3, <2>4, Zenon DEF StoreInv
<1>3. CASE StoreRebuild
  <2>1. /\ owner # "recorder" /\ index' \in build(file')
        /\ recording' = recording /\ ev' = ev /\ ctl' = ctl /\ made' = made
    BY <1>3, Zenon DEF StoreRebuild
  <2>2. RecordsInv' /\ DiskInv' /\ writer' = None /\ owner' = "nobody"
    <3>1. CASE owner = "store"
      <4>1. /\ file' = CloseWriter(writer) /\ promised' = writer.count
            /\ writer' = None /\ owner' = "nobody"
        BY <1>3, <3>1, Zenon DEF StoreRebuild
      <4>2. writer # None
        BY <3>1, Zenon DEF StoreInv, ThreadsInv
      <4> QED
        BY <2>1, <4>1, <4>2, CloseStep, Zenon
    <3>2. CASE owner # "store"
      <4>1. file' = file /\ promised' = promised /\ writer' = writer /\ owner' = owner
        BY <1>3, <3>2, Zenon DEF StoreRebuild
      <4>2. owner = "nobody" /\ writer = None
        BY <2>1, <3>2, Zenon DEF StoreInv, ThreadsInv
      <4> QED
        BY <2>1, <4>1, <4>2, Zenon DEF StoreInv, RecordsInv, DiskInv, Disk
    <3> QED
      BY <3>1, <3>2, Zenon
  <2>3. ThreadsInv'
    BY <2>1, <2>2, Zenon DEF StoreInv, ThreadsInv
  <2>4. index' \in Index
    BY <2>1, <2>2, FileData, BuildIndex, Zenon DEF DiskInv
  <2>5. IndexInv'
    BY <2>2, <2>4, Zenon DEF IndexInv
  <2> QED
    BY <2>2, <2>3, <2>5, Zenon DEF StoreInv
<1> QED
  BY <1>1, <1>2, <1>3

\* Nothing happens to the tick files.
LEMMA StoreKept == ASSUME StoreInv, UNCHANGED store_vars PROVE StoreInv'
<1>1. /\ writer' = writer /\ owner' = owner /\ file' = file /\ recording' = recording /\ ev' = ev
      /\ ctl' = ctl /\ made' = made /\ index' = index /\ promised' = promised
  BY Zenon DEF store_vars, rec_vars
<1> QED
  BY <1>1, Zenon DEF StoreInv, ThreadsInv, RecordsInv, DiskInv, Disk, IndexInv

\* A step of a replay opens the store, or leaves the files alone.
LEMMA ReplayReads == ASSUME ReplayStep PROVE StoreOpen \/ UNCHANGED store_vars
<1>1. CASE Load
  BY <1>1, Zenon DEF Load
<1>2. CASE Player
  BY <1>2, Zenon DEF Player, StartRunning, StartLoop, Pick, Callback, WaitIfPaused, ClockWait,
                     WakeUp, PublishTest, Publish, Finish
<1>3. CASE Other
  BY <1>3, Zenon DEF Other, Stop, StopMerger, Unpause, Notify, Pause, Seek, ChangeSpeed
<1>4. CASE TimePasses
  BY <1>4, Zenon DEF TimePasses
<1> QED
  BY <1>1, <1>2, <1>3, <1>4, Zenon DEF ReplayStep

\* Every step keeps StoreInv.
LEMMA StoreStep == ASSUME StoreInv, [DataNext]_data_vars PROVE StoreInv'
<1>1. CASE RecordStep
  <2>1. StoreNext
    BY <1>1, Zenon DEF RecordStep
  <2>2. ASSUME NEW sym \in SymbolSet, NEW ts \in Times, EventTest(sym, ts) PROVE StoreInv'
    BY <2>2, EventTestStep, Zenon
  <2>3. ASSUME NEW sym \in SymbolSet, NEW ts \in Times, StoreWrite(sym, ts) PROVE StoreInv'
    BY <2>3, StoreWriteStep, Zenon
  <2> QED
    BY <2>1, <2>2, <2>3, StartStep, EventWriteStep, StopStep, DiskStep, StoreOpenStep,
       StoreCloseStep, Zenon DEF StoreNext
<1>2. CASE ReplayStep
  BY <1>2, ReplayReads, StoreOpenStep, StoreKept, Zenon
<1>3. CASE UNCHANGED vars
  BY <1>3, StoreKept, Zenon DEF vars
<1> QED
  BY <1>1, <1>2, <1>3, PartsMove, Zenon

\* The files at the beginning: what an earlier recording left.
LEMMA StoreStarts == ASSUME DataInit PROVE StoreInv
<1>1. /\ config \in Configs /\ writer = None /\ owner = "nobody" /\ recording = FALSE /\ ev = None
      /\ ctl = "idle" /\ made = <<>> /\ index = None /\ promised = Len(config.data)
      /\ file = IF config.data = <<>> THEN None
                ELSE [head |-> Len(config.data), data |-> config.data, safe |-> Len(config.data)]
  BY Zenon DEF DataInit, Init, StoreInit
<1>2. config.data \in Seq(Record) /\ InOrder(config.data)
  BY <1>1, RecordingAssumption, Zenon
<1>3. Len(config.data) \in Nat /\ Len(config.data) <= Len(config.data)
  <2>1. Len(config.data) \in Nat
    BY <1>2
  <2> QED
    BY <2>1
<1>4. ThreadsInv
  BY Zenon, <1>1 DEF ThreadsInv
<1>5. RecordsInv
  <2>1. <<>> \in Seq(Times) /\ DOMAIN <<>> = {}
    OBVIOUS
  <2> QED
    BY <1>1, <2>1, Zenon DEF RecordsInv
<1>6. DiskInv
  <2>1. CASE file # None
    <3>1. file = [head |-> Len(config.data), data |-> config.data, safe |-> Len(config.data)]
      BY <1>1, <2>1, Zenon
    <3>2. file.head = Len(config.data) /\ file.data = config.data /\ file.safe = Len(config.data)
      BY <3>1, Zenon
    <3>3. file \in File
      <4>1. Len(config.data) \in Nat \cup {None}
        BY <1>3
      <4> QED
        BY <1>2, <1>3, <3>1, <4>1, Zenon DEF File
    <3>4. None \notin Nat
      BY FileAssumption
    <3>5. FileOK(file)
      BY <1>2, <1>3, <3>2, <3>3, <3>4, Zenon DEF FileOK
    <3> QED
      BY <1>1, <1>3, <3>2, <3>5, Zenon DEF DiskInv, Disk
  <2>2. CASE file = None
    BY <1>1, <1>3, <2>2, Zenon DEF DiskInv, Disk
  <2> QED
    BY <2>1, <2>2, Zenon
<1>7. IndexInv
  BY <1>1 DEF IndexInv
<1> QED
  BY <1>4, <1>5, <1>6, <1>7, Zenon DEF StoreInv

\* StoreInv holds always.
LEMMA StoreHolds == DataSpec => []StoreInv
<1>1. DataInit => StoreInv
  BY StoreStarts
<1>2. StoreInv /\ [DataNext]_data_vars => StoreInv'
  BY StoreStep
<1> QED
  BY <1>1, <1>2, PTL DEF DataSpec

\* A range read from a sound file misses only ties, after every crash and
\* whatever way the index is sorted (tick_store.cpp: read_range, on the index
\* of TimeIndex::build).
THEOREM RangeCorrect == DataSpec => []MissesOnlyTies
<1>1. StoreInv => MissesOnlyTies
  BY RangeMissesTies, Zenon DEF StoreInv, DiskInv
<1> QED
  BY <1>1, StoreHolds, PTL

==============================================================================
