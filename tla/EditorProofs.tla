----------------------------- MODULE EditorProofs -----------------------------
(***************************************************************************)
(* The editor's models and the engine's side of their files, for all       *)
(* names, slugs, shortcuts and presets, leaders, key codes and saves that  *)
(* fail: the lists of profiles stay sound and both sides agree when        *)
(* nothing is on its way, however the editor's changes, the engine's       *)
(* switches and their reloads interleave; the settings page never leaves   *)
(* the engine without a leader and, when the bus is quiet, shows the       *)
(* engine's pause.  Last, the instance of MCEditor, which runs all parts   *)
(* of the editor: each of its behaviours is one of every part.             *)
(***************************************************************************)
EXTENDS MCEditor, MappingsProofs, FiniteSetTheorems, SequenceTheorems, TLAPS

-----------------------------------------------------------------------------
(* The lists of profiles *)

Keyed == Combos \cup {None}
ListType == [entries: Seq(Entry), active: Names \cup {"Gone", None},
             next: Keyed, prev: Keyed]
ListOK(p) == p \in ListType /\ Distinct(p)

(* No shortcut of a list, nor the reserved one, stands for two things: what  *)
(* Unambiguous says of their sequence, slot by slot.                        *)
Clear(p, r) ==
    /\ p.next # None => p.next # p.prev /\ p.next # r
    /\ p.prev # None => p.prev # r
    /\ \A i \in 1..Len(p.entries) : p.entries[i].key # None =>
         /\ p.entries[i].key \notin {p.next, p.prev, r}
         /\ \A j \in 1..Len(p.entries) : i # j => p.entries[i].key # p.entries[j].key

ProfilesInv ==
    /\ ListOK(disk) /\ ListOK(editor) /\ ListOK(engine)
    /\ engine.active \in NamesOf(engine) /\ editor.active \in NamesOf(editor)
    /\ folder \subseteq Files /\ IsFiniteSet(folder)
    /\ reserved \in Keyed
    /\ busy # "closed" /\ openedClear => Clear(editor, reserved)

-----------------------------------------------------------------------------
(* The first free suffix: a set of suffixes that is not empty has a least one.*)
LEMMA LeastSuffix ==
  ASSUME NEW N \in Nat, NEW T, T \subseteq 1..N, T # {}
  PROVE  \E k \in T : \A j \in T : k <= j
<1>1. T \in SUBSET Nat
  OBVIOUS
<1> QED
  BY <1>1, LeastElement

(* uniqueFileForBase gives a file that neither a profile nor the folder has. *)
LEMMA UniqueFileIsFree ==
  ASSUME NEW slug \in Slugs, Suffixed(slug)
  PROVE  UniqueFile(slug) \in Files \ (FilesOf(editor) \cup folder)
<1> DEFINE free == {k \in 1..MaxSuffix : <<slug, k>> \notin FilesOf(editor) \cup folder}
<1>1. \E k \in free : \A j \in free : k <= j
  <2>1. free \subseteq 1..MaxSuffix /\ free # {}
    BY DEF Suffixed
  <2>2. QED
    BY ONLY <2>1, LeastSuffix, ProfilesAssumption DEF ProfilesAssumption
<1> DEFINE first == CHOOSE k \in free : \A j \in free : k <= j
<1>2. first \in free
  BY <1>1
<1>3. UniqueFile(slug) = <<slug, first>>
  BY DEF UniqueFile
<1> HIDE DEF first
<1>4. QED
  BY <1>2, <1>3 DEF Files

-----------------------------------------------------------------------------
(* Lists.  Their entries, *)
LEMMA EntriesType ==
  ASSUME NEW p \in ListType
  PROVE  /\ p.entries \in Seq(Entry) /\ Len(p.entries) \in Nat
         /\ \A i \in 1..Len(p.entries) : p.entries[i] \in Entry
  BY LenProperties, ElementOfSeq DEF ListType

(* the sequence of their shortcuts slot by slot, *)
LEMMA ClearKeys ==
  ASSUME NEW p \in ListType, NEW r \in Keyed
  PROVE  Unambiguous(Append(Keys(p), r)) <=> Clear(p, r)
<1> DEFINE L == Len(p.entries)
           k(i) == p.entries[i].key
           s == Append(Keys(p), r)
<1>1. /\ L \in Nat /\ \A i \in 1..L : k(i) \in Keyed
      /\ p.next \in Keyed /\ p.prev \in Keyed
  BY EntriesType DEF ListType, Entry, Keyed
<1>2. [i \in 1..L |-> k(i)] \in Seq(Keyed) /\ Len([i \in 1..L |-> k(i)]) = L
  BY <1>1
<1>3. <<p.next, p.prev>> \in Seq(Keyed) /\ Len(<<p.next, p.prev>>) = 2
  BY <1>1
<1>4. /\ Keys(p) \in Seq(Keyed) /\ Len(Keys(p)) = 2 + L
      /\ Keys(p)[1] = p.next /\ Keys(p)[2] = p.prev
      /\ \A i \in 1..L : Keys(p)[2 + i] = k(i)
  <2> HIDE DEF k
  <2> DEFINE u == <<p.next, p.prev>>
             v == [i \in 1..L |-> k(i)]
  <2>1. Keys(p) = u \o v
    BY DEF Keys, k
  <2>2. u[1] = p.next /\ u[2] = p.prev /\ \A i \in 1..L : v[i] = k(i)
    OBVIOUS
  <2> HIDE DEF u, v
  <2>3. /\ u \o v \in Seq(Keyed) /\ Len(u \o v) = Len(u) + Len(v)
        /\ \A i \in 1..Len(u) + Len(v) :
             (u \o v)[i] = IF i <= Len(u) THEN u[i] ELSE v[i - Len(u)]
    BY <1>2, <1>3, ConcatProperties DEF u, v
  <2>4. Len(u) = 2 /\ Len(v) = L
    BY <1>2, <1>3 DEF u, v
  <2>5. (u \o v)[1] = u[1] /\ (u \o v)[2] = u[2]
    BY <1>1, <2>3, <2>4
  <2>6. ASSUME NEW i \in 1..L PROVE (u \o v)[2 + i] = v[i]
    BY <1>1, <2>3, <2>4
  <2>7. QED
    BY <2>1, <2>2, <2>3, <2>4, <2>5, <2>6
<1>5. /\ Len(s) = L + 3
      /\ s[1] = p.next /\ s[2] = p.prev /\ s[L + 3] = r
      /\ \A i \in 1..L : s[2 + i] = k(i)
  <2> HIDE DEF k
  <2>1. /\ Len(s) = Len(Keys(p)) + 1
        /\ \A i \in 1..Len(Keys(p)) : s[i] = Keys(p)[i]
        /\ s[Len(Keys(p)) + 1] = r
    BY <1>4, AppendProperties
  <2>2. QED
    BY <1>1, <1>4, <2>1
<1>6. ASSUME Unambiguous(s) PROVE Clear(p, r)
  <2> HIDE DEF s
  <2>1. \A i, j \in 1..L + 3 : i # j /\ s[i] # None => s[i] # s[j]
    BY <1>5, <1>6 DEF Unambiguous
  <2>2. p.next # None => p.next # p.prev /\ p.next # r
    BY <1>1, <1>5, <2>1
  <2>3. p.prev # None => p.prev # r
    BY <1>1, <1>5, <2>1
  <2>4. ASSUME NEW i \in 1..L, k(i) # None
        PROVE  /\ k(i) \notin {p.next, p.prev, r}
               /\ \A j \in 1..L : i # j => k(i) # k(j)
    <3>1. 2 + i \in 1..L + 3 /\ s[2 + i] = k(i) /\ s[2 + i] # None
      <4>1. 2 + i \in 1..L + 3
        BY <1>1
      <4>2. s[2 + i] = k(i)
        BY <1>5
      <4> QED
        BY <2>4, <4>1, <4>2
    <3>2. k(i) \notin {p.next, p.prev, r}
      <4>1. /\ 1 \in 1..L + 3 /\ 2 \in 1..L + 3 /\ L + 3 \in 1..L + 3
            /\ 2 + i # 1 /\ 2 + i # 2 /\ 2 + i # L + 3
        BY <1>1
      <4>2. s[2 + i] # s[1] /\ s[2 + i] # s[2] /\ s[2 + i] # s[L + 3]
        BY <2>1, <3>1, <4>1
      <4> QED
        BY <1>5, <3>1, <4>2
    <3>3. ASSUME NEW j \in 1..L, i # j PROVE k(i) # k(j)
      BY <1>1, <1>5, <2>1, <3>1, <3>3
    <3>4. QED
      BY <3>2, <3>3
  <2>5. QED
    BY <2>2, <2>3, <2>4 DEF Clear
<1>7. ASSUME Clear(p, r) PROVE Unambiguous(s)
  <2> HIDE DEF s
  <2> SUFFICES ASSUME NEW i \in 1..L + 3, NEW j \in 1..L + 3, i # j, s[i] # None
               PROVE  s[i] # s[j]
    BY <1>5 DEF Unambiguous
  <2>1. \A m \in 1..L + 3 : \/ m = 1 /\ s[m] = p.next
                            \/ m = 2 /\ s[m] = p.prev
                            \/ m = L + 3 /\ s[m] = r
                            \/ m - 2 \in 1..L /\ s[m] = k(m - 2)
    <3> SUFFICES ASSUME NEW m \in 1..L + 3, m # 1, m # 2, m # L + 3
                 PROVE  m - 2 \in 1..L /\ s[m] = k(m - 2)
      BY <1>5
    <3>1. m - 2 \in 1..L /\ m = 2 + (m - 2)
      BY <1>1
    <3>2. QED
      BY <3>1, <1>5
  <2>2. CASE i - 2 \in 1..L /\ j - 2 \in 1..L /\ s[i] = k(i - 2) /\ s[j] = k(j - 2)
    <3>1. i - 2 # j - 2
      BY <1>1
    <3>2. QED
      BY <3>1, <2>2, <1>7 DEF Clear
  <2>3. QED
    BY <2>1, <2>2, <1>7 DEF Clear
<1>8. QED
  BY <1>6, <1>7

(* and what an entry put at its end, changed or taken out does to a list.    *)
LEMMA AppendedList ==
  ASSUME NEW p \in ListType, Distinct(p), NEW n \in Names \ NamesOf(p),
         NEW f \in Files \ FilesOf(p)
  PROVE  /\ ListOK(Append1(p, Profile(n, f)))
         /\ NamesOf(Append1(p, Profile(n, f))) = NamesOf(p) \cup {n}
         /\ \A r : Clear(p, r) => Clear(Append1(p, Profile(n, f)), r)
<1> DEFINE L == Len(p.entries)
           q == Append1(p, Profile(n, f))
<1>1. L \in Nat /\ p.entries \in Seq(Entry) /\ Profile(n, f) \in Entry
  BY EntriesType DEF Profile, Entry
<1>2. /\ q \in ListType /\ q.active = p.active /\ q.next = p.next /\ q.prev = p.prev
      /\ q.entries = Append(p.entries, Profile(n, f))
  BY <1>1, AppendProperties DEF Append1, ListType
<1>3. /\ Len(q.entries) = L + 1
      /\ \A i \in 1..L : q.entries[i] = p.entries[i]
      /\ q.entries[L + 1] = Profile(n, f)
  BY <1>1, <1>2, AppendProperties
<1> HIDE DEF q
<1>4. \A i \in 1..L + 1 : i \in 1..L \/ i = L + 1
  BY <1>1
<1>5. Distinct(q)
  <2> SUFFICES ASSUME NEW i \in 1..L + 1, NEW j \in 1..L + 1, i # j
               PROVE  /\ q.entries[i].name # q.entries[j].name
                      /\ q.entries[i].file # q.entries[j].file
    BY <1>3 DEF Distinct
  <2>1. \A m \in 1..L : q.entries[m].name # n /\ q.entries[m].file # f
    BY <1>3 DEF NamesOf, FilesOf
  <2>2. q.entries[L + 1].name = n /\ q.entries[L + 1].file = f
    BY <1>3 DEF Profile
  <2>3. CASE i \in 1..L /\ j \in 1..L
    BY <2>3, <1>3 DEF Distinct
  <2>4. CASE i = L + 1 \/ j = L + 1
    BY <2>4, <2>1, <2>2, <1>4
  <2>5. QED
    BY <2>3, <2>4, <1>4
<1>6. NamesOf(q) = NamesOf(p) \cup {n}
  <2>1. q.entries[L + 1].name = n
    BY <1>3 DEF Profile
  <2>2. \A i \in 1..L : i \in 1..L + 1
    BY <1>1
  <2>3. L + 1 \in 1..L + 1
    BY <1>1
  <2>4. QED
    BY <1>3, <1>4, <2>1, <2>2, <2>3 DEF NamesOf
<1>7. ASSUME NEW r, Clear(p, r) PROVE Clear(q, r)
  <2>1. q.entries[L + 1].key = None
    BY <1>3 DEF Profile
  <2>2. QED
    BY <1>2, <1>3, <1>4, <1>7, <2>1 DEF Clear
<1>8. QED
  BY <1>2, <1>5, <1>6, <1>7 DEF ListOK, q

LEMMA ChangedList ==
  ASSUME NEW p \in ListType, NEW row \in 1..Len(p.entries), NEW e \in Entry,
         NEW q \in ListType, q.entries = [p.entries EXCEPT ![row] = e]
  PROVE  /\ Len(q.entries) = Len(p.entries)
         /\ q.entries[row] = e
         /\ \A i \in 1..Len(p.entries) \ {row} : q.entries[i] = p.entries[i]
  BY EntriesType, ExceptSeq

LEMMA RemoveAtType ==
  ASSUME NEW s \in Seq(Entry), NEW row \in 1..Len(s)
  PROVE  RemoveAt(s, row) \in Seq(Entry) /\ Len(RemoveAt(s, row)) = Len(s) - 1
<1> DEFINE u == SubSeq(s, 1, row - 1)
           v == SubSeq(s, row + 1, Len(s))
<1>1. Len(s) \in Nat /\ \A i \in 1..Len(s) : s[i] \in Entry
  BY LenProperties, ElementOfSeq
<1>2. u \in Seq(Entry) /\ Len(u) = row - 1
  <2>1. (\A i \in 1..row - 1 : s[i] \in Entry) /\ 1 \in Int /\ row - 1 \in Int
    BY <1>1
  <2>2. u \in Seq(Entry) /\ Len(u) = IF 1 <= row - 1 THEN (row - 1) - 1 + 1 ELSE 0
    BY <2>1, SubSeqProperties
  <2> HIDE DEF u
  <2>3. QED
    BY <1>1, <2>2
<1>3. v \in Seq(Entry) /\ Len(v) = Len(s) - row
  <2>1. (\A i \in row + 1..Len(s) : s[i] \in Entry) /\ row + 1 \in Int /\ Len(s) \in Int
    BY <1>1
  <2>2. /\ v \in Seq(Entry)
        /\ Len(v) = IF row + 1 <= Len(s) THEN Len(s) - (row + 1) + 1 ELSE 0
    BY <2>1, SubSeqProperties
  <2> HIDE DEF v
  <2>3. QED
    BY <1>1, <2>2
<1>4. RemoveAt(s, row) = u \o v
  BY DEF RemoveAt
<1> HIDE DEF u, v
<1>5. u \o v \in Seq(Entry) /\ Len(u \o v) = Len(u) + Len(v)
  BY <1>2, <1>3, ConcatProperties
<1>6. QED
  BY <1>1, <1>2, <1>3, <1>4, <1>5

LEMMA RemovedList ==
  ASSUME NEW p \in ListType, NEW row \in 1..Len(p.entries),
         NEW q \in ListType, q.entries = RemoveAt(p.entries, row),
         q.next = p.next, q.prev = p.prev, Distinct(p)
  PROVE  /\ Distinct(q) /\ Len(q.entries) = Len(p.entries) - 1
         /\ NamesOf(q) = NamesOf(p) \ {p.entries[row].name}
         /\ \A r : Clear(p, r) => Clear(q, r)
<1> DEFINE L == Len(p.entries)
           at(i) == IF i < row THEN i ELSE i + 1
<1>1. L \in Nat /\ row \in 1..L /\ \A i \in 1..L : p.entries[i] \in Entry
  BY EntriesType
<1>2. /\ Len(q.entries) = L - 1
      /\ \A i \in 1..L - 1 : q.entries[i] = p.entries[at(i)]
  <2> DEFINE u == SubSeq(p.entries, 1, row - 1)
             v == SubSeq(p.entries, row + 1, L)
  <2>1. /\ u \in Seq(Entry) /\ Len(u) = row - 1
        /\ \A i \in 1..row - 1 : u[i] = p.entries[i]
    <3>1. \A i \in 1..row - 1 : p.entries[i] \in Entry
      BY <1>1
    <3>2. 1 \in Int /\ row - 1 \in Int
      BY <1>1
    <3>3. /\ u \in Seq(Entry) /\ Len(u) = IF 1 <= row - 1 THEN (row - 1) - 1 + 1 ELSE 0
          /\ \A i \in 1..(row - 1) - 1 + 1 : u[i] = p.entries[1 + i - 1]
      BY <3>1, <3>2, SubSeqProperties
    <3> HIDE DEF u
    <3>4. QED
      BY <1>1, <3>3
  <2>2. /\ v \in Seq(Entry) /\ Len(v) = L - row
        /\ \A i \in 1..L - row : v[i] = p.entries[row + i]
    <3>1. \A i \in row + 1..L : p.entries[i] \in Entry
      BY <1>1
    <3>2. row + 1 \in Int /\ L \in Int
      BY <1>1
    <3>3. /\ v \in Seq(Entry) /\ Len(v) = IF row + 1 <= L THEN L - (row + 1) + 1 ELSE 0
          /\ \A i \in 1..L - (row + 1) + 1 : v[i] = p.entries[row + 1 + i - 1]
      BY <3>1, <3>2, SubSeqProperties
    <3> HIDE DEF v
    <3>4. \A i \in 1..L - row : row + 1 + i - 1 = row + i
      BY <1>1
    <3>5. QED
      BY <1>1, <3>3, <3>4
  <2>3. q.entries = u \o v
    BY DEF RemoveAt
  <2> HIDE DEF u, v
  <2>4. /\ Len(u \o v) = Len(u) + Len(v)
        /\ \A i \in 1..Len(u) + Len(v) :
             (u \o v)[i] = IF i <= Len(u) THEN u[i] ELSE v[i - Len(u)]
    BY <2>1, <2>2, ConcatProperties
  <2>5. Len(u) + Len(v) = L - 1
    BY <1>1, <2>1, <2>2
  <2>6. ASSUME NEW i \in 1..L - 1 PROVE q.entries[i] = p.entries[at(i)]
    <3>1. CASE i < row
      BY <3>1, <1>1, <2>1, <2>3, <2>4, <2>5
    <3>2. CASE ~(i < row)
      <4>1. i - (row - 1) \in 1..L - row /\ row + (i - (row - 1)) = i + 1
        BY <3>2, <1>1
      <4>2. q.entries[i] = v[i - (row - 1)]
        BY <3>2, <1>1, <2>1, <2>3, <2>4, <2>5
      <4>3. QED
        BY <3>2, <4>1, <4>2, <2>2
    <3>3. QED
      BY <3>1, <3>2
  <2>7. QED
    BY <2>3, <2>4, <2>5, <2>6
<1>3. /\ \A i \in 1..L - 1 : at(i) \in 1..L \ {row}
      /\ \A i, j \in 1..L - 1 : i # j => at(i) # at(j)
      /\ \A m \in 1..L \ {row} : \E i \in 1..L - 1 : at(i) = m
  <2>1. ASSUME NEW m \in 1..L \ {row} PROVE \E i \in 1..L - 1 : at(i) = m
    <3>1. CASE m < row
      BY <3>1, <1>1
    <3>2. CASE m > row
      <4>1. m - 1 \in 1..L - 1 /\ at(m - 1) = m
        BY <3>2, <1>1
      <4>2. QED
        BY <4>1
    <3>3. QED
      BY <3>1, <3>2, <1>1
  <2>2. QED
    BY <1>1, <2>1
<1> HIDE DEF at
<1>4. Distinct(q)
  <2> SUFFICES ASSUME NEW i \in 1..L - 1, NEW j \in 1..L - 1, i # j
               PROVE  /\ q.entries[i].name # q.entries[j].name
                      /\ q.entries[i].file # q.entries[j].file
    BY <1>2 DEF Distinct
  <2>1. at(i) \in 1..L /\ at(j) \in 1..L /\ at(i) # at(j)
    BY <1>3
  <2>2. q.entries[i] = p.entries[at(i)] /\ q.entries[j] = p.entries[at(j)]
    BY <1>2
  <2>3. QED
    BY <2>1, <2>2 DEF Distinct
<1>5. NamesOf(q) = NamesOf(p) \ {p.entries[row].name}
  <2>1. \A m \in 1..L \ {row} : p.entries[m].name # p.entries[row].name
    BY <1>1 DEF Distinct
  <2>2. NamesOf(q) = {p.entries[at(i)].name : i \in 1..L - 1}
    BY <1>2 DEF NamesOf
  <2>3. {p.entries[at(i)].name : i \in 1..L - 1} = {p.entries[m].name : m \in 1..L \ {row}}
    BY <1>3
  <2>4. NamesOf(p) = {p.entries[m].name : m \in 1..L \ {row}} \cup {p.entries[row].name}
    BY <1>1 DEF NamesOf
  <2>5. p.entries[row].name \notin {p.entries[m].name : m \in 1..L \ {row}}
    BY <2>1
  <2>6. QED
    BY <2>2, <2>3, <2>4, <2>5
<1>6. ASSUME NEW r, Clear(p, r) PROVE Clear(q, r)
  <2>1. ASSUME NEW i \in 1..L - 1, q.entries[i].key # None
        PROVE  /\ q.entries[i].key \notin {q.next, q.prev, r}
               /\ \A j \in 1..L - 1 : i # j => q.entries[i].key # q.entries[j].key
    <3>1. at(i) \in 1..L /\ q.entries[i] = p.entries[at(i)]
      BY <1>2, <1>3
    <3>2. q.entries[i].key \notin {q.next, q.prev, r}
      BY <1>6, <2>1, <3>1 DEF Clear
    <3>3. ASSUME NEW j \in 1..L - 1, i # j PROVE q.entries[i].key # q.entries[j].key
      <4>1. at(j) \in 1..L /\ q.entries[j] = p.entries[at(j)] /\ at(i) # at(j)
        BY <1>2, <1>3, <3>3
      <4>2. QED
        BY <1>6, <2>1, <3>1, <4>1 DEF Clear
    <3>4. QED
      BY <3>2, <3>3
  <2>2. /\ q.next # None => q.next # q.prev /\ q.next # r
        /\ q.prev # None => q.prev # r
    BY <1>6 DEF Clear
  <2>3. QED
    BY <1>2, <2>1, <2>2 DEF Clear
<1>7. QED
  BY <1>2, <1>4, <1>5, <1>6

(* The loose files of the folder come behind the list, each under a name of its own.*)
LEMMA RegisteredList ==
  ASSUME NEW p \in ListType, Distinct(p),
         NEW loose, loose \subseteq Files \ FilesOf(p), IsFiniteSet(loose),
         NEW order \in SetToSeqs(loose),
         NEW naming \in [loose -> Names \ NamesOf(p)], IsInjective(naming)
  PROVE  /\ ListOK(Registered(p, order, naming))
         /\ Len(p.entries) <= Len(Registered(p, order, naming).entries)
<1> DEFINE L == Len(p.entries)
           N == Cardinality(loose)
           q == Registered(p, order, naming)
           v == [i \in 1..N |-> Profile(naming[order[i]], order[i])]
<1>1. L \in Nat /\ N \in Nat /\ p.entries \in Seq(Entry)
  BY EntriesType, FS_CardinalityType
<1>2. /\ order \in [1..N -> loose] /\ Len(order) = N
      /\ \A i, j \in 1..N : i # j => order[i] # order[j]
  BY <1>1 DEF SetToSeqs
<1>3. \A i \in 1..N : /\ order[i] \in Files \ FilesOf(p)
                       /\ naming[order[i]] \in Names \ NamesOf(p)
  BY <1>2
<1>4. \A i, j \in 1..N : i # j => naming[order[i]] # naming[order[j]]
  BY <1>2 DEF IsInjective
<1>5. v \in Seq(Entry) /\ Len(v) = N
  <2> DEFINE e(i) == Profile(naming[order[i]], order[i])
  <2>1. \A i \in 1..N : e(i) \in Entry
    BY <1>3 DEF Profile, Entry
  <2> HIDE DEF e
  <2>2. [i \in 1..N |-> e(i)] \in Seq(Entry) /\ Len([i \in 1..N |-> e(i)]) = N
    BY <1>1, <2>1
  <2>3. QED
    BY <2>2 DEF e
<1>6. q.entries = p.entries \o v /\ q = [p EXCEPT !.entries = p.entries \o v]
  BY <1>2 DEF Registered, ListType
<1>7. \A i \in 1..N : v[i].name = naming[order[i]] /\ v[i].file = order[i]
  BY DEF Profile
<1> HIDE DEF v, q
<1>8. /\ q.entries \in Seq(Entry) /\ Len(q.entries) = L + N
      /\ \A i \in 1..L + N :
           q.entries[i] = IF i <= L THEN p.entries[i] ELSE v[i - L]
  <2>1. /\ p.entries \o v \in Seq(Entry) /\ Len(p.entries \o v) = L + Len(v)
        /\ \A i \in 1..L + Len(v) :
             (p.entries \o v)[i] = IF i <= L THEN p.entries[i] ELSE v[i - L]
    BY <1>1, <1>5, ConcatProperties
  <2>2. QED
    BY <1>5, <1>6, <2>1
<1>9. q \in ListType
  BY <1>6, <1>8 DEF ListType
<1>10. Distinct(q)
  <2> SUFFICES ASSUME NEW i \in 1..L + N, NEW j \in 1..L + N, i < j
               PROVE  /\ q.entries[i].name # q.entries[j].name
                      /\ q.entries[i].file # q.entries[j].file
    <3>1. \A i, j \in 1..L + N : i # j => i < j \/ j < i
      BY <1>1
    <3>2. QED
      BY <1>8, <3>1 DEF Distinct
  <2>1. CASE j <= L
    <3>1. i \in 1..L /\ j \in 1..L /\ i # j
      BY <2>1, <1>1
    <3>2. q.entries[i] = p.entries[i] /\ q.entries[j] = p.entries[j]
      BY <2>1, <3>1, <1>1, <1>8
    <3>3. QED
      BY <3>1, <3>2 DEF Distinct
  <2>2. CASE i <= L /\ ~(j <= L)
    <3>1. i \in 1..L /\ j - L \in 1..N
      BY <2>2, <1>1
    <3>2. q.entries[i] = p.entries[i] /\ q.entries[j] = v[j - L]
      BY <2>2, <1>8
    <3>3. p.entries[i].name \in NamesOf(p) /\ p.entries[i].file \in FilesOf(p)
      BY <3>1 DEF NamesOf, FilesOf
    <3>4. QED
      BY <3>1, <3>2, <3>3, <1>3, <1>7
  <2>3. CASE ~(i <= L) /\ ~(j <= L)
    <3>1. i - L \in 1..N /\ j - L \in 1..N /\ i - L # j - L
      BY <2>3, <1>1
    <3>2. q.entries[i] = v[i - L] /\ q.entries[j] = v[j - L]
      BY <2>3, <1>8
    <3>3. QED
      BY <3>1, <3>2, <1>2, <1>4, <1>7
  <2>4. QED
    BY <2>1, <2>2, <2>3, <1>1
<1>11. L <= Len(q.entries)
  BY <1>1, <1>8
<1>12. QED
  BY <1>9, <1>10, <1>11 DEF ListOK, q

LEMMA SeededOK == ListOK(Seeded) /\ Seeded.active \in NamesOf(Seeded)
<1> DEFINE e == Profile(Standard, MappingsFile)
<1>1. e \in Entry
  BY ProfilesAssumption DEF Profile, Entry, Files
<1>2. Seeded = [entries |-> <<e>>, active |-> Standard, next |-> None, prev |-> None]
  <2>1. Seeded = [Unwritten EXCEPT !.entries = <<e>>, !.active = Standard]
    BY DEF Seeded
  <2> HIDE DEF e
  <2>2. QED
    BY <2>1 DEF Unwritten
<1>3. <<e>> \in Seq(Entry) /\ Len(<<e>>) = 1 /\ <<e>>[1] = e
  BY <1>1
<1>4. Seeded \in ListType
  BY <1>2, <1>3, ProfilesAssumption DEF ListType, Keyed
<1>5. Distinct(Seeded)
  BY <1>2, <1>3 DEF Distinct
<1>6. Seeded.active \in NamesOf(Seeded)
  BY <1>2, <1>3 DEF NamesOf, Profile
<1>7. QED
  BY <1>4, <1>5, <1>6 DEF ListOK

(* The first profile takes the place of an unknown active one. *)
LEMMA Corrected ==
  ASSUME NEW p, ListOK(p), Len(p.entries) >= 1
  PROVE  /\ ListOK([p EXCEPT !.active = p.entries[1].name])
         /\ [p EXCEPT !.active = p.entries[1].name].active \in
              NamesOf([p EXCEPT !.active = p.entries[1].name])
<1> DEFINE q == [p EXCEPT !.active = p.entries[1].name]
<1>1. p.entries[1] \in Entry /\ 1 \in 1..Len(p.entries)
  BY EntriesType DEF ListOK
<1>2. q \in ListType /\ q.entries = p.entries /\ q.active = p.entries[1].name
  BY <1>1 DEF ListOK, ListType, Entry
<1>3. QED
  BY <1>1, <1>2 DEF ListOK, Distinct, NamesOf

LEMMA NotEmpty ==
  ASSUME NEW p \in ListType, p.entries # <<>>
  PROVE  Len(p.entries) >= 1
  BY EntriesType, EmptySeq

LEMMA LoadedOK ==
  ASSUME ListOK(disk)
  PROVE  ListOK(Loaded) /\ Loaded.active \in NamesOf(Loaded)
<1>1. CASE disk.entries = <<>>
  BY <1>1, SeededOK DEF Loaded
<1>2. CASE disk.entries # <<>> /\ disk.active \in NamesOf(disk)
  BY <1>2 DEF Loaded
<1>3. CASE disk.entries # <<>> /\ disk.active \notin NamesOf(disk)
  BY <1>3, Corrected, NotEmpty DEF Loaded, ListOK
<1>4. QED
  BY <1>1, <1>2, <1>3

LEMMA AdoptedOK ==
  ASSUME ListOK(editor), editor.active \in NamesOf(editor)
  PROVE  /\ ListOK(Adopted) /\ Adopted.active \in NamesOf(Adopted)
         /\ \A r : Clear(editor, r) => Clear(Adopted, r)
<1>1. NamesOf(editor) \subseteq Names
  BY EntriesType DEF ListOK, NamesOf, Entry
<1>2. CASE disk.active \in NamesOf(editor)
  <2> DEFINE q == [editor EXCEPT !.active = disk.active]
  <2>1. /\ q \in ListType /\ q.active = disk.active
        /\ q.entries = editor.entries /\ q.next = editor.next /\ q.prev = editor.prev
    BY <1>1, <1>2 DEF ListOK, ListType
  <2>2. Adopted = q
    BY <1>2 DEF Adopted
  <2> HIDE DEF q
  <2>3. QED
    BY <1>2, <2>1, <2>2 DEF ListOK, Distinct, NamesOf, Clear
<1>3. CASE disk.active \notin NamesOf(editor)
  BY <1>3 DEF Adopted
<1>4. QED
  BY <1>2, <1>3

-----------------------------------------------------------------------------
(* The editor's steps.  A list that is saved goes to memory and file alike.  *)
LEMMA SaveKeeps ==
  ASSUME ProfilesInv, NEW p, Save(p), ListOK(p), p.active \in NamesOf(p),
         Clear(editor, reserved) => Clear(p, reserved),
         folder' \subseteq Files, IsFiniteSet(folder')
  PROVE  ProfilesInv'
<1>1. /\ disk' = p /\ editor' = p
      /\ busy # "closed" /\ UNCHANGED <<reserved, engine, openedClear>>
  BY DEF Save, Write
<1>2. QED
  BY <1>1 DEF ProfilesInv, ListOK, ListType, Distinct, NamesOf, Clear

(* A new profile has a name and a file of its own and no shortcut.          *)
LEMMA AddKeeps ==
  ASSUME ProfilesInv, NEW n \in Names, NEW slug \in Slugs, ~NameTaken(n, 0),
         Suffixed(slug), Save(Append1(editor, Profile(n, UniqueFile(slug)))),
         folder' \in {folder, folder \cup {UniqueFile(slug)}}
  PROVE  ProfilesInv'
<1> DEFINE p == Append1(editor, Profile(n, UniqueFile(slug)))
<1>1. UniqueFile(slug) \in Files \ (FilesOf(editor) \cup folder)
  BY UniqueFileIsFree
<1>2. n \notin NamesOf(editor)
  <2>1. 0 \notin Rows
    BY DEF Rows
  <2>2. QED
    BY <2>1 DEF NameTaken, NamesOf, Rows
<1>3. /\ ListOK(p) /\ NamesOf(p) = NamesOf(editor) \cup {n}
      /\ \A r : Clear(editor, r) => Clear(p, r)
  BY <1>1, <1>2, AppendedList DEF ProfilesInv, ListOK
<1>4. p.active = editor.active
  BY DEF Append1, ProfilesInv, ListOK, ListType
<1>5. folder' \subseteq Files /\ IsFiniteSet(folder')
  BY <1>1, FS_AddElement DEF ProfilesInv
<1> HIDE DEF p
<1>6. QED
  BY <1>3, <1>4, <1>5, SaveKeeps DEF ProfilesInv, p

(* A change of one row that keeps the names and files apart and every shortcut *)
(* with one meaning.                                                        *)
LEMMA RowKeeps ==
  ASSUME ProfilesInv, NEW row \in Rows, NEW e \in Entry,
         NEW p \in ListType, p.entries = [editor.entries EXCEPT ![row] = e],
         p.next = editor.next, p.prev = editor.prev, Save(p), UNCHANGED folder,
         e.file = editor.entries[row].file,
         \A i \in Rows \ {row} : editor.entries[i].name # e.name,
         \/ p.active = e.name
         \/ p.active = editor.active /\ editor.active # editor.entries[row].name,
         \/ e.key \in {None, editor.entries[row].key}
         \/ /\ \A i \in Rows \ {row} : editor.entries[i].key # e.key
            /\ e.key \notin {editor.next, editor.prev, reserved}
  PROVE  ProfilesInv'
<1>1. /\ Len(p.entries) = Len(editor.entries) /\ p.entries[row] = e
      /\ \A i \in Rows \ {row} : p.entries[i] = editor.entries[i]
  BY ChangedList DEF Rows, ProfilesInv, ListOK
<1>2. Distinct(p)
  <2> SUFFICES ASSUME NEW i \in Rows, NEW j \in Rows, i # j
               PROVE  /\ p.entries[i].name # p.entries[j].name
                      /\ p.entries[i].file # p.entries[j].file
    BY <1>1 DEF Distinct, Rows
  <2>1. /\ editor.entries[i].name # editor.entries[j].name
        /\ editor.entries[i].file # editor.entries[j].file
    BY DEF ProfilesInv, ListOK, Distinct, Rows
  <2>2. QED
    BY <1>1, <2>1
<1>3. p.active \in NamesOf(p)
  <2>1. CASE p.active = e.name
    BY <2>1, <1>1 DEF NamesOf, Rows
  <2>2. CASE p.active = editor.active /\ editor.active # editor.entries[row].name
    <3>1. PICK i \in Rows : editor.entries[i].name = editor.active
      BY DEF ProfilesInv, NamesOf, Rows
    <3>2. i # row /\ p.entries[i] = editor.entries[i]
      BY <2>2, <3>1, <1>1
    <3>3. QED
      BY <2>2, <3>1, <3>2, <1>1 DEF NamesOf, Rows
  <2>3. QED
    BY <2>1, <2>2
<1>4. ASSUME Clear(editor, reserved) PROVE Clear(p, reserved)
  <2>1. ASSUME NEW i \in Rows, p.entries[i].key # None
        PROVE  /\ p.entries[i].key \notin {p.next, p.prev, reserved}
               /\ \A j \in Rows : i # j => p.entries[i].key # p.entries[j].key
    <3>1. CASE e.key \in {None, editor.entries[row].key}
      <4>1. \A j \in Rows : p.entries[j].key \in {None, editor.entries[j].key}
        BY <1>1, <3>1
      <4>2. p.entries[i].key = editor.entries[i].key /\ editor.entries[i].key # None
        BY <4>1, <2>1
      <4>3. QED
        BY <1>4, <4>1, <4>2 DEF Clear, Rows
    <3>2. CASE /\ \A j \in Rows \ {row} : editor.entries[j].key # e.key
               /\ e.key \notin {editor.next, editor.prev, reserved}
      <4>1. CASE i = row
        BY <4>1, <3>2, <1>1
      <4>2. CASE i # row
        <5>1. p.entries[i] = editor.entries[i]
          BY <4>2, <1>1
        <5>2. /\ editor.entries[i].key \notin {p.next, p.prev, reserved}
              /\ \A j \in Rows : i # j => editor.entries[i].key # editor.entries[j].key
          BY <5>1, <2>1, <1>4 DEF Clear, Rows
        <5>3. QED
          BY <4>2, <5>1, <5>2, <3>2, <1>1
      <4>3. QED
        BY <4>1, <4>2
    <3>3. QED
      BY <3>1, <3>2
  <2>2. /\ p.next # None => p.next # p.prev /\ p.next # reserved
        /\ p.prev # None => p.prev # reserved
    BY <1>4 DEF Clear
  <2>3. QED
    BY <1>1, <2>1, <2>2 DEF Clear, Rows
<1>5. folder' \subseteq Files /\ IsFiniteSet(folder')
  BY DEF ProfilesInv
<1>6. QED
  BY <1>2, <1>3, <1>4, <1>5, SaveKeeps DEF ListOK

LEMMA RowType ==
  ASSUME ProfilesInv, NEW row \in Rows
  PROVE  /\ editor \in ListType /\ editor.entries[row] \in Entry
         /\ \A e \in Entry : [editor.entries EXCEPT ![row] = e] \in Seq(Entry)
         /\ \A i \in Rows \ {row} :
              editor.entries[i].name # editor.entries[row].name
<1>1. editor \in ListType /\ editor.entries[row] \in Entry /\ editor.entries \in Seq(Entry)
  BY EntriesType DEF ProfilesInv, ListOK, Rows
<1>2. \A e \in Entry : [editor.entries EXCEPT ![row] = e] \in Seq(Entry)
  BY <1>1, ExceptSeq DEF Rows
<1>3. QED
  BY <1>1, <1>2 DEF ProfilesInv, ListOK, Distinct, Rows

LEMMA RenameKeeps ==
  ASSUME ProfilesInv, NEW row \in Rows, NEW n \in Names, RenameProfile(row, n)
  PROVE  ProfilesInv'
<1> DEFINE old == editor.entries[row]
           e == [old EXCEPT !.name = n]
           p == [editor EXCEPT !.entries[row].name = n,
                               !.active = IF @ = old.name THEN n ELSE @]
<1>1. e \in Entry /\ e.name = n /\ e.file = old.file /\ e.key = old.key
  BY RowType DEF Entry
<1>2. /\ p.entries = [editor.entries EXCEPT ![row] = e]
      /\ p.active = IF editor.active = old.name THEN n ELSE editor.active
      /\ p.next = editor.next /\ p.prev = editor.prev
      /\ p \in ListType
  BY <1>1, RowType DEF ListType
<1>3. /\ Save(p) /\ UNCHANGED folder
      /\ \A i \in Rows \ {row} : editor.entries[i].name # n
  BY DEF RenameProfile, NameTaken
<1> HIDE DEF p, e
<1>4. QED
  BY <1>1, <1>2, <1>3, RowKeeps

LEMMA ActiveKeeps ==
  ASSUME ProfilesInv, NEW row \in Rows, SetActiveRow(row)
  PROVE  ProfilesInv'
<1> DEFINE p == [editor EXCEPT !.active = editor.entries[row].name]
<1>1. /\ p.entries = editor.entries /\ p.active = editor.entries[row].name
      /\ p.next = editor.next /\ p.prev = editor.prev /\ p \in ListType
  BY RowType DEF ListType, Entry
<1>2. ListOK(p) /\ p.active \in NamesOf(p)
  BY <1>1 DEF ListOK, ProfilesInv, Distinct, NamesOf, Rows
<1>3. Clear(editor, reserved) => Clear(p, reserved)
  BY <1>1 DEF Clear
<1>4. Save(p) /\ folder' \subseteq Files /\ IsFiniteSet(folder')
  BY DEF SetActiveRow, ProfilesInv
<1>5. QED
  BY <1>2, <1>3, <1>4, SaveKeeps

LEMMA SelectKeyKeeps ==
  ASSUME ProfilesInv, NEW row \in Rows, NEW c \in Keyed, SetSelectKey(row, c)
  PROVE  ProfilesInv'
<1> DEFINE old == editor.entries[row]
           e == [old EXCEPT !.key = c]
           p == [editor EXCEPT !.entries[row].key = c]
<1>1. e \in Entry /\ e.name = old.name /\ e.file = old.file /\ e.key = c
  BY RowType DEF Entry, Keyed
<1>2. /\ p.entries = [editor.entries EXCEPT ![row] = e] /\ p.active = editor.active
      /\ p.next = editor.next /\ p.prev = editor.prev
      /\ p \in ListType
  BY <1>1, RowType DEF ListType
<1>3. Save(p) /\ UNCHANGED folder
  BY DEF SetSelectKey
<1>4. \/ c = None
      \/ /\ \A i \in Rows \ {row} : editor.entries[i].key # c
         /\ c \notin {editor.next, editor.prev, reserved}
  BY DEF SetSelectKey, IsComboFree, None
<1> HIDE DEF p, e
<1>5. QED
  BY <1>1, <1>2, <1>3, <1>4, RowType, RowKeeps

LEMMA FavoriteKeeps ==
  ASSUME ProfilesInv, NEW row \in Rows, NEW b \in BOOLEAN, SetFavorite(row, b)
  PROVE  ProfilesInv'
<1> DEFINE old == editor.entries[row]
           e == [old EXCEPT !.favorite = b]
           p == [editor EXCEPT !.entries[row].favorite = b]
<1>1. e \in Entry /\ e.name = old.name /\ e.file = old.file /\ e.key = old.key
  BY RowType DEF Entry
<1>2. /\ p.entries = [editor.entries EXCEPT ![row] = e] /\ p.active = editor.active
      /\ p.next = editor.next /\ p.prev = editor.prev
      /\ p \in ListType
  BY <1>1, RowType DEF ListType
<1>3. Save(p) /\ UNCHANGED folder
  BY DEF SetFavorite
<1> HIDE DEF p, e
<1>4. QED
  BY <1>1, <1>2, <1>3, RowType, RowKeeps

(* Standard's file and the last profile stay; the first one left is activated. *)
LEMMA RemoveKeeps ==
  ASSUME ProfilesInv, NEW row \in Rows, RemoveProfile(row)
  PROVE  ProfilesInv'
<1> DEFINE gone == editor.entries[row]
           rest == RemoveAt(editor.entries, row)
           p == [editor EXCEPT !.entries = rest,
                   !.active = IF @ = gone.name THEN rest[1].name ELSE @]
<1>1. editor \in ListType /\ editor.entries \in Seq(Entry)
      /\ Len(editor.entries) \in Nat /\ Len(editor.entries) > 1
  BY EntriesType DEF ProfilesInv, ListOK, RemoveProfile, IsProtected
<1>2. rest \in Seq(Entry) /\ Len(rest) >= 1
  BY <1>1, RemoveAtType DEF Rows
<1>3. rest[1] \in Entry
  BY <1>1, <1>2, ElementOfSeq
<1>4. /\ p.entries = rest /\ p.next = editor.next /\ p.prev = editor.prev
      /\ p.active = IF editor.active = gone.name THEN rest[1].name ELSE editor.active
      /\ p \in ListType
  BY <1>1, <1>2, <1>3 DEF ListType, Entry
<1>5. /\ Save(p) /\ folder' = folder \ {gone.file}
  BY DEF RemoveProfile
<1> HIDE DEF p, rest
<1>6. /\ Distinct(p) /\ NamesOf(p) = NamesOf(editor) \ {gone.name}
      /\ \A r : Clear(editor, r) => Clear(p, r)
  BY <1>1, <1>4, RemovedList DEF ProfilesInv, ListOK, Rows, rest
<1>7. p.active \in NamesOf(p)
  <2>1. CASE editor.active = gone.name
    BY <2>1, <1>2, <1>4 DEF NamesOf
  <2>2. CASE editor.active # gone.name
    BY <2>2, <1>4, <1>6 DEF ProfilesInv
  <2>3. QED
    BY <2>1, <2>2
<1>8. folder' \subseteq Files /\ IsFiniteSet(folder')
  BY <1>5, FS_Subset DEF ProfilesInv
<1>9. QED
  BY <1>4, <1>5, <1>6, <1>7, <1>8, SaveKeeps DEF ListOK

(* A cycle shortcut is one that neither a row nor the other slot has. *)
LEMMA CycleKeeps ==
  ASSUME ProfilesInv, NEW c \in Keyed, SetCycleNext(c) \/ SetCyclePrev(c)
  PROVE  ProfilesInv'
<1>1. /\ editor \in ListType /\ 0 \notin Rows
      /\ folder' \subseteq Files /\ IsFiniteSet(folder')
  <2>1. UNCHANGED folder
    BY DEF SetCycleNext, SetCyclePrev
  <2>2. 0 \notin Rows
    BY DEF Rows
  <2>3. QED
    BY <2>1, <2>2 DEF ProfilesInv, ListOK
<1>2. CASE SetCycleNext(c)
  <2> DEFINE p == [editor EXCEPT !.next = c]
  <2>1. /\ p.entries = editor.entries /\ p.active = editor.active
        /\ p.next = c /\ p.prev = editor.prev /\ p \in ListType
    BY <1>1 DEF ListType
  <2>2. ListOK(p) /\ p.active \in NamesOf(p)
    BY <2>1 DEF ListOK, ProfilesInv, Distinct, NamesOf
  <2>3. c = None \/ /\ \A i \in Rows : editor.entries[i].key # c
                    /\ editor.prev # c /\ reserved # c
    BY <1>1, <1>2 DEF SetCycleNext, IsComboFree
  <2>4. Clear(editor, reserved) => Clear(p, reserved)
    BY <2>1, <2>3 DEF Clear, Rows
  <2>5. Save(p)
    BY <1>2 DEF SetCycleNext
  <2> HIDE DEF p
  <2>6. QED
    BY <1>1, <2>2, <2>4, <2>5, SaveKeeps
<1>3. CASE SetCyclePrev(c)
  <2> DEFINE p == [editor EXCEPT !.prev = c]
  <2>1. /\ p.entries = editor.entries /\ p.active = editor.active
        /\ p.prev = c /\ p.next = editor.next /\ p \in ListType
    BY <1>1 DEF ListType
  <2>2. ListOK(p) /\ p.active \in NamesOf(p)
    BY <2>1 DEF ListOK, ProfilesInv, Distinct, NamesOf
  <2>3. c = None \/ /\ \A i \in Rows : editor.entries[i].key # c
                    /\ editor.next # c /\ reserved # c
    BY <1>1, <1>3 DEF SetCyclePrev, IsComboFree
  <2>4. Clear(editor, reserved) => Clear(p, reserved)
    BY <2>1, <2>3 DEF Clear, Rows
  <2>5. Save(p)
    BY <1>3 DEF SetCyclePrev
  <2> HIDE DEF p
  <2>6. QED
    BY <1>1, <2>2, <2>4, <2>5, SaveKeeps
<1>4. QED
  BY <1>2, <1>3

(* The pause toggle is taken only when it is free. *)
LEMMA ReservedKeeps ==
  ASSUME ProfilesInv, NEW c \in Keyed, SetReservedCombo(c)
  PROVE  ProfilesInv'
<1>1. /\ UNCHANGED <<disk, editor, engine, folder, busy, openedClear>>
      /\ reserved' = c /\ 0 \notin Rows
  BY DEF SetReservedCombo, Rows
<1>2. c = None \/ /\ \A i \in Rows : editor.entries[i].key # c
                  /\ editor.next # c /\ editor.prev # c
  BY <1>1 DEF SetReservedCombo, IsComboFree, None
<1>3. Clear(editor, reserved) => Clear(editor, c)
  BY <1>2 DEF Clear, Rows
<1>4. QED
  BY <1>1, <1>3 DEF ProfilesInv, ListOK, ListType, Distinct, NamesOf, Clear

(* A list is opened whole: seeded or read, registered, corrected. *)
LEMMA OpenKeeps ==
  ASSUME ProfilesInv, OpenEditor
  PROVE  ProfilesInv'
<1> DEFINE base == IF disk.entries = <<>> THEN Seeded ELSE disk
           loose == folder \ FilesOf(base)
<1>1. ListOK(base) /\ Len(base.entries) >= 1
  <2>1. CASE disk.entries = <<>>
    <3>1. ListOK(Seeded) /\ Seeded.entries # <<>>
      BY SeededOK DEF Seeded, Unwritten
    <3>2. Len(Seeded.entries) >= 1
      BY <3>1, NotEmpty DEF ListOK
    <3>3. base = Seeded
      BY <2>1
    <3> HIDE DEF base
    <3>4. QED
      BY <3>1, <3>2, <3>3
  <2>2. CASE disk.entries # <<>>
    BY <2>2, NotEmpty DEF ProfilesInv, ListOK
  <2>3. QED
    BY <2>1, <2>2
<1>2. loose \subseteq Files \ FilesOf(base) /\ IsFiniteSet(loose)
  BY FS_Subset DEF ProfilesInv
<1>3. PICK order \in SetToSeqs(loose), naming \in [loose -> Names \ NamesOf(base)] :
        LET all == Registered(base, order, naming)
            new == IF all.active \in NamesOf(all) THEN all
                   ELSE [all EXCEPT !.active = all.entries[1].name]
        IN  /\ IsInjective(naming) /\ editor' = new
            /\ disk' \in {disk, new}
  BY DEF OpenEditor
<1> DEFINE all == Registered(base, order, naming)
           new == IF all.active \in NamesOf(all) THEN all
                  ELSE [all EXCEPT !.active = all.entries[1].name]
<1> HIDE DEF base, loose
<1>4. ListOK(all) /\ Len(all.entries) >= 1
  <2>1. ListOK(all) /\ Len(base.entries) <= Len(all.entries)
    BY <1>1, <1>2, <1>3, RegisteredList DEF ListOK
  <2>2. Len(base.entries) \in Nat /\ Len(all.entries) \in Nat
    BY <1>1, <2>1, EntriesType DEF ListOK
  <2> HIDE DEF all
  <2>3. QED
    BY <1>1, <2>1, <2>2
<1>5. editor' = new /\ disk' \in {disk, new}
  BY <1>3
<1> HIDE DEF all
<1>6. ListOK(new) /\ new.active \in NamesOf(new)
  BY <1>4, Corrected
<1> HIDE DEF new
<1>7. /\ UNCHANGED <<folder, reserved, engine>>
      /\ openedClear' = Unambiguous(Append(Keys(editor'), reserved))
  BY DEF OpenEditor
<1>8. openedClear' => Clear(new, reserved)
  BY <1>5, <1>6, <1>7, ClearKeys DEF ListOK, ProfilesInv
<1>9. /\ ListOK(disk') /\ ListOK(editor') /\ ListOK(engine')
      /\ editor'.active \in NamesOf(editor') /\ engine'.active \in NamesOf(engine')
      /\ openedClear' => Clear(editor', reserved')
  BY <1>5, <1>6, <1>7, <1>8 DEF ProfilesInv
<1>10. QED
  BY <1>7, <1>9 DEF ProfilesInv, ListOK, ListType, Distinct, NamesOf, Clear

(* What takes over the file's active name. *)
LEMMA AdoptKeeps ==
  ASSUME ProfilesInv, Reread \/ AdoptActive
  PROVE  ProfilesInv'
<1>1. /\ editor' = Adopted /\ busy # "closed"
      /\ UNCHANGED <<disk, folder, reserved, engine, openedClear>>
  BY DEF Reread, AdoptActive, counters
<1>2. /\ ListOK(Adopted) /\ Adopted.active \in NamesOf(Adopted)
      /\ Clear(editor, reserved) => Clear(Adopted, reserved)
  BY AdoptedOK DEF ProfilesInv
<1>3. QED
  BY <1>1, <1>2 DEF ProfilesInv

(* What leaves the lists alone. *)
LEMMA OtherEditorStepsKeep ==
  ASSUME ProfilesInv,
         Refuse \/ CloseEditor \/ NoticeChange \/ \E f \in Files : SaveMappings(f)
  PROVE  ProfilesInv'
<1>1. /\ UNCHANGED <<disk, editor, reserved, engine, openedClear>>
      /\ busy' # "closed" => busy # "closed"
  BY DEF Refuse, CloseEditor, NoticeChange, SaveMappings, counters
<1>2. folder' \subseteq Files /\ IsFiniteSet(folder')
  BY FS_AddElement
     DEF ProfilesInv, Refuse, CloseEditor, NoticeChange, SaveMappings, counters
<1>3. QED
  BY <1>1, <1>2 DEF ProfilesInv

(* The engine's steps: a switch saves the engine's list over the file. *)
LEMMA EngineKeeps ==
  ASSUME ProfilesInv, EngineStep
  PROVE  ProfilesInv'
<1>1. UNCHANGED <<folder, editor, reserved, busy, openedClear>>
  BY DEF EngineStep, SwitchToProfileName, ArmReload, ReloadAll, counters
<1>2. ListOK(disk') /\ ListOK(engine') /\ engine'.active \in NamesOf(engine')
  <2>1. ASSUME NEW n \in Names, SwitchToProfileName(n)
        PROVE  ListOK(disk') /\ ListOK(engine') /\ engine'.active \in NamesOf(engine')
    <3> DEFINE q == [engine EXCEPT !.active = n]
    <3>1. /\ q \in ListType /\ q.entries = engine.entries /\ q.active = n
      BY DEF ProfilesInv, ListOK, ListType
    <3>2. engine' = q /\ disk' = q /\ n \in NamesOf(engine)
      BY <2>1 DEF SwitchToProfileName, Write
    <3> HIDE DEF q
    <3>3. ListOK(q) /\ q.active \in NamesOf(q)
      BY <3>1, <3>2 DEF ProfilesInv, ListOK, Distinct, NamesOf
    <3>4. QED
      BY <3>2, <3>3
  <2>2. CASE ArmReload
    BY <2>2 DEF ArmReload, ProfilesInv
  <2>3. CASE ReloadAll
    BY <2>3, LoadedOK DEF ReloadAll, ProfilesInv
  <2>4. QED
    BY <2>1, <2>2, <2>3 DEF EngineStep
<1>3. QED
  BY <1>1, <1>2 DEF ProfilesInv

-----------------------------------------------------------------------------
(* Every configuration a behaviour starts from is a sound list. *)
LEMMA ConfigsOK == \A d \in Configs : ListOK(d)
<1> DEFINE e == Profile(Standard, MappingsFile)
           w == Profile("Work", <<SlugOf["Work"], 1>>)
           two == [Seeded EXCEPT !.entries = Append(@, w)]
<1>1. /\ e \in Entry /\ w \in Entry /\ e.name # w.name /\ e.file # w.file
      /\ e.key = None /\ w.key = None
  <2>1. 1 \in 1..MaxSuffix /\ SlugOf["Work"] \in Slugs
    BY ProfilesAssumption DEF ProfilesAssumption
  <2>2. MappingsFile # <<SlugOf["Work"], 1>>
    BY DEF MappingsFile
  <2>3. QED
    BY <2>1, <2>2, ProfilesAssumption DEF Profile, Entry, Files, Standard, ProfilesAssumption
<1>2. Seeded = [entries |-> <<e>>, active |-> Standard, next |-> None, prev |-> None]
  <2>1. Seeded = [Unwritten EXCEPT !.entries = <<e>>, !.active = Standard]
    BY DEF Seeded
  <2> HIDE DEF e
  <2>2. QED
    BY <2>1 DEF Unwritten
<1> HIDE DEF e, w
<1>3. two = [entries |-> <<e, w>>, active |-> Standard, next |-> None, prev |-> None]
  BY <1>1, <1>2
<1>4. /\ <<e, w>> \in Seq(Entry) /\ Len(<<e, w>>) = 2
      /\ <<e, w>>[1] = e /\ <<e, w>>[2] = w
  BY <1>1
<1>5. ASSUME NEW a \in Names \cup {"Gone"},
             NEW d, d = [entries |-> <<e, w>>, active |-> a, next |-> None, prev |-> None]
      PROVE  ListOK(d)
  <2>1. d \in ListType
    BY <1>4, <1>5 DEF ListType, Keyed
  <2>2. d.entries = <<e, w>>
    BY <1>5
  <2>3. Distinct(d)
    BY <1>1, <1>4, <2>2 DEF Distinct
  <2>4. QED
    BY <2>1, <2>3 DEF ListOK
<1>6. ListOK(Unwritten)
  BY DEF Unwritten, ListOK, ListType, Keyed, Distinct
<1>7. ListOK(two)
  BY <1>3, <1>5, ProfilesAssumption DEF ProfilesAssumption
<1>8. ListOK([two EXCEPT !.active = "Gone"])
  <2>1. [two EXCEPT !.active = "Gone"] =
          [entries |-> <<e, w>>, active |-> "Gone", next |-> None, prev |-> None]
    <3> HIDE DEF two
    <3>1. QED
      BY <1>3
  <2>2. QED
    BY <2>1, <1>5
<1>9. Configs = {Unwritten, two, [two EXCEPT !.active = "Gone"]}
  BY DEF Configs, w
<1>10. QED
  BY <1>6, <1>7, <1>8, <1>9

LEMMA InitInv ==
  ASSUME ProfilesInit
  PROVE  ProfilesInv
<1>1. ListOK(disk) /\ editor = Seeded /\ reserved = None
      /\ busy = "closed" /\ engine = Loaded
  BY ConfigsOK DEF ProfilesInit
<1>2. folder \subseteq Files /\ IsFiniteSet(folder)
  <2>1. folder \subseteq {<<SlugOf["Work"], 1>>}
    BY DEF ProfilesInit
  <2>2. <<SlugOf["Work"], 1>> \in Files
    BY ProfilesAssumption DEF ProfilesAssumption, Files
  <2>3. IsFiniteSet({<<SlugOf["Work"], 1>>})
    BY FS_Singleton
  <2>4. IsFiniteSet(folder)
    BY <2>1, <2>3, FS_Subset
  <2>5. QED
    BY <2>1, <2>2, <2>4
<1>3. QED
  BY <1>1, <1>2, LoadedOK, SeededOK DEF ProfilesInv, Keyed

LEMMA StepInv ==
  ASSUME ProfilesInv, [ProfilesNext]_profileVars
  PROVE  ProfilesInv'
<1>1. CASE UNCHANGED profileVars
  BY <1>1 DEF profileVars, ProfilesInv
<1>2. CASE EngineStep
  BY <1>2, EngineKeeps
<1>3. CASE EditorStep
  <2>1. CASE Reread \/ AdoptActive
    BY <2>1, AdoptKeeps
  <2>2. CASE Refuse \/ CloseEditor \/ NoticeChange \/ \E f \in Files : SaveMappings(f)
    BY <2>2, OtherEditorStepsKeep
  <2>3. CASE OpenEditor
    BY <2>3, OpenKeeps
  <2>4. ASSUME NEW n \in Names, CreateProfile(n) PROVE ProfilesInv'
    <3>1. SlugOf[n] \in Slugs
      BY ProfilesAssumption DEF ProfilesAssumption
    <3>2. QED
      BY <2>4, <3>1, AddKeeps DEF CreateProfile
  <2>5. ASSUME NEW p \in Presets, AddProfileFromPreset(p) PROVE ProfilesInv'
    <3>1. p.name \in Names /\ p.slug \in Slugs
      BY ProfilesAssumption DEF ProfilesAssumption
    <3>2. PICK n \in UniqueNames(p.name) :
            Save(Append1(editor, Profile(n, UniqueFile(p.slug))))
      BY <2>5 DEF AddProfileFromPreset
    <3>3. n \in Names /\ ~NameTaken(n, 0)
      BY <3>1 DEF UniqueNames, NameTaken, NamesOf, Rows
    <3>4. QED
      BY <2>5, <3>1, <3>2, <3>3, AddKeeps DEF AddProfileFromPreset
  <2>6. ASSUME NEW row \in Rows, EditRow(row) PROVE ProfilesInv'
    BY <2>6, RenameKeeps, RemoveKeeps, ActiveKeeps, SelectKeyKeeps, FavoriteKeeps
       DEF EditRow, Keyed
  <2>7. ASSUME NEW c \in Keyed, SetCycleNext(c) \/ SetCyclePrev(c) PROVE ProfilesInv'
    BY <2>7, CycleKeeps
  <2>8. ASSUME NEW c \in Keyed, SetReservedCombo(c) PROVE ProfilesInv'
    BY <2>8, ReservedKeeps
  <2>9. QED
    BY <1>3, <2>1, <2>2, <2>3, <2>4, <2>5, <2>6, <2>7, <2>8 DEF EditorStep, Keyed
<1>4. QED
  BY <1>1, <1>2, <1>3 DEF ProfilesNext

(* No list gives two profiles one name or file, an active profile is on its *)
(* list, and in the editor no shortcut comes to stand for two things,       *)
(* whatever the editor and the engine write and reload in between.          *)
THEOREM ListsStaySound == ProfilesSpec => []ListsAreSound
<1>1. ProfilesInit => ProfilesInv
  BY InitInv
<1>2. ProfilesInv /\ [ProfilesNext]_profileVars => ProfilesInv'
  BY StepInv
<1>3. ProfilesInv => ListsAreSound
  BY ClearKeys DEF ProfilesInv, ListsAreSound, ListOK
<1>4. QED
  BY <1>1, <1>2, <1>3, PTL DEF ProfilesSpec

-----------------------------------------------------------------------------
(* What is on its way *)

(* The editor's active marker is the file's, if the editor knows it. *)
MarkerAgrees == disk.active \in NamesOf(editor) => editor.active = disk.active

(* A change of the file is told to the engine until it rereads, and to an open *)
(* editor, who watches the file or has a notice of it; a handler works on the  *)
(* marker it reread, or has a notice that it must reread it.                   *)
QuietInv ==
    /\ reload = "no" => engine = Loaded
    /\ busy # "closed" => watched \/ notice
    /\ busy \in {"idle", "edit"} /\ ~notice => MarkerAgrees

(* Adopting the file's active name makes the markers agree. *)
LEMMA AdoptedAgrees ==
  ASSUME ProfilesInv
  PROVE  disk.active \in NamesOf(Adopted) => Adopted.active = disk.active
<1>1. /\ Adopted.entries = editor.entries
      /\ disk.active \in NamesOf(editor) => Adopted.active = disk.active
  BY DEF Adopted, ProfilesInv, ListOK, ListType
<1>2. QED
  BY <1>1 DEF NamesOf

(* An opened list has the file's active name, or one that the file does not name. *)
LEMMA OpenedAgrees ==
  ASSUME ProfilesInv, OpenEditor
  PROVE  MarkerAgrees'
<1> DEFINE base == IF disk.entries = <<>> THEN Seeded ELSE disk
           loose == folder \ FilesOf(base)
<1>1. PICK order \in SetToSeqs(loose), naming \in [loose -> Names \ NamesOf(base)] :
        LET all == Registered(base, order, naming)
            new == IF all.active \in NamesOf(all) THEN all
                   ELSE [all EXCEPT !.active = all.entries[1].name]
        IN  /\ editor' = new
            /\ disk' = new \/ (disk.entries # <<>> /\ disk' = disk)
  BY DEF OpenEditor
<1> DEFINE all == Registered(base, order, naming)
           new == IF all.active \in NamesOf(all) THEN all
                  ELSE [all EXCEPT !.active = all.entries[1].name]
<1>2. editor' = new /\ (disk' = new \/ (disk.entries # <<>> /\ disk' = disk))
  BY <1>1
<1>3. CASE disk' = new
  BY <1>2, <1>3 DEF MarkerAgrees, NamesOf
<1>4. CASE disk.entries # <<>> /\ disk' = disk
  <2>1. base = disk /\ disk \in ListType
    BY <1>4 DEF ProfilesInv, ListOK
  <2>2. all.active = disk.active
    BY <2>1 DEF Registered, ListType
  <2>3. "entries" \in DOMAIN all
    BY <2>1 DEF Registered, ListType
  <2> HIDE DEF all
  <2>4. new.entries = all.entries /\ (all.active \in NamesOf(all) => new = all)
    BY <2>3
  <2>5. NamesOf(new) = NamesOf(all)
    BY <2>4 DEF NamesOf
  <2> HIDE DEF new
  <2>6. disk.active \in NamesOf(new) => new.active = disk.active
    BY <2>2, <2>4, <2>5
  <2>7. QED
    BY <1>2, <1>4, <2>6 DEF MarkerAgrees, NamesOf
<1>5. QED
  BY <1>2, <1>3, <1>4

LEMMA QuietStep ==
  ASSUME ProfilesInv, QuietInv, [ProfilesNext]_profileVars
  PROVE  QuietInv'
<1>1. CASE UNCHANGED profileVars
  BY <1>1 DEF profileVars, QuietInv, MarkerAgrees, NamesOf, Loaded
<1>2. ASSUME NEW p, Save(p) PROVE QuietInv'
  <2>1. /\ disk' = p /\ editor' = p /\ reload' = "event" /\ busy = "edit"
        /\ notice' = (notice \/ watched)
    BY <1>2 DEF Save, Write
  <2>2. QED
    BY <2>1 DEF QuietInv, MarkerAgrees
<1>4. CASE EngineStep
  <2>1. ASSUME NEW n \in Names, SwitchToProfileName(n) PROVE QuietInv'
    <3>1. Write(engine') /\ UNCHANGED <<editor, busy>>
      BY <2>1 DEF SwitchToProfileName
    <3>2. /\ disk' = engine' /\ reload' = "event"
          /\ notice' = (notice \/ watched) /\ watched' = FALSE
      BY <3>1 DEF Write
    <3>3. QED
      BY <3>1, <3>2 DEF QuietInv
  <2>2. CASE ArmReload
    BY <2>2 DEF ArmReload, QuietInv, MarkerAgrees, NamesOf, counters
  <2>3. CASE ReloadAll
    BY <2>3 DEF ReloadAll, QuietInv, MarkerAgrees, NamesOf, Loaded, counters
  <2>4. QED
    BY <1>4, <2>1, <2>2, <2>3 DEF EngineStep
<1>5. CASE Reread \/ AdoptActive
  <2>1. /\ editor' = Adopted /\ busy # "closed"
        /\ UNCHANGED <<disk, reload, engine, watched, notice>>
    BY <1>5 DEF Reread, AdoptActive, counters
  <2>2. MarkerAgrees'
    BY <2>1, AdoptedAgrees DEF MarkerAgrees
  <2>3. Loaded' = Loaded
    BY <2>1 DEF Loaded, NamesOf
  <2>4. QED
    BY <2>1, <2>2, <2>3 DEF QuietInv
<1>6. CASE OpenEditor
  <2>1. /\ watched' = TRUE /\ notice' = FALSE /\ UNCHANGED engine
        /\ reload' = "event" \/ UNCHANGED <<disk, reload>>
    BY <1>6 DEF OpenEditor
  <2>2. QED
    BY <1>6, <2>1, OpenedAgrees DEF QuietInv, Loaded, NamesOf
<1>7. CASE \/ Refuse \/ CloseEditor \/ NoticeChange \/ \E f \in Files : SaveMappings(f)
           \/ \E c \in Keyed : SetReservedCombo(c)
  <2>1. UNCHANGED <<disk, editor, engine>> /\ (reload' = "event" \/ UNCHANGED reload)
    BY <1>7 DEF Refuse, CloseEditor, NoticeChange, SaveMappings, SetReservedCombo, counters
  <2>2. Loaded' = Loaded /\ (MarkerAgrees' <=> MarkerAgrees)
    BY <2>1 DEF Loaded, NamesOf, MarkerAgrees
  <2>3. busy' # "closed" => watched' \/ notice'
    BY <1>7 DEF Refuse, CloseEditor, NoticeChange, SaveMappings, SetReservedCombo, counters,
                QuietInv
  <2>4. busy' \in {"idle", "edit"} /\ ~notice' => busy \in {"idle", "edit"} /\ ~notice
    BY <1>7 DEF Refuse, CloseEditor, NoticeChange, SaveMappings, SetReservedCombo, counters
  <2>5. QED
    BY <2>1, <2>2, <2>3, <2>4 DEF QuietInv
<1>8. CASE \/ \E n \in Names : CreateProfile(n)
           \/ \E p \in Presets : AddProfileFromPreset(p)
           \/ \E row \in Rows : EditRow(row)
           \/ \E c \in Keyed : SetCycleNext(c) \/ SetCyclePrev(c)
  <2>1. \E p : Save(p)
    BY <1>8 DEF CreateProfile, AddProfileFromPreset, EditRow, RenameProfile, RemoveProfile,
                SetActiveRow, SetSelectKey, SetFavorite, SetCycleNext, SetCyclePrev
  <2>2. QED
    BY <1>2, <2>1
<1>9. QED
  BY <1>1, <1>4, <1>5, <1>6, <1>7, <1>8 DEF ProfilesNext, EditorStep, Keyed

(* When no change is on its way to the engine it runs what profiles.conf says, *)
(* and when none is on its way to the open editor its marker is the file's.  *)
THEOREM QuietSidesStayAgreed == ProfilesSpec => []QuietSidesAgree
<1>1. ProfilesInit => ProfilesInv /\ QuietInv
  BY InitInv DEF ProfilesInit, QuietInv
<1>2. ProfilesInv /\ QuietInv /\ [ProfilesNext]_profileVars => (ProfilesInv /\ QuietInv)'
  BY StepInv, QuietStep
<1>3. QuietInv => QuietSidesAgree
  BY DEF QuietInv, QuietSidesAgree, MarkerAgrees
<1>4. QED
  BY <1>1, <1>2, <1>3, PTL DEF ProfilesSpec

-----------------------------------------------------------------------------
(* The leaders of the settings page *)

(* What a file may hold: a code that is no key, or one that is unusable.   *)
StoredKey == [enabled: BOOLEAN, code: Codes \cup {kNoKeyCode, BadCode}]
Stored == [leader: [BuiltIn -> BOOLEAN], custom: [Slots -> StoredKey], other: {0, 1},
           layout: Layouts \cup {NoLayout}]

LeaderInv ==
    /\ model \in Content
    /\ settingsConf \in Stored
    /\ LeaderRemains

(* What remains when one leader goes that is not the last.                 *)
LEMMA NotTheLast ==
  ASSUME NEW E, NEW l, l \in E, Cardinality(E) # 1
  PROVE  E \ {l} # {}
<1>1. SUFFICES ASSUME E \ {l} = {} PROVE FALSE
  OBVIOUS
<1>2. E = {l}
  BY <1>1
<1>3. QED
  BY <1>2, FS_Singleton

(* Loading gives members of their types, *)
LEMMA LoadType ==
  ASSUME settingsConf \in Stored
  PROVE  Load \in Content
<1>1. \A k \in Slots : settingsConf.custom[k] \in StoredKey
  BY DEF Stored
<1>2. \A c : KeyCodeValue(c) \in Codes \cup {kNoKeyCode}
  BY DEF KeyCodeValue, IsUsableKeyCode
<1>3. \A k \in Slots :
        [settingsConf.custom[k] EXCEPT !.code = KeyCodeValue(@)] \in CustomKey
  BY <1>1, <1>2 DEF StoredKey, CustomKey
<1>4. settingsConf.leader \in [BuiltIn -> BOOLEAN] /\ settingsConf.other \in {0, 1}
  BY DEF Stored
<1>5. QED
  BY <1>3, <1>4 DEF Load, Content

(* and what was saved is loaded again, as far as leaders are concerned.    *)
LEMMA SavedIsLoaded ==
  ASSUME NEW s \in Content, settingsConf' = Written(s)
  PROVE  settingsConf' \in Stored /\ EffectiveLeaders(Load') = EffectiveLeaders(s)
<1>1. \A k \in Slots : s.custom[k] \in CustomKey
  BY DEF Content
<1>2. settingsConf' \in Stored
  <2>1. s.custom \in [Slots -> StoredKey]
    BY <1>1 DEF Content, CustomKey, StoredKey
  <2>2. QED
    BY <2>1 DEF Written, Stored, Content
<1>3. \A k \in Slots : KeyCodeValue(s.custom[k].code) = s.custom[k].code
  BY <1>1 DEF KeyCodeValue, IsUsableKeyCode, CustomKey
<1>4. /\ Load'.leader = s.leader
      /\ Load'.custom = [k \in Slots |->
           [s.custom[k] EXCEPT !.code = KeyCodeValue(@)]]
  BY DEF Load, Written
<1>5. \A k \in Slots : /\ Load'.custom[k].enabled = s.custom[k].enabled
                       /\ Load'.custom[k].code = s.custom[k].code
  BY <1>1, <1>3, <1>4 DEF CustomKey
<1>6. QED
  BY <1>2, <1>4, <1>5 DEF EffectiveLeaders, HasKey

(* A saved change that keeps a leader keeps the invariant, whether or not   *)
(* the file could be written.                                              *)
LEMMA SaveSettingsKeeps ==
  ASSUME LeaderInv, NEW s \in Content, EffectiveLeaders(s) # {}, SaveSettings(s)
  PROVE  LeaderInv'
<1>1. model' = s
  BY DEF SaveSettings
<1>2. CASE settingsConf' = Written(s)
  BY <1>1, <1>2, SavedIsLoaded DEF LeaderInv, LeaderRemains
<1>3. CASE UNCHANGED settingsConf
  BY <1>1, <1>3 DEF LeaderInv, LeaderRemains, Load
<1>4. QED
  BY <1>2, <1>3 DEF SaveSettings

LEMMA SetLeaderKeeps ==
  ASSUME LeaderInv, NEW l \in BuiltIn, NEW v \in BOOLEAN, SetLeader(l, v)
  PROVE  LeaderInv'
<1> DEFINE s == [model EXCEPT !.leader[l] = v]
<1>1. model \in Content /\ EffectiveLeaders(model) # {}
  BY DEF LeaderInv, LeaderRemains
<1>2. s \in Content
  BY <1>1 DEF Content
<1>3. /\ s.custom = model.custom
      /\ s.leader[l] = v
      /\ \A m \in BuiltIn \ {l} : s.leader[m] = model.leader[m]
  BY <1>1 DEF Content
<1>4. EffectiveLeaders(model) \ {l} \subseteq EffectiveLeaders(s)
  BY <1>3 DEF EffectiveLeaders, HasKey
<1>5. EffectiveLeaders(s) # {}
  <2>1. CASE v \/ ~model.leader[l]
    BY <2>1, <1>1, <1>3 DEF EffectiveLeaders, HasKey
  <2>2. CASE ~v /\ model.leader[l]
    <3>1. l \in EffectiveLeaders(model) /\ Cardinality(EffectiveLeaders(model)) # 1
      BY <2>2 DEF SetLeader, AllowLeaderOff, EffectiveLeaders
    <3>2. QED
      BY <3>1, <1>4, NotTheLast
  <2>3. QED
    BY <2>1, <2>2
<1>6. SaveSettings(s)
  BY DEF SetLeader
<1>7. QED
  BY <1>2, <1>5, <1>6, SaveSettingsKeeps

(* The three changes of a custom key: the other slot and the built-in       *)
(* leaders stay as they are, so the key itself may go only when it is not   *)
(* the last.                                                               *)
LEMMA CustomKeeps ==
  ASSUME LeaderInv, NEW k \in Slots, NEW key \in CustomKey,
         SaveSettings([model EXCEPT !.custom[k] = key]),
         \/ key.enabled /\ key.code # kNoKeyCode
         \/ AllowLeaderOff(model.custom[k].enabled /\ HasKey(model, k))
  PROVE  LeaderInv'
<1> DEFINE s == [model EXCEPT !.custom[k] = key]
<1>1. model \in Content /\ EffectiveLeaders(model) # {}
  BY DEF LeaderInv, LeaderRemains
<1>2. s \in Content
  BY <1>1 DEF Content
<1>3. /\ s.leader = model.leader
      /\ s.custom[k] = key
      /\ \A m \in Slots \ {k} : s.custom[m] = model.custom[m]
  BY <1>1 DEF Content
<1>4. EffectiveLeaders(model) \ {k} \subseteq EffectiveLeaders(s)
  BY <1>3 DEF EffectiveLeaders, HasKey
<1>5. EffectiveLeaders(s) # {}
  <2>1. CASE key.enabled /\ key.code # kNoKeyCode
    BY <2>1, <1>3 DEF EffectiveLeaders, HasKey
  <2>2. CASE AllowLeaderOff(model.custom[k].enabled /\ HasKey(model, k))
    <3>1. CASE k \in EffectiveLeaders(model)
      <4>1. model.custom[k].enabled /\ HasKey(model, k)
        BY <3>1, SettingsAssumption DEF EffectiveLeaders
      <4>2. Cardinality(EffectiveLeaders(model)) # 1
        BY <4>1, <2>2 DEF AllowLeaderOff
      <4>3. EffectiveLeaders(model) \ {k} # {}
        BY <3>1, <4>2, NotTheLast
      <4>4. QED
        BY <4>3, <1>4
    <3>2. CASE k \notin EffectiveLeaders(model)
      BY <3>2, <1>1, <1>4
    <3>3. QED
      BY <3>1, <3>2
  <2>3. QED
    BY <2>1, <2>2
<1>6. QED
  BY <1>2, <1>5, SaveSettingsKeeps

LEMMA CustomKeyType ==
  ASSUME LeaderInv, NEW k \in Slots
  PROVE  model.custom[k] \in CustomKey
  BY DEF LeaderInv, Content

LEMMA EnableKeeps ==
  ASSUME LeaderInv, NEW k \in Slots, NEW v \in BOOLEAN, SetCustomKeyEnabled(k, v)
  PROVE  LeaderInv'
<1> DEFINE key == [model.custom[k] EXCEPT !.enabled = v]
<1>1. key \in CustomKey /\ key.enabled = v /\ key.code = model.custom[k].code
  BY CustomKeyType DEF CustomKey
<1>2. [model EXCEPT !.custom[k].enabled = v] = [model EXCEPT !.custom[k] = key]
  OBVIOUS
<1>3. SaveSettings([model EXCEPT !.custom[k] = key])
  BY <1>2 DEF SetCustomKeyEnabled
<1>4. CASE key.enabled /\ key.code # kNoKeyCode
  BY <1>1, <1>3, <1>4, CustomKeeps
<1>5. CASE ~v
  BY <1>1, <1>3, <1>5, CustomKeeps DEF SetCustomKeyEnabled
<1>6. CASE v /\ key.code = kNoKeyCode
  <2>1. AllowLeaderOff(model.custom[k].enabled /\ HasKey(model, k))
    BY <1>1, <1>6 DEF AllowLeaderOff, HasKey
  <2>2. QED
    BY <2>1, <1>1, <1>3, CustomKeeps
<1>7. QED
  BY <1>1, <1>4, <1>5, <1>6

LEMMA CodeKeeps ==
  ASSUME LeaderInv, NEW k \in Slots, NEW code \in Codes \cup {kNoKeyCode},
         SaveSettings([model EXCEPT !.custom[k].code = code]),
         \/ code # kNoKeyCode
         \/ AllowLeaderOff(model.custom[k].enabled /\ HasKey(model, k))
  PROVE  LeaderInv'
<1> DEFINE key == [model.custom[k] EXCEPT !.code = code]
<1>1. key \in CustomKey /\ key.enabled = model.custom[k].enabled /\ key.code = code
  BY CustomKeyType DEF CustomKey
<1>2. [model EXCEPT !.custom[k].code = code] = [model EXCEPT !.custom[k] = key]
  OBVIOUS
<1>3. SaveSettings([model EXCEPT !.custom[k] = key])
  BY <1>2
<1>4. CASE model.custom[k].enabled
  BY <1>1, <1>3, <1>4, CustomKeeps
<1>5. CASE ~model.custom[k].enabled
  <2>1. AllowLeaderOff(model.custom[k].enabled /\ HasKey(model, k))
    BY <1>5 DEF AllowLeaderOff
  <2>2. QED
    BY <2>1, <1>1, <1>3, CustomKeeps
<1>6. QED
  BY <1>4, <1>5

LEMMA PageKeeps ==
  ASSUME LeaderInv, PageStep
  PROVE  LeaderInv'
<1>1. ASSUME NEW l \in BuiltIn, NEW v \in BOOLEAN, SetLeader(l, v) PROVE LeaderInv'
  BY <1>1, SetLeaderKeeps
<1>2. ASSUME NEW k \in Slots, NEW v \in BOOLEAN, SetCustomKeyEnabled(k, v)
      PROVE  LeaderInv'
  BY <1>2, EnableKeeps
<1>3. ASSUME NEW k \in Slots, NEW c \in Codes \cup {BadCode}, CaptureCustomKey(k, c)
      PROVE  LeaderInv'
  <2>1. KeyCodeValue(c) \in Codes \cup {kNoKeyCode}
    BY DEF KeyCodeValue, IsUsableKeyCode
  <2>2. QED
    BY <1>3, <2>1, CodeKeeps DEF CaptureCustomKey
<1>4. ASSUME NEW k \in Slots, ClearCustomKey(k) PROVE LeaderInv'
  BY <1>4, CodeKeeps DEF ClearCustomKey
<1>5. ASSUME NEW v \in {0, 1}, SetOther(v) PROVE LeaderInv'
  <2> DEFINE s == [model EXCEPT !.other = v]
  <2>1. s \in Content /\ s.leader = model.leader /\ s.custom = model.custom
    BY DEF LeaderInv, Content
  <2>2. EffectiveLeaders(s) # {}
    BY <2>1 DEF LeaderInv, LeaderRemains, EffectiveLeaders, HasKey
  <2>3. QED
    BY <1>5, <2>1, <2>2, SaveSettingsKeeps DEF SetOther
<1>6. CASE OpenSettings
  <2>1. model' = Load /\ Load' = Load /\ settingsConf' = settingsConf
    BY <1>6 DEF OpenSettings, Load
  <2>2. QED
    BY <2>1, LoadType DEF LeaderInv, LeaderRemains
<1>7. CASE CloseSettings
  BY <1>7 DEF CloseSettings, LeaderInv, LeaderRemains, Load
<1>8. QED
  BY <1>1, <1>2, <1>3, <1>4, <1>5, <1>6, <1>7 DEF PageStep

LEMMA LeaderStarts ==
  ASSUME SettingsInit PROVE LeaderInv
<1>1. settingsConf \in Stored
  BY DEF SettingsInit, Stored, StoredKey
<1>2. QED
  BY <1>1, LoadType DEF SettingsInit, LeaderInv, LeaderRemains

LEMMA LeaderStep ==
  ASSUME LeaderInv, [SettingsNext]_settingsVars PROVE LeaderInv'
<1>1. CASE PageStep
  BY <1>1, PageKeeps
<1>2. CASE BusStep
  <2>1. UNCHANGED <<model, settingsConf>>
    BY <1>2 DEF BusStep, Answer, EngineStarts, EngineEnds, EngineTogglesPause,
                Deliver, pageVars
  <2>2. QED
    BY <2>1 DEF LeaderInv, LeaderRemains, Load
<1>3. CASE UNCHANGED settingsVars
  BY <1>3 DEF settingsVars, LeaderInv, LeaderRemains, Load
<1>4. QED
  BY <1>1, <1>2, <1>3 DEF SettingsNext

(* "At least one leader always stays active" (SettingsModel.cpp, allowLeaderOff):  *)
(* in the page and in the file as the engine reads it, whatever is switched  *)
(* off, cleared, captured or not saved, for all leaders and codes.         *)
THEOREM LeaderAlwaysRemains == SettingsSpec => []LeaderRemains
<1>1. SettingsInit => LeaderInv
  BY LeaderStarts
<1>2. LeaderInv /\ [SettingsNext]_settingsVars => LeaderInv'
  BY LeaderStep
<1>3. LeaderInv => LeaderRemains
  BY DEF LeaderInv
<1>4. QED
  BY <1>1, <1>2, <1>3, PTL DEF SettingsSpec

-----------------------------------------------------------------------------
(* The pause on the settings page *)

Message == {Owner} \cup [kind: {"reply"}, ok: BOOLEAN, paused: BOOLEAN]
                   \cup [kind: {"signal"}, paused: BOOLEAN]

(* What the page shows is the engine's state; what a message says of it is. *)
Shows == available = (enginePause # "off") /\ paused = (enginePause = "paused")
IsTrue(m, e) ==
    IF m.kind = "reply" THEN m.ok = (e # "off") /\ (m.ok /\ m.paused) = (e = "paused")
    ELSE e # "off" /\ m.paused = (e = "paused")

(* The page does not ask and no owner on its way will make it ask. *)
AsksNoMore == asked = 0 /\ \A i \in 1..Len(mail) : mail[i].kind # "owner"

(* A page that asks no more shows the engine's state when it has read its mail: *)
(* the last message says it, or the page shows it already.                  *)
PauseInv ==
    /\ mail \in Seq(Message) /\ asked \in Nat
    /\ enginePause \in {"off", "running", "paused"}
    /\ open /\ AsksNoMore => IF mail = <<>> THEN Shows ELSE IsTrue(mail[Len(mail)], enginePause)

LEMMA MessageTypes ==
  /\ Owner \in Message /\ Owner.kind = "owner"
  /\ \A b, p \in BOOLEAN : /\ Reply(b, p) \in Message /\ Reply(b, p).kind = "reply"
                           /\ Reply(b, p).ok = b /\ Reply(b, p).paused = p
  /\ \A p \in BOOLEAN : /\ Signal(p) \in Message /\ Signal(p).kind = "signal"
                        /\ Signal(p).paused = p
  BY DEF Message, Owner, Reply, Signal

(* A message put last leaves those before it, and is the last. *)
LEMMA Posted ==
  ASSUME NEW s \in Seq(Message), NEW m \in Message
  PROVE  LET t == Append(s, m) IN
         /\ t \in Seq(Message) /\ t # <<>> /\ t[Len(t)] = m
         /\ (\A i \in 1..Len(t) : t[i].kind # "owner")
              => m.kind # "owner" /\ \A i \in 1..Len(s) : s[i].kind # "owner"
<1> DEFINE t == Append(s, m)
<1>1. /\ t \in Seq(Message) /\ Len(t) = Len(s) + 1 /\ Len(s) \in Nat
      /\ t[Len(s) + 1] = m /\ \A i \in 1..Len(s) : t[i] = s[i]
  BY AppendProperties
<1> HIDE DEF t
<1>2. t # <<>> /\ Len(s) + 1 \in 1..Len(t) /\ \A i \in 1..Len(s) : i \in 1..Len(t)
  BY <1>1
<1>3. QED
  BY <1>1, <1>2 DEF t

(* What the engine says when its state changes is true of the new one. *)
LEMMA EngineTells ==
  ASSUME PauseInv, NEW m \in Message, Post(m), UNCHANGED <<open, available, paused>>,
         enginePause' \in {"off", "running", "paused"},
         asked' \in Nat, asked' <= asked,
         m.kind = "owner" \/ IsTrue(m, enginePause')
  PROVE  PauseInv'
<1>1. CASE open
  <2>1. mail' = Append(mail, m)
    BY <1>1 DEF Post
  <2>2. /\ mail' \in Seq(Message) /\ mail' # <<>> /\ mail'[Len(mail')] = m
        /\ AsksNoMore' => m.kind # "owner"
    BY <2>1, Posted DEF PauseInv, AsksNoMore
  <2>3. QED
    BY <2>2 DEF PauseInv, IsTrue
<1>2. CASE ~open
  BY <1>2 DEF Post, PauseInv
<1>3. QED
  BY <1>1, <1>2 DEF PauseInv

LEMMA DeliverKeeps ==
  ASSUME PauseInv, Deliver
  PROVE  PauseInv'
<1> DEFINE m == Head(mail)
<1>1. /\ mail \in Seq(Message) /\ mail # <<>> /\ mail' = Tail(mail)
      /\ UNCHANGED <<enginePause, open>> /\ asked \in Nat
  BY DEF PauseInv, Deliver
<1>2. /\ m = mail[1] /\ m \in Message /\ mail' \in Seq(Message)
      /\ Len(mail) \in Nat /\ Len(mail) >= 1 /\ Len(mail') = Len(mail) - 1
      /\ \A i \in 1..Len(mail') : mail'[i] = mail[i + 1]
  BY <1>1, HeadTailProperties
<1>3. \/ m.kind = "owner" /\ asked' = asked + 1
      \/ m.kind = "reply" /\ available' = m.ok /\ paused' = (m.ok /\ m.paused) /\ asked' = asked
      \/ m.kind = "signal" /\ available' = TRUE /\ paused' = m.paused /\ asked' = asked
  <2>1. m.kind \in {"owner", "reply", "signal"}
    BY <1>2 DEF Message, Owner
  <2>2. CASE m.kind = "owner"
    BY <2>2 DEF Deliver, QueryEngineState
  <2>3. CASE m.kind = "reply"
    BY <2>3 DEF Deliver, SetEngineState
  <2>4. CASE m.kind = "signal"
    BY <2>4 DEF Deliver, SetEngineState
  <2>5. QED
    BY <2>1, <2>2, <2>3, <2>4
<1> HIDE DEF m
<1>4. ASSUME open', AsksNoMore'
      PROVE  /\ m.kind # "owner" /\ asked' = asked /\ IsTrue(mail[Len(mail)], enginePause)
  <2>1. m.kind # "owner" /\ asked' = asked
    BY <1>1, <1>3, <1>4 DEF AsksNoMore
  <2>2. AsksNoMore
    <3>1. ASSUME NEW i \in 1..Len(mail) PROVE mail[i].kind # "owner"
      <4>1. CASE i = 1
        BY <1>2, <2>1, <4>1
      <4>2. CASE i # 1
        <5>1. i - 1 \in 1..Len(mail') /\ mail'[i - 1] = mail[i]
          BY <1>2, <4>2
        <5>2. QED
          BY <1>4, <5>1 DEF AsksNoMore
      <4>3. QED
        BY <4>1, <4>2
    <3>2. QED
      BY <1>4, <2>1, <3>1 DEF AsksNoMore
  <2>3. QED
    BY <1>1, <1>4, <2>1, <2>2 DEF PauseInv
<1>5. ASSUME open', AsksNoMore', mail' = <<>> PROVE Shows'
  <2>1. Len(mail) = 1
    BY <1>2, <1>5
  <2>2. IsTrue(m, enginePause)
    BY <1>2, <1>4, <1>5, <2>1
  <2>3. QED
    BY <1>1, <1>3, <1>4, <1>5, <2>2 DEF IsTrue, Shows
<1>6. ASSUME open', AsksNoMore', mail' # <<>> PROVE IsTrue(mail'[Len(mail')], enginePause')
  <2>1. Len(mail') \in 1..Len(mail')
    BY <1>2, <1>6
  <2>2. mail'[Len(mail')] = mail[Len(mail)]
    BY <1>2, <2>1
  <2>3. QED
    BY <1>1, <1>4, <1>6, <2>2 DEF IsTrue
<1>7. asked' \in Nat
  BY <1>1, <1>3
<1>8. QED
  BY <1>1, <1>2, <1>5, <1>6, <1>7 DEF PauseInv

LEMMA PauseStep ==
  ASSUME PauseInv, [SettingsNext]_settingsVars
  PROVE  PauseInv'
<1>1. CASE UNCHANGED <<open, busVars>>
  <2>1. UNCHANGED <<open, enginePause, mail, asked, available, paused>>
    BY <1>1 DEF busVars
  <2>2. (AsksNoMore' <=> AsksNoMore) /\ (Shows' <=> Shows)
    BY <2>1 DEF AsksNoMore, Shows
  <2>3. QED
    BY <2>1, <2>2 DEF PauseInv
<1>2. CASE OpenSettings \/ CloseSettings
  <2>1. /\ mail' = <<>> /\ asked' \in {0, 1} /\ UNCHANGED enginePause
        /\ open' => asked' = 1
    BY <1>2 DEF OpenSettings, CloseSettings
  <2>2. QED
    BY <2>1 DEF PauseInv, AsksNoMore
<1>3. CASE Answer
  <2> DEFINE m == IF enginePause = "off" THEN Reply(FALSE, FALSE)
                  ELSE Reply(TRUE, enginePause = "paused")
  <2>1. m \in Message /\ IsTrue(m, enginePause)
    BY MessageTypes DEF PauseInv, IsTrue
  <2>2. /\ Post(m) /\ asked > 0 /\ asked' = asked - 1
        /\ UNCHANGED <<open, enginePause, available, paused>>
    BY <1>3 DEF Answer
  <2> HIDE DEF m
  <2>3. IsTrue(m, enginePause')
    BY <2>1, <2>2 DEF IsTrue, m
  <2>4. QED
    BY <2>1, <2>2, <2>3, EngineTells DEF PauseInv
<1>4. CASE EngineStarts
  <2>1. /\ Post(Owner) /\ enginePause' = "running" /\ UNCHANGED <<open, asked, available, paused>>
    BY <1>4 DEF EngineStarts
  <2>2. QED
    BY <2>1, MessageTypes, EngineTells DEF PauseInv
<1>5. CASE EngineTogglesPause
  <2>1. /\ Post(Signal(enginePause' = "paused")) /\ enginePause' \in {"running", "paused"}
        /\ UNCHANGED <<open, asked, available, paused>>
    BY <1>5 DEF EngineTogglesPause
  <2>2. /\ Signal(enginePause' = "paused") \in Message
        /\ IsTrue(Signal(enginePause' = "paused"), enginePause')
    BY <2>1, MessageTypes DEF IsTrue
  <2>3. QED
    BY <2>1, <2>2, EngineTells DEF PauseInv
<1>6. CASE EngineEnds
  <2>1. /\ enginePause' = "off" /\ asked' = 0 /\ UNCHANGED <<open, available, paused>>
        /\ ~open => mail' = mail
    BY <1>6 DEF EngineEnds
  <2>2. CASE open
    <3> DEFINE e == [i \in 1..asked |-> Reply(FALSE, FALSE)]
               s == mail \o e
    <3>1. e \in Seq(Message)
      <4>1. Reply(FALSE, FALSE) \in Message /\ asked \in Nat
        BY MessageTypes DEF PauseInv
      <4>2. e \in [1..asked -> Message]
        BY <4>1
      <4>3. QED
        BY <4>1, <4>2, SeqDef
    <3>2. s \in Seq(Message)
      BY <3>1, ConcatProperties DEF PauseInv
    <3>3. mail' = s \o <<Owner>>
      BY <1>6, <2>2 DEF EngineEnds
    <3> HIDE DEF e, s
    <3>4. s \o <<Owner>> = Append(s, Owner)
      BY <3>2, MessageTypes, AppendIsConcat
    <3>5. mail' \in Seq(Message) /\ ~AsksNoMore'
      BY <3>2, <3>3, <3>4, MessageTypes, Posted DEF AsksNoMore
    <3>6. QED
      BY <2>1, <3>5 DEF PauseInv
  <2>3. CASE ~open
    BY <2>1, <2>3 DEF PauseInv
  <2>4. QED
    BY <2>2, <2>3
<1>7. CASE Deliver
  BY <1>7, DeliverKeeps
<1>8. QED
  BY <1>1, <1>2, <1>3, <1>4, <1>5, <1>6, <1>7
     DEF SettingsNext, PageStep, BusStep, SetLeader, SetCustomKeyEnabled, CaptureCustomKey,
         ClearCustomKey, SetOther, SaveSettings, settingsVars, busVars

(* With nothing on its way, the open page shows whether an engine runs and   *)
(* whether it is paused, through any number of restarts, pauses and queries.  *)
THEOREM PauseStaysShown == SettingsSpec => []PauseShown
<1>1. SettingsInit => PauseInv
  BY DEF SettingsInit, PauseInv
<1>2. PauseInv /\ [SettingsNext]_settingsVars => PauseInv'
  BY PauseStep
<1>3. PauseInv => PauseShown
  BY DEF PauseInv, PauseShown, AsksNoMore, Shows
<1>4. QED
  BY <1>1, <1>2, <1>3, PTL DEF SettingsSpec

-----------------------------------------------------------------------------
(* The types *)

(* The rest of the types: where the editor stands, and what is under way.   *)
StandTyped ==
    /\ busy \in {"closed", "idle", "edit", "notice"}
    /\ reload \in {"no", "event", "timer"}
    /\ watched \in BOOLEAN /\ notice \in BOOLEAN /\ openedClear \in BOOLEAN

LEMMA StandStep ==
  ASSUME StandTyped, [ProfilesNext]_profileVars
  PROVE  StandTyped'
<1>1. ASSUME NEW p, Save(p) PROVE StandTyped'
  BY <1>1 DEF Save, Write, StandTyped
<1>2. CASE OpenEditor
  <2>1. /\ busy' = "idle" /\ watched' = TRUE /\ notice' = FALSE
        /\ openedClear' = Unambiguous(Append(Keys(editor'), reserved))
        /\ reload' = "event" \/ reload' = reload
    BY <1>2 DEF OpenEditor
  <2>2. openedClear' \in BOOLEAN
    BY <2>1 DEF Unambiguous
  <2>3. QED
    BY <2>1, <2>2 DEF StandTyped
<1>3. ASSUME NEW n \in Names, SwitchToProfileName(n) PROVE StandTyped'
  BY <1>3 DEF SwitchToProfileName, Write, StandTyped
<1>4. CASE ArmReload \/ ReloadAll \/ UNCHANGED profileVars
  BY <1>4 DEF ArmReload, ReloadAll, counters, profileVars, StandTyped
<1>5. CASE Reread \/ Refuse \/ CloseEditor \/ NoticeChange \/ AdoptActive
  BY <1>5 DEF Reread, Refuse, CloseEditor, NoticeChange, AdoptActive, counters, StandTyped
<1>6. ASSUME NEW f \in Files, SaveMappings(f) PROVE StandTyped'
  BY <1>6 DEF SaveMappings, counters, StandTyped
<1>7. ASSUME NEW c, SetReservedCombo(c) PROVE StandTyped'
  BY <1>7 DEF SetReservedCombo, StandTyped
<1>8. ASSUME NEW row \in Rows, EditRow(row) PROVE StandTyped'
  BY <1>1, <1>8
     DEF EditRow, RenameProfile, RemoveProfile, SetActiveRow, SetSelectKey, SetFavorite
<1>9. ASSUME NEW c, SetCycleNext(c) \/ SetCyclePrev(c) PROVE StandTyped'
  BY <1>1, <1>9 DEF SetCycleNext, SetCyclePrev
<1>10. ASSUME NEW n \in Names, CreateProfile(n) PROVE StandTyped'
  BY <1>1, <1>10 DEF CreateProfile
<1>11. ASSUME NEW p \in Presets, AddProfileFromPreset(p) PROVE StandTyped'
  BY <1>1, <1>11 DEF AddProfileFromPreset
<1> QED
  BY <1>2, <1>3, <1>4, <1>5, <1>6, <1>7, <1>8, <1>9, <1>10, <1>11
     DEF ProfilesNext, EditorStep, EngineStep

(* The variables of the profile list keep their types, whatever the hand-   *)
(* edited file holds and whoever writes it (ProfileListModel.cpp).          *)
THEOREM ProfilesTypeCorrect == ProfilesSpec => []ProfilesTypeOK
<1>1. ProfilesInit => ProfilesInv /\ StandTyped
  BY InitInv DEF ProfilesInit, StandTyped
<1>2. ProfilesInv /\ StandTyped /\ [ProfilesNext]_profileVars => ProfilesInv' /\ StandTyped'
  BY StepInv, StandStep
<1>3. ProfilesInv /\ StandTyped => ProfilesTypeOK
  BY DEF ProfilesInv, StandTyped, ProfilesTypeOK, IsProfiles, ListOK, ListType, Keyed
<1> QED
  BY <1>1, <1>2, <1>3, PTL DEF ProfilesSpec

(* What the page shows of the engine, and whether it is open.               *)
ShownTyped == open \in BOOLEAN /\ available \in BOOLEAN /\ paused \in BOOLEAN

LEMMA DeliverTypes ==
  ASSUME ShownTyped, PauseInv, Deliver
  PROVE  ShownTyped'
<1> DEFINE m == Head(mail)
<1>1. m \in Message
  BY HeadTailProperties DEF Deliver, PauseInv
<1> HIDE DEF m
<1>2. UNCHANGED open /\ (m.kind = "owner" => UNCHANGED <<available, paused>>)
  BY DEF Deliver, QueryEngineState, m
<1>3. ASSUME m.kind = "reply"
      PROVE  available' = m.ok /\ paused' = (m.ok /\ m.paused) /\ m.ok \in BOOLEAN
  <2>1. m.ok \in BOOLEAN
    BY <1>1, <1>3 DEF Message, Owner
  <2> QED
    BY <1>3, <2>1 DEF Deliver, SetEngineState, m
<1>4. ASSUME m.kind = "signal"
      PROVE  available' = TRUE /\ paused' = m.paused /\ m.paused \in BOOLEAN
  <2>1. m.paused \in BOOLEAN
    BY <1>1, <1>4 DEF Message, Owner
  <2> QED
    BY <1>4, <2>1 DEF Deliver, SetEngineState, m
<1>5. m.kind \in {"owner", "reply", "signal"}
  BY <1>1 DEF Message, Owner
<1>6. (m.ok /\ m.paused) \in BOOLEAN
  OBVIOUS
<1> QED
  BY <1>2, <1>3, <1>4, <1>5, <1>6 DEF ShownTyped

(* The settings page, its file and what it knows of the engine keep their   *)
(* types: no unusable key code gets into the page (SettingsModel.cpp, load).*)
THEOREM SettingsTypeCorrect == SettingsSpec => []SettingsTypeOK
<1>1. SettingsInit => LeaderInv /\ PauseInv /\ ShownTyped
  <2> SUFFICES ASSUME SettingsInit PROVE LeaderInv /\ PauseInv /\ ShownTyped
    OBVIOUS
  <2>1. LeaderInv
    BY LeaderStarts
  <2>2. PauseInv
    BY DEF SettingsInit, PauseInv
  <2>3. ShownTyped
    BY DEF SettingsInit, ShownTyped
  <2> QED
    BY <2>1, <2>2, <2>3
<1>2. LeaderInv /\ PauseInv /\ ShownTyped /\ [SettingsNext]_settingsVars
        => LeaderInv' /\ PauseInv' /\ ShownTyped'
  <2> SUFFICES ASSUME LeaderInv, PauseInv, ShownTyped, [SettingsNext]_settingsVars
               PROVE  LeaderInv' /\ PauseInv' /\ ShownTyped'
    OBVIOUS
  <2>1. LeaderInv' /\ PauseInv'
    BY LeaderStep, PauseStep
  <2>2. CASE OpenSettings \/ CloseSettings
    BY <2>1, <2>2 DEF OpenSettings, CloseSettings, ShownTyped
  <2>3. CASE Deliver
    BY <2>1, <2>3, DeliverTypes
  <2>4. CASE UNCHANGED <<open, available, paused>>
    BY <2>1, <2>4 DEF ShownTyped
  <2> QED
    BY <2>2, <2>3, <2>4
       DEF SettingsNext, PageStep, BusStep, SetLeader, SetCustomKeyEnabled, CaptureCustomKey,
           ClearCustomKey, SetOther, SaveSettings, busVars, settingsVars,
           Answer, EngineStarts, EngineEnds, EngineTogglesPause
<1>3. LeaderInv /\ PauseInv /\ ShownTyped => SettingsTypeOK
  BY DEF LeaderInv, PauseInv, ShownTyped, SettingsTypeOK, Stored
<1> QED
  BY <1>1, <1>2, <1>3, PTL DEF SettingsSpec

-----------------------------------------------------------------------------
\* The editor's instance.

\* A step of the instance is one of one part, while the others keep still.
LEMMA ProfilesTakesPart ==
  ASSUME EditorNext PROVE [ProfilesNext]_profileVars
<1>1. CASE UNCHANGED profileVars  BY <1>1
<1>2. CASE ProfilesPart
  <2> SUFFICES ASSUME part = "profiles" PROVE ProfilesNext  BY <1>2 DEF ProfilesPart
  <2> QED BY DEF EditorNext, MappingsPart, SettingsPart, CodecPart, ProfilesNext, EditorStep, EngineStep, EditRow
<1> QED BY <1>1, <1>2 DEF EditorNext, MappingsPart, SettingsPart, CodecPart

LEMMA MappingsTakesPart ==
  ASSUME EditorNext PROVE [MappingsNext]_mappingVars
<1>1. CASE UNCHANGED mappingVars  BY <1>1
<1>2. CASE MappingsPart
  <2> SUFFICES ASSUME part = "mappings" PROVE MappingsNext  BY <1>2 DEF MappingsPart
  <2> QED BY DEF EditorNext, ProfilesPart, SettingsPart, CodecPart, MappingsNext, ListStep, ComposedStep, ManifestStep
<1> QED BY <1>1, <1>2 DEF EditorNext, ProfilesPart, SettingsPart, CodecPart

LEMMA SettingsTakesPart ==
  ASSUME EditorNext PROVE [SettingsNext]_settingsVars
<1>1. CASE UNCHANGED settingsVars  BY <1>1
<1>2. CASE SettingsPart
  <2> SUFFICES ASSUME part = "settings" PROVE SettingsNext  BY <1>2 DEF SettingsPart
  <2> QED BY DEF EditorNext, ProfilesPart, MappingsPart, CodecPart, SettingsNext, PageStep, BusStep
<1> QED BY <1>1, <1>2 DEF EditorNext, ProfilesPart, MappingsPart, CodecPart

LEMMA CodecTakesPart ==
  ASSUME EditorNext PROVE [CodecNext]_codecVars
<1>1. CASE UNCHANGED codecVars  BY <1>1
<1>2. CASE CodecPart
  <2> SUFFICES ASSUME part = "codec" PROVE CodecNext  BY <1>2 DEF CodecPart
  <2> QED BY DEF EditorNext, ProfilesPart, MappingsPart, SettingsPart, CodecNext
<1> QED BY <1>1, <1>2 DEF EditorNext, ProfilesPart, MappingsPart, SettingsPart

\* Every behaviour of the editor's instance is one of each part, so that what is proved
\* of a part holds of what the run explores.
THEOREM EditorIsItsParts ==
  EditorSpec => ProfilesSpec /\ MappingsSpec /\ SettingsSpec /\ CodecSpec
<1>1. EditorInit => ProfilesInit /\ MappingsInit /\ SettingsInit /\ CodecInit
  BY DEF EditorInit
<1>2. [EditorNext]_vars => [ProfilesNext]_profileVars
  BY ProfilesTakesPart DEF vars, profileVars
<1>3. [EditorNext]_vars => [MappingsNext]_mappingVars
  BY MappingsTakesPart DEF vars, mappingVars
<1>4. [EditorNext]_vars => [SettingsNext]_settingsVars
  BY SettingsTakesPart DEF vars, settingsVars
<1>5. [EditorNext]_vars => [CodecNext]_codecVars
  BY CodecTakesPart DEF vars, codecVars
<1> QED BY <1>1, <1>2, <1>3, <1>4, <1>5, PTL
     DEF EditorSpec, ProfilesSpec, MappingsSpec, SettingsSpec, CodecSpec

\* The variables of every part of the editor's instance keep their types.
THEOREM EditorTypeCorrect == EditorSpec => []EditorTypeOK
<1>1. EditorInit => part \in Parts
  BY DEF EditorInit
<1>2. part \in Parts /\ [EditorNext]_vars => (part \in Parts)'
  BY DEF EditorNext, ProfilesPart, MappingsPart, SettingsPart, CodecPart, vars
<1>3. EditorSpec => [](part \in Parts)
  BY <1>1, <1>2, PTL DEF EditorSpec
<1>4. ProfilesTypeOK /\ MappingsTypeOK /\ SettingsTypeOK /\ part \in Parts => EditorTypeOK
  BY DEF EditorTypeOK
<1> QED
  BY <1>3, <1>4, EditorIsItsParts, ProfilesTypeCorrect, MappingsTypeCorrect,
     SettingsTypeCorrect, PTL
=============================================================================
