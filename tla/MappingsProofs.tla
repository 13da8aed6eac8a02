--------------------------- MODULE MappingsProofs ---------------------------
(***************************************************************************)
(* The mappings page and the combination of profiles, for all profiles,    *)
(* inputs and variants, all rows a file may hold and saves that fail: what *)
(* the page shows is what the engine builds from the files, and a drag     *)
(* loses no variant while no file maps an input twice.  And the files      *)
(* themselves, for all texts: what is written is read back as it was.      *)
(*                                                                         *)
(* The module begins with induction.  The induction theorems of the        *)
(* library speak of an arbitrary predicate, which no backend can supply;   *)
(* NatSetInduction speaks of a set and RecursionExists of a function that  *)
(* is the step, and both are used like any other lemma.                    *)
(***************************************************************************)
EXTENDS Mappings, Codec, FiniteSetTheorems, SequenceTheorems, WellFoundedInduction, TLAPS

-----------------------------------------------------------------------------
(* Induction and recursion on numbers *)

Below == {ss \in Nat \X Nat : ss[1] < ss[2]}

\* Every set of natural numbers that is not empty has a least one.
LEMMA LeastElement ==
  ASSUME NEW T \in SUBSET Nat, T # {}
  PROVE  \E x \in T : \A y \in T : x <= y
<1>1. IsWellFoundedOn(Below, Nat)
  BY NatLessThanWellFounded DEF OpToRel, Below
<1>2. PICK x \in T : \A y \in T : ~(<<y, x>> \in Below)
  BY <1>1, WFMin
<1>3. ASSUME NEW y \in T, y < x PROVE FALSE
  <2>1. <<y, x>> \in Nat \X Nat /\ <<y, x>>[1] < <<y, x>>[2]  BY <1>3
  <2>2. <<y, x>> \in Below  BY ONLY <2>1 DEF Below
  <2> QED BY <1>2, <2>2
<1> QED BY <1>3

\* A set with 0 that has the next of each of its numbers has them all.
LEMMA NatSetInduction ==
  ASSUME NEW T, 0 \in T, \A n \in Nat : n \in T => n + 1 \in T
  PROVE  Nat \subseteq T
<1> SUFFICES ASSUME Nat \ T # {} PROVE FALSE  OBVIOUS
<1>1. PICK x \in Nat \ T : \A y \in Nat \ T : x <= y
  BY LeastElement
<1>2. x - 1 \in Nat /\ x - 1 \notin Nat \ T  BY <1>1
<1> QED BY <1>1, <1>2

\* A function defined by recursion on the numbers up to N exists, and its values are
\* in the set its steps stay in.
Recursion(f, N, b, step) == f[0] = b /\ \A n \in 1..N : f[n] = step[n][f[n - 1]]
LEMMA RecursionExists ==
  ASSUME NEW A, NEW N \in Nat, NEW b \in A, NEW step \in [1..N -> [A -> A]]
  PROVE  \E f \in [0..N -> A] : Recursion(f, N, b, step)
<1> DEFINE Up(f, m) == /\ f \in [0..m -> A] /\ f[0] = b
                       /\ \A n \in 1..m : f[n] = step[n][f[n - 1]]
           T == {m \in Nat : m <= N => \E f : Up(f, m)}
<1>1. 0 \in T
  <2>1. Up([n \in 0..0 |-> b], 0)  OBVIOUS
  <2> QED BY <2>1
<1>2. ASSUME NEW m \in Nat, m \in T PROVE m + 1 \in T
  <2> SUFFICES ASSUME m + 1 <= N PROVE \E f : Up(f, m + 1)  OBVIOUS
  <2>1. PICK f : Up(f, m)  BY <1>2
  <2> DEFINE k == m + 1
             g == [n \in 0..k |-> IF n = k THEN step[k][f[k - 1]] ELSE f[n]]
  <2>2. k \in 1..N /\ k - 1 \in 0..m  OBVIOUS
  <2>3. f[k - 1] \in A  BY <2>1, <2>2
  <2>4. step[k][f[k - 1]] \in A  BY <2>2, <2>3
  <2>5. \A n \in 0..k : n # k => n \in 0..m  BY <2>2
  <2>6. g \in [0..k -> A]  BY <2>1, <2>4, <2>5
  <2>7. g[0] = b  BY <2>1, <2>2
  <2>8. \A n \in 1..k : g[n] = step[n][g[n - 1]]
    <3> TAKE n \in 1..k
    <3>1. n - 1 \in 0..k /\ n - 1 # k /\ n \in 0..k  BY <2>2
    <3>2. g[n - 1] = f[n - 1]  BY <3>1
    <3>3. CASE n = k  BY <3>1, <3>2, <3>3
    <3>4. CASE n # k  BY <2>1, <2>2, <3>1, <3>2, <3>4
    <3> QED BY <3>3, <3>4
  <2> HIDE DEF g
  <2>9. Up(g, m + 1)  BY <2>6, <2>7, <2>8
  <2> QED BY <2>9
<1>3. N \in T
  <2> HIDE DEF T
  <2>1. Nat \subseteq T  BY <1>1, <1>2, NatSetInduction
  <2> QED BY <2>1
<1>4. PICK f : Up(f, N)  BY <1>3
<1> QED BY <1>4 DEF Recursion

\* And there is no other.
Alike(f, g, N) == f[0] = g[0] /\ \A n \in 1..N : f[n - 1] = g[n - 1] => f[n] = g[n]
LEMMA RecursionUnique ==
  ASSUME NEW N \in Nat, NEW f, NEW g, Alike(f, g, N)
  PROVE  \A n \in 0..N : f[n] = g[n]
<1> DEFINE T == {m \in Nat : m <= N => f[m] = g[m]}
<1>1. 0 \in T  BY DEF Alike
<1>2. ASSUME NEW m \in Nat, m \in T PROVE m + 1 \in T
  <2> SUFFICES ASSUME m + 1 <= N PROVE f[m + 1] = g[m + 1]  OBVIOUS
  <2>1. f[m] = g[m]  BY <1>2
  <2>2. m + 1 \in 1..N /\ (m + 1) - 1 = m  OBVIOUS
  <2> QED BY <2>1, <2>2 DEF Alike
<1>3. Nat \subseteq T
  <2> HIDE DEF T
  <2> QED BY <1>1, <1>2, NatSetInduction
<1> QED BY <1>3

\* A set with the empty sequence that has each of its sequences with one element more
\* has them all.
LEMMA SeqSetInduction ==
  ASSUME NEW S, NEW T, <<>> \in T,
         \A s \in Seq(S), e \in S : s \in T => Append(s, e) \in T
  PROVE  Seq(S) \subseteq T
<1> DEFINE P == {n \in Nat : \A s \in Seq(S) : Len(s) = n => s \in T}
<1>1. 0 \in P
  <2>1. \A s \in Seq(S) : Len(s) = 0 => s = <<>>  OBVIOUS
  <2> QED BY <2>1
<1>2. ASSUME NEW n \in Nat, n \in P PROVE n + 1 \in P
  <2> SUFFICES ASSUME NEW s \in Seq(S), Len(s) = n + 1 PROVE s \in T  OBVIOUS
  <2>1. s # <<>>  OBVIOUS
  <2>2. PICK r \in Seq(S), e \in S : s = Append(r, e)  BY <2>1, SequenceEmptyOrAppend
  <2>3. Len(r) = n  BY <2>2
  <2> QED BY <1>2, <2>2, <2>3
<1>3. Nat \subseteq P
  <2> HIDE DEF P
  <2> QED BY <1>1, <1>2, NatSetInduction
<1> QED BY <1>3

-----------------------------------------------------------------------------
(* What the helpers on sequences return *)

\* Only, step by step.
LEMMA OnlyIs ==
  ASSUME NEW S, NEW s \in Seq(S), NEW T
  PROVE  \E k \in [0..Len(s) -> Seq(S)] :
           /\ k[0] = <<>> /\ Only(s, T) = k[Len(s)]
           /\ \A n \in 1..Len(s) : k[n] = IF s[n] \in T THEN Append(k[n - 1], s[n]) ELSE k[n - 1]
<1> DEFINE kept[n \in 0..Len(s)] ==
             IF n = 0 THEN <<>>
             ELSE IF s[n] \in T THEN Append(kept[n - 1], s[n]) ELSE kept[n - 1]
<1>1. Only(s, T) = kept[Len(s)]  BY DEF Only
<1> HIDE DEF kept
<1>2. PICK step \in [1..Len(s) -> [Seq(S) -> Seq(S)]] : \A n \in 1..Len(s) : \A x \in Seq(S) :
        step[n][x] = IF s[n] \in T THEN Append(x, s[n]) ELSE x
  <2> DEFINE st == [n \in 1..Len(s) |->
                      [x \in Seq(S) |-> IF s[n] \in T THEN Append(x, s[n]) ELSE x]]
  <2>1. /\ st \in [1..Len(s) -> [Seq(S) -> Seq(S)]]
        /\ \A n \in 1..Len(s) : \A x \in Seq(S) :
             st[n][x] = IF s[n] \in T THEN Append(x, s[n]) ELSE x
    OBVIOUS
  <2> HIDE DEF st
  <2> QED BY <2>1
<1>3. Len(s) \in Nat /\ <<>> \in Seq(S)  OBVIOUS
<1>4. PICK f \in [0..Len(s) -> Seq(S)] : Recursion(f, Len(s), <<>>, step)
  BY <1>3, RecursionExists
<1>5. \A n \in 1..Len(s) : f[n] = IF s[n] \in T THEN Append(f[n - 1], s[n]) ELSE f[n - 1]
  <2> TAKE n \in 1..Len(s)
  <2>1. n - 1 \in 0..Len(s)  BY <1>3
  <2>2. f[n - 1] \in Seq(S)  BY <2>1
  <2> QED BY <1>2, <1>4, <2>1, <2>2 DEF Recursion
<1>6. f = [n \in 0..Len(s) |-> IF n = 0 THEN <<>> ELSE
                 IF s[n] \in T THEN Append(f[n - 1], s[n]) ELSE f[n - 1]]
  <2>1. \A n \in 0..Len(s) : n = 0 \/ n \in 1..Len(s)  BY <1>3
  <2> QED BY <1>4, <1>5, <2>1 DEF Recursion
<1>7. kept = [n \in 0..Len(s) |-> IF n = 0 THEN <<>> ELSE
                 IF s[n] \in T THEN Append(kept[n - 1], s[n]) ELSE kept[n - 1]]
  BY <1>6 DEF kept
<1>8. PICK k : /\ k[0] = <<>> /\ Only(s, T) = k[Len(s)]
               /\ \A n \in 1..Len(s) :
                    k[n] = IF s[n] \in T THEN Append(k[n - 1], s[n]) ELSE k[n - 1]
  <2>1. 0 \in 0..Len(s) /\ \A n \in 1..Len(s) : n \in 0..Len(s) /\ n # 0  BY <1>3
  <2>2. \A n \in 0..Len(s) : kept[n] = IF n = 0 THEN <<>> ELSE
          IF s[n] \in T THEN Append(kept[n - 1], s[n]) ELSE kept[n - 1]
    BY <1>7, Zenon
  <2> QED BY <1>1, <2>1, <2>2, Zenon
<1>9. \A n \in 0..Len(s) : f[n] = k[n]
  <2>1. \A n \in 1..Len(s) : f[n - 1] = k[n - 1] => f[n] = k[n]
    BY <1>5, <1>8
  <2>2. f[0] = k[0]  BY <1>4, <1>8 DEF Recursion
  <2>3. Alike(f, k, Len(s))  BY <2>1, <2>2 DEF Alike
  <2> QED BY <1>3, <2>3, RecursionUnique
<1> QED BY <1>3, <1>4, <1>5, <1>8, <1>9 DEF Recursion

\* What is kept is in the set and in the sequence, in its order; nothing is kept twice
\* that is there once.
LEMMA OnlyKeeps ==
  ASSUME NEW S, NEW s \in Seq(S), NEW T
  PROVE  /\ Only(s, T) \in Seq(S)
         /\ \A j \in 1..Len(Only(s, T)) :
              Only(s, T)[j] \in T /\ \E i \in 1..Len(s) : s[i] = Only(s, T)[j]
         /\ IsInjective(s) => IsInjective(Only(s, T))
<1>1. PICK k \in [0..Len(s) -> Seq(S)] :
        /\ k[0] = <<>> /\ Only(s, T) = k[Len(s)]
        /\ \A n \in 1..Len(s) : k[n] = IF s[n] \in T THEN Append(k[n - 1], s[n]) ELSE k[n - 1]
  BY OnlyIs
<1> DEFINE Good(n) ==
             /\ \A j \in 1..Len(k[n]) : k[n][j] \in T /\ \E i \in 1..n : s[i] = k[n][j]
             /\ IsInjective(s) => \A a, b \in 1..Len(k[n]) : k[n][a] = k[n][b] => a = b
           P == {n \in Nat : n <= Len(s) => Good(n)}
<1>2. 0 \in P
  BY <1>1
<1>3. ASSUME NEW n \in Nat, n \in P PROVE n + 1 \in P
  <2> SUFFICES ASSUME n + 1 <= Len(s) PROVE Good(n + 1)  OBVIOUS
  <2>1. n + 1 \in 1..Len(s) /\ n \in 0..Len(s) /\ (n + 1) - 1 = n /\ n <= Len(s)
    OBVIOUS
  <2>2. Good(n)  BY <1>3, <2>1
  <2>3. k[n] \in Seq(S) /\ s[n + 1] \in S
    BY <2>1
  <2>4. k[n + 1] = IF s[n + 1] \in T THEN Append(k[n], s[n + 1]) ELSE k[n]
    BY <1>1, <2>1
  <2>5. CASE s[n + 1] \notin T
    <3>1. k[n + 1] = k[n]  BY <2>4, <2>5
    <3>2. \A i \in 1..n : i \in 1..n + 1  OBVIOUS
    <3> QED BY <2>2, <3>1, <3>2
  <2>6. CASE s[n + 1] \in T
    <3>1. k[n + 1] = Append(k[n], s[n + 1])  BY <2>4, <2>6
    <3>2. /\ Len(k[n]) \in Nat /\ Len(k[n + 1]) = Len(k[n]) + 1
          /\ \A j \in 1..Len(k[n]) : k[n + 1][j] = k[n][j]
          /\ k[n + 1][Len(k[n]) + 1] = s[n + 1]
      BY <2>3, <3>1
    <3>3. \A j \in 1..Len(k[n + 1]) : j \in 1..Len(k[n]) \/ j = Len(k[n]) + 1
      BY <3>2
    <3>4. \A j \in 1..Len(k[n + 1]) : k[n + 1][j] \in T /\ \E i \in 1..n + 1 : s[i] = k[n + 1][j]
      <4> TAKE j \in 1..Len(k[n + 1])
      <4>1. CASE j \in 1..Len(k[n])
        <5>1. PICK i \in 1..n : s[i] = k[n][j]  BY <2>2, <4>1
        <5>2. i \in 1..n + 1  BY <5>1
        <5> QED BY <2>2, <3>2, <4>1, <5>1, <5>2
      <4>2. CASE j = Len(k[n]) + 1
        <5>1. n + 1 \in 1..n + 1  OBVIOUS
        <5> QED BY <2>6, <3>2, <4>2, <5>1
      <4> QED BY <3>3, <4>1, <4>2
    <3>5. ASSUME IsInjective(s), NEW a \in 1..Len(k[n + 1]), NEW b \in 1..Len(k[n + 1]),
                 k[n + 1][a] = k[n + 1][b]
          PROVE  a = b
      <4>1. \A j \in 1..Len(k[n]) : k[n][j] # s[n + 1]
        <5> SUFFICES ASSUME NEW j \in 1..Len(k[n]), k[n][j] = s[n + 1] PROVE FALSE  OBVIOUS
        <5>1. PICK i \in 1..n : s[i] = k[n][j]  BY <2>2
        <5>2. i \in DOMAIN s /\ n + 1 \in DOMAIN s /\ i # n + 1 /\ s[i] = s[n + 1]
          BY <2>1, <5>1
        <5> QED BY <3>5, <5>2 DEF IsInjective
      <4>2. CASE a \in 1..Len(k[n]) /\ b \in 1..Len(k[n])
        BY <2>2, <3>2, <3>5, <4>2
      <4>3. CASE a = Len(k[n]) + 1 \/ b = Len(k[n]) + 1
        BY <3>2, <3>3, <3>5, <4>1, <4>3
      <4> QED BY <3>3, <4>2, <4>3
    <3> QED BY <3>4, <3>5
  <2> QED BY <2>5, <2>6
<1>4. Good(Len(s))
  <2>1. Nat \subseteq P
    <3> HIDE DEF P
    <3> QED BY <1>2, <1>3, NatSetInduction
  <2>2. Len(s) \in Nat  OBVIOUS
  <2> QED BY <2>1, <2>2
<1>5. Len(s) \in 0..Len(s)  OBVIOUS
<1>6. Only(s, T) \in Seq(S)  BY <1>1, <1>5
<1> QED BY <1>1, <1>4, <1>6 DEF IsInjective

\* FlattenSeq of sequences over S, step by step.
Flattens(f, ss, S) ==
    /\ f \in [1..Len(ss) -> Seq(S)]
    /\ FlattenSeq(ss) = f[Len(ss)]
    /\ \A i \in 1..Len(ss) : f[i] = IF i = 1 THEN ss[i] ELSE f[i - 1] \o ss[i]
LEMMA FlattenIs ==
  ASSUME NEW S, NEW ss \in Seq(Seq(S)), Len(ss) # 0
  PROVE  \E f : Flattens(f, ss, S)
<1> DEFINE flatten[i \in 1..Len(ss)] ==
             IF i = 1 THEN ss[i] ELSE flatten[i - 1] \o ss[i]
           M == Len(ss) - 1
<1>1. FlattenSeq(ss) = flatten[Len(ss)]  BY DEF FlattenSeq
<1> HIDE DEF flatten
<1>2. M \in Nat /\ ss[1] \in Seq(S) /\ \A n \in 1..M : ss[n + 1] \in Seq(S)
  OBVIOUS
<1>3. PICK step \in [1..M -> [Seq(S) -> Seq(S)]] :
        \A n \in 1..M : \A x \in Seq(S) : step[n][x] = x \o ss[n + 1]
  <2> DEFINE st == [n \in 1..M |-> [x \in Seq(S) |-> x \o ss[n + 1]]]
  <2>1. \A n \in 1..M : \A x \in Seq(S) : x \o ss[n + 1] \in Seq(S)
    BY <1>2
  <2> HIDE DEF M
  <2>2. /\ st \in [1..M -> [Seq(S) -> Seq(S)]]
        /\ \A n \in 1..M : \A x \in Seq(S) : st[n][x] = x \o ss[n + 1]
    BY <2>1
  <2> HIDE DEF st
  <2> QED BY <2>2
<1>4. PICK g \in [0..M -> Seq(S)] : Recursion(g, M, ss[1], step)
  BY <1>2, RecursionExists
<1>5. PICK f : f = [i \in 1..Len(ss) |-> g[i - 1]]  OBVIOUS
<1>6. \A i \in 1..Len(ss) : f[i] = IF i = 1 THEN ss[i] ELSE f[i - 1] \o ss[i]
  <2> TAKE i \in 1..Len(ss)
  <2>1. CASE i = 1  BY <1>4, <1>5, <2>1 DEF Recursion
  <2>2. CASE i # 1
    <3>1. i - 1 \in 1..M /\ i - 1 \in 1..Len(ss) /\ (i - 1) - 1 \in 0..M /\ (i - 1) + 1 = i
      BY <2>2
    <3>2. g[i - 1] = step[i - 1][g[(i - 1) - 1]]  BY <1>4, <3>1 DEF Recursion
    <3>3. g[i - 1] = g[(i - 1) - 1] \o ss[i]  BY <1>3, <1>4, <3>1, <3>2
    <3> QED BY <1>5, <2>2, <3>1, <3>3
  <2> QED BY <2>1, <2>2
<1>7. f = [i \in 1..Len(ss) |-> IF i = 1 THEN ss[i] ELSE f[i - 1] \o ss[i]]
  BY <1>5, <1>6, Zenon
<1>8. flatten = [i \in 1..Len(ss) |-> IF i = 1 THEN ss[i] ELSE flatten[i - 1] \o ss[i]]
  BY <1>7 DEF flatten
<1>9. \A i \in 1..Len(ss) : flatten[i] = IF i = 1 THEN ss[i] ELSE flatten[i - 1] \o ss[i]
  BY <1>8, Zenon
<1>10. PICK k : k = [n \in 0..M |-> flatten[n + 1]]  OBVIOUS
<1>11. \A n \in 0..M : n + 1 \in 1..Len(ss) /\ k[n] = flatten[n + 1]
  BY <1>10
<1>12. Alike(g, k, M)
  <2>1. 0 \in 0..M /\ 1 \in 1..Len(ss) /\ 0 + 1 = 1  OBVIOUS
  <2>2. k[0] = ss[1]  BY <1>9, <1>11, <2>1
  <2>3. ASSUME NEW n \in 1..M, g[n - 1] = k[n - 1] PROVE g[n] = k[n]
    <3>1. /\ n \in 0..M /\ n - 1 \in 0..M /\ (n - 1) + 1 = n /\ n + 1 \in 1..Len(ss)
          /\ (n + 1) - 1 = n /\ n + 1 # 1
      OBVIOUS
    <3>2. g[n] = g[n - 1] \o ss[n + 1]  BY <1>3, <1>4, <3>1 DEF Recursion
    <3>3. flatten[n + 1] = flatten[n] \o ss[n + 1]  BY <1>9, <3>1
    <3>4. k[n] = flatten[n + 1] /\ k[n - 1] = flatten[n]  BY <1>11, <3>1
    <3> QED BY <2>3, <3>2, <3>3, <3>4
  <2> QED BY <1>4, <2>2, <2>3 DEF Alike, Recursion
<1>13. \A n \in 0..M : g[n] = k[n]
  <2>1. M \in Nat  BY <1>2
  <2> HIDE DEF M
  <2> QED BY <2>1, <1>12, RecursionUnique
<1>14. M \in 0..M /\ M + 1 = Len(ss)  BY <1>2
<1> HIDE DEF M
<1>15. flatten[Len(ss)] = g[M]
  <2>1. k[M] = flatten[M + 1]  BY <1>11, <1>14
  <2>2. g[M] = k[M]  BY <1>13, <1>14
  <2> QED BY <1>14, <2>1, <2>2
<1>16. f \in [1..Len(ss) -> Seq(S)]
  <2>1. \A i \in 1..Len(ss) : i - 1 \in 0..M  BY <1>2, <1>14
  <2> QED BY <1>4, <1>5, <2>1
<1>17. f[Len(ss)] = g[M]
  <2>1. Len(ss) \in 1..Len(ss) /\ Len(ss) - 1 = M  BY <1>2, <1>14
  <2> QED BY <1>5, <2>1
<1>18. FlattenSeq(ss) = f[Len(ss)]  BY <1>1, <1>15, <1>17
<1>19. Flattens(f, ss, S)  BY <1>6, <1>16, <1>18 DEF Flattens
<1> QED BY <1>19

\* FlattenSeq of sequences over S is one, and the last one comes last.
LEMMA FlattenType ==
  ASSUME NEW S, NEW ss \in Seq(Seq(S))
  PROVE  FlattenSeq(ss) \in Seq(S)
<1>1. CASE Len(ss) = 0
  BY <1>1 DEF FlattenSeq
<1>2. CASE Len(ss) # 0
  <2>1. Len(ss) \in 1..Len(ss)  BY <1>2
  <2>2. PICK f : Flattens(f, ss, S)  BY <1>2, FlattenIs
  <2> QED BY <2>1, <2>2 DEF Flattens
<1> QED BY <1>1, <1>2

LEMMA FlattenAppend ==
  ASSUME NEW S, NEW ss \in Seq(Seq(S)), NEW x \in Seq(S)
  PROVE  FlattenSeq(Append(ss, x)) = FlattenSeq(ss) \o x
<1> DEFINE tt == Append(ss, x)
           N == Len(ss)
<1>1. /\ tt \in Seq(Seq(S)) /\ Len(tt) = N + 1 /\ N \in Nat
      /\ tt[N + 1] = x /\ \A i \in 1..N : tt[i] = ss[i]
  OBVIOUS
<1> HIDE DEF tt
<1>2. PICK f \in [1..Len(tt) -> Seq(S)] :
        /\ FlattenSeq(tt) = f[Len(tt)]
        /\ \A i \in 1..Len(tt) : f[i] = IF i = 1 THEN tt[i] ELSE f[i - 1] \o tt[i]
  <2>1. tt \in Seq(Seq(S)) /\ Len(tt) # 0  BY <1>1
  <2>2. PICK h : Flattens(h, tt, S)  BY <2>1, FlattenIs
  <2> QED BY <2>2 DEF Flattens
<1>3. N + 1 \in 1..Len(tt) /\ (N + 1) - 1 = N  BY <1>1
<1>4. CASE N = 0
  <2>1. FlattenSeq(ss) = <<>>  BY <1>4 DEF FlattenSeq
  <2>2. FlattenSeq(tt) = x  BY <1>1, <1>2, <1>3, <1>4
  <2>3. <<>> \o x = x  OBVIOUS
  <2> QED BY <2>1, <2>2, <2>3 DEF tt
<1>5. CASE N # 0
  <2>1. PICK g \in [1..N -> Seq(S)] :
          /\ FlattenSeq(ss) = g[N]
          /\ \A i \in 1..N : g[i] = IF i = 1 THEN ss[i] ELSE g[i - 1] \o ss[i]
    <3>1. PICK h : Flattens(h, ss, S)  BY <1>5, FlattenIs
    <3> QED BY <3>1 DEF Flattens
  <2>2. \A n \in 0..N - 1 : [i \in 0..N - 1 |-> f[i + 1]][n] = [i \in 0..N - 1 |-> g[i + 1]][n]
    <3> DEFINE F == [i \in 0..N - 1 |-> f[i + 1]]
               G == [i \in 0..N - 1 |-> g[i + 1]]
    <3>1. N - 1 \in Nat  BY <1>1, <1>5
    <3>2. \A n \in 0..N - 1 : n + 1 \in 1..N /\ n + 1 \in 1..Len(tt)  BY <1>1
    <3>3. \A n \in 0..N - 1 : F[n] = f[n + 1] /\ G[n] = g[n + 1]  OBVIOUS
    <3> HIDE DEF F, G
    <3>4. Alike(F, G, N - 1)
      <4>1. F[0] = G[0]
        <5>1. 0 \in 0..N - 1 /\ 0 + 1 = 1 /\ 1 \in 1..N  BY <3>1
        <5>2. F[0] = f[1] /\ G[0] = g[1]  BY <3>3, <5>1
        <5>3. 1 \in 1..Len(tt) /\ tt[1] = ss[1]  BY <1>1, <5>1
        <5>4. f[1] = tt[1] /\ g[1] = ss[1]  BY <1>2, <2>1, <5>1, <5>3
        <5> QED BY <5>2, <5>3, <5>4
      <4>2. ASSUME NEW n \in 1..N - 1, F[n - 1] = G[n - 1] PROVE F[n] = G[n]
        <5>1. /\ n \in 0..N - 1 /\ n - 1 \in 0..N - 1 /\ (n - 1) + 1 = n /\ n + 1 # 1
              /\ (n + 1) - 1 = n
          OBVIOUS
        <5>2. f[n + 1] = f[n] \o tt[n + 1]  BY <1>2, <3>2, <5>1
        <5>3. g[n + 1] = g[n] \o ss[n + 1]  BY <2>1, <3>2, <5>1
        <5>4. f[n] = g[n]  BY <3>3, <4>2, <5>1
        <5>5. tt[n + 1] = ss[n + 1]  BY <1>1, <3>2, <5>1
        <5> QED BY <3>3, <5>1, <5>2, <5>3, <5>4, <5>5
      <4> QED BY <4>1, <4>2 DEF Alike
    <3>5. \A n \in 0..N - 1 : F[n] = G[n]  BY <3>1, <3>4, RecursionUnique
    <3> QED BY <3>5 DEF F, G
  <2>3. f[N] = g[N]
    <3>1. N - 1 \in 0..N - 1 /\ (N - 1) + 1 = N  BY <1>1, <1>5
    <3> QED BY <2>2, <3>1
  <2>4. N + 1 # 1  BY <1>1, <1>5
  <2>5. f[N + 1] = f[N] \o x  BY <1>1, <1>2, <1>3, <2>4
  <2> QED BY <1>1, <1>2, <2>1, <2>3, <2>5 DEF tt
<1> QED BY <1>4, <1>5


\* The least number of a set that has one.
LEMMA MinIs ==
  ASSUME NEW T \in SUBSET Nat, T # {}
  PROVE  Min(T) \in T /\ \A x \in T : Min(T) <= x
<1>1. \E x \in T : \A y \in T : x <= y  BY LeastElement
<1> QED BY <1>1 DEF Min

\* And the greatest of one that is bounded.
LEMMA MaxIs ==
  ASSUME NEW n \in Nat, NEW T \in SUBSET (1..n), T # {}
  PROVE  Max(T) \in T /\ \A x \in T : Max(T) >= x
<1>1. PICK U \in SUBSET Nat : U = {n - x : x \in T}
  <2> DEFINE V == {n - x : x \in T}
  <2>1. V \in SUBSET Nat  OBVIOUS
  <2> QED BY <2>1
<1>2. U # {}  BY <1>1
<1>3. PICK u \in U : \A w \in U : u <= w  BY <1>2, LeastElement
<1>4. PICK x \in T : u = n - x  BY <1>1, <1>3
<1>5. \A y \in T : n - y \in U  BY <1>1
<1>6. \A y \in T : x >= y  BY <1>3, <1>4, <1>5
<1> QED BY <1>4, <1>6 DEF Max

LEMMA RowIs ==
  ASSUME NEW rows \in Seq(Row), NEW i
  PROVE  /\ RowOf(rows, i) \in 0..Len(rows)
         /\ RowOf(rows, i) = 0 => \A k \in 1..Len(rows) : rows[k].input # i
         /\ RowOf(rows, i) # 0 => rows[RowOf(rows, i)].input = i
<1> DEFINE own == {k \in 1..Len(rows) : rows[k].input = i}
<1>1. RowOf(rows, i) = IF own # {} THEN Min(own) ELSE 0
  BY DEF RowOf, SelectInSeq
<1>2. own \in SUBSET Nat  OBVIOUS
<1>3. CASE own = {}  BY <1>1, <1>3
<1>4. CASE own # {}
  <2>1. Min(own) \in own
    <3> HIDE DEF own
    <3> QED BY <1>2, <1>4, MinIs
  <2> QED BY <1>1, <1>4, <2>1
<1> QED BY <1>3, <1>4

LEMMA RemoveAtIs ==
  ASSUME NEW S, NEW s \in Seq(S), NEW k \in 1..Len(s)
  PROVE  /\ RemoveAt(s, k) \in Seq(S)
         /\ Len(RemoveAt(s, k)) = Len(s) - 1
         /\ \A j \in 1 .. Len(s) - 1 : RemoveAt(s, k)[j] = s[IF j < k THEN j ELSE j + 1]
<1> DEFINE p == SubSeq(s, 1, k - 1)
           q == SubSeq(s, k + 1, Len(s))
<1>1. /\ p \in Seq(S) /\ Len(p) = k - 1 /\ \A j \in 1 .. k - 1 : p[j] = s[j]
  <2>1. \A j \in 1 .. k - 1 : s[j] \in S  OBVIOUS
  <2>2. 1 \in Int /\ k - 1 \in Int  OBVIOUS
  <2>3. /\ p \in Seq(S) /\ Len(p) = IF 1 <= k - 1 THEN (k - 1) - 1 + 1 ELSE 0
        /\ \A j \in 1 .. (k - 1) - 1 + 1 : p[j] = s[1 + j - 1]
    BY <2>1, <2>2, SubSeqProperties
  <2> QED BY <2>3
<1>2. /\ q \in Seq(S) /\ Len(q) = Len(s) - k /\ \A j \in 1 .. Len(s) - k : q[j] = s[k + j]
  <2>1. \A j \in k + 1 .. Len(s) : s[j] \in S  OBVIOUS
  <2>2. Len(s) \in Int /\ k + 1 \in Int  OBVIOUS
  <2>3. /\ q \in Seq(S) /\ Len(q) = IF k + 1 <= Len(s) THEN Len(s) - (k + 1) + 1 ELSE 0
        /\ \A j \in 1 .. Len(s) - (k + 1) + 1 : q[j] = s[k + 1 + j - 1]
    BY <2>1, <2>2, SubSeqProperties
  <2> QED BY <2>3
<1>3. RemoveAt(s, k) = p \o q  BY DEF RemoveAt
<1> HIDE DEF p, q
<1>4. /\ p \o q \in Seq(S) /\ Len(p \o q) = Len(p) + Len(q)
      /\ \A j \in 1 .. Len(p) + Len(q) : (p \o q)[j] =
           IF j <= Len(p) THEN p[j] ELSE q[j - Len(p)]
  BY <1>1, <1>2, ConcatProperties
<1>5. Len(p) + Len(q) = Len(s) - 1  BY <1>1, <1>2
<1>6. ASSUME NEW j \in 1 .. Len(s) - 1
      PROVE  (p \o q)[j] = s[IF j < k THEN j ELSE j + 1]
  <2>1. CASE j < k
    <3>1. j \in 1 .. k - 1 /\ j <= Len(p) /\ j \in 1 .. Len(p) + Len(q)  BY <1>1, <1>5, <2>1
    <3> QED BY <1>1, <1>4, <2>1, <3>1
  <2>2. CASE ~(j < k)
    <3>1. /\ j - Len(p) \in 1 .. Len(s) - k /\ ~(j <= Len(p)) /\ j \in 1 .. Len(p) + Len(q)
          /\ k + (j - Len(p)) = j + 1
      BY <1>1, <1>5, <2>2
    <3>2. (p \o q)[j] = q[j - Len(p)]  BY <1>4, <3>1
    <3> QED BY <1>2, <2>2, <3>1, <3>2
  <2> QED BY <2>1, <2>2
<1> QED BY <1>3, <1>4, <1>5, <1>6

LEMMA RemoveFirstIs ==
  ASSUME NEW S, NEW s \in Seq(S), NEW e
  PROVE  /\ RemoveFirst(s, e) \in Seq(S)
         /\ e \notin ToSet(s) => RemoveFirst(s, e) = s
         /\ e \in ToSet(s) => \E k \in 1..Len(s) : s[k] = e /\ RemoveFirst(s, e) = RemoveAt(s, k)
<1> DEFINE own == {k \in 1..Len(s) : s[k] = e}
<1>1. own \in SUBSET Nat /\ (e \in ToSet(s) <=> own # {})
  BY DEF ToSet
<1>2. RemoveFirst(s, e) = IF own # {} THEN RemoveAt(s, Min(own)) ELSE s
  BY DEF RemoveFirst, SelectInSeq
<1>3. own # {} => Min(own) \in own
  <2> HIDE DEF own
  <2> QED BY <1>1, MinIs
<1>4. own # {} => Min(own) \in 1..Len(s) /\ s[Min(own)] = e
  BY <1>3
<1> HIDE DEF own
<1> QED BY <1>1, <1>2, <1>4, RemoveAtIs

-----------------------------------------------------------------------------
(* The composition *)

\* An override takes and leaves what there is.
LEMMA ReorderedType ==
  ASSUME NEW S, NEW natural \in Seq(S), NEW O, NEW order \in Seq(O)
  PROVE  Reordered(natural, order) \in Seq(S)
<1> DEFINE A == [done: Seq(S), left: Seq(S)]
<1>1. ASSUME NEW a \in A, NEW want PROVE Claim(a, want) \in A
  <2>1. CASE want \notin ToSet(a.left)  BY <2>1 DEF Claim
  <2>2. CASE want \in ToSet(a.left)
    <3>1. want \in S  BY <2>2 DEF ToSet
    <3>2. RemoveFirst(a.left, want) \in Seq(S)  BY RemoveFirstIs
    <3> QED BY <2>2, <3>1, <3>2 DEF Claim
  <2> QED BY <2>1, <2>2
<1> DEFINE acc[n \in 0..Len(order)] ==
             IF n = 0 THEN [done |-> <<>>, left |-> natural]
             ELSE Claim(acc[n - 1], order[n])
<1>2. Reordered(natural, order) = acc[Len(order)].done \o acc[Len(order)].left
  BY DEF Reordered
<1> HIDE DEF acc
<1>3. Len(order) \in Nat  OBVIOUS
<1>4. PICK b : b = [done |-> <<>>, left |-> natural] /\ b \in A
  <2> DEFINE bb == [done |-> <<>>, left |-> natural]
  <2>1. bb \in A  OBVIOUS
  <2> QED BY <2>1
<1> HIDE DEF A
<1>5. PICK step \in [1..Len(order) -> [A -> A]] :
        \A n \in 1..Len(order) : \A x \in A : step[n][x] = Claim(x, order[n])
  <2> DEFINE st == [n \in 1..Len(order) |-> [x \in A |-> Claim(x, order[n])]]
  <2>1. /\ st \in [1..Len(order) -> [A -> A]]
        /\ \A n \in 1..Len(order) : \A x \in A : st[n][x] = Claim(x, order[n])
    BY <1>1
  <2> HIDE DEF st
  <2> QED BY <2>1
<1>6. PICK f \in [0..Len(order) -> A] : Recursion(f, Len(order), b, step)
  BY <1>3, <1>4, RecursionExists
<1>7. \A n \in 1..Len(order) : f[n] = Claim(f[n - 1], order[n])
  <2> TAKE n \in 1..Len(order)
  <2>1. n - 1 \in 0..Len(order)  BY <1>3
  <2>2. f[n - 1] \in A  BY <2>1
  <2> QED BY <1>5, <1>6, <2>2 DEF Recursion
<1>8. f = [n \in 0..Len(order) |-> IF n = 0 THEN [done |-> <<>>, left |-> natural]
                                   ELSE Claim(f[n - 1], order[n])]
  <2>1. \A n \in 0..Len(order) : n = 0 \/ n \in 1..Len(order)  BY <1>3
  <2> QED BY <1>4, <1>6, <1>7, <2>1 DEF Recursion
<1>9. acc = [n \in 0..Len(order) |-> IF n = 0 THEN [done |-> <<>>, left |-> natural]
                                     ELSE Claim(acc[n - 1], order[n])]
  BY <1>8 DEF acc
<1>10. PICK k : k = acc  OBVIOUS
<1>11. k[0] = b /\ \A n \in 1..Len(order) : k[n] = Claim(k[n - 1], order[n])
  <2>1. 0 \in 0..Len(order) /\ \A n \in 1..Len(order) : n \in 0..Len(order) /\ n # 0
    BY <1>3
  <2>2. \A n \in 0..Len(order) : acc[n] = IF n = 0 THEN [done |-> <<>>, left |-> natural]
                                          ELSE Claim(acc[n - 1], order[n])
    BY <1>9, Zenon
  <2> QED BY <1>4, <1>10, <2>1, <2>2, Zenon
<1>12. Alike(f, k, Len(order))
  BY <1>6, <1>7, <1>11 DEF Alike, Recursion
<1>13. \A n \in 0..Len(order) : f[n] = k[n]  BY <1>3, <1>12, RecursionUnique
<1>14. Len(order) \in 0..Len(order)  BY <1>3
<1>15. acc[Len(order)] \in A  BY <1>10, <1>13, <1>14
<1> QED BY <1>2, <1>15 DEF A

\* Rows read as a map: the last of the rows that count has the say.
LEMMA OutsOfType ==
  ASSUME NEW rows \in Seq(Row), NEW own \in SUBSET (1..Len(rows))
  PROVE  OutsOf(rows, own) \in Seq(Values)
<1>1. CASE own = {}  BY <1>1 DEF OutsOf
<1>2. CASE own # {}
  <2>1. Max(own) \in 1..Len(rows)
    <3>1. Len(rows) \in Nat  OBVIOUS
    <3>2. Max(own) \in own  BY <1>2, <3>1, MaxIs
    <3> QED BY <3>2
  <2>2. rows[Max(own)] \in Row  BY <2>1
  <2>3. rows[Max(own)].outs \in Seq(Values)  BY <2>2 DEF Row
  <2> QED BY <1>2, <2>3 DEF OutsOf
<1> QED BY <1>1, <1>2

LEMMA MapType ==
  ASSUME NEW rows \in Seq(Row)
  PROVE  MapOf(rows) \in [Inputs -> Seq(Values)] /\ OwnMap(rows) \in [Inputs -> Seq(Values)]
<1>1. ASSUME NEW i \in Inputs
      PROVE  /\ OutsOf(rows, RowsOf(rows, i)) \in Seq(Values)
             /\ OutsOf(rows, {k \in RowsOf(rows, i) : rows[k].outs # <<>>}) \in Seq(Values)
  <2>1. RowsOf(rows, i) \in SUBSET (1..Len(rows))  BY DEF RowsOf
  <2>2. {k \in RowsOf(rows, i) : rows[k].outs # <<>>} \in SUBSET (1..Len(rows))  BY <2>1
  <2> QED BY <2>1, <2>2, OutsOfType
<1> QED BY <1>1 DEF MapOf, OwnMap

LEMMA LastRowIs ==
  ASSUME NEW rows \in Seq(Row), NEW i
  PROVE  /\ LastRowOf(rows, i) \in 0..Len(rows)
         /\ LastRowOf(rows, i) # 0 => rows[LastRowOf(rows, i)].input = i
<1>1. Len(rows) \in Nat /\ DOMAIN rows = 1..Len(rows)  OBVIOUS
<1>2. CASE RowsOf(rows, i) = {}  BY <1>1, <1>2 DEF LastRowOf
<1>3. CASE RowsOf(rows, i) # {}
  <2>1. RowsOf(rows, i) \in SUBSET (1..Len(rows))  BY <1>1 DEF RowsOf
  <2>2. Max(RowsOf(rows, i)) \in RowsOf(rows, i)  BY <1>1, <1>3, <2>1, MaxIs
  <2>3. LastRowOf(rows, i) = Max(RowsOf(rows, i))  BY <1>3 DEF LastRowOf
  <2>4. LastRowOf(rows, i) \in 1..Len(rows) /\ rows[LastRowOf(rows, i)].input = i
    BY <1>1, <2>2, <2>3 DEF RowsOf
  <2> QED BY <1>1, <2>4
<1> QED BY <1>2, <1>3

\* A list of rows without an input on two rows.
SingleRows == {rows \in Seq(Row) : Single(rows)}
LEMMA MapIs ==
  ASSUME NEW rows \in SingleRows, NEW i \in Inputs
  PROVE  /\ \A k \in 1..Len(rows) : rows[k].input = i => MapOf(rows)[i] = rows[k].outs
         /\ (\A k \in 1..Len(rows) : rows[k].input # i) => MapOf(rows)[i] = <<>>
         /\ MapOf(rows)[i] \in Seq(Values)
         /\ OwnMap(rows)[i] = MapOf(rows)[i]
<1>1. PICK own : own = RowsOf(rows, i)  OBVIOUS
<1>2. PICK full : full = {k \in own : rows[k].outs # <<>>}  OBVIOUS
<1>3. MapOf(rows)[i] = OutsOf(rows, full) /\ OwnMap(rows)[i] = OutsOf(rows, own)
  BY <1>1, <1>2 DEF MapOf, OwnMap
<1>4. rows \in Seq(Row) /\ DOMAIN rows = 1..Len(rows)  BY DEF SingleRows
<1>5. own = {k \in 1..Len(rows) : rows[k].input = i}  BY <1>1, <1>4 DEF RowsOf
<1>6. ASSUME NEW k \in 1..Len(rows), rows[k].input = i
      PROVE  MapOf(rows)[i] = rows[k].outs /\ OwnMap(rows)[i] = rows[k].outs
  <2>1. own = {k}  BY <1>5, <1>6 DEF SingleRows, Single
  <2>2. Max({k}) = k
    <3>1. Len(rows) \in Nat  BY <1>4
    <3>2. k \in Int  BY <3>1
    <3> QED BY <3>2 DEF Max
  <2>3. CASE rows[k].outs = <<>>
    <3>1. full = {}  BY <1>2, <2>1, <2>3
    <3> QED BY <1>3, <2>1, <2>2, <2>3, <3>1 DEF OutsOf
  <2>4. CASE rows[k].outs # <<>>
    <3>1. full = {k}  BY <1>2, <2>1, <2>4
    <3> QED BY <1>3, <2>1, <2>2, <3>1 DEF OutsOf
  <2> QED BY <2>3, <2>4
<1>7. ASSUME \A k \in 1..Len(rows) : rows[k].input # i
      PROVE  MapOf(rows)[i] = <<>> /\ OwnMap(rows)[i] = <<>>
  <2>1. own = {} /\ full = {}  BY <1>2, <1>5, <1>7
  <2> QED BY <1>3, <2>1 DEF OutsOf
<1>8. MapOf(rows)[i] \in Seq(Values)
  <2>1. MapOf(rows) \in [Inputs -> Seq(Values)]  BY <1>4, MapType
  <2> QED BY <2>1
<1>9. OwnMap(rows)[i] = MapOf(rows)[i]  BY <1>6, <1>7
<1> QED BY <1>6, <1>7, <1>8, <1>9

\* Then the page's own map is the one the loaders make.
LEMMA OwnIsMap ==
  ASSUME NEW rows \in SingleRows
  PROVE  OwnMap(rows) = MapOf(rows) /\ MapOf(rows) \in [Inputs -> Seq(Values)]
<1>1. rows \in Seq(Row)  BY DEF SingleRows
<1>2. MapOf(rows) \in [Inputs -> Seq(Values)] /\ OwnMap(rows) \in [Inputs -> Seq(Values)]
  BY <1>1, MapType
<1>3. \A i \in Inputs : OwnMap(rows)[i] = MapOf(rows)[i]  BY MapIs
<1> QED BY <1>2, <1>3

\* It depends on the rows only, not on their order.
LEMMA SameRowsSameMap ==
  ASSUME NEW a \in SingleRows, NEW b \in SingleRows,
         \A k \in 1..Len(a) : \E l \in 1..Len(b) : b[l] = a[k],
         \A k \in 1..Len(b) : \E l \in 1..Len(a) : a[l] = b[k]
  PROVE  MapOf(a) = MapOf(b)
<1>1. ASSUME NEW i \in Inputs PROVE MapOf(a)[i] = MapOf(b)[i]
  <2>1. CASE \E k \in 1..Len(a) : a[k].input = i
    <3>1. PICK k \in 1..Len(a) : a[k].input = i  BY <2>1
    <3>2. PICK l \in 1..Len(b) : b[l] = a[k]  OBVIOUS
    <3>3. MapOf(a)[i] = a[k].outs  BY <3>1, MapIs
    <3>4. MapOf(b)[i] = b[l].outs  BY <3>1, <3>2, MapIs
    <3> QED BY <3>2, <3>3, <3>4
  <2>2. CASE \A k \in 1..Len(a) : a[k].input # i
    <3>1. \A k \in 1..Len(b) : b[k].input # i  BY <2>2
    <3>2. MapOf(a)[i] = <<>>  BY <2>2, MapIs
    <3>3. MapOf(b)[i] = <<>>  BY <3>1, MapIs
    <3> QED BY <3>2, <3>3
  <2> QED BY <2>1, <2>2
<1>2. MapOf(a) \in [Inputs -> Seq(Values)] /\ MapOf(b) \in [Inputs -> Seq(Values)]
  BY OwnIsMap
<1> QED BY <1>1, <1>2

\* The combined profiles.
ManifestType == [base: MappingFiles \cup {NoFile}, sources: Seq(MappingFiles),
                 order: [Inputs -> Seq(Variants)]]
Ordered(m) == \A i \in Inputs : \A v \in ToSet(m.order[i]) : v.ref \in ToSet(Refs(m))
SoundManifest(m) == m \in ManifestType /\ IsInjective(Refs(m)) /\ Ordered(m)

LEMMA RefsIs ==
  ASSUME NEW m \in ManifestType
  PROVE  /\ Refs(m) \in Seq(MappingFiles)
         /\ m.base = NoFile => Refs(m) = <<>>
         /\ m.base # NoFile => Len(Refs(m)) \in Nat \ {0} /\ Refs(m)[1] = m.base
         /\ IsInjective(m.sources) => IsInjective(Refs(m))
<1>1. CASE m.base = NoFile
  BY <1>1 DEF Refs, IsInjective
<1>2. CASE m.base # NoFile
  <2> DEFINE p == <<m.base>>
             q == Only(m.sources, MappingFiles \ {m.base})
  <2>1. Refs(m) = p \o q  BY <1>2 DEF Refs
  <2>2. p \in Seq(MappingFiles) /\ Len(p) = 1 /\ p[1] = m.base
    BY <1>2 DEF ManifestType
  <2>3. m.sources \in Seq(MappingFiles)  BY DEF ManifestType
  <2>4. /\ q \in Seq(MappingFiles) /\ \A j \in 1..Len(q) : q[j] # m.base
        /\ IsInjective(m.sources) => IsInjective(q)
    BY <2>3, OnlyKeeps
  <2> HIDE DEF p, q
  <2>5. /\ p \o q \in Seq(MappingFiles) /\ Len(p \o q) = Len(p) + Len(q)
        /\ \A j \in 1 .. Len(p) + Len(q) : (p \o q)[j] =
             IF j <= Len(p) THEN p[j] ELSE q[j - Len(p)]
    BY <2>2, <2>4, ConcatProperties
  <2>6. /\ Len(q) \in Nat /\ Len(p \o q) = Len(q) + 1 /\ (p \o q)[1] = m.base
        /\ \A j \in 2 .. Len(q) + 1 : j - 1 \in 1..Len(q) /\ (p \o q)[j] = q[j - 1]
    BY <2>2, <2>4, <2>5
  <2>7. ASSUME IsInjective(m.sources), NEW a \in 1..Len(p \o q), NEW b \in 1..Len(p \o q),
               (p \o q)[a] = (p \o q)[b]
        PROVE  a = b
    <3>1. \A x, y \in 1..Len(q) : q[x] = q[y] => x = y
      BY <2>4, <2>7 DEF IsInjective
    <3>2. (a = 1 \/ a \in 2 .. Len(q) + 1) /\ (b = 1 \/ b \in 2 .. Len(q) + 1)
      BY <2>6
    <3>3. CASE a = 1 \/ b = 1  BY <2>4, <2>6, <2>7, <3>2, <3>3
    <3>4. CASE a # 1 /\ b # 1  BY <2>6, <2>7, <3>1, <3>2, <3>4
    <3> QED BY <3>3, <3>4
  <2> QED BY <1>2, <2>1, <2>5, <2>6, <2>7 DEF IsInjective
<1> QED BY <1>1, <1>2

LEMMA CombinedSound ==
  ASSUME NEW refs \in Seq(MappingFiles), IsInjective(refs), merge \in ManifestType,
         MappingsAssumption
  PROVE  /\ SoundManifest(Combined(refs))
         /\ Combined(refs).base = NoFile => Combined(refs) = NoMerge
<1>1. CASE refs = <<>>
  <2>1. Combined(refs) = NoMerge  BY <1>1 DEF Combined
  <2>2. NoMerge \in ManifestType /\ NoMerge.base = NoFile /\ \A i \in Inputs : NoMerge.order[i] = <<>>
    BY DEF NoMerge, NoOrder, Manifest, ManifestType
  <2>3. Refs(NoMerge) = <<>>  BY <2>2, RefsIs
  <2> QED BY <2>1, <2>2, <2>3 DEF SoundManifest, IsInjective, Ordered, ToSet
<1>2. CASE refs # <<>>
  <2> DEFINE m == Manifest(refs[1], Tail(refs), merge.order)
             c == PruneOrder(m)
  <2>1. Combined(refs) = c  BY <1>2 DEF Combined
  <2>2. /\ refs[1] \in MappingFiles /\ Tail(refs) \in Seq(MappingFiles)
        /\ Len(Tail(refs)) = Len(refs) - 1
        /\ \A j \in 1..Len(Tail(refs)) : Tail(refs)[j] = refs[j + 1]
    BY <1>2
  <2>3. m \in ManifestType /\ m.base = refs[1] /\ m.sources = Tail(refs) /\ m.order = merge.order
    BY <2>2 DEF Manifest, ManifestType
  <2>4. IsInjective(Tail(refs))
    <3> SUFFICES ASSUME NEW a \in 1..Len(Tail(refs)), NEW b \in 1..Len(Tail(refs)),
                        Tail(refs)[a] = Tail(refs)[b]
                 PROVE  a = b
      BY <2>2 DEF IsInjective
    <3>1. a + 1 \in DOMAIN refs /\ b + 1 \in DOMAIN refs /\ refs[a + 1] = refs[b + 1]
      BY <2>2
    <3>2. a + 1 = b + 1  BY <3>1 DEF IsInjective
    <3> QED BY <3>2
  <2>5. IsInjective(Refs(m)) /\ Refs(m) \in Seq(MappingFiles)  BY <2>3, <2>4, RefsIs
  <2> HIDE DEF m
  <2> DEFINE new(i) == Only(m.order[i], [value: Values, ref: ToSet(Refs(m))])
  <2>6. ASSUME NEW i \in Inputs
        PROVE  new(i) \in Seq(Variants) /\ \A v \in ToSet(new(i)) : v.ref \in ToSet(Refs(m))
    <3>1. m.order[i] \in Seq(Variants)  BY <2>3 DEF ManifestType
    <3>2. /\ new(i) \in Seq(Variants)
          /\ \A j \in 1..Len(new(i)) : new(i)[j] \in [value: Values, ref: ToSet(Refs(m))]
      BY <3>1, OnlyKeeps
    <3> HIDE DEF new
    <3> QED BY <3>2 DEF ToSet
  <2>7. c = [m EXCEPT !.order = [i \in Inputs |-> new(i)]]  BY DEF PruneOrder
  <2> HIDE DEF new, c
  <2>8. /\ c \in ManifestType /\ c.base = m.base /\ c.sources = m.sources
        /\ \A i \in Inputs : c.order[i] = new(i)
    BY <2>3, <2>6, <2>7 DEF ManifestType
  <2>9. Refs(c) = Refs(m)  BY <2>8 DEF Refs
  <2>10. c.base # NoFile  BY <2>2, <2>3, <2>8 DEF MappingsAssumption
  <2> QED BY <2>1, <2>5, <2>6, <2>8, <2>9, <2>10 DEF SoundManifest, Ordered
<1> QED BY <1>1, <1>2

-----------------------------------------------------------------------------
(* Changes of a list of rows *)

LEMMA EditedRows ==
  ASSUME NEW rows \in Seq(Row), NEW k \in 1..Len(rows), NEW outs \in Seq(Values)
  PROVE  /\ [rows EXCEPT ![k].outs = outs] \in Seq(Row)
         /\ Len([rows EXCEPT ![k].outs = outs]) = Len(rows)
<1>1. PICK old \in Row : old = rows[k]  OBVIOUS
<1>2. PICK row \in Row : row = [old EXCEPT !.outs = outs]  BY DEF Row
<1>3. [rows EXCEPT ![k].outs = outs] = [rows EXCEPT ![k] = row]  BY <1>1, <1>2
<1>4. [rows EXCEPT ![k] = row] \in Seq(Row) /\ Len([rows EXCEPT ![k] = row]) = Len(rows)
  OBVIOUS
<1> QED BY <1>3, <1>4

LEMMA AppendRow ==
  ASSUME NEW rows \in SingleRows, NEW row \in Row, \A k \in 1..Len(rows) : rows[k].input # row.input
  PROVE  Append(rows, row) \in SingleRows
<1> DEFINE new == Append(rows, row)
<1>1. rows \in Seq(Row) /\ Len(rows) \in Nat  BY DEF SingleRows
<1>2. /\ new \in Seq(Row) /\ Len(new) = Len(rows) + 1 /\ new[Len(rows) + 1] = row
      /\ \A k \in 1..Len(rows) : new[k] = rows[k]
  BY <1>1
<1> HIDE DEF new
<1>3. ASSUME NEW a \in 1..Len(new), NEW b \in 1..Len(new), new[a].input = new[b].input
      PROVE  a = b
  <2>1. /\ a \in 1..Len(rows) \/ a = Len(rows) + 1
        /\ b \in 1..Len(rows) \/ b = Len(rows) + 1
    BY <1>1, <1>2
  <2>2. CASE a \in 1..Len(rows) /\ b \in 1..Len(rows)
    BY <1>2, <1>3, <2>2 DEF SingleRows, Single
  <2>3. CASE a = Len(rows) + 1 \/ b = Len(rows) + 1
    BY <1>2, <1>3, <2>1, <2>3
  <2> QED BY <2>1, <2>2, <2>3
<1>4. Single(new)  BY <1>3 DEF Single
<1> QED BY <1>2, <1>4 DEF SingleRows, new

LEMMA RemoveRow ==
  ASSUME NEW rows \in SingleRows, NEW k \in 1..Len(rows)
  PROVE  /\ RemoveAt(rows, k) \in SingleRows
         /\ \A j \in 1..Len(RemoveAt(rows, k)) : RemoveAt(rows, k)[j].input # rows[k].input
<1> DEFINE new == RemoveAt(rows, k)
           old(j) == IF j < k THEN j ELSE j + 1
<1>1. rows \in Seq(Row) /\ Len(rows) \in Nat  BY DEF SingleRows
<1>2. /\ new \in Seq(Row) /\ Len(new) = Len(rows) - 1
      /\ \A j \in 1 .. Len(rows) - 1 : new[j] = rows[old(j)]
  BY <1>1, RemoveAtIs
<1> HIDE DEF new
<1>3. \A j \in 1..Len(new) : old(j) \in 1..Len(rows) /\ old(j) # k /\ new[j] = rows[old(j)]
  BY <1>1, <1>2
<1>4. \A a, b \in 1..Len(new) : old(a) = old(b) => a = b
  BY <1>1, <1>2
<1>5. \A a, b \in 1..Len(rows) : rows[a].input = rows[b].input => a = b
  BY DEF SingleRows, Single
<1> HIDE DEF old
<1>6. Single(new)  BY <1>3, <1>4, <1>5 DEF Single
<1>7. \A j \in 1..Len(new) : new[j].input # rows[k].input  BY <1>3, <1>5
<1> QED BY <1>2, <1>6, <1>7 DEF SingleRows, new

LEMMA ReplaceRow ==
  ASSUME NEW rows \in SingleRows, NEW k \in 1..Len(rows), NEW row \in Row,
         \A j \in 1..Len(rows) : j # k => rows[j].input # row.input
  PROVE  [rows EXCEPT ![k] = row] \in SingleRows
<1> DEFINE new == [rows EXCEPT ![k] = row]
<1>1. rows \in Seq(Row)  BY DEF SingleRows
<1>2. /\ new \in Seq(Row) /\ Len(new) = Len(rows)
      /\ \A j \in 1..Len(rows) : new[j] = IF j = k THEN row ELSE rows[j]
  BY <1>1
<1> HIDE DEF new
<1>3. \A a, b \in 1..Len(rows) : rows[a].input = rows[b].input => a = b
  BY DEF SingleRows, Single
<1>4. Single(new)  BY <1>2, <1>3 DEF Single
<1> QED BY <1>2, <1>4 DEF SingleRows, new

LEMMA ReplaceOuts ==
  ASSUME NEW rows \in SingleRows, NEW k \in 1..Len(rows), NEW outs \in Seq(Values)
  PROVE  /\ [rows EXCEPT ![k].outs = outs] \in SingleRows
         /\ Len([rows EXCEPT ![k].outs = outs]) = Len(rows)
<1> DEFINE row == [input |-> rows[k].input, outs |-> outs]
<1>1. rows \in Seq(Row) /\ rows[k] \in Row  BY DEF SingleRows
<1>2. row \in Row /\ row = [rows[k] EXCEPT !.outs = outs]  BY <1>1 DEF Row
<1>3. [rows EXCEPT ![k].outs = outs] = [rows EXCEPT ![k] = row]  BY <1>2
<1>4. \A j \in 1..Len(rows) : j # k => rows[j].input # row.input
  BY DEF SingleRows, Single
<1>5. Len([rows EXCEPT ![k] = row]) = Len(rows)  BY <1>1, <1>2
<1> HIDE DEF row
<1> QED BY <1>2, <1>3, <1>4, <1>5, ReplaceRow

\* The variants of a row, and what is left of them.
LEMMA OutsIs ==
  ASSUME NEW rows \in Seq(Row), NEW k \in 1..Len(rows), NEW v \in Values
  PROVE  /\ rows[k].outs \in Seq(Values) /\ RemoveFirst(rows[k].outs, v) \in Seq(Values)
         /\ Append(rows[k].outs, v) \in Seq(Values)
<1>1. rows[k] \in Row  OBVIOUS
<1>2. rows[k].outs \in Seq(Values)  BY <1>1 DEF Row
<1> QED BY <1>2, RemoveFirstIs

Inserts(S, s, k, e) ==
  LET r == InsertAt(s, k, e)
  IN  /\ r \in Seq(S) /\ Len(r) = Len(s) + 1
      /\ \A j \in 1 .. Len(s) + 1 :
           r[j] = IF j < k THEN s[j] ELSE IF j = k THEN e ELSE s[j - 1]
LEMMA InsertAtIs ==
  ASSUME NEW S, NEW s \in Seq(S), NEW k \in 1 .. Len(s) + 1, NEW e \in S
  PROVE  Inserts(S, s, k, e)
<1> DEFINE p == SubSeq(s, 1, k - 1)
           q == SubSeq(s, k, Len(s))
           h == p \o <<e>>
<1>1. /\ p \in Seq(S) /\ Len(p) = k - 1 /\ \A j \in 1 .. k - 1 : p[j] = s[j]
  <2>1. \A j \in 1 .. k - 1 : s[j] \in S  OBVIOUS
  <2>2. 1 \in Int /\ k - 1 \in Int  OBVIOUS
  <2>3. /\ p \in Seq(S) /\ Len(p) = IF 1 <= k - 1 THEN (k - 1) - 1 + 1 ELSE 0
        /\ \A j \in 1 .. (k - 1) - 1 + 1 : p[j] = s[1 + j - 1]
    BY <2>1, <2>2, SubSeqProperties
  <2> QED BY <2>3
<1>2. /\ q \in Seq(S) /\ Len(q) = Len(s) + 1 - k
      /\ \A j \in 1 .. Len(s) + 1 - k : q[j] = s[k + j - 1]
  <2>1. \A j \in k .. Len(s) : s[j] \in S  OBVIOUS
  <2>2. Len(s) \in Int /\ k \in Int  OBVIOUS
  <2>3. /\ q \in Seq(S) /\ Len(q) = IF k <= Len(s) THEN Len(s) - k + 1 ELSE 0
        /\ \A j \in 1 .. Len(s) - k + 1 : q[j] = s[k + j - 1]
    BY <2>1, <2>2, SubSeqProperties
  <2> QED BY <2>3
<1>3. InsertAt(s, k, e) = h \o q  BY DEF InsertAt
<1> HIDE DEF p, q
<1>4. /\ h \in Seq(S) /\ Len(h) = k /\ h[k] = e /\ \A j \in 1 .. k - 1 : h[j] = s[j]
  <2>1. PICK one \in Seq(S) : one = <<e>> /\ Len(one) = 1 /\ one[1] = e
    <3>1. <<e>> \in Seq(S) /\ Len(<<e>>) = 1 /\ <<e>>[1] = e  OBVIOUS
    <3> QED BY <3>1
  <2>2. /\ p \o one \in Seq(S) /\ Len(p \o one) = Len(p) + Len(one)
        /\ \A j \in 1 .. Len(p) + Len(one) : (p \o one)[j] =
             IF j <= Len(p) THEN p[j] ELSE one[j - Len(p)]
    BY <1>1, <2>1, ConcatProperties
  <2>3. h = p \o one  BY <2>1
  <2> HIDE DEF h
  <2>4. \A j \in 1 .. k - 1 : j <= Len(p) /\ j \in 1 .. Len(p) + Len(one)  BY <1>1, <2>1
  <2>5. k \in 1 .. Len(p) + Len(one) /\ ~(k <= Len(p)) /\ k - Len(p) = 1  BY <1>1, <2>1
  <2>6. h[k] = e  BY <2>1, <2>2, <2>3, <2>5
  <2>7. \A j \in 1 .. k - 1 : h[j] = s[j]  BY <1>1, <2>2, <2>3, <2>4
  <2>8. h \in Seq(S) /\ Len(h) = k  BY <1>1, <2>1, <2>2, <2>3
  <2> QED BY <2>6, <2>7, <2>8
<1> HIDE DEF h
<1>5. /\ h \o q \in Seq(S) /\ Len(h \o q) = Len(h) + Len(q)
      /\ \A j \in 1 .. Len(h) + Len(q) : (h \o q)[j] =
           IF j <= Len(h) THEN h[j] ELSE q[j - Len(h)]
  BY <1>2, <1>4, ConcatProperties
<1>6. Len(h) + Len(q) = Len(s) + 1  BY <1>2, <1>4
<1>7. ASSUME NEW j \in 1 .. Len(s) + 1
      PROVE  (h \o q)[j] = IF j < k THEN s[j] ELSE IF j = k THEN e ELSE s[j - 1]
  <2>1. CASE j < k
    <3>1. j \in 1 .. k - 1 /\ j <= Len(h) /\ j \in 1 .. Len(h) + Len(q)  BY <1>4, <1>6, <2>1
    <3> QED BY <1>4, <1>5, <2>1, <3>1
  <2>2. CASE j = k
    <3>1. j <= Len(h) /\ j \in 1 .. Len(h) + Len(q) /\ ~(j < k)  BY <1>4, <1>6, <2>2
    <3> QED BY <1>4, <1>5, <2>2, <3>1
  <2>3. CASE j > k
    <3>1. /\ j - Len(h) \in 1 .. Len(s) + 1 - k /\ ~(j <= Len(h)) /\ j \in 1 .. Len(h) + Len(q)
          /\ k + (j - Len(h)) - 1 = j - 1 /\ ~(j < k) /\ j # k
      BY <1>4, <1>6, <2>3
    <3>2. (h \o q)[j] = q[j - Len(h)]  BY <1>5, <3>1
    <3> QED BY <1>2, <3>1, <3>2
  <2>4. j < k \/ j = k \/ j > k  OBVIOUS
  <2> QED BY <2>1, <2>2, <2>3, <2>4
<1> HIDE DEF h, q
<1> QED BY <1>3, <1>5, <1>6, <1>7 DEF Inserts

\* A drag of a row keeps the rows: a list without an input on two rows maps what it did.
LEMMA MovedKeepsMap ==
  ASSUME entries \in Seq(Row), NEW from \in 1..Len(entries), NEW to \in 1..Len(entries)
  PROVE  /\ Moved(from, to) \in Seq(Row)
         /\ Single(Moved(from, to)) => Single(entries) /\ MapOf(Moved(from, to)) = MapOf(entries)
<1> DEFINE n == Len(entries)
           cut == RemoveAt(entries, from)
           new == Moved(from, to)
           mid(j) == IF j < to THEN j ELSE j - 1
           old(j) == IF j = to THEN from
                     ELSE IF mid(j) < from THEN mid(j) ELSE mid(j) + 1
<1>1. entries \in Seq(Row) /\ n \in Nat /\ entries[from] \in Row /\ n > 0  OBVIOUS
<1>2. /\ cut \in Seq(Row) /\ Len(cut) = n - 1
      /\ \A j \in 1 .. n - 1 : cut[j] = entries[IF j < from THEN j ELSE j + 1]
  BY <1>1, RemoveAtIs
<1>3. new = InsertAt(cut, to, entries[from])  BY DEF Moved
<1>4. to \in 1 .. Len(cut) + 1  BY <1>1, <1>2
<1> HIDE DEF cut, new
<1>5. /\ new \in Seq(Row) /\ Len(new) = n
      /\ \A j \in 1..n : new[j] = IF j < to THEN cut[j]
                                  ELSE IF j = to THEN entries[from] ELSE cut[j - 1]
  <2>1. /\ new \in Seq(Row) /\ Len(new) = Len(cut) + 1
        /\ \A j \in 1 .. Len(cut) + 1 : new[j] =
             IF j < to THEN cut[j] ELSE IF j = to THEN entries[from] ELSE cut[j - 1]
    <3>1. cut \in Seq(Row) /\ entries[from] \in Row  BY <1>1, <1>2
    <3>2. Inserts(Row, cut, to, entries[from])  BY <1>4, <3>1, InsertAtIs
    <3> QED BY <1>3, <3>2 DEF Inserts
  <2> QED BY <1>1, <1>2, <2>1
<1>6. ASSUME NEW j \in 1..n
      PROVE  old(j) \in 1..n /\ new[j] = entries[old(j)]
  <2>1. CASE j = to  BY <1>5, <2>1
  <2>2. CASE j # to
    <3>1. mid(j) \in 1 .. n - 1 /\ new[j] = cut[mid(j)]  BY <1>1, <1>5, <2>2
    <3>2. old(j) = IF mid(j) < from THEN mid(j) ELSE mid(j) + 1  BY <2>2
    <3> HIDE DEF mid, old
    <3>3. new[j] = entries[old(j)]  BY <1>2, <3>1, <3>2
    <3>4. old(j) \in 1..n  BY <1>1, <3>1, <3>2
    <3> QED BY <3>3, <3>4
  <2> QED BY <2>1, <2>2
<1>7. ASSUME NEW k \in 1..n PROVE \E j \in 1..n : old(j) = k
  <2>1. CASE k = from  BY <2>1
  <2>2. CASE k # from
    <3> DEFINE m == IF k < from THEN k ELSE k - 1
               j == IF m < to THEN m ELSE m + 1
    <3>1. j \in 1..n /\ old(j) = k  BY <1>1, <2>2
    <3> QED BY <3>1
  <2> QED BY <2>1, <2>2
<1> HIDE DEF old, mid
<1>8. ASSUME Single(new) PROVE Single(entries) /\ MapOf(new) = MapOf(entries)
  <2>1. \A a, b \in 1..n : new[a].input = new[b].input => a = b
    BY <1>5, <1>8 DEF Single
  <2>2. ASSUME NEW k \in 1..n, NEW l \in 1..n, entries[k].input = entries[l].input PROVE k = l
    <3>1. PICK a \in 1..n : old(a) = k  BY <1>7
    <3>2. PICK b \in 1..n : old(b) = l  BY <1>7
    <3>3. new[a].input = new[b].input  BY <1>6, <2>2, <3>1, <3>2
    <3> QED BY <2>1, <3>1, <3>2, <3>3
  <2>3. Single(entries)  BY <2>2 DEF Single
  <2>4. new \in SingleRows /\ entries \in SingleRows  BY <1>1, <1>5, <1>8, <2>3 DEF SingleRows
  <2>5. \A k \in 1..Len(new) : \E l \in 1..Len(entries) : entries[l] = new[k]
    BY <1>5, <1>6
  <2>6. \A k \in 1..Len(entries) : \E l \in 1..Len(new) : new[l] = entries[k]
    BY <1>5, <1>6, <1>7
  <2> QED BY <2>3, <2>4, <2>5, <2>6, SameRowsSameMap
<1> QED BY <1>5, <1>8 DEF new

\* A variant is taken from a row that holds it, and given to an input with or without
\* a row.  Neither puts an input on two rows.
LEMMA TakenRows ==
  ASSUME NEW rows \in Seq(Row), NEW i \in Inputs, NEW v \in Values, Holds(rows, i, v)
  PROVE  /\ Taken(rows, i, v) \in Seq(Row)
         /\ Single(rows) => Single(Taken(rows, i, v))
<1>1. PICK k : k = RowOf(rows, i) /\ k \in 1..Len(rows)
  <2>1. RowOf(rows, i) # 0  BY DEF Holds
  <2> QED BY <2>1, RowIs
<1>2. PICK outs \in Seq(Values) : outs = RemoveFirst(rows[k].outs, v)
  BY <1>1, OutsIs
<1>3. Taken(rows, i, v) = IF outs = <<>> THEN RemoveAt(rows, k) ELSE [rows EXCEPT ![k].outs = outs]
  BY <1>1, <1>2 DEF Taken
<1>4. RemoveAt(rows, k) \in Seq(Row) /\ [rows EXCEPT ![k].outs = outs] \in Seq(Row)
  BY <1>1, <1>2, RemoveAtIs, EditedRows
<1>5. ASSUME Single(rows)
      PROVE  Single(RemoveAt(rows, k)) /\ Single([rows EXCEPT ![k].outs = outs])
  <2>1. rows \in SingleRows  BY <1>5 DEF SingleRows
  <2>2. RemoveAt(rows, k) \in SingleRows /\ [rows EXCEPT ![k].outs = outs] \in SingleRows
    BY <1>1, <1>2, <2>1, RemoveRow, ReplaceOuts
  <2> QED BY <2>2 DEF SingleRows
<1> QED BY <1>3, <1>4, <1>5

LEMMA GivenRows ==
  ASSUME NEW rows \in Seq(Row), NEW j \in Inputs, NEW v \in Values
  PROVE  /\ Given(rows, j, v) \in Seq(Row)
         /\ Single(rows) => Single(Given(rows, j, v))
<1>1. PICK k : k = RowOf(rows, j)  OBVIOUS
<1>2. CASE k = 0
  <2>1. \A l \in 1..Len(rows) : rows[l].input # j  BY <1>1, <1>2, RowIs
  <2> DEFINE row == [input |-> j, outs |-> <<v>>]
  <2>2. row \in Row /\ row.input = j  BY DEF Row
  <2>3. Given(rows, j, v) = Append(rows, row)  BY <1>1, <1>2 DEF Given
  <2> HIDE DEF row
  <2>4. Append(rows, row) \in Seq(Row)  BY <2>2
  <2>5. Single(rows) => Single(Append(rows, row))
    BY <2>1, <2>2, AppendRow DEF SingleRows
  <2> QED BY <2>3, <2>4, <2>5
<1>3. CASE k # 0
  <2>1. k \in 1..Len(rows)  BY <1>1, <1>3, RowIs
  <2>2. PICK outs \in Seq(Values) : outs = Append(rows[k].outs, v)  BY <2>1, OutsIs
  <2>3. Given(rows, j, v) = [rows EXCEPT ![k].outs = outs]  BY <1>1, <1>3, <2>2 DEF Given
  <2>4. [rows EXCEPT ![k].outs = outs] \in Seq(Row)  BY <2>1, EditedRows
  <2>5. Single(rows) => Single([rows EXCEPT ![k].outs = outs])
    BY <2>1, ReplaceOuts DEF SingleRows
  <2> QED BY <2>3, <2>4, <2>5
<1> QED BY <1>2, <1>3

\* What removes one reference names none twice.
LEMMA RemoveFirstInjective ==
  ASSUME NEW S, NEW s \in Seq(S), NEW e, IsInjective(s)
  PROVE  IsInjective(RemoveFirst(s, e))
<1>1. CASE e \notin ToSet(s)  BY <1>1, RemoveFirstIs
<1>2. CASE e \in ToSet(s)
  <2>1. PICK k \in 1..Len(s) : RemoveFirst(s, e) = RemoveAt(s, k)  BY <1>2, RemoveFirstIs
  <2>2. PICK t : t = RemoveAt(s, k)  OBVIOUS
  <2>3. /\ t \in Seq(S) /\ Len(t) = Len(s) - 1
        /\ \A j \in 1 .. Len(s) - 1 : t[j] = s[IF j < k THEN j ELSE j + 1]
    BY <2>2, RemoveAtIs
  <2>4. ASSUME NEW a \in 1..Len(t), NEW b \in 1..Len(t), t[a] = t[b] PROVE a = b
    <3> DEFINE old(j) == IF j < k THEN j ELSE j + 1
    <3>1. old(a) \in DOMAIN s /\ old(b) \in DOMAIN s /\ s[old(a)] = s[old(b)]
      BY <2>3, <2>4
    <3>2. old(a) = old(b)
      <4> HIDE DEF old
      <4> QED BY <3>1 DEF IsInjective
    <3> QED BY <2>3, <3>2
  <2>5. DOMAIN t = 1..Len(t)  BY <2>3
  <2> QED BY <2>1, <2>2, <2>4, <2>5 DEF IsInjective
<1> QED BY <1>1, <1>2

LEMMA AppendOnce ==
  ASSUME NEW S, NEW s \in Seq(S), NEW e \in S, IsInjective(s), e \notin ToSet(s)
  PROVE  Append(s, e) \in Seq(S) /\ IsInjective(Append(s, e))
<1>1. PICK t : t = Append(s, e)
  OBVIOUS
<1>2. /\ t \in Seq(S) /\ Len(t) = Len(s) + 1 /\ Len(s) \in Nat /\ t[Len(s) + 1] = e
      /\ \A j \in 1..Len(s) : t[j] = s[j] /\ s[j] # e
  BY <1>1 DEF ToSet
<1>3. \A a, b \in 1..Len(s) : s[a] = s[b] => a = b
  BY DEF IsInjective
<1>4. \A a, b \in 1..Len(t) : t[a] = t[b] => a = b
  <2>1. \A a \in 1..Len(t) : a \in 1..Len(s) \/ a = Len(s) + 1
    BY <1>2
  <2> QED BY <1>2, <1>3, <2>1
<1>5. IsInjective(t)
  BY <1>2, <1>4 DEF IsInjective
<1> QED
  BY <1>1, <1>2, <1>5

\* A rearrangement of a sequence has its elements.
LEMMA ArrangementIs ==
  ASSUME NEW S, NEW s \in Seq(S), NEW a \in Arrangements(s)
  PROVE  a \in Seq(S) /\ \A v \in ToSet(a) : v \in ToSet(s)
<1>1. Len(s) \in Nat /\ DOMAIN s = 1..Len(s)  OBVIOUS
<1>2. Cardinality(1..Len(s)) = Len(s)
  <2>1. 1 \in Int /\ Len(s) \in Int  BY <1>1
  <2>2. Cardinality(1..Len(s)) = IF 1 > Len(s) THEN 0 ELSE Len(s) - 1 + 1
    BY <2>1, FS_Interval
  <2> QED BY <1>1, <2>2
<1>3. PICK p \in SetToSeqs(DOMAIN s) : a = [k \in DOMAIN s |-> s[p[k]]]
  BY DEF Arrangements
<1>4. p \in [1..Len(s) -> 1..Len(s)]  BY <1>1, <1>2, <1>3 DEF SetToSeqs
<1>5. \A k \in 1..Len(s) : a[k] = s[p[k]] /\ p[k] \in 1..Len(s)  BY <1>1, <1>3, <1>4
<1>6. \A k \in 1..Len(s) : a[k] \in S  BY <1>5
<1>7. a \in Seq(S)  BY <1>1, <1>3, <1>6
<1>8. DOMAIN a = 1..Len(s)  BY <1>1, <1>3
<1> QED BY <1>5, <1>7, <1>8 DEF ToSet

-----------------------------------------------------------------------------
(* The composed view *)

LEMMA NaturalType ==
  ASSUME NEW i \in Inputs, NEW refs \in Seq(MappingFiles), NEW maps,
         \A k \in 1..Len(refs) : maps[k] \in [Inputs -> Seq(Values)]
  PROVE  Natural(i, refs, maps) \in Seq([value: Values, ref: ToSet(refs)])
<1> DEFINE V == [value: Values, ref: ToSet(refs)]
           share(k) == [j \in 1..Len(maps[k][i]) |-> [value |-> maps[k][i][j], ref |-> refs[k]]]
           parts == [k \in 1..Len(refs) |-> share(k)]
<1>1. Natural(i, refs, maps) = FlattenSeq(parts)  BY DEF Natural
<1>2. ASSUME NEW k \in 1..Len(refs) PROVE share(k) \in Seq(V)
  <2>1. PICK s \in Seq(Values) : s = maps[k][i]  OBVIOUS
  <2>2. refs[k] \in ToSet(refs)  BY DEF ToSet
  <2>3. \A j \in 1..Len(s) : [value |-> s[j], ref |-> refs[k]] \in V  BY <2>2
  <2>4. Len(s) \in Nat /\ share(k) = [j \in 1..Len(s) |-> [value |-> s[j], ref |-> refs[k]]]
    BY <2>1
  <2> HIDE DEF V, share
  <2> QED BY <2>3, <2>4
<1> HIDE DEF V, share
<1>3. parts \in Seq(Seq(V))  BY <1>2
<1> HIDE DEF parts
<1>4. FlattenSeq(parts) \in Seq(V)  BY <1>3, FlattenType
<1> QED BY <1>1, <1>4 DEF V

LEMMA RebuildType ==
  ASSUME NEW f, NEW es \in Seq(Row), NEW fs \in [MappingFiles -> Seq(Row)], NEW m \in ManifestType
  PROVE  RebuildComposed(f, es, fs, m) \in [Inputs -> Seq([value: Values, ref: ToSet(Refs(m))])]
<1> DEFINE V == [value: Values, ref: ToSet(Refs(m))]
<1>1. CASE m.base # f  BY <1>1 DEF RebuildComposed, NoMap
<1>2. CASE m.base = f
  <2>1. PICK refs : refs = Refs(m) /\ refs \in Seq(MappingFiles)  BY RefsIs
  <2>2. PICK maps : maps = [k \in 1..Len(refs) |-> IF k = 1 THEN OwnMap(es)
                                                   ELSE LoadProfileMap(refs[k], fs)]
    OBVIOUS
  <2>3. \A k \in 1..Len(refs) : maps[k] \in [Inputs -> Seq(Values)]
    <3> TAKE k \in 1..Len(refs)
    <3>1. refs[k] \in MappingFiles  BY <2>1
    <3>2. fs[refs[k]] \in Seq(Row)  BY <3>1
    <3>3. OwnMap(es) \in [Inputs -> Seq(Values)] /\ MapOf(fs[refs[k]]) \in [Inputs -> Seq(Values)]
      BY <3>2, MapType
    <3> QED BY <2>2, <3>3 DEF LoadProfileMap
  <2>4. RebuildComposed(f, es, fs, m) = Compose(refs, maps, m.order)
    BY <1>2, <2>1, <2>2 DEF RebuildComposed
  <2>5. ASSUME NEW i \in Inputs
        PROVE  Reordered(Natural(i, refs, maps), m.order[i]) \in Seq(V)
    <3>1. Natural(i, refs, maps) \in Seq(V)  BY <2>1, <2>3, NaturalType
    <3>2. m.order[i] \in Seq(Variants)  BY DEF ManifestType
    <3> HIDE DEF V
    <3> QED BY <3>1, <3>2, ReorderedType
  <2> HIDE DEF V
  <2> QED BY <2>4, <2>5 DEF Compose, V
<1> QED BY <1>1, <1>2

-----------------------------------------------------------------------------
(* The inductive invariant *)

\* The list in memory maps what its file does, whatever the order of its rows, unless a
\* save failed, the defaults stand in for an empty Standard profile, or an input is on
\* two rows, which a drag of the rows may have exchanged.
ListKept ==
    saveState # "error" /\ Single(entries)
                        => \/ profileFile = StandardFile /\ files[StandardFile] = <<>>
                           \/ MapOf(entries) = MapOf(files[profileFile])

MappingsInv ==
    /\ files \in [MappingFiles -> Seq(Row)] /\ entries \in Seq(Row) /\ profileFile \in MappingFiles
    /\ saveState \in {"loaded", "saved", "error"}
    /\ ListKept
    /\ SoundManifest(mergeConf) /\ merge = mergeConf /\ manifest = mergeConf
    /\ composing = (mergeConf.base = profileFile)
    /\ displayRows = RebuildComposed(profileFile, entries, files, mergeConf)

LEMMA DefaultRows == Defaults \in Seq(Row) /\ Contents \subseteq Seq(Row)
BY MappingsAssumption DEF MappingsAssumption

LEMMA LoadedRows ==
  ASSUME NEW f \in MappingFiles, NEW fs \in [MappingFiles -> Seq(Row)]
  PROVE  /\ LoadRows(f, fs) \in Seq(Row)
         /\ \/ f = StandardFile /\ fs[StandardFile] = <<>>
            \/ MapOf(LoadRows(f, fs)) = MapOf(fs[f])
BY DefaultRows DEF LoadRows

LEMMA MappingsInit_Inv ==
  ASSUME MappingsInit
  PROVE  MappingsInv
<1>1. StandardFile \in MappingFiles  BY DEF MappingFiles
<1>2. files \in [MappingFiles -> Seq(Row)] /\ profileFile \in MappingFiles
  BY <1>1, DefaultRows DEF MappingsInit
<1>3. entries \in Seq(Row) /\ ListKept
  BY <1>1, <1>2, LoadedRows DEF MappingsInit, ListKept
<1>4. SoundManifest(mergeConf)
  <2>1. PICK m : m = mergeConf  OBVIOUS
  <2>2. \A i \in Inputs : m.order[i] = <<>>
    BY <2>1 DEF MappingsInit, NoMerge, NoOrder, Manifest
  <2>3. m \in ManifestType
    <3>1. NoOrder \in [Inputs -> Seq(Variants)]  BY DEF NoOrder
    <3>2. CASE m = NoMerge  BY <3>1, <3>2 DEF NoMerge, Manifest, ManifestType
    <3>3. ASSUME NEW f \in ProfileFiles, m = Manifest(StandardFile, <<f>>, NoOrder)
          PROVE  m \in ManifestType
      <4>1. <<f>> \in Seq(MappingFiles)  BY DEF MappingFiles
      <4> QED BY <1>1, <3>1, <3>3, <4>1 DEF Manifest, ManifestType
    <3> QED BY <2>1, <3>2, <3>3 DEF MappingsInit
  <2>4. IsInjective(m.sources)
    BY <2>1 DEF MappingsInit, NoMerge, Manifest, IsInjective
  <2>5. IsInjective(Refs(m))  BY <2>3, <2>4, RefsIs
  <2>6. Ordered(m)  BY <2>2 DEF Ordered, ToSet
  <2> QED BY <2>1, <2>3, <2>5, <2>6 DEF SoundManifest
<1> QED BY <1>2, <1>3, <1>4 DEF MappingsInit, MappingsInv

\* A step that refreshes the page has only to keep the files and the manifest sound.
LEMMA RefreshInv ==
  ASSUME Refresh,
         files' \in [MappingFiles -> Seq(Row)], entries' \in Seq(Row), profileFile' \in MappingFiles,
         saveState' \in {"loaded", "saved", "error"}, ListKept',
         SoundManifest(mergeConf'), merge' = mergeConf'
  PROVE  MappingsInv'
BY DEF Refresh, MappingsInv

\* A plain list has no composed row before the step, and none after it.
LEMMA PlainInv ==
  ASSUME MappingsInv, ~composing, UNCHANGED <<view, mergeConf, merge, profileFile>>,
         files' \in [MappingFiles -> Seq(Row)], entries' \in Seq(Row),
         saveState' \in {"loaded", "saved", "error"}, ListKept'
  PROVE  MappingsInv'
<1>1. mergeConf.base # profileFile  BY DEF MappingsInv
<1>2. RebuildComposed(profileFile', entries', files', mergeConf')
      = RebuildComposed(profileFile, entries, files, mergeConf)
  BY <1>1 DEF RebuildComposed
<1> QED BY <1>2 DEF MappingsInv, view

LEMMA SavedRows ==
  ASSUME MappingsInv, NEW rows \in Seq(Row), SaveRows(rows), profileFile' = profileFile
  PROVE  /\ files' \in [MappingFiles -> Seq(Row)] /\ entries' \in Seq(Row)
         /\ saveState' \in {"loaded", "saved", "error"} /\ ListKept'
<1>1. CASE saveState' = "saved" /\ files' = [files EXCEPT ![profileFile] = rows]
  <2>1. files' \in [MappingFiles -> Seq(Row)] /\ files'[profileFile] = rows
    BY <1>1 DEF MappingsInv
  <2> QED BY <1>1, <2>1 DEF SaveRows, ListKept
<1>2. CASE saveState' = "error" /\ UNCHANGED files
  BY <1>2 DEF SaveRows, MappingsInv, ListKept
<1> QED BY <1>1, <1>2 DEF SaveRows

LEMMA ListInv ==
  ASSUME MappingsInv, NEW rows \in Seq(Row), EditList(rows)
  PROVE  MappingsInv'
<1>1. /\ ~composing /\ SaveRows(rows) /\ profileFile' = profileFile
      /\ UNCHANGED <<view, mergeConf, merge, profileFile>>
  BY DEF EditList, Edit
<1> QED BY <1>1, SavedRows, PlainInv

-----------------------------------------------------------------------------
(* One lemma per group of steps *)

LEMMA ListStepInv ==
  ASSUME MappingsInv, ListStep
  PROVE  MappingsInv'
<1>1. entries \in Seq(Row) /\ Len(entries) \in Nat  BY DEF MappingsInv
<1> USE <1>1
<1>2. \A outs \in Outputs : outs \in Seq(Values)
  <2>1. \A n \in 1..MaxOuts : \A outs \in [1..n -> Values] : outs \in Seq(Values)
    OBVIOUS
  <2> QED BY <2>1 DEF Outputs
<1>3. ASSUME NEW i \in Inputs, NEW outs \in Outputs, AddMapping(i, outs) PROVE MappingsInv'
  <2>1. PICK row \in Row : row = [input |-> i, outs |-> outs]  BY <1>2 DEF Row
  <2>2. Append(entries, row) \in Seq(Row)  OBVIOUS
  <2> QED BY <1>3, <2>1, <2>2, ListInv DEF AddMapping
<1>4. ASSUME NEW row \in 1..Len(entries), RemoveMapping(row) PROVE MappingsInv'
  <2>1. RemoveAt(entries, row) \in Seq(Row)  BY RemoveAtIs
  <2> QED BY <1>4, <2>1, ListInv DEF RemoveMapping
<1>5. ASSUME NEW row \in 1..Len(entries), NEW i \in Inputs, NEW outs \in Outputs,
             UpdateMapping(row, i, outs)
      PROVE  MappingsInv'
  <2>1. PICK r \in Row : r = [input |-> i, outs |-> outs]  BY <1>2 DEF Row
  <2>2. [entries EXCEPT ![row] = r] \in Seq(Row)  OBVIOUS
  <2> QED BY <1>5, <2>1, <2>2, ListInv DEF UpdateMapping
<1>6. ASSUME NEW from \in 1..Len(entries), NEW to \in 1..Len(entries), MoveMapping(from, to)
      PROVE  MappingsInv'
  <2>1. /\ ~composing /\ entries' = Moved(from, to)
        /\ UNCHANGED <<view, mergeConf, merge, profileFile>> /\ UNCHANGED <<files, saveState>>
    BY <1>6 DEF MoveMapping, Edit
  <2>2. Moved(from, to) \in Seq(Row)  BY MovedKeepsMap
  <2>3. Single(entries') => Single(entries) /\ MapOf(entries') = MapOf(entries)
    BY <2>1, MovedKeepsMap
  <2>4. ListKept'
    <3>1. ListKept  BY DEF MappingsInv
    <3> QED BY <2>1, <2>3, <3>1 DEF ListKept
  <2>5. files' \in [MappingFiles -> Seq(Row)] /\ saveState' \in {"loaded", "saved", "error"}
    BY <2>1 DEF MappingsInv
  <2> QED BY <2>1, <2>2, <2>4, <2>5, PlainInv
<1>7. CASE PersistOrder
  BY <1>7, ListInv DEF PersistOrder
<1>8. ASSUME NEW i \in Inputs, NEW v \in Values, RemoveVariant(i, v) PROVE MappingsInv'
  <2>1. PICK row \in 1..Len(entries) : row = RowOf(entries, i)
    BY <1>8, RowIs DEF RemoveVariant
  <2>2. PICK outs \in Seq(Values) : outs = RemoveFirst(entries[row].outs, v)  BY OutsIs
  <2>3. [entries EXCEPT ![row].outs = outs] \in Seq(Row)  BY EditedRows
  <2>4. EditList([entries EXCEPT ![row].outs = outs])
    BY <1>8, <2>1, <2>2 DEF RemoveVariant
  <2> QED BY <2>3, <2>4, ListInv
<1>9. ASSUME NEW i \in Inputs, NEW outs \in Outputs, SetVariantOrder(i, outs) PROVE MappingsInv'
  <2>1. PICK row \in 1..Len(entries) : row = RowOf(entries, i)
    BY <1>9, RowIs DEF SetVariantOrder
  <2>2. [entries EXCEPT ![row].outs = outs] \in Seq(Row)  BY <1>2, EditedRows
  <2>3. EditList([entries EXCEPT ![row].outs = outs])
    BY <1>9, <2>1 DEF SetVariantOrder
  <2> QED BY <2>2, <2>3, ListInv
<1>10. ASSUME NEW i \in Inputs, NEW j \in Inputs, NEW v \in Values, MoveVariant(i, v, j)
       PROVE  MappingsInv'
  <2>1. PICK from \in 1..Len(entries) : from = LastRowOf(entries, i) /\ entries[from].input = i
    BY <1>10, LastRowIs DEF MoveVariant
  <2>2. PICK to \in 1..Len(entries) : to = LastRowOf(entries, j) /\ entries[to].input = j
    BY <1>10, LastRowIs DEF MoveVariant
  <2>3. from # to
    BY <1>10, <2>1, <2>2 DEF MoveVariant
  <2>4. PICK less \in Seq(Values) : less = RemoveFirst(entries[from].outs, v)  BY OutsIs
  <2>5. PICK more \in Seq(Values) : more = Append(entries[to].outs, v)  BY OutsIs
  <2>6. PICK half : half = [entries EXCEPT ![from].outs = less]  OBVIOUS
  <2>7. half \in Seq(Row) /\ Len(half) = Len(entries)  BY <2>6, EditedRows
  <2>8. [half EXCEPT ![to].outs = more] \in Seq(Row)  BY <2>7, EditedRows
  <2>9. half[to] = entries[to]  BY <2>3, <2>6
  <2>10. [entries EXCEPT ![from].outs = RemoveFirst(@, v), ![to].outs = Append(@, v)]
         = [half EXCEPT ![to].outs = more]
    BY <2>4, <2>5, <2>6, <2>9
  <2>11. EditList([half EXCEPT ![to].outs = more])
    BY <1>10, <2>1, <2>2, <2>10 DEF MoveVariant
  <2> QED BY <2>8, <2>11, ListInv
<1>11. ASSUME NEW f \in MappingFiles, SetProfileFile(f) PROVE MappingsInv'
  <2>1. files' \in [MappingFiles -> Seq(Row)] /\ SoundManifest(mergeConf') /\ merge' = mergeConf'
    BY <1>11 DEF SetProfileFile, MappingsInv
  <2>2. entries' \in Seq(Row) /\ ListKept'
    BY <1>11, <2>1, LoadedRows DEF SetProfileFile, ListKept, MappingsInv
  <2> QED BY <1>11, <2>1, <2>2, RefreshInv DEF SetProfileFile
<1> QED BY <1>3, <1>4, <1>5, <1>6, <1>7, <1>8, <1>9, <1>10, <1>11 DEF ListStep

LEMMA OriginInv ==
  ASSUME MappingsInv, NEW f \in MappingFiles, NEW rows \in Seq(Row), EditOrigin(f, rows)
  PROVE  MappingsInv'
<1>1. /\ manifest.base = profileFile /\ profileFile' = profileFile
      /\ SoundManifest(mergeConf') /\ merge' = mergeConf' /\ Refresh
      /\ profileFile' \in MappingFiles
  BY DEF EditOrigin, Edit, MappingsInv
<1>2. CASE f = manifest.base
  <2>1. SaveRows(rows)  BY <1>2 DEF EditOrigin
  <2> QED BY <1>1, <2>1, SavedRows, RefreshInv
<1>3. CASE f # manifest.base
  <2>1. files' = [files EXCEPT ![f] = rows] /\ UNCHANGED <<entries, saveState>>
    BY <1>3 DEF EditOrigin
  <2>2. files' \in [MappingFiles -> Seq(Row)] /\ files'[profileFile] = files[profileFile]
    BY <1>1, <1>3, <2>1 DEF MappingsInv
  <2>3. ListKept'  BY <1>1, <2>1, <2>2 DEF ListKept, MappingsInv
  <2> QED BY <1>1, <2>1, <2>2, <2>3, RefreshInv DEF MappingsInv
<1> QED BY <1>2, <1>3

LEMMA ComposedStepInv ==
  ASSUME MappingsInv, ComposedStep
  PROVE  MappingsInv'
<1>1. ASSUME NEW f \in MappingFiles PROVE Origin(f) \in Seq(Row)
  BY DEF Origin, MappingsInv
<1>2. ASSUME NEW i \in Inputs, NEW v \in Values, NEW f \in MappingFiles,
             RemoveComposedVariant(i, v, f)
      PROVE  MappingsInv'
  <2>1. Taken(Origin(f), i, v) \in Seq(Row)
    BY <1>1, <1>2, TakenRows DEF RemoveComposedVariant
  <2> QED BY <1>2, <2>1, OriginInv DEF RemoveComposedVariant
<1>3. ASSUME NEW i \in Inputs, NEW j \in Inputs, NEW v \in Values, NEW f \in MappingFiles,
             MoveComposedVariant(i, v, f, j)
      PROVE  MappingsInv'
  <2>1. Taken(Origin(f), i, v) \in Seq(Row)
    BY <1>1, <1>3, TakenRows DEF MoveComposedVariant
  <2>2. Given(Taken(Origin(f), i, v), j, v) \in Seq(Row)  BY <2>1, GivenRows
  <2> QED BY <1>3, <2>2, OriginInv DEF MoveComposedVariant
<1> QED BY <1>2, <1>3 DEF ComposedStep

LEMMA SavedManifest ==
  ASSUME MappingsInv, NEW m, SoundManifest(m), m.base = NoFile => m = NoMerge, SaveManifest(m)
  PROVE  SoundManifest(mergeConf') /\ merge' = mergeConf'
BY DEF SaveManifest, MappingsInv

LEMMA ManifestStepInv ==
  ASSUME MappingsInv, ManifestStep
  PROVE  MappingsInv'
<1>1. /\ merge \in ManifestType /\ SoundManifest(merge)
      /\ Refs(merge) \in Seq(MappingFiles) /\ IsInjective(Refs(merge))
  BY RefsIs DEF MappingsInv, SoundManifest
<1>2. ASSUME NEW m, SoundManifest(m), m.base = NoFile => m = NoMerge, EditManifest(m)
      PROVE  MappingsInv'
  <2>1. SaveManifest(m) /\ UNCHANGED <<files, profileFile, entries, saveState>> /\ Refresh
    BY <1>2 DEF EditManifest
  <2>2. SoundManifest(mergeConf') /\ merge' = mergeConf'  BY <1>2, <2>1, SavedManifest
  <2>3. ListKept'  BY <2>1 DEF ListKept, MappingsInv
  <2> QED BY <2>1, <2>2, <2>3, RefreshInv DEF MappingsInv
<1>3. ASSUME NEW refs \in Seq(MappingFiles), IsInjective(refs)
      PROVE  /\ SoundManifest(Combined(refs))
             /\ Combined(refs).base = NoFile => Combined(refs) = NoMerge
  BY <1>1, <1>3, CombinedSound, MappingsAssumption
<1>4. ASSUME NEW f \in MappingFiles
      PROVE  RemoveFirst(Refs(merge), f) \in Seq(MappingFiles)
             /\ IsInjective(RemoveFirst(Refs(merge), f))
  BY <1>1, RemoveFirstIs, RemoveFirstInjective
<1>5. ASSUME NEW f \in MappingFiles, ToggleMerge(f) PROVE MappingsInv'
  <2>1. PICK refs : refs = IF f \in ToSet(Refs(merge)) THEN RemoveFirst(Refs(merge), f)
                           ELSE Append(Refs(merge), f)
    OBVIOUS
  <2>2. refs \in Seq(MappingFiles) /\ IsInjective(refs)
    <3>1. CASE f \in ToSet(Refs(merge))  BY <1>4, <2>1, <3>1
    <3>2. CASE f \notin ToSet(Refs(merge))  BY <1>1, <2>1, <3>2, AppendOnce
    <3> QED BY <3>1, <3>2
  <2>3. EditManifest(Combined(refs))  BY <1>5, <2>1 DEF ToggleMerge
  <2> QED BY <1>2, <1>3, <2>2, <2>3
<1>6. ASSUME NEW i \in Inputs, NEW order \in Arrangements(displayRows[i]),
             SetOrderOverride(i, order)
      PROVE  MappingsInv'
  <2> DEFINE V == [value: Values, ref: ToSet(Refs(merge))]
  <2>1. displayRows[i] \in Seq(V)
    <3>1. displayRows \in [Inputs -> Seq(V)]  BY RebuildType DEF MappingsInv, SoundManifest
    <3> HIDE DEF V
    <3> QED BY <3>1
  <2>2. order \in Seq(V)
    <3> HIDE DEF V
    <3> QED BY <2>1, ArrangementIs
  <2>3. \A v \in ToSet(order) : v.ref \in ToSet(Refs(merge))
    <3>1. \A v \in V : v.ref \in ToSet(Refs(merge))  OBVIOUS
    <3> HIDE DEF V
    <3>2. \A v \in ToSet(order) : v \in V  BY <2>2 DEF ToSet
    <3> QED BY <3>1, <3>2
  <2>4. order \in Seq(Variants)
    <3>1. ToSet(Refs(merge)) \subseteq MappingFiles  BY <1>1 DEF ToSet
    <3>2. \A v \in V : v \in Variants  BY <3>1 DEF Variants
    <3> HIDE DEF V
    <3> QED BY <2>2, <3>2
  <2>5. PICK m : m = [merge EXCEPT !.order[i] = order]  OBVIOUS
  <2>6. /\ m \in ManifestType /\ m.base = merge.base /\ m.sources = merge.sources
        /\ \A k \in Inputs : m.order[k] = IF k = i THEN order ELSE merge.order[k]
    BY <1>1, <2>4, <2>5 DEF ManifestType
  <2>7. Refs(m) = Refs(merge)  BY <2>6 DEF Refs
  <2>8. Ordered(m)  BY <1>1, <2>3, <2>6, <2>7 DEF Ordered, SoundManifest
  <2>9. SoundManifest(m)  BY <1>1, <2>6, <2>7, <2>8 DEF SoundManifest
  <2>10. m.base # NoFile
    BY <1>6, <2>6, MappingsAssumption DEF SetOrderOverride, MappingsInv, MappingsAssumption
  <2>11. EditManifest(m)  BY <1>6, <2>5 DEF SetOrderOverride
  <2> QED BY <1>2, <2>9, <2>10, <2>11
<1>7. ASSUME NEW f \in ProfileFiles, NEW g \in MappingFiles, ProfileRemoved(f, g)
      PROVE  MappingsInv'
  <2>1. f \in MappingFiles  BY DEF MappingFiles
  <2>2. files' \in [MappingFiles -> Seq(Row)]
    <3>1. <<>> \in Seq(Row)  OBVIOUS
    <3> QED BY <1>7, <2>1, <3>1 DEF ProfileRemoved, MappingsInv
  <2>3. SoundManifest(mergeConf') /\ merge' = mergeConf'
    <3>1. CASE f \in ToSet(Refs(merge))
      <4>1. PICK m : m = Combined(RemoveFirst(Refs(merge), f))  OBVIOUS
      <4>2. SoundManifest(m) /\ (m.base = NoFile => m = NoMerge)  BY <1>3, <1>4, <2>1, <4>1
      <4>3. SaveManifest(m)  BY <1>7, <3>1, <4>1 DEF ProfileRemoved
      <4> QED BY <4>2, <4>3, SavedManifest
    <3>2. CASE f \notin ToSet(Refs(merge))
      BY <1>7, <3>2 DEF ProfileRemoved, MappingsInv
    <3> QED BY <3>1, <3>2
  <2>4. /\ entries' \in Seq(Row) /\ profileFile' \in MappingFiles /\ ListKept'
        /\ saveState' \in {"loaded", "saved", "error"}
    <3>1. CASE profileFile = f
      <4>1. profileFile' = g /\ entries' = LoadRows(g, files') /\ saveState' = "loaded"
        BY <1>7, <3>1 DEF ProfileRemoved
      <4> QED BY <2>2, <4>1, LoadedRows DEF ListKept
    <3>2. CASE profileFile # f
      <4>1. UNCHANGED <<profileFile, entries, saveState>> /\ files' = [files EXCEPT ![f] = <<>>]
        BY <1>7, <3>2 DEF ProfileRemoved
      <4>2. files'[profileFile] = files[profileFile]
        BY <3>2, <4>1 DEF MappingsInv
      <4> QED BY <4>1, <4>2 DEF ListKept, MappingsInv
    <3> QED BY <3>1, <3>2
  <2>5. Refresh  BY <1>7 DEF ProfileRemoved
  <2> QED BY <2>2, <2>3, <2>4, <2>5, RefreshInv
<1> QED BY <1>5, <1>6, <1>7 DEF ManifestStep

-----------------------------------------------------------------------------
(* What the invariant says of the page *)

LEMMA ShownIsRuntimeFollows ==
  ASSUME MappingsInv
  PROVE  ShownIsRuntime
<1> SUFFICES ASSUME saveState # "error", Single(entries), MapOf(files[StandardFile]) # NoMap
             PROVE  Shown = RuntimeMap(profileFile)
  BY DEF ShownIsRuntime
<1>1. \A f : LoadMappings(f) = MapOf(files[f])
  BY DEF LoadMappings
<1>2. MapOf(entries) = MapOf(files[profileFile]) /\ OwnMap(entries) = MapOf(entries)
  <2>1. MapOf(<<>>) = NoMap
    <3>1. \A i \in Inputs : RowsOf(<<>>, i) = {}  BY DEF RowsOf
    <3> QED BY <3>1 DEF MapOf, NoMap, OutsOf
  <2>2. entries \in SingleRows  BY DEF MappingsInv, SingleRows
  <2> QED BY <2>1, <2>2, OwnIsMap DEF MappingsInv, ListKept
<1>3. CASE mergeConf.base # profileFile
  BY <1>1, <1>2, <1>3 DEF MappingsInv, Shown, RuntimeMap
<1>4. CASE mergeConf.base = profileFile
  <2>1. mergeConf \in ManifestType /\ mergeConf.base # NoFile
    BY <1>4, MappingsAssumption DEF MappingsInv, SoundManifest, MappingsAssumption
  <2>2. PICK refs : refs = Refs(mergeConf)  OBVIOUS
  <2>3. refs[1] = profileFile  BY <1>4, <2>1, <2>2, RefsIs
  <2>4. \A k \in 1..Len(refs) : LoadMappings(refs[k])
          = IF k = 1 THEN OwnMap(entries) ELSE LoadProfileMap(refs[k], files)
    BY <1>1, <1>2, <2>3 DEF LoadProfileMap
  <2>5. [k \in 1..Len(refs) |-> LoadMappings(refs[k])]
        = [k \in 1..Len(refs) |-> IF k = 1 THEN OwnMap(entries) ELSE LoadProfileMap(refs[k], files)]
    BY <2>4
  <2>6. displayRows = Compose(refs, [k \in 1..Len(refs) |-> LoadMappings(refs[k])], mergeConf.order)
    BY <1>4, <2>2, <2>5 DEF MappingsInv, RebuildComposed
  <2>7. Shown = ProjectValues(displayRows)  BY <1>4 DEF MappingsInv, Shown
  <2> QED BY <1>4, <2>2, <2>6, <2>7 DEF RuntimeMap
<1> QED BY <1>3, <1>4

LEMMA MappingsTypeFollows ==
  ASSUME MappingsInv
  PROVE  MappingsTypeOK
<1>1. mergeConf \in ManifestType  BY DEF MappingsInv, SoundManifest
<1>2. IsManifest(mergeConf)  BY <1>1 DEF IsManifest, ManifestType
<1>3. displayRows \in [Inputs -> Seq(Variants)]
  <2> DEFINE V == [value: Values, ref: ToSet(Refs(mergeConf))]
  <2>1. displayRows \in [Inputs -> Seq(V)]  BY <1>1, RebuildType DEF MappingsInv
  <2>2. Refs(mergeConf) \in Seq(MappingFiles)  BY <1>1, RefsIs
  <2>3. ToSet(Refs(mergeConf)) \subseteq MappingFiles  BY <2>2 DEF ToSet
  <2>4. \A v \in V : v \in Variants  BY <2>3 DEF Variants
  <2> HIDE DEF V
  <2>5. \A s \in Seq(V) : s \in Seq(Variants)  BY <2>4
  <2> QED BY <2>1, <2>5
<1>4. composing \in BOOLEAN  BY DEF MappingsInv
<1> QED BY <1>2, <1>3, <1>4 DEF MappingsInv, MappingsTypeOK

-----------------------------------------------------------------------------
(* The theorems *)

\* The invariant holds from the start, whatever step is taken.
THEOREM MappingsInvariant == MappingsSpec => []MappingsInv
<1>1. MappingsInit => MappingsInv  BY MappingsInit_Inv
<1>2. MappingsInv /\ [MappingsNext]_mappingVars => MappingsInv'
  <2> SUFFICES ASSUME MappingsInv, [MappingsNext]_mappingVars PROVE MappingsInv'  OBVIOUS
  <2>1. CASE MappingsNext
    BY <2>1, ListStepInv, ComposedStepInv, ManifestStepInv DEF MappingsNext
  <2>2. CASE UNCHANGED mappingVars
    BY <2>2 DEF mappingVars, MappingsInv, ListKept
  <2> QED BY <2>1, <2>2
<1> QED BY <1>1, <1>2, PTL DEF MappingsSpec

\* The list and the files hold rows and the manifest names profiles, whatever is added,
\* removed, dragged, composed or lost by a failed save.
THEOREM MappingsTypeCorrect == MappingsSpec => []MappingsTypeOK
<1>1. MappingsInv => MappingsTypeOK  BY MappingsTypeFollows
<1> QED BY <1>1, MappingsInvariant, PTL

\* What the page shows for the edited profile, plain or composed, is what the engine
\* builds from the files as long as the list is saved and has no input on two rows; the
\* three copies of the manifest agree and its orders name combined profiles only.
THEOREM PageStaysTrue == MappingsSpec => []PageIsTrue
<1>1. MappingsInv => PageIsTrue
  BY ShownIsRuntimeFollows DEF PageIsTrue, ManifestsAgree, MappingsInv, SoundManifest, Ordered
<1> QED BY <1>1, MappingsInvariant, PTL

-----------------------------------------------------------------------------
(* Drags of variants *)

\* A map after one edit: the row of an input is replaced, removed or added.
Replaced(rows, k, outs) == [rows EXCEPT ![k].outs = outs]
LEMMA ReplacedMap ==
  ASSUME NEW rows \in SingleRows, NEW k \in 1..Len(rows), NEW outs \in Seq(Values)
  PROVE  MapOf(Replaced(rows, k, outs)) = [MapOf(rows) EXCEPT ![rows[k].input] = outs]
<1> DEFINE new == [rows EXCEPT ![k].outs = outs]
<1>1. rows \in Seq(Row) /\ \A l \in 1..Len(rows) : rows[l] \in Row  BY DEF SingleRows
<1>2. new \in SingleRows /\ Len(new) = Len(rows)  BY ReplaceOuts
<1>3. \A l \in 1..Len(rows) : /\ new[l].input = rows[l].input
                              /\ new[l].outs = IF l = k THEN outs ELSE rows[l].outs
  BY <1>1 DEF Row
<1>4. \A a, b \in 1..Len(rows) : rows[a].input = rows[b].input => a = b
  BY DEF SingleRows, Single
<1> HIDE DEF new
<1>5. ASSUME NEW i \in Inputs
      PROVE  MapOf(new)[i] = IF i = rows[k].input THEN outs ELSE MapOf(rows)[i]
  <2>1. CASE \E l \in 1..Len(rows) : rows[l].input = i
    <3>1. PICK l \in 1..Len(rows) : rows[l].input = i  BY <2>1
    <3>2. MapOf(rows)[i] = rows[l].outs  BY <3>1, MapIs
    <3>3. MapOf(new)[i] = new[l].outs  BY <1>2, <1>3, <3>1, MapIs
    <3>4. l = k <=> i = rows[k].input  BY <1>4, <3>1
    <3> QED BY <1>3, <3>2, <3>3, <3>4
  <2>2. CASE \A l \in 1..Len(rows) : rows[l].input # i
    <3>1. MapOf(rows)[i] = <<>>  BY <2>2, MapIs
    <3>2. MapOf(new)[i] = <<>>  BY <1>2, <1>3, <2>2, MapIs
    <3> QED BY <2>2, <3>1, <3>2
  <2> QED BY <2>1, <2>2
<1>6. MapOf(rows) \in [Inputs -> Seq(Values)] /\ MapOf(new) \in [Inputs -> Seq(Values)]
  BY <1>2, OwnIsMap
<1> QED BY <1>5, <1>6 DEF new, Replaced

LEMMA RemovedMap ==
  ASSUME NEW rows \in SingleRows, NEW k \in 1..Len(rows)
  PROVE  MapOf(RemoveAt(rows, k)) = [MapOf(rows) EXCEPT ![rows[k].input] = <<>>]
<1>1. PICK new : new = RemoveAt(rows, k)  OBVIOUS
<1>2. /\ rows \in Seq(Row) /\ Len(rows) \in Nat  BY DEF SingleRows
<1>3. /\ Len(new) = Len(rows) - 1
      /\ \A j \in 1 .. Len(rows) - 1 : new[j] = rows[IF j < k THEN j ELSE j + 1]
  BY <1>1, <1>2, RemoveAtIs
<1>4. new \in SingleRows /\ \A j \in 1..Len(new) : new[j].input # rows[k].input
  BY <1>1, RemoveRow
<1>5. \A j \in 1..Len(new) : \E l \in 1..Len(rows) : new[j] = rows[l]
  BY <1>2, <1>3
<1>6. ASSUME NEW l \in 1..Len(rows), l # k
      PROVE  \E j \in 1..Len(new) : new[j] = rows[l]
  <2> DEFINE j == IF l < k THEN l ELSE l - 1
  <2>1. j \in 1 .. Len(rows) - 1 /\ l = IF j < k THEN j ELSE j + 1  BY <1>2, <1>6
  <2> HIDE DEF j
  <2> QED BY <1>3, <2>1
<1>7. ASSUME NEW i \in Inputs
      PROVE  MapOf(new)[i] = IF i = rows[k].input THEN <<>> ELSE MapOf(rows)[i]
  <2>1. CASE i = rows[k].input  BY <1>4, <2>1, MapIs
  <2>2. CASE i # rows[k].input /\ \E l \in 1..Len(rows) : rows[l].input = i
    <3>1. PICK l \in 1..Len(rows) : rows[l].input = i  BY <2>2
    <3>2. PICK j \in 1..Len(new) : new[j] = rows[l]  BY <1>6, <2>2, <3>1
    <3> QED BY <1>4, <2>2, <3>1, <3>2, MapIs
  <2>3. CASE \A l \in 1..Len(rows) : rows[l].input # i
    <3>1. \A j \in 1..Len(new) : new[j].input # i  BY <1>5, <2>3
    <3>2. MapOf(new)[i] = <<>>  BY <1>4, <3>1, MapIs
    <3>3. MapOf(rows)[i] = <<>>  BY <2>3, MapIs
    <3> QED BY <3>2, <3>3
  <2> QED BY <2>1, <2>2, <2>3
<1>8. MapOf(rows) \in [Inputs -> Seq(Values)] /\ MapOf(new) \in [Inputs -> Seq(Values)]
  BY <1>4, OwnIsMap
<1> QED BY <1>1, <1>7, <1>8

LEMMA AppendedMap ==
  ASSUME NEW rows \in SingleRows, NEW row \in Row, \A k \in 1..Len(rows) : rows[k].input # row.input
  PROVE  MapOf(Append(rows, row)) = [MapOf(rows) EXCEPT ![row.input] = row.outs]
<1>1. PICK new : new = Append(rows, row)  OBVIOUS
<1>2. rows \in Seq(Row) /\ Len(rows) \in Nat  BY DEF SingleRows
<1>3. /\ Len(new) = Len(rows) + 1 /\ new[Len(rows) + 1] = row
      /\ \A k \in 1..Len(rows) : new[k] = rows[k] /\ k \in 1..Len(new)
      /\ Len(rows) + 1 \in 1..Len(new)
      /\ \A k \in 1..Len(new) : k \in 1..Len(rows) \/ k = Len(rows) + 1
  BY <1>1, <1>2
<1>4. new \in SingleRows  BY <1>1, AppendRow
<1>5. ASSUME NEW i \in Inputs
      PROVE  MapOf(new)[i] = IF i = row.input THEN row.outs ELSE MapOf(rows)[i]
  <2>1. CASE i = row.input  BY <1>3, <1>4, <2>1, MapIs
  <2>2. CASE i # row.input /\ \E l \in 1..Len(rows) : rows[l].input = i
    <3>1. PICK l \in 1..Len(rows) : rows[l].input = i  BY <2>2
    <3> QED BY <1>3, <1>4, <2>2, <3>1, MapIs
  <2>3. CASE i # row.input /\ \A l \in 1..Len(rows) : rows[l].input # i
    <3>1. \A j \in 1..Len(new) : new[j].input # i  BY <1>3, <2>3
    <3>2. MapOf(new)[i] = <<>>  BY <1>4, <3>1, MapIs
    <3>3. MapOf(rows)[i] = <<>>  BY <2>3, MapIs
    <3> QED BY <2>3, <3>2, <3>3
  <2> QED BY <2>1, <2>2, <2>3
<1>6. MapOf(rows) \in [Inputs -> Seq(Values)] /\ MapOf(new) \in [Inputs -> Seq(Values)]
  BY <1>4, OwnIsMap
<1> QED BY <1>1, <1>5, <1>6

\* What a composed chip takes and gives, in the map.
LEMMA TakenMap ==
  ASSUME NEW rows \in SingleRows, NEW i \in Inputs, NEW v \in Values, Holds(rows, i, v)
  PROVE  /\ MapOf(Taken(rows, i, v)) = [MapOf(rows) EXCEPT ![i] = RemoveFirst(@, v)]
         /\ v \in ToSet(MapOf(rows)[i])
<1>1. PICK k : k = RowOf(rows, i) /\ k \in 1..Len(rows) /\ rows[k].input = i
  <2>1. rows \in Seq(Row) /\ RowOf(rows, i) # 0  BY DEF SingleRows, Holds
  <2> QED BY <2>1, RowIs
<1>2. PICK outs \in Seq(Values) : outs = RemoveFirst(rows[k].outs, v)
  BY <1>1, OutsIs DEF SingleRows
<1>3. MapOf(rows)[i] = rows[k].outs /\ v \in ToSet(rows[k].outs)
  BY <1>1, MapIs DEF Holds
<1>4. Taken(rows, i, v) = IF outs = <<>> THEN RemoveAt(rows, k) ELSE Replaced(rows, k, outs)
  BY <1>1, <1>2 DEF Taken, Replaced
<1>5. MapOf(Taken(rows, i, v)) = [MapOf(rows) EXCEPT ![i] = outs]
  <2>1. CASE outs = <<>>  BY <1>1, <1>4, <2>1, RemovedMap
  <2>2. CASE outs # <<>>  BY <1>1, <1>4, <2>2, ReplacedMap
  <2> QED BY <2>1, <2>2
<1> QED BY <1>2, <1>3, <1>5

LEMMA GivenMap ==
  ASSUME NEW rows \in SingleRows, NEW j \in Inputs, NEW v \in Values
  PROVE  MapOf(Given(rows, j, v)) = [MapOf(rows) EXCEPT ![j] = Append(@, v)]
<1>1. PICK k : k = RowOf(rows, j)  OBVIOUS
<1>2. rows \in Seq(Row)  BY DEF SingleRows
<1>3. CASE k = 0
  <2>1. \A l \in 1..Len(rows) : rows[l].input # j  BY <1>1, <1>2, <1>3, RowIs
  <2> DEFINE row == [input |-> j, outs |-> <<v>>]
  <2>2. row \in Row /\ row.input = j /\ row.outs = <<v>>  BY DEF Row
  <2>3. Given(rows, j, v) = Append(rows, row)  BY <1>1, <1>3 DEF Given
  <2>4. MapOf(rows)[j] = <<>>  BY <2>1, MapIs
  <2>5. Append(<<>>, v) = <<v>>  OBVIOUS
  <2> HIDE DEF row
  <2>6. MapOf(Append(rows, row)) = [MapOf(rows) EXCEPT ![j] = <<v>>]
    BY <2>1, <2>2, AppendedMap
  <2> QED BY <2>3, <2>4, <2>5, <2>6
<1>4. CASE k # 0
  <2>1. k \in 1..Len(rows) /\ rows[k].input = j  BY <1>1, <1>2, <1>4, RowIs
  <2>2. PICK outs \in Seq(Values) : outs = Append(rows[k].outs, v)  BY <1>2, <2>1, OutsIs
  <2>3. Given(rows, j, v) = Replaced(rows, k, outs)  BY <1>1, <1>4, <2>2 DEF Given, Replaced
  <2>4. MapOf(rows)[j] = rows[k].outs  BY <2>1, MapIs
  <2>5. MapOf(Replaced(rows, k, outs)) = [MapOf(rows) EXCEPT ![j] = outs]
    BY <2>1, ReplacedMap
  <2> QED BY <2>2, <2>3, <2>4, <2>5
<1> QED BY <1>3, <1>4

\* The places of a map that hold a variant.  One map rearranges another if its places
\* correspond to the other's, each with the same variant.
Sites(a) == {p \in Inputs \X Nat : p[2] \in DOMAIN a[p[1]]}
Keeps(g, b, a) == \A p \in Sites(b) : a[g[p][1]][g[p][2]] = b[p[1]][p[2]]
Rearranges(b, a) == \E g \in Bijection(Sites(b), Sites(a)) : Keeps(g, b, a)

LEMMA StockedIs ==
  ASSUME NEW fs \in [MappingFiles -> SingleRows], NEW v \in Values
  PROVE  /\ Stocked(fs, v) = {x \in MappingFiles \X Inputs \X Nat :
               /\ x[3] \in DOMAIN MapOf(fs[x[1]])[x[2]]
               /\ MapOf(fs[x[1]])[x[2]][x[3]] = v}
         /\ IsFiniteSet(Stocked(fs, v))
<1> DEFINE share(f, i) == {<<f, i, k>> : k \in Spots(MapOf(fs[f])[i], v)}
           F == MappingFiles \X Inputs
           parts == {share(f, i) : f \in MappingFiles, i \in Inputs}
<1>1. ASSUME NEW f \in MappingFiles, NEW i \in Inputs
      PROVE  /\ Spots(MapOf(fs[f])[i], v) \subseteq Nat
             /\ IsFiniteSet(Spots(MapOf(fs[f])[i], v))
  <2>1. PICK s \in Seq(Values) : s = MapOf(fs[f])[i]  BY MapIs
  <2>2. 1 \in Int /\ Len(s) \in Int  OBVIOUS
  <2>3. IsFiniteSet(1..Len(s))  BY <2>2, FS_Interval
  <2>4. Spots(s, v) \in SUBSET (1..Len(s)) /\ 1..Len(s) \subseteq Nat  BY DEF Spots
  <2> QED BY <2>1, <2>3, <2>4, FS_Subset
<1>2. Stocked(fs, v) = UNION parts  BY DEF Stocked
<1>3. ASSUME NEW f \in MappingFiles, NEW i \in Inputs PROVE IsFiniteSet(share(f, i))
  <2> DEFINE S == Spots(MapOf(fs[f])[i], v)
             c == [k \in S |-> <<f, i, k>>]
  <2>1. c \in Surjection(S, share(f, i))
    <3>1. \A k \in S : c[k] \in share(f, i)  OBVIOUS
    <3>2. \A q \in share(f, i) : \E k \in S : c[k] = q  OBVIOUS
    <3>3. c \in [S -> share(f, i)]  BY <3>1
    <3> HIDE DEF S, share, c
    <3> QED BY <3>2, <3>3 DEF Surjection
  <2>2. IsFiniteSet(S)  BY <1>1
  <2> HIDE DEF S, c, share
  <2> QED BY <2>1, <2>2, FS_Surjection
<1>4. IsFiniteSet(parts)
  <2> DEFINE c == [p \in F |-> share(p[1], p[2])]
  <2>1. IsFiniteSet(F)
    <3>1. IsFiniteSet(MappingFiles)
      <4>1. MappingFiles = ProfileFiles \cup {StandardFile}  BY DEF MappingFiles
      <4> QED BY <4>1, FiniteFolder, FS_AddElement DEF FiniteFolder
    <3> QED BY <3>1, FiniteFolder, FS_Product DEF FiniteFolder
  <2> HIDE DEF share
  <2>2. \A p \in F : p[1] \in MappingFiles /\ p[2] \in Inputs  OBVIOUS
  <2>3. ASSUME NEW q \in parts PROVE \E p \in F : c[p] = q
    <3>1. PICK f \in MappingFiles, i \in Inputs : q = share(f, i)  OBVIOUS
    <3>2. <<f, i>> \in F /\ c[<<f, i>>] = q  BY <3>1
    <3> QED BY <3>2
  <2>4. c \in [F -> parts]  BY <2>2
  <2> HIDE DEF c, F, parts
  <2>5. c \in Surjection(F, parts)  BY <2>3, <2>4 DEF Surjection
  <2> QED BY <2>1, <2>5, FS_Surjection
<1>5. IsFiniteSet(UNION parts)
  <2>1. \A q \in parts : IsFiniteSet(q)  BY <1>3
  <2> HIDE DEF parts
  <2> QED BY <1>4, <2>1, FS_UNION
<1>6. ASSUME NEW x
      PROVE  x \in UNION parts <=>
               /\ x \in MappingFiles \X Inputs \X Nat
               /\ x[3] \in Spots(MapOf(fs[x[1]])[x[2]], v)
  <2>1. ASSUME x \in UNION parts
        PROVE  x \in MappingFiles \X Inputs \X Nat /\ x[3] \in Spots(MapOf(fs[x[1]])[x[2]], v)
    <3>1. PICK f \in MappingFiles, i \in Inputs : x \in share(f, i)  BY <2>1
    <3>2. PICK k \in Spots(MapOf(fs[f])[i], v) : x = <<f, i, k>>  BY <3>1
    <3>3. k \in Nat  BY <1>1
    <3>4. x[1] = f /\ x[2] = i /\ x[3] = k  BY <3>2
    <3> QED BY <3>2, <3>3, <3>4
  <2>2. ASSUME x \in MappingFiles \X Inputs \X Nat, x[3] \in Spots(MapOf(fs[x[1]])[x[2]], v)
        PROVE  x \in UNION parts
    <3>1. PICK f \in MappingFiles, i \in Inputs, k \in Nat : x = <<f, i, k>>  BY <2>2
    <3>2. x[1] = f /\ x[2] = i /\ x[3] = k  BY <3>1
    <3>3. k \in Spots(MapOf(fs[f])[i], v)  BY <2>2, <3>2
    <3>4. x \in share(f, i)  BY <3>1, <3>3
    <3> HIDE DEF share
    <3> QED BY <3>4
  <2> QED BY <2>1, <2>2
<1> HIDE DEF parts
<1> QED BY <1>2, <1>5, <1>6 DEF Spots

\* So a rearrangement in one file leaves the stock as it is.
LEMMA RearrangedStock ==
  ASSUME NEW fs \in [MappingFiles -> SingleRows], NEW new \in [MappingFiles -> SingleRows],
         NEW f \in MappingFiles, \A q \in MappingFiles : q # f => new[q] = fs[q],
         Rearranges(MapOf(new[f]), MapOf(fs[f]))
  PROVE  Stock(new) = Stock(fs)
<1> DEFINE a == MapOf(fs[f])
           b == MapOf(new[f])
           Held(m, v) == {x \in MappingFiles \X Inputs \X Nat :
                            x[3] \in DOMAIN MapOf(m[x[1]])[x[2]] /\ MapOf(m[x[1]])[x[2]][x[3]] = v}
<1>1. PICK g \in Bijection(Sites(b), Sites(a)) : Keeps(g, b, a)  BY DEF Rearranges
<1>2. /\ g \in [Sites(b) -> Sites(a)]
      /\ \A p, q \in Sites(b) : g[p] = g[q] => p = q
      /\ \A q \in Sites(a) : \E p \in Sites(b) : g[p] = q
  BY DEF Bijection, Injection, Surjection, IsInjective
<1>3. ASSUME NEW v \in Values PROVE Cardinality(Stocked(new, v)) = Cardinality(Stocked(fs, v))
  <2> DEFINE S == Held(fs, v)
             T == Held(new, v)
             h == [x \in T |-> IF x[1] = f THEN <<f, g[<<x[2], x[3]>>][1], g[<<x[2], x[3]>>][2]>>
                               ELSE x]
  <2>1. Stocked(fs, v) = S /\ Stocked(new, v) = T /\ IsFiniteSet(T)
    BY StockedIs
  <2>2. \A x \in T : x[1] = f => <<x[2], x[3]>> \in Sites(b) /\ b[x[2]][x[3]] = v
    BY DEF Sites
  <2>3. ASSUME NEW x \in T, x[1] = f
        PROVE  /\ g[<<x[2], x[3]>>] \in Sites(a)
               /\ a[g[<<x[2], x[3]>>][1]][g[<<x[2], x[3]>>][2]] = v
    BY <1>1, <1>2, <2>2, <2>3 DEF Keeps
  <2>4. \A p \in Sites(a) : a[p[1]][p[2]] = v => <<f, p[1], p[2]>> \in S
    BY DEF Sites
  <2>5. \A x \in T : x[1] # f => x \in S  OBVIOUS
  <2>6. \A x \in S : x[1] # f => x \in T  OBVIOUS
  <2>7. h \in [T -> S]  BY <2>3, <2>4, <2>5
  <2>8. \A x \in T : /\ x[1] # f => h[x] = x
                     /\ x[1] = f => /\ h[x][1] = f /\ h[x][2] = g[<<x[2], x[3]>>][1]
                                    /\ h[x][3] = g[<<x[2], x[3]>>][2]
    OBVIOUS
  <2>9. ASSUME NEW x \in T, NEW y \in T, h[x] = h[y] PROVE x = y
    <3> HIDE DEF h, a, b
    <3>1. CASE x[1] # f \/ y[1] # f
      <4>1. h[x][1] = f <=> x[1] = f  BY <2>8
      <4>2. h[y][1] = f <=> y[1] = f  BY <2>8
      <4> QED BY <2>8, <2>9, <3>1, <4>1, <4>2
    <3>2. CASE x[1] = f /\ y[1] = f
      <4> DEFINE p == <<x[2], x[3]>>
                 q == <<y[2], y[3]>>
      <4>1. p \in Sites(b) /\ q \in Sites(b)  BY <2>2, <3>2
      <4>2. g[p][1] = g[q][1] /\ g[p][2] = g[q][2]  BY <2>8, <2>9, <3>2
      <4>3. g[p] \in Inputs \X Nat /\ g[q] \in Inputs \X Nat
        BY <1>2, <4>1 DEF Sites
      <4>4. g[p] = g[q]  BY <4>2, <4>3
      <4>5. p = q  BY <1>2, <4>1, <4>4
      <4>6. x[2] = y[2] /\ x[3] = y[3]  BY <4>5
      <4> QED BY <3>2, <4>6
    <3> QED BY <3>1, <3>2
  <2>10. ASSUME NEW y \in S PROVE \E x \in T : h[x] = y
    <3>1. CASE y[1] # f
      <4>1. y \in T  BY <2>6, <3>1
      <4> QED BY <2>8, <3>1, <4>1
    <3>2. CASE y[1] = f
      <4> DEFINE q == <<y[2], y[3]>>
      <4>1. q \in Sites(a) /\ a[y[2]][y[3]] = v  BY <3>2 DEF Sites
      <4>2. PICK p \in Sites(b) : g[p] = q  BY <1>2, <4>1
      <4>3. b[p[1]][p[2]] = v
        <5>1. a[g[p][1]][g[p][2]] = b[p[1]][p[2]]  BY <1>1 DEF Keeps
        <5> HIDE DEF a, b
        <5> QED BY <4>1, <4>2, <5>1
      <4>4. p \in Inputs \X Nat /\ p[2] \in DOMAIN b[p[1]]  BY DEF Sites
      <4> DEFINE x == <<f, p[1], p[2]>>
      <4>5. x \in T  BY <4>3, <4>4
      <4>6. <<x[2], x[3]>> = p  BY <4>4
      <4>7. h[x][1] = f /\ h[x][2] = g[p][1] /\ h[x][3] = g[p][2]
        <5>1. x[1] = f  OBVIOUS
        <5> HIDE DEF x, h, T
        <5> QED BY <2>8, <4>5, <4>6, <5>1
      <4>8. h[x] \in S  BY <2>7, <4>5
      <4>9. h[x] = y
        <5>1. h[x] \in MappingFiles \X Inputs \X Nat /\ y \in MappingFiles \X Inputs \X Nat
          BY <4>8
        <5>2. h[x][2] = y[2] /\ h[x][3] = y[3]
          <6>1. q[1] = y[2] /\ q[2] = y[3]  OBVIOUS
          <6> HIDE DEF q, h, x
          <6> QED BY <4>2, <4>7, <6>1
        <5> HIDE DEF h, x, S
        <5> QED BY <3>2, <4>7, <5>1, <5>2
      <4> QED BY <4>5, <4>9
    <3> QED BY <3>1, <3>2
  <2>11. h \in Bijection(T, S)
    <3> HIDE DEF h, T, S
    <3> QED BY <2>7, <2>9, <2>10 DEF Bijection, Injection, Surjection, IsInjective
  <2> HIDE DEF h, T, S
  <2> QED BY <2>1, <2>11, FS_Bijection DEF ExistsBijection
<1> QED BY <1>3 DEF Stock

Maps == [Inputs -> Seq(Values)]
LEMMA SitesAre ==
  ASSUME NEW a \in Maps
  PROVE  Sites(a) = {p \in Inputs \X Nat : p[2] \in 1..Len(a[p[1]])}
<1>1. \A p \in Inputs \X Nat : a[p[1]] \in Seq(Values)  BY DEF Maps
<1>2. \A p \in Inputs \X Nat : DOMAIN a[p[1]] = 1..Len(a[p[1]])  BY <1>1
<1> QED BY <1>2 DEF Sites

\* How a bijection of places is given: where each place of the new map comes from, and
\* where each place of the old one has gone.
LEMMA RearrangedBy ==
  ASSUME NEW a \in Maps, NEW b \in Maps, NEW g \in [Sites(b) -> Sites(a)],
         \A p, q \in Sites(b) : g[p] = g[q] => p = q,
         \A q \in Sites(a) : \E p \in Sites(b) : g[p] = q,
         Keeps(g, b, a)
  PROVE  Rearranges(b, a)
<1>1. g \in Bijection(Sites(b), Sites(a))
  BY DEF Bijection, Injection, Surjection, IsInjective
<1> QED BY <1>1 DEF Rearranges

\* The variants of an input in another order.
LEMMA ArrangedMap ==
  ASSUME NEW a \in Maps, NEW i \in Inputs, NEW outs \in Arrangements(a[i])
  PROVE  Rearranges([a EXCEPT ![i] = outs], a)
<1>1. PICK s \in Seq(Values) : s = a[i]  BY DEF Maps
<1> DEFINE n == Len(s)
           b == [a EXCEPT ![i] = outs]
<1>2. n \in Nat /\ DOMAIN s = 1..n  OBVIOUS
<1>3. IsFiniteSet(1..n) /\ Cardinality(1..n) = n
  <2>1. 1 \in Int /\ n \in Int  BY <1>2
  <2>2. IsFiniteSet(1..n) /\ Cardinality(1..n) = IF 1 > n THEN 0 ELSE n - 1 + 1
    BY <2>1, FS_Interval
  <2> QED BY <1>2, <2>2
<1>4. PICK p \in SetToSeqs(1..n) : outs = [k \in 1..n |-> s[p[k]]]
  BY <1>1, <1>2 DEF Arrangements
<1>5. p \in [1..n -> 1..n] /\ \A k, l \in 1..n : p[k] = p[l] => k = l
  BY <1>2, <1>3 DEF SetToSeqs
<1>6. \A k \in 1..n : \E l \in 1..n : p[l] = k
  <2>1. p \in Injection(1..n, 1..n)  BY <1>5 DEF Injection, IsInjective
  <2>2. p \in Surjection(1..n, 1..n)  BY <1>3, <2>1, FS_Injection
  <2> QED BY <2>2 DEF Surjection
<1>7. /\ outs \in Seq(Values) /\ Len(outs) = n
      /\ \A k \in 1..n : outs[k] = s[p[k]] /\ p[k] \in 1..n
  <2>1. outs \in Seq(Values)  BY <1>1, ArrangementIs
  <2>2. \A k \in 1..n : outs[k] = s[p[k]] /\ p[k] \in 1..n  BY <1>4, <1>5
  <2>3. DOMAIN outs = 1..n  BY <1>4
  <2> QED BY <1>2, <2>1, <2>2, <2>3
<1>8. b \in Maps /\ \A x \in Inputs : b[x] = IF x = i THEN outs ELSE a[x]
  BY <1>7 DEF Maps
<1> HIDE DEF b, n
<1> DEFINE g == [x \in Sites(b) |-> IF x[1] = i THEN <<i, p[x[2]]>> ELSE x]
<1>9. \A x \in Inputs \X Nat : x \in Sites(b) <=> x[2] \in 1..Len(b[x[1]])
  BY <1>8, SitesAre
<1>10. \A x \in Inputs \X Nat : x \in Sites(a) <=> x[2] \in 1..Len(a[x[1]])
  BY SitesAre
<1>11. Sites(a) \subseteq Inputs \X Nat /\ Sites(b) \subseteq Inputs \X Nat  BY DEF Sites
<1>12. \A x \in Sites(b) :
         /\ x[1] = i => x[2] \in 1..n /\ p[x[2]] \in 1..n /\ p[x[2]] \in Nat
         /\ x[1] # i => x \in Sites(a)
  BY <1>2, <1>7, <1>8, <1>9, <1>10, <1>11 DEF n
<1>13. \A k \in 1..n : <<i, k>> \in Sites(a) /\ <<i, k>> \in Sites(b)
  <2> TAKE k \in 1..n
  <2>1. <<i, k>> \in Inputs \X Nat /\ <<i, k>>[1] = i /\ <<i, k>>[2] = k  BY <1>2
  <2> QED BY <1>1, <1>7, <1>8, <1>9, <1>10, <2>1 DEF n
<1>14. g \in [Sites(b) -> Sites(a)]  BY <1>12, <1>13
<1>15. \A x \in Sites(b) : /\ x[1] # i => g[x] = x
                           /\ x[1] = i => g[x] = <<i, p[x[2]]>>
  OBVIOUS
<1> HIDE DEF g
<1>16. ASSUME NEW x \in Sites(b), NEW y \in Sites(b), g[x] = g[y] PROVE x = y
  <2>1. g[x][1] = x[1] /\ g[y][1] = y[1]  BY <1>15
  <2>2. CASE x[1] # i  BY <1>15, <1>16, <2>1, <2>2
  <2>3. CASE x[1] = i
    <3>1. <<i, p[x[2]]>> = <<i, p[y[2]]>>  BY <1>15, <1>16, <2>1, <2>3
    <3>2. x[2] = y[2]  BY <1>5, <1>12, <2>1, <2>3, <3>1, <1>16
    <3> QED BY <1>11, <1>16, <2>1, <3>2
  <2> QED BY <2>2, <2>3
<1>17. ASSUME NEW y \in Sites(a) PROVE \E x \in Sites(b) : g[x] = y
  <2>1. CASE y[1] # i
    <3>1. y \in Sites(b)  BY <1>8, <1>9, <1>10, <1>11, <2>1
    <3> QED BY <1>15, <2>1, <3>1
  <2>2. CASE y[1] = i
    <3>1. y[2] \in 1..n  BY <1>1, <1>10, <1>11, <2>2 DEF n
    <3>2. PICK l \in 1..n : p[l] = y[2]  BY <1>6, <3>1
    <3>3. <<i, l>> \in Sites(b) /\ g[<<i, l>>] = <<i, p[l]>>
      <4>1. <<i, l>>[1] = i /\ <<i, l>>[2] = l  OBVIOUS
      <4> QED BY <1>13, <1>15, <4>1
    <3>4. y = <<i, p[l]>>  BY <1>11, <2>2, <3>2
    <3> QED BY <3>3, <3>4
  <2> QED BY <2>1, <2>2
<1>18. Keeps(g, b, a)
  <2> SUFFICES ASSUME NEW x \in Sites(b) PROVE a[g[x][1]][g[x][2]] = b[x[1]][x[2]]
    BY DEF Keeps
  <2>1. CASE x[1] # i
    <3>1. g[x] = x /\ b[x[1]] = a[x[1]]  BY <1>8, <1>11, <1>15, <2>1
    <3> QED BY <3>1
  <2>2. CASE x[1] = i
    <3>1. g[x][1] = i /\ g[x][2] = p[x[2]]  BY <1>15, <2>2
    <3>2. b[x[1]] = outs /\ x[2] \in 1..n  BY <1>8, <1>12, <2>2
    <3> QED BY <1>1, <1>7, <3>1, <3>2
  <2> QED BY <2>1, <2>2
<1> QED BY <1>8, <1>14, <1>16, <1>17, <1>18, RearrangedBy DEF b

\* A variant that is taken from one input and given to another.
Dragged(a, i, j, v) == [[a EXCEPT ![i] = RemoveFirst(@, v)] EXCEPT ![j] = Append(@, v)]
LEMMA DraggedMap ==
  ASSUME NEW a \in Maps, NEW i \in Inputs, NEW j \in Inputs, i # j,
         NEW v \in Values, v \in ToSet(a[i])
  PROVE  Rearranges(Dragged(a, i, j, v), a)
<1>1. PICK s \in Seq(Values) : s = a[i]  BY DEF Maps
<1>2. PICK t \in Seq(Values) : t = a[j]  BY DEF Maps
<1>3. PICK k \in 1..Len(s) : s[k] = v /\ RemoveFirst(s, v) = RemoveAt(s, k)
  BY <1>1, RemoveFirstIs
<1>4. PICK less \in Seq(Values) : less = RemoveAt(s, k)  BY RemoveAtIs
<1>5. PICK more \in Seq(Values) : more = Append(t, v)
  <2>1. Append(t, v) \in Seq(Values)  OBVIOUS
  <2> QED BY <2>1
<1> DEFINE n == Len(s)
           m == Len(t)
           b == Dragged(a, i, j, v)
<1>6. n \in Nat /\ m \in Nat /\ k \in 1..n  OBVIOUS
<1>7. /\ Len(less) = n - 1
      /\ \A l \in 1 .. n - 1 : less[l] = s[IF l < k THEN l ELSE l + 1]
  BY <1>4, RemoveAtIs
<1>8. /\ Len(more) = m + 1 /\ more[m + 1] = v
      /\ \A l \in 1..m : more[l] = t[l]
  BY <1>5
<1>9. /\ b \in Maps /\ b[i] = less /\ b[j] = more
      /\ \A x \in Inputs : x # i /\ x # j => b[x] = a[x]
  <2>1. RemoveFirst(a[i], v) = less /\ Append(a[j], v) = more
    BY <1>1, <1>2, <1>3, <1>4, <1>5
  <2>2. [a EXCEPT ![i] = less][j] = a[j]  BY DEF Maps
  <2>3. b = [[a EXCEPT ![i] = less] EXCEPT ![j] = more]  BY <2>1, <2>2 DEF Dragged
  <2> HIDE DEF b
  <2> QED BY <2>3 DEF Maps
<1> HIDE DEF b, n, m
<1>10. Sites(a) \subseteq Inputs \X Nat /\ Sites(b) \subseteq Inputs \X Nat  BY DEF Sites
<1>11. /\ \A x \in Inputs \X Nat : x \in Sites(b) <=> x[2] \in 1..Len(b[x[1]])
       /\ \A x \in Inputs \X Nat : x \in Sites(a) <=> x[2] \in 1..Len(a[x[1]])
  BY <1>9, SitesAre
<1>12. \A x \in Inputs \X Nat :
         /\ x[1] = i => (x \in Sites(b) <=> x[2] \in 1 .. n - 1) /\ (x \in Sites(a) <=> x[2] \in 1..n)
         /\ x[1] = j => (x \in Sites(b) <=> x[2] \in 1 .. m + 1) /\ (x \in Sites(a) <=> x[2] \in 1..m)
         /\ x[1] # i /\ x[1] # j => (x \in Sites(b) <=> x \in Sites(a))
  BY <1>1, <1>2, <1>7, <1>8, <1>9, <1>11 DEF n, m
<1> DEFINE shift(l) == IF l < k THEN l ELSE l + 1
           moved(x) == x[1] = j /\ x[2] = m + 1
           from(x) == IF moved(x) THEN <<i, k>>
                      ELSE IF x[1] = i THEN <<i, shift(x[2])>> ELSE x
           g == [x \in Sites(b) |-> from(x)]
<1>13. \A l \in Nat : shift(l) \in Nat /\ shift(l) # k /\ (l \in 1 .. n - 1 => shift(l) \in 1..n)
  BY <1>6
<1>14. \A l, q \in Nat : shift(l) = shift(q) => l = q
  BY <1>6
<1>15. ASSUME NEW q \in 1..n, q # k PROVE \E l \in 1 .. n - 1 : shift(l) = q
  <2> DEFINE l == IF q < k THEN q ELSE q - 1
  <2>1. l \in 1 .. n - 1 /\ shift(l) = q  BY <1>6, <1>15
  <2> QED BY <2>1
<1>16. \A l \in 1 .. n - 1 : less[l] = s[shift(l)]  BY <1>7
<1> HIDE DEF shift
<1>17. \A q \in Nat : /\ <<i, q>> \in Inputs \X Nat /\ <<i, q>>[1] = i /\ <<i, q>>[2] = q
                      /\ <<j, q>> \in Inputs \X Nat /\ <<j, q>>[1] = j /\ <<j, q>>[2] = q
  OBVIOUS
<1>18. \A x \in Sites(b) :
         /\ moved(x) => g[x] = <<i, k>>
         /\ ~moved(x) /\ x[1] = i => g[x] = <<i, shift(x[2])>> /\ x[2] \in 1 .. n - 1
         /\ ~moved(x) /\ x[1] # i => g[x] = x /\ x \in Sites(a)
         /\ x[2] \in Nat
  <2> TAKE x \in Sites(b)
  <2>1. x \in Inputs \X Nat /\ g[x] = from(x)  BY <1>10
  <2>2. ASSUME ~moved(x), x[1] # i PROVE x \in Sites(a)
    <3>1. CASE x[1] = j
      <4>1. x[2] \in 1 .. m + 1 /\ x[2] # m + 1  BY <1>12, <2>1, <2>2, <3>1
      <4>2. x[2] \in 1 .. m  BY <1>6, <4>1
      <4> QED BY <1>12, <2>1, <3>1, <4>2
    <3>2. CASE x[1] # j  BY <1>12, <2>1, <2>2, <3>2
    <3> QED BY <3>1, <3>2
  <2>3. x[1] = i => x[2] \in 1 .. n - 1  BY <1>12, <2>1
  <2>4. from(x) = IF moved(x) THEN <<i, k>> ELSE IF x[1] = i THEN <<i, shift(x[2])>> ELSE x
    OBVIOUS
  <2> HIDE DEF g, moved, from
  <2> QED BY <2>1, <2>2, <2>3, <2>4
<1> HIDE DEF g, moved
<1>19. g \in [Sites(b) -> Sites(a)]
  <2>1. <<i, k>> \in Sites(a)  BY <1>6, <1>12, <1>17
  <2>2. \A l \in 1 .. n - 1 : <<i, shift(l)>> \in Sites(a)
    <3> TAKE l \in 1 .. n - 1
    <3>1. l \in Nat  BY <1>6
    <3>2. shift(l) \in Nat /\ shift(l) \in 1..n  BY <1>13, <3>1
    <3> QED BY <1>12, <1>17, <3>2
  <2>3. \A x \in Sites(b) : g[x] \in Sites(a)  BY <1>18, <2>1, <2>2
  <2>4. g = [x \in Sites(b) |-> g[x]]  BY DEF g
  <2> QED BY <2>3, <2>4
<1>20. ASSUME NEW x \in Sites(b), NEW y \in Sites(b), g[x] = g[y] PROVE x = y
  <2>1. ASSUME NEW p \in Sites(b), NEW q \in Sites(b), moved(p), g[p] = g[q] PROVE moved(q)
    <3> SUFFICES ASSUME ~moved(q) PROVE FALSE  OBVIOUS
    <3>1. g[q][1] = i /\ g[q][2] = k  BY <1>6, <1>17, <1>18, <2>1
    <3>2. CASE q[1] = i
      <4>1. g[q] = <<i, shift(q[2])>> /\ q[2] \in Nat  BY <1>18, <3>2
      <4>2. shift(q[2]) # k  BY <1>13, <4>1
      <4>3. g[q][2] = shift(q[2])  BY <4>1
      <4> QED BY <3>1, <4>2, <4>3
    <3>3. CASE q[1] # i  BY <1>18, <3>1, <3>3
    <3> QED BY <3>2, <3>3
  <2>2. CASE moved(x) \/ moved(y)
    <3>1. moved(x) /\ moved(y)  BY <1>20, <2>1, <2>2
    <3>2. x[1] = y[1] /\ x[2] = y[2]  BY <3>1 DEF moved
    <3>3. x \in Inputs \X Nat /\ y \in Inputs \X Nat  BY <1>10
    <3> QED BY <3>2, <3>3
  <2>3. CASE ~moved(x) /\ ~moved(y)
    <3>1. g[x][1] = x[1] /\ g[y][1] = y[1]  BY <1>18, <2>3
    <3>2. CASE x[1] # i  BY <1>18, <1>20, <2>3, <3>1, <3>2
    <3>3. CASE x[1] = i
      <4>1. <<i, shift(x[2])>> = <<i, shift(y[2])>>  BY <1>18, <1>20, <2>3, <3>1, <3>3
      <4>2. x[2] = y[2]  BY <1>14, <1>18, <4>1
      <4> QED BY <1>10, <1>20, <3>1, <4>2
    <3> QED BY <3>2, <3>3
  <2> QED BY <2>2, <2>3
<1>21. ASSUME NEW y \in Sites(a) PROVE \E x \in Sites(b) : g[x] = y
  <2>1. CASE y[1] = i /\ y[2] = k
    <3> DEFINE x == <<j, m + 1>>
    <3>1. x \in Sites(b) /\ moved(x)
      <4>1. m + 1 \in Nat /\ m + 1 \in 1 .. m + 1  BY <1>6
      <4> QED BY <1>12, <1>17, <4>1 DEF moved
    <3>2. y = <<i, k>>  BY <1>10, <2>1
    <3> QED BY <1>18, <3>1, <3>2
  <2>2. CASE y[1] = i /\ y[2] # k
    <3>1. y[2] \in 1..n  BY <1>10, <1>12, <2>2
    <3>2. PICK l \in 1 .. n - 1 : shift(l) = y[2]  BY <1>15, <2>2, <3>1
    <3>3. l \in Nat /\ <<i, l>> \in Sites(b)  BY <1>6, <1>12, <1>17
    <3>4. ~moved(<<i, l>>)  BY <1>17, <3>3 DEF moved
    <3>5. g[<<i, l>>] = <<i, shift(l)>>  BY <1>17, <1>18, <3>3, <3>4
    <3>6. y = <<i, shift(l)>>  BY <1>10, <2>2, <3>2
    <3> QED BY <3>3, <3>5, <3>6
  <2>3. CASE y[1] # i
    <3>1. y \in Sites(b) /\ ~moved(y)
      <4>1. CASE y[1] = j
        <5>1. y[2] \in 1..m  BY <1>10, <1>12, <4>1
        <5>2. y[2] \in 1 .. m + 1 /\ y[2] # m + 1  BY <1>6, <5>1
        <5> QED BY <1>10, <1>12, <4>1, <5>2 DEF moved
      <4>2. CASE y[1] # j  BY <1>10, <1>12, <2>3, <4>2 DEF moved
      <4> QED BY <4>1, <4>2
    <3> QED BY <1>18, <2>3, <3>1
  <2> QED BY <2>1, <2>2, <2>3
<1>22. Keeps(g, b, a)
  <2> SUFFICES ASSUME NEW x \in Sites(b) PROVE a[g[x][1]][g[x][2]] = b[x[1]][x[2]]
    BY DEF Keeps
  <2>1. CASE moved(x)
    <3>1. x[1] = j /\ x[2] = m + 1  BY <2>1 DEF moved
    <3>2. g[x][1] = i /\ g[x][2] = k  BY <1>18, <2>1
    <3> QED BY <1>1, <1>3, <1>8, <1>9, <3>1, <3>2
  <2>2. CASE ~moved(x) /\ x[1] = i
    <3>1. g[x][1] = i /\ g[x][2] = shift(x[2])  BY <1>18, <2>2
    <3> QED BY <1>1, <1>9, <1>16, <1>18, <2>2, <3>1
  <2>3. CASE ~moved(x) /\ x[1] = j
    <3>1. g[x] = x  BY <1>18, <2>3
    <3>2. x[2] \in 1 .. m
      <4>1. x[2] \in 1 .. m + 1 /\ x[2] # m + 1  BY <1>10, <1>12, <2>3 DEF moved
      <4> QED BY <1>6, <4>1
    <3> QED BY <1>2, <1>8, <1>9, <2>3, <3>1, <3>2
  <2>4. CASE ~moved(x) /\ x[1] # i /\ x[1] # j
    BY <1>9, <1>10, <1>18, <2>4
  <2> QED BY <2>1, <2>2, <2>3, <2>4
<1> QED BY <1>9, <1>19, <1>20, <1>21, <1>22, RearrangedBy DEF b

\* No file has an input on two rows.
LEMMA SingleFiles ==
  ASSUME MappingsInv, OneRowEach
  PROVE  files \in [MappingFiles -> SingleRows] /\ entries \in SingleRows
BY DEF MappingsInv, OneRowEach, SingleRows

\* The list that is shown is the file's, as long as the last save went well.
Untouched == files[profileFile] # <<>> /\ saveState # "error"

LEMMA SavedStock ==
  ASSUME MappingsInv, Untouched, OneRowEach, NEW rows \in SingleRows, SaveRows(rows),
         Rearranges(MapOf(rows), MapOf(entries))
  PROVE  Stock(files') = Stock(files)
<1>1. MapOf(entries) = MapOf(files[profileFile])
  BY DEF MappingsInv, ListKept, Untouched, OneRowEach
<1>2. CASE files' = [files EXCEPT ![profileFile] = rows]
  <2>1. PICK new : new = files'  OBVIOUS
  <2>2. /\ new \in [MappingFiles -> SingleRows] /\ new[profileFile] = rows
        /\ \A q \in MappingFiles : q # profileFile => new[q] = files[q]
        /\ files \in [MappingFiles -> SingleRows] /\ profileFile \in MappingFiles
    BY <1>2, <2>1, SingleFiles DEF MappingsInv
  <2> QED BY <1>1, <2>1, <2>2, RearrangedStock
<1>3. CASE UNCHANGED files  BY <1>3
<1> QED BY <1>2, <1>3 DEF SaveRows

LEMMA ArrangedStock ==
  ASSUME MappingsInv, Untouched, OneRowEach, NEW i \in Inputs, NEW outs \in Outputs, SetVariantOrder(i, outs)
  PROVE  Stock(files') = Stock(files)
<1>1. entries \in SingleRows /\ entries \in Seq(Row)  BY SingleFiles DEF SingleRows
<1>2. PICK row \in 1..Len(entries) : row = RowOf(entries, i) /\ entries[row].input = i
  BY <1>1, RowIs DEF SetVariantOrder
<1>3. entries[row].outs \in Seq(Values)
  <2>1. entries[row] \in Row  BY <1>1
  <2> QED BY <2>1 DEF Row
<1>4. outs \in Arrangements(entries[row].outs) /\ outs \in Seq(Values)
  <2>1. outs \in Arrangements(entries[row].outs)  BY <1>2 DEF SetVariantOrder
  <2> QED BY <1>3, <2>1, ArrangementIs
<1>5. MapOf(entries)[i] = entries[row].outs  BY <1>1, <1>2, MapIs
<1>6. SaveRows(Replaced(entries, row, outs))
  BY <1>2 DEF SetVariantOrder, EditList, Replaced
<1>7. Replaced(entries, row, outs) \in SingleRows  BY <1>1, <1>4, ReplaceOuts DEF Replaced
<1>8. MapOf(Replaced(entries, row, outs)) = [MapOf(entries) EXCEPT ![i] = outs]
  BY <1>1, <1>2, <1>4, ReplacedMap
<1>9. PICK a \in Maps : a = MapOf(entries)  BY <1>1, OwnIsMap DEF Maps
<1>10. Rearranges([a EXCEPT ![i] = outs], a)  BY <1>4, <1>5, <1>9, ArrangedMap
<1>11. Rearranges(MapOf(Replaced(entries, row, outs)), MapOf(entries))  BY <1>8, <1>9, <1>10
<1> QED BY <1>6, <1>7, <1>11, SavedStock

LEMMA MovedStock ==
  ASSUME MappingsInv, Untouched, OneRowEach, NEW i \in Inputs, NEW j \in Inputs, NEW v \in Values,
         MoveVariant(i, v, j)
  PROVE  Stock(files') = Stock(files)
<1>1. entries \in SingleRows /\ entries \in Seq(Row)  BY SingleFiles DEF SingleRows
<1>2. PICK from \in 1..Len(entries) : from = LastRowOf(entries, i) /\ entries[from].input = i
  BY <1>1, LastRowIs DEF MoveVariant
<1>3. PICK to \in 1..Len(entries) : to = LastRowOf(entries, j) /\ entries[to].input = j
  BY <1>1, LastRowIs DEF MoveVariant
<1>4. i # j /\ from # to /\ v \in ToSet(entries[from].outs)
  BY <1>2, <1>3 DEF MoveVariant
<1>5. PICK less \in Seq(Values) : less = RemoveFirst(entries[from].outs, v)  BY <1>1, OutsIs
<1>6. PICK more \in Seq(Values) : more = Append(entries[to].outs, v)  BY <1>1, OutsIs
<1>7. PICK half : half = Replaced(entries, from, less)  OBVIOUS
<1>8. /\ half \in SingleRows /\ Len(half) = Len(entries)
      /\ half[to] = entries[to]
  <2>1. half[to] = entries[to]  BY <1>1, <1>4, <1>7 DEF Replaced
  <2> QED BY <1>1, <1>7, <2>1, ReplaceOuts DEF Replaced
<1>9. SaveRows(Replaced(half, to, more)) /\ Replaced(half, to, more) \in SingleRows
  <2>1. [entries EXCEPT ![from].outs = RemoveFirst(@, v), ![to].outs = Append(@, v)]
        = Replaced(half, to, more)
    BY <1>5, <1>6, <1>7, <1>8 DEF Replaced
  <2>2. SaveRows(Replaced(half, to, more))
    BY <1>2, <1>3, <2>1 DEF MoveVariant, EditList
  <2> QED BY <1>8, <2>2, ReplaceOuts DEF Replaced
<1>10. MapOf(half) = [MapOf(entries) EXCEPT ![i] = less]  BY <1>1, <1>2, <1>7, ReplacedMap
<1>11. MapOf(Replaced(half, to, more)) = [MapOf(half) EXCEPT ![j] = more]
  BY <1>3, <1>8, ReplacedMap
<1>12. MapOf(entries)[i] = entries[from].outs /\ MapOf(entries)[j] = entries[to].outs
  BY <1>1, <1>2, <1>3, MapIs
<1>13. PICK a \in Maps : a = MapOf(entries)  BY <1>1, OwnIsMap DEF Maps
<1>14. MapOf(Replaced(half, to, more)) = Dragged(a, i, j, v)
  <2>1. less = RemoveFirst(a[i], v) /\ more = Append([a EXCEPT ![i] = less][j], v)
    BY <1>4, <1>5, <1>6, <1>12, <1>13 DEF Maps
  <2> QED BY <1>10, <1>11, <1>13, <2>1 DEF Dragged
<1>15. Rearranges(MapOf(Replaced(half, to, more)), a)
  BY <1>4, <1>12, <1>13, <1>14, DraggedMap
<1> QED BY <1>9, <1>13, <1>15, SavedStock

\* A composed chip may be of the list that is shown or of another profile's file.
LEMMA DraggedStock ==
  ASSUME MappingsInv, Untouched, OneRowEach, NEW i \in Inputs, NEW j \in Inputs, NEW v \in Values,
         NEW f \in MappingFiles, MoveComposedVariant(i, v, f, j)
  PROVE  Stock(files') = Stock(files)
<1>1. PICK rows \in SingleRows : rows = Origin(f)  BY SingleFiles DEF Origin
<1>2. PICK taken \in SingleRows : taken = Taken(rows, i, v)
  BY <1>1, TakenRows DEF MoveComposedVariant, SingleRows
<1>3. PICK new \in SingleRows : new = Given(taken, j, v)  BY GivenRows DEF SingleRows
<1>4. EditOrigin(f, new) /\ i # j /\ Holds(rows, i, v)
  BY <1>1, <1>2, <1>3 DEF MoveComposedVariant
<1>5. PICK a \in Maps : a = MapOf(rows)  BY OwnIsMap DEF Maps
<1>6. Rearranges(MapOf(new), a)
  <2>1. MapOf(taken) = [a EXCEPT ![i] = RemoveFirst(@, v)] /\ v \in ToSet(a[i])
    BY <1>2, <1>4, <1>5, TakenMap
  <2>2. MapOf(new) = [MapOf(taken) EXCEPT ![j] = Append(@, v)]  BY <1>3, GivenMap
  <2>3. MapOf(new) = Dragged(a, i, j, v)  BY <2>1, <2>2 DEF Dragged
  <2> QED BY <1>4, <2>1, <2>3, DraggedMap
<1>7. CASE f = manifest.base
  BY <1>1, <1>4, <1>5, <1>6, <1>7, SavedStock DEF EditOrigin, Origin
<1>8. CASE f # manifest.base
  <2>1. PICK fs : fs = files'  OBVIOUS
  <2>2. /\ fs \in [MappingFiles -> SingleRows] /\ fs[f] = new
        /\ \A q \in MappingFiles : q # f => fs[q] = files[q]
        /\ files \in [MappingFiles -> SingleRows] /\ rows = files[f]
    BY <1>1, <1>4, <1>8, <2>1, SingleFiles DEF EditOrigin, Origin
  <2> QED BY <1>5, <1>6, <2>1, <2>2, RearrangedStock
<1> QED BY <1>7, <1>8

\* "The dragged variant must never be silently dropped": for all contents of the files,
\* profiles and variants, a drag of a chip leaves every variant as often in the files as
\* it was, whether its save succeeds or fails, unless the list was not saved, the
\* profile's file is empty or an input is on two rows of a file: then the composed drag
\* does lose variants.
THEOREM DragsAlwaysKeepVariants == MappingsSpec => DragsKeepVariants
<1>1. ASSUME MappingsInv, Drag, files[profileFile] # <<>>, saveState # "error",
             OneRowEach
      PROVE  Stock(files') = Stock(files)
  BY <1>1, ArrangedStock, MovedStock, DraggedStock DEF Drag, Untouched
<1>2. MappingsInv /\ [MappingsNext]_mappingVars
      => [Drag /\ files[profileFile] # <<>> /\ saveState # "error" /\ OneRowEach
          => Stock(files') = Stock(files)]_mappingVars
  BY <1>1
<1> QED BY <1>2, MappingsInvariant, PTL DEF MappingsSpec, DragsKeepVariants

-----------------------------------------------------------------------------
(* The texts of the configuration files *)

Formats == {"output", "field", "ini"}
(* What a format escapes. *)
Special(format) == {Meaning(l) : l \in Letters(format)}
Within(format, S) == Special(format) \subseteq S
State(S) == [parts : Seq(Seq(S) \ {<<>>}), cur : Seq(S), esc : BOOLEAN, bad : BOOLEAN]

\* The three characters the model names are none of the others.
LEMMA NamedDiffer ==
  /\ Comma # "\\" /\ Quote # "\\" /\ Space # "\\" /\ Comma # Quote
  /\ Comma \notin {"n", "t", "r", "f", "v", "\n", "\r"}
  /\ Quote \notin {"n", "t", "r", "f", "v", "\n", "\r", "\t", "K", "=", "#", "["}
  /\ Space \notin {"=", "K", "\n", "\r", "\t", Quote}
BY DEF Comma, Quote, Space

\* The characters each format escapes, and the letter of each.
LEMMA SpecialIs ==
  /\ Special("output") = {Comma, "\\", "\n", "\t"}
  /\ Special("field") = {"#", "\\", "\n", "\t", "\r"}
  /\ Special("ini") = {Quote, "\\", "\n", "\t", "\r", "\f", "VT"}
<1>1. Special("output") = {Comma, "\\", "\n", "\t"}
  <2>1. Letters("output") = {Comma, "\\", "n", "t"}  BY DEF Letters
  <2>2. /\ Meaning(Comma) = Comma /\ Meaning("\\") = "\\" /\ Meaning("n") = "\n"
        /\ Meaning("t") = "\t"
    BY NamedDiffer DEF Meaning
  <2> QED BY <2>1, <2>2 DEF Special
<1>2. Special("field") = {"#", "\\", "\n", "\t", "\r"}
  <2>1. Letters("field") = {"#", "\\", "n", "t", "r"}  BY DEF Letters
  <2>2. /\ Meaning("#") = "#" /\ Meaning("\\") = "\\" /\ Meaning("n") = "\n"
        /\ Meaning("t") = "\t" /\ Meaning("r") = "\r"
    BY DEF Meaning
  <2> QED BY <2>1, <2>2 DEF Special
<1>3. Special("ini") = {Quote, "\\", "\n", "\t", "\r", "\f", "VT"}
  <2>1. Letters("ini") = {Quote, "\\", "n", "t", "r", "f", "v"}  BY DEF Letters
  <2>2. /\ Meaning(Quote) = Quote /\ Meaning("\\") = "\\" /\ Meaning("n") = "\n"
        /\ Meaning("t") = "\t" /\ Meaning("r") = "\r" /\ Meaning("f") = "\f"
        /\ Meaning("v") = "VT"
    BY NamedDiffer DEF Meaning
  <2> QED BY <2>1, <2>2 DEF Special
<1> QED BY <1>1, <1>2, <1>3

\* States with the same fields are the same.
LEMMA SameState ==
  ASSUME NEW S, NEW x \in State(S), NEW y \in State(S),
         x.parts = y.parts, x.cur = y.cur, x.esc = y.esc, x.bad = y.bad
  PROVE  x = y
BY DEF State

\* One step of a scan, over characters among which are those the format escapes.
LEMMA StepType ==
  ASSUME NEW S, NEW format \in Formats, Within(format, S),
         NEW acc \in State(S), NEW c \in S
  PROVE  Step(format, acc, c) \in State(S)
<1>1. /\ acc.parts \in Seq(Seq(S) \ {<<>>}) /\ acc.cur \in Seq(S)
      /\ acc.esc \in BOOLEAN /\ acc.bad \in BOOLEAN
  BY DEF State
<1>2. Escaping(acc) \in State(S)  BY <1>1 DEF State, Escaping
<1>3. Malformed(acc) \in State(S)  BY <1>1 DEF State, Malformed
<1>4. Closed(acc) \in State(S)
  <2>1. CASE acc.cur = <<>>  BY <2>1 DEF Closed
  <2>2. CASE acc.cur # <<>>
    <3>1. Append(acc.parts, acc.cur) \in Seq(Seq(S) \ {<<>>})  BY <1>1, <2>2
    <3>2. <<>> \in Seq(S)  OBVIOUS
    <3> QED BY <1>1, <2>2, <3>1, <3>2 DEF Closed, State
  <2> QED BY <2>1, <2>2
<1>5. \A d \in S : Plain(acc, d) \in State(S)
  <2> TAKE d \in S
  <2>1. Append(acc.cur, d) \in Seq(S)  BY <1>1
  <2> QED BY <1>1, <2>1 DEF Plain, State
<1>6. \A d \in Letters(format) : Meaning(d) \in S  BY DEF Within, Special
<1>7. Unescaped(format, acc, c) \in State(S)
  BY <1>3, <1>5, <1>6 DEF Unescaped
<1>8. CASE format = "output"
  BY <1>2, <1>4, <1>5, <1>7, <1>8 DEF Step, SplitStep
<1>9. CASE format = "field"
  BY <1>2, <1>5, <1>7, <1>9 DEF Step, FieldStep
<1>10. CASE format = "ini"
  <2>1. Meaning(c) \in S
    <3>1. CASE c \in Letters("ini")  BY <1>6, <1>10, <3>1
    <3>2. CASE c \notin Letters("ini")
      <4>1. Letters("ini") = {Quote, "\\", "n", "t", "r", "f", "v"}  BY DEF Letters
      <4>2. Meaning(c) = c  BY <3>2, <4>1 DEF Meaning
      <4> QED BY <4>2
    <3> QED BY <3>1, <3>2
  <2> QED BY <1>2, <1>3, <1>5, <1>10, <2>1 DEF Step, IniStep
<1> QED BY <1>8, <1>9, <1>10 DEF Formats

\* A scan, step by step.
LEMMA ScanIs ==
  ASSUME NEW S, NEW format \in Formats, Within(format, S), NEW s \in Seq(S)
  PROVE  \E k \in [0..Len(s) -> State(S)] :
           /\ k[0] = Start /\ Scan(format, s) = k[Len(s)]
           /\ \A n \in 1..Len(s) : k[n] = Step(format, k[n - 1], s[n])
<1> DEFINE acc[n \in 0..Len(s)] ==
             IF n = 0 THEN Start ELSE Step(format, acc[n - 1], s[n])
<1>1. Scan(format, s) = acc[Len(s)]  BY DEF Scan
<1> HIDE DEF acc
<1>2. PICK step \in [1..Len(s) -> [State(S) -> State(S)]] :
        \A n \in 1..Len(s) : \A x \in State(S) : step[n][x] = Step(format, x, s[n])
  <2> DEFINE st == [n \in 1..Len(s) |-> [x \in State(S) |-> Step(format, x, s[n])]]
  <2>1. \A n \in 1..Len(s) : \A x \in State(S) : Step(format, x, s[n]) \in State(S)
    BY StepType
  <2>2. /\ st \in [1..Len(s) -> [State(S) -> State(S)]]
        /\ \A n \in 1..Len(s) : \A x \in State(S) : st[n][x] = Step(format, x, s[n])
    BY <2>1
  <2> HIDE DEF st
  <2> QED BY <2>2
<1>3. Len(s) \in Nat /\ Start \in State(S)  BY DEF State, Start
<1>4. PICK f \in [0..Len(s) -> State(S)] : Recursion(f, Len(s), Start, step)
  BY <1>3, RecursionExists
<1>5. \A n \in 1..Len(s) : f[n] = Step(format, f[n - 1], s[n])
  <2> TAKE n \in 1..Len(s)
  <2>1. n - 1 \in 0..Len(s)  BY <1>3
  <2>2. f[n - 1] \in State(S)  BY <2>1
  <2> QED BY <1>2, <1>4, <2>1, <2>2 DEF Recursion
<1>6. f = [n \in 0..Len(s) |-> IF n = 0 THEN Start ELSE Step(format, f[n - 1], s[n])]
  <2>1. \A n \in 0..Len(s) : n = 0 \/ n \in 1..Len(s)  BY <1>3
  <2> QED BY <1>4, <1>5, <2>1 DEF Recursion
<1>7. acc = [n \in 0..Len(s) |-> IF n = 0 THEN Start ELSE Step(format, acc[n - 1], s[n])]
  BY <1>6 DEF acc
<1>8. \A n \in 0..Len(s) : acc[n] = IF n = 0 THEN Start ELSE Step(format, acc[n - 1], s[n])
  BY <1>7, Zenon
<1>9. PICK k : k = acc  OBVIOUS
<1>10. Alike(f, k, Len(s))
  <2>1. 0 \in 0..Len(s) /\ \A n \in 1..Len(s) : n \in 0..Len(s) /\ n # 0  BY <1>3
  <2>2. k[0] = Start /\ \A n \in 1..Len(s) : k[n] = Step(format, k[n - 1], s[n])
    BY <1>8, <1>9, <2>1, Zenon
  <2>3. f[0] = k[0]  BY <1>4, <2>2 DEF Recursion
  <2>4. \A n \in 1..Len(s) : f[n - 1] = k[n - 1] => f[n] = k[n]  BY <1>5, <2>2
  <2> QED BY <2>3, <2>4 DEF Alike
<1>11. f[Len(s)] = acc[Len(s)]
  <2>1. Len(s) \in 0..Len(s)  BY <1>3
  <2>2. \A n \in 0..Len(s) : f[n] = k[n]  BY <1>3, <1>10, RecursionUnique
  <2> QED BY <1>9, <2>1, <2>2
<1> QED BY <1>1, <1>4, <1>5, <1>11 DEF Recursion

\* A scan begins at the start, takes one step for each character and stays in its states.
LEMMA ScanSteps ==
  ASSUME NEW S, NEW format \in Formats, Within(format, S)
  PROVE  /\ Scan(format, <<>>) = Start
         /\ \A s \in Seq(S) : Scan(format, s) \in State(S)
         /\ \A s \in Seq(S), c \in S :
              Scan(format, Append(s, c)) = Step(format, Scan(format, s), c)
<1>1. Scan(format, <<>>) = Start
  <2>1. PICK e : e = <<>>  OBVIOUS
  <2>2. e \in Seq(S) /\ Len(e) = 0  BY <2>1
  <2>3. e \in Seq(S)  BY <2>2
  <2>4. \E k \in [0..Len(e) -> State(S)] : k[0] = Start /\ Scan(format, e) = k[Len(e)]
    BY <2>3, ScanIs
  <2> QED BY <2>1, <2>2, <2>4
<1>2. ASSUME NEW s \in Seq(S) PROVE Scan(format, s) \in State(S)
  <2>1. Len(s) \in 0..Len(s)  OBVIOUS
  <2> QED BY <2>1, ScanIs
<1>3. ASSUME NEW s \in Seq(S), NEW c \in S
      PROVE  Scan(format, Append(s, c)) = Step(format, Scan(format, s), c)
  <2> DEFINE t == Append(s, c)
             N == Len(s)
  <2>1. /\ t \in Seq(S) /\ Len(t) = N + 1 /\ N \in Nat /\ t[N + 1] = c
        /\ \A i \in 1..N : t[i] = s[i]
    OBVIOUS
  <2> HIDE DEF t
  <2>2. PICK f \in [0..Len(t) -> State(S)] :
          /\ f[0] = Start /\ Scan(format, t) = f[Len(t)]
          /\ \A n \in 1..Len(t) : f[n] = Step(format, f[n - 1], t[n])
    <3>1. t \in Seq(S)  BY <2>1
    <3> QED BY ONLY <3>1, format \in Formats, Within(format, S), ScanIs
  <2>3. PICK g \in [0..N -> State(S)] :
          /\ g[0] = Start /\ Scan(format, s) = g[N]
          /\ \A n \in 1..N : g[n] = Step(format, g[n - 1], s[n])
    BY ScanIs
  <2>4. Alike(f, g, N)
    <3>1. \A n \in 1..N : n \in 1..Len(t)  BY <2>1
    <3> QED BY <2>1, <2>2, <2>3, <3>1 DEF Alike
  <2>5. f[N] = g[N]
    <3>1. N \in 0..N  BY <2>1
    <3> QED BY <2>1, <2>4, <3>1, RecursionUnique
  <2>6. N + 1 \in 1..Len(t) /\ (N + 1) - 1 = N  BY <2>1
  <2> QED BY <2>1, <2>2, <2>3, <2>5, <2>6 DEF t
<1> QED BY <1>1, <1>2, <1>3

-----------------------------------------------------------------------------
(* Writing and reading *)

\* A character is escaped by a backslash and its letter if it is special, or is as it is.
LEMMA EscapeCharIs ==
  ASSUME NEW format \in Formats, NEW c
  PROVE  /\ c \in Special(format) =>
              \E l \in Letters(format) : Meaning(l) = c /\ EscapeChar(format, c) = <<"\\", l>>
         /\ c \notin Special(format) => EscapeChar(format, c) = <<c>>
<1>1. ASSUME c \in Special(format)
      PROVE  \E l \in Letters(format) : Meaning(l) = c /\ EscapeChar(format, c) = <<"\\", l>>
  <2>1. \E l \in Letters(format) : Meaning(l) = c  BY <1>1 DEF Special
  <2> DEFINE m == CHOOSE l \in Letters(format) : Meaning(l) = c
  <2>2. m \in Letters(format) /\ Meaning(m) = c  BY <2>1
  <2>3. EscapeChar(format, c) = <<"\\", m>>  BY <2>1 DEF EscapeChar
  <2> QED BY <2>2, <2>3
<1>2. ASSUME c \notin Special(format) PROVE EscapeChar(format, c) = <<c>>
  BY <1>2 DEF Special, EscapeChar
<1> QED BY <1>1, <1>2

\* What a text over S is written with.
Spelled(format, S, R) ==
    /\ "\\" \in R
    /\ Letters(format) \subseteq R
    /\ S \ Special(format) \subseteq R

LEMMA EscapeCharType ==
  ASSUME NEW S, NEW R, NEW format \in Formats, Spelled(format, S, R), NEW c \in S
  PROVE  EscapeChar(format, c) \in Seq(R)
<1>1. CASE c \in Special(format)
  <2>1. PICK l \in Letters(format) : EscapeChar(format, c) = <<"\\", l>>
    BY <1>1, EscapeCharIs
  <2>2. l \in R /\ "\\" \in R  BY DEF Spelled
  <2> QED BY <2>1, <2>2
<1>2. CASE c \notin Special(format)
  <2>1. EscapeChar(format, c) = <<c>>  BY <1>2, EscapeCharIs
  <2>2. c \in R  BY <1>2 DEF Spelled
  <2> QED BY <2>1, <2>2
<1> QED BY <1>1, <1>2

\* A text is escaped character by character.
LEMMA EscapeSteps ==
  ASSUME NEW S, NEW R, NEW format \in Formats, Spelled(format, S, R)
  PROVE  /\ Escape(format, <<>>) = <<>>
         /\ \A s \in Seq(S) : Escape(format, s) \in Seq(R)
         /\ \A s \in Seq(S), c \in S :
              Escape(format, Append(s, c)) = Escape(format, s) \o EscapeChar(format, c)
<1> DEFINE Shares(s) == [i \in DOMAIN s |-> EscapeChar(format, s[i])]
<1>1. \A s \in Seq(S) : Shares(s) \in Seq(Seq(R)) /\ Len(Shares(s)) = Len(s)
  <2> TAKE s \in Seq(S)
  <2>1. DOMAIN s = 1..Len(s) /\ Len(s) \in Nat  OBVIOUS
  <2>2. \A i \in 1..Len(s) : EscapeChar(format, s[i]) \in Seq(R)
    <3> TAKE i \in 1..Len(s)
    <3>1. s[i] \in S  OBVIOUS
    <3> QED BY <3>1, EscapeCharType
  <2> QED BY <2>1, <2>2
<1>2. \A s : Escape(format, s) = FlattenSeq(Shares(s))  BY DEF Escape
<1>3. Escape(format, <<>>) = <<>>
  <2>1. Shares(<<>>) = <<>>  OBVIOUS
  <2>2. FlattenSeq(<<>>) = <<>>  BY DEF FlattenSeq
  <2> QED BY <1>2, <2>1, <2>2
<1>4. ASSUME NEW s \in Seq(S) PROVE Escape(format, s) \in Seq(R)
  <2> HIDE DEF Shares
  <2> QED BY <1>1, <1>2, FlattenType
<1>5. ASSUME NEW s \in Seq(S), NEW c \in S
      PROVE  Escape(format, Append(s, c)) = Escape(format, s) \o EscapeChar(format, c)
  <2>1. EscapeChar(format, c) \in Seq(R)  BY EscapeCharType
  <2>2. Shares(Append(s, c)) = Append(Shares(s), EscapeChar(format, c))
    <3> DEFINE t == Append(s, c)
               N == Len(s)
    <3>1. /\ t \in Seq(S) /\ Len(t) = N + 1 /\ N \in Nat /\ t[N + 1] = c
          /\ \A i \in 1..N : t[i] = s[i]
          /\ DOMAIN t = 1..N + 1 /\ DOMAIN s = 1..N
      OBVIOUS
    <3> HIDE DEF t
    <3>2. /\ Shares(t) \in Seq(Seq(R)) /\ Len(Shares(t)) = N + 1
          /\ Shares(s) \in Seq(Seq(R)) /\ Len(Shares(s)) = N
      BY <1>1, <3>1
    <3>3. /\ \A i \in 1..N + 1 : Shares(t)[i] = EscapeChar(format, t[i])
          /\ \A i \in 1..N : Shares(s)[i] = EscapeChar(format, s[i])
      BY <3>1
    <3> DEFINE P == Shares(t)
               Q == Shares(s)
               x == EscapeChar(format, c)
    <3>4. P[N + 1] = x /\ \A i \in 1..N : P[i] = Q[i]
      <4>1. N + 1 \in 1..N + 1 /\ \A i \in 1..N : i \in 1..N + 1  BY <3>1
      <4> QED BY <3>1, <3>3, <4>1
    <3> HIDE DEF P, Q, x
    <3>5. Append(Q, x) \in Seq(Seq(R)) /\ Len(Append(Q, x)) = N + 1
      BY <2>1, <3>2 DEF Q, x
    <3>6. \A i \in 1..N + 1 : P[i] = Append(Q, x)[i]
      <4>1. Q \in Seq(Seq(R)) /\ Len(Q) = N  BY <3>2 DEF Q
      <4> QED BY <3>1, <3>4, <4>1
    <3>7. P = Append(Q, x)
      <4>1. P \in Seq(Seq(R)) /\ Len(P) = N + 1  BY <3>2 DEF P
      <4> QED BY <3>5, <3>6, <4>1, SeqEqual
    <3> QED BY <3>7 DEF t, P, Q, x
  <2>3. Shares(s) \in Seq(Seq(R))  BY <1>1
  <2>4. /\ Escape(format, s) = FlattenSeq(Shares(s))
        /\ Escape(format, Append(s, c)) = FlattenSeq(Shares(Append(s, c)))
    BY <1>2
  <2> DEFINE x == EscapeChar(format, c)
             P == Shares(s)
  <2> HIDE DEF x, P
  <2>5. FlattenSeq(Append(P, x)) = FlattenSeq(P) \o x
    <3>1. P \in Seq(Seq(R)) /\ x \in Seq(R)  BY <2>1, <2>3 DEF x, P
    <3> QED BY ONLY <3>1, FlattenAppend
  <2> QED BY <2>2, <2>4, <2>5 DEF x, P
<1> QED BY <1>3, <1>4, <1>5

\* An unescaped ordinary character, or an escape, adds its character to the open part.
LEMMA StepReads ==
  ASSUME NEW S, NEW format \in Formats, NEW acc \in State(S), ~acc.esc, NEW c
  PROVE  /\ c \notin Special(format) => Step(format, acc, c) = Plain(acc, c)
         /\ \A l \in Letters(format) : Meaning(l) = c =>
              Step(format, Step(format, acc, "\\"), l) = Plain(acc, c)
<1>1. ASSUME c \notin Special(format) PROVE Step(format, acc, c) = Plain(acc, c)
  <2>1. CASE format = "output"
    <3>1. c # "\\" /\ c # Comma  BY <1>1, <2>1, SpecialIs
    <3> QED BY <2>1, <3>1 DEF Step, SplitStep
  <2>2. CASE format = "field"
    <3>1. c # "\\"  BY <1>1, <2>2, SpecialIs
    <3> QED BY <2>2, <3>1 DEF Step, FieldStep
  <2>3. CASE format = "ini"
    <3>1. c # "\\" /\ c # Quote  BY <1>1, <2>3, SpecialIs
    <3> QED BY <2>3, <3>1 DEF Step, IniStep
  <2> QED BY <2>1, <2>2, <2>3 DEF Formats
<1>2. ASSUME NEW l \in Letters(format), Meaning(l) = c
      PROVE  Step(format, Step(format, acc, "\\"), l) = Plain(acc, c)
  <2> DEFINE a == Escaping(acc)
  <2>1. Step(format, acc, "\\") = a
    <3>1. CASE format = "output"  BY <3>1, NamedDiffer DEF Step, SplitStep
    <3>2. CASE format = "field"  BY <3>2 DEF Step, FieldStep
    <3>3. CASE format = "ini"  BY <3>3, NamedDiffer DEF Step, IniStep
    <3> QED BY <3>1, <3>2, <3>3 DEF Formats
  <2>2. a.esc /\ Plain(a, c) = Plain(acc, c)
    BY DEF Escaping, Plain, State
  <2> HIDE DEF a
  <2>3. Step(format, a, l) = Plain(a, c)
    <3>1. CASE format = "output"
      BY <1>2, <2>2, <3>1 DEF Step, SplitStep, Unescaped
    <3>2. CASE format = "field"
      BY <1>2, <2>2, <3>2 DEF Step, FieldStep, Unescaped
    <3>3. CASE format = "ini"
      BY <1>2, <2>2, <3>3 DEF Step, IniStep
    <3> QED BY <3>1, <3>2, <3>3 DEF Formats
  <2> QED BY <2>1, <2>2, <2>3
<1> QED BY <1>1, <1>2

\* What has all characters a format gives a meaning, and all it writes.
Whole(format, S) == Special(format) \subseteq S /\ Letters(format) \subseteq S

LEMMA WholeIs ==
  ASSUME NEW format \in Formats, NEW S, Whole(format, S)
  PROVE  "\\" \in S /\ Within(format, S) /\ Spelled(format, S, S)
<1>1. "\\" \in Letters(format)
  <2>1. CASE format = "output"  BY <2>1 DEF Letters
  <2>2. CASE format = "field"  BY <2>2 DEF Letters
  <2>3. CASE format = "ini"  BY <2>3 DEF Letters
  <2> QED BY <2>1, <2>2, <2>3 DEF Formats
<1> QED BY <1>1 DEF Whole, Within, Spelled

\* Joining and appending.
LEMMA JoinedOne ==
  ASSUME NEW S, NEW s \in Seq(S), NEW t \in Seq(S), NEW c \in S
  PROVE  /\ s \o Append(t, c) = Append(s \o t, c)
         /\ s \o (t \o <<c>>) = Append(s \o t, c)
<1>1. Append(t, c) = t \o <<c>> /\ Append(s \o t, c) = (s \o t) \o <<c>>
  BY AppendIsConcat, ConcatProperties
<1>2. <<c>> \in Seq(S)  OBVIOUS
<1> QED BY <1>1, <1>2, ConcatAssociative

AppendsTwo(s, t, c, d) == s \o (t \o <<c, d>>) = Append(Append(s \o t, c), d)
LEMMA JoinedTwo ==
  ASSUME NEW S, NEW s \in Seq(S), NEW t \in Seq(S), NEW c \in S, NEW d \in S
  PROVE  AppendsTwo(s, t, c, d)
<1> DEFINE u == t \o <<c, d>>
           v == Append(t, c)
<1>1. u = Append(v, d)
  <2>1. /\ u \in Seq(S) /\ Append(v, d) \in Seq(S)
        /\ Len(u) = Len(t) + 2 /\ Len(Append(v, d)) = Len(t) + 2
        /\ \A i \in 1..Len(t) + 2 : u[i] = Append(v, d)[i]
    OBVIOUS
  <2> HIDE DEF u, v
  <2> QED BY <2>1, SeqEqual
<1>2. s \o v = Append(s \o t, c)  BY JoinedOne
<1>3. v \in Seq(S)  OBVIOUS
<1> HIDE DEF u, v
<1>4. s \o Append(v, d) = Append(s \o v, d)  BY <1>3, JoinedOne
<1> QED BY <1>1, <1>2, <1>4 DEF u, AppendsTwo

\* What was escaped is read back, after whatever came before it.
Added(acc, w) == [acc EXCEPT !.cur = @ \o w]
ReadsOn(format, p, v) == Scan(format, p \o Escape(format, v)) = Added(Scan(format, p), v)
LEMMA ScanEscaped ==
  ASSUME NEW S, NEW format \in Formats, Whole(format, S),
         NEW p \in Seq(S), ~Scan(format, p).esc, NEW v \in Seq(S)
  PROVE  ReadsOn(format, p, v)
<1> DEFINE acc == Scan(format, p)
           E(w) == Escape(format, w)
           T == {w \in Seq(S) : Scan(format, p \o E(w)) = Added(acc, w)}
<1>1. "\\" \in S /\ Within(format, S) /\ Spelled(format, S, S)  BY WholeIs
<1>2. /\ acc \in State(S)
      /\ \A s \in Seq(S), c \in S :
           Scan(format, Append(s, c)) = Step(format, Scan(format, s), c)
  BY <1>1, ScanSteps
<1>3. /\ E(<<>>) = <<>>
      /\ \A s \in Seq(S) : E(s) \in Seq(S)
      /\ \A s \in Seq(S), c \in S : E(Append(s, c)) = E(s) \o EscapeChar(format, c)
  BY <1>1, EscapeSteps
<1>4. ~acc.esc /\ acc.cur \in Seq(S)  BY <1>2 DEF State
<1>5. <<>> \in T
  <2>1. p \o <<>> = p /\ acc.cur \o <<>> = acc.cur  BY <1>4, ConcatEmptySeq
  <2>2. Added(acc, <<>>) = acc
    <3> HIDE DEF acc
    <3> QED BY <1>2, <2>1 DEF State, Added
  <2>3. Scan(format, p \o E(<<>>)) = acc  BY <1>3, <2>1
  <2>4. <<>> \in Seq(S)  OBVIOUS
  <2> QED BY <2>2, <2>3, <2>4
<1>6. ASSUME NEW w \in Seq(S), NEW c \in S, w \in T PROVE Append(w, c) \in T
  <2> DEFINE q == p \o E(w)
             b == Added(acc, w)
  <2>1. q \in Seq(S) /\ Scan(format, q) = b
    <3>1. E(w) \in Seq(S)  BY <1>3
    <3>2. Scan(format, p \o E(w)) = Added(acc, w)  BY <1>6
    <3> QED BY <3>1, <3>2, ConcatProperties
  <2>2. b \in State(S) /\ ~b.esc
    <3> HIDE DEF acc
    <3>1. acc.cur \o w \in Seq(S)  BY <1>4, ConcatProperties
    <3> QED BY <1>2, <1>4, <3>1 DEF State, Added
  <2>3. Plain(b, c) = Added(acc, Append(w, c))
    <3> HIDE DEF acc
    <3>1. acc.cur \o Append(w, c) = Append(acc.cur \o w, c)
      <4>1. PICK x \in Seq(S) : x = acc.cur  BY <1>4
      <4>2. x \o Append(w, c) = Append(x \o w, c)
        BY ONLY x \in Seq(S), w \in Seq(S), c \in S, JoinedOne
      <4> QED BY <4>1, <4>2
    <3> QED BY <1>2, <1>4, <3>1 DEF State, Plain, Added
  <2>4. E(w) \in Seq(S) /\ E(Append(w, c)) = E(w) \o EscapeChar(format, c)  BY <1>3
  <2>5. Scan(format, p \o E(Append(w, c))) = Plain(b, c)
    <3>1. CASE c \notin Special(format)
      <4>1. EscapeChar(format, c) = <<c>>  BY <3>1, EscapeCharIs
      <4>2. p \o (E(w) \o <<c>>) = Append(q, c)
        <5>1. PICK x \in Seq(S) : x = E(w)  BY <2>4
        <5>2. p \o (x \o <<c>>) = Append(p \o x, c)
          BY ONLY p \in Seq(S), x \in Seq(S), c \in S, JoinedOne
        <5> QED BY <5>1, <5>2
      <4> HIDE DEF q, b
      <4>3. Scan(format, Append(q, c)) = Step(format, b, c)  BY <1>2, <2>1
      <4>4. Step(format, b, c) = Plain(b, c)  BY <2>2, <3>1, StepReads
      <4> QED BY <2>4, <4>1, <4>2, <4>3, <4>4
    <3>2. CASE c \in Special(format)
      <4>1. PICK l \in Letters(format) :
              Meaning(l) = c /\ EscapeChar(format, c) = <<"\\", l>>
        BY <3>2, EscapeCharIs
      <4>2. l \in S  BY DEF Whole
      <4>3. p \o (E(w) \o <<"\\", l>>) = Append(Append(q, "\\"), l)
        <5>1. PICK x \in Seq(S) : x = E(w)  BY <2>4
        <5>2. PICK d \in S : d = "\\"  BY <1>1
        <5>3. AppendsTwo(p, x, d, l)
          BY ONLY p \in Seq(S), x \in Seq(S), d \in S, <4>2, JoinedTwo
        <5> QED BY <5>1, <5>2, <5>3 DEF AppendsTwo
      <4> HIDE DEF q, b
      <4>4. Append(q, "\\") \in Seq(S)  BY <1>1, <2>1
      <4>5. Scan(format, Append(q, "\\")) = Step(format, b, "\\")  BY <1>1, <1>2, <2>1
      <4>6. Scan(format, Append(Append(q, "\\"), l)) = Step(format, Step(format, b, "\\"), l)
        BY <1>2, <4>2, <4>4, <4>5
      <4>7. Step(format, Step(format, b, "\\"), l) = Plain(b, c)
        BY <2>2, <4>1, StepReads
      <4> QED BY <2>4, <4>1, <4>3, <4>6, <4>7
    <3> QED BY <3>1, <3>2
  <2>6. Append(w, c) \in Seq(S)  OBVIOUS
  <2> QED BY <2>3, <2>5, <2>6
<1>7. Seq(S) \subseteq T
  <2> HIDE DEF T
  <2> QED BY <1>5, <1>6, SeqSetInduction
<1> QED BY <1>7 DEF ReadsOn

-----------------------------------------------------------------------------
(* Mappings and their variants *)

\* The characters a text may be made of, and those the formats themselves write.
Char == Chars \cup {"\\", Comma, Quote, "#", "=", "n", "t", "r", "f", "v", "1", "K",
                    "\n", "\t", "\r", "\f", "VT"}

LEMMA CharWhole ==
  ASSUME NEW format \in Formats
  PROVE  Whole(format, Char)
<1>1. /\ Letters("output") = {Comma, "\\", "n", "t"}
      /\ Letters("field") = {"#", "\\", "n", "t", "r"}
      /\ Letters("ini") = {Quote, "\\", "n", "t", "r", "f", "v"}
  BY DEF Letters
<1> QED BY <1>1, SpecialIs DEF Formats, Whole, Char

\* A line that does not end in a carriage return is read as it is.
LEMMA TrimCRWhole ==
  ASSUME NEW S, NEW s \in Seq(S), s # <<>>, s[Len(s)] # "\r"
  PROVE  TrimCR(s) = s
<1> DEFINE kept == {0} \cup {i \in DOMAIN s : s[i] # "\r"}
           last == CHOOSE i \in kept : \A j \in kept : j <= i
<1>1. DOMAIN s = 1..Len(s) /\ Len(s) \in Nat /\ Len(s) # 0  OBVIOUS
<1>2. Len(s) \in kept /\ \A j \in kept : j \in Nat /\ j <= Len(s)  BY <1>1
<1>3. last \in kept /\ \A j \in kept : j <= last  BY <1>2
<1>4. last = Len(s)
  <2> HIDE DEF last, kept
  <2> QED BY <1>1, <1>2, <1>3
<1>5. TrimCR(s) = SubSeq(s, 1, last)  BY DEF TrimCR
<1> QED BY <1>4, <1>5, SubSeqFull

LEMMA EmptySplits == SplitOutputs(<<>>) = <<>>
<1>1. Scan("output", <<>>) = Start  BY CharWhole, WholeIs, ScanSteps DEF Formats
<1> QED BY <1>1 DEF SplitOutputs, Closed, Start, WellFormed

LEMMA ValidIs ==
  ASSUME NEW s \in Seq(Char), ValidOutput(s)
  PROVE  /\ s # <<>> /\ Len(s) \in Nat \ {0}
         /\ \A i \in 1..Len(s) : s[i] \in Char \ {"\n", "\r"}
<1>1. s # <<>>  BY EmptySplits DEF ValidOutput
<1>2. \A i \in 1..Len(s) : s[i] \in Char /\ s[i] \in ToSet(s)  BY DEF ToSet
<1>3. ToSet(s) \cap {"\n", "\r"} = {}  BY DEF ValidOutput
<1> QED BY <1>1, <1>2, <1>3

\* MappingSurvives, for one text.
LEMMA MappingBack ==
  ASSUME NEW s \in Seq(Char), ValidOutput(s),
         NEW input \in Chars \ {"\n", "\r", "\t", "\f", Space}
  PROVE  /\ IsLine(WriteMapping(input, s))
         /\ ParseMapping(WriteMapping(input, s)) = [input |-> input, output |-> s]
<1> DEFINE n == Len(s)
           line == WriteMapping(input, s)
<1>1. /\ n \in Nat \ {0}
      /\ \A i \in 1..n : s[i] \in Char /\ s[i] # "\n" /\ s[i] # "\r"
  BY ValidIs
<1>2. input \in Char /\ "=" \in Char /\ "\\" \in Char /\ input # "\n"  BY DEF Char
<1> HIDE DEF n
<1>3. CASE input \in {"#", "\\"}
  <2>1. line = (<<"\\">> \o <<input, "=">>) \o s  BY <1>3 DEF WriteMapping
  <2>2. /\ line \in Seq(Char) /\ Len(line) = n + 3
        /\ line[1] = "\\" /\ line[2] = input /\ line[3] = "="
        /\ \A i \in 1..n : line[i + 3] = s[i]
    BY <1>1, <1>2, <2>1 DEF n
  <2> HIDE DEF line
  <2>3. \A i \in 1..n + 3 : i \in {1, 2, 3} \/ (i - 3 \in 1..n /\ (i - 3) + 3 = i)
    BY <1>1
  <2>4. IsLine(line)
    <3>1. DOMAIN line = 1..n + 3  BY <2>2
    <3>2. \A i \in 1..n + 3 : line[i] # "\n"
      <4> TAKE i \in 1..n + 3
      <4>1. CASE i \in {1, 2, 3}  BY <1>2, <2>2, <4>1
      <4>2. CASE i - 3 \in 1..n /\ (i - 3) + 3 = i  BY <1>1, <2>2, <4>2
      <4> QED BY <2>3, <4>1, <4>2
    <3> QED BY <3>1, <3>2 DEF IsLine
  <2>5. TrimCR(line) = line
    <3>1. line[n + 3] = s[n]  BY <1>1, <2>2
    <3>2. line # <<>> /\ line[Len(line)] # "\r"  BY <1>1, <2>2, <3>1
    <3> QED BY <2>2, <3>2, TrimCRWhole
  <2> DEFINE t == Tail(line)
  <2>6. /\ t \in Seq(Char) /\ Len(t) = n + 2 /\ t[1] = input /\ t[2] = "="
        /\ \A i \in 1..n : t[i + 2] = s[i]
    <3>1. t \in Seq(Char) /\ Len(t) = n + 2 /\ \A i \in 1..n + 2 : t[i] = line[i + 1]
      BY <1>1, <2>2
    <3> HIDE DEF t
    <3>2. 1 \in 1..n + 2 /\ 2 \in 1..n + 2 /\ \A i \in 1..n : i + 2 \in 1..n + 2
      BY <1>1
    <3>3. \A i \in 1..n : (i + 2) + 1 = i + 3  BY <1>1
    <3>4. t[1] = line[2] /\ t[2] = line[3]  BY <3>1, <3>2
    <3>5. \A i \in 1..n : t[i + 2] = line[i + 3]
      <4> TAKE i \in 1..n
      <4>1. t[i + 2] = line[(i + 2) + 1]  BY <3>1, <3>2
      <4> QED BY <3>3, <4>1
    <3> QED BY <2>2, <3>1, <3>4, <3>5
  <2>7. ParseMapping(line) = Mapping(t)
    <3>1. Len(line) >= 3 /\ line # <<>>  BY <1>1, <2>2
    <3> QED BY <1>3, <2>2, <2>5, <3>1 DEF ParseMapping
  <2> HIDE DEF t
  <2>8. SubSeq(t, 3, n + 2) = s
    <3> DEFINE u == SubSeq(t, 3, n + 2)
    <3>1. u \in Seq(Char) /\ Len(u) = n /\ \A i \in 1..n : u[i] = t[i + 2]
      BY <1>1, <2>6
    <3> HIDE DEF u
    <3>2. u = s  BY <2>6, <3>1, SeqEqual DEF n
    <3> QED BY <3>2 DEF u
  <2>9. Mapping(t) = [input |-> input, output |-> s]
    <3>1. Len(t) > 2  BY <1>1, <2>6
    <3> QED BY <2>6, <2>8, <3>1 DEF Mapping
  <2> QED BY <2>4, <2>7, <2>9 DEF line
<1>4. CASE input \notin {"#", "\\"}
  <2>1. line = (<<>> \o <<input, "=">>) \o s  BY <1>4 DEF WriteMapping
  <2>2. /\ line \in Seq(Char) /\ Len(line) = n + 2
        /\ line[1] = input /\ line[2] = "="
        /\ \A i \in 1..n : line[i + 2] = s[i]
    BY <1>1, <1>2, <2>1 DEF n
  <2> HIDE DEF line
  <2>3. \A i \in 1..n + 2 : i \in {1, 2} \/ (i - 2 \in 1..n /\ (i - 2) + 2 = i)
    BY <1>1
  <2>4. IsLine(line)
    <3>1. DOMAIN line = 1..n + 2  BY <2>2
    <3>2. \A i \in 1..n + 2 : line[i] # "\n"
      <4> TAKE i \in 1..n + 2
      <4>1. CASE i \in {1, 2}  BY <1>2, <2>2, <4>1
      <4>2. CASE i - 2 \in 1..n /\ (i - 2) + 2 = i  BY <1>1, <2>2, <4>2
      <4> QED BY <2>3, <4>1, <4>2
    <3> QED BY <3>1, <3>2 DEF IsLine
  <2>5. TrimCR(line) = line
    <3>1. line[n + 2] = s[n]  BY <1>1, <2>2
    <3>2. line # <<>> /\ line[Len(line)] # "\r"  BY <1>1, <2>2, <3>1
    <3> QED BY <2>2, <3>2, TrimCRWhole
  <2>6. ParseMapping(line) = Mapping(line)
    <3>1. line # <<>>  BY <1>1, <2>2
    <3> QED BY <1>4, <2>2, <2>5, <3>1 DEF ParseMapping
  <2>7. SubSeq(line, 3, n + 2) = s
    <3> DEFINE u == SubSeq(line, 3, n + 2)
    <3>1. u \in Seq(Char) /\ Len(u) = n /\ \A i \in 1..n : u[i] = line[i + 2]
      BY <1>1, <2>2
    <3> HIDE DEF u
    <3>2. u = s  BY <2>2, <3>1, SeqEqual DEF n
    <3> QED BY <3>2 DEF u
  <2>8. Mapping(line) = [input |-> input, output |-> s]
    <3>1. Len(line) > 2  BY <1>1, <2>2
    <3> QED BY <2>2, <2>7, <3>1 DEF Mapping
  <2> QED BY <2>4, <2>6, <2>8 DEF line
<1> QED BY <1>3, <1>4

\* The next variant of a joined output.
Joining(out, v) ==
    IF v = <<>> THEN out
    ELSE (IF out = <<>> THEN <<>> ELSE Append(out, Comma)) \o Escape("output", v)
LEMMA JoiningType ==
  ASSUME NEW S, NEW R, Spelled("output", S, R),
         NEW out \in Seq(R), NEW v \in Seq(S)
  PROVE  Joining(out, v) \in Seq(R)
<1>1. Escape("output", v) \in Seq(R)  BY EscapeSteps DEF Formats
<1>2. Append(out, Comma) \in Seq(R) /\ <<>> \in Seq(R)
  <2>1. Comma \in Letters("output")  BY DEF Letters
  <2> QED BY <2>1 DEF Spelled
<1>3. /\ <<>> \o Escape("output", v) \in Seq(R)
      /\ Append(out, Comma) \o Escape("output", v) \in Seq(R)
  BY <1>1, <1>2, ConcatProperties
<1> QED BY <1>3 DEF Joining

\* joinOutputs, step by step.
Joins(k, vs, R) ==
    /\ k \in [0..Len(vs) -> Seq(R)]
    /\ k[0] = <<>> /\ JoinOutputs(vs) = k[Len(vs)]
    /\ \A n \in 1..Len(vs) : k[n] = Joining(k[n - 1], vs[n])
LEMMA JoinIs ==
  ASSUME NEW S, NEW R, Spelled("output", S, R), NEW vs \in Seq(Seq(S))
  PROVE  \E k : Joins(k, vs, R)
<1> DEFINE joined[n \in 0..Len(vs)] ==
             IF n = 0 THEN <<>>
             ELSE IF vs[n] = <<>> THEN joined[n - 1]
             ELSE (IF joined[n - 1] = <<>> THEN <<>> ELSE Append(joined[n - 1], Comma))
                  \o Escape("output", vs[n])
<1>1. JoinOutputs(vs) = joined[Len(vs)]  BY DEF JoinOutputs
<1> HIDE DEF joined
<1>2. PICK step \in [1..Len(vs) -> [Seq(R) -> Seq(R)]] :
        \A n \in 1..Len(vs) : \A x \in Seq(R) : step[n][x] = Joining(x, vs[n])
  <2> DEFINE st == [n \in 1..Len(vs) |-> [x \in Seq(R) |-> Joining(x, vs[n])]]
  <2>1. \A n \in 1..Len(vs) : \A x \in Seq(R) : Joining(x, vs[n]) \in Seq(R)
    <3> TAKE n \in 1..Len(vs)
    <3> TAKE x \in Seq(R)
    <3>1. vs[n] \in Seq(S)  OBVIOUS
    <3> QED BY <3>1, JoiningType
  <2>2. /\ st \in [1..Len(vs) -> [Seq(R) -> Seq(R)]]
        /\ \A n \in 1..Len(vs) : \A x \in Seq(R) : st[n][x] = Joining(x, vs[n])
    BY <2>1
  <2> HIDE DEF st
  <2> QED BY <2>2
<1>3. Len(vs) \in Nat /\ <<>> \in Seq(R)  OBVIOUS
<1>4. PICK f \in [0..Len(vs) -> Seq(R)] : Recursion(f, Len(vs), <<>>, step)
  BY <1>3, RecursionExists
<1>5. \A n \in 1..Len(vs) : f[n] = Joining(f[n - 1], vs[n])
  <2> TAKE n \in 1..Len(vs)
  <2>1. n - 1 \in 0..Len(vs)  BY <1>3
  <2>2. f[n - 1] \in Seq(R)  BY <2>1
  <2> QED BY <1>2, <1>4, <2>1, <2>2 DEF Recursion
<1>6. f = [n \in 0..Len(vs) |->
             IF n = 0 THEN <<>>
             ELSE IF vs[n] = <<>> THEN f[n - 1]
             ELSE (IF f[n - 1] = <<>> THEN <<>> ELSE Append(f[n - 1], Comma))
                  \o Escape("output", vs[n])]
  <2>1. \A n \in 0..Len(vs) : n = 0 \/ n \in 1..Len(vs)  BY <1>3
  <2>2. \A n \in 0..Len(vs) : f[n] = IF n = 0 THEN <<>> ELSE Joining(f[n - 1], vs[n])
    BY <1>4, <1>5, <2>1 DEF Recursion
  <2>3. f = [n \in 0..Len(vs) |-> IF n = 0 THEN <<>> ELSE Joining(f[n - 1], vs[n])]
    BY <2>2
  <2> QED BY <2>3, Zenon DEF Joining
<1>7. joined = [n \in 0..Len(vs) |->
             IF n = 0 THEN <<>>
             ELSE IF vs[n] = <<>> THEN joined[n - 1]
             ELSE (IF joined[n - 1] = <<>> THEN <<>> ELSE Append(joined[n - 1], Comma))
                  \o Escape("output", vs[n])]
  BY <1>6, Zenon DEF joined
<1>8. \A n \in 0..Len(vs) : joined[n] = IF n = 0 THEN <<>> ELSE Joining(joined[n - 1], vs[n])
  <2>1. joined = [n \in 0..Len(vs) |-> IF n = 0 THEN <<>> ELSE Joining(joined[n - 1], vs[n])]
    BY <1>7, Zenon DEF Joining
  <2> QED BY <2>1, Zenon
<1>9. PICK k : k = joined  OBVIOUS
<1>10. Alike(f, k, Len(vs))
  <2>1. 0 \in 0..Len(vs) /\ \A n \in 1..Len(vs) : n \in 0..Len(vs) /\ n # 0  BY <1>3
  <2>2. k[0] = <<>> /\ \A n \in 1..Len(vs) : k[n] = Joining(k[n - 1], vs[n])
    BY <1>8, <1>9, <2>1, Zenon
  <2>3. f[0] = k[0]  BY <1>4, <2>2 DEF Recursion
  <2>4. \A n \in 1..Len(vs) : f[n - 1] = k[n - 1] => f[n] = k[n]  BY <1>5, <2>2
  <2> QED BY <2>3, <2>4 DEF Alike
<1>11. f[Len(vs)] = joined[Len(vs)]
  <2>1. Len(vs) \in 0..Len(vs)  BY <1>3
  <2>2. \A n \in 0..Len(vs) : f[n] = k[n]  BY <1>3, <1>10, RecursionUnique
  <2> QED BY <1>9, <2>1, <2>2
<1>12. Joins(f, vs, R)  BY <1>1, <1>4, <1>5, <1>11 DEF Recursion, Joins
<1> QED BY <1>12

\* Outputs are joined variant by variant.
LEMMA JoinSteps ==
  ASSUME NEW S, NEW R, Spelled("output", S, R)
  PROVE  /\ JoinOutputs(<<>>) = <<>>
         /\ \A vs \in Seq(Seq(S)) : JoinOutputs(vs) \in Seq(R)
         /\ \A vs \in Seq(Seq(S)), v \in Seq(S) :
              JoinOutputs(Append(vs, v)) = Joining(JoinOutputs(vs), v)
<1>1. JoinOutputs(<<>>) = <<>>
  <2>1. PICK e : e = <<>>  OBVIOUS
  <2>2. e \in Seq(Seq(S)) /\ Len(e) = 0  BY <2>1
  <2>3. e \in Seq(Seq(S))  BY <2>2
  <2>4. PICK k : Joins(k, e, R)  BY <2>3, JoinIs
  <2> QED BY <2>1, <2>2, <2>4 DEF Joins
<1>2. ASSUME NEW vs \in Seq(Seq(S)) PROVE JoinOutputs(vs) \in Seq(R)
  <2>1. PICK k : Joins(k, vs, R)  BY JoinIs
  <2>2. Len(vs) \in 0..Len(vs)  OBVIOUS
  <2> QED BY <2>1, <2>2 DEF Joins
<1>3. ASSUME NEW vs \in Seq(Seq(S)), NEW v \in Seq(S)
      PROVE  JoinOutputs(Append(vs, v)) = Joining(JoinOutputs(vs), v)
  <2> DEFINE t == Append(vs, v)
             N == Len(vs)
  <2>1. /\ t \in Seq(Seq(S)) /\ Len(t) = N + 1 /\ N \in Nat /\ t[N + 1] = v
        /\ \A i \in 1..N : t[i] = vs[i]
    OBVIOUS
  <2> HIDE DEF t
  <2>2. PICK f : Joins(f, t, R)
    <3>1. t \in Seq(Seq(S))  BY <2>1
    <3> QED BY <3>1, JoinIs
  <2>3. PICK g : Joins(g, vs, R)  BY JoinIs
  <2>4. Alike(f, g, N)
    <3>1. \A n \in 1..N : n \in 1..Len(t)  BY <2>1
    <3> QED BY <2>1, <2>2, <2>3, <3>1 DEF Alike, Joins
  <2>5. f[N] = g[N]
    <3>1. N \in Nat /\ N \in 0..N  BY <2>1
    <3>2. \A n \in 0..N : f[n] = g[n]
      BY ONLY <2>4, <3>1, RecursionUnique
    <3> QED BY <3>1, <3>2
  <2>6. N + 1 \in 1..Len(t) /\ (N + 1) - 1 = N  BY <2>1
  <2> QED BY <2>1, <2>2, <2>3, <2>5, <2>6 DEF t, Joins
<1> QED BY <1>1, <1>2, <1>3

\* What was joined splits into the same variants.
Apart(vs) == [parts |-> vs, cur |-> <<>>, esc |-> FALSE, bad |-> FALSE]
LEMMA JoinedScans ==
  ASSUME NEW vs \in Seq(Seq(Char) \ {<<>>})
  PROVE  /\ Closed(Scan("output", JoinOutputs(vs))) = Apart(vs)
         /\ WellFormed(Scan("output", JoinOutputs(vs)))
<1> DEFINE V == Seq(Char) \ {<<>>}
           J(ws) == Scan("output", JoinOutputs(ws))
           T == {ws \in Seq(V) : Closed(J(ws)) = Apart(ws) /\ WellFormed(J(ws))}
<1>1. "output" \in Formats /\ Whole("output", Char) /\ Comma \in Char
  BY CharWhole DEF Formats, Char
<1>2. Within("output", Char) /\ Spelled("output", Char, Char)  BY <1>1, WholeIs
<1>3. /\ JoinOutputs(<<>>) = <<>>
      /\ \A ws \in Seq(Seq(Char)) : JoinOutputs(ws) \in Seq(Char)
      /\ \A ws \in Seq(Seq(Char)), v \in Seq(Char) :
           JoinOutputs(Append(ws, v)) = Joining(JoinOutputs(ws), v)
  BY <1>2, JoinSteps
<1>4. /\ Scan("output", <<>>) = Start
      /\ \A s \in Seq(Char) : Scan("output", s) \in State(Char)
      /\ \A s \in Seq(Char), c \in Char :
           Scan("output", Append(s, c)) = Step("output", Scan("output", s), c)
  BY <1>1, <1>2, ScanSteps
<1>5. <<>> \in T
  <2>1. J(<<>>) = Start  BY <1>3, <1>4
  <2>2. Closed(Start) = Apart(<<>>) /\ WellFormed(Start)
    BY DEF Closed, Start, Apart, WellFormed
  <2>3. <<>> \in Seq(V)  OBVIOUS
  <2> QED BY <2>1, <2>2, <2>3
<1>6. ASSUME NEW ws \in Seq(V), NEW v \in V, ws \in T PROVE Append(ws, v) \in T
  <2> DEFINE out == JoinOutputs(ws)
             acc == Scan("output", out)
  <2>1. ws \in Seq(Seq(Char)) /\ v \in Seq(Char) /\ v # <<>>  BY SeqMonotonic
  <2>2. out \in Seq(Char) /\ acc \in State(Char)  BY <1>3, <1>4, <2>1
  <2>3. Closed(acc) = Apart(ws) /\ ~acc.esc /\ ~acc.bad  BY <1>6 DEF WellFormed
  <2>4. Apart(ws) \in State(Char)
    <3>1. ws \in Seq(V) /\ <<>> \in Seq(Char)  OBVIOUS
    <3> QED BY <3>1 DEF Apart, State, Start
  <2>5. JoinOutputs(Append(ws, v)) = Joining(out, v)  BY <1>3, <2>1
  <2>6. Scan("output", Joining(out, v)) = Added(Apart(ws), v)
    <3>1. CASE out = <<>>
      <4>1. Joining(out, v) = <<>> \o Escape("output", v)  BY <2>1, <3>1 DEF Joining
      <4>2. acc = Start  BY <1>4, <3>1
      <4>3. Apart(ws) = Start  BY <2>3, <4>2 DEF Closed, Start
      <4>4. ~Scan("output", <<>>).esc /\ <<>> \in Seq(Char)  BY <1>4 DEF Start
      <4>5. Scan("output", <<>> \o Escape("output", v)) = Added(Scan("output", <<>>), v)
        <5>1. PICK p \in Seq(Char) : p = <<>>  BY <4>4
        <5>2. ReadsOn("output", p, v)  BY <1>1, <2>1, <4>4, <5>1, ScanEscaped
        <5> QED BY <5>1, <5>2 DEF ReadsOn
      <4> QED BY <1>4, <4>1, <4>3, <4>5
    <3>2. CASE out # <<>>
      <4> DEFINE p == Append(out, Comma)
      <4>1. Joining(out, v) = p \o Escape("output", v)  BY <2>1, <3>2 DEF Joining
      <4>2. p \in Seq(Char)  BY <1>1, <2>2
      <4>3. Scan("output", p) = Step("output", acc, Comma)  BY <1>1, <1>4, <2>2
      <4> HIDE DEF p, acc
      <4>4. Step("output", acc, Comma) = Closed(acc)
        BY <2>3, NamedDiffer DEF Step, SplitStep
      <4>5. Scan("output", p) = Apart(ws)  BY <2>3, <4>3, <4>4
      <4>6. ~Scan("output", p).esc  BY <4>5 DEF Apart, Start
      <4>7. ReadsOn("output", p, v)  BY <1>1, <2>1, <4>2, <4>6, ScanEscaped
      <4> QED BY <4>1, <4>5, <4>7 DEF ReadsOn
    <3> QED BY <3>1, <3>2
  <2>7. WellFormed(Added(Apart(ws), v)) /\ Closed(Added(Apart(ws), v)) = Apart(Append(ws, v))
    <3>1. <<>> \o v = v  BY <2>1, ConcatEmptySeq
    <3> DEFINE a == Apart(ws)
               z == Apart(Append(ws, v))
               y == Added(a, v)
    <3>2. a.parts = ws /\ a.cur = <<>> /\ a.esc = FALSE /\ a.bad = FALSE
      BY DEF Apart
    <3>3. z.parts = Append(ws, v) /\ z.cur = <<>> /\ z.esc = FALSE /\ z.bad = FALSE
      BY DEF Apart
    <3>4. z \in State(Char)
      <4>1. Append(ws, v) \in Seq(V) /\ <<>> \in Seq(Char)  OBVIOUS
      <4> QED BY <4>1 DEF Apart, State
    <3> HIDE DEF a, z
    <3>5. /\ y \in State(Char)
          /\ y.parts = ws /\ y.cur = v /\ y.esc = FALSE /\ y.bad = FALSE
      BY <2>1, <2>4, <3>1, <3>2 DEF Added, State, a
    <3> HIDE DEF y
    <3>6. Closed(y) = [y EXCEPT !.parts = Append(@, v), !.cur = <<>>]
      BY <2>1, <3>5 DEF Closed
    <3>7. /\ Closed(y).parts = z.parts /\ Closed(y).cur = z.cur
          /\ Closed(y).esc = z.esc /\ Closed(y).bad = z.bad
      BY <3>3, <3>5, <3>6 DEF State
    <3>8. Closed(y) \in State(Char)
      <4>1. Append(y.parts, v) \in Seq(V) /\ <<>> \in Seq(Char)  BY <3>5
      <4> QED BY <3>5, <3>6, <4>1 DEF State
    <3>9. Closed(y) = z  BY <3>4, <3>7, <3>8, SameState
    <3> QED BY <3>5, <3>9 DEF WellFormed, a, z, y
  <2>8. Append(ws, v) \in Seq(V)  OBVIOUS
  <2> QED BY <2>5, <2>6, <2>7, <2>8
<1>7. Seq(V) \subseteq T
  <2> HIDE DEF T
  <2> QED BY <1>5, <1>6, SeqSetInduction
<1> QED BY <1>7

\* VariantsSurvive, for one text.
LEMMA VariantsBack ==
  ASSUME NEW s \in Seq(Char), ValidOutput(s)
  PROVE  /\ SplitOutputs(JoinOutputs(SplitOutputs(s))) = SplitOutputs(s)
         /\ ValidOutput(JoinOutputs(SplitOutputs(s)))
<1> DEFINE S == Char \ {"\r"}
           R == Char \ {"\n", "\r"}
           acc == Scan("output", s)
           vs == SplitOutputs(s)
<1>1. Special("output") = {Comma, "\\", "\n", "\t"} /\ Letters("output") = {Comma, "\\", "n", "t"}
  BY SpecialIs DEF Letters
<1>2. Within("output", S)
  BY <1>1, NamedDiffer DEF Within, Char
<1>3. Spelled("output", S, R)
  BY <1>1, NamedDiffer DEF Spelled, Char
<1>4. s \in Seq(S)
  <2>1. s \in Seq(Char) /\ \A i \in 1..Len(s) : s[i] \in S  BY ValidIs
  <2> HIDE DEF S
  <2> QED BY <2>1
<1>5. vs # <<>>  BY DEF ValidOutput
<1> HIDE DEF S, R
<1>6. acc \in State(S)  BY <1>2, <1>4, ScanSteps DEF Formats
<1>7. vs = Closed(acc).parts  BY <1>5 DEF SplitOutputs
<1> HIDE DEF acc, vs
<1>8. vs \in Seq(Seq(S) \ {<<>>})
  <2>1. CASE acc.cur = <<>>  BY <1>6, <1>7, <2>1 DEF Closed, State
  <2>2. CASE acc.cur # <<>>
    <3>1. acc.parts \in Seq(Seq(S) \ {<<>>}) /\ acc.cur \in Seq(S) \ {<<>>}
      BY <1>6, <2>2 DEF State
    <3>2. vs = Append(acc.parts, acc.cur)  BY <1>6, <1>7, <2>2 DEF Closed, State
    <3> QED BY <3>1, <3>2
  <2> QED BY <2>1, <2>2
<1>9. JoinOutputs(vs) \in Seq(R)
  <2>1. vs \in Seq(Seq(S))  BY <1>8, SeqMonotonic
  <2> QED BY <1>3, <2>1, JoinSteps
<1>10. SplitOutputs(JoinOutputs(vs)) = vs
  <2>1. Seq(S) \subseteq Seq(Char)
    <3>1. S \subseteq Char  BY DEF S
    <3> QED BY <3>1, SeqMonotonic
  <2>2. vs \in Seq(Seq(Char) \ {<<>>})
    <3>1. Seq(S) \ {<<>>} \subseteq Seq(Char) \ {<<>>}  BY <2>1
    <3> QED BY <1>8, <3>1, SeqMonotonic
  <2> QED BY <2>2, JoinedScans DEF SplitOutputs, Apart, Start
<1>11. ToSet(JoinOutputs(vs)) \cap {"\n", "\r"} = {}
  <2>1. PICK r \in Seq(R) : r = JoinOutputs(vs)  BY <1>9
  <2>2. \A i \in 1..Len(r) : r[i] \in R  OBVIOUS
  <2>3. ToSet(r) \subseteq R  BY <2>2 DEF ToSet
  <2> QED BY <2>1, <2>3 DEF R
<1> QED BY <1>5, <1>10, <1>11 DEF ValidOutput, vs

-----------------------------------------------------------------------------
(* Fields and values *)

\* What was escaped is read back.
LEMMA EscapedReadsBack ==
  ASSUME NEW format \in Formats, NEW s \in Seq(Char)
  PROVE  /\ Scan(format, Escape(format, s)).cur = s
         /\ WellFormed(Scan(format, Escape(format, s)))
<1> DEFINE E == Escape(format, s)
<1>1. Whole(format, Char)  BY CharWhole
<1>2. Within(format, Char) /\ Spelled(format, Char, Char)  BY <1>1, WholeIs
<1>3. Scan(format, <<>>) = Start  BY <1>2, ScanSteps
<1>4. E \in Seq(Char)  BY <1>2, EscapeSteps
<1>5. ~Scan(format, <<>>).esc /\ <<>> \in Seq(Char)  BY <1>3 DEF Start
<1>6. Scan(format, <<>> \o E) = Added(Scan(format, <<>>), s)
  BY <1>1, <1>5, ScanEscaped DEF ReadsOn
<1>7. <<>> \o E = E /\ <<>> \o s = s  BY <1>4, ConcatEmptySeq
<1>8. Scan(format, E) = Added(Start, s)  BY <1>3, <1>6, <1>7
<1>9. Added(Start, s).cur = s /\ WellFormed(Added(Start, s))
  BY <1>7 DEF Added, Start, WellFormed
<1> QED BY <1>8, <1>9

\* An escaped text begins with a backslash or a character that needs none.
LEMMA EscapeBegins ==
  ASSUME NEW format \in Formats, NEW s \in Seq(Char), s # <<>>
  PROVE  /\ Escape(format, s) # <<>>
         /\ Escape(format, s)[1] = "\\" \/ Escape(format, s)[1] \notin Special(format)
<1> DEFINE E(w) == Escape(format, w)
           Begins(x) == x # <<>> /\ (x[1] = "\\" \/ x[1] \notin Special(format))
           T == {w \in Seq(Char) : w # <<>> => Begins(E(w))}
<1>1. Spelled(format, Char, Char)  BY CharWhole, WholeIs
<1>2. /\ \A w \in Seq(Char) : E(w) \in Seq(Char)
      /\ \A w \in Seq(Char), c \in Char : E(Append(w, c)) = E(w) \o EscapeChar(format, c)
      /\ E(<<>>) = <<>>
  BY <1>1, EscapeSteps
<1>3. <<>> \in T  OBVIOUS
<1>4. ASSUME NEW w \in Seq(Char), NEW c \in Char, w \in T PROVE Append(w, c) \in T
  <2> DEFINE x == EscapeChar(format, c)
  <2>1. x \in Seq(Char)  BY <1>1, EscapeCharType
  <2>2. Begins(x)
    <3>1. CASE c \in Special(format)
      <4>1. PICK l : x = <<"\\", l>>  BY <3>1, EscapeCharIs
      <4> HIDE DEF x
      <4> QED BY <4>1
    <3>2. CASE c \notin Special(format)
      <4>1. x = <<c>>  BY <3>2, EscapeCharIs
      <4> HIDE DEF x
      <4> QED BY <3>2, <4>1
    <3> QED BY <3>1, <3>2
  <2>3. E(Append(w, c)) = E(w) \o x /\ E(w) \in Seq(Char)  BY <1>2
  <2> HIDE DEF x
  <2>4. Begins(E(w) \o x)
    <3>1. CASE w = <<>>
      <4>1. E(w) \o x = x  BY <1>2, <2>1, <3>1, ConcatEmptySeq
      <4> QED BY <2>2, <4>1
    <3>2. CASE w # <<>>
      <4>1. PICK y \in Seq(Char) : y = E(w)  BY <2>3
      <4>2. Begins(y)  BY <1>4, <3>2, <4>1
      <4>3. (y \o x)[1] = y[1] /\ y \o x # <<>>  BY <2>1, <4>2
      <4> QED BY <4>1, <4>2, <4>3
    <3> QED BY <3>1, <3>2
  <2>5. Append(w, c) \in Seq(Char)  OBVIOUS
  <2> HIDE DEF E, Begins
  <2> QED BY <2>3, <2>4, <2>5
<1>5. Seq(Char) \subseteq T
  <2> HIDE DEF T
  <2> QED BY <1>3, <1>4, SeqSetInduction
<1>6. s \in T  BY <1>5
<1> QED BY <1>6

\* A text without special characters is written as it is.
LEMMA EscapePlain ==
  ASSUME NEW format \in Formats, NEW s \in Seq(Char \ Special(format))
  PROVE  Escape(format, s) = s
<1> DEFINE S == Char \ Special(format)
           T == {w \in Seq(S) : Escape(format, w) = w}
<1>1. Spelled(format, Char, Char)  BY CharWhole, WholeIs
<1>2. /\ Escape(format, <<>>) = <<>>
      /\ \A w \in Seq(Char), c \in Char :
           Escape(format, Append(w, c)) = Escape(format, w) \o EscapeChar(format, c)
  BY <1>1, EscapeSteps
<1>3. <<>> \in T
  <2>1. <<>> \in Seq(S)  OBVIOUS
  <2> QED BY <1>2, <2>1
<1>4. ASSUME NEW w \in Seq(S), NEW c \in S, w \in T PROVE Append(w, c) \in T
  <2>1. w \in Seq(Char) /\ c \in Char /\ c \notin Special(format)  BY SeqMonotonic
  <2>2. EscapeChar(format, c) = <<c>>  BY <2>1, EscapeCharIs
  <2>3. w \o <<c>> = Append(w, c)  BY <2>1, AppendIsConcat
  <2>4. Append(w, c) \in Seq(S)  OBVIOUS
  <2> QED BY <1>2, <1>4, <2>1, <2>2, <2>3, <2>4
<1>5. Seq(S) \subseteq T
  <2> HIDE DEF T, S
  <2> QED BY <1>3, <1>4, SeqSetInduction
<1> QED BY <1>5

LEMMA PairHasTwo ==
  ASSUME NEW x, NEW y, x # y
  PROVE  Cardinality({x, y}) = 2
<1>1. IsFiniteSet({x}) /\ Cardinality({x}) = 1  BY FS_Singleton, Zenon
<1>2. y \notin {x}  OBVIOUS
<1>3. Cardinality({x} \cup {y}) = Cardinality({x}) + 1  BY <1>1, <1>2, FS_AddElement
<1>4. {x} \cup {y} = {x, y}  OBVIOUS
<1>5. Cardinality({x, y}) = Cardinality({x}) + 1  BY <1>3, <1>4
<1>6. 1 + 1 = 2  OBVIOUS
<1> QED BY <1>1, <1>5, <1>6, Zenon

\* FieldSurvives, for one text.
LEMMA FieldBack ==
  ASSUME NEW s \in Seq(Char), s # <<>>
  PROVE  /\ IsLine(WriteUsage(s, s))
         /\ ReadUsage(WriteUsage(s, s)) = <<s, s>>
<1> DEFINE R == Char \ {"\n", "\r", "\t"}
           E == Escape("field", s)
           a == Len(E)
           line == WriteUsage(s, s)
<1>1. "field" \in Formats  BY DEF Formats
<1>2. /\ Special("field") = {"#", "\\", "\n", "\t", "\r"}
      /\ Letters("field") = {"#", "\\", "n", "t", "r"}
  BY SpecialIs DEF Letters
<1>3. Spelled("field", Char, R)  BY <1>2 DEF Spelled, Char
<1>4. E \in Seq(R)  BY <1>1, <1>3, EscapeSteps
<1>5. E # <<>> /\ E[1] # "#"  BY <1>1, <1>2, EscapeBegins
<1>6. Scan("field", E).cur = s /\ WellFormed(Scan("field", E))
  BY <1>1, EscapedReadsBack
<1>7. line = ((E \o <<"\t">>) \o E) \o <<"\t", "1">>  BY DEF WriteUsage, EscapeTsvField
<1>8. /\ a \in Nat \ {0}
      /\ \A i \in 1..a : E[i] # "\n" /\ E[i] # "\t"
  <2>1. \A i \in 1..a : E[i] \in R  BY <1>4
  <2> QED BY <1>4, <1>5, <2>1
<1>9. E \in Seq(Char)
  <2>1. R \subseteq Char  OBVIOUS
  <2> QED BY <1>4, <2>1, SeqMonotonic
<1>10. "\t" \in Char /\ "1" \in Char  BY DEF Char
<1> HIDE DEF E, R
<1>11. /\ line \in Seq(Char) /\ Len(line) = a + a + 3
       /\ line[a + 1] = "\t" /\ line[a + a + 2] = "\t" /\ line[a + a + 3] = "1"
       /\ \A i \in 1..a : line[i] = E[i] /\ line[a + 1 + i] = E[i]
  BY <1>7, <1>8, <1>9, <1>10
<1> HIDE DEF line, a
<1>12. DOMAIN line = 1..a + a + 3  BY <1>11
<1>13. ASSUME NEW i \in 1..a + a + 3
       PROVE  i \in {a + 1, a + a + 2, a + a + 3} \/ (line[i] # "\t" /\ line[i] # "\n")
  <2>1. CASE i \in 1..a  BY <1>8, <1>11, <2>1
  <2>2. CASE i - (a + 1) \in 1..a
    <3>1. PICK j \in 1..a : i = a + 1 + j  BY <1>8, <2>2
    <3> QED BY <1>8, <1>11, <3>1
  <2>3. i \in 1..a \/ i - (a + 1) \in 1..a \/ i \in {a + 1, a + a + 2, a + a + 3}
    BY <1>8
  <2> QED BY <2>1, <2>2, <2>3
<1>14. IsLine(line)
  <2> SUFFICES ASSUME NEW i \in 1..a + a + 3 PROVE line[i] # "\n"
    BY <1>12 DEF IsLine
  <2>1. CASE i \in {a + 1, a + a + 2, a + a + 3}  BY <1>11, <2>1
  <2> QED BY <1>13, <2>1
<1>15. TrimCR(line) = line
  <2>1. line # <<>> /\ line[Len(line)] # "\r"  BY <1>8, <1>11
  <2> QED BY <1>11, <2>1, TrimCRWhole
<1>16. Tabs(line) = {a + 1, a + a + 2}
  <2>1. a + 1 \in 1..a + a + 3 /\ a + a + 2 \in 1..a + a + 3 /\ a + a + 3 \in 1..a + a + 3
    BY <1>8
  <2>2. \A i \in 1..a + a + 3 : line[i] = "\t" => i \in {a + 1, a + a + 2}
    BY <1>11, <1>13
  <2> QED BY <1>11, <1>12, <2>1, <2>2 DEF Tabs
<1>17. a + 1 \in Nat /\ a + a + 2 \in Nat /\ a + 1 < a + a + 2  BY <1>8
<1>18. Cardinality(Tabs(line)) = 2
  <2>1. a + 1 # a + a + 2  BY <1>17
  <2>2. Cardinality({a + 1, a + a + 2}) = 2  BY ONLY <2>1, PairHasTwo
  <2> QED BY <1>16, <2>2
<1> DEFINE t1 == CHOOSE i \in Tabs(line) : \A j \in Tabs(line) : i <= j
           t2 == CHOOSE i \in Tabs(line) \ {t1} : \A j \in Tabs(line) \ {t1} : i <= j
<1>19. t1 = a + 1
  <2>1. \E i \in Tabs(line) : \A j \in Tabs(line) : i <= j
    <3>1. a + 1 \in Tabs(line)  BY <1>16
    <3>2. \A j \in Tabs(line) : a + 1 <= j  BY <1>16, <1>17
    <3> QED BY <3>1, <3>2
  <2>2. t1 \in Tabs(line) /\ \A j \in Tabs(line) : t1 <= j  BY <2>1
  <2> HIDE DEF t1
  <2> QED BY <1>16, <1>17, <2>2
<1>20. t2 = a + a + 2
  <2>1. Tabs(line) \ {t1} = {a + a + 2}
    <3>1. a + 1 # a + a + 2  BY <1>17
    <3>2. {a + 1, a + a + 2} \ {a + 1} = {a + a + 2}  BY ONLY <3>1
    <3> QED BY <1>16, <1>19, <3>2
  <2> HIDE DEF t1
  <2>2. \E i \in Tabs(line) \ {t1} : \A j \in Tabs(line) \ {t1} : i <= j
    <3>1. a + a + 2 \in Tabs(line) \ {t1}  BY <2>1
    <3>2. \A j \in Tabs(line) \ {t1} : a + a + 2 <= j  BY <1>17, <2>1
    <3> QED BY <3>1, <3>2
  <2>3. t2 \in Tabs(line) \ {t1}  BY <2>2
  <2> HIDE DEF t2
  <2> QED BY <2>1, <2>3
<1>21. SubSeq(line, 1, (a + 1) - 1) = E
  <2> DEFINE u == SubSeq(line, 1, (a + 1) - 1)
  <2>1. u \in Seq(Char) /\ Len(u) = a /\ \A i \in 1..a : u[i] = line[i]
    BY <1>8, <1>11
  <2> HIDE DEF u
  <2>2. u = E  BY <1>9, <1>11, <2>1, SeqEqual DEF a
  <2> QED BY <2>2 DEF u
<1>22. SubSeq(line, (a + 1) + 1, (a + a + 2) - 1) = E
  <2> DEFINE u == SubSeq(line, (a + 1) + 1, (a + a + 2) - 1)
  <2>1. u \in Seq(Char) /\ Len(u) = a /\ \A i \in 1..a : u[i] = line[a + 1 + i]
    BY <1>8, <1>11
  <2> HIDE DEF u
  <2>2. u = E  BY <1>9, <1>11, <2>1, SeqEqual DEF a
  <2> QED BY <2>2 DEF u
<1>23. UnescapeTsvField(E) = s  BY <1>6 DEF UnescapeTsvField
<1>24. line # <<>> /\ line[1] # "#"
  <2>1. 1 \in 1..a  BY <1>8
  <2> QED BY <1>5, <1>8, <1>11, <2>1
<1> DEFINE base == UnescapeTsvField(SubSeq(line, 1, t1 - 1))
           variant == UnescapeTsvField(SubSeq(line, t1 + 1, t2 - 1))
<1>25. base = s /\ variant = s
  <2> HIDE DEF t1, t2
  <2> QED BY <1>19, <1>20, <1>21, <1>22, <1>23
<1>26. ReadUsage(line) = <<s, s>>
  <2>1. ~(Cardinality(Tabs(line)) < 2)  BY <1>18
  <2>2. ReadUsage(line) = IF \/ line = <<>> \/ line[1] = "#"
                             \/ Cardinality(Tabs(line)) < 2
                             \/ base = NoField \/ variant = NoField
                          THEN <<>> ELSE <<base, variant>>
    BY <1>15 DEF ReadUsage
  <2> HIDE DEF base, variant
  <2> QED BY <1>24, <1>25, <2>1, <2>2 DEF NoField
<1> QED BY <1>14, <1>26 DEF line

\* A value that neither begins nor ends with a blank is not trimmed.
Solid(s) == s # <<>> => s[1] \notin Blank /\ s[Len(s)] \notin Blank
LEMMA TrimIniWhole ==
  ASSUME NEW S, NEW s \in Seq(S), Solid(s)
  PROVE  TrimIni(s) = s
<1> DEFINE solid == {i \in DOMAIN s : s[i] \notin Blank}
           first == CHOOSE i \in solid : \A j \in solid : i <= j
           last == CHOOSE i \in solid : \A j \in solid : j <= i
<1>1. DOMAIN s = 1..Len(s) /\ Len(s) \in Nat  OBVIOUS
<1>2. TrimIni(s) = IF solid = {} THEN <<>> ELSE SubSeq(s, first, last)  BY DEF TrimIni
<1>3. CASE s = <<>>
  <2>1. solid = {}  BY <1>3
  <2> QED BY <1>2, <1>3, <2>1
<1>4. CASE s # <<>>
  <2>1. Len(s) # 0 /\ s[1] \notin Blank /\ s[Len(s)] \notin Blank  BY <1>4 DEF Solid
  <2>2. 1 \in solid /\ Len(s) \in solid  BY <1>1, <2>1
  <2>3. \A j \in solid : j \in Nat /\ 1 <= j /\ j <= Len(s)  BY <1>1
  <2>4. first \in solid /\ \A j \in solid : first <= j  BY <2>2, <2>3
  <2>5. last \in solid /\ \A j \in solid : j <= last  BY <2>2, <2>3
  <2> HIDE DEF first, last, solid
  <2>6. first = 1  BY <2>2, <2>3, <2>4
  <2>7. last = Len(s)  BY <1>1, <2>2, <2>3, <2>5
  <2> QED BY <1>2, <2>2, <2>6, <2>7, SubSeqFull
<1> QED BY <1>3, <1>4

\* A line with a key and a value.
LEMMA IniLineIs ==
  ASSUME NEW w \in Seq(Char), Solid(w)
  PROVE  /\ ParseIniLine(<<"K", "=">> \o w) = [key |-> <<"K">>, value |-> UnescapeIniValue(w)]
         /\ IsLine(w) => IsLine(<<"K", "=">> \o w)
<1> DEFINE n == Len(w)
           line == <<"K", "=">> \o w
<1>1. "K" \in Char /\ "=" \in Char  BY DEF Char
<1>2. "K" \notin Blank /\ "=" \notin Blank  BY NamedDiffer DEF Blank
<1>3. /\ line \in Seq(Char) /\ Len(line) = n + 2 /\ n \in Nat
      /\ line[1] = "K" /\ line[2] = "="
      /\ \A i \in 1..n : line[i + 2] = w[i]
  BY <1>1
<1> HIDE DEF line, n
<1>4. DOMAIN line = 1..n + 2  BY <1>3
<1>5. IsLine(w) => IsLine(line)
  <2> SUFFICES ASSUME IsLine(w), NEW i \in 1..n + 2 PROVE line[i] # "\n"
    BY <1>4 DEF IsLine
  <2>1. DOMAIN w = 1..n  BY DEF n
  <2>2. CASE i \in {1, 2}  BY <1>3, <2>2
  <2>3. CASE i - 2 \in 1..n
    <3>1. PICK j \in 1..n : i = j + 2  BY <1>3, <2>3
    <3>2. w[j] # "\n"  BY <2>1 DEF IsLine
    <3> QED BY <1>3, <3>1, <3>2
  <2> QED BY <1>3, <2>2, <2>3
<1>6. TrimIni(line) = line
  <2>1. line[Len(line)] \notin Blank
    <3>1. CASE n = 0  BY <1>2, <1>3, <3>1
    <3>2. CASE n # 0
      <4>1. w # <<>> /\ n \in 1..n  BY <1>3, <3>2 DEF n
      <4>2. w[n] \notin Blank  BY <4>1 DEF Solid, n
      <4> QED BY <1>3, <4>1, <4>2
    <3> QED BY <3>1, <3>2
  <2>2. Solid(line)  BY <1>2, <1>3, <2>1 DEF Solid
  <2> QED BY <1>3, <2>2, TrimIniWhole
<1> DEFINE eqs == {i \in DOMAIN line : line[i] = "="}
           eq == CHOOSE i \in eqs : \A j \in eqs : i <= j
<1>7. eq = 2
  <2>1. 1 \notin eqs /\ 2 \in eqs /\ \A j \in eqs : j \in Nat /\ j >= 1
    BY <1>3, <1>4
  <2>2. \A j \in eqs : 2 <= j  BY <2>1
  <2>3. eq \in eqs /\ \A j \in eqs : eq <= j  BY <2>1, <2>2
  <2> HIDE DEF eq, eqs
  <2> QED BY <2>1, <2>2, <2>3
<1>8. eqs # {}  BY <1>3, <1>4
<1>9. SubSeq(line, 1, 2 - 1) = <<"K">>
  <2> DEFINE u == SubSeq(line, 1, 2 - 1)
  <2>1. u \in Seq(Char) /\ Len(u) = 1 /\ u[1] = line[1]  BY <1>3
  <2> HIDE DEF u
  <2>2. u = <<"K">>  BY <1>3, <2>1
  <2> QED BY <2>2 DEF u
<1>10. TrimIni(<<"K">>) = <<"K">>
  <2>1. PICK u : u = <<"K">>  OBVIOUS
  <2>2. u \in Seq({"K"}) /\ Solid(u)  BY <1>2, <2>1 DEF Solid
  <2>3. TrimIni(u) = u  BY <2>2, TrimIniWhole
  <2> QED BY <2>1, <2>3
<1>11. SubSeq(line, 2 + 1, Len(line)) = w
  <2> DEFINE u == SubSeq(line, 2 + 1, Len(line))
  <2>1. u \in Seq(Char) /\ Len(u) = n /\ \A i \in 1..n : u[i] = line[i + 2]  BY <1>3
  <2> HIDE DEF u
  <2>2. u = w  BY <1>3, <2>1, SeqEqual DEF n
  <2> QED BY <2>2 DEF u
<1>12. TrimIni(w) = w  BY TrimIniWhole
<1>13. ParseIniLine(line) = [key |-> TrimIni(SubSeq(line, 1, eq - 1)),
                             value |-> UnescapeIniValue(TrimIni(SubSeq(line, eq + 1, Len(line))))]
  <2>1. line # <<>> /\ line[1] # "#" /\ line[1] # "["  BY <1>3
  <2> QED BY <1>6, <1>8, <2>1 DEF ParseIniLine
<1> HIDE DEF eq
<1>14. ParseIniLine(line) = [key |-> <<"K">>, value |-> UnescapeIniValue(w)]
  BY <1>7, <1>9, <1>10, <1>11, <1>12, <1>13
<1> QED BY <1>5, <1>14 DEF line

\* ValueSurvives, for one text.
LEMMA ValueBack ==
  ASSUME NEW s \in Seq(Char)
  PROVE  LET line == <<"K", "=">> \o EscapeIniValue(s)
         IN  IsLine(line) /\ ParseIniLine(line) = [key |-> <<"K">>, value |-> s]
<1> DEFINE w == EscapeIniValue(s)
<1>1. "ini" \in Formats  BY DEF Formats
<1>2. /\ Special("ini") = {Quote, "\\", "\n", "\t", "\r", "\f", "VT"}
      /\ Letters("ini") = {Quote, "\\", "n", "t", "r", "f", "v"}
  BY SpecialIs DEF Letters
<1>3. w \in Seq(Char) /\ Solid(w) /\ IsLine(w) /\ UnescapeIniValue(w) = s
  <2>1. CASE ToSet(s) \cap NeedsQuote = {}
    <3>1. \A i \in 1..Len(s) : s[i] \in Char /\ s[i] \notin NeedsQuote
      <4> TAKE i \in 1..Len(s)
      <4>1. s[i] \in ToSet(s)  BY DEF ToSet
      <4> QED BY <2>1, <4>1
    <3>2. NeedsQuote = Blank \cup {"\n", "\f", "VT", Quote, "\\"} /\ Blank = {Space, "\t", "\r"}
      BY DEF NeedsQuote, Blank
    <3>3. s \in Seq(Char \ Special("ini"))
      <4>1. \A i \in 1..Len(s) : s[i] \in Char \ Special("ini")  BY <1>2, <3>1, <3>2
      <4> HIDE DEF Char
      <4> QED BY <4>1
    <3>4. Escape("ini", s) = s  BY <1>1, <3>3, EscapePlain
    <3>5. w = (<<>> \o s) \o <<>>  BY <2>1, <3>4 DEF EscapeIniValue
    <3>6. w = s  BY <3>5, ConcatEmptySeq
    <3>7. Solid(s)
      <4>1. s # <<>> => 1 \in 1..Len(s) /\ Len(s) \in 1..Len(s)  OBVIOUS
      <4> QED BY <3>1, <3>2, <4>1 DEF Solid
    <3>8. IsLine(s)
      <4>1. DOMAIN s = 1..Len(s)  OBVIOUS
      <4> QED BY <3>1, <3>2, <4>1 DEF IsLine
    <3>9. UnescapeIniValue(s) = s
      <4>1. Len(s) < 2 \/ s[1] # Quote
        <5>1. ~(Len(s) < 2) => 1 \in 1..Len(s)  OBVIOUS
        <5> QED BY <3>1, <3>2, <5>1
      <4> QED BY <4>1 DEF UnescapeIniValue
    <3> HIDE DEF w
    <3> QED BY <3>6, <3>7, <3>8, <3>9
  <2>2. CASE ToSet(s) \cap NeedsQuote # {}
    <3> DEFINE X == Escape("ini", s)
               R == Char \ {"\n"}
               n == Len(X)
    <3>1. w = (<<Quote>> \o X) \o <<Quote>>  BY <2>2 DEF EscapeIniValue
    <3>2. Spelled("ini", Char, R)  BY <1>2, NamedDiffer DEF Spelled, Char
    <3>3. X \in Seq(R)  BY <1>1, <3>2, EscapeSteps
    <3>4. X \in Seq(Char)
      <4>1. R \subseteq Char  OBVIOUS
      <4> QED BY <3>3, <4>1, SeqMonotonic
    <3>5. \A i \in 1..n : X[i] # "\n"
      <4>1. \A i \in 1..n : X[i] \in R  BY <3>3
      <4> QED BY <4>1
    <3>6. Quote \in Char  BY DEF Char
    <3>7. Scan("ini", X).cur = s /\ WellFormed(Scan("ini", X))
      BY <1>1, EscapedReadsBack
    <3> HIDE DEF X, R, w
    <3>8. /\ w \in Seq(Char) /\ Len(w) = n + 2 /\ n \in Nat
          /\ w[1] = Quote /\ w[n + 2] = Quote
          /\ \A i \in 1..n : w[i + 1] = X[i]
      BY <3>1, <3>4, <3>6
    <3>9. Solid(w)
      <4>1. Quote \notin Blank  BY NamedDiffer DEF Blank
      <4> QED BY <3>8, <4>1 DEF Solid
    <3> HIDE DEF n
    <3>10. IsLine(w)
      <4>1. DOMAIN w = 1..n + 2  BY <3>8
      <4> SUFFICES ASSUME NEW i \in 1..n + 2 PROVE w[i] # "\n"
        BY <4>1 DEF IsLine
      <4>2. CASE i \in {1, n + 2}  BY <3>8, <4>2, NamedDiffer
      <4>3. CASE i - 1 \in 1..n
        <5>1. PICK j \in 1..n : i = j + 1  BY <3>8, <4>3
        <5> QED BY <3>5, <3>8, <5>1
      <4> QED BY <3>8, <4>2, <4>3
    <3>11. SubSeq(w, 2, Len(w) - 1) = X
      <4> DEFINE u == SubSeq(w, 2, Len(w) - 1)
      <4>1. u \in Seq(Char) /\ Len(u) = n /\ \A i \in 1..n : u[i] = w[i + 1]  BY <3>8
      <4> HIDE DEF u
      <4>2. u = X  BY <3>4, <3>8, <4>1, SeqEqual DEF n
      <4> QED BY <4>2 DEF u
    <3>12. UnescapeIniValue(w) = s
      <4>1. ~(Len(w) < 2) /\ w[Len(w)] = Quote  BY <3>8
      <4> QED BY <3>7, <3>8, <3>11, <4>1 DEF UnescapeIniValue
    <3> QED BY <3>8, <3>9, <3>10, <3>12
  <2> QED BY <2>1, <2>2
<1> HIDE DEF w
<1> QED BY <1>3, IniLineIs DEF w

-----------------------------------------------------------------------------
\* The text is made of the characters that may be typed.
Typed == text \in Seq(Chars)
LEMMA TextIsTyped == CodecSpec => []Typed
<1>1. CodecInit => Typed  BY DEF CodecInit, Typed
<1>2. Typed /\ [CodecNext]_codecVars => Typed'
  BY DEF CodecNext, Type, codecVars, Typed
<1> QED BY <1>1, <1>2, PTL DEF CodecSpec

\* What the editor, the usage file and the settings write is read back as it was, for
\* every text: a mapping with any input, the variants of an output, the fields of a
\* sidecar line and the value of a setting.
THEOREM TextAlwaysSurvives == CodecSpec => []TextSurvives
<1>1. Typed => TextSurvives
  <2> SUFFICES ASSUME Typed PROVE TextSurvives  OBVIOUS
  <2>1. text \in Seq(Char)
    <3>1. Chars \subseteq Char  BY DEF Char
    <3> QED BY <3>1, SeqMonotonic DEF Typed
  <2>2. MappingSurvives  BY <2>1, MappingBack DEF MappingSurvives
  <2>3. VariantsSurvive  BY <2>1, VariantsBack DEF VariantsSurvive
  <2>4. FieldSurvives  BY <2>1, FieldBack DEF FieldSurvives
  <2>5. ValueSurvives  BY <2>1, ValueBack DEF ValueSurvives
  <2> QED BY <2>2, <2>3, <2>4, <2>5 DEF TextSurvives
<1> QED BY <1>1, TextIsTyped, PTL
=============================================================================
