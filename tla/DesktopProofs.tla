----------------------------- MODULE DesktopProofs -----------------------------
(***************************************************************************)
(* What is proved about the sources and the sink at the edge of the        *)
(* system: the keymap and the wire of the sink, the focus source and its   *)
(* reordered answers, and the KWin source, its files, its scripts and the  *)
(* safety part of the promise of every cursor source.                      *)
(*                                                                         *)
(* All three talk over queues: the lemmas on those come first.             *)
(***************************************************************************)
EXTENDS Sink, FocusSource, KWinCursor, FiniteSetTheorems, SequenceTheorems, TLAPS

-----------------------------------------------------------------------------
\* A queue, whatever is in it.
IsSeq(s) == \E S : s \in Seq(S)

LEMMA EmptyIsSeq == IsSeq(<<>>)
<1>1. <<>> \in Seq({})
  BY EmptySeq
<1>2. QED
  BY <1>1 DEF IsSeq

LEMMA AppendedSeq ==
  ASSUME NEW s, IsSeq(s), NEW x
  PROVE  /\ IsSeq(Append(s, x)) /\ Len(s) \in Nat /\ Len(Append(s, x)) = Len(s) + 1
         /\ \A i \in 1 .. Len(s) : Append(s, x)[i] = s[i]
         /\ Append(s, x)[Len(s) + 1] = x
         /\ s \o <<x>> = Append(s, x)
<1>1. PICK S : s \in Seq(S)
  BY DEF IsSeq
<1> DEFINE T == S \cup {x}
<1>2. s \in Seq(T)
  <2>1. S \subseteq T
    OBVIOUS
  <2>2. QED
    BY <1>1, <2>1
<1>3. x \in T
  OBVIOUS
<1> HIDE DEF T
<1>4. QED
  BY <1>2, <1>3, AppendProperties, AppendIsConcat, LenProperties DEF IsSeq

LEMMA TailSeq ==
  ASSUME NEW s, IsSeq(s), s # <<>>
  PROVE  /\ IsSeq(Tail(s)) /\ Len(s) \in Nat \ {0} /\ Len(Tail(s)) = Len(s) - 1
         /\ \A i \in 1 .. Len(Tail(s)) : Tail(s)[i] = s[i + 1]
         /\ Head(s) = s[1]
  BY HeadTailProperties, LenProperties, EmptySeq DEF IsSeq

LEMMA ConcatNothing ==
  ASSUME NEW s, IsSeq(s)
  PROVE  s \o <<>> = s
  BY ConcatEmptySeq DEF IsSeq

\* What is left of a queue is that queue from its second message on.
LEMMA RestOf ==
  ASSUME NEW s, IsSeq(s), s # <<>>
  PROVE  /\ IsSeq(Tail(s)) /\ Head(s) = s[1] /\ 1 \in 1 .. Len(s)
         /\ \A i \in 1 .. Len(Tail(s)) : /\ i + 1 \in 1 .. Len(s) /\ Tail(s)[i] = s[i + 1]
                                         /\ i + 1 # 1
         /\ \A i \in 1 .. Len(s) :
              i = 1 \/ \E j \in 1 .. Len(Tail(s)) : i = j + 1 /\ Tail(s)[j] = s[i]
         /\ \A i, j \in 1 .. Len(Tail(s)) : i + 1 = j + 1 => i = j
<1>1. /\ IsSeq(Tail(s)) /\ Len(s) \in Nat \ {0} /\ Len(Tail(s)) = Len(s) - 1
      /\ \A i \in 1 .. Len(Tail(s)) : Tail(s)[i] = s[i + 1]
      /\ Head(s) = s[1]
  BY TailSeq
<1>2. \A i \in 1 .. Len(Tail(s)) : i + 1 \in 1 .. Len(s) /\ i + 1 # 1
  BY <1>1
<1>3. ASSUME NEW i \in 1 .. Len(s), i # 1
      PROVE  \E j \in 1 .. Len(Tail(s)) : i = j + 1 /\ Tail(s)[j] = s[i]
  <2>1. i - 1 \in 1 .. Len(Tail(s)) /\ i = (i - 1) + 1
    BY <1>1, <1>3
  <2>2. Tail(s)[i - 1] = s[i]
    BY <1>1, <2>1
  <2>3. QED
    BY <2>1, <2>2
<1>4. \A i, j \in 1 .. Len(Tail(s)) : i + 1 = j + 1 => i = j
  BY <1>1
<1>5. 1 \in 1 .. Len(s)
  BY <1>1
<1>6. QED
  BY <1>1, <1>2, <1>3, <1>4, <1>5

LEMMA SameSequence ==
  ASSUME NEW s, NEW t, IsSeq(s), IsSeq(t), Len(s) = Len(t),
         \A i \in 1 .. Len(s) : s[i] = t[i]
  PROVE  s = t
<1>1. PICK S : s \in Seq(S)
  BY DEF IsSeq
<1>2. PICK T : t \in Seq(T)
  BY DEF IsSeq
<1>3. s \in Seq(S \cup T) /\ t \in Seq(S \cup T)
  <2>1. S \subseteq S \cup T /\ T \subseteq S \cup T
    OBVIOUS
  <2>2. QED
    BY <1>1, <1>2, <2>1
<1>4. QED
  BY <1>3, SeqEqual

-----------------------------------------------------------------------------
\* The sink.  A new character gets the slot that the counter stands at, above all
\* others.
LEMMA NewSlot ==
  ASSUME SlotsAreDense, NEW c, c \notin DOMAIN slotByCodepoint,
         nextSlot <= kLastInjectionKeycode,
         slotByCodepoint' = WithSlot(c), nextSlot' = nextSlot + 1
  PROVE  SlotsAreDense'
<1> DEFINE old == DOMAIN slotByCodepoint
<1>1. /\ nextSlot \in Int /\ kFirstInjectionKeycode \in Int /\ kLastInjectionKeycode \in Int
      /\ kFirstInjectionKeycode <= nextSlot
  BY SinkAssumption DEF SlotsAreDense
<1>2. /\ DOMAIN slotByCodepoint' = old \cup {c}
      /\ slotByCodepoint'[c] = nextSlot
      /\ \A d \in old : slotByCodepoint'[d] = slotByCodepoint[d]
  BY DEF WithSlot
<1>3. \A d \in old : slotByCodepoint[d] \in kFirstInjectionKeycode .. nextSlot - 1
  BY DEF SlotsAreDense
<1>4. nextSlot' \in kFirstInjectionKeycode .. kLastInjectionKeycode + 1
  BY <1>1, SinkAssumption
<1>5. {slotByCodepoint'[d] : d \in DOMAIN slotByCodepoint'}
        = kFirstInjectionKeycode .. nextSlot' - 1
  <2>1. {slotByCodepoint'[d] : d \in DOMAIN slotByCodepoint'}
          = {slotByCodepoint[d] : d \in old} \cup {nextSlot}
    BY <1>2
  <2>2. {slotByCodepoint[d] : d \in old} = kFirstInjectionKeycode .. nextSlot - 1
    BY DEF SlotsAreDense
  <2>3. (kFirstInjectionKeycode .. nextSlot - 1) \cup {nextSlot}
          = kFirstInjectionKeycode .. nextSlot' - 1
    BY <1>1
  <2>4. QED
    BY <2>1, <2>2, <2>3
<1>6. \A d, e \in DOMAIN slotByCodepoint' :
         slotByCodepoint'[d] = slotByCodepoint'[e] => d = e
  <2> SUFFICES ASSUME NEW d \in old \cup {c}, NEW e \in old \cup {c},
                      slotByCodepoint'[d] = slotByCodepoint'[e]
               PROVE  d = e
    BY <1>2
  <2>1. \A f \in old : slotByCodepoint'[f] # nextSlot
    BY <1>1, <1>2, <1>3
  <2>2. CASE d \in old /\ e \in old
    BY <2>2, <1>2 DEF SlotsAreDense
  <2>3. CASE d = c \/ e = c
    BY <2>1, <2>3, <1>2
  <2>4. QED
    BY <2>2, <2>3
<1>7. QED
  BY <1>4, <1>5, <1>6 DEF SlotsAreDense

LEMMA SlotsAreDenseAtFirst ==
  ASSUME SinkInit
  PROVE  SlotsAreDense
  BY SinkAssumption DEF SinkInit, NoKeymap, SlotsAreDense

LEMMA SinkStepKeepsSlots ==
  ASSUME SlotsAreDense, [SinkNext]_sinkVars
  PROVE  SlotsAreDense'
<1>1. CASE PressNew
  BY <1>1, NewSlot DEF PressNew
<1>2. CASE UNCHANGED <<slotByCodepoint, nextSlot>>
  BY <1>2 DEF SlotsAreDense
<1>3. QED
  BY <1>1, <1>2 DEF SinkNext, sinkVars, InitSink, Commit, PressKnown, UploadFails,
                    RollBack, KeymapFull, RoundTrip, Serve, Disconnect

\* Whatever texts are committed, and whichever uploads fail or run out of slots: the
\* slots in use are exactly those below the counter, one per character (slotFor,
\* 150-184).
THEOREM SlotsStayDense == SinkSpec => []SlotsAreDense
  BY SlotsAreDenseAtFirst, SinkStepKeepsSlots, PTL DEF SinkSpec

\* The wire.  A keymap that gives its characters the slots of another.
PartOf(map, slots) ==
  DOMAIN map \subseteq DOMAIN slots /\ \A c \in DOMAIN map : map[c] = slots[c]
UploadAt(w, i) == w[i].request = "keymap"

\* The keymap that is held when the i-th request is served knows the character.
KnownAt(w, map, i, c) ==
  \/ c \in DOMAIN map
  \/ \E j \in 1 .. Len(w) : j < i /\ UploadAt(w, j) /\ c \in DOMAIN w[j].map

\* count[i] characters are typed when the i-th request is served: each key types the
\* next of those that were sent, or nothing if its character is silent.
KeyIsOwed(w, map, slots, out, count, i) ==
  \E c \in DOMAIN slots :
    /\ slots[c] = w[i].slot
    /\ KnownAt(w, map, i, c)
    /\ IF c \in Silent THEN count[i + 1] = count[i]
       ELSE /\ count[i + 1] = count[i] + 1
            /\ count[i + 1] \in 1 .. Len(out) /\ out[count[i + 1]] = c
UploadIsOwed(w, map, slots, count, i) ==
  /\ count[i + 1] = count[i]
  /\ PartOf(w[i].map, slots) /\ DOMAIN map \subseteq DOMAIN w[i].map
  /\ \A j \in 1 .. Len(w) :
       j < i /\ UploadAt(w, j) => DOMAIN w[j].map \subseteq DOMAIN w[i].map
WireTypes(w, map, slots, out, count) ==
  /\ IsSeq(w) /\ IsSeq(out)
  /\ PartOf(map, slots)
  /\ count \in [1 .. Len(w) + 1 -> Nat]
  /\ count[Len(w) + 1] = Len(out)
  /\ \A i \in 1 .. Len(w) :
       \/ w[i].request = "keymap" /\ UploadIsOwed(w, map, slots, count, i)
       \/ w[i].request = "key" /\ KeyIsOwed(w, map, slots, out, count, i)

\* A new character gets a slot.
LEMMA SlotsGrow ==
  ASSUME NEW w, NEW map, NEW slots, NEW out, NEW count,
         WireTypes(w, map, slots, out, count), NEW more, PartOf(slots, more)
  PROVE  WireTypes(w, map, more, out, count)
<1>1. \A m : PartOf(m, slots) => PartOf(m, more)
  BY DEF PartOf
<1>2. ASSUME NEW i \in 1 .. Len(w), UploadIsOwed(w, map, slots, count, i)
      PROVE  UploadIsOwed(w, map, more, count, i)
  BY <1>1, <1>2 DEF UploadIsOwed
<1>3. ASSUME NEW i \in 1 .. Len(w), KeyIsOwed(w, map, slots, out, count, i)
      PROVE  KeyIsOwed(w, map, more, out, count, i)
  BY <1>3 DEF KeyIsOwed, PartOf
<1>4. QED
  BY <1>1, <1>2, <1>3 DEF WireTypes

\* The count behind one more request.
Longer(w, count, k) ==
  [i \in 1 .. Len(w) + 2 |-> IF i = Len(w) + 2 THEN k ELSE count[i]]

LEMMA WireGrows ==
  ASSUME NEW w, NEW map, NEW slots, NEW out, NEW count,
         WireTypes(w, map, slots, out, count),
         NEW r, NEW k \in Nat
  PROVE  /\ IsSeq(Append(w, r)) /\ Len(w) \in Nat /\ Len(Append(w, r)) = Len(w) + 1
         /\ 1 .. Len(Append(w, r)) = (1 .. Len(w)) \cup {Len(w) + 1}
         /\ Append(w, r)[Len(w) + 1] = r
         /\ \A i \in 1 .. Len(w) : Append(w, r)[i] = w[i]
         /\ Longer(w, count, k) \in [1 .. Len(w) + 2 -> Nat]
         /\ Longer(w, count, k)[Len(w) + 2] = k
         /\ Longer(w, count, k)[Len(w) + 1] = Len(out)
         /\ Longer(w, count, k)[1] = count[1]
         /\ \A i \in 1 .. Len(w) : /\ Longer(w, count, k)[i] = count[i]
                                   /\ Longer(w, count, k)[i + 1] = count[i + 1]
         /\ \A i \in 1 .. Len(w) + 1 : \A c :
              KnownAt(w, map, i, c) => KnownAt(Append(w, r), map, i, c)
<1> DEFINE new == Append(w, r) longer == Longer(w, count, k)
<1>1. /\ IsSeq(new) /\ Len(w) \in Nat /\ Len(new) = Len(w) + 1
      /\ \A i \in 1 .. Len(w) : new[i] = w[i]
      /\ new[Len(w) + 1] = r
  BY AppendedSeq DEF WireTypes
<1>2. 1 .. Len(new) = (1 .. Len(w)) \cup {Len(w) + 1}
  BY <1>1
<1>3. longer \in [1 .. Len(w) + 2 -> Nat]
  <2>1. \A i \in 1 .. Len(w) + 2 : i = Len(w) + 2 \/ i \in 1 .. Len(w) + 1
    BY <1>1
  <2>2. QED
    BY <1>1, <2>1 DEF Longer, WireTypes
<1>4. /\ \A i \in 1 .. Len(w) + 1 : i \in 1 .. Len(w) + 2 /\ i # Len(w) + 2
      /\ \A i \in 1 .. Len(w) : i \in 1 .. Len(w) + 1 /\ i + 1 \in 1 .. Len(w) + 1
      /\ 1 \in 1 .. Len(w) + 1 /\ Len(w) + 1 \in 1 .. Len(w) + 1
      /\ Len(w) + 2 \in 1 .. Len(w) + 2
  BY <1>1
<1>5. \A i \in 1 .. Len(w) + 1 : longer[i] = count[i]
  BY <1>1, <1>4 DEF Longer
<1>6. longer[Len(w) + 2] = k
  BY <1>1, <1>4 DEF Longer
<1> HIDE DEF new, longer
<1>7. ASSUME NEW i \in 1 .. Len(w) + 1, NEW c, KnownAt(w, map, i, c)
      PROVE  KnownAt(new, map, i, c)
  BY <1>1, <1>2, <1>7 DEF KnownAt, UploadAt
<1>8. QED
  BY <1>1, <1>2, <1>3, <1>4, <1>5, <1>6, <1>7 DEF WireTypes, new, longer

\* What is owed stays owed behind one more request and with more characters sent.
LEMMA OwedStays ==
  ASSUME NEW w, NEW map, NEW slots, NEW out, NEW count,
         WireTypes(w, map, slots, out, count),
         NEW r, NEW k \in Nat,
         NEW sents, IsSeq(sents), Len(out) <= Len(sents), Len(sents) \in Nat,
         \A i \in 1 .. Len(out) : sents[i] = out[i],
         NEW i \in 1 .. Len(w)
  PROVE  \/ /\ Append(w, r)[i].request = "keymap"
            /\ UploadIsOwed(Append(w, r), map, slots, Longer(w, count, k), i)
         \/ /\ Append(w, r)[i].request = "key"
            /\ KeyIsOwed(Append(w, r), map, slots, sents, Longer(w, count, k), i)
<1> DEFINE new == Append(w, r) longer == Longer(w, count, k)
<1>1. /\ new[i] = w[i] /\ longer[i] = count[i] /\ longer[i + 1] = count[i + 1]
      /\ 1 .. Len(new) = (1 .. Len(w)) \cup {Len(w) + 1} /\ Len(w) \in Nat
      /\ \A j \in 1 .. Len(w) : new[j] = w[j]
      /\ i \in 1 .. Len(w) + 1
      /\ \A c : KnownAt(w, map, i, c) => KnownAt(new, map, i, c)
  <2>1. Len(w) \in Nat
    BY WireGrows
  <2>2. i \in 1 .. Len(w) + 1
    BY <2>1
  <2>3. QED
    BY <2>2, WireGrows
<1> HIDE DEF new, longer
<1>2. 1 .. Len(out) \subseteq 1 .. Len(sents)
  BY LenProperties DEF WireTypes, IsSeq
<1>3. ASSUME w[i].request = "keymap", UploadIsOwed(w, map, slots, count, i)
      PROVE  UploadIsOwed(new, map, slots, longer, i)
  <2>1. \A j \in 1 .. Len(new) : j < i => j \in 1 .. Len(w)
    BY <1>1
  <2>2. QED
    BY <1>1, <1>3, <2>1 DEF UploadIsOwed, UploadAt
<1>4. ASSUME w[i].request = "key", KeyIsOwed(w, map, slots, out, count, i)
      PROVE  KeyIsOwed(new, map, slots, sents, longer, i)
  <2>1. PICK c \in DOMAIN slots :
          /\ slots[c] = w[i].slot /\ KnownAt(w, map, i, c)
          /\ IF c \in Silent THEN count[i + 1] = count[i]
             ELSE /\ count[i + 1] = count[i] + 1
                  /\ count[i + 1] \in 1 .. Len(out) /\ out[count[i + 1]] = c
    BY <1>4 DEF KeyIsOwed
  <2>2. slots[c] = new[i].slot /\ KnownAt(new, map, i, c)
    BY <1>1, <2>1
  <2>3. IF c \in Silent THEN longer[i + 1] = longer[i]
        ELSE /\ longer[i + 1] = longer[i] + 1
             /\ longer[i + 1] \in 1 .. Len(sents) /\ sents[longer[i + 1]] = c
    BY <1>1, <1>2, <2>1
  <2>4. QED
    BY <2>2, <2>3 DEF KeyIsOwed
<1>5. QED
  BY <1>1, <1>3, <1>4 DEF WireTypes, new, longer

\* The keymap is uploaded.
LEMMA UploadAdded ==
  ASSUME NEW w, NEW map, NEW slots, NEW out, NEW count,
         WireTypes(w, map, slots, out, count),
         NEW r, r.request = "keymap", r.map = slots
  PROVE  /\ WireTypes(Append(w, r), map, slots, out,
                      Longer(w, count, Len(out)))
         /\ Longer(w, count, Len(out))[1] = count[1]
         /\ \A c \in DOMAIN slots : KnownAt(Append(w, r), map, Len(Append(w, r)) + 1, c)
<1> DEFINE new == Append(w, r) longer == Longer(w, count, Len(out))
<1>0. IsSeq(out) /\ Len(out) \in Nat
  BY LenProperties DEF WireTypes, IsSeq
<1>1. /\ IsSeq(new) /\ Len(w) \in Nat /\ Len(new) = Len(w) + 1
      /\ 1 .. Len(new) = (1 .. Len(w)) \cup {Len(w) + 1}
      /\ new[Len(w) + 1] = r /\ \A i \in 1 .. Len(w) : new[i] = w[i]
      /\ longer \in [1 .. Len(w) + 2 -> Nat]
      /\ longer[Len(w) + 2] = Len(out) /\ longer[Len(w) + 1] = Len(out)
      /\ longer[1] = count[1]
  BY <1>0, WireGrows
<1>2. \A i \in 1 .. Len(w) :
         \/ new[i].request = "keymap" /\ UploadIsOwed(new, map, slots, longer, i)
         \/ new[i].request = "key" /\ KeyIsOwed(new, map, slots, out, longer, i)
  BY <1>0, OwedStays
<1> HIDE DEF new, longer
<1>3. UploadIsOwed(new, map, slots, longer, Len(w) + 1)
  <2>1. PartOf(slots, slots) /\ DOMAIN map \subseteq DOMAIN slots
    BY DEF PartOf, WireTypes
  <2>2. \A j \in 1 .. Len(w) : w[j].request = "keymap" => DOMAIN w[j].map \subseteq DOMAIN slots
    BY DEF WireTypes, UploadIsOwed, PartOf
  <2>3. \A j \in 1 .. Len(new) : j < Len(w) + 1 => j \in 1 .. Len(w)
    BY <1>1
  <2>4. longer[(Len(w) + 1) + 1] = longer[Len(w) + 1]
    BY <1>1
  <2>5. QED
    BY <1>1, <2>1, <2>2, <2>3, <2>4 DEF UploadIsOwed, UploadAt
<1>4. WireTypes(new, map, slots, out, longer)
  BY <1>0, <1>1, <1>2, <1>3 DEF WireTypes
<1>5. \A c \in DOMAIN slots : KnownAt(new, map, Len(new) + 1, c)
  <2>1. Len(w) + 1 \in 1 .. Len(new) /\ Len(w) + 1 < Len(new) + 1
    BY <1>1
  <2>2. QED
    BY <2>1, <1>1 DEF KnownAt, UploadAt
<1>6. QED
  BY <1>1, <1>4, <1>5 DEF new, longer

\* A key is pressed.
SentWith(out, c) == IF c \in Silent THEN out ELSE Append(out, c)

LEMMA KeyAdded ==
  ASSUME NEW w, NEW map, NEW slots, NEW out, NEW count,
         WireTypes(w, map, slots, out, count),
         NEW r, NEW c \in DOMAIN slots, r.request = "key", r.slot = slots[c],
         KnownAt(w, map, Len(w) + 1, c)
  PROVE  \E more :
           /\ WireTypes(Append(w, r), map, slots, SentWith(out, c), more)
           /\ more[1] = count[1]
           /\ \A d : KnownAt(w, map, Len(w) + 1, d)
                       => KnownAt(Append(w, r), map, Len(Append(w, r)) + 1, d)
<1> DEFINE sents == SentWith(out, c)
           new == Append(w, r) longer == Longer(w, count, Len(sents))
<1>0. IsSeq(out) /\ Len(out) \in Nat
  BY LenProperties DEF WireTypes, IsSeq
<1>1. /\ IsSeq(sents) /\ Len(sents) \in Nat /\ Len(out) <= Len(sents)
      /\ \A i \in 1 .. Len(out) : sents[i] = out[i]
      /\ c \in Silent => Len(sents) = Len(out)
      /\ c \notin Silent => Len(sents) = Len(out) + 1 /\ sents[Len(sents)] = c
  BY <1>0, AppendedSeq DEF SentWith
<1> HIDE DEF sents
<1>2. /\ IsSeq(new) /\ Len(w) \in Nat /\ Len(new) = Len(w) + 1
      /\ 1 .. Len(new) = (1 .. Len(w)) \cup {Len(w) + 1}
      /\ new[Len(w) + 1] = r
      /\ longer \in [1 .. Len(w) + 2 -> Nat]
      /\ longer[Len(w) + 2] = Len(sents) /\ longer[Len(w) + 1] = Len(out)
      /\ longer[1] = count[1]
  BY SMTT(30), <1>1, WireGrows
<1>3. KnownAt(new, map, Len(w) + 1, c)
  <2>1. Len(w) + 1 \in 1 .. Len(w) + 1
    BY <1>2
  <2>2. QED
    BY <1>1, <2>1, WireGrows
<1>4. ASSUME NEW i \in 1 .. Len(w)
      PROVE  \/ new[i].request = "keymap" /\ UploadIsOwed(new, map, slots, longer, i)
             \/ new[i].request = "key" /\ KeyIsOwed(new, map, slots, sents, longer, i)
  <2>1. /\ IsSeq(sents) /\ Len(out) <= Len(sents) /\ Len(sents) \in Nat
        /\ \A j \in 1 .. Len(out) : sents[j] = out[j]
    BY <1>1
  <2>2. QED
    BY <2>1, OwedStays, ZenonT(60)
<1> HIDE DEF new, longer
<1>5. KeyIsOwed(new, map, slots, sents, longer, Len(w) + 1)
  <2>1. slots[c] = new[Len(w) + 1].slot
    BY <1>2
  <2>2. IF c \in Silent THEN longer[(Len(w) + 1) + 1] = longer[Len(w) + 1]
        ELSE /\ longer[(Len(w) + 1) + 1] = longer[Len(w) + 1] + 1
             /\ longer[(Len(w) + 1) + 1] \in 1 .. Len(sents)
             /\ sents[longer[(Len(w) + 1) + 1]] = c
    BY <1>0, <1>1, <1>2
  <2>3. QED
    BY <1>3, <2>1, <2>2 DEF KeyIsOwed
<1>6. WireTypes(new, map, slots, sents, longer)
  BY <1>1, <1>2, <1>4, <1>5 DEF WireTypes
<1>7. ASSUME NEW d, KnownAt(w, map, Len(w) + 1, d)
      PROVE  KnownAt(new, map, Len(new) + 1, d)
  <2>1. \A j \in 1 .. Len(w) : new[j] = w[j] /\ j \in 1 .. Len(new) /\ j < Len(new) + 1
    <3>1. \A j \in 1 .. Len(w) : new[j] = w[j]
      BY <1>1, WireGrows DEF new
    <3>2. QED
      BY <3>1, <1>2
  <2>2. QED
    BY <2>1, <1>7 DEF KnownAt, UploadAt
<1>8. QED
  BY <1>2, <1>6, <1>7 DEF new, sents

\* The first request is served.
Shifted(w, count) == [i \in 1 .. Len(w) |-> count[i + 1]]
Held(r, map) == IF r.request = "keymap" THEN r.map ELSE map

LEMMA FirstIsServed ==
  ASSUME NEW w, NEW map, NEW slots, NEW out, NEW count,
         WireTypes(w, map, slots, out, count), w # <<>>
  PROVE  /\ WireTypes(Tail(w), Held(Head(w), map), slots, out, Shifted(w, count))
         /\ Shifted(w, count)[1] = count[2]
         /\ count[1] \in Nat
         /\ \A c : KnownAt(w, map, Len(w) + 1, c)
                     => KnownAt(Tail(w), Held(Head(w), map), Len(Tail(w)) + 1, c)
         /\ \/ Head(w).request = "keymap" /\ count[2] = count[1]
            \/ /\ Head(w).request = "key"
               /\ \E c \in DOMAIN map :
                    /\ map[c] = Head(w).slot
                    /\ IF c \in Silent THEN count[2] = count[1]
                       ELSE /\ count[2] = count[1] + 1
                            /\ count[2] \in 1 .. Len(out) /\ out[count[2]] = c
<1> DEFINE new == Tail(w) r == Head(w) held == Held(r, map) shorter == Shifted(w, count)
<1>0. IsSeq(w)
  BY DEF WireTypes
<1>1. /\ IsSeq(new) /\ r = w[1] /\ 1 \in 1 .. Len(w)
      /\ \A i \in 1 .. Len(new) : i + 1 \in 1 .. Len(w) /\ new[i] = w[i + 1]
      /\ \A i \in 1 .. Len(w) :
           i = 1 \/ \E j \in 1 .. Len(new) : i = j + 1 /\ new[j] = w[i]
      /\ Len(w) \in Nat \ {0} /\ Len(new) + 1 = Len(w)
  <2>1. Len(w) \in Nat \ {0} /\ Len(new) + 1 = Len(w)
    BY <1>0, TailSeq
  <2>2. QED
    BY <1>0, <2>1, RestOf
<1>2. /\ shorter \in [1 .. Len(new) + 1 -> Nat]
      /\ \A i \in 1 .. Len(w) : shorter[i] = count[i + 1]
  <2>1. \A i \in 1 .. Len(w) : i + 1 \in 1 .. Len(w) + 1
    BY <1>1
  <2>2. QED
    BY <1>1, <2>1 DEF Shifted, WireTypes
<1>3. \/ r.request = "keymap" /\ UploadIsOwed(w, map, slots, count, 1)
      \/ r.request = "key" /\ KeyIsOwed(w, map, slots, out, count, 1)
  BY <1>1 DEF WireTypes
<1> HIDE DEF new, r, shorter
<1>4. 1 + 1 = 2 /\ \A j \in 1 .. Len(w) : ~(j < 1)
  OBVIOUS
<1>5. ASSUME r.request = "key"
      PROVE  \E c \in DOMAIN map :
               /\ map[c] = r.slot
               /\ IF c \in Silent THEN count[2] = count[1]
                  ELSE /\ count[2] = count[1] + 1
                       /\ count[2] \in 1 .. Len(out) /\ out[count[2]] = c
  <2>1. PICK c \in DOMAIN slots :
          /\ slots[c] = w[1].slot /\ KnownAt(w, map, 1, c)
          /\ IF c \in Silent THEN count[2] = count[1]
             ELSE /\ count[2] = count[1] + 1
                  /\ count[2] \in 1 .. Len(out) /\ out[count[2]] = c
    BY <1>3, <1>4, <1>5 DEF KeyIsOwed
  <2>2. c \in DOMAIN map /\ map[c] = slots[c]
    BY <2>1, <1>4 DEF KnownAt, WireTypes, PartOf
  <2>3. QED
    BY <2>1, <2>2, <1>1
<1>6. r.request = "keymap" => count[2] = count[1]
  BY <1>3, <1>4 DEF UploadIsOwed
<1>7. /\ PartOf(held, slots)
      /\ \A i \in 1 .. Len(new) : UploadAt(new, i) => DOMAIN held \subseteq DOMAIN new[i].map
      /\ \A i \in 1 .. Len(w) : \A c :
           KnownAt(w, map, i + 1, c) => KnownAt(new, held, i, c)
  <2>1. PartOf(held, slots) /\ DOMAIN map \subseteq DOMAIN held
    BY <1>1, <1>3 DEF Held, WireTypes, UploadIsOwed
  <2>2. ASSUME NEW i \in 1 .. Len(new), UploadAt(new, i)
        PROVE  DOMAIN held \subseteq DOMAIN new[i].map
    <3>1. /\ i + 1 \in 1 .. Len(w) /\ 1 < i + 1 /\ new[i] = w[i + 1]
          /\ UploadIsOwed(w, map, slots, count, i + 1)
      BY <1>1, <2>2 DEF WireTypes, UploadAt
    <3>2. QED
      BY <3>1, <1>1 DEF UploadIsOwed, UploadAt, Held
  <2>3. ASSUME NEW i \in 1 .. Len(w), NEW c, KnownAt(w, map, i + 1, c)
        PROVE  KnownAt(new, held, i, c)
    <3>1. CASE c \in DOMAIN map
      BY <3>1, <2>1 DEF KnownAt
    <3>2. ASSUME NEW j \in 1 .. Len(w), j < i + 1, UploadAt(w, j), c \in DOMAIN w[j].map
          PROVE  KnownAt(new, held, i, c)
      <4>1. CASE j = 1
        BY <3>2, <4>1, <1>1 DEF KnownAt, Held, UploadAt
      <4>2. CASE j # 1
        <5>1. PICK l \in 1 .. Len(new) : j = l + 1 /\ new[l] = w[j]
          BY <4>2, <1>1
        <5>2. l < i
          BY <5>1, <3>2
        <5>3. QED
          BY <5>1, <5>2, <3>2 DEF KnownAt, UploadAt
      <4>3. QED
        BY <4>1, <4>2
    <3>3. QED
      BY <3>1, <3>2, <2>3 DEF KnownAt
  <2>4. QED
    BY <2>1, <2>2, <2>3
<1> HIDE DEF held
<1>8. ASSUME NEW i \in 1 .. Len(new)
      PROVE  \/ new[i].request = "keymap" /\ UploadIsOwed(new, held, slots, shorter, i)
             \/ new[i].request = "key" /\ KeyIsOwed(new, held, slots, out, shorter, i)
  <2>1. /\ i \in 1 .. Len(w) /\ i + 1 \in 1 .. Len(w) /\ new[i] = w[i + 1]
        /\ shorter[i] = count[i + 1] /\ shorter[i + 1] = count[(i + 1) + 1]
    <3>1. i \in 1 .. Len(w) /\ i + 1 \in 1 .. Len(w)
      BY <1>1
    <3>2. QED
      BY <3>1, <1>1, <1>2
  <2>2. ASSUME w[i + 1].request = "keymap", UploadIsOwed(w, map, slots, count, i + 1)
        PROVE  UploadIsOwed(new, held, slots, shorter, i)
    <3>1. ASSUME NEW j \in 1 .. Len(new), j < i, UploadAt(new, j)
          PROVE  DOMAIN new[j].map \subseteq DOMAIN new[i].map
      <4>1. j + 1 \in 1 .. Len(w) /\ j + 1 < i + 1 /\ UploadAt(w, j + 1)
        BY <3>1, <1>1 DEF UploadAt
      <4>2. QED
        BY <4>1, <2>1, <2>2, <1>1 DEF UploadIsOwed
    <3>2. DOMAIN held \subseteq DOMAIN new[i].map
      BY <2>1, <2>2, <1>7 DEF UploadAt
    <3>3. QED
      BY <3>1, <3>2, <2>1, <2>2 DEF UploadIsOwed
  <2>3. ASSUME w[i + 1].request = "key", KeyIsOwed(w, map, slots, out, count, i + 1)
        PROVE  KeyIsOwed(new, held, slots, out, shorter, i)
    BY <2>1, <2>3, <1>7 DEF KeyIsOwed
  <2>4. QED
    BY <2>1, <2>2, <2>3 DEF WireTypes
<1>9. WireTypes(new, held, slots, out, shorter)
  <2>1. Len(w) \in 1 .. Len(w) /\ shorter[Len(w)] = Len(out)
    BY <1>1, <1>2 DEF WireTypes
  <2>2. QED
    BY <2>1, <1>1, <1>2, <1>7, <1>8 DEF WireTypes
<1>10. shorter[1] = count[2] /\ count[1] \in Nat
  <2>1. 1 \in 1 .. Len(w) + 1
    BY <1>1
  <2>2. QED
    BY <2>1, <1>1, <1>2, <1>4 DEF WireTypes
<1>11. \A c : KnownAt(w, map, Len(w) + 1, c) => KnownAt(new, held, Len(new) + 1, c)
  BY <1>1, <1>7
<1>12. QED
  BY <1>3, <1>5, <1>6, <1>9, <1>10, <1>11 DEF new, r, held, shorter

\* While the connection stands: what was typed is the beginning of what was sent, the
\* wire brings the rest, and the keymap at its end knows every character with a slot.
TypedIsSent ==
  /\ IsSeq(typed)
  /\ \A i \in 1 .. Len(typed) : i \in 1 .. Len(sent) /\ typed[i] = sent[i]
WireBringsRest ==
  \E count : /\ WireTypes(wire, keymap, slotByCodepoint, sent, count)
             /\ count[1] = Len(typed)
AllAreKnown == \A c \in DOMAIN slotByCodepoint : KnownAt(wire, keymap, Len(wire) + 1, c)
SinkInv ==
  /\ SlotsAreDense
  /\ connected =>
       /\ sinkState = "none" => ~committing
       /\ ~committing => wire = <<>>
       /\ TypedIsSent /\ WireBringsRest /\ AllAreKnown

LEMMA SentIsSeq ==
  ASSUME WireBringsRest
  PROVE  IsSeq(wire) /\ IsSeq(sent) /\ Len(sent) \in Nat
  BY LenProperties DEF WireBringsRest, WireTypes, IsSeq

LEMMA MoreIsSent ==
  ASSUME TypedIsSent, IsSeq(sent), NEW c,
         sent' = IF c \in Silent THEN sent ELSE Append(sent, c), UNCHANGED typed
  PROVE  TypedIsSent'
<1>1. CASE sent' = sent
  BY <1>1 DEF TypedIsSent
<1>2. CASE sent' = Append(sent, c)
  <2>1. \A i \in 1 .. Len(sent) : i \in 1 .. Len(sent') /\ sent'[i] = sent[i]
    BY <1>2, AppendedSeq
  <2>2. QED
    BY <2>1 DEF TypedIsSent
<1>3. QED
  BY <1>1, <1>2

LEMMA PressKeeps ==
  ASSUME SinkInv, SlotsAreDense', PressKnown
  PROVE  SinkInv'
<1> DEFINE c == Head(todo) r == Key(slotByCodepoint[c])
<1>1. /\ committing /\ c \in DOMAIN slotByCodepoint
      /\ wire' = Append(wire, r) /\ sent' = IF c \in Silent THEN sent ELSE Append(sent, c)
      /\ UNCHANGED <<slotByCodepoint, sinkState, committing, keymap, typed, connected>>
  BY DEF PressKnown, SendKey
<1>2. r.request = "key" /\ r.slot = slotByCodepoint[c]
  BY DEF Key
<1> HIDE DEF c, r
<1>3. CASE connected
  <2>1. PICK count : /\ WireTypes(wire, keymap, slotByCodepoint, sent, count)
                     /\ count[1] = Len(typed)
    BY <1>3 DEF SinkInv, WireBringsRest
  <2>2. KnownAt(wire, keymap, Len(wire) + 1, c)
    BY <1>1, <1>3 DEF SinkInv, AllAreKnown
  <2>3. PICK more : /\ WireTypes(Append(wire, r), keymap, slotByCodepoint,
                                 SentWith(sent, c), more)
                    /\ more[1] = count[1]
                    /\ \A d : KnownAt(wire, keymap, Len(wire) + 1, d)
                                => KnownAt(Append(wire, r), keymap, Len(Append(wire, r)) + 1, d)
    BY <1>1, <1>2, <2>1, <2>2, KeyAdded
  <2>4. WireBringsRest' /\ AllAreKnown'
    BY <1>1, <1>3, <2>1, <2>3 DEF WireBringsRest, AllAreKnown, SinkInv, SentWith
  <2>5. TypedIsSent'
    BY <1>1, <1>3, SentIsSeq, MoreIsSent DEF SinkInv
  <2>6. QED
    BY <1>1, <2>4, <2>5 DEF SinkInv
<1>4. QED
  BY <1>1, <1>3 DEF SinkInv

LEMMA PressNewKeeps ==
  ASSUME SinkInv, SlotsAreDense', PressNew
  PROVE  SinkInv'
<1> DEFINE c == Head(todo) r == Key(nextSlot) up == Upload(slotByCodepoint')
           uploaded == Append(wire, up)
<1>1. /\ committing /\ c \notin DOMAIN slotByCodepoint
      /\ slotByCodepoint' = WithSlot(c)
      /\ wire' = Append(uploaded, r)
      /\ sent' = IF c \in Silent THEN sent ELSE Append(sent, c)
      /\ UNCHANGED <<sinkState, committing, keymap, typed, connected>>
  BY DEF PressNew, SendKey
<1>2. r.request = "key" /\ r.slot = nextSlot /\ up.request = "keymap" /\ up.map = slotByCodepoint'
  BY DEF Key, Upload
<1>3. /\ DOMAIN slotByCodepoint' = DOMAIN slotByCodepoint \cup {c}
      /\ slotByCodepoint'[c] = nextSlot
      /\ PartOf(slotByCodepoint, slotByCodepoint')
  BY <1>1 DEF WithSlot, PartOf
<1> HIDE DEF c, r, up, uploaded
<1>4. CASE connected
  <2>1. PICK count : /\ WireTypes(wire, keymap, slotByCodepoint, sent, count)
                     /\ count[1] = Len(typed)
    BY <1>4 DEF SinkInv, WireBringsRest
  <2>2. WireTypes(wire, keymap, slotByCodepoint', sent, count)
    BY <1>3, <2>1, SlotsGrow
  <2>3. PICK more :
          /\ WireTypes(uploaded, keymap, slotByCodepoint', sent, more)
          /\ more[1] = Len(typed)
          /\ \A d \in DOMAIN slotByCodepoint' : KnownAt(uploaded, keymap, Len(uploaded) + 1, d)
    BY <1>2, <2>1, <2>2, UploadAdded DEF uploaded
  <2>4. c \in DOMAIN slotByCodepoint' /\ r.slot = slotByCodepoint'[c]
    BY <1>2, <1>3
  <2>5. PICK last : /\ WireTypes(Append(uploaded, r), keymap, slotByCodepoint',
                                 SentWith(sent, c), last)
                    /\ last[1] = more[1]
                    /\ \A d : KnownAt(uploaded, keymap, Len(uploaded) + 1, d)
                                => KnownAt(Append(uploaded, r), keymap,
                                           Len(Append(uploaded, r)) + 1, d)
    BY <1>2, <2>3, <2>4, KeyAdded
  <2>6. WireBringsRest' /\ AllAreKnown'
    BY <1>1, <2>3, <2>5 DEF WireBringsRest, AllAreKnown, SentWith
  <2>7. TypedIsSent'
    BY <1>1, <1>4, SentIsSeq, MoreIsSent DEF SinkInv
  <2>8. QED
    BY <1>1, <1>4, <2>6, <2>7 DEF SinkInv
<1>5. QED
  BY <1>1, <1>4 DEF SinkInv

LEMMA ServeKeeps ==
  ASSUME SinkInv, Serve
  PROVE  SinkInv'
<1> DEFINE r == Head(wire)
<1>1. /\ connected /\ wire # <<>> /\ wire' = Tail(wire)
      /\ UNCHANGED <<slotByCodepoint, nextSlot, sinkState, todo, committing, sent, connected>>
  BY DEF Serve
<1>2. PICK count : /\ WireTypes(wire, keymap, slotByCodepoint, sent, count)
                   /\ count[1] = Len(typed)
  BY <1>1 DEF SinkInv, WireBringsRest
<1>3. /\ WireTypes(wire', Held(r, keymap), slotByCodepoint, sent, Shifted(wire, count))
      /\ Shifted(wire, count)[1] = count[2]
      /\ count[1] \in Nat
      /\ \A c : KnownAt(wire, keymap, Len(wire) + 1, c)
                  => KnownAt(wire', Held(r, keymap), Len(wire') + 1, c)
      /\ \/ r.request = "keymap" /\ count[2] = count[1]
         \/ /\ r.request = "key"
            /\ \E c \in DOMAIN keymap :
                 /\ keymap[c] = r.slot
                 /\ IF c \in Silent THEN count[2] = count[1]
                    ELSE /\ count[2] = count[1] + 1
                         /\ count[2] \in 1 .. Len(sent) /\ sent[count[2]] = c
  BY <1>1, <1>2, FirstIsServed
<1>4. keymap' = Held(r, keymap) /\ (r.request = "keymap" => typed' = typed)
  BY DEF Serve, Held
<1>5. /\ IsSeq(typed) /\ IsSeq(sent)
      /\ \A i \in 1 .. Len(typed) : i \in 1 .. Len(sent) /\ typed[i] = sent[i]
  BY <1>1, SentIsSeq DEF SinkInv, TypedIsSent
<1>6. Len(typed') = count[2] /\ TypedIsSent'
  <2>1. CASE r.request = "keymap"
    BY <2>1, <1>1, <1>2, <1>3, <1>4, <1>5 DEF TypedIsSent
  <2>2. CASE r.request = "key"
    <3>1. PICK c \in DOMAIN keymap :
            /\ keymap[c] = r.slot
            /\ IF c \in Silent THEN count[2] = count[1]
               ELSE /\ count[2] = count[1] + 1
                    /\ count[2] \in 1 .. Len(sent) /\ sent[count[2]] = c
      BY <2>2, <1>3
    <3>2. \A d \in DOMAIN keymap : keymap[d] = r.slot => d = c
      <4>1. PartOf(keymap, slotByCodepoint)
        BY <1>2 DEF WireTypes
      <4>2. QED
        BY <3>1, <4>1 DEF PartOf, SinkInv, SlotsAreDense
    <3>3. TypedBy(r.slot, keymap) = {c} \ Silent
      BY <3>1, <3>2 DEF TypedBy
    <3>4. CASE c \in Silent
      <4>1. typed' = typed
        BY <2>2, <3>3, <3>4 DEF Serve
      <4>2. QED
        BY <4>1, <3>1, <3>4, <1>1, <1>2, <1>5 DEF TypedIsSent
    <3>5. CASE c \notin Silent
      <4>1. typed' = Append(typed, c)
        BY <2>2, <3>3, <3>5 DEF Serve
      <4>2. /\ IsSeq(typed') /\ Len(typed) \in Nat /\ Len(typed') = Len(typed) + 1
            /\ \A i \in 1 .. Len(typed) : typed'[i] = typed[i]
            /\ typed'[Len(typed) + 1] = c
        BY <4>1, <1>5, AppendedSeq
      <4>3. /\ Len(typed) + 1 = count[2] /\ count[2] \in 1 .. Len(sent) /\ sent[count[2]] = c
        BY <3>1, <3>5, <1>2
      <4>4. \A i \in 1 .. Len(typed') : i \in 1 .. Len(typed) \/ i = Len(typed) + 1
        BY <4>2
      <4>5. QED
        BY <4>2, <4>3, <4>4, <1>1, <1>5 DEF TypedIsSent
    <3>6. QED
      BY <3>4, <3>5
  <2>3. QED
    BY <2>1, <2>2, <1>3
<1>7. WireBringsRest' /\ AllAreKnown'
  BY <1>1, <1>3, <1>4, <1>6 DEF WireBringsRest, AllAreKnown, SinkInv
<1>8. SlotsAreDense'
  BY <1>1 DEF SinkInv, SlotsAreDense
<1>9. wire = <<>> => wire' = <<>>
  BY <1>1
<1>10. QED
  BY <1>1, <1>6, <1>7, <1>8 DEF SinkInv

\* Whatever texts are committed, uploads fail, slots run out and connections end, for
\* all characters and slots: no slot is given twice, and once a commit has returned and
\* the connection stands, the application has exactly what was sent, in order, and
\* nothing is under way (slotFor, 150-184; commit, 240-264).
THEOREM TextStaysKept == SinkSpec => []SinkKeepsText
<1>1. SinkInit => SinkInv
  <2> SUFFICES ASSUME SinkInit PROVE SinkInv
    OBVIOUS
  <2>1. /\ wire = <<>> /\ keymap = NoKeymap /\ slotByCodepoint = NoKeymap
        /\ sent = <<>> /\ typed = <<>> /\ ~committing
    BY DEF SinkInit
  <2>2. PartOf(NoKeymap, NoKeymap) /\ DOMAIN NoKeymap = {}
    BY DEF PartOf, NoKeymap
  <2> DEFINE count == [i \in 1 .. 1 |-> 0]
  <2>3. IsSeq(<<>>) /\ count \in [1 .. Len(<<>>) + 1 -> Nat]
        /\ count[Len(<<>>) + 1] = Len(<<>>)
    BY EmptyIsSeq
  <2> HIDE DEF count
  <2>4. WireTypes(wire, keymap, slotByCodepoint, sent, count)
    BY <2>1, <2>2, <2>3 DEF WireTypes
  <2>5. count[1] = Len(typed)
    BY <2>1, <2>3
  <2>6. WireBringsRest
    BY <2>4, <2>5 DEF WireBringsRest
  <2>7. AllAreKnown /\ TypedIsSent
    BY <2>1, <2>2, EmptyIsSeq DEF AllAreKnown, TypedIsSent
  <2>8. SlotsAreDense
    BY SlotsAreDenseAtFirst
  <2>9. QED
    BY <2>1, <2>6, <2>7, <2>8 DEF SinkInv
<1>2. SinkInv /\ [SinkNext]_sinkVars => SinkInv'
  <2> SUFFICES ASSUME SinkInv, [SinkNext]_sinkVars PROVE SinkInv'
    OBVIOUS
  <2>1. SlotsAreDense'
    BY SinkStepKeepsSlots DEF SinkInv
  <2>2. ASSUME UNCHANGED <<slotByCodepoint, wire, keymap, typed, sent>>,
               connected' => connected,
               connected' /\ sinkState' = "none" => ~committing',
               connected' /\ ~committing' => wire = <<>>
        PROVE  SinkInv'
    BY <2>1, <2>2 DEF SinkInv, TypedIsSent, WireBringsRest, AllAreKnown
  <2>3. ASSUME NEW result, InitSink(result)
        PROVE  SinkInv'
    <3>1. /\ sinkState = "none" /\ sinkState' = result
          /\ keymap' = IF result = "Ok" THEN slotByCodepoint ELSE keymap
          /\ UNCHANGED <<slotByCodepoint, committing, wire, typed, sent, connected>>
      BY <2>3 DEF InitSink
    <3>2. CASE connected
      <4>1. ~committing /\ wire = <<>>
        BY <3>1, <3>2 DEF SinkInv
      <4>2. CASE keymap' = keymap
        BY <2>2, <3>1, <4>1, <4>2
      <4>3. CASE keymap' = slotByCodepoint
        <5>1. PICK count : /\ WireTypes(wire, keymap, slotByCodepoint, sent, count)
                           /\ count[1] = Len(typed)
          BY <3>2 DEF SinkInv, WireBringsRest
        <5>2. \A i \in 1 .. Len(wire) : FALSE
          BY <4>1
        <5>3. WireTypes(wire, slotByCodepoint, slotByCodepoint, sent, count)
          BY <5>1, <5>2 DEF WireTypes, PartOf
        <5>4. WireBringsRest' /\ AllAreKnown' /\ TypedIsSent'
          BY <3>1, <3>2, <4>3, <5>1, <5>3
             DEF WireBringsRest, AllAreKnown, KnownAt, TypedIsSent, SinkInv
        <5>5. QED
          BY <2>1, <3>1, <4>1, <5>4 DEF SinkInv
      <4>4. QED
        BY <3>1, <4>2, <4>3
    <3>3. QED
      BY <2>1, <3>1, <3>2 DEF SinkInv
  <2>4. ASSUME NEW text \in Texts, Commit(text) PROVE SinkInv'
    BY <2>2, <2>4 DEF Commit
  <2>5. CASE UploadFails
    BY <2>2, <2>5 DEF UploadFails, RollBack, SinkInv
  <2>6. CASE KeymapFull
    BY <2>2, <2>6 DEF KeymapFull, SinkInv
  <2>7. CASE RoundTrip
    BY <2>2, <2>7 DEF RoundTrip, SinkInv
  <2>8. CASE Disconnect
    BY <2>1, <2>8 DEF Disconnect, SinkInv
  <2>9. CASE UNCHANGED sinkVars
    BY <2>2, <2>9 DEF sinkVars, SinkInv
  <2>10. QED
    BY <2>1, <2>3, <2>4, <2>5, <2>6, <2>7, <2>8, <2>9, PressKeeps, PressNewKeeps,
       ServeKeeps DEF SinkNext
<1>3. SinkInv => SinkKeepsText
  <2> SUFFICES ASSUME SinkInv, ~committing, connected
               PROVE  wire = <<>> /\ typed = sent
    BY DEF SinkInv, SinkKeepsText, CommitIsBarrier
  <2>1. wire = <<>> /\ IsSeq(typed) /\ IsSeq(sent)
    BY SentIsSeq DEF SinkInv, TypedIsSent
  <2>2. Len(typed) = Len(sent)
    <3>1. PICK count : /\ WireTypes(wire, keymap, slotByCodepoint, sent, count)
                       /\ count[1] = Len(typed)
      BY DEF SinkInv, WireBringsRest
    <3>2. Len(wire) + 1 = 1
      BY <2>1
    <3>3. QED
      BY <3>1, <3>2 DEF WireTypes
  <2>3. QED
    BY <2>1, <2>2, SameSequence DEF SinkInv, TypedIsSent
<1>4. QED
  BY <1>1, <1>2, <1>3, PTL DEF SinkSpec

-----------------------------------------------------------------------------
\* The focus source.  A remembered query stays behind one in flight.
LEMMA StartQueryKeepsOrder ==
  ASSUME NEW q, NEW inFlight, NEW remembered,
         remembered # NoQuery => inFlight # NoQuery,
         StartQuery(q, inFlight, remembered)
  PROVE  pendingQuery' # NoQuery => query' # NoQuery
  BY DEF StartQuery

LEMMA FocusStepKeeps ==
  ASSUME NothingLeftBehind, [FocusNext]_focusVars
  PROVE  NothingLeftBehind'
<1> USE DEF NothingLeftBehind
<1>1. ASSUME NEW app \in Apps, UserFocuses(app) PROVE NothingLeftBehind'
  BY <1>1 DEF UserFocuses
<1>2. ASSUME NEW app \in Apps, CaretMoves(app) PROVE NothingLeftBehind'
  BY <1>2 DEF CaretMoves
<1>3. CASE Activate
  BY <1>3 DEF Activate
<1>4. CASE Deactivate
  BY <1>4 DEF Deactivate, ForgetFocus
<1>5. CASE OnCaretMoved
  <2>1. CASE active /\ StartQuery(Query(Event.app, Event.offset), query, pendingQuery)
    BY <2>1, <1>5, StartQueryKeepsOrder DEF OnCaretMoved
  <2>2. CASE UNCHANGED <<query, pendingQuery>>
    BY <2>2, <1>5 DEF OnCaretMoved
  <2>3. QED
    BY <1>5, <2>1, <2>2 DEF OnCaretMoved
<1>6. CASE OnFocusChanged
  <2>1. CASE ~active
    BY <2>1, <1>6 DEF OnFocusChanged
  <2>2. CASE active /\ StartQuery(Query(Event.app, 0), query, pendingQuery)
    BY <2>2, <1>6, StartQueryKeepsOrder DEF OnFocusChanged
  <2>3. CASE active /\ UNCHANGED <<query, pendingQuery>>
    BY <2>3, <1>6 DEF OnFocusChanged
  <2>4. QED
    BY <1>6, <2>1, <2>2, <2>3 DEF OnFocusChanged
<1>7. CASE OnCaretOffsetReply
  <2>1. ASSUME OffsetIsWanted, NEW late \in 0 .. MovesUnderWay(offsetCall),
               StartQuery(Query(focusBus, caret[offsetCall] - late), query,
                          pendingQuery)
        PROVE  NothingLeftBehind'
    BY <2>1, <1>7, StartQueryKeepsOrder DEF OnCaretOffsetReply, OffsetIsWanted
  <2>2. CASE UNCHANGED <<query, pendingQuery>>
    BY <2>2, <1>7 DEF OnCaretOffsetReply
  <2>3. QED
    BY <1>7, <2>1, <2>2 DEF OnCaretOffsetReply
<1>8. CASE OnExtentsReply
  <2>1. CASE ~active
    BY <2>1, <1>8 DEF OnExtentsReply
  <2>2. CASE active /\ StartQuery(pendingQuery, NoQuery, NoQuery)
    BY <2>2, <1>8, StartQueryKeepsOrder DEF OnExtentsReply
  <2>3. CASE active /\ pendingQuery = NoQuery
    BY <2>3, <1>8 DEF OnExtentsReply
  <2>4. QED
    BY <1>8, <2>1, <2>2, <2>3 DEF OnExtentsReply
<1>9. CASE UNCHANGED focusVars
  BY <1>9 DEF focusVars
<1>10. QED
  BY <1>1, <1>2, <1>3, <1>4, <1>5, <1>6, <1>7, <1>8, <1>9 DEF FocusNext

\* For all applications, events, failures and switches of the placement: a remembered
\* query always has one in flight, and nothing is left behind out of caret placement
\* (setActive, 214-239; startQuery, 255-280).
THEOREM NothingStaysBehind == FocusSpec => []NothingLeftBehind
<1>1. FocusInit => NothingLeftBehind
  BY DEF FocusInit, NothingLeftBehind
<1>2. QED
  BY <1>1, FocusStepKeeps, PTL DEF FocusSpec

\* The events under way.
IsCaretOf(e, a) == e.kind = "caret" /\ e.app = a
HasFocus(ev) == \E i \in 1 .. Len(ev) : ev[i].kind = "focus"
HasCaret(ev, a) == \E i \in 1 .. Len(ev) : IsCaretOf(ev[i], a)

\* The last focus event tells who has the focus, the last caret event of an
\* application where its caret is.
FocusIsLast(ev, app) ==
  \A i \in 1 .. Len(ev) :
    /\ ev[i].kind = "focus"
    /\ \A j \in 1 .. Len(ev) : ev[j].kind = "focus" => j <= i
    => ev[i].app = app
CaretsAreLast(ev, c) ==
  \A i \in 1 .. Len(ev) : \A a \in Apps :
    /\ IsCaretOf(ev[i], a)
    /\ \A j \in 1 .. Len(ev) : IsCaretOf(ev[j], a) => j <= i
    => ev[i].offset = c[a]

EventsSound(ev) ==
  /\ IsSeq(ev)
  /\ \A i \in 1 .. Len(ev) : ev[i].kind \in {"focus", "caret"} /\ ev[i].app \in Apps

\* The newest place asked for or shown.
Latest == IF pendingQuery # NoQuery THEN pendingQuery
          ELSE IF query # NoQuery THEN query ELSE cached

\* In caret placement the events under way bring the source up to date, and once the
\* last caret event of the focused text widget is taken, its place is asked for.
EventsBringFocus ==
  /\ FocusIsLast(events, focused)
  /\ ~HasFocus(events) => focusBus \in {None, focused}
EventsBringCaret == CaretsAreLast(events, caret)
AsksForCaret ==
  focusBus \in TextApps /\ ~HasCaret(events, focusBus) =>
    \/ offsetCall = focusBus /\ ~caretMovedSinceFocus
    \/ Latest = Query(focusBus, caret[focusBus])
FocusInv ==
  /\ NothingLeftBehind
  /\ caret \in [Apps -> Nat] /\ focused \in Apps /\ EventsSound(events)
  /\ active \in BOOLEAN /\ caretMovedSinceFocus \in BOOLEAN
  /\ focusBus # None /\ offsetCall # None => offsetCall = focusBus
  /\ active => EventsBringFocus /\ EventsBringCaret /\ AsksForCaret

\* An application emits an event.
LEMMA EventAdded ==
  ASSUME NEW ev, EventsSound(ev), NEW e, e.kind \in {"focus", "caret"}, e.app \in Apps
  PROVE  /\ EventsSound(Append(ev, e))
         /\ HasFocus(Append(ev, e)) <=> HasFocus(ev) \/ e.kind = "focus"
         /\ \A a : HasCaret(Append(ev, e), a) <=> HasCaret(ev, a) \/ IsCaretOf(e, a)
         /\ e.kind = "focus" => FocusIsLast(Append(ev, e), e.app)
         /\ \A f : e.kind = "caret" /\ FocusIsLast(ev, f) => FocusIsLast(Append(ev, e), f)
         /\ \A c : e.kind = "focus" /\ CaretsAreLast(ev, c) => CaretsAreLast(Append(ev, e), c)
         /\ \A c, d : /\ e.kind = "caret" /\ CaretsAreLast(ev, c) /\ d[e.app] = e.offset
                      /\ \A a \in Apps \ {e.app} : d[a] = c[a]
                      => CaretsAreLast(Append(ev, e), d)
<1> DEFINE new == Append(ev, e) n == Len(ev)
<1>1. /\ IsSeq(new) /\ n \in Nat /\ Len(new) = n + 1
      /\ \A i \in 1 .. n : new[i] = ev[i]
      /\ new[n + 1] = e
  BY AppendedSeq DEF EventsSound
<1>2. /\ 1 .. Len(new) = (1 .. n) \cup {n + 1}
      /\ \A i \in 1 .. n : i \in Nat /\ ~(n + 1 <= i)
  BY <1>1
<1> HIDE DEF new, n
<1>3. EventsSound(new)
  BY <1>1, <1>2 DEF EventsSound, n
<1>4. HasFocus(new) <=> HasFocus(ev) \/ e.kind = "focus"
  BY <1>1, <1>2 DEF HasFocus, n
<1>5. \A a : HasCaret(new, a) <=> HasCaret(ev, a) \/ IsCaretOf(e, a)
  BY <1>1, <1>2 DEF HasCaret, n
<1>6. e.kind = "focus" => FocusIsLast(new, e.app)
  BY <1>1, <1>2 DEF FocusIsLast
<1>7. \A f : e.kind = "caret" /\ FocusIsLast(ev, f) => FocusIsLast(new, f)
  BY <1>1, <1>2 DEF FocusIsLast, n
<1>8. \A c : e.kind = "focus" /\ CaretsAreLast(ev, c) => CaretsAreLast(new, c)
  BY <1>1, <1>2 DEF CaretsAreLast, IsCaretOf, n
<1>9. ASSUME NEW c, NEW d, e.kind = "caret", CaretsAreLast(ev, c), d[e.app] = e.offset,
             \A a \in Apps \ {e.app} : d[a] = c[a]
      PROVE  CaretsAreLast(new, d)
  <2> SUFFICES ASSUME NEW i \in 1 .. Len(new), NEW a \in Apps, IsCaretOf(new[i], a),
                      \A j \in 1 .. Len(new) : IsCaretOf(new[j], a) => j <= i
               PROVE  new[i].offset = d[a]
    BY DEF CaretsAreLast
  <2>1. CASE a = e.app
    <3>1. i = n + 1
      BY <2>1, <1>1, <1>2, <1>9 DEF IsCaretOf
    <3>2. QED
      BY <3>1, <2>1, <1>1, <1>9
  <2>2. CASE a # e.app
    <3>1. i \in 1 .. n
      BY <2>2, <1>1, <1>2 DEF IsCaretOf
    <3>2. ev[i].offset = c[a]
      BY <3>1, <1>1, <1>2, <1>9 DEF CaretsAreLast, n
    <3>3. QED
      BY <3>1, <3>2, <2>2, <1>1, <1>9
  <2>3. QED
    BY <2>1, <2>2
<1>10. QED
  BY <1>3, <1>4, <1>5, <1>6, <1>7, <1>8, <1>9 DEF new

\* The source takes the next one.
LEMMA EventTaken ==
  ASSUME NEW ev, EventsSound(ev), ev # <<>>
  PROVE  /\ EventsSound(Tail(ev))
         /\ Head(ev).kind \in {"focus", "caret"} /\ Head(ev).app \in Apps
         /\ HasFocus(ev) <=> HasFocus(Tail(ev)) \/ Head(ev).kind = "focus"
         /\ \A a : HasCaret(ev, a) <=> HasCaret(Tail(ev), a) \/ IsCaretOf(Head(ev), a)
         /\ \A f : FocusIsLast(ev, f) =>
              /\ FocusIsLast(Tail(ev), f)
              /\ Head(ev).kind = "focus" /\ ~HasFocus(Tail(ev)) => Head(ev).app = f
         /\ \A c : CaretsAreLast(ev, c) =>
              /\ CaretsAreLast(Tail(ev), c)
              /\ \A a \in Apps : IsCaretOf(Head(ev), a) /\ ~HasCaret(Tail(ev), a)
                                   => Head(ev).offset = c[a]
<1> DEFINE new == Tail(ev) e == Head(ev)
<1>0. IsSeq(ev)
  BY DEF EventsSound
<1>1. /\ IsSeq(new) /\ e = ev[1] /\ 1 \in 1 .. Len(ev)
      /\ \A i \in 1 .. Len(new) : i + 1 \in 1 .. Len(ev) /\ new[i] = ev[i + 1]
      /\ \A i \in 1 .. Len(ev) :
           i = 1 \/ \E j \in 1 .. Len(new) : i = j + 1 /\ new[j] = ev[i]
  BY <1>0, RestOf
<1>2. \A i, j \in 1 .. Len(new) : j <= i => j + 1 <= i + 1 /\ 1 <= i + 1
  BY <1>0, TailSeq
<1> HIDE DEF new, e
<1>3. EventsSound(new) /\ e.kind \in {"focus", "caret"} /\ e.app \in Apps
  BY <1>1 DEF EventsSound
<1>4. HasFocus(ev) <=> HasFocus(new) \/ e.kind = "focus"
  BY ZenonT(60), <1>1 DEF HasFocus
<1>5. \A a : HasCaret(ev, a) <=> HasCaret(new, a) \/ IsCaretOf(e, a)
  BY <1>1 DEF HasCaret
<1>6. ASSUME NEW f, FocusIsLast(ev, f)
      PROVE  /\ FocusIsLast(new, f)
             /\ e.kind = "focus" /\ ~HasFocus(new) => e.app = f
  <2>1. ASSUME NEW i \in 1 .. Len(new), new[i].kind = "focus",
               \A j \in 1 .. Len(new) : new[j].kind = "focus" => j <= i
        PROVE  new[i].app = f
    <3>1. \A j \in 1 .. Len(ev) : ev[j].kind = "focus" => j <= i + 1
      BY <2>1, <1>1, <1>2
    <3>2. i + 1 \in 1 .. Len(ev) /\ ev[i + 1] = new[i]
      BY <1>1
    <3>3. ev[i + 1].app = f
      BY <3>1, <3>2, <2>1, <1>6 DEF FocusIsLast
    <3>4. QED
      BY <3>2, <3>3
  <2>2. ASSUME e.kind = "focus", ~HasFocus(new)
        PROVE  e.app = f
    <3>1. \A j \in 1 .. Len(ev) : ev[j].kind = "focus" => j <= 1
      BY <2>2, <1>1 DEF HasFocus
    <3>2. QED
      BY <3>1, <2>2, <1>1, <1>6 DEF FocusIsLast
  <2>3. QED
    BY <2>1, <2>2 DEF FocusIsLast
<1>7. ASSUME NEW c, CaretsAreLast(ev, c)
      PROVE  /\ CaretsAreLast(new, c)
             /\ \A a \in Apps : IsCaretOf(e, a) /\ ~HasCaret(new, a) => e.offset = c[a]
  <2>1. ASSUME NEW i \in 1 .. Len(new), NEW a \in Apps, IsCaretOf(new[i], a),
               \A j \in 1 .. Len(new) : IsCaretOf(new[j], a) => j <= i
        PROVE  new[i].offset = c[a]
    <3>1. \A j \in 1 .. Len(ev) : IsCaretOf(ev[j], a) => j <= i + 1
      BY <2>1, <1>1, <1>2
    <3>2. QED
      BY <3>1, <2>1, <1>1, <1>7 DEF CaretsAreLast
  <2>2. ASSUME NEW a \in Apps, IsCaretOf(e, a), ~HasCaret(new, a)
        PROVE  e.offset = c[a]
    <3>1. \A j \in 1 .. Len(ev) : IsCaretOf(ev[j], a) => j <= 1
      BY <2>2, <1>1 DEF HasCaret
    <3>2. QED
      BY <3>1, <2>2, <1>1, <1>7 DEF CaretsAreLast
  <2>3. QED
    BY <2>1, <2>2 DEF CaretsAreLast
<1>8. QED
  BY <1>3, <1>4, <1>5, <1>6, <1>7 DEF new, e

LEMMA QueryIsOne ==
  ASSUME NEW a \in Apps, NEW x
  PROVE  Query(a, x) # NoQuery /\ NoRect = NoQuery
<1>1. Query(a, x).app = a /\ NoQuery.app = None
  BY DEF Query, NoQuery
<1>2. QED
  BY <1>1, FocusAssumption DEF NoRect

\* A query that is asked for is the newest, sent or remembered.
LEMMA NewestIsAsked ==
  ASSUME NothingLeftBehind, "send" \notin FocusFaults, NEW q, q # NoQuery,
         StartQuery(q, query, pendingQuery)
  PROVE  Latest' = q
<1>1. CASE query # NoQuery
  BY <1>1 DEF StartQuery, Latest
<1>2. CASE query = NoQuery
  BY <1>2 DEF StartQuery, Latest, Faulty, NothingLeftBehind
<1>3. QED
  BY <1>1, <1>2

LEMMA FocusMoveKeeps ==
  ASSUME FocusInv, NEW app \in Apps, UserFocuses(app), NothingLeftBehind'
  PROVE  FocusInv'
<1> DEFINE e == [kind |-> "focus", app |-> app]
<1>1. /\ focused' = app /\ events' = IF active THEN Append(events, e) ELSE events
      /\ UNCHANGED <<caret, active, query, pendingQuery, offsetCall, focusBus,
                     caretMovedSinceFocus, cached>>
  BY DEF UserFocuses, Emit
<1>2. e.kind = "focus" /\ e.app = app
  OBVIOUS
<1> HIDE DEF e
<1>3. CASE ~active
  BY <1>1, <1>3 DEF FocusInv
<1>4. CASE active
  <2>1. /\ EventsSound(events') /\ HasFocus(events') /\ FocusIsLast(events', app)
        /\ CaretsAreLast(events', caret)
        /\ \A a : HasCaret(events', a) <=> HasCaret(events, a)
    BY <1>1, <1>2, <1>4, EventAdded DEF FocusInv, EventsBringCaret, IsCaretOf
  <2>2. EventsBringFocus' /\ EventsBringCaret'
    BY <1>1, <2>1 DEF EventsBringFocus, EventsBringCaret
  <2>3. AsksForCaret'
    BY <1>1, <1>4, <2>1 DEF FocusInv, AsksForCaret, Latest
  <2>4. QED
    BY <1>1, <2>1, <2>2, <2>3 DEF FocusInv
<1>5. QED
  BY <1>3, <1>4 DEF FocusInv

LEMMA CaretMoveKeeps ==
  ASSUME FocusInv, NEW app \in Apps, CaretMoves(app), NothingLeftBehind'
  PROVE  FocusInv'
<1> DEFINE e == [kind |-> "caret", app |-> app, offset |-> caret'[app]]
<1>1. /\ caret' = [caret EXCEPT ![app] = @ + 1]
      /\ events' = IF active THEN Append(events, e) ELSE events
      /\ UNCHANGED <<focused, active, query, pendingQuery, offsetCall, focusBus,
                     caretMovedSinceFocus, cached>>
  BY DEF CaretMoves, Emit
<1>2. e.kind = "caret" /\ e.app = app /\ e.offset = caret'[app]
  OBVIOUS
<1> HIDE DEF e
<1>3. caret' \in [Apps -> Nat] /\ \A a \in Apps \ {app} : caret'[a] = caret[a]
  BY <1>1 DEF FocusInv
<1>4. CASE ~active
  BY <1>1, <1>3, <1>4 DEF FocusInv
<1>5. CASE active
  <2>1. /\ EventsSound(events') /\ HasFocus(events') <=> HasFocus(events)
        /\ FocusIsLast(events', focused)
        /\ \A a : HasCaret(events', a) <=> HasCaret(events, a) \/ a = app
    BY <1>1, <1>2, <1>5, EventAdded DEF FocusInv, EventsBringFocus, IsCaretOf
  <2>2. CaretsAreLast(events', caret')
    <3>1. CaretsAreLast(events, caret) /\ EventsSound(events)
      BY <1>5 DEF FocusInv, EventsBringCaret
    <3>2. caret'[e.app] = e.offset /\ \A a \in Apps \ {e.app} : caret'[a] = caret[a]
      BY <1>2, <1>3
    <3>3. CaretsAreLast(Append(events, e), caret')
      BY <3>1, <3>2, <1>2, EventAdded
    <3>4. QED
      BY <3>3, <1>1, <1>5
  <2>3. EventsSound(events')
    BY <1>1, <1>2, <1>5, EventAdded DEF FocusInv
  <2>4. EventsBringFocus' /\ EventsBringCaret'
    BY <1>1, <1>5, <2>1, <2>2 DEF FocusInv, EventsBringFocus, EventsBringCaret
  <2>5. AsksForCaret'
    <3> SUFFICES ASSUME focusBus \in TextApps, ~HasCaret(events, focusBus), focusBus # app
                 PROVE  \/ offsetCall = focusBus /\ ~caretMovedSinceFocus
                        \/ Latest = Query(focusBus, caret'[focusBus])
      BY <1>1, <2>1 DEF AsksForCaret, Latest
    <3>1. caret'[focusBus] = caret[focusBus]
      BY <1>3, FocusAssumption
    <3>2. QED
      BY <3>1, <1>5 DEF FocusInv, AsksForCaret
  <2>6. QED
    BY <1>1, <1>3, <2>3, <2>4, <2>5 DEF FocusInv
<1>6. QED
  BY <1>4, <1>5 DEF FocusInv

LEMMA ActivateKeeps ==
  ASSUME FocusInv, Activate, NothingLeftBehind'
  PROVE  FocusInv'
<1>1. /\ events = <<>> /\ ~active /\ active' \in BOOLEAN
      /\ UNCHANGED <<focused, caret, events, query, pendingQuery, offsetCall, focusBus,
                     caretMovedSinceFocus, cached>>
  BY DEF Activate, RegisterEvents
<1>2. focusBus = None /\ None \notin TextApps
  BY <1>1, FocusAssumption DEF FocusInv, NothingLeftBehind
<1>3. EventsBringFocus' /\ EventsBringCaret'
  BY <1>1, <1>2 DEF EventsBringFocus, EventsBringCaret, FocusIsLast, CaretsAreLast
<1>4. AsksForCaret'
  BY <1>1, <1>2 DEF AsksForCaret
<1>5. QED
  BY <1>1, <1>2, <1>3, <1>4 DEF FocusInv

LEMMA DeactivateKeeps ==
  ASSUME FocusInv, Deactivate, NothingLeftBehind'
  PROVE  FocusInv'
  BY DEF FocusInv, Deactivate, ForgetFocus

LEMMA CaretEventKeeps ==
  ASSUME FocusInv, OnCaretMoved, NothingLeftBehind', "send" \notin FocusFaults
  PROVE  FocusInv'
<1> DEFINE e == Head(events)
<1>1. /\ events # <<>> /\ events' = Tail(events) /\ e.kind = "caret"
      /\ UNCHANGED <<focused, caret, active, offsetCall, focusBus, cached>>
      /\ caretMovedSinceFocus' \in BOOLEAN
  BY DEF OnCaretMoved, Take, Event, FocusInv
<1>2. /\ EventsSound(events') /\ e.app \in Apps
      /\ HasFocus(events) <=> HasFocus(events')
      /\ \A a : HasCaret(events, a) <=> HasCaret(events', a) \/ a = e.app
  BY <1>1, EventTaken DEF FocusInv, IsCaretOf
<1>3. CASE ~active
  BY <1>1, <1>2, <1>3 DEF FocusInv
<1>4. CASE active
  <2>1. EventsBringFocus'
    BY <1>1, <1>2, <1>4, EventTaken DEF FocusInv, EventsBringFocus
  <2>2. /\ CaretsAreLast(events', caret)
        /\ ~HasCaret(events', e.app) => e.offset = caret[e.app]
    BY <1>1, <1>2, <1>4, EventTaken DEF FocusInv, EventsBringCaret, IsCaretOf
  <2>3. EventsBringCaret'
    BY <1>1, <2>2 DEF EventsBringCaret
  <2>4. AsksForCaret'
    <3> SUFFICES ASSUME focusBus \in TextApps, ~HasCaret(events', focusBus)
                 PROVE  \/ offsetCall = focusBus /\ ~caretMovedSinceFocus'
                        \/ Latest' = Query(focusBus, caret[focusBus])
      BY <1>1 DEF AsksForCaret
    <3>1. CASE focusBus = e.app
      <4>1. StartQuery(Query(e.app, e.offset), query, pendingQuery)
        BY <3>1, <1>4 DEF OnCaretMoved, Event
      <4>2. Latest' = Query(e.app, e.offset)
        BY <4>1, <1>2, QueryIsOne, NewestIsAsked DEF FocusInv
      <4>3. QED
        BY <4>2, <3>1, <2>2
    <3>2. CASE focusBus # e.app
      <4>1. UNCHANGED <<caretMovedSinceFocus, query, pendingQuery>>
        BY <3>2, FocusAssumption DEF OnCaretMoved, Event
      <4>2. QED
        BY <4>1, <3>2, <1>1, <1>2, <1>4 DEF FocusInv, AsksForCaret, Latest
    <3>3. QED
      BY <3>1, <3>2
  <2>5. QED
    BY <1>1, <1>2, <2>1, <2>3, <2>4 DEF FocusInv
<1>5. QED
  BY <1>3, <1>4 DEF FocusInv

LEMMA FocusEventKeeps ==
  ASSUME FocusInv, OnFocusChanged, NothingLeftBehind', "send" \notin FocusFaults
  PROVE  FocusInv'
<1> DEFINE e == Head(events)
<1>1. /\ events # <<>> /\ events' = Tail(events) /\ e.kind = "focus"
      /\ UNCHANGED <<focused, caret, active>>
  BY DEF OnFocusChanged, Take, Event, FocusInv
<1>2. EventsSound(events') /\ e.app \in Apps
  BY <1>1, EventTaken DEF FocusInv
<1>3. CASE ~active
  <2>1. UNCHANGED <<query, pendingQuery, offsetCall, focusBus, caretMovedSinceFocus, cached>>
    BY <1>3 DEF OnFocusChanged
  <2>2. QED
    BY <1>1, <1>2, <1>3, <2>1 DEF FocusInv
<1>4. CASE active
  <2>1. focusBus' = e.app /\ caretMovedSinceFocus' = FALSE /\ offsetCall' = e.app
    BY <1>4 DEF OnFocusChanged, Event, Faulty
  <2>2. /\ FocusIsLast(events', focused)
        /\ ~HasFocus(events') => e.app = focused
        /\ CaretsAreLast(events', caret)
    BY <1>1, <1>4, EventTaken DEF FocusInv, EventsBringFocus, EventsBringCaret
  <2>3. EventsBringFocus' /\ EventsBringCaret'
    BY <1>1, <2>1, <2>2 DEF EventsBringFocus, EventsBringCaret
  <2>4. AsksForCaret'
    BY <2>1 DEF AsksForCaret
  <2>5. QED
    BY <1>1, <1>2, <2>1, <2>3, <2>4 DEF FocusInv
<1>5. QED
  BY <1>3, <1>4 DEF FocusInv

LEMMA OffsetReplyKeeps ==
  ASSUME FocusInv, OnCaretOffsetReply, NothingLeftBehind', FocusFaults \subseteq {"register"}
  PROVE  FocusInv'
<1>1. /\ offsetCall # None /\ offsetCall' = None
      /\ UNCHANGED <<focused, caret, events, active, focusBus, caretMovedSinceFocus, cached>>
  BY DEF OnCaretOffsetReply, world
<1>2. ASSUME active PROVE EventsBringFocus' /\ EventsBringCaret'
  BY <1>1, <1>2 DEF FocusInv, EventsBringFocus, EventsBringCaret
<1>3. ASSUME active, focusBus \in TextApps, ~HasCaret(events, focusBus)
      PROVE  Latest' = Query(focusBus, caret[focusBus])
  <2>1. focusBus \in Apps /\ focusBus # None /\ offsetCall = focusBus
    BY <1>1, <1>3, FocusAssumption DEF FocusInv
  <2>2. CASE caretMovedSinceFocus
    <3>1. UNCHANGED <<query, pendingQuery>>
      BY <2>2 DEF OnCaretOffsetReply, OffsetIsWanted
    <3>2. QED
      BY <3>1, <2>2, <1>1, <1>3 DEF FocusInv, AsksForCaret, Latest
  <2>3. CASE ~caretMovedSinceFocus
    <3>1. MovesUnderWay(focusBus) = 0
      <4>1. {i \in DOMAIN events : events[i].kind = "caret" /\ events[i].app = focusBus} = {}
        <5>1. DOMAIN events = 1 .. Len(events)
          BY LenProperties DEF FocusInv, EventsSound, IsSeq
        <5>2. QED
          BY <5>1, <1>3 DEF HasCaret, IsCaretOf
      <4>2. QED
        BY <4>1, FS_EmptySet DEF MovesUnderWay
    <3>2. caret[focusBus] \in Nat
      BY <2>1 DEF FocusInv
    <3>3. OffsetIsWanted /\ Answered(offsetCall) /\ ~Faulty("reply")
      BY <2>1, <2>3, <1>3 DEF OffsetIsWanted, Answered, Faulty
    <3>4. PICK late \in 0 .. MovesUnderWay(offsetCall) :
            StartQuery(Query(focusBus, caret[offsetCall] - late), query, pendingQuery)
      BY <3>3 DEF OnCaretOffsetReply
    <3>5. caret[offsetCall] - late = caret[focusBus]
      BY <2>1, <3>1, <3>2, <3>4
    <3>6. QED
      BY <3>4, <3>5, <2>1, QueryIsOne, NewestIsAsked DEF FocusInv
  <2>4. QED
    BY <2>2, <2>3 DEF FocusInv
<1>4. ASSUME active PROVE AsksForCaret'
  BY <1>1, <1>3, <1>4 DEF AsksForCaret
<1>5. QED
  BY <1>1, <1>2, <1>4 DEF FocusInv

LEMMA ExtentsReplyKeeps ==
  ASSUME FocusInv, OnExtentsReply, NothingLeftBehind', FocusFaults \subseteq {"register"}
  PROVE  FocusInv'
<1>1. /\ query # NoQuery
      /\ UNCHANGED <<focused, caret, events, active, offsetCall, focusBus,
                     caretMovedSinceFocus>>
  BY DEF OnExtentsReply, world
<1>2. ASSUME active PROVE EventsBringFocus' /\ EventsBringCaret'
  BY <1>1, <1>2 DEF FocusInv, EventsBringFocus, EventsBringCaret
<1>3. ASSUME active, NEW a \in TextApps, Latest = Query(a, caret[a])
      PROVE  Latest' = Query(a, caret[a])
  <2>1. a \in Apps /\ Query(a, caret[a]) # NoQuery /\ Query(a, caret[a]).app = a
    BY <1>3, QueryIsOne, FocusAssumption DEF Query
  <2>2. CASE pendingQuery # NoQuery
    <3>1. query' = pendingQuery /\ pendingQuery' = NoQuery
      BY <1>3, <2>2 DEF OnExtentsReply, StartQuery, Faulty
    <3>2. QED
      BY <3>1, <2>2, <1>3 DEF Latest
  <2>3. CASE pendingQuery = NoQuery
    <3>1. query = Query(a, caret[a])
      BY <1>1, <1>3, <2>3 DEF Latest
    <3>2. cached' = query
      BY <1>3, <2>1, <3>1 DEF OnExtentsReply, Answered, Faulty
    <3>3. query' = NoQuery /\ pendingQuery' = NoQuery
      BY <1>3, <2>3 DEF OnExtentsReply
    <3>4. QED
      BY <3>1, <3>2, <3>3 DEF Latest
  <2>4. QED
    BY <2>2, <2>3
<1>4. ASSUME active PROVE AsksForCaret'
  BY <1>1, <1>3, <1>4 DEF FocusInv, AsksForCaret
<1>5. QED
  BY <1>1, <1>2, <1>4 DEF FocusInv

\* Where no call fails once the bus has registered the source: whatever is focused,
\* moved, reordered or switched, for all applications: out of caret placement nothing
\* is left behind, and once every event and answer has arrived and the focus is on a
\* text widget, the cache is its latest caret (atspi_focus_source.cpp 214-411).  It
\* says nothing of a focused widget without text, where the caret of the application
\* before may stay: NoCaretWithoutText does not hold.
THEOREM CaretStaysCurrent ==
  ASSUME FocusFaults \subseteq {"register"}
  PROVE  FocusSpec => []CaretIsCurrent
<1>1. FocusInit => FocusInv
  <2> SUFFICES ASSUME FocusInit PROVE FocusInv
    OBVIOUS
  <2>1. EventsSound(events) /\ caret \in [Apps -> Nat] /\ focused \in Apps
    BY EmptyIsSeq DEF FocusInit, EventsSound
  <2>2. ~active /\ active \in BOOLEAN /\ caretMovedSinceFocus \in BOOLEAN
        /\ focusBus = None /\ NothingLeftBehind
    BY DEF FocusInit, NothingLeftBehind
  <2>3. QED
    BY <2>1, <2>2 DEF FocusInv
<1>2. FocusInv /\ [FocusNext]_focusVars => FocusInv'
  <2> SUFFICES ASSUME FocusInv, [FocusNext]_focusVars PROVE FocusInv'
    OBVIOUS
  <2>1. NothingLeftBehind' /\ "send" \notin FocusFaults
    BY FocusStepKeeps DEF FocusInv
  <2>2. CASE UNCHANGED focusVars
    BY <2>2 DEF FocusInv, focusVars, NothingLeftBehind, EventsBringFocus,
                EventsBringCaret, AsksForCaret, Latest
  <2>3. QED
    BY <2>1, <2>2, FocusMoveKeeps, CaretMoveKeeps, ActivateKeeps, DeactivateKeeps,
       CaretEventKeeps, FocusEventKeeps, OffsetReplyKeeps, ExtentsReplyKeeps
       DEF FocusNext
<1>3. FocusInv => CaretIsCurrent
  <2> SUFFICES ASSUME FocusInv, QuietFocus, focusBus \in TextApps
               PROVE  cached = Query(focused, caret[focused])
    BY DEF FocusInv, CaretIsCurrent, QuietCacheIsCurrent
  <2>1. focusBus # None /\ active
    BY FocusAssumption DEF FocusInv, NothingLeftBehind
  <2>2. ~HasFocus(events) /\ ~HasCaret(events, focusBus)
    BY DEF QuietFocus, HasFocus, HasCaret
  <2>3. focusBus = focused
    BY <2>1, <2>2 DEF FocusInv, EventsBringFocus
  <2>4. Latest = Query(focusBus, caret[focusBus])
    BY <2>1, <2>2 DEF FocusInv, AsksForCaret, QuietFocus
  <2>5. Latest = cached
    BY DEF Latest, QuietFocus, FocusInv, NothingLeftBehind
  <2>6. QED
    BY <2>3, <2>4, <2>5
<1>4. QED
  BY <1>1, <1>2, <1>3, PTL DEF FocusSpec

-----------------------------------------------------------------------------
\* The KWin source.  One query at most waits, and it is the one in flight; its id
\* names its file.
Answers == {"waiting", "pointer", "nothing", "dropped"}
OneWaits ==
  /\ answers \in Seq(Answers)
  /\ pending \in 0 .. Len(answers)
  /\ pending # 0 => answers[pending] = "waiting"

IdsMatch ==
  /\ constructed \in BOOLEAN
  /\ requestCounter \in 1 .. MaxRequestId
  /\ activeRequestId = currentScriptFile
  /\ (pending = 0) = (activeRequestId = kNoRequest)
  /\ ~constructed => pending = 0
  /\ constructed => files = {currentScriptFile} \ {NoFile}

KWinInv == OneWaits /\ IdsMatch

\* A step of the history that keeps it.
AnswersKept == Cursor!Next \/ answers' = answers

LEMMA FirstIdType == kFirstRequestId \in 1 .. MaxRequestId
  BY KWinAssumption DEF kFirstRequestId

LEMMA NextIdType ==
  ASSUME requestCounter \in 1 .. MaxRequestId
  PROVE  NextRequestId(requestCounter) \in 1 .. MaxRequestId
  BY KWinAssumption DEF NextRequestId, kFirstRequestId

\* An answer goes to the query that waits, if there is one.
LEMMA ResolvedAnswers ==
  ASSUME OneWaits, NEW a \in Answers
  PROVE  /\ Resolved(a) \in Seq(Answers) /\ Len(Resolved(a)) = Len(answers)
         /\ Cursor!Kept(answers, Resolved(a))
<1>1. CASE pending = 0
  BY <1>1 DEF Resolved, OneWaits, Cursor!Kept
<1>2. CASE pending # 0
  <2>1. Resolved(a) = [answers EXCEPT ![pending] = a] /\ pending \in 1 .. Len(answers)
    BY <1>2 DEF Resolved, OneWaits
  <2>2. /\ Resolved(a) \in Seq(Answers) /\ Len(Resolved(a)) = Len(answers)
        /\ \A i \in 1 .. Len(answers) : Resolved(a)[i] = IF i = pending THEN a ELSE answers[i]
    BY <2>1, ExceptSeq DEF OneWaits
  <2>3. QED
    BY <2>2, <1>2 DEF OneWaits, Cursor!Kept
<1>3. QED
  BY <1>1, <1>2

\* The end of a query by an answer.
LEMMA ResolveKeeps ==
  ASSUME KWinInv, NEW a \in Answers, Resolve(a),
         UNCHANGED <<constructed, requestCounter>>
  PROVE  KWinInv' /\ AnswersKept
<1>1. /\ answers' \in Seq(Answers) /\ Len(answers') = Len(answers)
      /\ Cursor!Kept(answers, answers')
  BY ResolvedAnswers DEF Resolve, KWinInv
<1>2. OneWaits'
  BY <1>1 DEF Resolve, NoActiveQuery, OneWaits
<1>3. IdsMatch'
  BY DEF KWinInv, IdsMatch, Resolve, NoActiveQuery, NoFile, kNoRequest
<1>4. AnswersKept
  BY <1>1 DEF AnswersKept, Cursor!Next, Cursor!Answer
<1>5. QED
  BY <1>2, <1>3, <1>4 DEF KWinInv

LEMMA GetCursorKeeps ==
  ASSUME KWinInv, NEW written \in BOOLEAN, GetCursor(written)
  PROVE  KWinInv' /\ AnswersKept
<1> DEFINE before == Resolved("nothing")
<1>1. /\ before \in Seq(Answers) /\ Len(before) = Len(answers)
      /\ Cursor!Kept(answers, before)
  BY ResolvedAnswers DEF KWinInv, Answers
<1>2. PICK new \in {"waiting", "nothing"} :
         /\ answers' = Append(before, new)
         /\ new = IF written THEN "waiting" ELSE "nothing"
  BY DEF GetCursor
<1>3. /\ answers' \in Seq(Answers) /\ Len(answers') = Len(answers) + 1
      /\ \A i \in 1 .. Len(answers) : answers'[i] = before[i]
      /\ answers'[Len(answers) + 1] = new
  BY <1>1, <1>2, AppendProperties DEF Answers
<1>4. OneWaits'
  <2>1. Len(answers) \in Nat
    BY LenProperties DEF KWinInv, OneWaits
  <2>2. CASE written
    BY <2>1, <2>2, <1>2, <1>3 DEF GetCursor, OneWaits
  <2>3. CASE ~written
    BY <2>1, <2>3, <1>3 DEF GetCursor, OneWaits, NoActiveQuery
  <2>4. QED
    BY <2>2, <2>3
<1>5. IdsMatch'
  <2>1. requestCounter' \in 1 .. MaxRequestId /\ requestCounter # 0
    BY NextIdType DEF GetCursor, KWinInv, IdsMatch
  <2>2. CASE written
    <3>1. Len(answers) + 1 # 0
      BY LenProperties DEF KWinInv, OneWaits
    <3>2. QED
      BY <2>1, <2>2, <3>1 DEF GetCursor, KWinInv, IdsMatch, NoFile, kNoRequest
  <2>3. CASE ~written
    BY <2>1, <2>3 DEF GetCursor, KWinInv, IdsMatch, NoActiveQuery, NoFile, kNoRequest
  <2>4. QED
    BY <2>2, <2>3
<1>6. AnswersKept
  <2>1. Cursor!Kept(answers, answers')
    BY <1>1, <1>3, LenProperties DEF Cursor!Kept, KWinInv, OneWaits
  <2>2. QED
    BY <2>1, <1>3 DEF AnswersKept, Cursor!Next, Cursor!GetCursor
<1>7. QED
  BY <1>4, <1>5, <1>6 DEF KWinInv

LEMMA DieKeeps ==
  ASSUME KWinInv, Die
  PROVE  KWinInv' /\ AnswersKept
<1>1. /\ answers' \in Seq(Answers) /\ Len(answers') = Len(answers)
      /\ Cursor!Kept(answers, answers')
  BY ResolvedAnswers DEF Die, KWinInv, Answers
<1>2. OneWaits'
  BY <1>1 DEF Die, NoActiveQuery, OneWaits
<1>3. IdsMatch'
  BY FirstIdType DEF KWinInv, IdsMatch, Die, NoActiveQuery, NoFile, kNoRequest
<1>4. AnswersKept
  BY <1>1 DEF AnswersKept, Cursor!Next, Cursor!Answer
<1>5. QED
  BY <1>2, <1>3, <1>4 DEF KWinInv

\* What moves no query and no file of the source.
LEMMA OthersKeep ==
  ASSUME KWinInv, UNCHANGED <<constructed, requestCounter, activeRequestId, pending,
                              currentScriptFile, files, answers>>
  PROVE  KWinInv' /\ AnswersKept
  BY DEF KWinInv, OneWaits, IdsMatch, AnswersKept

\* Messages and the timer: they end the query in flight or leave it; a load that
\* comes late removes no file but its own.
LEMMA MessagesKeep ==
  ASSUME KWinInv, OnLoadReply \/ ReportCursor \/ Timeout
  PROVE  KWinInv' /\ AnswersKept
<1>1. CASE OnLoadReply
  <2>1. UNCHANGED constructed
    BY <1>1 DEF OnLoadReply, Receives
  <2>2. CASE LateLoad(Message.id, Message.path) /\ Message.id # activeRequestId
    <3>1. UNCHANGED <<requestCounter, activeRequestId, pending, currentScriptFile, answers>>
      BY <2>2 DEF LateLoad, scriptVars
    <3>2. constructed => files' = files
      BY <2>2 DEF LateLoad, KWinInv, IdsMatch
    <3>3. QED
      BY <2>1, <3>1, <3>2 DEF KWinInv, OneWaits, IdsMatch, AnswersKept
  <2>3. CASE Resolve("nothing") /\ UNCHANGED requestCounter
    BY <2>1, <2>3, ResolveKeeps DEF Answers
  <2>4. CASE UNCHANGED <<requestCounter, activeRequestId, pending, currentScriptFile,
                         answers, files>>
    BY <2>1, <2>4, OthersKeep
  <2>5. QED
    BY <1>1, <2>2, <2>3, <2>4 DEF OnLoadReply
<1>2. CASE ReportCursor
  <2>1. UNCHANGED constructed
    BY <1>2 DEF ReportCursor, Receives
  <2>2. CASE Resolve("pointer") /\ UNCHANGED requestCounter
    BY <2>1, <2>2, ResolveKeeps DEF Answers
  <2>3. CASE UNCHANGED <<scriptVars, files, toKWin>>
    BY <2>1, <2>3, OthersKeep DEF scriptVars
  <2>4. QED
    BY <1>2, <2>2, <2>3 DEF ReportCursor
<1>3. CASE Timeout
  BY <1>3, ResolveKeeps DEF Timeout, Answers
<1>4. QED
  BY <1>1, <1>2, <1>3

LEMMA ConstructKeeps ==
  ASSUME KWinInv, Construct
  PROVE  KWinInv' /\ AnswersKept
<1>1. files' = {} /\ currentScriptFile = NoFile
  BY DEF Construct, Sweep, KWinInv, IdsMatch, NoFile, kNoRequest
<1>2. QED
  BY <1>1 DEF Construct, scriptVars, KWinInv, OneWaits, IdsMatch, AnswersKept

LEMMA KWinKeeps ==
  ASSUME KWinInv, [KWinNext]_kwinVars
  PROVE  KWinInv' /\ AnswersKept
<1>1. ASSUME NEW written \in BOOLEAN, GetCursor(written)
      PROVE  KWinInv' /\ AnswersKept
  BY <1>1, GetCursorKeeps
<1>2. ASSUME NEW path \in {NoPath} \cup FreePaths, KWinLoads(path)
      PROVE  KWinInv' /\ AnswersKept
  BY <1>2, OthersKeep DEF KWinLoads, scriptVars
<1>3. ASSUME NEW reports \in BOOLEAN, KWinRuns(reports)
      PROVE  KWinInv' /\ AnswersKept
  BY <1>3, OthersKeep DEF KWinRuns, scriptVars
<1>4. CASE KWinStops
  BY <1>4, OthersKeep DEF KWinStops, scriptVars
<1>5. CASE UNCHANGED kwinVars
  BY <1>5, OthersKeep DEF kwinVars
<1>6. QED
  BY <1>1, <1>2, <1>3, <1>4, <1>5, ConstructKeeps, MessagesKeep, DieKeeps DEF KWinNext

LEMMA KWinStarts ==
  ASSUME KWinInit
  PROVE  KWinInv /\ Cursor!Init
<1>1. answers \in Seq(Answers) /\ Len(answers) = 0
  BY EmptySeq DEF KWinInit
<1>2. OneWaits
  BY <1>1 DEF KWinInit, OneWaits
<1>3. IdsMatch
  BY FirstIdType DEF KWinInit, IdsMatch, kNoRequest, NoFile
<1>4. Cursor!Init
  BY DEF KWinInit, Cursor!Init
<1>5. QED
  BY <1>2, <1>3, <1>4 DEF KWinInv

\* Whatever is superseded, times out, comes late or dies, for all ids: the directory
\* holds the file of the query in flight and no other (CursorSource.cpp 133-304).
THEOREM FilesStaySwept == KWinSpec => []FilesAreSwept
<1>1. KWinInv => FilesAreSwept
  BY DEF KWinInv, IdsMatch, FilesAreSwept, NoFile, kNoRequest
<1>2. QED
  BY <1>1, KWinStarts, KWinKeeps, PTL DEF KWinSpec

\* Every step of the source is one of the abstract CursorSource or a stutter: no query is
\* answered twice and no answer is taken back.  That each is answered is the run's.
THEOREM AnswersAreFinal == KWinSpec => Cursor!Init /\ [][Cursor!Next]_answers
<1>1. KWinInv /\ [KWinNext]_kwinVars => KWinInv' /\ [Cursor!Next]_answers
  BY KWinKeeps DEF AnswersKept
<1>2. KWinInit => KWinInv /\ Cursor!Init
  BY KWinStarts
<1>3. QED
  BY <1>1, <1>2, PTL DEF KWinSpec

\* What is under way between the source and KWin.
\*
\* A request, and a reply that brings a path.
HasStop(k, p) == \E i \in 1 .. Len(k) : k[i].method = "stop" /\ k[i].arg = p
BringsPath(m, p) == m.kind = "loaded" /\ m.path = p /\ p # NoPath
HasLoaded(src, p) == \E i \in 1 .. Len(src) : BringsPath(src[i], p)
HasScript(S, l, p) == \E s \in S : s.path = p /\ s.sender = l

\* Every script of this process is in one place: its path is in a reply under way, in
\* the source's hands (held), or in a request to stop it.
RequestsSound(k, S, l) ==
  /\ IsSeq(k)
  /\ \A i \in 1 .. Len(k) : /\ k[i].sender \in Nat /\ k[i].sender <= l
                            /\ k[i].method = "loadScript" => k[i].arg # kNoRequest
                            /\ k[i].method = "stop" => \E s \in S : s.path = k[i].arg
  /\ \A i, j \in 1 .. Len(k) :
       k[i].method = "stop" /\ k[j].method = "stop" /\ k[i].arg = k[j].arg => i = j
RepliesSound(src, S, l) ==
  /\ IsSeq(src)
  /\ \A i \in 1 .. Len(src) :
       src[i].kind = "loaded" =>
         /\ src[i].id # kNoRequest
         /\ src[i].path # NoPath =>
              \E s \in S : s.path = src[i].path /\ s.file = src[i].id /\ s.sender = l
  /\ \A i, j \in 1 .. Len(src) :
       \A p : BringsPath(src[i], p) /\ BringsPath(src[j], p) => i = j
ScriptsSound(S, l) ==
  /\ \A s \in S : s.path # NoPath /\ s.sender \in Nat /\ s.sender <= l
  /\ \A s, t \in S : s.path = t.path \/ s.file = t.file => s = t
Apart(k, src, held) ==
  \A p : /\ ~(p \in held /\ HasStop(k, p))
         /\ ~(p \in held /\ HasLoaded(src, p))
         /\ ~(HasStop(k, p) /\ HasLoaded(src, p))
Known(k, src, S, l, held) ==
  /\ \A p \in held : HasScript(S, l, p)
  /\ \A s \in S : s.sender = l =>
       s.path \in held \/ HasStop(k, s.path) \/ HasLoaded(src, s.path)

Traced(k, src, S, l, held) ==
  /\ RequestsSound(k, S, l) /\ RepliesSound(src, S, l) /\ ScriptsSound(S, l)
  /\ Apart(k, src, held) /\ Known(k, src, S, l, held)

\* A queue and what it holds once it grows or shrinks.
LEMMA StopsAdded ==
  ASSUME NEW k, IsSeq(k), NEW r
  PROVE  \A p : HasStop(Append(k, r), p)
                  <=> HasStop(k, p) \/ (r.method = "stop" /\ r.arg = p)
<1>1. /\ Len(k) \in Nat /\ Len(Append(k, r)) = Len(k) + 1
      /\ \A i \in 1 .. Len(k) : Append(k, r)[i] = k[i]
      /\ Append(k, r)[Len(k) + 1] = r
  BY AppendedSeq
<1>2. /\ 1 .. Len(Append(k, r)) = (1 .. Len(k)) \cup {Len(k) + 1}
  BY <1>1
<1>3. QED
  BY <1>1, <1>2 DEF HasStop

LEMMA RepliesAdded ==
  ASSUME NEW src, IsSeq(src), NEW m
  PROVE  \A p : HasLoaded(Append(src, m), p) <=> HasLoaded(src, p) \/ BringsPath(m, p)
<1>1. /\ Len(src) \in Nat /\ Len(Append(src, m)) = Len(src) + 1
      /\ \A i \in 1 .. Len(src) : Append(src, m)[i] = src[i]
      /\ Append(src, m)[Len(src) + 1] = m
  BY AppendedSeq
<1>2. /\ 1 .. Len(Append(src, m)) = (1 .. Len(src)) \cup {Len(src) + 1}
  BY <1>1
<1>3. QED
  BY <1>1, <1>2 DEF HasLoaded

LEMMA StopsLeft ==
  ASSUME NEW k, IsSeq(k), k # <<>>
  PROVE  \A p : HasStop(k, p)
                  <=> HasStop(Tail(k), p) \/ (Head(k).method = "stop" /\ Head(k).arg = p)
<1>1. \A p : HasStop(Tail(k), p) => HasStop(k, p)
  <2> SUFFICES ASSUME NEW p, NEW i \in 1 .. Len(Tail(k)), Tail(k)[i].method = "stop",
                      Tail(k)[i].arg = p
               PROVE  HasStop(k, p)
    BY DEF HasStop
  <2>1. i + 1 \in 1 .. Len(k) /\ Tail(k)[i] = k[i + 1]
    BY RestOf
  <2>2. QED
    BY <2>1 DEF HasStop
<1>2. \A p : HasStop(k, p) => HasStop(Tail(k), p) \/ (Head(k).method = "stop" /\ Head(k).arg = p)
  <2> SUFFICES ASSUME NEW p, NEW i \in 1 .. Len(k), k[i].method = "stop", k[i].arg = p,
                      ~(Head(k).method = "stop" /\ Head(k).arg = p)
               PROVE  HasStop(Tail(k), p)
    BY DEF HasStop
  <2>1. PICK j \in 1 .. Len(Tail(k)) : i = j + 1 /\ Tail(k)[j] = k[i]
    BY RestOf
  <2>2. QED
    BY <2>1 DEF HasStop
<1>3. Head(k) = k[1] /\ 1 \in 1 .. Len(k)
  BY RestOf
<1>4. \A p : Head(k).method = "stop" /\ Head(k).arg = p => HasStop(k, p)
  BY <1>3 DEF HasStop
<1>5. QED
  BY <1>1, <1>2, <1>4

LEMMA RepliesLeft ==
  ASSUME NEW src, IsSeq(src), src # <<>>
  PROVE  \A p : HasLoaded(src, p) <=> HasLoaded(Tail(src), p) \/ BringsPath(Head(src), p)
<1>1. \A p : HasLoaded(Tail(src), p) => HasLoaded(src, p)
  <2> SUFFICES ASSUME NEW p, NEW i \in 1 .. Len(Tail(src)), BringsPath(Tail(src)[i], p)
               PROVE  HasLoaded(src, p)
    BY DEF HasLoaded
  <2>1. i + 1 \in 1 .. Len(src) /\ Tail(src)[i] = src[i + 1]
    BY RestOf
  <2>2. QED
    BY <2>1 DEF HasLoaded
<1>2. \A p : HasLoaded(src, p) => HasLoaded(Tail(src), p) \/ BringsPath(Head(src), p)
  <2> SUFFICES ASSUME NEW p, NEW i \in 1 .. Len(src), BringsPath(src[i], p),
                      ~BringsPath(Head(src), p)
               PROVE  HasLoaded(Tail(src), p)
    BY DEF HasLoaded
  <2>1. PICK j \in 1 .. Len(Tail(src)) : i = j + 1 /\ Tail(src)[j] = src[i]
    BY RestOf
  <2>2. QED
    BY <2>1 DEF HasLoaded
<1>3. Head(src) = src[1] /\ 1 \in 1 .. Len(src)
  BY RestOf
<1>4. QED
  BY <1>1, <1>2, <1>3 DEF HasLoaded

\* A request that stops nothing.
LEMMA RequestAdded ==
  ASSUME NEW k, NEW src, NEW S, NEW l, NEW held, Traced(k, src, S, l, held),
         NEW r, r.method # "stop", r.sender = l, l \in Nat,
         r.method = "loadScript" => r.arg # kNoRequest
  PROVE  Traced(Append(k, r), src, S, l, held)
<1> DEFINE new == Append(k, r)
<1>0. IsSeq(k)
  BY DEF Traced, RequestsSound
<1>1. /\ IsSeq(new) /\ Len(k) \in Nat /\ Len(new) = Len(k) + 1
      /\ \A i \in 1 .. Len(k) : new[i] = k[i]
      /\ new[Len(k) + 1] = r
  BY <1>0, AppendedSeq
<1>2. 1 .. Len(new) = (1 .. Len(k)) \cup {Len(k) + 1}
  BY <1>1
<1>3. \A p : HasStop(new, p) <=> HasStop(k, p)
  BY <1>0, StopsAdded
<1> HIDE DEF new
<1>4. RequestsSound(new, S, l)
  BY SMTT(30), <1>1, <1>2 DEF RequestsSound, Traced
<1>5. Apart(new, src, held) /\ Known(new, src, S, l, held)
  BY <1>3 DEF Traced, Apart, Known
<1>6. QED
  BY <1>4, <1>5 DEF Traced, new

\* A request to stop a script in the source's hands.
LEMMA StopAdded ==
  ASSUME NEW k, NEW src, NEW S, NEW l, NEW held, Traced(k, src, S, l, held),
         NEW r, r.method = "stop", r.sender = l, l \in Nat, r.arg \in held
  PROVE  Traced(Append(k, r), src, S, l, held \ {r.arg})
<1> DEFINE new == Append(k, r)
<1>0. IsSeq(k)
  BY DEF Traced, RequestsSound
<1>1. /\ IsSeq(new) /\ Len(k) \in Nat /\ Len(new) = Len(k) + 1
      /\ \A i \in 1 .. Len(k) : new[i] = k[i]
      /\ new[Len(k) + 1] = r
  BY <1>0, AppendedSeq
<1>2. 1 .. Len(new) = (1 .. Len(k)) \cup {Len(k) + 1}
  BY <1>1
<1>3. \A p : HasStop(new, p) <=> HasStop(k, p) \/ p = r.arg
  BY <1>0, StopsAdded
<1>4. ~HasStop(k, r.arg) /\ ~HasLoaded(src, r.arg) /\ HasScript(S, l, r.arg)
  BY DEF Traced, Apart, Known
<1> HIDE DEF new
<1>5. \A i \in 1 .. Len(k) : k[i].method = "stop" => k[i].arg # r.arg
  BY <1>4 DEF HasStop
<1>6. RequestsSound(new, S, l)
  BY SMTT(30), <1>1, <1>2, <1>4, <1>5 DEF RequestsSound, Traced, HasScript
<1>7. Apart(new, src, held \ {r.arg}) /\ Known(new, src, S, l, held \ {r.arg})
  BY <1>3, <1>4 DEF Traced, Apart, Known
<1>8. QED
  BY <1>6, <1>7 DEF Traced, new

\* The source takes a message: the path it brings is in its hands.
Brought(m) == IF m.kind = "loaded" /\ m.path # NoPath THEN {m.path} ELSE {}

LEMMA MessageTaken ==
  ASSUME NEW k, NEW src, NEW S, NEW l, NEW held, Traced(k, src, S, l, held), src # <<>>
  PROVE  /\ Traced(k, Tail(src), S, l, held \cup Brought(Head(src)))
         /\ Head(src).kind = "loaded" =>
              /\ Head(src).id # kNoRequest
              /\ Head(src).path # NoPath =>
                   /\ Head(src).path \notin held
                   /\ \E s \in S : /\ s.path = Head(src).path /\ s.file = Head(src).id
                                   /\ s.sender = l
<1> DEFINE new == Tail(src) m == Head(src)
<1>0. IsSeq(src)
  BY DEF Traced, RepliesSound
<1>1. /\ IsSeq(new) /\ m = src[1] /\ 1 \in 1 .. Len(src)
      /\ \A i \in 1 .. Len(new) : i + 1 \in 1 .. Len(src) /\ new[i] = src[i + 1] /\ i + 1 # 1
      /\ \A i, j \in 1 .. Len(new) : i + 1 = j + 1 => i = j
  BY <1>0, RestOf
<1>2. \A p : HasLoaded(src, p) <=> HasLoaded(new, p) \/ BringsPath(m, p)
  BY <1>0, RepliesLeft
<1>3. \A p : BringsPath(m, p) <=> p \in Brought(m)
  BY DEF BringsPath, Brought
<1>4. \A p \in Brought(m) : /\ p \notin held /\ ~HasStop(k, p) /\ HasScript(S, l, p)
                            /\ ~HasLoaded(new, p)
  <2> SUFFICES ASSUME NEW p \in Brought(m)
               PROVE  /\ p \notin held /\ ~HasStop(k, p) /\ HasScript(S, l, p)
                      /\ ~HasLoaded(new, p)
    OBVIOUS
  <2>1. BringsPath(src[1], p) /\ HasLoaded(src, p)
    BY <1>1, <1>2, <1>3
  <2>2. p \notin held /\ ~HasStop(k, p)
    BY <2>1 DEF Traced, Apart
  <2>3. HasScript(S, l, p)
    BY <2>1, <1>1 DEF Traced, RepliesSound, HasScript, BringsPath
  <2>4. ASSUME NEW i \in 1 .. Len(new), BringsPath(new[i], p)
        PROVE  FALSE
    <3>1. i + 1 \in 1 .. Len(src) /\ BringsPath(src[i + 1], p) /\ i + 1 # 1
      BY <2>4, <1>1
    <3>2. QED
      BY <3>1, <2>1, <1>1 DEF Traced, RepliesSound
  <2>5. QED
    BY <2>2, <2>3, <2>4 DEF HasLoaded
<1>5. m.kind = "loaded" =>
        /\ m.id # kNoRequest
        /\ m.path # NoPath =>
             \E s \in S : s.path = m.path /\ s.file = m.id /\ s.sender = l
  BY <1>1 DEF Traced, RepliesSound
<1>6. RepliesSound(new, S, l)
  <2>1. \A i, j \in 1 .. Len(new) : \A p :
          BringsPath(new[i], p) /\ BringsPath(new[j], p) => i = j
    <3> SUFFICES ASSUME NEW i \in 1 .. Len(new), NEW j \in 1 .. Len(new), NEW p,
                        BringsPath(new[i], p), BringsPath(new[j], p)
                 PROVE  i = j
      OBVIOUS
    <3>1. /\ i + 1 \in 1 .. Len(src) /\ BringsPath(src[i + 1], p)
          /\ j + 1 \in 1 .. Len(src) /\ BringsPath(src[j + 1], p)
      BY <1>1
    <3>2. i + 1 = j + 1
      BY <3>1 DEF Traced, RepliesSound
    <3>3. QED
      BY <3>2, <1>1
  <2>2. \A i \in 1 .. Len(new) : new[i].kind = "loaded" =>
          /\ new[i].id # kNoRequest
          /\ new[i].path # NoPath =>
               \E s \in S : s.path = new[i].path /\ s.file = new[i].id /\ s.sender = l
    BY <1>1 DEF Traced, RepliesSound
  <2>3. QED
    BY <1>1, <2>1, <2>2 DEF RepliesSound
<1> HIDE DEF new, m
<1>7. Apart(k, new, held \cup Brought(m))
  BY <1>2, <1>4 DEF Traced, Apart
<1>8. Known(k, new, S, l, held \cup Brought(m))
  BY <1>2, <1>3, <1>4 DEF Traced, Known
<1>9. \A p : p = m.path /\ m.kind = "loaded" /\ m.path # NoPath => p \notin held
  BY <1>3, <1>4 DEF BringsPath
<1>10. QED
  BY <1>5, <1>6, <1>7, <1>8, <1>9 DEF Traced, new, m

\* KWin takes a request; a stop removes its script.
LEMMA RequestTaken ==
  ASSUME NEW k, NEW src, NEW S, NEW l, NEW held, Traced(k, src, S, l, held), k # <<>>
  PROVE  /\ Head(k).method # "stop" => Traced(Tail(k), src, S, l, held)
         /\ Head(k).method = "stop" =>
              /\ Traced(Tail(k), src, {s \in S : s.path # Head(k).arg}, l, held)
              /\ Head(k).arg \notin held
         /\ Head(k).method = "loadScript" => Head(k).arg # kNoRequest
         /\ Head(k).sender \in Nat /\ Head(k).sender <= l
<1> DEFINE new == Tail(k) r == Head(k)
           T == IF r.method = "stop" THEN {s \in S : s.path # r.arg} ELSE S
<1>0. IsSeq(k)
  BY DEF Traced, RequestsSound
<1>1. /\ IsSeq(new) /\ r = k[1] /\ 1 \in 1 .. Len(k)
      /\ \A i \in 1 .. Len(new) : i + 1 \in 1 .. Len(k) /\ new[i] = k[i + 1] /\ i + 1 # 1
      /\ \A i, j \in 1 .. Len(new) : i + 1 = j + 1 => i = j
  BY <1>0, RestOf
<1>2. \A p : HasStop(k, p) <=> HasStop(new, p) \/ (r.method = "stop" /\ r.arg = p)
  BY <1>0, StopsLeft
<1>3. /\ r.method = "loadScript" => r.arg # kNoRequest
      /\ r.sender \in Nat /\ r.sender <= l
  BY <1>1 DEF Traced, RequestsSound
<1> HIDE DEF new, r
<1>4. T \subseteq S /\ \A s \in S : s \notin T => r.method = "stop" /\ s.path = r.arg
  OBVIOUS
<1>5. r.method = "stop" => r.arg \notin held /\ ~HasLoaded(src, r.arg)
  BY <1>2 DEF Traced, Apart
<1>6. ASSUME NEW i \in 1 .. Len(new), new[i].method = "stop"
      PROVE  \E s \in T : s.path = new[i].arg
  <2>1. PICK s \in S : s.path = new[i].arg
    BY <1>1, <1>6 DEF Traced, RequestsSound
  <2>2. r.method = "stop" => new[i].arg # r.arg
    BY <1>1, <1>6 DEF Traced, RequestsSound
  <2>3. QED
    BY <2>1, <2>2
<1>7. RequestsSound(new, T, l)
  <2>1. \A i \in 1 .. Len(new) : /\ new[i].sender \in Nat /\ new[i].sender <= l
                                 /\ new[i].method = "loadScript" => new[i].arg # kNoRequest
    BY <1>1 DEF Traced, RequestsSound
  <2>2. \A i, j \in 1 .. Len(new) :
         new[i].method = "stop" /\ new[j].method = "stop" /\ new[i].arg = new[j].arg
           => i = j
    <3> SUFFICES ASSUME NEW i \in 1 .. Len(new), NEW j \in 1 .. Len(new),
                        new[i].method = "stop", new[j].method = "stop",
                        new[i].arg = new[j].arg
                 PROVE  i + 1 = j + 1
      BY <1>1
    <3>1. /\ i + 1 \in 1 .. Len(k) /\ j + 1 \in 1 .. Len(k)
          /\ new[i] = k[i + 1] /\ new[j] = k[j + 1]
      BY <1>1
    <3>2. \A x, y \in 1 .. Len(k) :
            k[x].method = "stop" /\ k[y].method = "stop" /\ k[x].arg = k[y].arg => x = y
      BY DEF Traced, RequestsSound
    <3>3. QED
      BY <3>1, <3>2
  <2>3. QED
    BY <1>1, <1>6, <2>1, <2>2 DEF RequestsSound
<1>8. RepliesSound(src, T, l)
  <2>1. ASSUME NEW i \in 1 .. Len(src), src[i].kind = "loaded", src[i].path # NoPath
        PROVE  \E s \in T : s.path = src[i].path /\ s.file = src[i].id /\ s.sender = l
    <3>1. PICK s \in S : s.path = src[i].path /\ s.file = src[i].id /\ s.sender = l
      BY <2>1 DEF Traced, RepliesSound
    <3>2. HasLoaded(src, s.path)
      BY <2>1, <3>1 DEF HasLoaded, BringsPath
    <3>3. QED
      BY <3>1, <3>2, <1>4, <1>5
  <2>2. QED
    BY <2>1 DEF Traced, RepliesSound
<1>9. ScriptsSound(T, l)
  BY <1>4 DEF Traced, ScriptsSound
<1>10. Apart(new, src, held)
  BY <1>2 DEF Traced, Apart
<1>11. Known(new, src, T, l, held)
  <2>1. ASSUME NEW p \in held PROVE HasScript(T, l, p)
    BY <2>1, <1>4, <1>5 DEF Traced, Known, HasScript
  <2>2. ASSUME NEW s \in T, s.sender = l
        PROVE  s.path \in held \/ HasStop(new, s.path) \/ HasLoaded(src, s.path)
    BY <2>2, <1>2, <1>4 DEF Traced, Known
  <2>3. QED
    BY <2>1, <2>2 DEF Known
<1>12. Traced(new, src, T, l, held)
  BY <1>7, <1>8, <1>9, <1>10, <1>11 DEF Traced
<1>13. QED
  BY <1>3, <1>5, <1>12 DEF new, r

\* KWin adds a script, and reports it to the process that asked for it if that is
\* still the one that runs.
LEMMA ScriptAdded ==
  ASSUME NEW k, NEW src, NEW S, NEW l, NEW held, Traced(k, src, S, l, held),
         NEW s, s.path # NoPath, s.sender \in Nat, s.sender <= l, l \in Nat,
         \A t \in S : t.path # s.path /\ t.file # s.file, s.file # kNoRequest,
         NEW m, m.kind = "loaded", m.id = s.file, m.path = s.path
  PROVE  Traced(k, IF s.sender # l THEN src ELSE Append(src, m), S \cup {s}, l, held)
<1> DEFINE T == S \cup {s} new == Append(src, m)
<1>1. ScriptsSound(T, l)
  BY DEF Traced, ScriptsSound
<1>2. RequestsSound(k, T, l)
  BY DEF Traced, RequestsSound
<1>3. S \subseteq T /\ s \in T /\ \A t \in T : t \in S \/ t = s
  OBVIOUS
<1>4. RepliesSound(src, T, l)
  BY <1>3 DEF Traced, RepliesSound
<1>5. CASE s.sender # l
  <2>1. Known(k, src, T, l, held)
    BY <1>3, <1>5 DEF Traced, Known, HasScript
  <2>2. QED
    BY <1>1, <1>2, <1>4, <1>5, <2>1 DEF Traced
<1>6. CASE s.sender = l
  <2>0. IsSeq(src)
    BY DEF Traced, RepliesSound
  <2>1. /\ IsSeq(new) /\ Len(src) \in Nat /\ Len(new) = Len(src) + 1
        /\ \A i \in 1 .. Len(src) : new[i] = src[i]
        /\ new[Len(src) + 1] = m
    BY <2>0, AppendedSeq
  <2>2. 1 .. Len(new) = (1 .. Len(src)) \cup {Len(src) + 1}
    BY <2>1
  <2>3. \A p : HasLoaded(new, p) <=> HasLoaded(src, p) \/ p = s.path
    BY <2>0, RepliesAdded DEF BringsPath
  <2>4. s.path \notin held /\ ~HasStop(k, s.path) /\ ~HasLoaded(src, s.path)
    <3>1. s.path \notin held
      BY DEF Traced, Known, HasScript
    <3>2. ~HasStop(k, s.path)
      BY DEF Traced, RequestsSound, HasStop
    <3>3. ~HasLoaded(src, s.path)
      BY DEF Traced, RepliesSound, HasLoaded, BringsPath
    <3>4. QED
      BY <3>1, <3>2, <3>3
  <2>5. \A i \in 1 .. Len(src) : \A p : BringsPath(src[i], p) => p # s.path
    BY <2>4 DEF HasLoaded
  <2>6. \A p : BringsPath(m, p) => p = s.path
    BY DEF BringsPath
  <2> HIDE DEF new, T
  <2>7. RepliesSound(new, T, l)
    <3>1. ASSUME NEW i \in 1 .. Len(new), new[i].kind = "loaded"
          PROVE  /\ new[i].id # kNoRequest
                 /\ new[i].path # NoPath =>
                      \E t \in T : t.path = new[i].path /\ t.file = new[i].id /\ t.sender = l
      <4>1. CASE i \in 1 .. Len(src)
        BY <3>1, <4>1, <2>1, <1>4 DEF RepliesSound
      <4>2. CASE i = Len(src) + 1
        BY <4>2, <2>1, <1>3, <1>6
      <4>3. QED
        BY <3>1, <4>1, <4>2, <2>2
    <3>2. ASSUME NEW i \in 1 .. Len(new), NEW j \in 1 .. Len(new), NEW p,
                 BringsPath(new[i], p), BringsPath(new[j], p)
          PROVE  i = j
      <4>1. CASE i \in 1 .. Len(src) /\ j \in 1 .. Len(src)
        BY <3>2, <4>1, <2>1, <1>4 DEF RepliesSound
      <4>2. CASE i = Len(src) + 1 /\ j = Len(src) + 1
        BY <4>2
      <4>3. CASE i = Len(src) + 1 /\ j \in 1 .. Len(src)
        BY <3>2, <4>3, <2>1, <2>5, <2>6
      <4>4. CASE j = Len(src) + 1 /\ i \in 1 .. Len(src)
        BY <3>2, <4>4, <2>1, <2>5, <2>6
      <4>5. QED
        BY <4>1, <4>2, <4>3, <4>4, <2>2
    <3>3. QED
      BY <2>1, <3>1, <3>2 DEF RepliesSound
  <2>8. Apart(k, new, held)
    BY <2>3, <2>4 DEF Traced, Apart
  <2>9. Known(k, new, T, l, held)
    BY <2>3, <1>3 DEF Traced, Known, HasScript
  <2>10. Traced(k, new, T, l, held)
    BY <1>1, <1>2, <2>7, <2>8, <2>9 DEF Traced, T
  <2>11. QED
    BY <2>10, <1>6 DEF new, T
<1>7. QED
  BY <1>5, <1>6

\* A message that brings no path.
LEMMA MessageAdded ==
  ASSUME NEW k, NEW src, NEW S, NEW l, NEW held, Traced(k, src, S, l, held),
         NEW m, m.path = NoPath, m.kind = "loaded" => m.id # kNoRequest
  PROVE  Traced(k, Append(src, m), S, l, held)
<1> DEFINE new == Append(src, m)
<1>0. IsSeq(src)
  BY DEF Traced, RepliesSound
<1>1. /\ IsSeq(new) /\ Len(src) \in Nat /\ Len(new) = Len(src) + 1
      /\ \A i \in 1 .. Len(src) : new[i] = src[i]
      /\ new[Len(src) + 1] = m
  BY <1>0, AppendedSeq
<1>2. 1 .. Len(new) = (1 .. Len(src)) \cup {Len(src) + 1}
  BY <1>1
<1>3. \A p : HasLoaded(new, p) <=> HasLoaded(src, p)
  BY <1>0, RepliesAdded DEF BringsPath
<1>4. \A p : ~BringsPath(m, p)
  BY DEF BringsPath
<1> HIDE DEF new
<1>5. RepliesSound(new, S, l)
  BY <1>1, <1>2, <1>4 DEF Traced, RepliesSound
<1>6. Apart(k, new, held) /\ Known(k, new, S, l, held)
  BY <1>3 DEF Traced, Apart, Known
<1>7. QED
  BY <1>5, <1>6 DEF Traced, new

\* The process is another one.
LEMMA AllAreOld ==
  ASSUME NEW k, NEW src, NEW S, NEW l \in Nat, NEW held, Traced(k, src, S, l, held)
  PROVE  Traced(k, <<>>, S, l + 1, {})
<1>1. RequestsSound(k, S, l + 1)
  BY DEF Traced, RequestsSound
<1>2. RepliesSound(<<>>, S, l + 1) /\ \A p : ~HasLoaded(<<>>, p)
  BY EmptyIsSeq DEF RepliesSound, HasLoaded
<1>3. ScriptsSound(S, l + 1) /\ \A s \in S : s.sender # l + 1
  BY DEF Traced, ScriptsSound
<1>4. Apart(k, <<>>, {}) /\ Known(k, <<>>, S, l + 1, {})
  BY <1>2, <1>3 DEF Apart, Known
<1>5. QED
  BY <1>1, <1>2, <1>3, <1>4 DEF Traced

\* The script in the source's hands is that of the query in flight.
InHand == {currentScriptPath} \ {NoPath}
OfQueryInFlight ==
  /\ activeRequestId = kNoRequest => currentScriptPath = NoPath
  /\ currentScriptPath # NoPath =>
       \E s \in scripts : s.path = currentScriptPath /\ s.file = activeRequestId
NoStrayScript ==
  /\ lives \in Nat
  /\ Traced(toKWin, toSource, scripts, lives, InHand)
  /\ OfQueryInFlight

\* The end of a query asks for the script in hand to be stopped.
LEMMA StopsInHand ==
  ASSUME NEW src, lives \in Nat, Traced(toKWin, src, scripts, lives, InHand)
  PROVE  Traced(toKWin \o Stop(currentScriptPath), src, scripts, lives, {})
<1>0. IsSeq(toKWin)
  BY DEF Traced, RequestsSound
<1>1. CASE currentScriptPath = NoPath
  <2>1. toKWin \o Stop(currentScriptPath) = toKWin /\ InHand = {}
    BY <1>0, <1>1, ConcatNothing DEF Stop, InHand
  <2>2. QED
    BY <2>1
<1>2. CASE currentScriptPath # NoPath
  <2> DEFINE r == ToKWin("stop", currentScriptPath)
  <2>1. r.method = "stop" /\ r.sender = lives /\ r.arg = currentScriptPath
    BY DEF ToKWin
  <2>2. toKWin \o Stop(currentScriptPath) = Append(toKWin, r)
    BY <1>0, <1>2, AppendedSeq DEF Stop
  <2>3. InHand = {r.arg}
    BY <1>2, <2>1 DEF InHand
  <2> HIDE DEF r
  <2>4. Traced(Append(toKWin, r), src, scripts, lives, InHand \ {r.arg})
    BY <2>1, <2>3, StopAdded
  <2>5. InHand \ {r.arg} = {}
    BY <2>3
  <2>6. QED
    BY <2>2, <2>4, <2>5
<1>3. QED
  BY <1>1, <1>2

LEMMA GetCursorTraces ==
  ASSUME KWinInv, NoStrayScript, NEW written \in BOOLEAN, GetCursor(written)
  PROVE  NoStrayScript'
<1> DEFINE stopped == toKWin \o Stop(currentScriptPath)
           r == ToKWin("loadScript", requestCounter)
<1>1. Traced(stopped, toSource, scripts, lives, {})
  BY StopsInHand DEF NoStrayScript
<1>2. /\ currentScriptPath' = NoPath
      /\ toKWin' = IF written THEN stopped \o <<r>> ELSE stopped
      /\ UNCHANGED <<lives, scripts, toSource>>
  BY DEF GetCursor, NoActiveQuery
<1>3. r.method = "loadScript" /\ r.sender = lives /\ r.arg # kNoRequest
  BY DEF ToKWin, KWinInv, IdsMatch, kNoRequest
<1> HIDE DEF r, stopped
<1>4. IsSeq(stopped)
  BY <1>1 DEF Traced, RequestsSound
<1>5. Traced(Append(stopped, r), toSource, scripts, lives, {})
  BY <1>1, <1>3, RequestAdded DEF NoStrayScript
<1>6. stopped \o <<r>> = Append(stopped, r)
  BY <1>4, AppendedSeq
<1>7. Traced(toKWin', toSource, scripts, lives, {})
  BY <1>1, <1>2, <1>5, <1>6
<1>8. InHand' = {}
  BY <1>2 DEF InHand
<1>9. QED
  BY <1>2, <1>7, <1>8 DEF NoStrayScript, OfQueryInFlight

LEMMA ResolveTraces ==
  ASSUME lives \in Nat, Traced(toKWin, toSource', scripts, lives, InHand),
         NEW a, Resolve(a), UNCHANGED <<lives, scripts>>
  PROVE  NoStrayScript'
<1>1. Traced(toKWin', toSource', scripts, lives, {})
  BY StopsInHand DEF Resolve
<1>2. currentScriptPath' = NoPath /\ InHand' = {}
  BY DEF Resolve, NoActiveQuery, InHand
<1>3. QED
  BY <1>1, <1>2 DEF NoStrayScript, OfQueryInFlight

LEMMA LoadReplyTraces ==
  ASSUME KWinInv, NoStrayScript, OnLoadReply
  PROVE  NoStrayScript'
<1> DEFINE m == Head(toSource)
<1>1. /\ toSource # <<>> /\ m.kind = "loaded" /\ toSource' = Tail(toSource)
      /\ UNCHANGED <<lives, scripts>>
  BY DEF OnLoadReply, Receives, Message
<1>2. /\ Traced(toKWin, toSource', scripts, lives, InHand \cup Brought(m))
      /\ m.id # kNoRequest
      /\ m.path # NoPath =>
           /\ m.path \notin InHand
           /\ \E s \in scripts : s.path = m.path /\ s.file = m.id /\ s.sender = lives
  BY <1>1, MessageTaken DEF NoStrayScript
<1>3. CASE m.path = NoPath
  <2>1. Traced(toKWin, toSource', scripts, lives, InHand)
    <3>1. InHand \cup Brought(m) = InHand
      BY <1>3 DEF Brought
    <3>2. QED
      BY <1>2, <3>1
  <2>2. IsSeq(toKWin)
    BY <2>1 DEF Traced, RequestsSound
  <2>3. CASE m.id # activeRequestId
    <3>1. toKWin' = toKWin /\ UNCHANGED <<activeRequestId, currentScriptPath>>
      BY <2>3, <2>2, <1>3, ConcatNothing
         DEF OnLoadReply, Message, LateLoad, Stop, scriptVars
    <3>2. QED
      BY <2>1, <3>1, <1>1 DEF NoStrayScript, InHand, OfQueryInFlight
  <2>4. CASE m.id = activeRequestId
    <3>1. Resolve("nothing")
      BY <2>4, <1>3 DEF OnLoadReply, Message
    <3>2. QED
      BY <3>1, <2>1, <1>1, ResolveTraces DEF NoStrayScript
  <2>5. QED
    BY <2>3, <2>4
<1>4. CASE m.path # NoPath /\ m.id # activeRequestId
  <2> DEFINE r == ToKWin("stop", m.path)
  <2>1. r.method = "stop" /\ r.sender = lives /\ r.arg = m.path
    BY DEF ToKWin
  <2>2. IsSeq(toKWin)
    BY <1>2 DEF Traced, RequestsSound
  <2>3. toKWin' = Append(toKWin, r) /\ UNCHANGED <<activeRequestId, currentScriptPath>>
    BY <2>2, <1>4, AppendedSeq DEF OnLoadReply, Message, LateLoad, Stop, scriptVars
  <2>4. Brought(m) = {r.arg} /\ r.arg \notin InHand
    BY <2>1, <1>1, <1>2, <1>4 DEF Brought
  <2> HIDE DEF r, m
  <2>5. Traced(toKWin', toSource', scripts, lives, (InHand \cup {r.arg}) \ {r.arg})
    BY <2>1, <2>3, <2>4, <1>2, StopAdded DEF NoStrayScript
  <2>6. (InHand \cup {r.arg}) \ {r.arg} = InHand
    BY <2>4
  <2>7. QED
    BY <2>3, <2>5, <2>6, <1>1 DEF NoStrayScript, InHand, OfQueryInFlight
<1>5. CASE m.path # NoPath /\ m.id = activeRequestId
  <2> DEFINE r == ToKWin("run", m.path)
  <2>1. r.method = "run" /\ r.sender = lives
    BY DEF ToKWin
  <2>2. /\ toKWin' = Append(toKWin, r) /\ currentScriptPath' = m.path
        /\ UNCHANGED activeRequestId
    BY <1>5 DEF OnLoadReply, Message
  <2>3. currentScriptPath = NoPath
    <3> SUFFICES ASSUME currentScriptPath # NoPath PROVE FALSE
      OBVIOUS
    <3>1. PICK s \in scripts : s.path = currentScriptPath /\ s.file = activeRequestId
      BY DEF NoStrayScript, OfQueryInFlight
    <3>2. PICK t \in scripts : t.path = m.path /\ t.file = m.id
      BY <1>2, <1>5
    <3>3. s = t
      BY <3>1, <3>2, <1>5 DEF NoStrayScript, Traced, ScriptsSound
    <3>4. m.path \in InHand
      BY <3>1, <3>2, <3>3 DEF InHand
    <3>5. QED
      BY <3>4, <1>2, <1>5
  <2>4. InHand \cup Brought(m) = InHand'
    BY <2>2, <2>3, <1>1, <1>5 DEF InHand, Brought
  <2> HIDE DEF r, m
  <2>5. Traced(toKWin', toSource', scripts, lives, InHand')
    BY <2>1, <2>2, <2>4, <1>2, RequestAdded DEF NoStrayScript
  <2>6. OfQueryInFlight'
    BY <2>2, <1>1, <1>2, <1>5 DEF OfQueryInFlight
  <2>7. QED
    BY <2>5, <2>6, <1>1 DEF NoStrayScript
<1>6. QED
  BY <1>3, <1>4, <1>5

LEMMA ReportTraces ==
  ASSUME NoStrayScript, ReportCursor
  PROVE  NoStrayScript'
<1> DEFINE m == Head(toSource)
<1>1. /\ toSource # <<>> /\ m.kind = "report" /\ toSource' = Tail(toSource)
      /\ UNCHANGED <<lives, scripts>>
  BY DEF ReportCursor, Receives, Message
<1>2. InHand \cup Brought(m) = InHand
  BY <1>1 DEF Brought
<1>3. Traced(toKWin, toSource', scripts, lives, InHand)
  BY <1>1, <1>2, MessageTaken DEF NoStrayScript
<1>4. CASE Resolve("pointer")
  BY <1>1, <1>3, <1>4, ResolveTraces DEF NoStrayScript
<1>5. CASE UNCHANGED <<scriptVars, files, toKWin>>
  BY <1>1, <1>3, <1>5 DEF NoStrayScript, InHand, OfQueryInFlight, scriptVars
<1>6. QED
  BY <1>4, <1>5 DEF ReportCursor

LEMMA DieTraces ==
  ASSUME NoStrayScript, Die
  PROVE  NoStrayScript'
<1>1. Traced(toKWin', toSource', scripts', lives', {})
  BY AllAreOld DEF NoStrayScript, Die
<1>2. InHand' = {} /\ currentScriptPath' = NoPath /\ lives' \in Nat
  BY DEF NoStrayScript, Die, NoActiveQuery, InHand
<1>3. QED
  BY <1>1, <1>2 DEF NoStrayScript, OfQueryInFlight

LEMMA LoadTraces ==
  ASSUME NoStrayScript, NEW path, KWinLoads(path)
  PROVE  NoStrayScript'
<1> DEFINE r == Head(toKWin)
           s == [path |-> path, file |-> r.arg, sender |-> r.sender]
           m == [kind |-> "loaded", id |-> r.arg, path |-> path]
<1>1. /\ toKWin # <<>> /\ r.method = "loadScript" /\ toKWin' = Tail(toKWin)
      /\ path # NoPath => \A t \in scripts : t.path # path /\ t.file # r.arg
      /\ scripts' = IF path = NoPath THEN scripts ELSE scripts \cup {s}
      /\ toSource' = IF r.sender # lives THEN toSource ELSE Append(toSource, m)
      /\ UNCHANGED <<lives, activeRequestId, currentScriptPath>>
  BY DEF KWinLoads, Serves, Request, Paths, scriptVars
<1>2. /\ Traced(toKWin', toSource, scripts, lives, InHand)
      /\ r.arg # kNoRequest /\ r.sender \in Nat /\ r.sender <= lives
  BY <1>1, RequestTaken DEF NoStrayScript
<1>3. /\ s.path = path /\ s.file = r.arg /\ s.sender = r.sender
      /\ m.kind = "loaded" /\ m.id = r.arg /\ m.path = path
  OBVIOUS
<1> HIDE DEF r, s, m
<1>4. CASE path = NoPath
  <2>1. Traced(toKWin', Append(toSource, m), scripts, lives, InHand)
    BY <1>2, <1>3, <1>4, MessageAdded
  <2>2. Traced(toKWin', toSource', scripts', lives, InHand)
    BY <1>1, <1>2, <1>4, <2>1
  <2>3. QED
    BY <1>1, <1>4, <2>2 DEF NoStrayScript, InHand, OfQueryInFlight
<1>5. CASE path # NoPath
  <2>1. Traced(toKWin', IF s.sender # lives THEN toSource ELSE Append(toSource, m),
               scripts \cup {s}, lives, InHand)
    <3>1. /\ s.path # NoPath /\ s.sender \in Nat /\ s.sender <= lives /\ lives \in Nat
          /\ s.file # kNoRequest /\ m.id = s.file /\ m.path = s.path
          /\ \A t \in scripts : t.path # s.path /\ t.file # s.file
      BY <1>1, <1>2, <1>3, <1>5 DEF NoStrayScript
    <3>2. QED
      BY <3>1, <1>2, <1>3, ScriptAdded
  <2>2. Traced(toKWin', toSource', scripts', lives, InHand)
    BY <1>1, <1>3, <1>5, <2>1
  <2>3. OfQueryInFlight'
    BY <1>1, <1>5 DEF NoStrayScript, OfQueryInFlight
  <2>4. QED
    BY <1>1, <2>2, <2>3 DEF NoStrayScript, InHand
<1>6. QED
  BY <1>4, <1>5

LEMMA RunTraces ==
  ASSUME NoStrayScript, NEW reports \in BOOLEAN, KWinRuns(reports)
  PROVE  NoStrayScript'
<1>1. /\ toKWin # <<>> /\ Head(toKWin).method # "stop" /\ toKWin' = Tail(toKWin)
      /\ UNCHANGED <<lives, scripts, activeRequestId, currentScriptPath>>
  BY DEF KWinRuns, Serves, Request, scriptVars
<1>2. Traced(toKWin', toSource, scripts, lives, InHand)
  BY <1>1, RequestTaken DEF NoStrayScript
<1>3. Traced(toKWin', toSource', scripts, lives, InHand)
  <2>1. CASE reports
    <3> DEFINE s == CHOOSE s \in scripts : s.path = Request.arg
               m == [kind |-> "report", id |-> s.file, path |-> NoPath]
    <3>1. toSource' = Append(toSource, m)
      BY <2>1 DEF KWinRuns
    <3>2. m.kind # "loaded" /\ m.path = NoPath
      OBVIOUS
    <3> HIDE DEF m
    <3>3. QED
      BY <3>1, <3>2, <1>2, MessageAdded
  <2>2. CASE ~reports
    BY <2>2, <1>2 DEF KWinRuns
  <2>3. QED
    BY <2>1, <2>2
<1>4. QED
  BY <1>1, <1>3 DEF NoStrayScript, InHand, OfQueryInFlight

LEMMA StopTraces ==
  ASSUME NoStrayScript, KWinStops
  PROVE  NoStrayScript'
<1> DEFINE r == Head(toKWin)
<1>1. /\ toKWin # <<>> /\ r.method = "stop" /\ toKWin' = Tail(toKWin)
      /\ scripts' = {s \in scripts : s.path # r.arg}
      /\ UNCHANGED <<lives, toSource, activeRequestId, currentScriptPath>>
  BY DEF KWinStops, Serves, Request, scriptVars
<1>2. Traced(toKWin', toSource, scripts', lives, InHand) /\ r.arg \notin InHand
  BY <1>1, RequestTaken DEF NoStrayScript
<1> HIDE DEF r
<1>3. OfQueryInFlight'
  BY <1>1, <1>2 DEF NoStrayScript, OfQueryInFlight, InHand
<1>4. QED
  BY <1>1, <1>2, <1>3 DEF NoStrayScript, InHand

LEMMA NoStrayAtFirst ==
  ASSUME KWinInit
  PROVE  NoStrayScript
<1>1. /\ toKWin = <<>> /\ toSource = <<>> /\ scripts = {} /\ lives = 1 /\ InHand = {}
      /\ currentScriptPath = NoPath
  BY DEF KWinInit, InHand
<1>2. RequestsSound(<<>>, {}, 1) /\ RepliesSound(<<>>, {}, 1) /\ ScriptsSound({}, 1)
  BY EmptyIsSeq DEF RequestsSound, RepliesSound, ScriptsSound
<1>3. Apart(<<>>, <<>>, {}) /\ Known(<<>>, <<>>, {}, 1, {})
  BY DEF Apart, Known, HasStop, HasLoaded
<1>4. QED
  BY <1>1, <1>2, <1>3 DEF NoStrayScript, OfQueryInFlight, Traced

LEMMA NoStrayStays ==
  ASSUME KWinInv, NoStrayScript, [KWinNext]_kwinVars
  PROVE  NoStrayScript'
<1>1. ASSUME UNCHANGED <<lives, toKWin, toSource, scripts, activeRequestId,
                         currentScriptPath>>
      PROVE  NoStrayScript'
  BY <1>1 DEF NoStrayScript, InHand, OfQueryInFlight
<1>2. CASE Construct
  BY <1>1, <1>2 DEF Construct, scriptVars
<1>3. ASSUME NEW written \in BOOLEAN, GetCursor(written) PROVE NoStrayScript'
  BY <1>3, GetCursorTraces
<1>4. CASE Timeout
  BY <1>4, ResolveTraces DEF Timeout, NoStrayScript
<1>5. ASSUME NEW path \in {NoPath} \cup FreePaths, KWinLoads(path) PROVE NoStrayScript'
  BY <1>5, LoadTraces
<1>6. ASSUME NEW reports \in BOOLEAN, KWinRuns(reports) PROVE NoStrayScript'
  BY <1>6, RunTraces
<1>7. CASE UNCHANGED kwinVars
  BY <1>1, <1>7 DEF kwinVars
<1>8. QED
  BY <1>2, <1>3, <1>4, <1>5, <1>6, <1>7, LoadReplyTraces, ReportTraces, DieTraces,
     StopTraces DEF KWinNext

\* Whatever is superseded, times out, comes late or dies, for all ids and lives, the
\* wrap of the ids included: no file outlives its query, and once all that is under way
\* has arrived an idle source has no script left in KWin (CursorSource.cpp 133-304).
THEOREM NothingStaysLeaked == KWinSpec => []NothingIsLeaked
<1>1. KWinInit => KWinInv /\ NoStrayScript
  BY KWinStarts, NoStrayAtFirst
<1>2. KWinInv /\ NoStrayScript /\ [KWinNext]_kwinVars => KWinInv' /\ NoStrayScript'
  BY KWinKeeps, NoStrayStays
<1>3. KWinInv /\ NoStrayScript => NothingIsLeaked
  <2> SUFFICES ASSUME KWinInv, NoStrayScript PROVE NothingIsLeaked
    OBVIOUS
  <2>1. FilesAreSwept
    BY DEF KWinInv, IdsMatch, FilesAreSwept, NoFile, kNoRequest
  <2>2. ASSUME pending = 0, toKWin = <<>>, toSource = <<>>, NEW s \in scripts,
               s.sender = lives
        PROVE  FALSE
    <3>1. InHand = {}
      BY <2>2 DEF KWinInv, IdsMatch, NoStrayScript, OfQueryInFlight, InHand
    <3>2. ~HasStop(toKWin, s.path) /\ ~HasLoaded(toSource, s.path)
      BY <2>2 DEF HasStop, HasLoaded
    <3>3. QED
      BY <2>2, <3>1, <3>2 DEF NoStrayScript, Traced, Known
  <2>3. QED
    BY <2>1, <2>2 DEF NothingIsLeaked, ScriptsAreStopped
<1>4. QED
  BY <1>1, <1>2, <1>3, PTL DEF KWinSpec

-----------------------------------------------------------------------------
\* The types.

\* The types of the sink, with the wire as a sequence.
RequestTyped(r) ==
  /\ r.request = "key" => r.slot \in Nat
  /\ r.request = "keymap" => IsKeymap(r.map)
SinkTyped ==
  /\ IsKeymap(slotByCodepoint) /\ IsKeymap(keymap)
  /\ nextSlot \in Nat
  /\ sinkState \in SinkStates
  /\ todo \in Seq(Chars) /\ committing \in BOOLEAN
  /\ IsSeq(wire) /\ \A i \in 1 .. Len(wire) : RequestTyped(wire[i])
  /\ typed \in Seq(Chars) /\ sent \in Seq(Chars)
  /\ connected \in BOOLEAN

LEMMA RequestPut ==
  ASSUME NEW w, NEW r, IsSeq(w), \A i \in 1 .. Len(w) : RequestTyped(w[i]), RequestTyped(r)
  PROVE  /\ IsSeq(Append(w, r))
         /\ \A i \in 1 .. Len(Append(w, r)) : RequestTyped(Append(w, r)[i])
<1>1. /\ IsSeq(Append(w, r)) /\ Len(w) \in Nat /\ Len(Append(w, r)) = Len(w) + 1
      /\ \A i \in 1 .. Len(w) : Append(w, r)[i] = w[i]
      /\ Append(w, r)[Len(w) + 1] = r
  BY AppendedSeq
<1>2. ASSUME NEW i \in 1 .. Len(Append(w, r)) PROVE RequestTyped(Append(w, r)[i])
  <2>1. i \in 1 .. Len(w) \/ i = Len(w) + 1
    BY <1>1
  <2> QED
    BY <1>1, <2>1
<1> QED
  BY <1>1, <1>2

LEMMA PressKnownTypes ==
  ASSUME SinkTyped, PressKnown PROVE SinkTyped'
<1>1. /\ todo # <<>> /\ Head(todo) \in DOMAIN slotByCodepoint
      /\ SendKey(Head(todo), slotByCodepoint[Head(todo)], wire) /\ todo' = Tail(todo)
      /\ UNCHANGED <<slotByCodepoint, nextSlot, sinkState, committing, keymap, typed, connected>>
  BY DEF PressKnown
<1>2. Head(todo) \in Chars /\ todo' \in Seq(Chars)
  BY <1>1, HeadTailProperties DEF SinkTyped
<1>3. sent' \in Seq(Chars)
  BY <1>1, <1>2, AppendProperties DEF SendKey, SinkTyped
<1>4. slotByCodepoint[Head(todo)] \in Nat
  BY <1>1 DEF SinkTyped, IsKeymap
<1>5. RequestTyped(Key(slotByCodepoint[Head(todo)]))
  BY <1>4 DEF RequestTyped, Key
<1>6. IsSeq(wire') /\ \A i \in 1 .. Len(wire') : RequestTyped(wire'[i])
  BY <1>1, <1>5, RequestPut DEF SendKey, SinkTyped
<1> QED
  BY <1>1, <1>2, <1>3, <1>6 DEF SinkTyped

LEMMA PressNewTypes ==
  ASSUME SinkTyped, PressNew PROVE SinkTyped'
<1>1. /\ todo # <<>>
      /\ slotByCodepoint' = WithSlot(Head(todo)) /\ nextSlot' = nextSlot + 1
      /\ SendKey(Head(todo), nextSlot, Append(wire, Upload(slotByCodepoint')))
      /\ todo' = Tail(todo)
      /\ UNCHANGED <<sinkState, committing, keymap, typed, connected>>
  BY DEF PressNew
<1>2. Head(todo) \in Chars /\ todo' \in Seq(Chars)
  BY <1>1, HeadTailProperties DEF SinkTyped
<1>3. sent' \in Seq(Chars)
  BY <1>1, <1>2, AppendProperties DEF SendKey, SinkTyped
<1>4. IsKeymap(slotByCodepoint') /\ nextSlot' \in Nat
  BY <1>1, <1>2 DEF WithSlot, SinkTyped, IsKeymap
<1>5. RequestTyped(Key(nextSlot))
  BY DEF RequestTyped, Key, SinkTyped
<1>6. RequestTyped(Upload(slotByCodepoint'))
  BY <1>4 DEF RequestTyped, Upload
<1>7. IsSeq(wire') /\ \A i \in 1 .. Len(wire') : RequestTyped(wire'[i])
  <2> DEFINE w == Append(wire, Upload(slotByCodepoint'))
  <2>1. IsSeq(w) /\ \A i \in 1 .. Len(w) : RequestTyped(w[i])
    BY <1>6, RequestPut DEF SinkTyped
  <2>2. wire' = Append(w, Key(nextSlot))
    BY <1>1 DEF SendKey
  <2> HIDE DEF w
  <2> QED
    BY <1>5, <2>1, <2>2, RequestPut
<1> QED
  BY <1>1, <1>2, <1>3, <1>4, <1>7 DEF SinkTyped

LEMMA ServeTypes ==
  ASSUME SinkTyped, Serve PROVE SinkTyped'
<1> DEFINE r == Head(wire)
<1>1. /\ wire # <<>> /\ wire' = Tail(wire)
      /\ UNCHANGED <<slotByCodepoint, nextSlot, sinkState, todo, committing, sent, connected>>
  BY DEF Serve
<1>2. PICK S : wire \in Seq(S)
  BY DEF SinkTyped, IsSeq
<1>3. /\ wire' \in Seq(S) /\ Len(wire) \in Nat /\ Len(wire) >= 1 /\ Len(wire') = Len(wire) - 1
      /\ \A i \in 1 .. Len(wire') : wire'[i] = wire[i + 1]
      /\ r = wire[1]
  BY <1>1, <1>2, HeadTailProperties, LenProperties, EmptySeq
<1>4. IsSeq(wire') /\ \A i \in 1 .. Len(wire') : RequestTyped(wire'[i])
  <2>1. \A i \in 1 .. Len(wire') : i + 1 \in 1 .. Len(wire)
    BY <1>3
  <2> QED
    BY <1>3, <2>1 DEF SinkTyped, IsSeq
<1>5. RequestTyped(r)
  BY <1>3 DEF SinkTyped
<1>6. IsKeymap(keymap')
  BY <1>5 DEF Serve, SinkTyped, RequestTyped
<1>7. typed' \in Seq(Chars)
  <2>1. CASE typed' = typed
    BY <2>1 DEF SinkTyped
  <2>2. ASSUME NEW c \in TypedBy(r.slot, keymap), typed' = Append(typed, c)
        PROVE  typed' \in Seq(Chars)
    BY <2>2, AppendProperties DEF TypedBy, SinkTyped, IsKeymap
  <2> QED
    BY <2>1, <2>2 DEF Serve
<1> QED
  BY <1>1, <1>4, <1>6, <1>7 DEF SinkTyped

\* The sink's table, keymap, wire and texts keep their types, for all characters and
\* slots, also when uploads fail and the connection ends.
THEOREM SinkTypeCorrect == SinkSpec => []SinkTypeOK
<1>1. SinkInit => SinkTyped
  <2> SUFFICES ASSUME SinkInit PROVE SinkTyped  OBVIOUS
  <2>1. IsKeymap(NoKeymap)
    BY DEF IsKeymap, NoKeymap
  <2>2. IsSeq(wire) /\ Len(wire) = 0
    BY EmptyIsSeq DEF SinkInit
  <2>3. nextSlot \in Nat
    BY SinkAssumption DEF SinkInit
  <2>4. todo \in Seq(Chars) /\ typed \in Seq(Chars) /\ sent \in Seq(Chars)
    BY EmptySeq DEF SinkInit
  <2>5. committing \in BOOLEAN /\ connected \in BOOLEAN /\ sinkState \in SinkStates
    BY DEF SinkInit, SinkStates
  <2>6. IsKeymap(slotByCodepoint) /\ IsKeymap(keymap)
    BY <2>1 DEF SinkInit
  <2>7. \A i \in 1 .. Len(wire) : RequestTyped(wire[i])
    BY <2>2
  <2> QED
    BY <2>2, <2>3, <2>4, <2>5, <2>6, <2>7 DEF SinkTyped
<1>2. SinkTyped /\ [SinkNext]_sinkVars => SinkTyped'
  <2> SUFFICES ASSUME SinkTyped, [SinkNext]_sinkVars PROVE SinkTyped'  OBVIOUS
  <2>1. ASSUME NEW result \in {"Ok", "NoDisplayServer", "ProtocolAbsent", "ProtocolUnusable"},
               InitSink(result)
        PROVE  SinkTyped'
    BY <2>1 DEF InitSink, SinkTyped, SinkStates
  <2>2. ASSUME NEW text \in Texts, Commit(text) PROVE SinkTyped'
    BY <2>2, SinkAssumption DEF Commit, SinkTyped
  <2>3. CASE UploadFails \/ KeymapFull
    <3>1. todo' \in Seq(Chars)
      BY <2>3, HeadTailProperties DEF UploadFails, KeymapFull, SinkTyped
    <3> QED
      BY <2>3, <3>1 DEF UploadFails, RollBack, KeymapFull, SinkTyped
  <2>4. CASE RoundTrip
    BY <2>4 DEF RoundTrip, SinkTyped, SinkStates
  <2>5. CASE Disconnect
    <3>1. IsSeq(wire') /\ Len(wire') = 0
      BY <2>5, EmptyIsSeq DEF Disconnect
    <3>2. connected' \in BOOLEAN
      BY <2>5 DEF Disconnect
    <3>3. UNCHANGED <<slotByCodepoint, nextSlot, sinkState, todo, committing, keymap,
                      typed, sent>>
      BY <2>5 DEF Disconnect
    <3> QED
      BY <3>1, <3>2, <3>3 DEF SinkTyped
  <2>6. CASE UNCHANGED sinkVars
    BY <2>6 DEF sinkVars, SinkTyped
  <2> QED
    BY <2>1, <2>2, <2>3, <2>4, <2>5, <2>6, PressKnownTypes, PressNewTypes, ServeTypes
       DEF SinkNext
<1>3. SinkTyped => SinkTypeOK
  <2> SUFFICES ASSUME SinkTyped PROVE SinkTypeOK  OBVIOUS
  <2>1. DOMAIN wire = 1 .. Len(wire)
    BY LenProperties DEF SinkTyped, IsSeq
  <2> QED
    BY <2>1 DEF SinkTyped, SinkTypeOK, RequestTyped
<1> QED
  BY <1>1, <1>2, <1>3, PTL DEF SinkSpec

\* A query is asked for a place.
LEMMA AskedPlace ==
  ASSUME NEW q \in Places, NEW inFlight \in Places, NEW remembered \in Places,
         StartQuery(q, inFlight, remembered)
  PROVE  query' \in Places /\ pendingQuery' \in Places
<1>1. NoQuery \in Places
  BY DEF NoQuery, Places
<1> QED
  BY <1>1 DEF StartQuery

LEMMA EventTyped ==
  ASSUME events \in Seq(FocusEvents), Take
  PROVE  Event \in FocusEvents /\ events' \in Seq(FocusEvents)
<1>1. events # <<>> /\ events' = Tail(events)
  BY DEF Take
<1>2. Head(events) \in FocusEvents /\ Tail(events) \in Seq(FocusEvents)
  BY <1>1, HeadTailProperties
<1> QED
  BY <1>1, <1>2 DEF Event

LEMMA EventEmitted ==
  ASSUME events \in Seq(FocusEvents), NEW e \in FocusEvents, Emit(e)
  PROVE  events' \in Seq(FocusEvents)
<1>1. Append(events, e) \in Seq(FocusEvents)
  BY AppendProperties
<1> QED
  BY <1>1 DEF Emit

\* The focus source keeps its types, whichever calls fail and in whatever order events
\* and answers come (atspi_focus_source.cpp).
THEOREM FocusTypeCorrect == FocusSpec => []FocusTypeOK
<1>1. NoQuery \in Places
  BY DEF NoQuery, Places
<1>2. FocusInit => FocusTypeOK
  <2> SUFFICES ASSUME FocusInit PROVE FocusTypeOK  OBVIOUS
  <2>1. events \in Seq(FocusEvents)
    BY EmptySeq DEF FocusInit
  <2>2. caret \in [Apps -> Nat] /\ moves \in Nat
    BY DEF FocusInit
  <2> QED
    BY <1>1, <2>1, <2>2 DEF FocusInit, FocusTypeOK, NoRect
<1>3. FocusTypeOK /\ [FocusNext]_focusVars => FocusTypeOK'
  <2> SUFFICES ASSUME FocusTypeOK, [FocusNext]_focusVars PROVE FocusTypeOK'  OBVIOUS
  <2>1. ASSUME NEW app \in Apps, UserFocuses(app) PROVE FocusTypeOK'
    <3>1. [kind |-> "focus", app |-> app] \in FocusEvents
      BY DEF FocusEvents
    <3>2. events' \in Seq(FocusEvents)
      BY <2>1, <3>1, EventEmitted DEF UserFocuses, FocusTypeOK
    <3> QED
      BY <2>1, <3>2 DEF UserFocuses, FocusTypeOK
  <2>2. ASSUME NEW app \in Apps, CaretMoves(app) PROVE FocusTypeOK'
    <3>1. caret' \in [Apps -> Nat]
      BY <2>2 DEF CaretMoves, FocusTypeOK
    <3>2. [kind |-> "caret", app |-> app, offset |-> caret'[app]] \in FocusEvents
      BY <3>1 DEF FocusEvents
    <3>3. events' \in Seq(FocusEvents)
      BY <2>2, <3>2, EventEmitted DEF CaretMoves, FocusTypeOK
    <3> QED
      BY <2>2, <3>1, <3>3 DEF CaretMoves, FocusTypeOK
  <2>3. CASE Activate
    <3>1. active' \in BOOLEAN
      BY <2>3 DEF Activate, RegisterEvents
    <3>2. moves' \in Nat
      BY <2>3 DEF Activate, FocusTypeOK
    <3> QED
      BY <2>3, <3>1, <3>2 DEF Activate, FocusTypeOK
  <2>4. CASE Deactivate
    <3>1. active' \in BOOLEAN /\ caretMovedSinceFocus' \in BOOLEAN
      BY <2>4 DEF Deactivate, ForgetFocus
    <3>2. moves' \in Nat
      BY <2>4 DEF Deactivate, FocusTypeOK
    <3>3. pendingQuery' \in Places /\ cached' \in Places /\ focusBus' = None
      BY <2>4, <1>1 DEF Deactivate, ForgetFocus, NoRect
    <3> QED
      BY <2>4, <3>1, <3>2, <3>3 DEF Deactivate, FocusTypeOK
  <2>5. CASE OnCaretMoved
    <3>0. Take /\ Event.kind = "caret" /\ events \in Seq(FocusEvents)
      BY <2>5 DEF OnCaretMoved, FocusTypeOK
    <3>1. Event \in FocusEvents /\ events' \in Seq(FocusEvents) /\ Event.kind = "caret"
      BY <3>0, EventTyped
    <3>2. Query(Event.app, Event.offset) \in Places
      BY <3>1 DEF FocusEvents, Query, Places
    <3>3. query' \in Places /\ pendingQuery' \in Places
      BY <2>5, <3>2, AskedPlace DEF OnCaretMoved, FocusTypeOK
    <3>4. caretMovedSinceFocus' \in BOOLEAN
      BY <2>5 DEF OnCaretMoved, FocusTypeOK
    <3> QED
      BY <2>5, <3>1, <3>3, <3>4 DEF OnCaretMoved, FocusTypeOK
  <2>6. CASE OnFocusChanged
    <3>0. Take /\ Event.kind = "focus" /\ events \in Seq(FocusEvents)
      BY <2>6 DEF OnFocusChanged, FocusTypeOK
    <3>1. Event \in FocusEvents /\ events' \in Seq(FocusEvents)
      BY <3>0, EventTyped
    <3>2. Event.app \in Apps /\ Query(Event.app, 0) \in Places
      BY <3>1 DEF FocusEvents, Query, Places
    <3>3. UNCHANGED <<focused, caret, moves, active>>
      BY <2>6 DEF OnFocusChanged
    <3>4. CASE ~active
      BY <2>6, <3>1, <3>3, <3>4 DEF OnFocusChanged, FocusTypeOK
    <3>5. CASE active
      <4>1. cached' \in Places /\ focusBus' \in Apps /\ caretMovedSinceFocus' \in BOOLEAN
        BY <2>6, <3>2, <3>5, <1>1 DEF OnFocusChanged, NoRect
      <4>2. query' \in Places /\ pendingQuery' \in Places /\ offsetCall' \in Apps \cup {None}
        BY <2>6, <3>2, <3>5, AskedPlace DEF OnFocusChanged, FocusTypeOK
      <4> QED
        BY <3>1, <3>3, <4>1, <4>2 DEF FocusTypeOK
    <3> QED
      BY <3>4, <3>5 DEF FocusTypeOK
  <2>7. CASE OnCaretOffsetReply
    <3>1. ASSUME OffsetIsWanted, NEW late \in 0 .. MovesUnderWay(offsetCall)
          PROVE  Query(focusBus, caret[offsetCall] - late) \in Places
      <4>1. focusBus \in Apps /\ offsetCall \in Apps /\ late \in Int
        BY <2>7, <3>1 DEF OffsetIsWanted, OnCaretOffsetReply, FocusTypeOK
      <4> QED
        BY <4>1 DEF Query, Places, FocusTypeOK
    <3>2. query' \in Places /\ pendingQuery' \in Places
      BY <2>7, <3>1, AskedPlace DEF OnCaretOffsetReply, FocusTypeOK
    <3> QED
      BY <2>7, <3>2 DEF OnCaretOffsetReply, world, FocusTypeOK
  <2>8. CASE OnExtentsReply
    <3>1. query' \in Places /\ pendingQuery' \in Places
      BY <2>8, <1>1, AskedPlace DEF OnExtentsReply, FocusTypeOK
    <3>2. cached' \in Places
      BY <2>8 DEF OnExtentsReply, FocusTypeOK
    <3> QED
      BY <2>8, <3>1, <3>2 DEF OnExtentsReply, world, FocusTypeOK
  <2>9. CASE UNCHANGED focusVars
    BY <2>9 DEF focusVars, FocusTypeOK
  <2> QED
    BY <2>1, <2>2, <2>3, <2>4, <2>5, <2>6, <2>7, <2>8, <2>9 DEF FocusNext
<1> QED
  BY <1>2, <1>3, PTL DEF FocusSpec

\* The file and the script of the query in flight, and the paths that replies bring.
ReplyTyped(m) == m.kind = "loaded" => m.path \in Nat
KWinTyped ==
  /\ currentScriptFile \in 0 .. MaxRequestId /\ currentScriptPath \in Nat
  /\ files \subseteq 1 .. MaxRequestId
  /\ IsSeq(toSource) /\ \A i \in 1 .. Len(toSource) : ReplyTyped(toSource[i])

LEMMA ReplyPut ==
  ASSUME NEW w, NEW m, IsSeq(w), \A i \in 1 .. Len(w) : ReplyTyped(w[i]), ReplyTyped(m)
  PROVE  /\ IsSeq(Append(w, m))
         /\ \A i \in 1 .. Len(Append(w, m)) : ReplyTyped(Append(w, m)[i])
<1>1. /\ IsSeq(Append(w, m)) /\ Len(w) \in Nat /\ Len(Append(w, m)) = Len(w) + 1
      /\ \A i \in 1 .. Len(w) : Append(w, m)[i] = w[i]
      /\ Append(w, m)[Len(w) + 1] = m
  BY AppendedSeq
<1>2. ASSUME NEW i \in 1 .. Len(Append(w, m)) PROVE ReplyTyped(Append(w, m)[i])
  <2>1. i \in 1 .. Len(w) \/ i = Len(w) + 1
    BY <1>1
  <2> QED
    BY <1>1, <2>1
<1> QED
  BY <1>1, <1>2

LEMMA ReplyTaken ==
  ASSUME KWinTyped, toSource # <<>>
  PROVE  /\ ReplyTyped(Message)
         /\ IsSeq(Tail(toSource))
         /\ \A i \in 1 .. Len(Tail(toSource)) : ReplyTyped(Tail(toSource)[i])
<1>1. IsSeq(toSource)
  BY DEF KWinTyped
<1>2. Head(toSource) = toSource[1] /\ 1 \in 1 .. Len(toSource) /\ IsSeq(Tail(toSource))
  BY <1>1, RestOf
<1>3. ASSUME NEW i \in 1 .. Len(Tail(toSource)) PROVE ReplyTyped(Tail(toSource)[i])
  <2>1. i + 1 \in 1 .. Len(toSource) /\ Tail(toSource)[i] = toSource[i + 1]
    BY <1>1, RestOf
  <2> QED
    BY <2>1 DEF KWinTyped
<1> QED
  BY <1>2, <1>3 DEF KWinTyped, Message

LEMMA ReceiveTypes ==
  ASSUME KWinTyped, OnLoadReply \/ ReportCursor
  PROVE  KWinTyped'
<1>1. toSource # <<>> /\ toSource' = Tail(toSource)
  BY DEF OnLoadReply, ReportCursor, Receives
<1>2. /\ ReplyTyped(Message) /\ IsSeq(toSource')
      /\ \A i \in 1 .. Len(toSource') : ReplyTyped(toSource'[i])
  BY <1>1, ReplyTaken
<1>3. \/ currentScriptFile' = currentScriptFile
      \/ currentScriptFile' = NoFile
  BY DEF OnLoadReply, ReportCursor, LateLoad, Resolve, NoActiveQuery, scriptVars
<1>4. currentScriptPath' \in Nat
  <2>1. CASE OnLoadReply
    <3>1. Message.path \in Nat
      BY <1>2, <2>1 DEF OnLoadReply, Receives, ReplyTyped
    <3> QED
      BY <2>1, <3>1
         DEF OnLoadReply, LateLoad, Resolve, NoActiveQuery, scriptVars, NoPath, KWinTyped
  <2>2. CASE ReportCursor
    BY <2>2 DEF ReportCursor, Resolve, NoActiveQuery, scriptVars, NoPath, KWinTyped
  <2> QED
    BY <2>1, <2>2
<1>5. files' \subseteq files
  BY DEF OnLoadReply, ReportCursor, LateLoad, Resolve
<1> QED
  BY <1>2, <1>3, <1>4, <1>5, KWinAssumption DEF KWinTyped, NoFile

LEMMA KWinStepTypes ==
  ASSUME KWinTyped, KWinInv, [KWinNext]_kwinVars
  PROVE  KWinTyped'
<1>1. CASE Construct
  <2>1. UNCHANGED <<currentScriptFile, currentScriptPath, toSource>> /\ files' = {}
    BY <1>1 DEF Construct, Sweep, scriptVars
  <2> QED
    BY <2>1 DEF KWinTyped
<1>2. ASSUME NEW written \in BOOLEAN, GetCursor(written) PROVE KWinTyped'
  <2>1. requestCounter \in 1 .. MaxRequestId /\ UNCHANGED toSource
    BY <1>2 DEF GetCursor, KWinInv, IdsMatch
  <2>2. /\ currentScriptFile' \in {requestCounter, NoFile} /\ currentScriptPath' = NoPath
        /\ files' \subseteq files \cup {requestCounter}
    BY <1>2 DEF GetCursor, NoActiveQuery
  <2>3. currentScriptFile' \in 0 .. MaxRequestId
    BY <2>1, <2>2, KWinAssumption DEF NoFile
  <2> QED
    BY <2>1, <2>2, <2>3 DEF KWinTyped, NoPath
<1>3. CASE Timeout \/ Die
  <2>1. currentScriptFile' = NoFile /\ currentScriptPath' = NoPath /\ files' \subseteq files
    BY <1>3 DEF Timeout, Die, Resolve, NoActiveQuery
  <2>2. toSource' = toSource \/ toSource' = <<>>
    BY <1>3 DEF Timeout, Die
  <2>3. IsSeq(<<>>) /\ Len(<<>>) = 0
    BY EmptyIsSeq
  <2>4. IsSeq(toSource') /\ \A i \in 1 .. Len(toSource') : ReplyTyped(toSource'[i])
    BY <2>2, <2>3 DEF KWinTyped
  <2> QED
    BY <2>1, <2>4, KWinAssumption DEF KWinTyped, NoFile, NoPath
<1>4. ASSUME NEW path \in {NoPath} \cup FreePaths, KWinLoads(path) PROVE KWinTyped'
  <2> DEFINE m == [kind |-> "loaded", id |-> Request.arg, path |-> path]
  <2>1. ReplyTyped(m)
    BY DEF ReplyTyped, FreePaths, NoPath
  <2>2. toSource' = toSource \/ toSource' = Append(toSource, m)
    BY <1>4 DEF KWinLoads
  <2>3. UNCHANGED <<currentScriptFile, currentScriptPath, files>>
    BY <1>4 DEF KWinLoads, scriptVars
  <2> HIDE DEF m
  <2>4. IsSeq(toSource') /\ \A i \in 1 .. Len(toSource') : ReplyTyped(toSource'[i])
    BY <2>1, <2>2, ReplyPut DEF KWinTyped
  <2> QED
    BY <2>3, <2>4 DEF KWinTyped
<1>5. ASSUME NEW reports \in BOOLEAN, KWinRuns(reports) PROVE KWinTyped'
  <2>1. PICK m : ReplyTyped(m) /\ (toSource' = toSource \/ toSource' = Append(toSource, m))
    <3> DEFINE s == CHOOSE s \in scripts : s.path = Request.arg
               r == [kind |-> "report", id |-> s.file, path |-> NoPath]
    <3>1. ReplyTyped(r)
      BY DEF ReplyTyped
    <3>2. toSource' = toSource \/ toSource' = Append(toSource, r)
      BY <1>5 DEF KWinRuns
    <3> QED
      BY <3>1, <3>2
  <2>2. UNCHANGED <<currentScriptFile, currentScriptPath, files>>
    BY <1>5 DEF KWinRuns, scriptVars
  <2>3. IsSeq(toSource') /\ \A i \in 1 .. Len(toSource') : ReplyTyped(toSource'[i])
    BY <2>1, ReplyPut DEF KWinTyped
  <2> QED
    BY <2>2, <2>3 DEF KWinTyped
<1>6. CASE KWinStops \/ UNCHANGED kwinVars
  <2>1. UNCHANGED <<currentScriptFile, currentScriptPath, files, toSource>>
    BY <1>6 DEF KWinStops, kwinVars, scriptVars
  <2> QED
    BY <2>1 DEF KWinTyped
<1> QED
  BY <1>1, <1>2, <1>3, <1>4, <1>5, <1>6, ReceiveTypes DEF KWinNext

\* The KWin source keeps its types: ids that wrap, the file and the script path of the
\* query in flight, and one answer for each query (CursorSource.cpp).
THEOREM KWinTypeCorrect == KWinSpec => []KWinTypeOK
<1>1. KWinInit => KWinInv /\ KWinTyped
  <2> SUFFICES ASSUME KWinInit PROVE KWinInv /\ KWinTyped  OBVIOUS
  <2>1. currentScriptFile = 0 /\ currentScriptPath = 0 /\ IsSeq(toSource) /\ Len(toSource) = 0
    BY EmptyIsSeq DEF KWinInit, NoFile, NoPath
  <2>2. files \subseteq 1 .. MaxRequestId
    BY FirstIdType DEF KWinInit
  <2> QED
    BY <2>1, <2>2, KWinStarts, KWinAssumption DEF KWinTyped
<1>2. KWinInv /\ KWinTyped /\ [KWinNext]_kwinVars => KWinInv' /\ KWinTyped'
  BY KWinKeeps, KWinStepTypes
<1>3. KWinInv /\ KWinTyped => KWinTypeOK
  BY DEF KWinInv, OneWaits, IdsMatch, Answers, KWinTyped, KWinTypeOK
<1> QED
  BY <1>1, <1>2, <1>3, PTL DEF KWinSpec
=============================================================================
