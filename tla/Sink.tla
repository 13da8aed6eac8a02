-------------------------------- MODULE Sink --------------------------------
(***************************************************************************)
(* The text sink of the daemon                                             *)
(* (src/src/backends/evdev/virtual_keyboard_sink.cpp): a Wayland virtual   *)
(* keyboard that gives every character a keycode of its own in a keymap it *)
(* generates, uploads that keymap whenever a character is new, presses the *)
(* keycodes, and ends each commit with a round trip.                       *)
(*                                                                         *)
(* The requests travel in order to the compositor, which serves them while *)
(* the sink is still sending.  A keymap is a function from characters to   *)
(* keycodes.                                                               *)
(***************************************************************************)
EXTENDS Integers, Sequences

CONSTANTS
  Chars,             \* codepoints
  Silent,            \* those whose keysym types nothing
  Texts,             \* what the engine commits
  kFirstInjectionKeycode, kLastInjectionKeycode,
  MaxTyped           \* bound: characters in a run

ASSUME SinkAssumption ==
  /\ Silent \subseteq Chars
  /\ Texts \subseteq Seq(Chars)
  /\ kFirstInjectionKeycode \in Nat \ {0}
  /\ kLastInjectionKeycode \in Nat
  /\ kFirstInjectionKeycode <= kLastInjectionKeycode
  /\ MaxTyped \in Nat

VARIABLES
  slotByCodepoint, nextSlot,   \* the members of that name
  sinkState,     \* "none" before init, a SinkInit when init failed, "Ok", "dead"
  todo,          \* rest of the text of a commit in progress
  committing,
  wire,          \* requests the compositor has not served yet
  keymap,        \* the keymap the compositor holds
  typed,         \* what reached the application
  sent,          \* history: the characters whose key was pressed, the silent ones left out
  connected      \* is the compositor there?

sinkVars == <<slotByCodepoint, nextSlot, sinkState, todo, committing, wire,
              keymap, typed, sent, connected>>

NoKeymap == [c \in {} |-> 0]

SinkInit ==
  /\ slotByCodepoint = NoKeymap
  /\ nextSlot = kFirstInjectionKeycode
  /\ sinkState = "none"
  /\ todo = <<>> /\ committing = FALSE
  /\ wire = <<>> /\ keymap = NoKeymap
  /\ typed = <<>> /\ sent = <<>>
  /\ connected \in BOOLEAN

\* Requests.  A press is followed by its release, so one request stands for both.
Upload(map) == [request |-> "keymap", map |-> map]
Key(slot) == [request |-> "key", slot |-> slot]

\* The characters a keycode types under a keymap.
TypedBy(slot, map) == {c \in DOMAIN map \ Silent : map[c] = slot}

\* init: no display, no protocol in it, a keyboard that cannot be created or is
\* refused at the round trip, or a keyboard with the empty keymap.
InitSink(result) ==
  /\ sinkState = "none"
  /\ (result = "NoDisplayServer") = ~connected
  /\ sinkState' = result
  /\ keymap' = IF result = "Ok" THEN slotByCodepoint ELSE keymap
  /\ UNCHANGED <<slotByCodepoint, nextSlot, todo, committing, wire, typed, sent,
                 connected>>

\* commit: a dead sink and an empty text return at once.
Commit(text) ==
  /\ ~committing
  /\ sinkState = "Ok"
  /\ text # <<>>
  /\ Len(sent) + Len(text) <= MaxTyped
  /\ todo' = text
  /\ committing' = TRUE
  /\ UNCHANGED <<slotByCodepoint, nextSlot, sinkState, wire, keymap, typed, sent,
                 connected>>

\* sendKey for the first character of the rest.
SendKey(c, slot, before) ==
  /\ wire' = Append(before, Key(slot))
  /\ sent' = IF c \in Silent THEN sent ELSE Append(sent, c)

\* slotFor finds the character.
PressKnown ==
  /\ committing /\ todo # <<>>
  /\ Head(todo) \in DOMAIN slotByCodepoint
  /\ SendKey(Head(todo), slotByCodepoint[Head(todo)], wire)
  /\ todo' = Tail(todo)
  /\ UNCHANGED <<slotByCodepoint, nextSlot, sinkState, committing, keymap, typed,
                 connected>>

\* slotFor gives a new character the next slot and uploads the keymap.
WithSlot(c) ==
  [d \in DOMAIN slotByCodepoint \cup {c} |->
     IF d = c THEN nextSlot ELSE slotByCodepoint[d]]

PressNew ==
  /\ committing /\ todo # <<>>
  /\ Head(todo) \notin DOMAIN slotByCodepoint
  /\ nextSlot <= kLastInjectionKeycode
  /\ slotByCodepoint' = WithSlot(Head(todo))
  /\ nextSlot' = nextSlot + 1
  /\ SendKey(Head(todo), nextSlot, Append(wire, Upload(slotByCodepoint')))
  /\ todo' = Tail(todo)
  /\ UNCHANGED <<sinkState, committing, keymap, typed, connected>>

\* The upload fails (no memfd, a short write): the table and the counter are
\* rolled back and the character is skipped.
RollBack == UNCHANGED <<slotByCodepoint, nextSlot>>

UploadFails ==
  /\ committing /\ todo # <<>>
  /\ Head(todo) \notin DOMAIN slotByCodepoint
  /\ nextSlot <= kLastInjectionKeycode
  /\ RollBack
  /\ todo' = Tail(todo)
  /\ UNCHANGED <<sinkState, committing, wire, keymap, typed, sent, connected>>

\* All slots are taken: the character is skipped, and so is every new one after.
KeymapFull ==
  /\ committing /\ todo # <<>>
  /\ Head(todo) \notin DOMAIN slotByCodepoint
  /\ nextSlot > kLastInjectionKeycode
  /\ todo' = Tail(todo)
  /\ UNCHANGED <<slotByCodepoint, nextSlot, sinkState, committing, wire, keymap,
                 typed, sent, connected>>

\* Mutant: the commit does not wait for the compositor.
RoundTripMutant ==
  /\ committing /\ todo = <<>>
  /\ sinkState' = IF connected THEN sinkState ELSE "dead"
  /\ committing' = FALSE
  /\ UNCHANGED <<slotByCodepoint, nextSlot, todo, wire, keymap, typed, sent, connected>>

\* The round trip at the end of a commit returns when everything sent before it
\* was served, or fails for good.
RoundTrip ==
  /\ committing /\ todo = <<>>
  /\ connected => wire = <<>>
  /\ sinkState' = IF connected THEN sinkState ELSE "dead"
  /\ committing' = FALSE
  /\ UNCHANGED <<slotByCodepoint, nextSlot, todo, wire, keymap, typed, sent, connected>>

\* The compositor serves one request.
Serve ==
  /\ connected /\ wire # <<>>
  /\ wire' = Tail(wire)
  /\ LET r == Head(wire)
     IN  IF r.request = "keymap" THEN keymap' = r.map /\ UNCHANGED typed
         ELSE /\ UNCHANGED keymap
              /\ IF TypedBy(r.slot, keymap) = {} THEN UNCHANGED typed
                 ELSE \E c \in TypedBy(r.slot, keymap) : typed' = Append(typed, c)
  /\ UNCHANGED <<slotByCodepoint, nextSlot, sinkState, todo, committing, sent, connected>>

\* The connection is lost, with what was still under way.
Disconnect ==
  /\ connected
  /\ connected' = FALSE
  /\ wire' = <<>>
  /\ UNCHANGED <<slotByCodepoint, nextSlot, sinkState, todo, committing, keymap,
                 typed, sent>>

SinkNext ==
  \/ \E result \in {"Ok", "NoDisplayServer", "ProtocolAbsent", "ProtocolUnusable"} :
       InitSink(result)
  \/ \E text \in Texts : Commit(text)
  \/ PressKnown
  \/ PressNew
  \/ UploadFails
  \/ KeymapFull
  \/ RoundTrip
  \/ Serve
  \/ Disconnect

SinkSpec == SinkInit /\ [][SinkNext]_sinkVars

\* --- Properties ---

SinkStates == {"none", "Ok", "NoDisplayServer", "ProtocolAbsent", "ProtocolUnusable",
               "dead"}
IsKeymap(map) == DOMAIN map \subseteq Chars /\ map \in [DOMAIN map -> Nat]

\* The sink's variables keep their types.
SinkTypeOK ==
  /\ IsKeymap(slotByCodepoint) /\ IsKeymap(keymap)
  /\ nextSlot \in Nat
  /\ sinkState \in SinkStates
  /\ todo \in Seq(Chars) /\ committing \in BOOLEAN
  /\ \A i \in DOMAIN wire : wire[i].request = "key" => wire[i].slot \in Nat
  /\ \A i \in DOMAIN wire : wire[i].request = "keymap" => IsKeymap(wire[i].map)
  /\ typed \in Seq(Chars) /\ sent \in Seq(Chars)
  /\ connected \in BOOLEAN

\* The slots in use are exactly those below the counter, one per character: a
\* failed upload burns none of them and no slot is given twice (slotFor, 150-184).
SlotsAreDense ==
  /\ nextSlot \in kFirstInjectionKeycode .. kLastInjectionKeycode + 1
  /\ {slotByCodepoint[c] : c \in DOMAIN slotByCodepoint}
       = kFirstInjectionKeycode .. nextSlot - 1
  /\ \A c, d \in DOMAIN slotByCodepoint :
        slotByCodepoint[c] = slotByCodepoint[d] => c = d

\* When a commit has returned and the connection still stands, the application
\* has exactly the characters whose keys were pressed, each under the keymap that
\* knows it and in order, and nothing is under way that a forwarded key could
\* overtake (commit, 240-264).
CommitIsBarrier ==
  ~committing /\ connected => wire = <<>> /\ typed = sent

\* The two together: no text is typed with a key that means another character.
SinkKeepsText == SlotsAreDense /\ CommitIsBarrier
=============================================================================
