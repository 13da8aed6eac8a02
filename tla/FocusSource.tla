----------------------------- MODULE FocusSource -----------------------------
(***************************************************************************)
(* The caret source of the overlay                                         *)
(* (src/src/backends/evdev/atspi_focus_source.cpp).  It listens to focus   *)
(* and caret events on the accessibility bus, asks the application for the *)
(* place of the caret with asynchronous calls, and caches the last answer  *)
(* for the next overlay.                                                   *)
(*                                                                         *)
(* Events of the applications arrive in order; the answer to a call may    *)
(* arrive before or after any of them.  A place on the screen is known by  *)
(* the application and the caret offset it belongs to.                     *)
(***************************************************************************)
EXTENDS Integers, Sequences, FiniteSets

CONSTANTS
  Apps,
  TextApps,     \* those whose widgets have a text interface
  FocusFaults,  \* which calls may fail: "register", "send", "reply"
  MaxMoves,     \* bound: caret offsets
  MaxEvents,    \* bound: events under way
  MaxFocus      \* bound: focus changes and switches of the placement

None == "none"

ASSUME FocusAssumption ==
  /\ TextApps \subseteq Apps /\ None \notin Apps
  /\ FocusFaults \subseteq {"register", "send", "reply"}
  /\ MaxMoves \in Nat /\ MaxEvents \in Nat /\ MaxFocus \in Nat

VARIABLES
  focused,       \* the application that has the focus on the screen
  caret,         \* its caret offset in each application
  events,        \* focus and caret events under way
  moves,         \* focus changes and placement switches so far
  active,
  query,         \* the extents query in flight, NoQuery for none
  pendingQuery,  \* the one remembered meanwhile
  offsetCall,    \* the application asked for its caret offset
  focusBus,      \* the application of the last focus event
  caretMovedSinceFocus,
  cached         \* what current() returns

focusVars == <<focused, caret, events, moves, active, query, pendingQuery,
               offsetCall, focusBus, caretMovedSinceFocus, cached>>
world == <<focused, caret, events, moves>>

NoQuery == [app |-> None, offset |-> 0]
Query(app, offset) == [app |-> app, offset |-> offset]
NoRect == NoQuery
Faulty(kind) == kind \in FocusFaults

FocusInit ==
  /\ focused \in Apps
  /\ caret = [a \in Apps |-> 0]
  /\ events = <<>> /\ moves = 0
  /\ active = FALSE
  /\ query = NoQuery /\ pendingQuery = NoQuery
  /\ offsetCall = None
  /\ focusBus = None
  /\ caretMovedSinceFocus = FALSE
  /\ cached = NoRect

\* --- The desktop ---

\* Applications emit events only while somebody has registered for them.
Emit(event) ==
  /\ Len(events) < MaxEvents
  /\ events' = IF active THEN Append(events, event) ELSE events

UserFocuses(app) ==
  /\ app # focused /\ moves < MaxFocus
  /\ focused' = app /\ moves' = moves + 1
  /\ Emit([kind |-> "focus", app |-> app])
  /\ UNCHANGED <<caret, active, query, pendingQuery, offsetCall, focusBus,
                 caretMovedSinceFocus, cached>>

\* Carets also move in the background.
CaretMoves(app) ==
  /\ app \in TextApps /\ caret[app] < MaxMoves
  /\ caret' = [caret EXCEPT ![app] = @ + 1]
  /\ Emit([kind |-> "caret", app |-> app, offset |-> caret'[app]])
  /\ UNCHANGED <<focused, moves, active, query, pendingQuery, offsetCall, focusBus,
                 caretMovedSinceFocus, cached>>

\* --- The source ---

\* registerEvents: both events or none.
RegisterEvents == IF Faulty("register") THEN BOOLEAN ELSE {TRUE}

\* Entering caret placement; if the registry refuses, nothing changes.  Two reloads
\* are a debounce of 300 ms apart, and every pass of the loop drains the bus: events
\* of the last stay have been dropped by then.
Activate ==
  /\ ~active /\ moves < MaxFocus
  /\ events = <<>>
  /\ moves' = moves + 1
  /\ active' \in RegisterEvents
  /\ UNCHANGED <<focused, caret, events, query, pendingQuery, offsetCall, focusBus,
                 caretMovedSinceFocus, cached>>

ForgetFocus ==
  /\ cached' = NoRect
  /\ pendingQuery' = NoQuery
  /\ focusBus' = None
  /\ caretMovedSinceFocus' = FALSE

\* Leaving it: the cache, the remembered query and the focus go, the calls under
\* way stay.
Deactivate ==
  /\ active /\ moves < MaxFocus
  /\ moves' = moves + 1
  /\ active' = FALSE
  /\ ForgetFocus
  /\ UNCHANGED <<focused, caret, events, query, offsetCall>>

\* Mutant: a query once remembered is kept.
StartQueryMutant(q, inFlight, remembered) ==
  IF inFlight # NoQuery
  THEN query' = inFlight /\ pendingQuery' = (IF remembered = NoQuery THEN q ELSE remembered)
  ELSE query' = q /\ pendingQuery' = remembered

\* startQuery, given the query in flight and the remembered one: with one in
\* flight the new one replaces the remembered one, else it is sent.
StartQuery(q, inFlight, remembered) ==
  IF inFlight # NoQuery
  THEN query' = inFlight /\ pendingQuery' = q
  ELSE /\ query' \in {q} \cup (IF Faulty("send") THEN {NoQuery} ELSE {})
       /\ pendingQuery' = remembered

\* The next event of the bus.
Event == Head(events)
Take == events # <<>> /\ events' = Tail(events)

OnCaretMoved ==
  /\ Take /\ Event.kind = "caret"
  /\ IF active /\ focusBus \in {None, Event.app}
     THEN /\ caretMovedSinceFocus' = TRUE
          /\ StartQuery(Query(Event.app, Event.offset), query, pendingQuery)
     ELSE UNCHANGED <<caretMovedSinceFocus, query, pendingQuery>>
  /\ UNCHANGED <<focused, caret, moves, active, offsetCall, focusBus, cached>>

\* A gained focus drops the cache and asks for the caret offset; a previous such
\* call is cancelled.
OnFocusChanged ==
  /\ Take /\ Event.kind = "focus"
  /\ IF ~active
     THEN UNCHANGED <<query, pendingQuery, offsetCall, focusBus,
                      caretMovedSinceFocus, cached>>
     ELSE /\ cached' = NoRect
          /\ focusBus' = Event.app
          /\ caretMovedSinceFocus' = FALSE
          /\ \/ offsetCall' = Event.app /\ UNCHANGED <<query, pendingQuery>>
             \/ /\ Faulty("send")
                /\ offsetCall' = None
                /\ StartQuery(Query(Event.app, 0), query, pendingQuery)
  /\ UNCHANGED <<focused, caret, moves, active>>

\* An application without a text interface answers every call with an error.
Answered(app) == app \in TextApps

\* The answer to the call for the offset holds the offset of some moment; the
\* caret events since then arrive behind it.
MovesUnderWay(app) ==
  Cardinality({i \in DOMAIN events : events[i].kind = "caret" /\ events[i].app = app})
OffsetIsWanted == active /\ ~caretMovedSinceFocus /\ focusBus # None

OnCaretOffsetReply ==
  /\ offsetCall # None
  /\ offsetCall' = None
  /\ \/ /\ Answered(offsetCall) /\ OffsetIsWanted
        /\ \E late \in 0 .. MovesUnderWay(offsetCall) :
             StartQuery(Query(focusBus, caret[offsetCall] - late), query, pendingQuery)
     \/ /\ ~OffsetIsWanted \/ ~Answered(offsetCall) \/ Faulty("reply")
        /\ UNCHANGED <<query, pendingQuery>>
  /\ UNCHANGED <<world, active, focusBus, caretMovedSinceFocus, cached>>

\* The answer to the extents query: only a usable rectangle replaces the cache.
\* Then the remembered query is sent.
OnExtentsReply ==
  /\ query # NoQuery
  /\ IF ~active
     THEN query' = NoQuery /\ UNCHANGED <<pendingQuery, cached>>
     ELSE /\ \/ Answered(query.app) /\ cached' = query
             \/ (~Answered(query.app) \/ Faulty("reply")) /\ UNCHANGED cached
          /\ IF pendingQuery # NoQuery
             THEN StartQuery(pendingQuery, NoQuery, NoQuery)
             ELSE query' = NoQuery /\ UNCHANGED pendingQuery
  /\ UNCHANGED <<world, active, offsetCall, focusBus, caretMovedSinceFocus>>

FocusNext ==
  \/ \E app \in Apps : UserFocuses(app)
  \/ \E app \in Apps : CaretMoves(app)
  \/ Activate
  \/ Deactivate
  \/ OnCaretMoved
  \/ OnFocusChanged
  \/ OnCaretOffsetReply
  \/ OnExtentsReply

FocusSpec == FocusInit /\ [][FocusNext]_focusVars

\* --- Properties ---

Places == [app: Apps \cup {None}, offset: Int]
FocusEvents ==
  [kind: {"focus"}, app: Apps] \cup [kind: {"caret"}, app: Apps, offset: Int]

\* The variables keep their types.
FocusTypeOK ==
  /\ focused \in Apps /\ caret \in [Apps -> Nat]
  /\ events \in Seq(FocusEvents) /\ moves \in Nat
  /\ active \in BOOLEAN /\ caretMovedSinceFocus \in BOOLEAN
  /\ query \in Places /\ pendingQuery \in Places /\ cached \in Places
  /\ offsetCall \in Apps \cup {None}
  /\ focusBus \in Apps \cup {None}

\* A remembered query always has one in flight whose answer will send it, and out
\* of caret placement nothing of the last stay is left that a later one could
\* show or filter by (setActive, 214-239; startQuery, 255-280).
NothingLeftBehind ==
  /\ pendingQuery # NoQuery => query # NoQuery
  /\ ~active => cached = NoRect /\ pendingQuery = NoQuery /\ focusBus = None

QuietFocus == events = <<>> /\ query = NoQuery /\ offsetCall = None

\* When every event and answer has arrived and a text widget has the focus, the
\* cache is its latest caret, whatever was still under way for the application
\* before it and however often the placement was switched (255-411).
QuietCacheIsCurrent ==
  QuietFocus /\ focusBus \in TextApps => cached = Query(focused, caret[focused])

\* Both at once: a panel at a text widget is placed by the caret of now, and out of
\* caret placement by none.
CaretIsCurrent == NothingLeftBehind /\ QuietCacheIsCurrent

\* With the focus on a widget without text there is no caret, so that the panel
\* goes to the pointer or the grid (385-387, "A caret-less widget errors out,
\* leaving the cache empty for the pointer/grid fallback").  The code does not keep
\* it: the answer to a query of the application before fills the cache again.
NoCaretWithoutText ==
  QuietFocus /\ focusBus \in Apps \ TextApps => cached = NoRect
=============================================================================
