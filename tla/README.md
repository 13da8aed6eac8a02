# schnelle-zeichen, verified

A TLA+ model of schnelle-zeichen, the Linux daemon that turns "hold a key, tap a
leader" into umlauts and accents. The daemon grabs the evdev keyboards, withholds
the press of a mapped key, and either commits a variant through a virtual
keyboard or lets the plain character through; everything it does not want is
forwarded to a uinput clone of the keyboard.

TLC checks the modules on small instances, TLAPS proves theorems about them for
every value of the constants. Paths below are relative to the repository
(`src/engine/engine.cpp` is the engine, and so on).

    tlc -config MCEngineTyping.cfg MCEngine       # a run, see "Runs"
    tlc -config MCDaemonLoop.cfg MCDaemon
    tlc -config MCDesktop.cfg MCDesktop
    tlc -config MCEditor.cfg MCEditor
    tlapm EngineProofs.tla; tlapm EngineGestures.tla  # the proofs
    tlapm EngineAnswers.tla; tlapm DaemonProofs.tla
    tlapm EditorProofs.tla; tlapm MappingsProofs.tla
    tlapm DesktopProofs.tla; tlapm DisplayProofs.tla

## The system

| Component | State | Operations | Talks to |
|---|---|---|---|
| Gesture engine (`engine/engine.cpp`, `gesture_state.h`) | the withheld key, the cycle, the committed key, the consumed Alt, six timers, overlay flag, usage counts | `onKeyEvent` (press, repeat, release), the timer callbacks, `focusChanged`, `setConfig`, `setMappings`, `setProfiles`, `switchToProfileName` | `TextSink`, `OverlayPort`, `TimerPort`, all called synchronously |
| Pure parts of the engine (`accent_window.h`, `leader_classify.h`, `combo_parse.h`, `app_filter.h`, `hand_classifier.h`) | none | window arithmetic, what a key is, which way it steps | engine |
| Profiles (`core/profile_cycle.h`, `profile_compose.h`, `mappings_loader.cpp`, `profiles_io.h`) | `profiles.conf`, mapping files, merge manifests | compose, cycle, switch, save | engine, editor |
| Usage (`core/usage_sort.h`, `usage_io.h`) | counts, `usage.conf`, the reset marker | sort by count, flush every 30 s | engine, editor |
| Key source (`backends/evdev/evdev_key_source.cpp`, `uinput_forwarder.cpp`) | one grabbed fd and one clone per keyboard, keys held on the clone | read events, forward, resync after `SYN_DROPPED` | engine through a handler |
| Resolver (`xkb_resolver.cpp`) | one xkb state for all keyboards, refcounted keys | keysym, text and modifiers of a key | daemon |
| Timer port (`epoll_timer_port.cpp`) | armed timers | arm, cancel, fire what is due | engine |
| Sink (`virtual_keyboard_sink.cpp`) | Wayland connection, one keymap slot per character ever typed (never given back) | commit a text as virtual key strokes | engine, compositor |
| Daemon (`app/main.cpp`) | keyboards, paused, panic flags, hotplug and reload debounce | event loop, grab, drop, pause, reload, panic exit | everything |
| Control service (`control_service.cpp`) | the D-Bus name | GetPaused, Pause, Resume, Toggle, Quit, `PausedChanged` | tray, editor, daemon |
| Focus source (`atspi_focus_source.cpp`) | the application in focus, one query in flight and one remembered, the cached caret | focus and caret events, two asynchronous calls, `setActive` | overlay client |
| Overlay client (`overlay_dbus_client.cpp`) | is the overlay process there, and does it fit | show, hide, set progress, start, quit | overlay process over D-Bus |
| Overlay process (`overlay/main.cpp`, `OverlayController.cpp`) | what is shown, the window and its output, epoch and generation | show, hide, set progress; pointer answers, drawn frames, screen changes | compositor, cursor source |
| Cursor source (`overlay/CursorSource.cpp`) | the query in flight, its script and file | query the pointer, with a timeout | KWin |
| Overlay geometry (`core/*_overlay_geometry.h`) | none | margins at the pointer, at the caret, on a grid | overlay process |
| Tray (`tray/main.cpp`) | the pause entry, a restart chain, quit chains | pause toggle, restart, quit | control service, systemd |
| Profile list (`editor/ProfileListModel.cpp`) | `profiles.conf` in memory, a watch on it | create, preset, rename, remove, select, shortcuts, favourites | the files, and so the engine |
| Mapping list (`editor/MappingListModel.cpp`) | the rows of one file, the composed view | edit rows and variants, plain and composed | the files |
| Merge manifest (`editor/MergeManifestModel.cpp`) | `merge.conf`: base, sources, manual orders | combine, separate, reorder | mapping list, engine |
| Settings page (`editor/SettingsModel.cpp`) | the settings, the engine's pause | setters, save, query | `settings.conf`, control service |

The daemon is one thread around `epoll_wait`: a key, a timer, a D-Bus message or
an inotify event is handled to the end before the next. What makes it hard is not
threads but order: a withheld press lives across many events, and every one of
them (its own release, its own repeats, other keys, two kinds of leader, four
timers, a profile switch, a reload, a pause, a keyboard that disappears) may be
the one that ends it. Each must leave the release of that press, and of every
other key involved, with exactly one owner. The editor and the tray are other
processes that share files and the bus with the daemon.

`PROJECT.json` lists the components, and under "hazards" every place where this
can go wrong, with the property that would notice.

What makes each part correct:

- engine: one answer per withheld press and never a second, in typing order; releases
  swallowed exactly when their press was; timers never outlive their gesture; the
  overlay shows what will be committed; usage counts reach the disk;
- daemon: no key stuck across pause, unplug, resync or exit; the panic
  combination always works; a plugged keyboard is grabbed;
- timer port: a cancelled callback has no effect, a due one runs;
- sink: no text is typed with a key that means another character, and a commit
  returns only behind what it sent, so that a forwarded key cannot overtake it;
- focus source: at a text widget the overlay is placed by its caret of now, at any
  other by no caret (the code does not keep the second, see `stale_caret`);
- overlay: a window on the screen belongs to the overlay shown now, and every
  overlay that is shown becomes visible or is hidden;
- cursor source: each query is answered once and leaves nothing behind;
- geometry: a panel that fits is shown whole and off the caret's line;
- tray: the pause entry agrees with the engine on the bus; a restart replaces the
  engine it asked to go;
- profile list: two writers of one file end up agreeing; no two profiles share a
  name, a file or a shortcut;
- mappings: the page shows what the engine types from, and no edit loses a variant;
- settings: a leader that works is always left; the pause shown is the engine's;
- files: what is read is what was written.

## Modules

| Module | Models | Lines of the source |
|---|---|---|
| `AccentWindow` | the window of one held key | `accent_window.h` |
| `LeaderClassify` | leaders, their direction, the split keyboard | `leader_classify.h`, `keysyms.h` |
| `ProfileCycle` | the cycle shortcut's target | `profile_cycle.h` |
| `Engine` | the engine, the kernel's keyboards and the clones around it | `engine.cpp`, `gesture_state.h`, parts of `main.cpp`, `evdev_key_source.cpp`, `xkb_resolver.cpp` |
| `WithheldPress` | the abstract promise to the person typing | (specification) |
| `EngineProperties` | type invariant, safety, action and liveness properties, the refinement mapping | (properties) |
| `MCEngine` | instances for TLC | |
| `EngineProofs` | the engine's types; one owner of every release, no stuck key | |
| `EngineGestures` | what belongs to a gesture ends with it: its timers and its panel | |
| `EngineAnswers` | what is committed and when; the refinement of `WithheldPress`; what the daemon's loop may be answered | |
| `KeyAnswers` | the engine as the daemon's loop sees it: the answers it may give | `engine.cpp`, `gesture_state.h` |
| `Daemon` | the event loop around the engine, the devices and the files it follows | `main.cpp`, `evdev_key_source.cpp`, `epoll_timer_port.cpp`, `device_discovery.cpp`, `control_service.cpp` |
| `DaemonProperties` | type invariant, safety, action and liveness properties | (properties) |
| `MCDaemon` | instances for TLC | |
| `DaemonProofs` | the theorems about the daemon | |
| `Sink` | the text sink and the compositor's side of the wire | `virtual_keyboard_sink.cpp` |
| `FocusSource` | the caret cache and the applications it asks | `atspi_focus_source.cpp` |
| `OverlayDaemon` | controller, renderer, window, frames and outputs | `OverlayController.cpp`, `overlay/main.cpp`, `overlay_render.h` |
| `CursorSource` | the abstract promise of every cursor source | (specification) |
| `KWinCursor` | the KWin source, which keeps that promise | `CursorSource.cpp`, `cursor_request.h` |
| `Geometry` | where a panel lands on an output | `cursor_`, `caret_`, `progress_overlay_geometry.h`, `overlay/main.cpp` |
| `Tray` | the tray, engines one after another, the service manager | `tray/main.cpp`, `control_service.cpp` |
| `DesktopProofs` | the theorems about sink, focus source and KWin source | |
| `DisplayProofs` | the theorems about placements, overlay process and tray, and about `MCDesktop` | |
| `MCDesktop` | one instance of the desktop's modules | |
| `Profiles` | `profiles.conf` between editor and engine | `ProfileListModel.cpp`, `profiles_io.h`, `mappings_loader.cpp` |
| `Mappings` | the mapping page, the merge manifest, the composition on both sides | `MappingListModel.cpp`, `MergeManifestModel.cpp`, `profile_compose.h` |
| `Settings` | the settings page | `SettingsModel.cpp`, `SettingsModel.h` |
| `EditorProofs` | the theorems about the profile list and the settings page, and about `MCEditor` | |
| `MappingsProofs` | induction and recursion on numbers and sequences; the theorems about the mapping page and the written forms | |
| `Codec` | the written forms of texts | `mappings_io.h`, `usage_io.h`, `ini_io.h` |
| `MCEditor` | one instance of the editor's modules | |

`Engine` extends the three pure modules; `EngineProperties` extends `Engine` and
instantiates `WithheldPress`. `Daemon` does not extend `Engine`: the two share the
boundary `handler` / `focusChanged`, and each reduces what lies beyond it (`Engine`
has keyboards that disappear and reloads that happen; `Daemon` has an engine that
withholds or forwards). `KeyAnswers` is that boundary: `Daemon` extends it in the
engine's place, and `EngineProperties` instantiates it to say that `Engine` keeps to it. The modules of the desktop and of the editor each hold
a component together with the processes it talks to. `MCDesktop` and `MCEditor`
choose one of them in the initial state (`part`) and let only it move: they share no
state that matters to their properties, and their product would multiply the
states and show nothing new.

### How Engine corresponds to the code

`eng` is a record with the members of `GestureState` and the engine's members
that handlers change. A helper of the code is an operator from record to record
with the helper's name (`CommitPendingKey` is `commitPendingKey`, `EnterCycling`
is `enterCycling`), so that a handler that calls helpers one after another is
their composition and happens in one step, as in the program.

| Action | Code |
|---|---|
| `Press` | `onKeyEvent` for a press, one disjunct per early return: `PressFiltered`, `PressProfileShortcut`, `PressModifier`, `PressShortcut`, `PressLeader` (`handleLeader`), `PressMapped` (`startGesture`), `PressOther` |
| `Repeat` | `handleRepeat`: `RepeatOwnKey`, `RepeatLeader`, `RepeatCommitted`, `RepeatOther` |
| `Release` | `handleRelease`: consumed Alt, committed key, gesture key, anything else |
| `WindowTimeout`, `AutoSelect`, `OverlayShow`, `OverlayHide`, `ProfileFlash`, `UsageFlush` | the timer callbacks |
| `FocusChanged` | `focusChanged`, which the daemon calls when it pauses, resumes and stops |
| `Reload` | `setConfig`, `setProfiles`, `setMappings` as `reloadAll` calls them |
| `Unplug` | the daemon dropping a dead keyboard: its fd and clone go, the engine is not told |
| `SynDropped` | `syncFromDevice` after a buffer overrun: net changes go to resolver and clone, not to the engine |
| `Tick` | time |

Around the engine, `down` is what is physically held, `rep` the key the kernel
auto-repeats (the last pressed, until any release), `app` what the applications
see held on the clone, `lost` the modifiers whose release the shared resolver
never got. These come from the input layer of the kernel and from how
`evdev_key_source.cpp` uses it.

What is abstracted:

- a key is its evdev code; its keysym is reduced to the modifier it is, its text
  is a constant (one layout level). Learning the base character of a key
  happens on the same presses and is therefore the identity here;
- mappings are functions from input to a sequence of variants. Usage counts are
  not numbers: a re-sort may choose any order of the same variants, which
  includes the one the counts would give;
- the configured shortcuts all use exactly Ctrl, and what a key means with it is
  a constant. Parsing of combos and of the configuration is left out;
- the daemon never learns an application's id, so only whitelist mode filters
  (`Filtered`);
- texts on the panel are those it was handed: the callback that shows the overlay
  captures the variants when it is scheduled (`overlayShowTimer`), and the panel keeps
  the ones it shows, whatever a reload or a re-sort makes of the mapping meanwhile;
- times are ticks since the press; `MaxElapsed` is the only bound on them. Due
  callbacks fire one at a time, in any order, and key events may come between
  being due and firing;
- failures of the sink and of the overlay process are not seen by the engine
  (both calls return nothing that it uses) and are not modelled here;
- `handleLeader`'s branch for a cycle whose key is not pressed is kept in the
  model although no state reaches it with one keyboard.

### How Daemon corresponds to the code

`main` is one function; `dmn` holds its local variables (`paused`, `exitCode`,
`pendingStartupGrabs` and so on, the two Shift flags as a set, `g_stop` as `stop`)
and what it sees of the engine and the sink. `kb[p]` is the `GrabbedKeyboard` of
path `p` with the kernel's queue for its descriptor. `pc`, `ready`, `serving` and
`batch` are where the thread is: a pass of the loop takes a set of ready
descriptors, serves each once, and within one of them drains a keyboard event by
event, runs a batch of timer callbacks one by one or takes D-Bus messages one by
one. Between any two of these steps the outside may act.

| Action | Code |
|---|---|
| `Load`, `WatchDevices`, `Scan`, `WatchConfig` | `main` down to the loop, in its order: files and sink, `/dev/input` watch, discovery and `grabKeyboard`, config watch and control service; the early returns with their codes |
| `Wait`, `EndPass` | `epoll_wait`; the end of the loop's body: dead sink, stop, dead keyboards dropped |
| `ServeTimers`, then `SettleTimer`, `WindowTimer`, `ReloadTimer` | `EpollTimerPort::dispatch` and the callbacks it collected |
| `ServeSignal`, `ServeHotplug`, `ServeConfig` | the branches of the loop |
| `ServeControl`, `ProcessCall`, `EndControl` | `ControlService::process`, when its descriptor is ready and once more at the end of a pass |
| `ServeKeyboard`, `ReadEvent`, `Resync`, `EndDispatch` | `EvdevKeySource::dispatch`; `ReadEvent` calls `Handler`, which is `main`'s `handler` |
| `KeyDown`, `KeyUp`, `KeyRepeat`, `Overrun`, `Plug`, `GrantAccess`, `Unplug` | the kernel and udev |
| `Edit`, `Call`, `Signal`, `CompositorGoes` | the user, the editor, the tray, the compositor |
| `Settled`, `WindowDue`, `DebounceDue` | time: an armed timer becomes due |

What is abstracted:

- the engine is what it answers (`KeyAnswers`): it may withhold a letter, settle what it
  withholds (a commit notices a dead compositor), start or end its window, and swallows
  the releases of what it withheld. That module `Engine` gives no other answer, with one
  steady keyboard, is checked (`LoopSeesAll`) and proved (`LoopSeesAllHolds`). `KeyAnswers`
  allows more than `Engine` does. Not covered by the link: several keyboards, settings that are
  not steady (an app filter, leaders that repeat with Alt), and an automatic selection, which
  ends the window with no key and no timer of its own in `Daemon`; there the window
  becomes due later and need not commit anything;
- the modifiers of the pause shortcut are not tracked: a press of its key may match
  or not. A configuration is a flag (is a shortcut configured?) and a value;
- a device that another program has grabbed stays grabbed; one whose clone cannot
  be made never can (`fate`);
- timers have no lengths: any armed timer may become due at any time;
- failures of `epoll_create1`, `signalfd` and the inotify watches, the explicit
  device argument, `--timeout-s` and the caret source are left out, as are the
  resolver's locks and layout.

### How the desktop's modules correspond to the code

`Sink`. `Commit` is `VirtualKeyboardSink::commit` up to its loop; the loop's body is
one action per outcome of `slotFor` (`PressKnown`, `PressNew`, `UploadFails`,
`KeymapFull`), the round trip at its end is `RoundTrip`. The compositor serves the
requests in order while the sink still sends (`Serve`) and may vanish. A keymap is
a function from characters to slots. When all slots are taken the code skips every
new character for ever; the model does too.

`FocusSource`. `Activate` and `Deactivate` are the two branches of `setActive`;
`OnCaretMoved` and `OnFocusChanged` the two signal handlers; `OnCaretOffsetReply`
and `OnExtentsReply` the two reply handlers, `StartQuery` their common helper. A place
on the screen is the application and the caret offset it belongs to, which is
what tells a stale answer from a current one. Events of one application arrive in
order (D-Bus keeps it per sender); an answer holds the state of the moment it was
given, so that caret events behind it may be newer.

`OverlayDaemon`. `OnShow`, `OnHide` and `OnSetProgress` are the methods of
`OverlayController` with everything the signal they emit makes the renderer do
(`SyncToController` and, below it, `reveal`, `placePinned`, `hideWindow`,
`armTransitionRestore`). `OnCursor` is the callback of the pointer query, `DrawFrame`
and `OnFrameSwapped` the render thread and the call it posts, `OnScreenChanged` the
connection to the window's screen. The epoch tells a late pointer answer, the
generation a late frame. Of the timing bar only its message counts, which shuts
the gate of the transitions; lengths, colours and the panel's layout are left out.

`KWinCursor`. `GetCursor` writes the script's file and asks KWin to load it,
`OnLoadReply` runs it or, when its query was given up, unloads it (`LateLoad`),
`ReportCursor` is the script calling back, `Timeout` the one-second timer, `Die` the
end of the process; KWin loads, runs and stops scripts at its own pace. The module
refines `CursorSource` (`AnsweredOnce`): `answers` has one entry per query, and no entry
is ever taken back or answered twice.

`Geometry`. Pure: the operators have the names of the functions, and an action is
one placement of one surface on one output.

`Tray`. `engine` holds the processes, each with its control service and the calls
waiting for it; `unit` and `jobs` are systemd's side. `ClickRestart`, `RestartProbed`,
`OwnerGone`, `QuitGraceOver` and `TermGraceOver` are the chain of callbacks in
`main.cpp`; a probe may find the unit or miss it (systemctl absent or too slow).
Engines hang, recover and crash. A hanging engine does not read SIGTERM, because
the daemon blocks it and reads a signalfd (`app/main.cpp:644-653`): this is why
`HangOutlasts` says which grace period a hang may outlast.

### How the editor's modules correspond to the code

`Profiles`. `disk` is `profiles.conf`, `folder` the files of `profiles/`, `editor` and `engine`
the list in either memory. The editor's slots are actions (`CreateProfile`, `RenameProfile`
and so on, `Refuse` for what they turn down); each first rereads the active name
(`Reread`), so that a switch of the engine may fall between reading and saving. `NoticeChange` and `AdoptActive` are the two halves of
`onProfilesConfChanged`: the watch is added again, then the file is read. The engine
writes its own list when a shortcut switches (`SwitchToProfileName`) and rereads the
file after a debounce (`ArmReload`, `ReloadAll`). A name is a model value with a slug; the
number that `uniqueName` appends to the taken name of a preset makes it any name that is
free (`UniqueNames`).

`Mappings`. `entries` is the list of `MappingListModel`, `displayRows` the composed view,
`merge` the manifest in `MergeManifestModel` and `manifest` the copy in the mapping
model. Actions of the plain list refuse while the view is composed; composed chips
edit the profile they come from. `RuntimeMap` is what `buildRuntimeMaps` gives the
engine, from the files alone; `Compose` is used on both sides, as in the code.
A file is a sequence of rows, and one edited by hand may have an input on two: the page
edits the last of them or the first, as each method of the code does (`LastRowOf`, `RowOf`),
the loaders take the last that has variants (`MapOf`), the composed view the last (`OwnMap`).

`Settings`. One action per kind of setter: the four that guard the last leader each,
`SetOther` for all that only store a value. The second half is the page's view of the
engine: one queue from the bus with answers, signals and changes of the name's owner.

`Codec`. Texts are sequences of characters; `JoinOutputs`/`SplitOutputs`,
`WriteMapping`/`ParseMapping`, `EscapeTsvField`/`UnescapeTsvField`, `WriteUsage`/`ReadUsage`
and `EscapeIniValue`/`ParseIniLine` are the writers and parsers. The three escapings are one
table, `Letters(format)` and `Meaning(letter)`, read in both directions; the scanners are
recursive functions over one step per format (`Scan`, `Step`). A usage line's count is left
out; a line with fewer than two tabs or an empty or malformed field is dropped.

## Properties of the engine

Invariants: `TypeOK`; `OneGesture` (waiting and cycling exclude each other);
`SwallowedAreHeld` (what the engine will swallow the release of is held, and its
press was swallowed too); `NoStuckKeys` (the clone holds no key that is not
physically held); `TimersFollowWaiting` (the window and auto-select timers do not
outlive the waiting key); `OverlayMirrorsSelection`; `PanelClosesWithGesture`.
`OneOwner` (each release the engine waits for has one owner, and a committed key is
never the one that repeats under an open gesture) is proved, see "Proofs".

Action properties: `RolloverCommitsFirst` (a forwarded character never overtakes
a withheld one); `CommitsHighlighted` (the text committed is the one the panel
highlighted, as the panel was given it); `LoopSeesAll` (each answer to the daemon's loop is one that `KeyAnswers`
allows: a press takes over no release but its own, a release is consumed exactly if it
was taken over, and a repeat, the window's end and everything else take over none). `ReleaseSettles` (the release of the withheld key closes its gesture)
is proved only.

Refinement: `AnswersEveryPress`. `WithheldPress` says, with no clock, leader or
overlay, that at most one press is withheld and that each is answered by exactly
one of its texts before anything typed later; only a focus change discards it.
A press answered once is not answered again: a step that answers takes the key out of
`pending`, a text that is typed past the gesture (`Direct`) is that of a key which goes down
in this very step and is not the withheld one, and an answered key is withheld anew only by
its auto-repeat while it is held (`WithholdAgain`). A timer that commits what the release
commits too, or a step with two texts for one key, is no step of it.
`pending` is the open gesture's key, `out` and `focus` are the step's outputs, `down` and
`rep` are the keyboard's. A profile switch, a late timer, an auto-select and a rollover all
have to map to one of its steps.

Liveness: `WaitingEnds` (a key whose window runs is answered or stops waiting,
unless a reload removed its mapping), `ProfileFlashEnds`, `UsageIsFlushed`.

## Properties of the daemon

Invariants: `DaemonTypeOK`; `NoKeyLeftBehind` (until the daemon is told to stop the clone
holds no key down that is not held according to the events read, across pauses and
swallowed presses);
`PausedIsQuiet` (a pause leaves no gesture half open, and no callback already in a
batch commits after it); `StartupVerdict` (the startup grabs are counted until each
is decided, and the daemon does not run on if none succeeded).

Liveness: `KeyboardsGetGrabbed`, `DeadSinkRestarts`, `ReloadConverges`.
`ReloadKeepsPause` and `HandledOnce` state what comments and documentation say and the
code does not do. The action property `DeadSinkForwards` (after the compositor is
lost, the rest of the drained events reaches the applications) is proved.

## Properties of the desktop

- `SinkKeepsText`: the slots in use are exactly those below the counter, one per
  character, so a failed upload burns none and gives none twice; and when a commit
  has returned the application has exactly the characters whose keys were pressed.
- `CaretIsCurrent`: with nothing under way and a text widget in focus, the cache is its
  latest caret; a remembered query always has one in flight that will send it; out
  of caret placement nothing of the last stay is left. `NoCaretWithoutText` states what
  comments say of a widget without text, and the code does not keep it.
- `WindowIsCurrent`: a window on the screen was placed for the overlay shown now and not
  by a late answer; a placement at the grid or caret is revealed only at its final
  margin; once the frames are drawn the margin is that of its output.
- `OverlayAppears` (liveness): a shown overlay gets its window, content and transitions,
  or is hidden.
- `NothingIsLeaked`: the directory holds the script file of the query in flight and no
  other (`FilesAreSwept`), and an idle source leaves no script in KWin
  (`ScriptsAreStopped`). `AnsweredOnce`: the refinement.
- `PlacementIsSound`: a surface that fits is shown whole, and the caret's line is free
  wherever there is room below or above it.
- `LabelAgrees`: once GetPaused is answered and every signal has arrived, the pause
  entry is the state of the engine on the bus. `ReplacesAsked`: the chain starts an
  engine only when the one it asked to go is gone. `RestartBringsEngine` (liveness): a
  restart leaves an engine running with the keyboards, unless it crashes or is told
  to quit.

## Properties of the editor

- `ListsAreSound`: no list gives two profiles one name or one file, active names are on
  the list, and in the editor no shortcut comes to stand for two things. The editor may
  open with one that does, after a switch of the engine took back a change of the list
  (`lost_profile`): the history variable `openedClear` says whether it did.
- `QuietSidesAgree`: with no change on its way, the engine runs what the file says and
  the editor's active marker is the file's.
- `PageIsTrue`: what the page shows, plain or composed, is what the engine builds from
  the files, while the list is saved and has no input twice, and the three copies of the
  manifest agree, whatever save failed.
- `DragsKeepVariants`: a drag of a chip leaves every variant as often in the files, as
  the engine reads them, as before, as long as no file has an input on two rows (see
  "Known limits").
- `LeaderRemains`: an effective leader is left in the page and in the file.
  `PauseShown`: with nothing on its way the open page shows whether an engine runs
  and is paused.
- `TextSurvives`: every text the editor takes comes back from its file as written.

`LayoutSurvives` and `OnlyEditorEditsTheList` state what documentation and comments say
and the code does not do.

## Runs

| Run | Checks | Instance |
|---|---|---|
| `typing` | `TypeOK`, `OneGesture`, `SwallowedAreHeld`, `NoStuckKeys`, `TimersFollowWaiting`, `OverlayMirrorsSelection`, `PanelClosesWithGesture`, `RolloverCommitsFirst`, `AnswersEveryPress`, `LoopSeesAll`, `CommitsHighlighted` | one keyboard; a key with two variants, one with one, an unmapped one, Space, Ctrl, Alt, AltGr; six settings, among them every kind of leader, and the overlay as a timing bar without time limit, as a trigger overlay after the minimum hold, and as one that shows at once; Ctrl+X switches profiles |
| `clock` | `WaitingEnds`, `ProfileFlashEnds`, `UsageIsFlushed`, under `FairSpec` | sorting by frequency; a keyboard that disappears and drops events; reloads in the middle of a gesture that switch sorting off, filter everything, switch profile, or drop a mapping and select automatically |
| `daemon_keys` | `DaemonTypeOK`, `NoKeyLeftBehind`, `PausedIsQuiet` | one keyboard; two or three key events of the Shifts, the pause key and a letter, with the compositor going, a D-Bus call or an edit |
| `daemon_loop` | `StartupVerdict`, `KeyboardsGetGrabbed`, `DeadSinkRestarts`, `ReloadConverges`, under `FairSpec` | two paths, any of them there at the start, each free, held by a rival or not clonable, one plugged and one unplugged; or one keyboard with edits, calls, keys, a signal, lost events, a lost compositor |
| `desktop` | `DesktopTypeOK` and the ten properties of the desktop, under `DesktopSpec` | each of the six parts against its surroundings, see "Bounds" |
| `editor` | `EditorTypeOK` and the seven properties of the editor | each of the four parts, see "Bounds" |
| `unplug` | `NoStuckKeys`, violated | a keyboard that disappears |
| `stale_caret` | `NoCaretWithoutText`, violated | a text widget and one without text, no faults |
| `strand` | `ReloadKeepsPause`, violated | a call and an edit |
| `settle` | `HandledOnce`, violated | one key |
| `lost_layout` | `LayoutSurvives`, violated | the settings page alone |
| `lost_profile` | `OnlyEditorEditsTheList`, violated | the profile list alone |

Bounds of the engine. `MaxDown = 3` keys at once: the withheld key, a leader (or a modifier)
and the key that interferes; a fourth key would have to interfere with the
interference, and the record has three places for a key. `MaxElapsed = 3` with
windows of 1 and 2 ticks and a minimum hold of 0, 1 or the whole window (which then counts
as none): below the minimum, inside the window, exactly at its end (timer due, not
expired) and beyond (expired before the timer fired) all occur. Two variants make a cycle wrap both ways, one variant takes
the path without a cycle, and a second profile with fewer variants makes an index
out of range after a switch or a reload. `clock` uses two keys at once, one of them
mapped, and windows of one tick (`MaxElapsed = 1`: the timer is due at the window's end):
its questions are about timers, not rollover, and its instance has the faults.
`OneGesture` and `TimersFollowWaiting` are checked for keyboards that lose nothing; see
"Known limits" for what dropped events do to them.

Bounds of the daemon. `Scenes` says what is there at the start and how often each
thing may happen outside. Every interference the properties are about needs one
cause at a time (one unplugging, one replugging, one call against one edit or two),
and the scenes combine them in pairs; everything else is unbounded, in particular
the order in which descriptors are served and timers become due. `MaxBuffer` is
the number of unread events: 3 let a Shift, the pause key and a letter wait in one
drain. `Races` names what may fall into a gap of the code: "keys" pressed while no
descriptor is open, an "edit" between loading and watching the files, a "replug"
before the old keyboard is dropped. `daemon_loop` leaves all three out: with an edit
in its gap `ReloadConverges` does not hold (see "hazards", `main.cpp:609`), with a
replug in its gap `KeyboardsGetGrabbed` does not (see "Known limits"). `daemon_keys` has
no lost events: a release lost to an overrun stays owned by the engine, with the
effect that the run `unplug` shows.

Bounds of the desktop.
- Sink: 3 slots and 5 characters, one of which types nothing, in texts of one and two
  characters, at most 5 typed: the slots run out in the middle of a text, and a
  character typed before comes again after that.
- Focus source: two applications, one without a text interface; 3 caret moves, 2
  events under way, 4 changes of focus or placement: a query can be overtaken by a
  focus change there and back with a caret move in between. A registration may fail
  (`FocusFaults`); lost calls and answers leave a stale cache, see "Known limits".
- Overlay: one list of variants (and the profile name) at three placements whose grid
  fallbacks differ, two outputs, 3 shows or hides, 2 messages under way, one move to
  the other output: show, hide and show again with an answer and frames of the first
  still outstanding.
- Pointer: 4 queries over ids that wrap at 4, two lives of the process.
- Geometry: a screen at the origin and one right of it of odd size, three surfaces of
  which one is larger than the second screen, 36 points at and beyond the edges, all
  21 grid positions. `DisplayProofs` has no bounds.
- Tray: four engines one after another (the old one, one of the unit, one of either chain),
  2 clicks, a hang and a crash; a hang may outlast the quit grace and not the one after
  SIGTERM (`HangOutlasts`). `RestartBringsEngine` excepts all engines being used up.

Bounds of the editor.
- Profiles: 4 names with 2 slugs, so that file names collide, one combination, 2 edits, one
  switch of the engine, 2 openings: an edit, a switch and the notice of either can
  cross in any order. A fresh setup, a running one and a hand-edited file.
- Mappings: 2 inputs, 2 values, Standard and one more profile, 2 changes with saves that
  may fail, 2 variants a row: a combination, then a drag in it. A file may have an input
  on two rows at the start.
- Settings: one built-in leader and the two custom keys, one usable code and one not, 2
  changes; one life and one change of pause of the engine.
- Codec: 13 characters, every one that a format treats specially, and all texts up to
  length 3: an escape, what it escapes and what follows. A format looks at most two
  characters ahead.

Fairness. The engine's `FairSpec` assumes weak fairness of the clock and of each timer's
callback, and nothing of the person typing: no release needs to come. The event
loop justifies it: `epoll_wait` returns when the timerfd expires, and every
callback that is due is run before the loop waits again, so a callback that stays
due is run. A callback is disabled only by being cancelled.
The daemon's assumes that the thread takes its next step (weak fairness of `Loop`
as a whole, for the loop never blocks while something is ready and serves what is
ready before it waits again), that each armed timer becomes due, and that udev sets the
access of a new node. It assumes nothing of the user, the editor or the bus.
`DesktopSpec` assumes weak fairness process by process and of nothing inside one:
each engine (a hang ends; `HangOutlasts` says what it may outlast), the service
manager, the tray's event loop, the overlay's event loop (a pointer query is
answered or times out after a second), the compositor (frames asked for are drawn,
a mapped window learns its output), and the one timer of the KWin source. Of KWin,
the user and the bus it assumes nothing. The editor's run has no liveness property.

## What the violated runs show

- `unplug`: the loop drops a keyboard (`main.cpp:784-791`) and the engine keeps
  waiting for the release of its committed key. After the replug the first press
  of that key that is forwarded (with Ctrl, say) has its release swallowed.
- `stale_caret`: the answer to a caret query fills the cache whoever has the focus by
  then (`atspi_focus_source.cpp:294-305` does not look at `focusBus_`). When the focus goes
  to a widget without text while that answer is under way, `onFocusChanged` clears the cache
  (`391`), the answer fills it again, and the new widget's own call fails and returns
  (`346-350`): the panel is placed at the previous application's caret until the next
  focus or caret event, where the comments (`347-349`, `385-387`) promise the pointer or grid.
- `strand`: a reload resumes whenever no valid shortcut is configured
  (`main.cpp:405`), not only when the reload removed it. The default is no
  shortcut, so a pause from the tray ends with any saved change, the engine's own
  write of `profiles.conf` included.
- `settle`: the events of the 700 ms between opening and grabbing a device
  (`main.cpp:537`) go to the compositor and stay queued for the daemon, which
  handles and forwards them again at its first dispatch.
- `lost_layout`: the settings page rewrites `settings.conf` from its members
  (`SettingsModel.cpp:829`), and `[Input] Layout`, which the engine reads, is not one of
  them: any change in the page puts a layout set by hand back to the default.
- `lost_profile`: the engine's profile switch saves the whole list it read at its
  last reload (`mappings_loader.cpp:140`). What the editor saved within the debounce,
  a new profile for instance, is gone from the file.

## Known limits without a run

Engine and daemon:

- two keyboards: the repeats of a key held past its window start a new gesture
  (`handleRepeat`, `engine.cpp:720-728`) without asking whether another keyboard's
  gesture is open. The code assumes one physical keyboard (`gesture_state.h:8`);
  `OneGesture` is checked and proved for one;
- dropped events: after a buffer overrun a committed key whose release and new press
  were lost repeats under the open gesture of another mapped key, as with two
  keyboards; `OneGesture` and `TimersFollowWaiting` do not hold then;
- unmapped: automatic selection cancels the window timer before it finds that there is
  nothing to select (`engine.cpp:336`); after a reload that dropped the mapping the key
  is withheld until it is let go. `WaitingEnds` excepts it;
- replug: `grabKeyboard` refuses a path that is still in the list (`main.cpp:511-515`). A
  keyboard that disappears while it settles and is back before its settle timer is
  not looked at again;
- `committedCode` holds one key only, so that of two keys held past their windows the
  first one's release reaches the application without a press (applications ignore
  it); `consumedAltCode` holds one Alt and is forgotten when a plain key is typed over
  it (`engine.cpp:588`), with the same effect;
- with the overlay on and both its previews off, the default, nothing cancels the timer
  of a commit's flash: `startProgressOverlay` and `scheduleTriggerOverlay` return before
  they do (`engine.cpp:374`, `401`), although "a pending commit-flash hide must not fire
  mid-gesture" (`380-383`). A cycle opened while the flash is up loses its panel in the
  middle. `OverlayMirrorsSelection` is checked and proved for overlays with a preview;
- a reload that turns the preview off under a waiting key leaves its panel open, since
  `hideTriggerOverlay` asks the new settings (`engine.cpp:437-442`); likewise one that
  turns the overlay off. `PanelClosesWithGesture` is checked and proved for overlay
  switches no reload changes;
- a reload in the middle of a cycle takes effect at once (`engine.cpp:53-55`), but the panel
  keeps the texts it was given (`361`), and a callback that is still to show it the ones it
  captured (`414-421`). If the variants of that key change, also if only their order does,
  the panel shows one text and the release commits another. `OverlayMirrorsSelection` and
  `CommitsHighlighted` are checked without reloads and proved for reloads that do not
  change the variants of an open cycle (`CyclesUndisturbed`);
- with leader auto-repeat, an Alt whose press was forwarded can become a leader by its
  repeats, see "Proofs".

Desktop and editor:

- an answer with an error or an unusable rectangle keeps the cache, which then is an
  older caret of the same widget (`atspi_focus_source.cpp:381-387` says so);
  `CaretIsCurrent` speaks of widgets that answer, with calls that arrive;
- an answer that arrives after its application lost the focus to a widget without text is
  taken for that widget's, see `stale_caret`;
- `parseMappings` keeps every row of a file (`mappings_io.h:246-291`), so that one edited by
  hand may map an input twice. A composed drag into another profile's file appends the
  variant to the first row of the target (`MappingListModel.cpp:887-897`), the loaders take the
  last (`mappings_loader.cpp:53-75`): the variant is gone from its old row and neither engine
  nor page sees it in the new one. `DragsKeepVariants` is about files that map an input once
  (`OneRowEach`). Dragging one of the two rows past the other also decides which has the say,
  before the drag is saved, so that the page is ahead of the file; `PageIsTrue` is about
  lists with no input twice;
- in cursor mode the window of the gesture before may have posted a frame that opens
  the gate of the next one early (`overlay/main.cpp:383-387`, `570-575`); `WindowIsCurrent`
  asks for the final margin of the other placements only;
- an overlay at an unchanged place with other variants keeps the margin of the old
  width until it is shown anew;
- a frozen daemon does not act on SIGTERM, so a restart then starts an engine that
  finds the keyboards grabbed and exits; `RestartBringsEngine` is checked with hangs that
  end before SIGTERM's grace does;
- any answer to the tray enables its quit entry, also during a probe, so that two quit
  chains can run; the pause entry does not follow an engine that comes or goes until the
  menu is opened, which `LabelAgrees` says by `asked`;
- for an empty Standard profile the engine merges the German defaults where the
  editor's composed view merges nothing (`loadProfileMap`, `MappingListModel.cpp:639-658`);
  `PageIsTrue` speaks of Standard files that hold a mapping.

## Proofs

`EngineProofs` proves `TypeCorrect`, `Spec => []TypeOK`, for all keys, mappings,
profiles, configurations and reloads and any number of keyboards, with unplugging
and dropped events. `TypeOK` is inductive as it stands. What makes it more than
bookkeeping are the places where an index or a text could leave its type: the
cycle index stays a natural number when it is stepped backwards, a variant is
read only below the length of its list also after a reload made the list
shorter, and re-sorting keeps the map a map. One lemma per helper says that it
takes a well-typed record to a well-typed record; the handlers' lemmas compose
them.

The assumptions are the two named ones about the constants, `KeysAssumption` (key
codes are positive, 0 is no key) and `EngineAssumption`; TLC evaluates both in
every run. The one that carries weight is that a modifier has no text and no
shortcut of its own, which is what `isModifierSym` and xkb guarantee.

It proves `OneGesture`, `OneOwner`, `SwallowedAreHeld` and `NoStuckKeys`
for one keyboard that loses no event (`OneSteadyKeyboard`): with a second keyboard
they do not hold (see "Known limits"), with unplugging the run `unplug` refutes the
last. The last two are not inductive. That a release is swallowed only if its press was needs
to know who owns the release, so the invariant `Safe` adds `OneOwner`:

- a gesture is open exactly when its key code is set and that key is pressed; the
  committed key is another key, and neither is a modifier, while the consumed Alt
  is one, so the three places never hold the same key;
- the key the kernel repeats is held, and is not the committed key while a gesture
  is open. Without this the repeats of a committed key would start a second
  gesture: it is exactly what fails with two keyboards.

One lemma per helper says what it does to the owners (`Same`, `Ended` or adds the
pressed key), one per action that `Safe` is kept.

The proof found which settings the argument needs (`SteadySettings`): no whitelist
(a reload that switches filtering on in the middle of a gesture forwards the
release of a withheld key), no leader other than Alt that is a modifier (the
editor refuses one, `CustomLeaderRow.qml:57`), and leader auto-repeat not together
with Alt leaders. The last one is real: an Alt whose press was forwarded, because
a reload took away the mapping under the cycle, is consumed as leader by its repeat
once the mapping is back (`engine.cpp:706-715`), and then its release is swallowed.
Five of the six settings of `typing` are steady; the sixth (Alt leaders that repeat, no
reloads) is checked by TLC alone.

`DaemonProofs` proves `DaemonTypeCorrect`, `PausedStaysQuiet`, `StartupIsDecided` and
`DeadSinkAlwaysForwards` for any finite set of paths, any scene and with all the
races. `DaemonAssumption` only says that there are finitely many paths and that none
is called like another descriptor. The invariant `DaemonInv` adds two things:

- `LoopConsistent`: only a settling keyboard waits for its timer or stands in the
  batch, and never both; only a grabbed one is being served; batches and dispatches
  exclude each other. Without it a settle timer could be counted twice, or a pause
  could come while a window callback is still in the batch: it is because callbacks
  run to the end of their batch that `PausedIsQuiet` holds;
- `StartupCounted`, the verdict from the scan on. The count goes down by one in
  `SettleTimer` exactly when a keyboard leaves the set of settling startup grabs
  (`FS_RemoveElement`), and no other step changes that set, because a path that is
  in use is refused: the guard behind the known limit "replug".

One lemma per operator on the record (`SetPaused`, `Commit`, `Method`, `EngineKey`,
`Handler`, `FinishStartupGrab`, `GrabKeyboard`) says what it keeps, one per action
that `DaemonInv` is kept; `PassKeeps` and `OutsideKeeps` carry what most actions have
in common. `DeadSinkAlwaysForwards` needs that no step but `ReadEvent` can look like
a read (`OnlyReadEventReads`).

`NoKeyStaysBehind` is `Spec => []NoKeyLeftBehind` for one keyboard that loses nothing and
stays plugged in (`OneSteadyKeyboard`): with two it fails, since the engine does not ask from
which keyboard a release comes, with unplugging or lost events it fails as the run
`unplug` shows. `KeysInv` adds to `DaemonInv`:

- `Leads`: the unread events lead from the keys read as held to those that are held, and
  none presses a key that is held at its turn. The kernel's queue, that is, never shows a
  second press before a release; it holds from the snapshot `grabKeyboard` takes on;
- `InStep`: what the engine will swallow the release of is held, and not on the clone.

It is proved for every engine that keeps to `KeyAnswers`.

The proof found that the property as it was first stated is false and only the run's
bounds hid it: once both Shifts are held every event is forwarded without asking the engine
(`main.cpp:435-439`), but the same drain goes on. A withheld key that is let go, pressed
again, and let go after one Shift is up has its last release swallowed. The daemon exits
right after that drain and the clone goes with it, so `NoKeyLeftBehind` now ends with
the stop.

`EngineGestures` proves four properties of what belongs to a gesture, on the keyboard and
settings of `NoStuckKeysHolds`. Its invariants are predicates on the engine's record, so that
one lemma per helper (`CommitPendingKeyTidy`, `EnterCyclingTidy` and so on) says what a
helper leaves behind, and `Follows` composes them for every handler.

- `TimersFollowWaitingHolds`: `Timed`, the clocks run for a waiting key only, is inductive
  given `Safe`: each helper that ends the waiting cancels both.
- `PanelCloses`: `PanelClosesWithGesture` needs `Closable`. While a key waits the panel is
  dark (hidden, or with a flash timer armed) or a preview is configured, because only then
  does the end of the gesture hide it; a shown panel is known to be (`overlayVisible`); and
  with the overlay off only a profile's name is shown. `OverlayKept` is its hypothesis: no
  reload changes the overlay's switches (see "Known limits" for what one does).
- `OverlayMirrors`: the texts on the panel are the variants of the cycling key, and the
  highlighted one is what letting go would commit. `Mirrors` adds that no flash timer is
  pending while a gesture is open. Its hypotheses beside `OverlayKept` are
  `CyclesUndisturbed` (no reload changes the variants of a key while it cycles: the panel
  keeps the old texts, see "Known limits"), `OverlayPreviews` (the overlay has a preview; without one the
  property fails, see "Known limits") and `OutputsExist` (an input has an output, as
  `mappings_loader.cpp:58` and `profile_compose.h:148` see to).
- `ReleaseSettlesHolds`: every release of the withheld key closes its gesture.

`EngineAnswers` proves what is committed and when. `Reading` says that while a gesture is
open its key is the one whose text is being looked up and its index is in range of the
variants; one lemma per helper says which text it puts out, if any (`Settles`, `Starts`,
`Types`).

- `RolloverHolds` is `RolloverCommitsFirst`.
- `HighlightIsCommitted` is `CommitsHighlighted`, with the hypotheses of `OverlayMirrors`: the
  panel holds texts of its own, so that it rests on no reload having changed those of an
  open cycle.
- `LoopSeesAllHolds` is `LoopSeesAll`, the link to `Daemon` (below).
- `EveryPressIsAnswered` is the refinement: every step of `Spec` is a step of `WithheldPress`
  or a stutter, with the mapping of `EngineProperties`. That a press is not answered twice is
  said by `Speaks`: a step that starts a gesture or types past one does so for the key it
  presses, which was up before and so is not the withheld one, or for a held key that was
  answered and repeats.

`ReloadsKeepVariants` is the hypothesis of all but `LoopSeesAllHolds`: a reload in the middle of a gesture brings no
mapping with fewer variants. It may add some, or change any other setting. With fewer
the press is forgotten: `commitCyclingValue` commits only while the index is in range and
resets the gesture either way (`engine.cpp:137-150`). The runs that check these
properties have no reload in the middle of a gesture at all. The refinement also asks
that the mappings a reload brings are those of the profiles (`ReloadsAreProfiles`), for
it has to name the texts a key may be answered by once and for all.

`LoopSeesAllHolds` is `Spec => LoopSeesAll` for one steady keyboard (`OneSteadyKeyboard`), with any
reloads of steady settings. `Seen` maps the engine's record to the three things the loop
knows of it: the owned releases, the window timer, and whether something was put out.
Every helper does one of three things to this view: it says nothing and leaves the window
alone (`Mute`), it ends the window (`Over`), or it starts one (`Begun`); in each case it owns
no release but those it owned and the pressed key's. One lemma per helper says which, and
one per kind of event turns that into an answer of `KeyAnswers` (`PressReacts`,
`RepeatReacts`, `ReleaseReacts`, `TimeoutReacts`, `FocusReacts`, `QuietReacts`). The invariant
`Safe` is what it rests on: a text is put out only for an open gesture, so that some
release is owned, and a release finds its one owner. With it what `DaemonProofs` says of
every engine `KeyAnswers` allows is said of this one.

`EditorProofs` proves `ListsStaySound`, `ProfilesSpec => []ListsAreSound`. `ProfilesAssumption`
gives slugs to the names and types to the presets, and asks for one suffix at least.
The invariant `ProfilesInv` says of the list in the file, in the editor and in the
engine that it has distinct names and files, and adds that the folder is finite.

- `Clear` is `Unambiguous` said slot by slot (`ClearKeys`): the two cycle shortcuts, the
  pause toggle and each row. No handler touches more than one slot, and each of
  them compares its combination with all others.
- A new profile's file is free (`UniqueFileIsFree`): the first free suffix exists, since
  a set of suffixes that is not empty has a least element (`LeastSuffix`, from
  `LeastElement` of `MappingsProofs`).
- One lemma per way of changing a list (append, change a row, remove a row, register
  loose files, correct the active name) says what it does to names, files and
  shortcuts; one per action puts them together, and `SaveKeeps` carries what every
  handler of the editor ends with.
- A switch of the engine may bring back an older list. It is a sound one, which is
  why the theorem holds in spite of `lost_profile`.

`QuietSidesStayAgreed`, `ProfilesSpec => []QuietSidesAgree`, adds what is under way
(`QuietInv`): a write that is not yet known to a side has a reload armed or a notice
pending for it, and the rewatch that comes before the reread loses none.

`LeaderAlwaysRemains` is `SettingsSpec => []LeaderRemains`, for every set of leaders, codes and
layouts, with saves that fail. `SettingsAssumption` keeps the built-in leaders and the
custom slots apart, and the two values that mean "no usable code" out of the codes.
Each of the four guarded setters either refuses or leaves another effective leader
(`NotTheLast`), and what is saved is what is loaded, so that the file follows the page.
`PauseStaysShown` is `SettingsSpec => []PauseShown`: the last message under way tells the
engine's state of now, or a question is still open whose answer will (`PauseInv`).

`MappingsProofs` proves `PageStaysTrue`, `MappingsSpec => []PageIsTrue`, and `MappingsTypeCorrect`,
for all profiles, inputs, variants and contents of the files. `MappingsAssumption` says that
"no file" is no file, that what a file holds at the start are rows, and that the built-in
defaults map no input twice; a file may. `MapIs` and `OwnIsMap` say what a list with no
duplicates maps, read either way. `MappingsInv` adds to the types:

- `ListKept`: unless the last save failed, or the defaults stand in for an empty Standard
  profile, the list maps what its file does. Not: is the same list, for a row that is
  dragged is not saved before the drag ends. That the order of rows is no part of the map
  (`SameRowsSameMap`, hence `MovedKeepsMap` for a row that is dragged) needs that no input is
  on two rows, which is why `ListKept` speaks of such lists only. Every other edit is saved
  with the list, duplicates or not;
- the view is the one rebuilt from list, files and manifest of now, also after the steps
  that do not refresh it: they are those of a plain list, which has no composed row;
- the manifest is sound (`SoundManifest`): no profile twice, and manual orders that name
  combined profiles only. `Combined` keeps that since it prunes, and a drag inside a
  composed row since what is displayed comes from the combined profiles (`RebuildType`).

The composition is built by recursion over orders, sources and files, and its lemmas
(`OnlyKeeps`, `FlattenType`, `ReorderedType`) are inductions over data. The module starts
with what they rest on: every set of numbers has a least element (`LeastElement`, from the
well-founded order of the library), hence induction for a set (`NatSetInduction`); and a
function defined by recursion exists (`RecursionExists`) and is unique (`RecursionUnique`).
Sets and functions stand where the library's theorems have a predicate as parameter.

`DragsAlwaysKeepVariants` is `MappingsSpec => DragsKeepVariants`, for files of any contents; the
property itself speaks of the steps at which no list or file has an input twice
(`OneRowEach`), since with two the code does lose the chip. A count is compared by a bijection: the
places of a variant after the drag correspond to its places before (`Rearranges`). An edit
of rows is first turned into an edit of the map they make (`ReplacedMap`, `RemovedMap`,
`AppendedMap`, hence `TakenMap` and `GivenMap`, where a row comes or goes); then a new order is
the permutation itself (`ArrangedMap`, injective on a finite set and so surjective), and a
drag sends the new last place of the target to the first one that held the variant, and
every later place of the source one further (`DraggedMap`). `RearrangedStock` carries that
to all files. `ListKept` of the invariant says that the list in memory, which the drag
edits, holds what the file does. `FiniteFolder`: files and characters are finite, for
without it there is nothing to count.

`TextAlwaysSurvives` is `CodecSpec => []TextSurvives`, for all characters and texts of any length
(the run: texts of length 3). The state plays no part in it beyond its type: each
conjunct is a lemma about all texts over `Char`, the typed characters and those the formats
write themselves.

- `ScanEscaped`: a scan that goes on over an escaped text appends that text to what it had
  read, whatever came before (`Added`). This is an induction over the text
  (`SeqSetInduction`), and its step is `StepReads`: a plain character is read as itself, and
  an escaped one, in two steps, as what was escaped. It needs that `Letters` and `Meaning`
  are each other's inverse (`EscapeCharIs`).
- `VariantsBack`: the scan of joined variants, closed, has exactly the variants (`JoinedScans`,
  an induction over the list of variants), and since each came out of a scan, none is empty.
- `FieldBack`: an escaped field has no tab, line end or leading `#`, so the line's two tabs are
  the writer's, and the scan of what stands before each is the field.
- `ValueBack`: a value that needs no quotes has nothing that is trimmed or unescaped; one in
  quotes ends at its own closing quote, since a scan over an escaped text is never malformed.
- `MappingBack`: an input `#` or `\` is escaped, and any other cannot begin a comment.

`DesktopProofs` is about the parts of the desktop that keep records of what they asked
others for.

- `TextStaysKept`, `SinkSpec => []SinkKeepsText`, for every alphabet, text and range of key
  codes, with uploads that fail and a compositor that vanishes. Half of it is the
  table (`SlotsStayDense`): a new character gets the slot the counter stands at, above all
  others; a failed upload and a full keymap leave both alone. The other half is
  the wire (`SinkInv`): there is a count of characters typed by the time each request
  is served, under which every key on the wire types the next character that was sent
  (`WireBringsRest`); the keymap held when it is served knows its character
  (`KnownAt`), and every keymap on the wire is a part of the table, so that none gives a
  slot to another character. Three lemmas carry the count over a key sent, a keymap
  sent and a request served.
- `CaretStaysCurrent`, `FocusSpec => []CaretIsCurrent`, which is about text widgets: of one
  without text there is nothing to prove (`stale_caret`). `NothingStaysBehind` is its first half: a
  remembered query has one in flight, since every branch that takes a query out of
  flight starts the remembered one in the same step. For the second, `FocusInv` says
  that the events under way bring the focus and each application's caret up to date
  (the last of a kind is the newest), and that once the last caret event of the focused
  text widget is taken, its place is the newest one asked for or shown (`Latest`), or
  the first query after the focus change is still out. Hypothesis: of the faults, only
  a failing registration (`FocusFaults \subseteq {"register"}`, which allows more than
  the run does): a lost call or answer leaves an older caret, see "Known limits".
- `NothingStaysLeaked`, `KWinSpec => []NothingIsLeaked`, without hypotheses, for ids that wrap
  and a source that dies. `FilesStaySwept` is the half about files, from `KWinInv`: ids and
  queries correspond, so that an answer for an old id never meets a new query. For the
  scripts, `NoStrayScript`: every script of this process is in exactly one place, a
  reply under way, the source's hands or a request to stop it. One lemma per way a
  path moves from one to another (`Traced`).
- `AnswersAreFinal`: every step is one of `CursorSource` or a stutter.

`DisplayProofs` is about what the user sees.

- `PlacementSoundness`, `GeometrySpec => []PlacementIsSound`, for every output, panel, point and
  line height: `GeometryAssumption` only asks that lengths are natural numbers,
  coordinates integers, and a panel's frame no larger than the panel. The argument is
  bounds of the two divisions (halves in the code's centring, eighths of the seven
  columns, `ColumnBounds`) and then linear arithmetic over each clamp: one lemma per
  placement and one for the caret's line, with a case for each side of the grid that
  `anchorsFor` tells apart.
- `WindowStaysCurrent`, `OverlaySpec => []WindowIsCurrent`, and `OverlayTypeCorrect`. `OverlayInv`
  has three parts beside the types: window, renderer and pending pointer query are of one
  epoch (`SamePlacement`), so a late answer finds another; a posted call is never newer
  than the connection, and when its call is posted the window has drawn (`Connected`); a
  provisional margin has a frame due or a call posted that mends it (`MarginIsTended`).
- `LabelStaysTrue`, `TraySpec => []LabelAgrees`. `TrayInv`: one engine at most has the name
  (`OneName`), and once GetPaused was asked, the question is still open or the last word
  in the tray's inbox is true of the bus (`WordIsTrue`). Bus order makes this inductive:
  an answer and a signal of one engine cannot overtake each other.
- `RestartReplacesAsked`, `TraySpec => ReplacesAsked`. The engine the chain waits for has the
  name as long as it lives (`ChainKnows`), so the name's loss is its end. Hypothesis:
  no hang outlasts SIGTERM's grace; with one, `TermGraceOver` starts an engine beside a
  frozen one, see "Known limits".

The two instances. `MCDesktop` and `MCEditor` spell the steps of their parts out one by one,
so that each is seen to be taken. `DesktopIsItsParts` (in `DisplayProofs`) and
`EditorIsItsParts` (in `EditorProofs`) prove that nothing was added in this: every
behaviour of an instance is one of every part's specification, so that each theorem above
about a part holds of what the runs explore. With them and the types of each part
(`SinkTypeCorrect`, `FocusTypeCorrect`, `KWinTypeCorrect`, `OverlayTypeCorrect`,
`ProfilesTypeCorrect`, `SettingsTypeCorrect`, `MappingsTypeCorrect`) follow
`DesktopTypeCorrect` and `EditorTypeCorrect`. The types that needed an argument: a request
on the wire carries the keymap of its time, a rest of a text is a text; the caret offset of
a late answer is an integer that may lie behind the caret; a path KWin gives comes back in a
reply, hence the types of the replies under way; and the page's pause is a Boolean since
every message under way says one.

Only model-checked: all liveness properties, that of `CursorSource` included.
What is proved and has no run of its own: `OneOwner`, `ReleaseSettles` and `DeadSinkForwards`;
all are parts of the arguments above.

The proofs changed the model in nine places: `NoKeyLeftBehind` as said above; the daemon's
engine gives more answers than it first did, for `Engine` gives them (a leader or a profile
shortcut consumed while no release is owned, releases handed back by a rollover or by the
window's end); `Sink` keeps
the characters it sent without those that type nothing; the focus source's assumption
keeps `None` out of the applications; KWin gives a loaded script a path that is not in
use, and the lowest such path is taken from the set of free ones (`FreePaths`) where it was
chosen from an interval that might have held none; `Mappings` writes its selections and overrides as recursive functions (`Only`,
`Reordered`) instead of `SelectSeq` and a fold; `Codec` has one table of escapes and
recursive scans, with three characters named (`Comma`, `Quote`, `Space`) that the provers
cannot read as literals; and the stock of variants counts those that the files map, without
the bound on rows that it had.

## Plan

Done: engine, daemon, the link between them (`KeyAnswers`), desktop, editor and the proofs
above. Next, in this order:

1. The rest of that link: several keyboards, the app filter, and the end of the window
   by an automatic selection as a step of `Daemon`.
2. `OverlayLink`: starting the overlay process and the version handshake
   (`overlay_dbus_client.cpp:210-294`), against an overlay that comes and goes.
3. The usage counts between editor and engine: the reset marker, the flush that may
   come after it, and a crash in between.

## Not modelled, and why

Drawing, QML, themes, probing a device's capabilities, D-Bus marshalling, the
installer and packaging: no state machine of their own, or pure I/O. Layout
compilation and dead keys are libxkbcommon's.

Left out of components that are modelled:

- overlay: the values of the timing bar, `FreezeProgress`, and what the panel contains;
- cursor sources that run a command line tool, and choosing a source;
- overlay client: starting and quitting the overlay process and the handshake;
- profile list: saves of `profiles.conf` that fail (`removeProfile` deletes the mapping file
  before the save that may fail), and the gap between loading and watching at the
  start (`ProfileListModel.cpp:61-70`);
- mapping list: the order of the composed rows, marks on duplicates, the sort by usage
  and the page's watch on it;
- merge manifest: `pruneToExisting` at startup and the file's form;
- files: the usage reset marker, sections and numbers of `settings.conf`, encodings, NUL
  bytes and overlong lines.
