------------------------------ MODULE Profiles ------------------------------
(***************************************************************************)
(* profiles.conf and its two writers.  The editor (ProfileListModel) keeps *)
(* the list in memory and rewrites the whole file on every change; the     *)
(* engine rewrites the whole file too, from its own memory, when a         *)
(* shortcut switches the profile.  Each watches the file: the engine       *)
(* reloads it after a debounce, the editor takes over the active name.     *)
(* A rewrite is an atomic rename, so a reader sees one writer's version.   *)
(***************************************************************************)
EXTENDS Integers, Sequences, FiniteSets, SequencesExt

CONSTANTS Names,        \* display names, equal only after normalizedName
          Slugs, SlugOf,  \* file name stems, and slugify(name)
          Combos,       \* shortcuts, equal only after canonicalCombo
          Presets,      \* [name, slug] of the shipped preset files
          MaxEdits, MaxSwitches, MaxOpens,  \* bounds of a behaviour
          MaxProfiles, MaxSuffix            \* bounds of the data

None == "none"
Standard == "Standard"
MappingsFile == <<"mappings", 0>>

ASSUME ProfilesAssumption ==
    /\ SlugOf \in [Names -> Slugs] /\ {Standard, "Work"} \subseteq Names
    /\ Presets \subseteq [name: Names, slug: Slugs]
    /\ MaxSuffix \in Nat \ {0}

(* An entry of the list, and what profiles.conf holds. *)
Files == {MappingsFile} \cup (Slugs \X (1..MaxSuffix))
Entry == [name: Names, file: Files, key: Combos \cup {None}, favorite: BOOLEAN]
Profile(n, f) == [name |-> n, file |-> f, key |-> None, favorite |-> FALSE]
Unwritten == [entries |-> <<>>, active |-> None, next |-> None, prev |-> None]
Seeded == [Unwritten EXCEPT !.entries = <<Profile(Standard, MappingsFile)>>,
                            !.active = Standard]

VARIABLES
    disk,       \* what profiles.conf holds, Unwritten before the first save
    folder,     \* the files in profiles/
    editor,     \* ProfileListModel: entries_, active_, cycleNext_, cyclePrev_
    reserved,   \* reservedCombo_, the pause toggle of the settings
    busy,       \* the editor is "closed", "idle", or inside a handler: it has
                \* reread the active name ("edit"), re-added the watch ("notice")
    watched, notice,  \* confWatcher_ watches the file; it has a notification
    engine,     \* profiles_ of the engine
    reload,     \* a change is unseen ("event") or the debounce runs ("timer")
    openedClear,  \* history: no shortcut stood for two things when it opened
    edits, switches, opens

profileVars == <<disk, folder, editor, reserved, busy, watched, notice, engine,
                 reload, openedClear, edits, switches, opens>>
counters == <<openedClear, edits, switches, opens>>

NamesOf(p) == {p.entries[i].name : i \in 1..Len(p.entries)}
FilesOf(p) == {p.entries[i].file : i \in 1..Len(p.entries)}
Rows == 1..Len(editor.entries)

(* The shortcuts of a list; none of a sequence of them stands for two things. *)
Keys(p) == <<p.next, p.prev>> \o [i \in 1..Len(p.entries) |-> p.entries[i].key]
Unambiguous(s) == \A i, j \in 1..Len(s) : i # j /\ s[i] # None => s[i] # s[j]

(* applyProfileFallbacks, on what loadProfiles parsed. *)
Loaded == IF disk.entries = <<>> THEN Seeded
          ELSE IF disk.active \in NamesOf(disk) THEN disk
          ELSE [disk EXCEPT !.active = disk.entries[1].name]

(* A rename over profiles.conf: both watchers are told of it, the editor's *)
(* once, for the watch goes with the old file.                             *)
Write(p) ==
    /\ disk' = p
    /\ reload' = "event"
    /\ notice' = (notice \/ watched)
    /\ watched' = FALSE

-----------------------------------------------------------------------------
(* The editor.  reloadActiveFromDisk: a known active name is taken over. *)
Adopted ==
    IF disk.active \in NamesOf(editor)
    THEN [editor EXCEPT !.active = disk.active] ELSE editor

(* nameExists, and uniqueFileForBase: the first suffix that is free. *)
NameTaken(n, row) == \E i \in Rows \ {row} : editor.entries[i].name = n

(* Mutant: the new name is checked against the folder only: a profile without  *)
(* mappings has no file yet.                                                *)
UniqueFileMutant(slug) ==
    LET free == {k \in 1..MaxSuffix : <<slug, k>> \notin folder}
    IN  <<slug, CHOOSE k \in free : \A j \in free : k <= j>>

UniqueFile(slug) ==
    LET free == {k \in 1..MaxSuffix : <<slug, k>> \notin FilesOf(editor) \cup folder}
    IN  <<slug, CHOOSE k \in free : \A j \in free : k <= j>>
Suffixed(slug) == \E k \in 1..MaxSuffix :
    <<slug, k>> \notin FilesOf(editor) \cup folder

(* Every editing handler starts by rereading the active name. *)
Reread ==
    /\ busy = "idle" /\ edits < MaxEdits
    /\ busy' = "edit"
    /\ editor' = Adopted
    /\ UNCHANGED <<disk, folder, reserved, watched, notice, engine, reload, counters>>

(* It ends by saving what it made of the list, *)
Save(p) ==
    /\ busy = "edit" /\ busy' = "idle"
    /\ edits' = edits + 1
    /\ editor' = p
    /\ Write(p)
    /\ UNCHANGED <<reserved, engine, openedClear, switches, opens>>

(* or returns early: an invalid row, a taken name or shortcut, no change. *)
Refuse ==
    /\ busy = "edit" /\ busy' = "idle"
    /\ edits' = edits + 1
    /\ UNCHANGED <<disk, folder, editor, reserved, watched, notice, engine,
                   reload, openedClear, switches, opens>>

Append1(p, e) == [p EXCEPT !.entries = Append(@, e)]

CreateProfile(n) ==
    /\ ~NameTaken(n, 0) /\ Len(editor.entries) < MaxProfiles /\ Suffixed(SlugOf[n])
    /\ Save(Append1(editor, Profile(n, UniqueFile(SlugOf[n]))))
    /\ UNCHANGED folder

(* uniqueName: the name itself, or one with a suffix nobody has: any free name. *)
UniqueNames(n) == IF NameTaken(n, 0) THEN Names \ NamesOf(editor) ELSE {n}

(* The preset is copied first, under a file name nobody has. *)
AddProfileFromPreset(p) ==
    /\ Len(editor.entries) < MaxProfiles /\ Suffixed(p.slug)
    /\ \E n \in UniqueNames(p.name) : Save(Append1(editor, Profile(n, UniqueFile(p.slug))))
    /\ folder' = folder \cup {UniqueFile(p.slug)}

RenameProfile(row, n) ==
    LET old == editor.entries[row].name
    IN  /\ ~NameTaken(n, row)
        /\ Save([editor EXCEPT !.entries[row].name = n,
                               !.active = IF @ = old THEN n ELSE @])
        /\ UNCHANGED folder

IsProtected(row) ==
    editor.entries[row].file = MappingsFile \/ Len(editor.entries) <= 1

RemoveProfile(row) ==
    LET gone == editor.entries[row]
        rest == RemoveAt(editor.entries, row)
    IN  /\ ~IsProtected(row)
        /\ folder' = folder \ {gone.file}
        /\ Save([editor EXCEPT !.entries = rest,
                   !.active = IF @ = gone.name THEN rest[1].name ELSE @])

SetActiveRow(row) ==
    /\ editor.entries[row].name # editor.active
    /\ Save([editor EXCEPT !.active = editor.entries[row].name])
    /\ UNCHANGED folder

(* isComboFree, leaving out one row's key or one of the two cycle slots. *)
IsComboFree(c, row, slot, withReserved) ==
    c # None =>
        /\ \A i \in Rows \ {row} : editor.entries[i].key # c
        /\ slot # "next" => editor.next # c
        /\ slot # "prev" => editor.prev # c
        /\ withReserved => reserved # c

SetSelectKey(row, c) ==
    /\ IsComboFree(c, row, None, TRUE)
    /\ Save([editor EXCEPT !.entries[row].key = c])
    /\ UNCHANGED folder

SetFavorite(row, b) ==
    /\ editor.entries[row].favorite # b
    /\ Save([editor EXCEPT !.entries[row].favorite = b])
    /\ UNCHANGED folder

SetCycleNext(c) ==
    /\ c # editor.next /\ IsComboFree(c, 0, "next", TRUE)
    /\ Save([editor EXCEPT !.next = c])
    /\ UNCHANGED folder

SetCyclePrev(c) ==
    /\ c # editor.prev /\ IsComboFree(c, 0, "prev", TRUE)
    /\ Save([editor EXCEPT !.prev = c])
    /\ UNCHANGED folder

(* The settings page asks checkComboAvailable before it takes the pause      *)
(* toggle, which the reserved combo is bound to.                             *)
SetReservedCombo(c) ==
    /\ busy = "idle" /\ edits < MaxEdits
    /\ c # reserved /\ IsComboFree(c, 0, None, FALSE)
    /\ reserved' = c
    /\ edits' = edits + 1
    /\ UNCHANGED <<disk, folder, editor, busy, watched, notice, engine, reload,
                   openedClear, switches, opens>>

(* The mapping list saves a profile's first mappings. *)
SaveMappings(f) ==
    /\ busy = "idle" /\ f \in FilesOf(editor) \ ({MappingsFile} \cup folder)
    /\ folder' = folder \cup {f}
    /\ reload' = "event"
    /\ UNCHANGED <<disk, editor, reserved, busy, watched, notice, engine, counters>>

(* load: parse, seed Standard, register the loose files of profiles/ under  *)
(* names nobody has, correct an unknown active name; save if any was new.   *)
Registered(p, loose, naming) ==
    [p EXCEPT !.entries = @ \o [i \in 1..Len(loose) |->
                                 Profile(naming[loose[i]], loose[i])]]

OpenEditor ==
    /\ busy = "closed" /\ opens < MaxOpens
    /\ opens' = opens + 1
    /\ busy' = "idle"
    /\ LET base == IF disk.entries = <<>> THEN Seeded ELSE disk
           loose == folder \ FilesOf(base)
       IN  \E order \in SetToSeqs(loose), naming \in [loose -> Names \ NamesOf(base)] :
            LET all == Registered(base, order, naming)
                new == IF all.active \in NamesOf(all) THEN all
                       ELSE [all EXCEPT !.active = all.entries[1].name]
            IN  /\ IsInjective(naming)
                /\ editor' = new
                /\ IF disk.entries = <<>> \/ loose # {}
                   THEN disk' = new /\ reload' = "event"
                   ELSE UNCHANGED <<disk, reload>>
    /\ watched' = TRUE /\ notice' = FALSE
    /\ openedClear' = Unambiguous(Append(Keys(editor'), reserved))
    /\ UNCHANGED <<folder, reserved, engine, edits, switches>>

CloseEditor ==
    /\ busy = "idle" /\ opens < MaxOpens
    /\ busy' = "closed"
    /\ watched' = FALSE /\ notice' = FALSE
    /\ UNCHANGED <<disk, folder, editor, reserved, engine, reload, counters>>

(* Mutant: the handler does not re-add the watch. *)
NoticeChangeMutant ==
    /\ busy = "idle" /\ notice
    /\ notice' = FALSE
    /\ busy' = "notice"
    /\ UNCHANGED <<disk, folder, editor, reserved, watched, engine, reload, counters>>

(* onProfilesConfChanged: first the watch is re-added, then the file read, *)
(* so that a write in between is either read or told of.                   *)
NoticeChange ==
    /\ busy = "idle" /\ notice
    /\ notice' = FALSE
    /\ watched' = TRUE
    /\ busy' = "notice"
    /\ UNCHANGED <<disk, folder, editor, reserved, engine, reload, counters>>

AdoptActive ==
    /\ busy = "notice" /\ busy' = "idle"
    /\ editor' = Adopted
    /\ UNCHANGED <<disk, folder, reserved, watched, notice, engine, reload, counters>>

-----------------------------------------------------------------------------
(* The engine.  switchToProfileName: the new name and the list it knows. *)
SwitchToProfileName(n) ==
    /\ switches < MaxSwitches
    /\ n \in NamesOf(engine) \ {engine.active}
    /\ engine' = [engine EXCEPT !.active = n]
    /\ Write(engine')
    /\ switches' = switches + 1
    /\ UNCHANGED <<folder, editor, reserved, busy, openedClear, edits, opens>>

(* The config watch arms the debounce anew; when it ends all is reread. *)
ArmReload ==
    /\ reload = "event" /\ reload' = "timer"
    /\ UNCHANGED <<disk, folder, editor, reserved, busy, watched, notice,
                   engine, counters>>

ReloadAll ==
    /\ reload = "timer" /\ reload' = "no"
    /\ engine' = Loaded
    /\ UNCHANGED <<disk, folder, editor, reserved, busy, watched, notice, counters>>

-----------------------------------------------------------------------------
(* A fresh setup, a running one, and a hand-edited file whose active name is *)
(* unknown; a drop-in file may lie in profiles/.  The engine has started.    *)
Configs ==
    LET two == [Seeded EXCEPT !.entries =
                   Append(@, Profile("Work", <<SlugOf["Work"], 1>>))]
    IN  {Unwritten, two, [two EXCEPT !.active = "Gone"]}

ProfilesInit ==
    /\ disk \in Configs
    /\ folder \in SUBSET {<<SlugOf["Work"], 1>>}
    /\ engine = Loaded
    /\ editor = Seeded /\ reserved = None
    /\ busy = "closed" /\ watched = FALSE /\ notice = FALSE
    /\ reload = "no"
    /\ openedClear = TRUE
    /\ edits = 0 /\ switches = 0 /\ opens = 0

EditRow(row) ==
    \/ \E n \in Names : RenameProfile(row, n)
    \/ RemoveProfile(row)
    \/ SetActiveRow(row)
    \/ \E c \in Combos \cup {None} : SetSelectKey(row, c)
    \/ \E b \in BOOLEAN : SetFavorite(row, b)

EditorStep ==
    \/ Reread
    \/ Refuse
    \/ \E n \in Names : CreateProfile(n)
    \/ \E p \in Presets : AddProfileFromPreset(p)
    \/ \E row \in Rows : EditRow(row)
    \/ \E c \in Combos \cup {None} : SetCycleNext(c)
    \/ \E c \in Combos \cup {None} : SetCyclePrev(c)
    \/ \E c \in Combos \cup {None} : SetReservedCombo(c)
    \/ \E f \in Files : SaveMappings(f)
    \/ OpenEditor
    \/ CloseEditor
    \/ NoticeChange
    \/ AdoptActive

EngineStep ==
    \/ \E n \in Names : SwitchToProfileName(n)
    \/ ArmReload
    \/ ReloadAll

ProfilesNext == EditorStep \/ EngineStep
ProfilesSpec == ProfilesInit /\ [][ProfilesNext]_profileVars

-----------------------------------------------------------------------------
IsProfiles(p) ==
    /\ p.entries \in Seq(Entry) /\ p.active \in Names \cup {"Gone", None}
    /\ {p.next, p.prev} \subseteq Combos \cup {None}

(* The types of the variables. *)
ProfilesTypeOK ==
    /\ IsProfiles(disk) /\ IsProfiles(editor) /\ IsProfiles(engine)
    /\ folder \subseteq Files
    /\ reserved \in Combos \cup {None}
    /\ busy \in {"closed", "idle", "edit", "notice"}
    /\ reload \in {"no", "event", "timer"}
    /\ {watched, notice, openedClear} \subseteq BOOLEAN

Distinct(p) == \A i, j \in 1..Len(p.entries) :
    i # j => p.entries[i].name # p.entries[j].name /\ p.entries[i].file # p.entries[j].file

(* No list gives two profiles one name or one file, an active profile is on  *)
(* its list, and in the editor no shortcut comes to stand for two things:    *)
(* whoever wrote profiles.conf last, and whatever was reloaded in between.   *)
(* The editor may open with one that does: a profile switch of the engine    *)
(* brings back a shortcut that was freed and given away meanwhile            *)
(* (OnlyEditorEditsTheList).                                                 *)
ListsAreSound ==
    /\ Distinct(disk)
    /\ Distinct(engine) /\ engine.active \in NamesOf(engine)
    /\ busy # "closed" =>
         /\ Distinct(editor) /\ editor.active \in NamesOf(editor)
         /\ openedClear => Unambiguous(Append(Keys(editor), reserved))

(* When no change is on its way to the engine it runs what the file says;    *)
(* when none is on its way to the open editor, its active marker is the      *)
(* file's unless the file names a profile the editor does not know.          *)
QuietSidesAgree ==
    /\ reload = "no" => engine = Loaded
    /\ (busy = "idle" /\ ~notice) =>
        (disk.active \in NamesOf(editor) => editor.active = disk.active)

(* ProfileListModel "owns profiles.conf exclusively": only the editor        *)
(* changes the list in the file, a shortcut only its active profile.         *)
OnlyEditorEditsTheList ==
    [][engine'.active # engine.active /\ disk' = engine' /\ disk # Unwritten
        => disk'.entries = disk.entries]_profileVars
=============================================================================
