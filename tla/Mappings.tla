------------------------------ MODULE Mappings ------------------------------
(***************************************************************************)
(* The mappings page of the editor and the combination of profiles.        *)
(* MappingListModel edits the file of one profile; MergeManifestModel owns *)
(* merge.conf, which names a base profile, the profiles appended to it and *)
(* the manual order of the variants.  When the edited profile is the base, *)
(* the page shows the composition, and a chip edits the profile it comes   *)
(* from.  The engine composes the same files (buildRuntimeMaps).           *)
(*                                                                         *)
(* An output is the sequence of its variants, empty for one that splits to *)
(* none; module Codec has the escaped text.  The order of the composed     *)
(* rows, the marks on duplicates and the sort by usage, which both sides   *)
(* do after composing, are left out.                                       *)
(***************************************************************************)
EXTENDS Integers, Sequences, FiniteSets, SequencesExt

CONSTANTS Inputs, Values,  \* base characters and variants
          ProfileFiles,    \* the files of profiles/
          Defaults,        \* defaultMappings(), a sequence of rows
          Contents,        \* what a file may hold at the start
          MappingFaults,          \* {"write"} lets a save fail
          MaxListEdits, MaxOuts  \* bounds

StandardFile == "mappings.txt"
MappingFiles == {StandardFile} \cup ProfileFiles
NoFile == "none"

Row == [input: Inputs, outs: Seq(Values)]
Variants == [value: Values, ref: MappingFiles]
Single(rows) == \A r, q \in 1..Len(rows) : rows[r].input = rows[q].input => r = q

(* A file edited by hand may map an input twice, the defaults do not.      *)
ASSUME MappingsAssumption ==
    /\ NoFile \notin MappingFiles
    /\ Contents \subseteq Seq(Row)
    /\ Defaults \in Seq(Row) /\ Single(Defaults)

(* A folder has finitely many files, and there are finitely many characters.*)
ASSUME FiniteFolder == IsFiniteSet(ProfileFiles) /\ IsFiniteSet(Inputs)

Manifest(b, s, o) == [base |-> b, sources |-> s, order |-> o]
NoOrder == [i \in Inputs |-> <<>>]
NoMerge == Manifest(NoFile, <<>>, NoOrder)

VARIABLES
    files,       \* the rows in each file; a missing one has none
    mergeConf,   \* merge.conf
    merge,       \* MergeManifestModel: manifest_
    profileFile, entries, saveState,    \* MappingListModel: the edited file
    composing, manifest, displayRows,   \* and its composed view
    listEdits

mappingVars == <<files, mergeConf, merge, profileFile, entries, saveState, composing,
                 manifest, displayRows, listEdits>>
view == <<composing, manifest, displayRows>>

-----------------------------------------------------------------------------
(* The first and the last row of an input in a list of rows, 0 for none.   *)
RowOf(rows, i) == SelectInSeq(rows, LAMBDA r : r.input = i)
RowsOf(rows, i) == {k \in DOMAIN rows : rows[k].input = i}
LastRowOf(rows, i) == IF RowsOf(rows, i) = {} THEN 0 ELSE Max(RowsOf(rows, i))

(* The variants of an input: the last of its rows has the say.  The loaders *)
(* of a file skip the rows without variants, the page's own map does not.  *)
OutsOf(rows, own) == IF own = {} THEN <<>> ELSE rows[Max(own)].outs
OwnMap(rows) == [i \in Inputs |-> OutsOf(rows, RowsOf(rows, i))]
MapOf(rows) == [i \in Inputs |->
    OutsOf(rows, {k \in RowsOf(rows, i) : rows[k].outs # <<>>})]
NoMap == [i \in Inputs |-> <<>>]

(* SelectSeq by membership, as a recursive function the proofs can expand. *)
Only(s, T) ==
    LET kept[n \in 0..Len(s)] ==
            IF n = 0 THEN <<>>
            ELSE IF s[n] \in T THEN Append(kept[n - 1], s[n]) ELSE kept[n - 1]
    IN  kept[Len(s)]

(* composeRefs: base first, then the sources.                              *)
Refs(m) == IF m.base = NoFile THEN <<>>
           ELSE <<m.base>> \o Only(m.sources, MappingFiles \ {m.base})

(* composeBase: all variants, source after source; an override takes them  *)
(* in its order, each entry the first that is left, the rest follows.      *)
Natural(i, refs, maps) == FlattenSeq([k \in 1..Len(refs) |->
    [j \in 1..Len(maps[k][i]) |-> [value |-> maps[k][i][j], ref |-> refs[k]]]])

Claim(acc, want) ==
    IF want \notin ToSet(acc.left) THEN acc
    ELSE [done |-> Append(acc.done, want), left |-> RemoveFirst(acc.left, want)]
Reordered(natural, order) ==
    LET acc[n \in 0..Len(order)] ==
            IF n = 0 THEN [done |-> <<>>, left |-> natural]
            ELSE Claim(acc[n - 1], order[n])
    IN  acc[Len(order)].done \o acc[Len(order)].left

Compose(refs, maps, order) ==
    [i \in Inputs |-> Reordered(Natural(i, refs, maps), order[i])]
ProjectValues(rows) == [i \in Inputs |->
    [k \in 1..Len(rows[i]) |-> rows[i][k].value]]

(* loadMappingsFromFile and buildRuntimeMaps, on the engine's side.        *)
LoadMappings(f) ==
    IF MapOf(files[f]) = NoMap /\ f = StandardFile THEN MapOf(Defaults) ELSE MapOf(files[f])
RuntimeMap(f) ==
    IF mergeConf.base = f
    THEN LET refs == Refs(mergeConf)
         IN  ProjectValues(Compose(refs, [k \in 1..Len(refs) |-> LoadMappings(refs[k])],
                                   mergeConf.order))
    ELSE LoadMappings(f)

-----------------------------------------------------------------------------
(* The composed view: rebuildComposed reads the sources and not the base,  *)
(* which is the list in memory; refreshComposedState rereads merge.conf.   *)
LoadProfileMap(f, fs) == MapOf(fs[f])
RebuildComposed(f, es, fs, m) ==
    IF m.base # f THEN NoMap
    ELSE LET refs == Refs(m)
         IN  Compose(refs, [k \in 1..Len(refs) |-> IF k = 1 THEN OwnMap(es)
                                                   ELSE LoadProfileMap(refs[k], fs)],
                     m.order)

(* Mutant: the view is rebuilt from the manifest it already has.            *)
RefreshMutant ==
    /\ manifest' = manifest
    /\ composing' = (manifest.base = profileFile')
    /\ displayRows' = RebuildComposed(profileFile', entries', files', manifest)

Refresh ==
    /\ manifest' = mergeConf'
    /\ composing' = (mergeConf'.base = profileFile')
    /\ displayRows' = RebuildComposed(profileFile', entries', files', mergeConf')

(* load: the German defaults stand in for an empty Standard profile.       *)
LoadRows(f, fs) == IF fs[f] = <<>> /\ f = StandardFile THEN Defaults ELSE fs[f]

SetProfileFile(f) ==
    /\ f # profileFile
    /\ profileFile' = f
    /\ entries' = LoadRows(f, files)
    /\ saveState' = "loaded"
    /\ UNCHANGED <<files, mergeConf, merge, listEdits>>
    /\ Refresh

(* save: the list goes to its file whole; a failed write leaves the list.  *)
SaveRows(es) ==
    /\ entries' = es
    /\ \/ saveState' = "saved" /\ files' = [files EXCEPT ![profileFile] = es]
       \/ "write" \in MappingFaults /\ saveState' = "error" /\ UNCHANGED files

Edit ==
    /\ listEdits < MaxListEdits /\ listEdits' = listEdits + 1
    /\ UNCHANGED <<mergeConf, merge, profileFile>>

(* Every change of the plain list refuses while the view is composed.      *)
EditList(es) == ~composing /\ Edit /\ SaveRows(es) /\ UNCHANGED view

HasInput(i, row) == \E k \in 1..Len(entries) : k # row /\ entries[k].input = i
AddMapping(i, outs) ==
    /\ ~HasInput(i, 0)
    /\ EditList(Append(entries, [input |-> i, outs |-> outs]))

RemoveMapping(row) == EditList(RemoveAt(entries, row))

UpdateMapping(row, i, outs) ==
    /\ ~HasInput(i, row)
    /\ EditList([entries EXCEPT ![row] = [input |-> i, outs |-> outs]])

(* A drag moves the row in memory and saves once, when it ends.            *)
Moved(from, to) == InsertAt(RemoveAt(entries, from), to, entries[from])
MoveMapping(from, to) ==
    /\ from # to /\ ~composing /\ Edit
    /\ entries' = Moved(from, to)
    /\ UNCHANGED <<files, saveState, view>>
PersistOrder == EditList(entries)

Arrangements(s) == {[k \in DOMAIN s |-> s[p[k]]] : p \in SetToSeqs(DOMAIN s)}

(* A chip action never takes the last variant of a plain row.  It looks for*)
(* the first row of its input, a move between rows for the last.           *)
RemoveVariant(i, v) ==
    LET row == RowOf(entries, i)
    IN  /\ row > 0 /\ v \in ToSet(entries[row].outs) /\ Len(entries[row].outs) > 1
        /\ EditList([entries EXCEPT ![row].outs = RemoveFirst(@, v)])

SetVariantOrder(i, outs) ==
    LET row == RowOf(entries, i)
    IN  /\ row > 0 /\ outs \in Arrangements(entries[row].outs)
        /\ EditList([entries EXCEPT ![row].outs = outs])

MoveVariant(i, v, j) ==
    LET from == LastRowOf(entries, i)
        to == LastRowOf(entries, j)
    IN  /\ i # j /\ from > 0 /\ to > 0
        /\ v \in ToSet(entries[from].outs) /\ Len(entries[from].outs) > 1
        /\ Len(entries[to].outs) < MaxOuts
        /\ EditList([entries EXCEPT ![from].outs = RemoveFirst(@, v),
                                    ![to].outs = Append(@, v)])

-----------------------------------------------------------------------------
(* A composed chip edits the rows of the profile it comes from: the list in*)
(* memory for the base, the file of another profile.  A row that has lost  *)
(* its last variant goes; the target row is made if it is missing.         *)
Taken(rows, i, v) ==
    LET row == RowOf(rows, i)
        outs == RemoveFirst(rows[row].outs, v)
    IN  IF outs = <<>> THEN RemoveAt(rows, row) ELSE [rows EXCEPT ![row].outs = outs]

(* Mutant: a move to an input the profile does not map makes no row for it. *)
GivenMutant(rows, j, v) ==
    LET row == RowOf(rows, j)
    IN  IF row = 0 THEN rows ELSE [rows EXCEPT ![row].outs = Append(@, v)]

Given(rows, j, v) ==
    LET row == RowOf(rows, j)
    IN  IF row = 0 THEN Append(rows, [input |-> j, outs |-> <<v>>])
        ELSE [rows EXCEPT ![row].outs = Append(@, v)]

Holds(rows, i, v) ==
    LET row == RowOf(rows, i)
    IN  row > 0 /\ v \in ToSet(rows[row].outs)

Origin(f) == IF f = manifest.base THEN entries ELSE files[f]

EditOrigin(f, rows) ==
    /\ composing /\ Edit
    /\ IF f = manifest.base THEN SaveRows(rows)
       ELSE /\ files' = [files EXCEPT ![f] = rows]
            /\ UNCHANGED <<entries, saveState>>
    /\ Refresh

RemoveComposedVariant(i, v, f) ==
    /\ Holds(Origin(f), i, v)
    /\ EditOrigin(f, Taken(Origin(f), i, v))

(* The composed row, not the profile's own, must keep a variant.           *)
MoveComposedVariant(i, v, f, j) ==
    /\ i # j /\ Len(displayRows[i]) > 1
    /\ Holds(Origin(f), i, v)
    /\ \A k \in RowsOf(Origin(f), j) : Len(Origin(f)[k].outs) < MaxOuts
    /\ EditOrigin(f, Given(Taken(Origin(f), i, v), j, v))

-----------------------------------------------------------------------------
(* The manifest.  pruneOrder drops what refers to a profile that left; save*)
(* removes an empty manifest's file; when it fails the manifest is reread. *)
(* Either way manifestChanged makes the mappings page refresh.             *)
PruneOrder(m) == [m EXCEPT !.order = [i \in Inputs |->
    Only(m.order[i], [value: Values, ref: ToSet(Refs(m))])]]

SaveManifest(m) ==
    \/ /\ merge' = m
       /\ mergeConf' = IF m.base = NoFile THEN NoMerge ELSE m
    \/ "write" \in MappingFaults /\ merge' = mergeConf /\ UNCHANGED mergeConf

EditManifest(m) ==
    /\ listEdits < MaxListEdits /\ listEdits' = listEdits + 1
    /\ SaveManifest(m)
    /\ UNCHANGED <<files, profileFile, entries, saveState>>
    /\ Refresh

Combined(refs) ==
    IF refs = <<>> THEN NoMerge
    ELSE PruneOrder(Manifest(refs[1], Tail(refs), merge.order))

ToggleMerge(f) ==
    LET refs == Refs(merge)
    IN  EditManifest(Combined(IF f \in ToSet(refs)
                              THEN RemoveFirst(refs, f)
                              ELSE Append(refs, f)))

(* A drag inside a composed row stores the order of what is displayed.     *)
SetOrderOverride(i, order) ==
    /\ composing /\ displayRows[i] # <<>> /\ order \in Arrangements(displayRows[i])
    /\ EditManifest([merge EXCEPT !.order[i] = order])

(* The profile list deletes a profile's file: onProfileRemoved, and the page *)
(* falls back to another profile if it showed the one that is gone.        *)
ProfileRemoved(f, fallback) ==
    /\ listEdits < MaxListEdits /\ listEdits' = listEdits + 1
    /\ fallback # f
    /\ files' = [files EXCEPT ![f] = <<>>]
    /\ IF f \in ToSet(Refs(merge))
       THEN SaveManifest(Combined(RemoveFirst(Refs(merge), f)))
       ELSE UNCHANGED <<mergeConf, merge>>
    /\ IF profileFile = f
       THEN /\ profileFile' = fallback
            /\ entries' = LoadRows(fallback, files')
            /\ saveState' = "loaded"
       ELSE UNCHANGED <<profileFile, entries, saveState>>
    /\ Refresh

-----------------------------------------------------------------------------
MappingsInit ==
    /\ files \in [MappingFiles -> Contents]
    /\ mergeConf \in {NoMerge} \cup
         {Manifest(StandardFile, <<f>>, NoOrder) : f \in ProfileFiles}
    /\ merge = mergeConf /\ manifest = mergeConf
    /\ profileFile = StandardFile
    /\ entries = LoadRows(StandardFile, files)
    /\ saveState = "loaded"
    /\ composing = (mergeConf.base = StandardFile)
    /\ displayRows = RebuildComposed(StandardFile, entries, files, mergeConf)
    /\ listEdits = 0

Outputs == UNION {[1..n -> Values] : n \in 1..MaxOuts}

ListStep ==
    \/ \E i \in Inputs, outs \in Outputs : AddMapping(i, outs)
    \/ \E row \in 1..Len(entries) : RemoveMapping(row)
    \/ \E row \in 1..Len(entries), i \in Inputs, outs \in Outputs :
            UpdateMapping(row, i, outs)
    \/ \E from, to \in 1..Len(entries) : MoveMapping(from, to)
    \/ PersistOrder
    \/ \E i \in Inputs, v \in Values : RemoveVariant(i, v)
    \/ \E i \in Inputs, outs \in Outputs : SetVariantOrder(i, outs)
    \/ \E i, j \in Inputs, v \in Values : MoveVariant(i, v, j)
    \/ \E f \in MappingFiles : SetProfileFile(f)

ComposedStep ==
    \/ \E i \in Inputs, v \in Values, f \in MappingFiles : RemoveComposedVariant(i, v, f)
    \/ \E i, j \in Inputs, v \in Values, f \in MappingFiles : MoveComposedVariant(i, v, f, j)

ManifestStep ==
    \/ \E f \in MappingFiles : ToggleMerge(f)
    \/ \E i \in Inputs : \E order \in Arrangements(displayRows[i]) :
            SetOrderOverride(i, order)
    \/ \E f \in ProfileFiles, g \in MappingFiles : ProfileRemoved(f, g)

MappingsNext == ListStep \/ ComposedStep \/ ManifestStep
MappingsSpec == MappingsInit /\ [][MappingsNext]_mappingVars

-----------------------------------------------------------------------------
(* The types of the variables.                                             *)
IsManifest(m) ==
    /\ m.base \in MappingFiles \cup {NoFile} /\ m.sources \in Seq(MappingFiles)
    /\ m.order \in [Inputs -> Seq(Variants)]
MappingsTypeOK ==
    /\ files \in [MappingFiles -> Seq(Row)] /\ entries \in Seq(Row)
    /\ IsManifest(mergeConf) /\ IsManifest(merge) /\ IsManifest(manifest)
    /\ displayRows \in [Inputs -> Seq(Variants)]
    /\ profileFile \in MappingFiles /\ composing \in BOOLEAN
    /\ saveState \in {"loaded", "saved", "error"}

(* "The cycle never drifts from the mapping": what the page shows for the  *)
(* edited profile, plain or composed, is what the engine builds from the   *)
(* files, whatever was edited, merged, rearranged or removed before, as long *)
(* as the list is saved and has no input twice, and Standard's file maps any.*)
Shown == IF composing THEN ProjectValues(displayRows) ELSE MapOf(entries)
ShownIsRuntime ==
    saveState # "error" /\ Single(entries) /\ MapOf(files[StandardFile]) # NoMap
      => Shown = RuntimeMap(profileFile)

(* Whatever save failed, the manifest in the owner's memory and in the page*)
(* is the one in the file; it names no profile twice, and its manual orders*)
(* name no profile that is not combined.                                   *)
ManifestsAgree ==
    /\ merge = mergeConf /\ manifest = mergeConf
    /\ IsInjective(Refs(mergeConf))
    /\ \A i \in Inputs : \A v \in ToSet(mergeConf.order[i]) : v.ref \in ToSet(Refs(mergeConf))

(* The page and the combination show what the files and the engine hold.   *)
PageIsTrue == ShownIsRuntime /\ ManifestsAgree

(* "The dragged variant must never be silently dropped": a drag of a chip, *)
(* plain or composed, leaves every variant as often in the files as before,*)
(* as long as no file has an input on two rows.  (With two, a composed drag *)
(* appends to the first, 887-897, and the loaders take the last.)          *)
Spots(s, v) == {k \in DOMAIN s : s[k] = v}
Stocked(fs, v) == UNION {{<<f, i, k>> : k \in Spots(MapOf(fs[f])[i], v)} :
                            f \in MappingFiles, i \in Inputs}
Stock(fs) == [v \in Values |-> Cardinality(Stocked(fs, v))]
Drag ==
    \/ \E i \in Inputs, outs \in Outputs : SetVariantOrder(i, outs)
    \/ \E i, j \in Inputs, v \in Values : MoveVariant(i, v, j)
    \/ \E i, j \in Inputs, v \in Values, f \in MappingFiles : MoveComposedVariant(i, v, f, j)
OneRowEach == Single(entries) /\ \A f \in MappingFiles : Single(files[f])
DragsKeepVariants ==
    [][Drag /\ files[profileFile] # <<>> /\ saveState # "error" /\ OneRowEach
        => Stock(files') = Stock(files)]_mappingVars
=============================================================================
