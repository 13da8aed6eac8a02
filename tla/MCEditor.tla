------------------------------ MODULE MCEditor ------------------------------
(***************************************************************************)
(* Finite instances of the editor's models and the files they share with   *)
(* the engine: the list of profiles, the mappings of one and their         *)
(* combination, the settings, and the text formats.  Every behaviour is    *)
(* one of one part, the others keep still.                                 *)
(***************************************************************************)
EXTENDS Profiles, Mappings, Settings, Codec

CONSTANT Parts    \* {"profiles", "mappings", "settings", "codec"}
VARIABLE part

(* "Work" and "Work!" have the same file name stem, a preset has it too. *)
MCSlugOf == [n \in Names |-> IF n = "Standard" THEN "std" ELSE "work"]
MCPresets == {[name |-> "Greek", slug |-> "work"]}

(* Files with one variant or two of which one is the other file's, and one *)
(* edited by hand: an input on two rows. *)
MCDefaults == <<[input |-> "a", outs |-> <<"x">>]>>
MCContents == {<<[input |-> "a", outs |-> <<"y">>]>>,
               <<[input |-> "b", outs |-> <<"x", "y">>]>>,
               <<[input |-> "a", outs |-> <<"x", "y">>], [input |-> "a", outs |-> <<"y">>]>>}

(* Every character that some format treats specially, a letter and an escape's letter. *)
MCChars == {"a", "n", "#", "\\", ",", "=", "\n", "\t", "\r", "\"", "[", "]", " "}

vars == <<part, profileVars, mappingVars, settingsVars, codecVars>>

OneContent == \A f \in MappingFiles : files[f] = <<[input |-> "a", outs |-> <<"y">>]>>
OneConf ==
    /\ settingsConf.layout = NoLayout /\ \A l \in BuiltIn : settingsConf.leader[l]
    /\ \A k \in Slots : settingsConf.custom[k] = [enabled |-> FALSE, code |-> kNoKeyCode]

(* The initial states of a part are its own; the others have one of theirs. *)
EditorInit ==
    /\ part \in Parts
    /\ ProfilesInit /\ (part # "profiles" => disk = Unwritten /\ folder = {})
    /\ MappingsInit /\ (part # "mappings" => mergeConf = NoMerge /\ OneContent)
    /\ SettingsInit /\ (part # "settings" => enginePause = "off" /\ OneConf)
    /\ CodecInit

(* A step of one part. *)
ProfilesPart == part = "profiles" /\ UNCHANGED <<part, mappingVars, settingsVars, codecVars>>
MappingsPart == part = "mappings" /\ UNCHANGED <<part, profileVars, settingsVars, codecVars>>
SettingsPart == part = "settings" /\ UNCHANGED <<part, profileVars, mappingVars, codecVars>>
CodecPart == part = "codec" /\ UNCHANGED <<part, profileVars, mappingVars, settingsVars>>

(* The disjuncts of ProfilesNext, MappingsNext, SettingsNext and CodecNext. *)
EditorNext ==
    \/ ProfilesPart /\ Reread
    \/ ProfilesPart /\ Refuse
    \/ ProfilesPart /\ \E n \in Names : CreateProfile(n)
    \/ ProfilesPart /\ \E p \in Presets : AddProfileFromPreset(p)
    \/ ProfilesPart /\ \E row \in Rows : \E n \in Names : RenameProfile(row, n)
    \/ ProfilesPart /\ \E row \in Rows : RemoveProfile(row)
    \/ ProfilesPart /\ \E row \in Rows : SetActiveRow(row)
    \/ ProfilesPart /\ \E row \in Rows : \E c \in Combos \cup {None} : SetSelectKey(row, c)
    \/ ProfilesPart /\ \E row \in Rows : \E b \in BOOLEAN : SetFavorite(row, b)
    \/ ProfilesPart /\ \E c \in Combos \cup {None} : SetCycleNext(c)
    \/ ProfilesPart /\ \E c \in Combos \cup {None} : SetCyclePrev(c)
    \/ ProfilesPart /\ \E c \in Combos \cup {None} : SetReservedCombo(c)
    \/ ProfilesPart /\ \E f \in Files : SaveMappings(f)
    \/ ProfilesPart /\ OpenEditor
    \/ ProfilesPart /\ CloseEditor
    \/ ProfilesPart /\ NoticeChange
    \/ ProfilesPart /\ AdoptActive
    \/ ProfilesPart /\ \E n \in Names : SwitchToProfileName(n)
    \/ ProfilesPart /\ ArmReload
    \/ ProfilesPart /\ ReloadAll
    \/ MappingsPart /\ \E i \in Inputs, outs \in Outputs : AddMapping(i, outs)
    \/ MappingsPart /\ \E row \in 1..Len(entries) : RemoveMapping(row)
    \/ MappingsPart /\ \E row \in 1..Len(entries), i \in Inputs, outs \in Outputs :
         UpdateMapping(row, i, outs)
    \/ MappingsPart /\ \E from, to \in 1..Len(entries) : MoveMapping(from, to)
    \/ MappingsPart /\ PersistOrder
    \/ MappingsPart /\ \E i \in Inputs, v \in Values : RemoveVariant(i, v)
    \/ MappingsPart /\ \E i \in Inputs, outs \in Outputs : SetVariantOrder(i, outs)
    \/ MappingsPart /\ \E i, j \in Inputs, v \in Values : MoveVariant(i, v, j)
    \/ MappingsPart /\ \E f \in MappingFiles : SetProfileFile(f)
    \/ MappingsPart /\ \E i \in Inputs, v \in Values, f \in MappingFiles :
         RemoveComposedVariant(i, v, f)
    \/ MappingsPart /\ \E i, j \in Inputs, v \in Values, f \in MappingFiles :
         MoveComposedVariant(i, v, f, j)
    \/ MappingsPart /\ \E f \in MappingFiles : ToggleMerge(f)
    \/ MappingsPart /\ \E i \in Inputs :
         \E order \in Arrangements(displayRows[i]) : SetOrderOverride(i, order)
    \/ MappingsPart /\ \E f \in ProfileFiles, g \in MappingFiles : ProfileRemoved(f, g)
    \/ SettingsPart /\ \E l \in BuiltIn, v \in BOOLEAN : SetLeader(l, v)
    \/ SettingsPart /\ \E k \in Slots, v \in BOOLEAN : SetCustomKeyEnabled(k, v)
    \/ SettingsPart /\ \E k \in Slots, c \in Codes \cup {BadCode} : CaptureCustomKey(k, c)
    \/ SettingsPart /\ \E k \in Slots : ClearCustomKey(k)
    \/ SettingsPart /\ \E v \in {0, 1} : SetOther(v)
    \/ SettingsPart /\ OpenSettings
    \/ SettingsPart /\ CloseSettings
    \/ SettingsPart /\ Answer
    \/ SettingsPart /\ EngineStarts
    \/ SettingsPart /\ EngineEnds
    \/ SettingsPart /\ EngineTogglesPause
    \/ SettingsPart /\ Deliver
    \/ CodecPart /\ \E c \in Chars : Type(c)

EditorSpec == EditorInit /\ [][EditorNext]_vars

(* The variables of every part keep their types. *)
EditorTypeOK ==
    /\ ProfilesTypeOK /\ MappingsTypeOK /\ SettingsTypeOK
    /\ part \in Parts
=============================================================================
