------------------------------ MODULE Settings ------------------------------
(***************************************************************************)
(* The settings page (SettingsModel): the leaders with the guard of the    *)
(* last one, the two custom keys, all other settings as one value, the     *)
(* rewriting of settings.conf on every change, and the page's view of the  *)
(* engine's pause, kept by a signal, a query and the owner of the name.    *)
(***************************************************************************)
EXTENDS Integers, Sequences, FiniteSets

CONSTANTS BuiltIn,    \* the leaders with a toggle: space, arrows, Alt, AltGr
          Codes,      \* usable key codes; kNoKeyCode and BadCode are not
          Layouts,    \* values of [Input] Layout
          SettingsFaults, \* {"write"} lets a save fail
          MaxPageEdits, MaxLives, MaxPauses  \* bounds

kNoKeyCode == 0
BadCode == 1
NoLayout == "none"
Slots == {"custom1", "custom2"}
ASSUME SettingsAssumption ==
    BuiltIn \cap Slots = {} /\ Codes \cap {kNoKeyCode, BadCode} = {}

CustomKey == [enabled: BOOLEAN, code: Codes \cup {kNoKeyCode}]
Content == [leader: [BuiltIn -> BOOLEAN], custom: [Slots -> CustomKey], other: {0, 1}]

VARIABLES
    model,      \* the members of SettingsModel
    settingsConf, \* settings.conf: what the page writes, and [Input] Layout
    open,       \* the editor runs
    pageEdits,
    enginePause,  \* "off", or the engine's pause flag
    mail,       \* what the bus has for the editor, in order
    asked,      \* GetPaused calls on their way to the engine
    available, paused,  \* engineAvailable_, enginePaused_
    lives, pauses

settingsVars == <<model, settingsConf, open, pageEdits, enginePause, mail, asked,
                  available, paused, lives, pauses>>
pageVars == <<model, settingsConf, pageEdits>>
busVars == <<enginePause, mail, asked, available, paused, lives, pauses>>

-----------------------------------------------------------------------------
IsUsableKeyCode(c) == c \in Codes
HasKey(s, k) == s.custom[k].code # kNoKeyCode
EffectiveLeaders(s) ==
    {l \in BuiltIn : s.leader[l]} \cup
    {k \in Slots : s.custom[k].enabled /\ HasKey(s, k)}

(* Mutant: any code names a key. *)
KeyCodeValueMutant(c) == c

(* keyCodeValue and load: an unusable code reads as no key.                *)
KeyCodeValue(c) == IF IsUsableKeyCode(c) THEN c ELSE kNoKeyCode
Load == [leader |-> settingsConf.leader, other |-> settingsConf.other,
         custom |-> [k \in Slots |->
            [settingsConf.custom[k] EXCEPT !.code = KeyCodeValue(@)]]]

(* save writes every member and nothing else; a failure leaves the members.*)
Written(s) == [leader |-> s.leader, custom |-> s.custom, other |-> s.other,
               layout |-> NoLayout]
SaveSettings(s) ==
    /\ open /\ pageEdits < MaxPageEdits
    /\ pageEdits' = pageEdits + 1
    /\ model' = s
    /\ \/ settingsConf' = Written(s)
       \/ "write" \in SettingsFaults /\ UNCHANGED settingsConf
    /\ UNCHANGED <<open, busVars>>

(* Mutant: a leader that is on may go off while any other is switched on,   *)
(* with or without a key.                                                   *)
AllowLeaderOffMutant(stillEffective) ==
    ~(stillEffective /\ Cardinality({l \in BuiltIn : model.leader[l]}
                                    \cup {k \in Slots : model.custom[k].enabled}) = 1)

(* allowLeaderOff: the change may not take the last effective leader.      *)
AllowLeaderOff(stillEffective) ==
    ~(stillEffective /\ Cardinality(EffectiveLeaders(model)) = 1)

(* The setters return early where nothing changes; a captured key is always *)
(* saved.                                                                   *)
SetLeader(l, v) ==
    /\ v # model.leader[l]
    /\ v \/ AllowLeaderOff(model.leader[l])
    /\ SaveSettings([model EXCEPT !.leader[l] = v])

SetCustomKeyEnabled(k, v) ==
    /\ v # model.custom[k].enabled
    /\ v \/ AllowLeaderOff(model.custom[k].enabled /\ HasKey(model, k))
    /\ SaveSettings([model EXCEPT !.custom[k].enabled = v])

CaptureCustomKey(k, code) ==
    LET new == KeyCodeValue(code)
    IN  /\ new # kNoKeyCode \/ AllowLeaderOff(model.custom[k].enabled /\ HasKey(model, k))
        /\ SaveSettings([model EXCEPT !.custom[k].code = new])

ClearCustomKey(k) ==
    /\ HasKey(model, k)
    /\ AllowLeaderOff(model.custom[k].enabled /\ HasKey(model, k))
    /\ SaveSettings([model EXCEPT !.custom[k].code = kNoKeyCode])

SetOther(v) == v # model.other /\ SaveSettings([model EXCEPT !.other = v])

-----------------------------------------------------------------------------
(* The engine's pause as the page knows it.  The bus delivers in order: the*)
(* owner of the name, the answers and the signals come in one queue.       *)
Post(m) == mail' = IF open THEN Append(mail, m) ELSE mail
Owner == [kind |-> "owner"]
Reply(ok, p) == [kind |-> "reply", ok |-> ok, paused |-> p]
Signal(p) == [kind |-> "signal", paused |-> p]

OpenSettings ==
    /\ ~open /\ pageEdits < MaxPageEdits
    /\ open' = TRUE
    /\ model' = Load
    /\ available' = FALSE /\ paused' = FALSE
    /\ asked' = 1 /\ mail' = <<>>    \* queryEngineState in the constructor
    /\ UNCHANGED <<settingsConf, pageEdits, enginePause, lives, pauses>>

CloseSettings ==
    /\ open /\ pageEdits < MaxPageEdits
    /\ open' = FALSE /\ pageEdits' = pageEdits + 1
    /\ mail' = <<>> /\ asked' = 0
    /\ UNCHANGED <<model, settingsConf, enginePause, available, paused, lives, pauses>>

(* GetPaused is answered by the engine, or by the bus with an error.       *)
Answer ==
    /\ asked > 0 /\ asked' = asked - 1
    /\ Post(IF enginePause = "off" THEN Reply(FALSE, FALSE)
            ELSE Reply(TRUE, enginePause = "paused"))
    /\ UNCHANGED <<pageVars, open, enginePause, available, paused, lives, pauses>>

(* The engine starts and takes its name, or leaves the bus: the calls it   *)
(* still had are answered with an error before its end is told.            *)
EngineStarts ==
    /\ enginePause = "off" /\ lives < MaxLives
    /\ enginePause' = "running" /\ lives' = lives + 1
    /\ Post(Owner)
    /\ UNCHANGED <<pageVars, open, asked, available, paused, pauses>>

EngineEnds ==
    /\ enginePause # "off" /\ enginePause' = "off"
    /\ asked' = 0
    /\ mail' = IF open THEN mail \o [i \in 1..asked |-> Reply(FALSE, FALSE)] \o <<Owner>>
               ELSE mail
    /\ UNCHANGED <<pageVars, open, available, paused, lives, pauses>>

(* The tray, the shortcut or the page's resume button.                     *)
EngineTogglesPause ==
    /\ enginePause # "off" /\ pauses < MaxPauses
    /\ enginePause' = IF enginePause = "paused" THEN "running" ELSE "paused"
    /\ pauses' = pauses + 1
    /\ Post(Signal(enginePause' = "paused"))
    /\ UNCHANGED <<pageVars, open, asked, available, paused, lives>>

(* Mutant: the page does not ask again when the owner of the name changed.         *)
QueryEngineStateMutant == UNCHANGED <<asked, available, paused>>

(* serviceOwnerChanged asks again; an answer and a signal set the state.   *)
QueryEngineState == asked' = asked + 1 /\ UNCHANGED <<available, paused>>
SetEngineState(a, p) == available' = a /\ paused' = p /\ UNCHANGED asked

Deliver ==
    /\ mail # <<>> /\ mail' = Tail(mail)
    /\ LET m == Head(mail)
       IN  CASE m.kind = "owner" -> QueryEngineState
             [] m.kind = "reply" -> SetEngineState(m.ok, m.ok /\ m.paused)
             [] m.kind = "signal" -> SetEngineState(TRUE, m.paused)
    /\ UNCHANGED <<pageVars, open, enginePause, lives, pauses>>

-----------------------------------------------------------------------------
(* A settings.conf with an effective leader; a key code may be unusable.   *)
SettingsInit ==
    /\ settingsConf \in [leader: [BuiltIn -> BOOLEAN],
                 custom: [Slots -> [enabled: BOOLEAN, code: {kNoKeyCode, BadCode}]],
                 other: {0}, layout: Layouts \cup {NoLayout}]
    /\ model = Load /\ EffectiveLeaders(model) # {}
    /\ open = FALSE /\ pageEdits = 0
    /\ enginePause \in {"off", "running"} /\ mail = <<>> /\ asked = 0
    /\ available = FALSE /\ paused = FALSE
    /\ lives = 0 /\ pauses = 0

PageStep ==
    \/ \E l \in BuiltIn, v \in BOOLEAN : SetLeader(l, v)
    \/ \E k \in Slots, v \in BOOLEAN : SetCustomKeyEnabled(k, v)
    \/ \E k \in Slots, c \in Codes \cup {BadCode} : CaptureCustomKey(k, c)
    \/ \E k \in Slots : ClearCustomKey(k)
    \/ \E v \in {0, 1} : SetOther(v)
    \/ OpenSettings
    \/ CloseSettings

BusStep ==
    \/ Answer
    \/ EngineStarts
    \/ EngineEnds
    \/ EngineTogglesPause
    \/ Deliver

SettingsNext == PageStep \/ BusStep
SettingsSpec == SettingsInit /\ [][SettingsNext]_settingsVars

-----------------------------------------------------------------------------
(* The types of the variables; no unusable key code gets into the model.   *)
SettingsTypeOK ==
    /\ model \in Content
    /\ settingsConf.leader \in [BuiltIn -> BOOLEAN]
    /\ settingsConf.layout \in Layouts \cup {NoLayout}
    /\ enginePause \in {"off", "running", "paused"}
    /\ {open, available, paused} \subseteq BOOLEAN
    /\ asked \in Nat

(* "At least one leader always stays active": in the page and, whatever save *)
(* failed, in the file the engine reads, by the engine's reading of it.    *)
LeaderRemains ==
    /\ EffectiveLeaders(model) # {}
    /\ EffectiveLeaders(Load) # {}

(* With nothing on its way, the open page shows whether an engine runs and *)
(* whether it is paused, through restarts and queries that crossed signals.*)
PauseShown ==
    (open /\ mail = <<>> /\ asked = 0) =>
        /\ available = (enginePause # "off")
        /\ paused = (enginePause = "paused")

(* The engine's [Input] Layout stays in settings.conf when the page saves. *)
LayoutSurvives == [][settingsConf'.layout = settingsConf.layout]_settingsVars
=============================================================================
