------------------------------- MODULE Codec -------------------------------
(***************************************************************************)
(* The text formats of the configuration files: the variants of a mapping  *)
(* (splitOutputs, joinOutputs) and its line (parseMappings), a field of    *)
(* the tab separated sidecars (escapeTsvField, readConfigLine) and a value *)
(* of an INI file (escapeIniValue, parseIni).  A text is a sequence of     *)
(* characters.  Encodings, NUL bytes and overlong lines are left out.      *)
(*                                                                         *)
(* The behaviours type a text character by character; the properties speak *)
(* of what comes back after it was written and read.                       *)
(***************************************************************************)
EXTENDS Integers, Sequences, SequencesExt

CONSTANTS Chars,     \* the characters that may be typed
          MaxText    \* bound: the longest text

VARIABLE text
codecVars == <<text>>

Comma == ","
Quote == "\""
Space == " "

(* The characters a format gives a meaning after a backslash, and what they *)
(* stand for there.  VT is the vertical tab.                                *)
Letters(format) ==
    CASE format = "output" -> {Comma, "\\", "n", "t"}
      [] format = "field" -> {"#", "\\", "n", "t", "r"}
      [] format = "ini" -> {Quote, "\\", "n", "t", "r", "f", "v"}
Meaning(l) ==
    CASE l = "n" -> "\n"
      [] l = "t" -> "\t"
      [] l = "r" -> "\r"
      [] l = "f" -> "\f"
      [] l = "v" -> "VT"
      [] OTHER -> l

EscapeChar(format, c) ==
    IF \E l \in Letters(format) : Meaning(l) = c
    THEN <<"\\", CHOOSE l \in Letters(format) : Meaning(l) = c>>
    ELSE <<c>>
Escape(format, s) == FlattenSeq([i \in DOMAIN s |-> EscapeChar(format, s[i])])

(* A left to right scan: the parts so far, the characters of the one that is *)
(* open, whether the last one was an unpaired backslash, and whether the     *)
(* text is malformed.                                                        *)
Start == [parts |-> <<>>, cur |-> <<>>, esc |-> FALSE, bad |-> FALSE]
Escaping(acc) == [acc EXCEPT !.esc = TRUE]
Plain(acc, c) == [acc EXCEPT !.cur = Append(@, c), !.esc = FALSE]
Malformed(acc) == [acc EXCEPT !.bad = TRUE, !.esc = FALSE]
Closed(acc) == IF acc.cur = <<>> THEN acc
               ELSE [acc EXCEPT !.parts = Append(@, acc.cur), !.cur = <<>>]
Unescaped(format, acc, c) ==
    IF c \in Letters(format) THEN Plain(acc, Meaning(c)) ELSE Malformed(acc)

SplitStep(acc, c) ==
    IF acc.esc THEN Unescaped("output", acc, c)
    ELSE CASE c = "\\" -> Escaping(acc)
           [] c = Comma -> Closed(acc)
           [] OTHER -> Plain(acc, c)
FieldStep(acc, c) ==
    IF acc.esc THEN Unescaped("field", acc, c)
    ELSE IF c = "\\" THEN Escaping(acc) ELSE Plain(acc, c)
(* An unknown escape is kept; a closing quote anywhere but at the end leaves *)
(* the value as it stands.                                                   *)
IniStep(acc, c) ==
    IF acc.esc THEN Plain(acc, Meaning(c))
    ELSE CASE c = "\\" -> Escaping(acc)
           [] c = Quote -> Malformed(acc)
           [] OTHER -> Plain(acc, c)

Step(format, acc, c) ==
    CASE format = "output" -> SplitStep(acc, c)
      [] format = "field" -> FieldStep(acc, c)
      [] format = "ini" -> IniStep(acc, c)
Scan(format, s) ==
    LET acc[n \in 0..Len(s)] == IF n = 0 THEN Start ELSE Step(format, acc[n - 1], s[n])
    IN  acc[Len(s)]
WellFormed(acc) == ~acc.bad /\ ~acc.esc

-----------------------------------------------------------------------------
(* The variants of an output: commas between them, empty ones left out. *)
SplitOutputs(s) ==
    LET acc == Scan("output", s)
    IN  IF WellFormed(acc) THEN Closed(acc).parts ELSE <<>>

JoinOutputs(vs) ==
    LET joined[n \in 0..Len(vs)] ==
            IF n = 0 THEN <<>>
            ELSE IF vs[n] = <<>> THEN joined[n - 1]
            ELSE (IF joined[n - 1] = <<>> THEN <<>> ELSE Append(joined[n - 1], Comma))
                 \o Escape("output", vs[n])
    IN  joined[Len(vs)]

(* serializeMappingRows and parseMappings, for one line.  Trailing CRs are  *)
(* trimmed; '#' begins a comment, unless the input is escaped.              *)
WriteMapping(input, output) ==
    (IF input \in {"#", "\\"} THEN <<"\\">> ELSE <<>>) \o <<input, "=">> \o output

IsLine(s) == \A i \in DOMAIN s : s[i] # "\n"
TrimCR(s) == LET kept == {0} \cup {i \in DOMAIN s : s[i] # "\r"}
             IN  SubSeq(s, 1, CHOOSE i \in kept : \A j \in kept : j <= i)
NoMapping == [input |-> "", output |-> <<>>]
Mapping(s) == IF Len(s) > 2 /\ s[2] = "=" THEN [input |-> s[1], output |-> SubSeq(s, 3, Len(s))]
              ELSE NoMapping
ParseMapping(line) ==
    LET s == TrimCR(line)
    IN  CASE s = <<>> -> NoMapping
          [] Len(s) >= 3 /\ s[1] = "\\" /\ s[2] \in {"#", "\\"} /\ s[3] = "=" -> Mapping(Tail(s))
          [] s[1] = "#" -> NoMapping
          [] OTHER -> Mapping(s)

-----------------------------------------------------------------------------
(* A field of usage.conf and merge.conf. *)

(* Mutant: a '#' at the beginning is written as it is, and the line reads as *)
(* a comment.                                                                *)
EscapeTsvFieldMutant(s) ==
    IF s # <<>> /\ s[1] = "#" THEN <<"#">> \o Escape("field", Tail(s)) ELSE Escape("field", s)

EscapeTsvField(s) == Escape("field", s)

(* A malformed field reads as nothing: its line is dropped, like one with an *)
(* empty field.                                                             *)
NoField == <<>>
UnescapeTsvField(s) ==
    LET acc == Scan("field", s) IN IF WellFormed(acc) THEN acc.cur ELSE NoField

(* A usage line: two fields and the count, parted at the tabs. *)
WriteUsage(base, variant) ==
    EscapeTsvField(base) \o <<"\t">> \o EscapeTsvField(variant) \o <<"\t", "1">>
Tabs(s) == {i \in DOMAIN s : s[i] = "\t"}
ReadUsage(line) ==
    LET s == TrimCR(line)
        t1 == CHOOSE i \in Tabs(s) : \A j \in Tabs(s) : i <= j
        t2 == CHOOSE i \in Tabs(s) \ {t1} : \A j \in Tabs(s) \ {t1} : i <= j
        base == UnescapeTsvField(SubSeq(s, 1, t1 - 1))
        variant == UnescapeTsvField(SubSeq(s, t1 + 1, t2 - 1))
    IN  IF \/ s = <<>> \/ s[1] = "#" \/ Cardinality(Tabs(s)) < 2
           \/ base = NoField \/ variant = NoField
        THEN <<>>
        ELSE <<base, variant>>

-----------------------------------------------------------------------------
(* A value of settings.conf and profiles.conf. *)
Blank == {Space, "\t", "\r"}
NeedsQuote == Blank \cup {"\n", "\f", "VT", Quote, "\\"}
EscapeIniValue(s) ==
    LET quote == IF ToSet(s) \cap NeedsQuote = {} THEN <<>> ELSE <<Quote>>
    IN  quote \o Escape("ini", s) \o quote

UnescapeIniValue(s) ==
    IF Len(s) < 2 \/ s[1] # Quote \/ s[Len(s)] # Quote THEN s
    ELSE LET acc == Scan("ini", SubSeq(s, 2, Len(s) - 1))
         IN  IF WellFormed(acc) THEN acc.cur ELSE s

TrimIni(s) ==
    LET solid == {i \in DOMAIN s : s[i] \notin Blank}
        first == CHOOSE i \in solid : \A j \in solid : i <= j
        last == CHOOSE i \in solid : \A j \in solid : j <= i
    IN  IF solid = {} THEN <<>> ELSE SubSeq(s, first, last)

(* parseIni, for one line: blank, comment, section header, or key = value. *)
NoValue == [key |-> <<>>, value |-> <<>>]
ParseIniLine(line) ==
    LET s == TrimIni(line)
        eqs == {i \in DOMAIN s : s[i] = "="}
        eq == CHOOSE i \in eqs : \A j \in eqs : i <= j
    IN  IF \/ s = <<>> \/ s[1] = "#"
           \/ s[1] = "[" /\ s[Len(s)] = "]"
           \/ eqs = {}
        THEN NoValue
        ELSE [key |-> TrimIni(SubSeq(s, 1, eq - 1)),
              value |-> UnescapeIniValue(TrimIni(SubSeq(s, eq + 1, Len(s))))]

-----------------------------------------------------------------------------
CodecInit == text = <<>>
Type(c) == Len(text) < MaxText /\ text' = Append(text, c)
CodecNext == \E c \in Chars : Type(c)
CodecSpec == CodecInit /\ [][CodecNext]_codecVars

-----------------------------------------------------------------------------
(* The editor takes an output without line breaks of its own that splits     *)
(* into something (validateOutput).                                          *)
ValidOutput(s) ==
    /\ ToSet(s) \cap {"\n", "\r"} = {}
    /\ SplitOutputs(s) # <<>>

(* A mapping the editor takes is one line of the file, which gives it back   *)
(* for every input character, comment and escape characters included.        *)
MappingSurvives == \A input \in Chars \ {"\n", "\r", "\t", "\f", Space} :
    ValidOutput(text) =>
        /\ IsLine(WriteMapping(input, text))
        /\ ParseMapping(WriteMapping(input, text)) = [input |-> input, output |-> text]

(* Its variants can be taken apart and put together again: what a chip edit  *)
(* writes holds the same variants, and is again an output the editor takes.  *)
VariantsSurvive == ValidOutput(text) =>
    /\ SplitOutputs(JoinOutputs(SplitOutputs(text))) = SplitOutputs(text)
    /\ ValidOutput(JoinOutputs(SplitOutputs(text)))

(* Any text, tabs, line ends and comment characters included, survives as a  *)
(* field of a sidecar line.                                                  *)
FieldSurvives == text # <<>> =>
    /\ IsLine(WriteUsage(text, text))
    /\ ReadUsage(WriteUsage(text, text)) = <<text, text>>

(* Any text survives as a value of an INI file. *)
ValueSurvives ==
    LET line == <<"K", "=">> \o EscapeIniValue(text)
    IN  IsLine(line) /\ ParseIniLine(line) = [key |-> <<"K">>, value |-> text]

TextSurvives == MappingSurvives /\ VariantsSurvive /\ FieldSurvives /\ ValueSurvives
=============================================================================
