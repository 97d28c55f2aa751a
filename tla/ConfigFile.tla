----------------------------- MODULE ConfigFile ------------------------------
(***************************************************************************)
(* config.ini: read once at the start, changed key by key from the Config  *)
(* window, and edited by the user between two starts.  config_set_value    *)
(* reads the file, replaces the first line of its key and writes the text  *)
(* back over the old one.  save_binfile opens without O_TRUNC, so a        *)
(* shorter text leaves the end of the old file behind it.                  *)
(*                                                                         *)
(* The text is a sequence of cells: a key, "=", the cells of a value, an   *)
(* end of line, and "#" for a comment.  A value of n is n cells long, and  *)
(* 0 is what a line that does not parse leaves in force.  Files with CR LF *)
(* and files that give a key twice are left out.                           *)
(***************************************************************************)
EXTENDS Naturals, Sequences, SequencesExt

CONSTANTS
  Keys,       \* the keys of the options
  Misprinted, \* those the default text gives another value: fast_framebuffer
  Values,     \* their values: the cells each takes
  Files,      \* files a user may write: sequences of lines
  MaxCells    \* bound on the file, which what is left behind makes grow

VARIABLES
  file,       \* the cells on the card
  options,    \* Options, by key
  printed     \* keys in the file as create_default() wrote them, not yet read

vars == <<file, options, printed>>

NL == "nl"
Eq == "="
Digit == "1"

Cells(n) == [i \in 1..n |-> Digit]
Line(key, n) == <<key, Eq>> \o Cells(n)
Text(lines) == FlattenSeq([i \in DOMAIN lines |-> Append(lines[i], NL)])

\* The loop over the text: the lines it has closed and the one it is in.
Take(r, c) == IF c = NL THEN [done |-> Append(r.done, r.line), line |-> <<>>]
              ELSE [r EXCEPT !.line = Append(@, c)]
Reading(text) ==
  LET read[i \in 0..Len(text)] ==
        IF i = 0 THEN [done |-> <<>>, line |-> <<>>] ELSE Take(read[i - 1], text[i])
  IN read[Len(text)]

\* The lines of a text; one the file ends in without an NL counts if it is not empty.
Lines(text) ==
  LET r == Reading(text) IN IF r.line = <<>> THEN r.done ELSE Append(r.done, r.line)

\* The key of a line, no option's for a comment, a blank or a line without "=".
KeyOf(line) == IF Len(line) > 1 /\ line[2] = Eq THEN line[1] ELSE "#"

\* The value apply_line() takes from a line, 0 if it does not parse.
ValueOf(line) ==
  LET v == SubSeq(line, 3, Len(line)) IN
  IF Len(line) > 2 /\ line[2] = Eq /\ ToSet(v) = {Digit} THEN Len(v) ELSE 0

DefaultOption == 1
DefaultPrinted(k) == IF k \in Misprinted THEN DefaultOption + 1 ELSE DefaultOption

\* create_default(): a comment and a line for every key
DefaultFile ==
  LET order == SetToSeq(Keys) IN
  [i \in 1..(2 * Len(order)) |->
     IF i % 2 = 1 THEN <<"#">> ELSE Line(order[i \div 2], DefaultPrinted(order[i \div 2]))]

\* parse() over the defaults: the last line of a key that parses has it.
Parsed(text) ==
  LET lines == Lines(text) IN
  [k \in Keys |->
     LET of == {i \in DOMAIN lines : KeyOf(lines[i]) = k /\ ValueOf(lines[i]) # 0} IN
     IF of = {} THEN DefaultOption ELSE ValueOf(lines[Max(of)])]

\* Slip: any line with the key in it is replaced, a comment too.
SetInAny(lines, key, n) ==
  LET of == {i \in DOMAIN lines : key \in ToSet(lines[i])} IN
  IF of = {} THEN Append(lines, Line(key, n))
  ELSE [lines EXCEPT ![Min(of)] = Line(key, n)]

\* The lines config_set_value() writes.
SetInLines(lines, key, n) ==
  LET of == {i \in DOMAIN lines : KeyOf(lines[i]) = key} IN
  IF of = {} THEN Append(lines, Line(key, n))
  ELSE [lines EXCEPT ![Min(of)] = Line(key, n)]

\* save_binfile(): written bytes of text over the file.
Over(old, text) == text \o SubSeq(old, Len(text) + 1, Len(old))

-----------------------------------------------------------------------------
\* What is on the card before the first start: no file, or one of the user's, who
\* may have left out the last NL.
Cards == {<<>>} \union {Text(f) : f \in Files} \union {Front(Text(f)) : f \in Files \ {<<>>}}

Init ==
  /\ file \in Cards
  /\ options = Parsed(file)
  /\ printed = {}

\* config_load() at a start: an empty or missing file is created, and then not
\* read.
ConfigLoad ==
  IF file = <<>>
  THEN /\ options' = [k \in Keys |-> DefaultOption]
       /\ file' = Text(DefaultFile)
       /\ printed' = Keys
  ELSE options' = Parsed(file) /\ printed' = {} /\ UNCHANGED file

\* A changed parameter of the Config window: applied, then saved.
ConfigSetValue(key, n) ==
  /\ n # options[key] /\ Len(file) <= MaxCells
  /\ options' = [options EXCEPT ![key] = n]
  /\ file' = Over(file, Text(SetInLines(Lines(file), key, n)))
  /\ printed' = printed \ {key}

Next == ConfigLoad \/ \E key \in Keys, n \in Values : ConfigSetValue(key, n)

Spec == Init /\ [][Next]_vars

-----------------------------------------------------------------------------
(* What the Config window set is in force after the next start, for every key, *)
(* and so is what it did not touch: the file on the card always reads back as  *)
(* the options in use, in spite of the rest of a longer text behind the last   *)
(* line.  Only the misprinted default differs until the start after the first. *)
SettingsLast ==
  file # <<>> =>
    LET parsed == Parsed(file) IN
    \A k \in Keys \ (printed \cap Misprinted) : parsed[k] = options[k]

\* The cells of the shortest line of an option
Shortest == 2 + DefaultOption

\* Lines that no option takes a value from, nor gives way to one
Quiet(lines) == \A i \in DOMAIN lines : KeyOf(lines[i]) \notin Keys
HarmlessEnd(text) ==
  \A i \in 1..Len(text) :
    Len(text) - i < Shortest => Quiet(Lines(SubSeq(text, i, Len(text))))

\* What the keys, the values and the user's files must be for this: no key is given
\* twice, and a change shortens no line by more than the end of the file can do without.
OneLineEach(lines) ==
  \A i, j \in DOMAIN lines :
    KeyOf(lines[i]) \in Keys /\ KeyOf(lines[i]) = KeyOf(lines[j]) => i = j
ShrinksLittle(lines) ==
  \A i \in DOMAIN lines, n \in Values :
    KeyOf(lines[i]) \in Keys => Len(lines[i]) <= Len(Line(KeyOf(lines[i]), n)) + Shortest
Marks == Keys \union {Eq, Digit, "#"} \union UNION {ToSet(l) : l \in UNION {ToSet(f) : f \in Files}}
SettingsFit ==
  /\ IsFiniteSet(Keys) /\ Keys \intersect {NL, Eq, Digit, "#"} = {}
  /\ Values \subseteq Nat \ {0} /\ \A m, n \in Values : m <= n + Shortest
  /\ NL \notin Marks
  /\ \A f \in Files : f \in Seq(Seq(Marks)) /\ OneLineEach(f) /\ ShrinksLittle(f)
  /\ \A text \in Cards : HarmlessEnd(text)

TypeOK ==
  /\ options \in [Keys -> Values \union {DefaultPrinted(k) : k \in Keys}]
  /\ printed \subseteq Keys

=============================================================================
