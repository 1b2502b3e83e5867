------------------------------ MODULE IniFile -------------------------------
(***************************************************************************)
(* ini_file: a stream is read line by line into a map of sections, each a  *)
(* map of parameters, and a map is written as lines, with quotation marks  *)
(* around a value that needs them.  A line is what its first characters    *)
(* make it; only what follows the = of a parameter is looked at character  *)
(* by character.                                                           *)
(***************************************************************************)
EXTENDS Integers, Sequences, FiniteSets, TLC, Folds

CONSTANTS
  Names,       \* of sections and parameters
  Characters,  \* of values: "x", " ", "'", "\"", "\\"
  MaxLines,    \* bound on the lines of a file
  MaxLength    \* bound on the length of a value

Values == UNION {[1 .. n -> Characters] : n \in 0 .. MaxLength}
NoSection == [name |-> "", kept |-> FALSE]

VARIABLES
  lines,         \* the lines read so far, a failing one left out
  parse,         \* "reading", "read" or the exception thrown
  sec,           \* the section that parameters go to, and whether the map has it
  comment,       \* lines of comment that wait for what they are about
  _section_map,  \* name -> [comment, params: name -> [value, comment]]
  written        \* whether a map has been written, which one, and its lines

iniVars == <<lines, parse, sec, comment, _section_map, written>>

IniInit ==
  /\ lines = <<>> /\ parse = "reading" /\ sec = NoSection /\ comment = 0
  /\ _section_map = <<>>
  /\ written = [done |-> FALSE, map |-> <<>>, file |-> <<>>]

-----------------------------------------------------------------------------
(* Values.                                                                   *)

Space == " "
Quotes == {"'", "\""}
Backslash == "\\"
NoMark == "no_mark"  \* the character 0
\* The loops over a line's characters take a character 0 for its end: values
\* with one are left out, and so are values with the end of a line.
ASSUME IniAssumption == NoMark \notin Characters
At(text, p) == IF p \in 1 .. Len(text) THEN text[p] ELSE NoMark

Spaces(text) == {p \in 1 .. Len(text) : \A q \in 1 .. p : text[q] = Space}
LeadingSpaces(text) == Cardinality(Spaces(text))
TrimmedLeft(text) == SubSeq(text, LeadingSpaces(text) + 1, Len(text))
Trimmed(text) ==
  LET t == TrimmedLeft(text)
      ends == {p \in 1 .. Len(t) : t[p] # Space}
  IN  SubSeq(t, 1, IF ends = {} THEN 0 ELSE CHOOSE p \in ends : \A q \in ends : q <= p)

\* Where the quotation that starts at p ends: an escaped mark does not end it.
EndOfQuotation(text, quote, start) ==
  LET end[p \in 1 .. Len(text) + 2] ==
        IF At(text, p) \in {quote, NoMark} THEN p
        ELSE end[IF At(text, p) = Backslash /\ At(text, p + 1) = quote THEN p + 2 ELSE p + 1]
  IN  end[start]

Quoted(text) == At(TrimmedLeft(text), 1) \in Quotes
ReadQuoted(t) ==
  LET end == EndOfQuotation(t, t[1], 2) IN
    [ok |-> At(t, end) = t[1], value |-> SubSeq(t, 2, end - 1)]

\* The value after the =: what is quoted, backslashes included, or what is left
\* between spaces.
ReadValue(text) ==
  IF Quoted(text) THEN ReadQuoted(TrimmedLeft(text)) ELSE [ok |-> TRUE, value |-> Trimmed(text)]

\* The other mark than the value's first; NoMark when it has none.
QuoteFor(value) ==
  LET marks == {p \in 1 .. Len(value) : value[p] \in Quotes}
  IN  IF marks = {} THEN NoMark
      ELSE CHOOSE q \in Quotes : q # value[CHOOSE p \in marks : \A r \in marks : p <= r]

Escaped(value, quote) ==
  LET text[n \in 0 .. Len(value)] ==
        IF n = 0 THEN <<>>
        ELSE text[n - 1] \o IF value[n] = quote THEN <<Backslash, quote>> ELSE <<value[n]>>
  IN  text[Len(value)]

\* mutant: a value is quoted only where a quotation mark would be taken for one
NeedsQuotationAtMarks(value) == At(value, 1) \in Quotes
NeedsQuotation(value) ==
  At(value, 1) \in Quotes \cup {Space} \/ At(value, Len(value)) = Space

WriteValue(value) ==
  IF NeedsQuotation(value)
  THEN <<QuoteFor(value)>> \o Escaped(value, QuoteFor(value)) \o <<QuoteFor(value)>>
  ELSE value

-----------------------------------------------------------------------------
(* Lines.                                                                    *)

Header(name) == [is |-> "section", name |-> name]
Assignment(name, text) == [is |-> "param", name |-> name, text |-> text]
Line(kind) == [is |-> kind]

\* What files hold: also a section without ] at its end or a name before it, a
\* name that starts with _, a parameter without =, like one that is all spaces,
\* and a line that is all name, which is searched for its end behind the line.
Texts == {<<"x">>, <<"'", " ", "'">>, <<"'">>}
GivenLines ==
  {Line(kind) : kind \in {"comment", "bad_section", "bad_name", "no_value", "all_name"}}
  \cup {Header(name) : name \in Names} \cup {Assignment(name, text) : name \in Names, text \in Texts}

Reads(line) == lines' = Append(lines, line) /\ UNCHANGED <<parse, written>>
Throws(exception) == parse' = exception /\ UNCHANGED <<lines, sec, comment, _section_map, written>>

ReadComment ==
  /\ Reads(Line("comment"))
  /\ comment' = comment + 1
  /\ UNCHANGED <<sec, _section_map>>

\* mutant: a section replaces one of its name
InsertReplaces(map, name, item) == [n \in DOMAIN map \cup {name} |-> IF n = name THEN item ELSE map[n]]

\* insert of section_map and of param_map: what has the name already stays.
Insert(map, name, item) == [n \in DOMAIN map \cup {name} |-> IF n \in DOMAIN map THEN map[n] ELSE item]

\* The new section is the one that parameters go to, whether or not the map
\* has taken it.
ReadSection(name) ==
  /\ Reads(Header(name))
  /\ sec' = [name |-> name, kept |-> name \notin DOMAIN _section_map]
  /\ _section_map' = Insert(_section_map, name, [comment |-> comment, params |-> <<>>])
  /\ comment' = 0

ReadParam(name, text) ==
  /\ sec # NoSection
  /\ \/ ~ReadValue(text).ok /\ Throws("invalid_quotation")
     \/ /\ ReadValue(text).ok
        /\ Reads(Assignment(name, text))
        /\ LET par == [value |-> ReadValue(text).value, comment |-> comment] IN
             _section_map' = IF sec.kept THEN [_section_map EXCEPT ![sec.name].params = Insert(@, name, par)]
                             ELSE _section_map
        /\ comment' = 0
        /\ UNCHANGED sec

\* What is found behind the end of a line that is all name is never taken for
\* a value, since the line has no such part.
NoValue(line) ==
  /\ line.is \in {"param", "no_value", "all_name"}
  /\ \/ sec = NoSection /\ Throws("param_without_section")
     \/ sec # NoSection /\ line.is # "param" /\ Throws("invalid_parameter")
     \/ sec # NoSection /\ line.is = "all_name" /\ Throws("out_of_range")

ReadLine(line) ==
  \/ line.is = "comment" /\ ReadComment
  \/ line.is = "bad_section" /\ Throws("invalid_section_name")
  \/ line.is = "bad_name" /\ Throws("invalid_param_name")
  \/ line.is = "section" /\ ReadSection(line.name)
  \/ line.is = "param" /\ ReadParam(line.name, line.text)
  \/ NoValue(line)

EndOfFile == parse' = "read" /\ UNCHANGED <<lines, sec, comment, _section_map, written>>

ReadGiven ==
  /\ parse = "reading" /\ ~written.done
  /\ EndOfFile \/ (Len(lines) < MaxLines /\ \E line \in GivenLines : ReadLine(line))

-----------------------------------------------------------------------------
(* Writing a map, and reading what was written.                              *)

\* A comment's lines begin with ;, which for the reader is a parameter's name.
WriteComment(n) == IF n = 0 THEN <<>> ELSE <<Line("no_value")>>
\* The texts of a map's entries, one after the other, in the order of the map.
Joined(pieces) ==
  MapThenFoldSet(LAMBDA piece, file : file \o piece, <<>>, LAMBDA n : pieces[n],
                 LAMBDA names : CHOOSE n \in names : TRUE, DOMAIN pieces)
WriteParams(params) ==
  Joined([n \in DOMAIN params |->
            WriteComment(params[n].comment) \o <<Assignment(n, WriteValue(params[n].value))>>])
WriteSections(map) ==
  Joined([s \in DOMAIN map |->
            WriteComment(map[s].comment) \o <<Header(s)>> \o WriteParams(map[s].params)])

\* A map that was read, or one that the program made with operator[].
AName == CHOOSE name \in Names : TRUE
Made(value) ==
  [s \in {AName} |-> [comment |-> 0, params |-> [n \in {AName} |-> [value |-> value, comment |-> 0]]]]
WriteMap ==
  /\ ~written.done
  /\ \E map \in IF parse = "read" THEN {_section_map} ELSE {Made(value) : value \in Values} :
       /\ parse = "read" \/ (parse = "reading" /\ lines = <<>>)
       /\ written' = [done |-> TRUE, map |-> map, file |-> WriteSections(map)]
  /\ lines' = <<>> /\ parse' = "reading" /\ sec' = NoSection /\ comment' = 0
  /\ _section_map' = <<>>

ReadWritten ==
  /\ parse = "reading" /\ written.done
  /\ IF Len(lines) < Len(written.file) THEN ReadLine(written.file[Len(lines) + 1]) ELSE EndOfFile

IniNext == ReadGiven \/ WriteMap \/ ReadWritten

IniSpec == IniInit /\ [][IniNext]_iniVars

-----------------------------------------------------------------------------
(* Properties.                                                               *)

Is(k, kind, name) == lines[k].is = kind /\ lines[k].name = name
\* The first section line of that name, and the parameter lines that follow it
\* before another section begins.
FirstOf(ks) == {k \in ks : \A j \in ks : k <= j}
SectionLine(s) == FirstOf({k \in 1 .. Len(lines) : Is(k, "section", s)})
ParamLine(s, n) ==
  FirstOf({k \in 1 .. Len(lines) :
    /\ Is(k, "param", n)
    /\ \E j \in SectionLine(s) : j < k /\ \A i \in j + 1 .. k : lines[i].is # "section"})

\* Whatever the order of a file's lines, a parameter found in the map is the one
\* of the first line of its name in the first section of its name, and every
\* such line is found; so a file read up to an error has no half-read parameter,
\* and a section given twice loses what it says the second time.
OwnsFirst ==
  /\ \A s \in Names : s \in DOMAIN _section_map <=> SectionLine(s) # {}
  /\ \A s \in DOMAIN _section_map, n \in Names :
       LET params == _section_map[s].params IN
         /\ n \in DOMAIN params <=> ParamLine(s, n) # {}
         /\ \A k \in ParamLine(s, n) : params[n].value = ReadValue(lines[k].text).value

\* What is written reads back as it was, if nothing in it has a comment, and if
\* each value that is quoted, which is to keep its data, has marks of one kind
\* only and no backslash at its end; and only then.
OneKindOfMarks(value) == Cardinality({value[p] : p \in 1 .. Len(value)} \cap Quotes) = 1
Survives(value) ==
  \/ ~NeedsQuotation(value)
  \/ OneKindOfMarks(value) /\ At(value, Len(value)) # Backslash
FileSurvives ==
  written.done /\ parse # "reading" =>
    (parse = "read" /\ _section_map = written.map <=>
      \A s \in DOMAIN written.map :
        LET params == written.map[s].params IN
          /\ written.map[s].comment = 0
          /\ \A n \in DOMAIN params : params[n].comment = 0 /\ Survives(params[n].value))
=============================================================================
