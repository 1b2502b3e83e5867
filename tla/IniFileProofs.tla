--------------------------- MODULE IniFileProofs ----------------------------
(***************************************************************************)
(* Configuration files of any length: what a file's parameters become, and *)
(* for which maps and values what is written is what is read.              *)
(***************************************************************************)
EXTENDS IniFile, NumberLemmas, FiniteSetTheorems, SequenceTheorems, TLAPS

(***************************************************************************)
(* Configuration files.  What sec says is the last section line, and it is *)
(* kept if that is the first of its name; the map has what OwnsFirst says. *)
(***************************************************************************)
SectionLines(s) == {k \in 1 .. Len(lines) : Is(k, "section", s)}
\* The k-th line belongs to the section s.
Within(k, s) == \E j \in SectionLine(s) : j < k /\ \A i \in j + 1 .. k : lines[i].is # "section"
ParamLines(s, n) == {k \in 1 .. Len(lines) : Is(k, "param", n) /\ Within(k, s)}

LinesInv == Len(lines) \in Nat /\ lines = [k \in 1 .. Len(lines) |-> lines[k]]
LastSection(h) == lines[h].is = "section" /\ \A i \in h + 1 .. Len(lines) : lines[i].is # "section"
SecInv ==
  sec # NoSection => \E h \in 1 .. Len(lines) :
    LastSection(h) /\ lines[h].name = sec.name /\ (sec.kept <=> h \in SectionLine(sec.name))
ParamsRight(s, n) ==
  LET params == _section_map[s].params IN
    /\ n \in DOMAIN params <=> ParamLine(s, n) # {}
    /\ \A k \in ParamLine(s, n) : params[n].value = ReadValue(lines[k].text).value
SectionMapInv ==
  /\ \A s : s \in DOMAIN _section_map <=> SectionLine(s) # {}
  /\ \A s \in DOMAIN _section_map : "params" \in DOMAIN _section_map[s]
  /\ \A s \in DOMAIN _section_map : \A n : ParamsRight(s, n)
IniIInv == LinesInv /\ SecInv /\ SectionMapInv

LEMMA FirstOfGrows ==
  ASSUME NEW ks \in SUBSET Nat, NEW m \in Nat, \A k \in ks : k < m
  PROVE  /\ FirstOf(ks) = {} <=> ks = {}
         /\ FirstOf(ks \cup {m}) = IF ks = {} THEN {m} ELSE FirstOf(ks)
<1>1. ks # {} => FirstOf(ks) # {}
  <2>1. SUFFICES ASSUME ks # {} PROVE FirstOf(ks) # {}
    OBVIOUS
  <2>2. \E k \in ks : \A j \in ks : k <= j
    BY <2>1, LeastExists
  <2>. QED BY <2>2 DEF FirstOf
<1>2. FirstOf(ks) \subseteq ks /\ FirstOf({m}) = {m}
  BY DEF FirstOf
<1>3. ASSUME ks # {} PROVE FirstOf(ks \cup {m}) = FirstOf(ks)
  <2>1. PICK k \in ks : TRUE
    BY <1>3
  <2>2. m \notin FirstOf(ks \cup {m})
    BY <2>1 DEF FirstOf
  <2>3. ASSUME NEW n \in ks PROVE n \in FirstOf(ks \cup {m}) <=> n \in FirstOf(ks)
    <3>1. n \in Nat /\ n < m /\ n <= m
      OBVIOUS
    <3>. QED BY <3>1 DEF FirstOf
  <2>4. FirstOf(ks \cup {m}) \subseteq ks \cup {m} /\ FirstOf(ks) \subseteq ks
    BY DEF FirstOf
  <2>. QED BY <2>2, <2>3, <2>4
<1>. QED BY <1>1, <1>2, <1>3

LEMMA FirstOfSection ==
  ASSUME NEW s
  PROVE  SectionLine(s) = FirstOf(SectionLines(s)) /\ SectionLine(s) \subseteq SectionLines(s)
BY DEF SectionLine, SectionLines, FirstOf

LEMMA FirstOfParam ==
  ASSUME NEW s, NEW n
  PROVE  ParamLine(s, n) = FirstOf(ParamLines(s, n)) /\ ParamLine(s, n) \subseteq ParamLines(s, n)
BY DEF ParamLine, ParamLines, Within, FirstOf

\* One more line.
LEMMA OneMoreLine ==
  ASSUME LinesInv, NEW line, lines' = Append(lines, line)
  PROVE  /\ LinesInv' /\ Len(lines') = Len(lines) + 1
         /\ \A k \in 1 .. Len(lines) : lines'[k] = lines[k]
         /\ lines'[Len(lines) + 1] = line
<1>. DEFINE S == {lines[k] : k \in 1 .. Len(lines)} \cup {line}
<1>1. lines \in Seq(S) /\ line \in S
  <2>1. \A k \in 1 .. Len(lines) : lines[k] \in S
    OBVIOUS
  <2>2. line \in S
    OBVIOUS
  <2>. HIDE DEF S
  <2>. QED BY <2>1, <2>2 DEF LinesInv
<1>. HIDE DEF S
<1>2. lines' \in Seq(S)
  BY <1>1
<1>3. Len(lines) \in Nat
  BY DEF LinesInv
<1>4. Len(lines') = Len(lines) + 1 /\ lines'[Len(lines) + 1] = line /\ \A k \in 1 .. Len(lines) : lines'[k] = lines[k]
  BY <1>1
<1>5. Len(lines') \in Nat /\ lines' = [k \in 1 .. Len(lines') |-> lines'[k]]
  <2>1. Len(lines') \in Nat /\ lines' \in [1 .. Len(lines') -> S]
    BY <1>2, LenProperties
  <2>. QED BY <2>1
<1>. QED BY <1>4, <1>5 DEF LinesInv

LEMMA SectionsGrow ==
  ASSUME LinesInv, NEW line, lines' = Append(lines, line), NEW s
  PROVE  SectionLine(s)' = IF line.is = "section" /\ line.name = s /\ SectionLine(s) = {}
                           THEN {Len(lines) + 1} ELSE SectionLine(s)
<1>1. /\ Len(lines) \in Nat /\ Len(lines') = Len(lines) + 1 /\ lines'[Len(lines) + 1] = line
      /\ \A k \in 1 .. Len(lines) : lines'[k] = lines[k]
  BY OneMoreLine DEF LinesInv
<1>2. SectionLines(s)' = SectionLines(s) \cup IF line.is = "section" /\ line.name = s THEN {Len(lines) + 1} ELSE {}
  BY <1>1 DEF SectionLines, Is
<1>3. SectionLines(s) \in SUBSET Nat /\ \A k \in SectionLines(s) : k < Len(lines) + 1
  BY <1>1 DEF SectionLines
<1>4. SectionLine(s)' = FirstOf(SectionLines(s)')
  BY DEF SectionLine, SectionLines, FirstOf
<1>5. CASE line.is = "section" /\ line.name = s
  <2>1. SectionLines(s)' = SectionLines(s) \cup {Len(lines) + 1}
    BY <1>2, <1>5
  <2>2. /\ FirstOf(SectionLines(s)) = {} <=> SectionLines(s) = {}
        /\ FirstOf(SectionLines(s) \cup {Len(lines) + 1})
             = IF SectionLines(s) = {} THEN {Len(lines) + 1} ELSE FirstOf(SectionLines(s))
    <3>1. Len(lines) + 1 \in Nat
      BY <1>1
    <3>. QED BY <1>3, <3>1, FirstOfGrows
  <2>. QED BY <1>4, <1>5, <2>1, <2>2, FirstOfSection
<1>6. CASE ~(line.is = "section" /\ line.name = s)
  BY <1>2, <1>4, <1>6, FirstOfSection
<1>. QED BY <1>5, <1>6

\* A parameter line belongs to a section if no other one has begun since.
LEMMA ParamsGrow ==
  ASSUME LinesInv, NEW line, lines' = Append(lines, line), NEW s, NEW n
  PROVE  ParamLine(s, n)' =
           IF /\ line.is = "param" /\ line.name = n /\ ParamLine(s, n) = {}
              /\ \E j \in SectionLine(s) : \A i \in j + 1 .. Len(lines) : lines[i].is # "section"
           THEN {Len(lines) + 1} ELSE ParamLine(s, n)
<1>. PICK m \in Nat : m = Len(lines) + 1
  BY DEF LinesInv
<1>. DEFINE NewMap == /\ line.is = "param" /\ line.name = n
                   /\ \E j \in SectionLine(s) : \A i \in j + 1 .. Len(lines) : lines[i].is # "section"
<1>1. /\ Len(lines) \in Nat /\ Len(lines') = m /\ lines'[m] = line
      /\ \A k \in 1 .. Len(lines) : lines'[k] = lines[k]
  BY OneMoreLine DEF LinesInv
<1>2. SectionLine(s) \subseteq 1 .. Len(lines)
  BY FirstOfSection DEF SectionLines
<1>3. SectionLine(s)' = SectionLine(s) \/ (SectionLine(s)' = {m} /\ SectionLine(s) = {} /\ line.is = "section")
  BY SectionsGrow
<1>4. ASSUME NEW k \in 1 .. Len(lines) PROVE k \in ParamLines(s, n)' <=> k \in ParamLines(s, n)
  <2>1. k \in ParamLines(s, n)' <=> lines'[k].is = "param" /\ lines'[k].name = n /\ Within(k, s)'
    BY <1>1 DEF ParamLines, Is
  <2>2. k \in ParamLines(s, n) <=> lines[k].is = "param" /\ lines[k].name = n /\ Within(k, s)
    BY <1>1 DEF ParamLines, Is
  <2>3. ASSUME NEW j \in 1 .. Len(lines)
        PROVE  (\A i \in j + 1 .. k : lines'[i].is # "section") <=> (\A i \in j + 1 .. k : lines[i].is # "section")
    <3>1. \A i \in j + 1 .. k : i \in 1 .. Len(lines)
      BY <1>1
    <3>. QED BY <1>1, <3>1
  <2>4. ~(m < k)
    BY <1>1
  <2>5. Within(k, s)' <=> Within(k, s)
    <3>1. CASE SectionLine(s)' = SectionLine(s)
      BY <1>2, <2>3, <3>1 DEF Within
    <3>2. CASE SectionLine(s)' = {m} /\ SectionLine(s) = {}
      BY <2>4, <3>2 DEF Within
    <3>. QED BY <1>3, <3>1, <3>2
  <2>. QED BY <1>1, <2>1, <2>2, <2>5
<1>5. m \in ParamLines(s, n)' <=> NewMap
  <2>1. m \in ParamLines(s, n)' <=> line.is = "param" /\ line.name = n /\ Within(m, s)'
    BY <1>1 DEF ParamLines, Is
  <2>2. ASSUME line.is = "param", NEW j \in 1 .. Len(lines)
        PROVE  /\ j < m
               /\ (\A i \in j + 1 .. m : lines'[i].is # "section")
                    <=> (\A i \in j + 1 .. Len(lines) : lines[i].is # "section")
    <3>1. \A i \in j + 1 .. m : i = m \/ (i \in j + 1 .. Len(lines) /\ i \in 1 .. Len(lines))
      BY <1>1
    <3>2. \A i \in j + 1 .. Len(lines) : i \in j + 1 .. m /\ i \in 1 .. Len(lines)
      BY <1>1
    <3>3. line.is # "section" /\ j < m
      BY <1>1, <2>2
    <3>. QED BY <1>1, <3>1, <3>2, <3>3
  <2>3. line.is = "param" => SectionLine(s)' = SectionLine(s)
    BY <1>3
  <2>4. ASSUME line.is = "param"
        PROVE  Within(m, s)' <=> \E j \in SectionLine(s) : \A i \in j + 1 .. Len(lines) : lines[i].is # "section"
    <3>1. Within(m, s)' <=> \E j \in SectionLine(s)' : j < m /\ \A i \in j + 1 .. m : lines'[i].is # "section"
      BY DEF Within
    <3>. QED BY <1>2, <2>2, <2>3, <2>4 DEF Within
  <2>. QED BY <2>1, <2>4
<1>6. ParamLines(s, n)' = ParamLines(s, n) \cup IF NewMap THEN {m} ELSE {}
  <2>1. ParamLines(s, n)' \subseteq 1 .. m /\ ParamLines(s, n) \subseteq 1 .. Len(lines)
    BY <1>1 DEF ParamLines
  <2>2. 1 .. m = (1 .. Len(lines)) \cup {m} /\ m \notin 1 .. Len(lines)
    BY <1>1
  <2>. HIDE DEF NewMap
  <2>. QED BY <1>4, <1>5, <2>1, <2>2
<1>7. ParamLines(s, n) \in SUBSET Nat /\ m \in Nat /\ \A k \in ParamLines(s, n) : k < m
  BY <1>1 DEF ParamLines
<1>8. ParamLine(s, n)' = FirstOf(ParamLines(s, n)')
  BY DEF ParamLine, ParamLines, Within, FirstOf
<1>. HIDE DEF NewMap
<1>9. ParamLine(s, n)' = IF NewMap /\ ParamLine(s, n) = {} THEN {m} ELSE ParamLine(s, n)
  <2>1. CASE NewMap
    <3>1. ParamLines(s, n)' = ParamLines(s, n) \cup {m}
      BY <1>6, <2>1
    <3>2. /\ FirstOf(ParamLines(s, n)) = {} <=> ParamLines(s, n) = {}
          /\ FirstOf(ParamLines(s, n) \cup {m}) = IF ParamLines(s, n) = {} THEN {m} ELSE FirstOf(ParamLines(s, n))
      BY <1>7, FirstOfGrows
    <3>. QED BY <1>8, <2>1, <3>1, <3>2, FirstOfParam
  <2>2. CASE ~NewMap
    BY <1>6, <1>8, <2>2, FirstOfParam
  <2>. QED BY <2>1, <2>2
<1>. QED BY <1>9 DEF NewMap

LEMMA IniKept ==
  ASSUME IniIInv, UNCHANGED <<lines, sec, _section_map>>
  PROVE  IniIInv'
<1>1. LinesInv'
  BY DEF IniIInv, LinesInv
<1>2. \A s, n : SectionLine(s)' = SectionLine(s) /\ ParamLine(s, n)' = ParamLine(s, n)
  BY DEF SectionLine, ParamLine, Is
<1>3. SecInv'
  BY <1>2 DEF IniIInv, SecInv, LastSection
<1>4. SectionMapInv'
  BY <1>2 DEF IniIInv, SectionMapInv, ParamsRight
<1>. QED BY <1>1, <1>3, <1>4 DEF IniIInv

\* Lines that are no section leave the last one what it is.
LEMMA SecKept ==
  ASSUME IniIInv, NEW line, lines' = Append(lines, line), line.is # "section", sec' = sec
  PROVE  SecInv'
<1>1. /\ Len(lines) \in Nat /\ Len(lines') = Len(lines) + 1 /\ lines'[Len(lines) + 1] = line
      /\ \A k \in 1 .. Len(lines) : lines'[k] = lines[k]
  BY OneMoreLine DEF IniIInv, LinesInv
<1>2. \A s : SectionLine(s)' = SectionLine(s)
  BY SectionsGrow DEF IniIInv
<1>3. SUFFICES ASSUME sec # NoSection
               PROVE  \E h \in 1 .. Len(lines') :
                        LastSection(h)' /\ lines'[h].name = sec'.name /\ (sec'.kept <=> h \in SectionLine(sec.name))
  BY <1>2 DEF SecInv
<1>4. PICK h \in 1 .. Len(lines) :
        LastSection(h) /\ lines[h].name = sec.name /\ (sec.kept <=> h \in SectionLine(sec.name))
  BY <1>3 DEF IniIInv, SecInv
<1>5. ASSUME NEW i \in h + 1 .. Len(lines') PROVE lines'[i].is # "section"
  <2>1. i = Len(lines) + 1 \/ (i \in h + 1 .. Len(lines) /\ i \in 1 .. Len(lines))
    BY <1>1
  <2>. QED BY <1>1, <1>4, <2>1 DEF LastSection
<1>6. LastSection(h)'
  BY <1>1, <1>4, <1>5 DEF LastSection
<1>. QED BY <1>1, <1>4, <1>6

\* A parameter that has been found stays, as its line does.
LEMMA ParamsKept ==
  ASSUME IniIInv, NEW line, lines' = Append(lines, line), NEW s, NEW n, s \in DOMAIN _section_map,
         _section_map'[s] = _section_map[s], ParamLine(s, n)' = ParamLine(s, n)
  PROVE  ParamsRight(s, n)'
<1>1. \A k \in 1 .. Len(lines) : lines'[k] = lines[k]
  BY OneMoreLine DEF IniIInv
<1>2. ParamLine(s, n) \subseteq 1 .. Len(lines)
  BY FirstOfParam DEF ParamLines
<1>3. ParamsRight(s, n)
  BY DEF IniIInv, SectionMapInv
<1>. QED BY <1>1, <1>2, <1>3 DEF ParamsRight

LEMMA ReadCommentStep ==
  ASSUME IniIInv, ReadComment
  PROVE  IniIInv'
<1>. DEFINE line == Line("comment")
<1>1. lines' = Append(lines, line) /\ UNCHANGED <<sec, _section_map>>
  BY DEF ReadComment, Reads
<1>2. line.is = "comment"
  BY DEF Line
<1>. HIDE DEF line
<1>3. \A s, n : SectionLine(s)' = SectionLine(s) /\ ParamLine(s, n)' = ParamLine(s, n)
  BY <1>1, <1>2, SectionsGrow, ParamsGrow DEF IniIInv
<1>4. LinesInv' /\ SecInv'
  BY <1>1, <1>2, OneMoreLine, SecKept DEF IniIInv
<1>5. \A s \in DOMAIN _section_map : \A n : ParamsRight(s, n)'
  BY <1>1, <1>3, ParamsKept
<1>6. SectionMapInv'
  BY <1>1, <1>3, <1>5 DEF IniIInv, SectionMapInv
<1>. QED BY <1>4, <1>6 DEF IniIInv

LEMMA ReadSectionStep ==
  ASSUME IniIInv, NEW name, ReadSection(name)
  PROVE  IniIInv'
<1>. DEFINE line == Header(name)
            item == [comment |-> comment, params |-> <<>>]
<1>1. /\ lines' = Append(lines, line)
      /\ sec' = [name |-> name, kept |-> name \notin DOMAIN _section_map]
      /\ _section_map' = Insert(_section_map, name, item)
  BY DEF ReadSection, Reads
<1>2. line.is = "section" /\ line.name = name
  BY DEF Header
<1>3. "params" \in DOMAIN item /\ item.params = <<>>
  OBVIOUS
<1>. HIDE DEF line, item
<1>4. /\ Len(lines) \in Nat /\ Len(lines') = Len(lines) + 1 /\ lines'[Len(lines) + 1] = line /\ LinesInv'
  BY <1>1, OneMoreLine DEF IniIInv, LinesInv
<1>5. \A s, n : /\ SectionLine(s)' = IF s = name /\ SectionLine(s) = {} THEN {Len(lines) + 1} ELSE SectionLine(s)
                /\ ParamLine(s, n)' = ParamLine(s, n)
  BY <1>1, <1>2, SectionsGrow, ParamsGrow DEF IniIInv
<1>6. \A s : s \in DOMAIN _section_map <=> SectionLine(s) # {}
  BY DEF IniIInv, SectionMapInv
<1>7. /\ DOMAIN _section_map' = DOMAIN _section_map \cup {name}
      /\ \A s \in DOMAIN _section_map : _section_map'[s] = _section_map[s]
      /\ name \notin DOMAIN _section_map => _section_map'[name] = item
  BY <1>1 DEF Insert
<1>8. SecInv'
  <2>1. SectionLine(name) \subseteq 1 .. Len(lines)
    BY FirstOfSection DEF SectionLines
  <2>2. Len(lines) + 1 \in SectionLine(name)' <=> name \notin DOMAIN _section_map
    BY <1>4, <1>5, <1>6, <2>1
  <2>3. PICK h \in Nat : h = Len(lines) + 1
    BY <1>4
  <2>4. \A i \in h + 1 .. Len(lines') : lines'[i].is # "section"
    BY <1>4, <2>3
  <2>5. LastSection(h)'
    BY <1>2, <1>4, <2>3, <2>4 DEF LastSection
  <2>6. h \in 1 .. Len(lines') /\ lines'[h].name = name
    BY <1>2, <1>4, <2>3
  <2>7. sec'.name = name /\ (sec'.kept <=> h \in SectionLine(name)')
    BY <1>1, <2>2, <2>3
  <2>8. SectionLine(sec.name)' = SectionLine(name)'
    BY <2>7 DEF SectionLine
  <2>. QED BY <2>5, <2>6, <2>7, <2>8 DEF SecInv
<1>9. ASSUME NEW s \in DOMAIN _section_map', NEW n PROVE ParamsRight(s, n)'
  <2>1. CASE s \in DOMAIN _section_map
    BY <1>1, <1>5, <1>7, <2>1, ParamsKept
  <2>2. CASE s \notin DOMAIN _section_map
    <3>1. s = name /\ SectionLine(s) = {}
      BY <1>6, <1>7, <2>2
    <3>2. ParamLines(s, n) = {}
      BY <3>1 DEF ParamLines, Within
    <3>3. ParamLine(s, n)' = {}
      BY <1>5, <3>2, FirstOfParam
    <3>. QED BY <1>3, <1>7, <2>2, <3>1, <3>3 DEF ParamsRight
  <2>. QED BY <2>1, <2>2
<1>10. SectionMapInv'
  <2>1. \A s : s \in DOMAIN _section_map' <=> SectionLine(s)' # {}
    BY <1>5, <1>6, <1>7
  <2>2. \A s \in DOMAIN _section_map' : "params" \in DOMAIN _section_map'[s]
    BY <1>3, <1>7 DEF IniIInv, SectionMapInv
  <2>. QED BY <1>9, <2>1, <2>2 DEF SectionMapInv
<1>. QED BY <1>4, <1>8, <1>10 DEF IniIInv

LEMMA ReadParamStep ==
  ASSUME IniIInv, NEW name, NEW text, sec # NoSection, Reads(Assignment(name, text)), sec' = sec,
         _section_map' = LET par == [value |-> ReadValue(text).value, comment |-> comment] IN
           IF sec.kept THEN [_section_map EXCEPT ![sec.name].params = Insert(@, name, par)] ELSE _section_map
  PROVE  IniIInv'
<1>. DEFINE line == Assignment(name, text)
            par == [value |-> ReadValue(text).value, comment |-> comment]
<1>1. lines' = Append(lines, line)
  BY DEF Reads
<1>2. line.is = "param" /\ line.name = name /\ line.text = text /\ par.value = ReadValue(text).value
  BY DEF Assignment
<1>3. IF sec.kept THEN _section_map' = [_section_map EXCEPT ![sec.name].params = Insert(@, name, par)]
      ELSE _section_map' = _section_map
  OBVIOUS
<1>. HIDE DEF line, par
<1>4. /\ Len(lines) \in Nat /\ Len(lines') = Len(lines) + 1 /\ lines'[Len(lines) + 1] = line /\ LinesInv'
  BY <1>1, OneMoreLine DEF IniIInv, LinesInv
<1>5. SecInv'
  BY <1>1, <1>2, SecKept
<1>6. \A s : SectionLine(s)' = SectionLine(s)
  BY <1>1, <1>2, SectionsGrow DEF IniIInv
<1>7. PICK h \in 1 .. Len(lines) :
        LastSection(h) /\ lines[h].name = sec.name /\ (sec.kept <=> h \in SectionLine(sec.name))
  BY DEF IniIInv, SecInv
<1>8. ASSUME NEW s
      PROVE  (\E j \in SectionLine(s) : \A i \in j + 1 .. Len(lines) : lines[i].is # "section") <=> (sec.kept /\ s = sec.name)
  <2>1. ASSUME NEW j \in SectionLine(s), \A i \in j + 1 .. Len(lines) : lines[i].is # "section"
        PROVE  sec.kept /\ s = sec.name
    <3>1. j \in 1 .. Len(lines) /\ lines[j].is = "section" /\ lines[j].name = s
      BY FirstOfSection DEF SectionLines, Is
    <3>2. ~(h > j) /\ ~(j > h)
      BY <1>4, <1>7, <2>1, <3>1 DEF LastSection
    <3>3. j = h
      BY <1>4, <3>1, <3>2
    <3>. QED BY <1>7, <3>1, <3>3
  <2>. QED BY <1>7, <2>1 DEF LastSection
<1>9. \A s, n : ParamLine(s, n)' =
        IF sec.kept /\ s = sec.name /\ n = name /\ ParamLine(s, n) = {} THEN {Len(lines) + 1} ELSE ParamLine(s, n)
  BY <1>1, <1>2, <1>8, ParamsGrow DEF IniIInv
<1>10. CASE ~sec.kept
  <2>1. \A s \in DOMAIN _section_map : \A n : ParamsRight(s, n)'
    BY <1>1, <1>3, <1>9, <1>10, ParamsKept
  <2>2. SectionMapInv'
    BY <1>3, <1>6, <1>10, <2>1 DEF IniIInv, SectionMapInv
  <2>. QED BY <1>4, <1>5, <2>2 DEF IniIInv
<1>11. CASE sec.kept
  <2>. DEFINE own == sec.name
              params == _section_map[own].params
  <2>1. own \in DOMAIN _section_map
    BY <1>7, <1>11 DEF IniIInv, SectionMapInv
  <2>2. "params" \in DOMAIN _section_map[own]
    BY <2>1 DEF IniIInv, SectionMapInv
  <2>3. /\ DOMAIN _section_map' = DOMAIN _section_map
        /\ \A s \in DOMAIN _section_map \ {own} : _section_map'[s] = _section_map[s]
        /\ _section_map'[own] = [_section_map[own] EXCEPT !.params = Insert(params, name, par)]
    BY <1>3, <1>11, <2>1
  <2>4. _section_map'[own].params = Insert(params, name, par) /\ "params" \in DOMAIN _section_map'[own]
    BY <2>2, <2>3
  <2>5. /\ DOMAIN _section_map'[own].params = DOMAIN params \cup {name}
        /\ \A n \in DOMAIN params : _section_map'[own].params[n] = params[n]
        /\ name \notin DOMAIN params => _section_map'[own].params[name] = par
    BY <2>4 DEF Insert
  <2>6. ASSUME NEW s \in DOMAIN _section_map, NEW n PROVE ParamsRight(s, n)'
    <3>1. CASE s # own
      BY <1>1, <1>9, <2>3, <3>1, ParamsKept
    <3>2. CASE s = own
      <4>1. /\ n \in DOMAIN params <=> ParamLine(own, n) # {}
            /\ \A k \in ParamLine(own, n) : params[n].value = ReadValue(lines[k].text).value
        <5>1. ParamsRight(own, n)
          BY <2>1 DEF IniIInv, SectionMapInv
        <5>. QED BY <5>1 DEF ParamsRight
      <4>2. ParamLine(own, n) \subseteq 1 .. Len(lines) /\ \A k \in 1 .. Len(lines) : lines'[k] = lines[k]
        BY <1>1, FirstOfParam, OneMoreLine DEF IniIInv, ParamLines
      <4>3. CASE n = name /\ ParamLine(own, n) = {}
        <5>1. ParamLine(own, n)' = {Len(lines) + 1}
          BY <1>9, <1>11, <4>3
        <5>. QED BY <1>2, <1>4, <2>5, <3>2, <4>1, <4>3, <5>1 DEF ParamsRight
      <4>4. CASE ~(n = name /\ ParamLine(own, n) = {})
        <5>1. ParamLine(own, n)' = ParamLine(own, n)
          BY <1>9, <4>4
        <5>. QED BY <2>5, <3>2, <4>1, <4>2, <4>4, <5>1 DEF ParamsRight
      <4>. QED BY <4>3, <4>4
    <3>. QED BY <3>1, <3>2
  <2>7. SectionMapInv'
    <3>1. \A s \in DOMAIN _section_map' : "params" \in DOMAIN _section_map'[s]
      BY <2>3, <2>4 DEF IniIInv, SectionMapInv
    <3>. QED BY <1>6, <2>3, <2>6, <3>1 DEF IniIInv, SectionMapInv
  <2>. QED BY <1>4, <1>5, <2>7 DEF IniIInv
<1>. QED BY <1>10, <1>11

LEMMA ReadLineStep ==
  ASSUME IniIInv, NEW line, ReadLine(line)
  PROVE  IniIInv'
<1>1. ASSUME NEW exception, Throws(exception) PROVE IniIInv'
  BY <1>1, IniKept DEF Throws
<1>2. CASE line.is = "comment" /\ ReadComment
  BY <1>2, ReadCommentStep
<1>3. CASE line.is = "section" /\ ReadSection(line.name)
  BY <1>3, ReadSectionStep
<1>4. CASE line.is = "param" /\ ReadParam(line.name, line.text)
  <2>1. CASE Throws("invalid_quotation")
    BY <1>1, <2>1
  <2>2. CASE ~Throws("invalid_quotation")
    BY <1>4, <2>2, ReadParamStep DEF ReadParam
  <2>. QED BY <2>1, <2>2
<1>5. CASE NoValue(line)
  BY <1>1, <1>5 DEF NoValue
<1>. QED BY <1>1, <1>2, <1>3, <1>4, <1>5 DEF ReadLine

LEMMA IniEmpty ==
  ASSUME lines' = <<>>, sec' = NoSection, _section_map' = <<>>
  PROVE  IniIInv'
<1>1. \A s : SectionLine(s)' = {}
  BY DEF SectionLine, FirstOf
<1>. QED BY <1>1 DEF IniIInv, LinesInv, SecInv, SectionMapInv

LEMMA IniStepInv ==
  ASSUME IniIInv, [IniNext]_iniVars
  PROVE  IniIInv'
<1>1. CASE UNCHANGED iniVars
  BY <1>1, IniKept DEF iniVars
<1>2. CASE EndOfFile
  BY <1>2, IniKept DEF EndOfFile
<1>3. CASE WriteMap
  BY <1>3, IniEmpty DEF WriteMap
<1>4. CASE ReadGiven
  BY <1>2, <1>4, ReadLineStep DEF ReadGiven
<1>5. CASE ReadWritten
  BY <1>2, <1>5, ReadLineStep DEF ReadWritten
<1>. QED BY <1>1, <1>3, <1>4, <1>5 DEF IniNext

\* Nothing has been read.
LEMMA IniInitInv == IniInit => IniIInv
<1>1. SUFFICES ASSUME IniInit PROVE IniIInv
  OBVIOUS
<1>2. lines = <<>> /\ sec = NoSection /\ _section_map = <<>>
  BY <1>1 DEF IniInit
<1>3. \A s : SectionLine(s) = {}
  BY <1>2 DEF SectionLine, FirstOf
<1>. QED BY <1>2, <1>3 DEF IniIInv, LinesInv, SecInv, SectionMapInv

\* Whatever the order of a file's lines, a parameter in the map of ini_file is
\* the one of the first line of its name in the first section of its name, and
\* every such line is in the map; also of a file that was read up to an error.
THEOREM ParametersAreTheFirst == IniSpec => []OwnsFirst
<1>1. IniIInv => OwnsFirst
  BY DEF IniIInv, SectionMapInv, ParamsRight, OwnsFirst
<1>. QED BY <1>1, IniInitInv, IniStepInv, PTL DEF IniSpec

-----------------------------------------------------------------------------
(***************************************************************************)
(* Values.  What is written for a value is the value between two marks,    *)
(* with a backslash before each mark in it that is the same; what is read  *)
(* of it is all up to the first such mark without a backslash, so that the *)
(* backslashes stay, and one that ends the value hides the end.            *)
(***************************************************************************)
\* What is behind what in a sequence of two parts.
LEMMA BothParts ==
  ASSUME NEW S, NEW t \in Seq(S), NEW u \in Seq(S), NEW s, s = t \o u
  PROVE  /\ s \in Seq(S) /\ Len(s) = Len(t) + Len(u)
         /\ \A p \in 1 .. Len(t) : s[p] = t[p]
         /\ \A p \in 1 .. Len(u) : s[Len(t) + p] = u[p]
<1>1. /\ s \in Seq(S) /\ Len(s) = Len(t) + Len(u)
      /\ \A p \in 1 .. Len(t) + Len(u) : s[p] = IF p <= Len(t) THEN t[p] ELSE u[p - Len(t)]
  BY ConcatProperties
<1>2. Len(t) \in Nat /\ Len(u) \in Nat
  OBVIOUS
<1>3. \A p \in 1 .. Len(t) : s[p] = t[p]
  BY <1>1, <1>2
<1>4. ASSUME NEW p \in 1 .. Len(u) PROVE s[Len(t) + p] = u[p]
  <2>1. Len(t) + p \in 1 .. Len(t) + Len(u) /\ ~(Len(t) + p <= Len(t)) /\ (Len(t) + p) - Len(t) = p
    BY <1>2
  <2>. QED BY <1>1, <2>1
<1>. QED BY <1>1, <1>3, <1>4

\* The characters of a value, and of what is written for it.
ValueCharacters == Characters \cup {"x", Space, Backslash} \cup Quotes
TextCharacters == ValueCharacters \cup {NoMark}

\* The characters that are told apart, and no others.
LEMMA Marks ==
  /\ Backslash \notin Quotes /\ Space \notin Quotes /\ Space # Backslash
  /\ NoMark \notin ValueCharacters /\ {Space, Backslash} \cup Quotes \subseteq ValueCharacters
  /\ \E q, r : q # r /\ Quotes = {q, r}
<1>1. /\ Backslash \notin Quotes /\ Space \notin Quotes /\ Space # Backslash
  BY Zenon DEF Backslash, Quotes, Space
<1>2. NoMark \notin ValueCharacters
  BY Zenon, IniAssumption DEF Backslash, Quotes, Space, NoMark, ValueCharacters
<1>3. \E q, r : q # r /\ Quotes = {q, r}
  BY Zenon DEF Quotes
<1>. QED BY <1>1, <1>2, <1>3 DEF ValueCharacters

\* A recursive function has the value that its definition says.
LEMMA EscapedIs ==
  ASSUME NEW v, Len(v) \in Nat, NEW q
  PROVE  \E text :
           /\ text[0] = <<>>
           /\ \A n \in 1 .. Len(v) : text[n] = text[n - 1] \o IF v[n] = q THEN <<Backslash, q>> ELSE <<v[n]>>
           /\ Escaped(v, q) = text[Len(v)]
<1>. DEFINE Step(f, n) == IF n = 0 THEN <<>> ELSE f[n - 1] \o IF v[n] = q THEN <<Backslash, q>> ELSE <<v[n]>>
            text == CHOOSE f : f = [n \in 0 .. Len(v) |-> Step(f, n)]
            T == {n \in Nat : \E f : f = [m \in 0 .. n |-> Step(f, m)]}
<1>1. 0 \in T
  <2>. DEFINE f == [m \in 0 .. 0 |-> <<>>]
  <2>1. f = [m \in 0 .. 0 |-> Step(f, m)]
    OBVIOUS
  <2>. QED BY <2>1
<1>2. ASSUME NEW n \in T PROVE n + 1 \in T
  <2>1. PICK f : f = [m \in 0 .. n |-> Step(f, m)]
    OBVIOUS
  <2>. DEFINE g == [m \in 0 .. n + 1 |-> IF m \in 0 .. n THEN f[m] ELSE Step(f, n + 1)]
  <2>2. \A m \in 0 .. n : g[m] = f[m]
    OBVIOUS
  <2>3. \A m \in 0 .. n + 1 : g[m] = Step(f, m)
    <3>1. \A m \in 0 .. n : f[m] = Step(f, m)
      <4>. HIDE DEF Step
      <4>. QED BY <2>1
    <3>2. g[n + 1] = Step(f, n + 1)
      OBVIOUS
    <3>. HIDE DEF g, Step
    <3>. QED BY <2>2, <3>1, <3>2
  <2>4. \A m \in 0 .. n + 1 : Step(g, m) = Step(f, m)
    <3>. SUFFICES ASSUME NEW m \in 0 .. n + 1 PROVE Step(g, m) = Step(f, m)
      OBVIOUS
    <3>1. m # 0 => m - 1 \in 0 .. n /\ g[m - 1] = f[m - 1]
      BY <2>2
    <3>. HIDE DEF g
    <3>. QED BY <3>1
  <2>5. g = [m \in 0 .. n + 1 |-> Step(g, m)]
    <3>1. g = [m \in 0 .. n + 1 |-> g[m]]
      OBVIOUS
    <3>. HIDE DEF g, Step
    <3>. QED BY <2>3, <2>4, <3>1
  <2>. HIDE DEF g, Step
  <2>. QED BY <2>5
<1>3. T = Nat
  <2>. HIDE DEF T
  <2>1. T \in SUBSET Nat
    BY DEF T
  <2>. QED BY <1>1, <1>2, <2>1, Induction
<1>4. text = [n \in 0 .. Len(v) |-> Step(text, n)]
  <2>1. Len(v) \in T
    BY <1>3
  <2>. HIDE DEF Step
  <2>2. \E f : f = [n \in 0 .. Len(v) |-> Step(f, n)]
    BY <2>1
  <2>. QED BY <2>2, Zenon
<1>5. Escaped(v, q) = text[Len(v)]
  BY Zenon DEF Escaped
<1>6. \A n \in 0 .. Len(v) : text[n] = Step(text, n)
  <2>. HIDE DEF text, Step
  <2>. QED BY <1>4
<1>. HIDE DEF text
<1>7. text[0] = <<>>
  <2>1. 0 \in 0 .. Len(v)
    OBVIOUS
  <2>2. text[0] = Step(text, 0)
    BY <1>6, <2>1, Zenon
  <2>. QED BY <2>2, Zenon
<1>8. ASSUME NEW n \in 1 .. Len(v)
      PROVE  text[n] = text[n - 1] \o IF v[n] = q THEN <<Backslash, q>> ELSE <<v[n]>>
  <2>1. n \in 0 .. Len(v) /\ n # 0
    OBVIOUS
  <2>2. text[n] = Step(text, n)
    BY <1>6, <2>1
  <2>. QED BY <2>1, <2>2, Zenon
<1>. QED BY <1>5, <1>7, <1>8

\* Up to its first q, a value is written as it is; before that is a backslash.
LEMMA EscapedFrom ==
  ASSUME NEW v \in Seq(ValueCharacters), NEW q \in TextCharacters, NEW c \in 0 .. Len(v),
         \A i \in 1 .. c : v[i] # q, c < Len(v) => v[c + 1] = q
  PROVE  /\ Escaped(v, q) \in Seq(TextCharacters)
         /\ c = Len(v) => Escaped(v, q) = v
         /\ c < Len(v) => c + 1 \in 1 .. Len(Escaped(v, q)) /\ Escaped(v, q)[c + 1] = Backslash
<1>. DEFINE C == TextCharacters
<1>1. Len(v) \in Nat /\ v \in Seq(C) /\ Backslash \in C /\ q \in C /\ \A i \in 1 .. Len(v) : v[i] \in C
  BY SeqMonotonic, Marks DEF TextCharacters
<1>2. PICK text :
           /\ text[0] = <<>>
           /\ \A n \in 1 .. Len(v) : text[n] = text[n - 1] \o IF v[n] = q THEN <<Backslash, q>> ELSE <<v[n]>>
           /\ Escaped(v, q) = text[Len(v)]
  BY <1>1, EscapedIs
<1>. HIDE DEF C
<1>. DEFINE Fits(n) ==
       /\ text[n] \in Seq(C)
       /\ n <= c => Len(text[n]) = n /\ \A i \in 1 .. n : text[n][i] = v[i]
       /\ c < n => c + 1 \in 1 .. Len(text[n]) /\ text[n][c + 1] = Backslash
       T == {n \in Nat : n <= Len(v) => Fits(n)}
<1>3. 0 \in T
  <2>1. text[0] \in Seq(C) /\ Len(text[0]) = 0
    BY <1>2, EmptySeq
  <2>2. ~(c < 0)
    OBVIOUS
  <2>. QED BY <2>1, <2>2
<1>4. ASSUME NEW n \in T PROVE n + 1 \in T
  <2>. SUFFICES ASSUME n + 1 <= Len(v) PROVE Fits(n + 1)
    OBVIOUS
  <2>1. n \in Nat /\ n + 1 \in 1 .. Len(v) /\ (n + 1) - 1 = n /\ n <= Len(v)
    BY <1>1
  <2>2. Fits(n)
    BY <2>1
  <2>3. text[n + 1] = text[n] \o IF v[n + 1] = q THEN <<Backslash, q>> ELSE <<v[n + 1]>>
    BY <1>2, <2>1
  <2>4. PICK t : t = text[n]
    OBVIOUS
  <2>5. t \in Seq(C) /\ Len(t) \in Nat
    BY <2>2, <2>4
  <2>6. CASE v[n + 1] = q
    <3>1. text[n + 1] = t \o <<Backslash, q>> /\ <<Backslash, q>> \in Seq(C)
      BY <1>1, <2>3, <2>4, <2>6
    <3>2. /\ text[n + 1] \in Seq(C) /\ Len(text[n + 1]) = Len(t) + 2
          /\ \A i \in 1 .. Len(t) : text[n + 1][i] = t[i]
          /\ text[n + 1][Len(t) + 1] = Backslash
      BY <1>1, <2>5, <3>1
    <3>3. ~(n + 1 <= c)
      BY <2>1, <2>6
    <3>4. CASE n = c
      BY <2>1, <2>2, <2>4, <2>5, <3>2, <3>3, <3>4
    <3>5. CASE c < n
      <4>1. c + 1 \in 1 .. Len(t) /\ t[c + 1] = Backslash
        BY <2>2, <2>4, <3>5
      <4>2. text[n + 1][c + 1] = Backslash
        BY <3>2, <4>1
      <4>3. c + 1 \in 1 .. Len(text[n + 1])
        BY <2>5, <3>2, <4>1
      <4>. QED BY <3>2, <3>3, <4>2, <4>3
    <3>. QED BY <2>1, <3>3, <3>4, <3>5
  <2>7. CASE v[n + 1] # q
    <3>1. text[n + 1] = t \o <<v[n + 1]>> /\ <<v[n + 1]>> \in Seq(C)
      BY <1>1, <2>1, <2>3, <2>4, <2>7
    <3>2. /\ text[n + 1] \in Seq(C) /\ Len(text[n + 1]) = Len(t) + 1
          /\ \A i \in 1 .. Len(t) : text[n + 1][i] = t[i]
          /\ text[n + 1][Len(t) + 1] = v[n + 1]
      BY <1>1, <2>5, <3>1
    <3>3. CASE n + 1 <= c
      BY <2>1, <2>2, <2>4, <2>5, <3>2, <3>3
    <3>4. CASE c < n + 1
      <4>1. c < n
        BY <1>1, <2>1, <2>7, <3>4
      <4>. QED BY <2>1, <2>2, <2>4, <2>5, <3>2, <4>1
    <3>. QED BY <2>1, <3>3, <3>4
  <2>. QED BY <2>6, <2>7
<1>5. T = Nat
  <2>. HIDE DEF T
  <2>1. T \in SUBSET Nat
    BY DEF T
  <2>. QED BY <1>3, <1>4, <2>1, Induction
<1>6. Fits(Len(v))
  <2>1. Len(v) \in T
    BY <1>1, <1>5
  <2>. QED BY <1>1, <2>1
<1>. HIDE DEF T
<1>7. c = Len(v) => Escaped(v, q) = v
  BY <1>1, <1>2, <1>6, SeqEqual
<1>. QED BY <1>1, <1>2, <1>6, <1>7 DEF C

\* Where the search for the end of a quotation goes on from p.
Beyond(text, quote, p) == IF At(text, p) = Backslash /\ At(text, p + 1) = quote THEN p + 2 ELSE p + 1

\* The end of a quotation is its first mark that Beyond does not leap over.
LEMMA EndIs ==
  ASSUME NEW text, Len(text) \in Nat, NEW quote
  PROVE  \A p \in 1 .. Len(text) + 2 :
           /\ EndOfQuotation(text, quote, p) =
                IF At(text, p) \in {quote, NoMark} THEN p ELSE EndOfQuotation(text, quote, Beyond(text, quote, p))
           /\ EndOfQuotation(text, quote, p) \in p .. Len(text) + 2
<1>. DEFINE L == Len(text) + 2
            Stops(p) == At(text, p) \in {quote, NoMark}
            Following(p) == Beyond(text, quote, p)
            Step(f, p) == IF Stops(p) THEN p ELSE f[Following(p)]
            end == CHOOSE f : f = [p \in 1 .. L |-> Step(f, p)]
            T == {n \in Nat : n < L => \E f : f = [p \in L - n .. L |-> Step(f, p)]}
<1>1. L \in Nat /\ L >= 2
  OBVIOUS
<1>2. ASSUME NEW p \in 1 .. L, ~Stops(p) PROVE Following(p) \in p + 1 .. L
  BY <1>2 DEF At, Beyond
<1>3. Stops(L)
  BY DEF At
<1>4. EndOfQuotation(text, quote, 1) = end[1] /\ \A start : EndOfQuotation(text, quote, start) = end[start]
  BY Zenon DEF EndOfQuotation, Beyond
<1>. HIDE DEF L, Stops, Following
<1>5. 0 \in T
  <2>. DEFINE f == [p \in L - 0 .. L |-> p]
  <2>1. f = [p \in L - 0 .. L |-> Step(f, p)]
    BY <1>1, <1>3
  <2>. QED BY <2>1
<1>6. ASSUME NEW n \in T PROVE n + 1 \in T
  <2>. SUFFICES ASSUME n + 1 < L PROVE \E f : f = [p \in L - (n + 1) .. L |-> Step(f, p)]
    OBVIOUS
  <2>1. n < L
    BY <1>1
  <2>2. PICK f : f = [p \in L - n .. L |-> Step(f, p)]
    BY <2>1
  <2>. DEFINE m == L - (n + 1)
              g == [p \in m .. L |-> IF p \in L - n .. L THEN f[p] ELSE Step(f, m)]
  <2>3. m \in 1 .. L /\ L - n = m + 1 /\ m .. L = {m} \cup (L - n .. L) /\ m \notin L - n .. L
    BY <1>1, <2>1
  <2>. HIDE DEF m
  <2>4. \A p \in L - n .. L : g[p] = f[p]
    BY <2>3
  <2>5. \A p \in m .. L : g[p] = Step(f, p)
    <3>1. \A p \in L - n .. L : f[p] = Step(f, p)
      <4>. HIDE DEF Step
      <4>. QED BY <2>2
    <3>2. g[m] = Step(f, m)
      BY <2>3
    <3>. HIDE DEF g, Step
    <3>. QED BY <2>3, <2>4, <3>1, <3>2
  <2>6. \A p \in m .. L : Step(g, p) = Step(f, p)
    <3>. SUFFICES ASSUME NEW p \in m .. L, ~Stops(p) PROVE g[Following(p)] = f[Following(p)]
      OBVIOUS
    <3>1. Following(p) \in p + 1 .. L
      BY <1>1, <1>2, <2>3
    <3>2. Following(p) \in L - n .. L
      BY <1>1, <2>3, <3>1
    <3>. HIDE DEF g
    <3>. QED BY <2>4, <3>2
  <2>7. g = [p \in m .. L |-> Step(g, p)]
    <3>1. g = [p \in m .. L |-> g[p]]
      OBVIOUS
    <3>. HIDE DEF g, Step
    <3>. QED BY <2>5, <2>6, <3>1
  <2>. HIDE DEF g, Step
  <2>. QED BY <2>7 DEF m
<1>7. T = Nat
  <2>. HIDE DEF T
  <2>1. T \in SUBSET Nat
    BY DEF T
  <2>. QED BY <1>5, <1>6, <2>1, Induction
<1>8. end = [p \in 1 .. L |-> Step(end, p)]
  <2>1. L - 1 \in T /\ L - 1 < L /\ L - (L - 1) = 1
    <3>. HIDE DEF T
    <3>. QED BY <1>1, <1>7
  <2>. HIDE DEF Step
  <2>2. \E f : f = [p \in 1 .. L |-> Step(f, p)]
    BY <2>1
  <2>. QED BY <2>2, Zenon
<1>9. \A p \in 1 .. L : end[p] = Step(end, p)
  <2>. HIDE DEF end, Step
  <2>. QED BY <1>8
<1>. HIDE DEF end, T
<1>. DEFINE B == {n \in Nat : \A p \in 1 .. L : L - n <= p => end[p] \in p .. L}
<1>10. 0 \in B
  BY <1>1, <1>3, <1>9
<1>11. ASSUME NEW n \in B PROVE n + 1 \in B
  <2>. SUFFICES ASSUME NEW p \in 1 .. L, L - (n + 1) <= p PROVE end[p] \in p .. L
    OBVIOUS
  <2>1. CASE Stops(p)
    BY <1>1, <1>9, <2>1
  <2>2. CASE ~Stops(p)
    <3>1. Following(p) \in p + 1 .. L /\ end[p] = end[Following(p)]
      BY <1>2, <1>9, <2>2
    <3>2. Following(p) \in 1 .. L /\ L - n <= Following(p)
      BY <1>1, <3>1
    <3>3. end[Following(p)] \in Following(p) .. L
      BY <3>2
    <3>. QED BY <1>1, <3>1, <3>3
  <2>. QED BY <2>1, <2>2
<1>12. B = Nat
  <2>. HIDE DEF B
  <2>1. B \in SUBSET Nat
    BY DEF B
  <2>. QED BY <1>10, <1>11, <2>1, Induction
<1>13. \A p \in 1 .. L : end[p] \in p .. L
  <2>1. L \in B
    BY <1>1, <1>12
  <2>. QED BY <1>1, <2>1
<1>. QED BY <1>4, <1>9, <1>13 DEF L, Stops, Following

-----------------------------------------------------------------------------
\* A text that begins with no space is not trimmed on its left.
LEMMA NoSpaceBefore ==
  ASSUME NEW text \in Seq(TextCharacters), At(text, 1) # Space
  PROVE  TrimmedLeft(text) = text
<1>1. Spaces(text) = {}
  BY DEF Spaces, At
<1>2. LeadingSpaces(text) = 0
  BY <1>1, FS_EmptySet DEF LeadingSpaces
<1>3. SubSeq(text, 1, Len(text)) = text
  BY SubSeqFull
<1>. QED BY <1>2, <1>3 DEF TrimmedLeft

\* Nor is one that ends with no space on its right.
LEMMA NoSpaceAround ==
  ASSUME NEW text \in Seq(TextCharacters), At(text, 1) \notin Quotes \cup {Space}, At(text, Len(text)) # Space
  PROVE  ReadValue(text) = [ok |-> TRUE, value |-> text]
<1>1. TrimmedLeft(text) = text
  BY NoSpaceBefore
<1>2. ~Quoted(text)
  BY <1>1 DEF Quoted
<1>. DEFINE t == TrimmedLeft(text)
            ends == {p \in 1 .. Len(t) : t[p] # Space}
            last == CHOOSE p \in ends : \A q \in ends : q <= p
<1>3. Trimmed(text) = SubSeq(t, 1, IF ends = {} THEN 0 ELSE last)
  BY Zenon DEF Trimmed
<1>4. Len(text) \in Nat /\ SubSeq(text, 1, Len(text)) = text
  BY SubSeqFull
<1>5. ends \in SUBSET (1 .. Len(text)) /\ (Len(text) # 0 => Len(text) \in ends)
  BY <1>1, <1>4 DEF At
<1>6. t = text
  BY <1>1
<1>. HIDE DEF t, ends
<1>7. CASE Len(text) = 0
  <2>1. ends = {}
    BY <1>5, <1>7
  <2>. QED BY <1>2, <1>3, <1>4, <1>6, <1>7, <2>1 DEF ReadValue
<1>8. CASE Len(text) # 0
  <2>1. \A q \in ends : q \in Nat /\ q <= Len(text)
    BY <1>4, <1>5
  <2>2. last \in ends /\ \A q \in ends : q <= last
    BY <1>5, <1>8, <2>1, Zenon
  <2>. HIDE DEF last
  <2>3. last \in Nat /\ last <= Len(text) /\ Len(text) <= last
    BY <1>5, <1>8, <2>1, <2>2
  <2>4. last = Len(text)
    <3>1. \A m, n \in Nat : m <= n /\ n <= m => m = n
      OBVIOUS
    <3>. QED BY <1>4, <2>3, <3>1, Zenon
  <2>. QED BY <1>2, <1>3, <1>4, <1>5, <1>6, <1>8, <2>4 DEF ReadValue
<1>. QED BY <1>7, <1>8

\* What is read from quotation marks is what is between them.
LEMMA QuotedIs ==
  ASSUME NEW text \in Seq(TextCharacters), At(text, 1) \in Quotes
  PROVE  /\ EndOfQuotation(text, text[1], 2) \in 2 .. Len(text) + 2
         /\ ReadValue(text).ok <=> At(text, EndOfQuotation(text, text[1], 2)) = text[1]
         /\ ReadValue(text).value = SubSeq(text, 2, EndOfQuotation(text, text[1], 2) - 1)
<1>1. Len(text) \in Nat /\ NoMark \notin Quotes /\ Space \notin Quotes
  BY Marks
<1>2. Len(text) >= 1
  BY <1>1 DEF At
<1>3. TrimmedLeft(text) = text
  BY <1>1, NoSpaceBefore
<1>4. Quoted(text)
  BY <1>3 DEF Quoted
<1>5. EndOfQuotation(text, text[1], 2) \in 2 .. Len(text) + 2
  BY <1>1, EndIs
<1>. QED BY <1>1, <1>2, <1>3, <1>4, <1>5 DEF ReadValue, ReadQuoted

\* A text between two marks.
LEMMA FramedIs ==
  ASSUME NEW e \in Seq(TextCharacters), NEW q \in TextCharacters, NEW text, text = <<q>> \o e \o <<q>>
  PROVE  /\ text \in Seq(TextCharacters) /\ Len(text) = Len(e) + 2
         /\ text[1] = q /\ text[Len(e) + 2] = q
         /\ \A i \in 1 .. Len(e) : text[i + 1] = e[i]
<1>. DEFINE C == TextCharacters
            one == <<q>>
<1>. HIDE DEF C
<1>1. one \in Seq(C) /\ Len(one) = 1 /\ one[1] = q
  BY DEF C
<1>. HIDE DEF one
<1>2. Len(e) \in Nat /\ e \in Seq(C)
  BY DEF C
<1>3. PICK f : f = one \o e
  OBVIOUS
<1>4. /\ f \in Seq(C) /\ Len(f) = Len(e) + 1
      /\ f[1] = q
      /\ \A i \in 1 .. Len(e) : f[i + 1] = e[i]
  <2>1. /\ f \in Seq(C) /\ Len(f) = Len(one) + Len(e)
        /\ \A i \in 1 .. Len(one) : f[i] = one[i]
        /\ \A i \in 1 .. Len(e) : f[Len(one) + i] = e[i]
    <3>1. one \in Seq(C)
      BY <1>1
    <3>. QED BY <1>2, <1>3, <3>1, BothParts
  <2>2. \A i \in 1 .. Len(e) : Len(one) + i = i + 1
    BY <1>1
  <2>. QED BY <1>1, <1>2, <2>1, <2>2
<1>5. text = f \o one
  BY <1>3 DEF one
<1>6. /\ text \in Seq(C) /\ Len(text) = Len(f) + 1
      /\ \A i \in 1 .. Len(f) : text[i] = f[i]
      /\ text[Len(f) + 1] = q
  <2>1. /\ text \in Seq(C) /\ Len(text) = Len(f) + Len(one)
        /\ \A i \in 1 .. Len(f) : text[i] = f[i]
        /\ \A i \in 1 .. Len(one) : text[Len(f) + i] = one[i]
    <3>1. one \in Seq(C) /\ f \in Seq(C)
      BY <1>1, <1>4
    <3>2. PICK g : g = f \o one
      OBVIOUS
    <3>3. /\ g \in Seq(C) /\ Len(g) = Len(f) + Len(one)
          /\ \A i \in 1 .. Len(f) : g[i] = f[i]
          /\ \A i \in 1 .. Len(one) : g[Len(f) + i] = one[i]
      BY <3>1, <3>2, BothParts
    <3>4. text = g
      BY <1>5, <3>2, Zenon
    <3>. QED BY <3>3, <3>4, Zenon
  <2>2. text[Len(f) + 1] = one[1]
    BY <1>1, <2>1
  <2>. QED BY <1>1, <2>1, <2>2
<1>7. \A i \in 1 .. Len(e) : i + 1 \in 1 .. Len(f)
  BY <1>2, <1>4
<1>8. 1 \in 1 .. Len(f) /\ Len(e) + 2 = Len(f) + 1
  BY <1>2, <1>4
<1>. QED BY <1>4, <1>6, <1>7, <1>8 DEF C

MarksIn(v) == {p \in 1 .. Len(v) : v[p] \in Quotes}

\* A value with a mark is quoted with the other one than its first.
LEMMA QuoteForIs ==
  ASSUME NEW v \in Seq(ValueCharacters)
  PROVE  /\ MarksIn(v) = {} => QuoteFor(v) = NoMark
         /\ MarksIn(v) # {} => /\ QuoteFor(v) \in Quotes
                               /\ \E p \in MarksIn(v) : v[p] # QuoteFor(v)
<1>1. MarksIn(v) = {} => QuoteFor(v) = NoMark
  BY Zenon DEF MarksIn, QuoteFor
<1>2. ASSUME MarksIn(v) # {}
      PROVE  QuoteFor(v) \in Quotes /\ \E p \in MarksIn(v) : v[p] # QuoteFor(v)
  <2>. DEFINE marks == MarksIn(v)
              first == CHOOSE p \in marks : \A r \in marks : p <= r
  <2>1. marks \in SUBSET Nat
    BY DEF MarksIn
  <2>2. \E p \in marks : \A r \in marks : p <= r
    BY <1>2, <2>1, LeastExists
  <2>3. first \in marks
    BY <2>2, Zenon
  <2>4. QuoteFor(v) = CHOOSE q \in Quotes : q # v[first]
    BY <1>2, Zenon DEF MarksIn, QuoteFor
  <2>. HIDE DEF first
  <2>5. \E q \in Quotes : q # v[first]
    BY Marks
  <2>6. QuoteFor(v) \in Quotes /\ QuoteFor(v) # v[first]
    BY <2>4, <2>5, Zenon
  <2>. QED BY <2>3, <2>6
<1>. QED BY <1>1, <1>2

\* Of a value, the marks that it has.
LEMMA MarksOf ==
  ASSUME NEW v \in Seq(ValueCharacters), NEW q \in Quotes, NEW p \in MarksIn(v), v[p] # q
  PROVE  OneKindOfMarks(v) <=> \A i \in 1 .. Len(v) : v[i] # q
<1>. DEFINE kinds == {v[i] : i \in 1 .. Len(v)} \cap Quotes
<1>1. v[p] \in kinds /\ v[p] \in Quotes
  BY DEF MarksIn
<1>2. q \in kinds <=> \E i \in 1 .. Len(v) : v[i] = q
  OBVIOUS
<1>3. kinds = IF q \in kinds THEN {v[p], q} ELSE {v[p]}
  BY <1>1, Marks
<1>4. OneKindOfMarks(v) <=> Cardinality(kinds) = 1
  BY Zenon DEF OneKindOfMarks
<1>. HIDE DEF kinds
<1>5. IsFiniteSet({v[p]}) /\ Cardinality({v[p]}) = 1 /\ q \notin {v[p]}
  BY FS_Singleton
<1>6. Cardinality({v[p]} \cup {q}) = 1 + 1
  BY <1>5, FS_AddElement, Zenon
<1>7. {v[p]} \cup {q} = {v[p], q}
  OBVIOUS
<1>8. CASE q \in kinds
  <2>1. kinds = {v[p]} \cup {q}
    BY <1>3, <1>7, <1>8
  <2>2. Cardinality(kinds) = 1 + 1
    BY <1>6, <2>1, Zenon
  <2>3. Cardinality(kinds) # 1
    BY <2>2
  <2>. QED BY <1>2, <1>4, <1>8, <2>3, Zenon
<1>9. CASE q \notin kinds
  <2>1. kinds = {v[p]}
    BY <1>3, <1>9
  <2>. QED BY <1>2, <1>4, <1>5, <1>9, <2>1, Zenon
<1>. QED BY <1>8, <1>9

\* Between two marks that a value has not, it is found as it is unless its last
\* character is a backslash, which makes the mark behind it no end.
LEMMA BetweenMarks ==
  ASSUME NEW v \in Seq(ValueCharacters), NEW q \in Quotes, \A i \in 1 .. Len(v) : v[i] # q,
         NEW text \in Seq(TextCharacters), Len(text) = Len(v) + 2, text[1] = q, text[Len(v) + 2] = q,
         \A i \in 1 .. Len(v) : text[i + 1] = v[i]
  PROVE  ReadValue(text).ok /\ ReadValue(text).value = v <=> At(v, Len(v)) # Backslash
<1>1. v \in Seq(TextCharacters) /\ q \in TextCharacters /\ Len(v) \in Nat /\ q # Backslash /\ q # NoMark
  BY SeqMonotonic, Marks DEF TextCharacters
<1>2. /\ text \in Seq(TextCharacters) /\ Len(text) = Len(v) + 2
      /\ text[1] = q /\ text[Len(v) + 2] = q
      /\ \A i \in 1 .. Len(v) : text[i + 1] = v[i]
  OBVIOUS
<1>. DEFINE end(p) == EndOfQuotation(text, q, p)
            L == Len(v) + 2
<1>3. /\ ReadValue(text).ok <=> At(text, end(2)) = q
      /\ ReadValue(text).value = SubSeq(text, 2, end(2) - 1)
  <2>1. At(text, 1) = q
    BY <1>1, <1>2 DEF At
  <2>. QED BY <1>2, <2>1, QuotedIs, Zenon
<1>4. \A p \in 1 .. L + 2 : end(p) = IF At(text, p) \in {q, NoMark} THEN p ELSE end(Beyond(text, q, p))
  <2>1. Len(text) \in Nat /\ Len(text) + 2 = L + 2
    BY <1>1, <1>2
  <2>. SUFFICES ASSUME NEW p \in 1 .. L + 2
                PROVE  end(p) = IF At(text, p) \in {q, NoMark} THEN p ELSE end(Beyond(text, q, p))
    OBVIOUS
  <2>2. p \in 1 .. Len(text) + 2
    BY <2>1
  <2>3. EndOfQuotation(text, q, p) =
          IF At(text, p) \in {q, NoMark} THEN p ELSE EndOfQuotation(text, q, Beyond(text, q, p))
    BY <2>1, <2>2, EndIs
  <2>. QED BY <2>3, Zenon
<1>5. \A p \in 2 .. L - 1 : At(text, p) = v[p - 1] /\ At(text, p) \notin {q, NoMark}
  <2>. SUFFICES ASSUME NEW p \in 2 .. L - 1 PROVE At(text, p) = v[p - 1] /\ At(text, p) \notin {q, NoMark}
    OBVIOUS
  <2>1. p - 1 \in 1 .. Len(v) /\ (p - 1) + 1 = p /\ p \in 1 .. Len(text)
    BY <1>1, <1>2
  <2>2. At(text, p) = v[p - 1]
    BY <1>2, <2>1 DEF At
  <2>3. v[p - 1] \in ValueCharacters /\ v[p - 1] # q
    BY <2>1
  <2>. QED BY <2>2, <2>3, Marks
<1>6. At(text, L) = q /\ At(text, L + 1) = NoMark
  BY <1>1, <1>2 DEF At
<1>7. \A p \in 2 .. L - 1 : p + 1 \in 2 .. L - 1 \/ p + 1 = L
  BY <1>1
<1>8. \A p \in 2 .. L - 2 : end(p) = end(p + 1)
  <2>. SUFFICES ASSUME NEW p \in 2 .. L - 2 PROVE end(p) = end(p + 1)
    OBVIOUS
  <2>1. p \in 2 .. L - 1 /\ p + 1 \in 2 .. L - 1 /\ p \in 1 .. L + 2
    BY <1>1
  <2>2. At(text, p + 1) # q /\ At(text, p) \notin {q, NoMark}
    BY <1>5, <2>1
  <2>3. Beyond(text, q, p) = p + 1
    BY <2>2 DEF Beyond
  <2>. HIDE DEF L
  <2>. QED BY <1>4, <2>1, <2>2, <2>3
<1>9. end(L) = L /\ end(L + 1) = L + 1
  BY <1>1, <1>4, <1>6
<1>10. \A p \in 2 .. L - 1 : end(p) = end(L - 1)
  <2>. DEFINE K == {n \in Nat : \A p \in 2 .. L - 1 : L - 1 - n <= p => end(p) = end(L - 1)}
  <2>. HIDE DEF end
  <2>1. 0 \in K
    <3>1. \A p \in 2 .. L - 1 : L - 1 <= p => p = L - 1
      BY <1>1
    <3>. QED BY <1>1, <3>1
  <2>2. ASSUME NEW n \in K PROVE n + 1 \in K
    <3>. SUFFICES ASSUME NEW p \in 2 .. L - 1, L - 1 - (n + 1) <= p PROVE end(p) = end(L - 1)
      OBVIOUS
    <3>1. p = L - 1 \/ (p \in 2 .. L - 2 /\ p + 1 \in 2 .. L - 1 /\ L - 1 - n <= p + 1)
      BY <1>1
    <3>. QED BY <1>8, <3>1
  <2>3. K = Nat
    <3>. HIDE DEF K
    <3>1. K \in SUBSET Nat
      BY DEF K
    <3>. QED BY <2>1, <2>2, <3>1, Induction
  <2>4. L \in K
    BY <1>1, <2>3
  <2>. QED BY <1>1, <2>4
<1>11. CASE At(v, Len(v)) = Backslash
  <2>1. Len(v) >= 1 /\ v[Len(v)] = Backslash
    BY <1>1, <1>11, Marks DEF At
  <2>2. /\ 2 \in 2 .. L - 1 /\ L - 1 \in 2 .. L - 1 /\ L - 1 \in 1 .. L + 2
        /\ (L - 1) - 1 = Len(v) /\ (L - 1) + 1 = L /\ (L - 1) + 2 = L + 1
    BY <1>1, <2>1
  <2>3. At(text, L - 1) = Backslash /\ At(text, L - 1) \notin {q, NoMark}
    BY <1>5, <2>1, <2>2
  <2>4. Beyond(text, q, L - 1) = L + 1
    BY <1>6, <2>2, <2>3 DEF Beyond
  <2>. HIDE DEF L
  <2>5. end(L - 1) = L + 1
    BY <1>4, <1>9, <2>2, <2>3, <2>4
  <2>6. end(2) = L + 1
    BY <1>10, <2>2, <2>5
  <2>. HIDE DEF end
  <2>. QED BY <1>1, <1>3, <1>6, <1>11, <2>6, Zenon
<1>12. CASE At(v, Len(v)) # Backslash
  <2>1. end(2) = L
    <3>1. CASE Len(v) = 0
      BY <1>9, <3>1
    <3>2. CASE Len(v) # 0
      <4>1. 2 \in 2 .. L - 1 /\ L - 1 \in 2 .. L - 1 /\ L - 1 \in 1 .. L + 2 /\ (L - 1) - 1 = Len(v) /\ (L - 1) + 1 = L
        BY <1>1, <3>2
      <4>2. At(text, L - 1) # Backslash
        <5>1. At(v, Len(v)) = v[Len(v)]
          BY <1>1, <3>2 DEF At
        <5>. QED BY <1>5, <1>12, <4>1, <5>1
      <4>3. Beyond(text, q, L - 1) = L /\ At(text, L - 1) \notin {q, NoMark}
        BY <1>5, <4>1, <4>2 DEF Beyond
      <4>. HIDE DEF L
      <4>4. end(L - 1) = L
        BY <1>4, <1>9, <4>1, <4>3
      <4>. QED BY <1>10, <4>1, <4>4
    <3>. QED BY <3>1, <3>2
  <2>2. SubSeq(text, 2, L - 1) = v
    <3>1. SubSeq(text, 2, L - 1) \in Seq(TextCharacters) /\ Len(SubSeq(text, 2, L - 1)) = Len(v)
      BY <1>1, <1>2
    <3>2. \A i \in 1 .. Len(v) : SubSeq(text, 2, L - 1)[i] = v[i]
      BY <1>1, <1>2
    <3>. QED BY <1>1, <3>1, <3>2, SeqEqual
  <2>. HIDE DEF end, L
  <2>. QED BY <1>3, <1>6, <1>12, <2>1, <2>2, Zenon
<1>. QED BY <1>11, <1>12

\* A value that has the mark it is quoted with is read with the backslash that
\* was put before it.
LEMMA BackslashKept ==
  ASSUME NEW v \in Seq(ValueCharacters), NEW q \in Quotes, NEW i \in 1 .. Len(v), v[i] = q
  PROVE  LET text == <<q>> \o Escaped(v, q) \o <<q>> IN
           ReadValue(text).value # v
<1>1. Len(v) \in Nat /\ q \in TextCharacters /\ q # Backslash
  BY Marks DEF TextCharacters
<1>. DEFINE at == {p \in 1 .. Len(v) : v[p] = q}
<1>2. PICK p \in at : \A r \in at : p <= r
  <2>1. at \in SUBSET Nat /\ at # {}
    OBVIOUS
  <2>. HIDE DEF at
  <2>. QED BY <2>1, LeastExists
<1>3. PICK c \in Nat : c = p - 1
  OBVIOUS
<1>4. c \in 0 .. Len(v) /\ c < Len(v) /\ c + 1 = p /\ v[c + 1] = q /\ \A r \in 1 .. c : v[r] # q
  <2>1. p \in 1 .. Len(v) /\ v[p] = q
    OBVIOUS
  <2>2. ASSUME NEW r \in 1 .. c PROVE v[r] # q
    <3>1. r \in 1 .. Len(v) /\ ~(p <= r)
      BY <1>1, <1>3, <2>1
    <3>. QED BY <1>2, <3>1
  <2>. QED BY <1>1, <1>3, <2>1, <2>2
<1>5. PICK e : e = Escaped(v, q)
  OBVIOUS
<1>6. e \in Seq(TextCharacters) /\ c + 1 \in 1 .. Len(e) /\ e[c + 1] = Backslash
  BY <1>1, <1>4, <1>5, EscapedFrom
<1>7. PICK text : text = <<q>> \o e \o <<q>>
  OBVIOUS
<1>8. /\ text \in Seq(TextCharacters) /\ Len(text) = Len(e) + 2 /\ text[1] = q
      /\ \A r \in 1 .. Len(e) : text[r + 1] = e[r]
  BY <1>1, <1>6, <1>7, FramedIs
<1>9. At(text, 1) = q
  BY <1>6, <1>8 DEF At
<1>10. PICK end \in Int : ReadValue(text).value = SubSeq(text, 2, end - 1)
  <2>1. /\ EndOfQuotation(text, text[1], 2) \in 2 .. Len(text) + 2
        /\ ReadValue(text).value = SubSeq(text, 2, EndOfQuotation(text, text[1], 2) - 1)
    BY <1>8, <1>9, QuotedIs
  <2>2. EndOfQuotation(text, text[1], 2) \in Int
    BY <1>6, <1>8, <2>1
  <2>. QED BY <2>1, <2>2, Zenon
<1>11. ASSUME SubSeq(text, 2, end - 1) = v PROVE FALSE
  <2>1. SubSeq(text, 2, end - 1) = [r \in 1 .. (end - 1) - 2 + 1 |-> text[2 + r - 1]]
    BY <1>8
  <2>2. c + 1 \in DOMAIN v
    BY <1>1, <1>4
  <2>3. c + 1 \in 1 .. (end - 1) - 2 + 1 /\ v[c + 1] = text[2 + (c + 1) - 1]
    BY <1>11, <2>1, <2>2
  <2>4. 2 + (c + 1) - 1 = (c + 1) + 1
    OBVIOUS
  <2>5. v[c + 1] = Backslash
    BY <1>6, <1>8, <2>3, <2>4
  <2>. QED BY <1>1, <1>4, <2>5
<1>. QED BY <1>5, <1>7, <1>10, <1>11, Zenon

\* For every value: it is read as it was written if it needs no quotation, or
\* has marks of one kind only and no backslash at its end, and only then.
THEOREM ValueSurvives ==
  ASSUME NEW v \in Seq(ValueCharacters)
  PROVE  ReadValue(WriteValue(v)).ok /\ ReadValue(WriteValue(v)).value = v <=> Survives(v)
<1>1. Len(v) \in Nat /\ v \in Seq(TextCharacters) /\ NoMark \in TextCharacters /\ Quotes \subseteq TextCharacters
  BY SeqMonotonic, Marks DEF TextCharacters
<1>2. CASE ~NeedsQuotation(v)
  <2>1. WriteValue(v) = v /\ Survives(v)
    BY <1>2 DEF WriteValue, Survives
  <2>2. ReadValue(v) = [ok |-> TRUE, value |-> v]
    BY <1>1, <1>2, NoSpaceAround DEF NeedsQuotation
  <2>3. ReadValue(v).ok = TRUE /\ ReadValue(v).value = v
    BY <2>2
  <2>. QED BY <2>1, <2>3, Zenon
<1>3. CASE NeedsQuotation(v)
  <2>. DEFINE q == QuoteFor(v)
  <2>1. WriteValue(v) = <<q>> \o Escaped(v, q) \o <<q>>
    BY <1>3 DEF WriteValue
  <2>2. Survives(v) <=> OneKindOfMarks(v) /\ At(v, Len(v)) # Backslash
    BY <1>3 DEF Survives
  <2>3. CASE MarksIn(v) = {}
    <3>1. q = NoMark
      BY <2>3, QuoteForIs
    <3>2. \A i \in 1 .. Len(v) : v[i] # NoMark
      BY Marks
    <3>3. Escaped(v, NoMark) = v
      BY <1>1, <3>2, EscapedFrom
    <3>4. PICK text : text = <<NoMark>> \o v \o <<NoMark>>
      OBVIOUS
    <3>5. WriteValue(v) = text
      BY <2>1, <3>1, <3>3, <3>4, Zenon
    <3>6. /\ text \in Seq(TextCharacters) /\ Len(text) = Len(v) + 2
          /\ text[1] = NoMark /\ text[Len(v) + 2] = NoMark
      BY <1>1, <3>4, FramedIs
    <3>7. At(text, 1) = NoMark /\ At(text, Len(text)) = NoMark
      BY <1>1, <3>6 DEF At
    <3>8. ReadValue(text) = [ok |-> TRUE, value |-> text]
      BY <3>6, <3>7, NoSpaceAround, Marks
    <3>9. ReadValue(text).value # v
      <4>1. ReadValue(text).value = text /\ Len(text) # Len(v)
        BY <1>1, <3>6, <3>8
      <4>. QED BY <4>1
    <3>10. ~OneKindOfMarks(v)
      <4>1. {v[p] : p \in 1 .. Len(v)} \cap Quotes = {}
        BY <2>3 DEF MarksIn
      <4>2. Cardinality({}) # 1
        BY FS_EmptySet
      <4>. QED BY <4>1, <4>2, Zenon DEF OneKindOfMarks
    <3>. QED BY <2>2, <3>5, <3>9, <3>10, Zenon
  <2>4. CASE MarksIn(v) # {}
    <3>1. q \in Quotes /\ \E p \in MarksIn(v) : v[p] # q
      BY <2>4, QuoteForIs
    <3>2. PICK r : r = q
      OBVIOUS
    <3>3. r \in Quotes /\ (OneKindOfMarks(v) <=> \A i \in 1 .. Len(v) : v[i] # r)
      BY <3>1, <3>2, MarksOf
    <3>4. WriteValue(v) = <<r>> \o Escaped(v, r) \o <<r>>
      BY <2>1, <3>2, Zenon
    <3>5. CASE \A i \in 1 .. Len(v) : v[i] # r
      <4>1. Escaped(v, r) = v
        BY <1>1, <3>3, <3>5, EscapedFrom
      <4>2. PICK text : text = <<r>> \o v \o <<r>>
        OBVIOUS
      <4>3. /\ text \in Seq(TextCharacters) /\ Len(text) = Len(v) + 2
            /\ text[1] = r /\ text[Len(v) + 2] = r
            /\ \A i \in 1 .. Len(v) : text[i + 1] = v[i]
        BY <1>1, <3>3, <4>2, FramedIs
      <4>4. ReadValue(text).ok /\ ReadValue(text).value = v <=> At(v, Len(v)) # Backslash
        BY <3>3, <3>5, <4>3, BetweenMarks
      <4>5. WriteValue(v) = text
        BY <3>4, <4>1, <4>2, Zenon
      <4>. QED BY <2>2, <3>3, <3>5, <4>4, <4>5, Zenon
    <3>6. CASE \E i \in 1 .. Len(v) : v[i] = r
      <4>1. ReadValue(WriteValue(v)).value # v
        BY <3>3, <3>4, <3>6, BackslashKept, Zenon
      <4>. QED BY <2>2, <3>3, <3>6, <4>1, Zenon
    <3>. QED BY <3>5, <3>6
  <2>. QED BY <2>3, <2>4
<1>. QED BY <1>2, <1>3

\* What is read from a file's characters has no other ones.
LEMMA ReadValueType ==
  ASSUME NEW text \in Seq(ValueCharacters), ReadValue(text).ok
  PROVE  ReadValue(text).value \in Seq(ValueCharacters)
<1>1. Len(text) \in Nat
  OBVIOUS
<1>2. LeadingSpaces(text) \in Nat
  <2>1. IsFiniteSet(1 .. Len(text)) /\ Spaces(text) \in SUBSET (1 .. Len(text))
    BY <1>1, FS_Interval DEF Spaces
  <2>2. IsFiniteSet(Spaces(text))
    BY <2>1, FS_Subset
  <2>. QED BY <2>2, FS_CardinalityType DEF LeadingSpaces
<1>. DEFINE t == TrimmedLeft(text)
<1>3. t = TrimmedLeft(text)
  OBVIOUS
<1>. HIDE DEF t
<1>4. t \in Seq(ValueCharacters) /\ Len(t) \in Nat
  <2>1. \A i \in LeadingSpaces(text) + 1 .. Len(text) : text[i] \in ValueCharacters
    BY <1>1, <1>2
  <2>2. TrimmedLeft(text) \in Seq(ValueCharacters)
    BY <1>1, <1>2, <2>1, SubSeqProperties DEF TrimmedLeft
  <2>. QED BY <1>3, <2>2
<1>5. CASE Quoted(text)
  <2>. DEFINE end == EndOfQuotation(t, t[1], 2)
  <2>1. (ReadValue(text).ok <=> At(t, end) = t[1]) /\ ReadValue(text).value = SubSeq(t, 2, end - 1)
    BY <1>3, <1>5 DEF ReadValue, ReadQuoted
  <2>2. At(t, 1) \in Quotes
    BY <1>3, <1>5 DEF Quoted
  <2>3. t[1] # NoMark /\ Len(t) >= 1
    BY <1>4, <2>2, Marks DEF At
  <2>4. end \in 2 .. Len(t) + 2
    BY <1>4, <2>3, EndIs
  <2>. HIDE DEF end
  <2>5. end \in 1 .. Len(t)
    <3>1. At(t, end) = t[1]
      BY <2>1
    <3>. QED BY <2>3, <2>4, <3>1 DEF At
  <2>6. end - 1 \in Int /\ \A i \in 2 .. end - 1 : t[i] \in ValueCharacters
    BY <1>4, <2>5
  <2>. QED BY <2>1, <2>6, SubSeqProperties
<1>6. CASE ~Quoted(text)
  <2>. DEFINE ends == {p \in 1 .. Len(t) : t[p] # Space}
              last == IF ends = {} THEN 0 ELSE CHOOSE p \in ends : \A q \in ends : q <= p
  <2>1. ReadValue(text).value = SubSeq(t, 1, last)
    <3>1. Trimmed(text) = SubSeq(t, 1, last)
      BY Zenon DEF Trimmed, t
    <3>. HIDE DEF last
    <3>. QED BY <1>6, <3>1 DEF ReadValue
  <2>2. last \in 0 .. Len(t)
    <3>1. CASE ends = {}
      BY <1>4, <3>1
    <3>2. CASE ends # {}
      <4>. DEFINE K == {Len(t) - p : p \in ends}
      <4>1. K \in SUBSET Nat /\ K # {} /\ ends \in SUBSET (1 .. Len(t))
        BY <1>4, <3>2
      <4>2. PICK k \in K : \A j \in K : k <= j
        <5>. HIDE DEF K
        <5>. QED BY <4>1, LeastExists
      <4>3. PICK p \in ends : k = Len(t) - p
        OBVIOUS
      <4>4. ASSUME NEW q \in ends PROVE q <= p
        <5>1. k <= Len(t) - q /\ q \in Int /\ p \in Int
          <6>1. Len(t) - q \in K
            OBVIOUS
          <6>. HIDE DEF K
          <6>. QED BY <4>1, <4>2, <4>3, <6>1
        <5>. QED BY <1>4, <4>3, <5>1
      <4>. HIDE DEF ends, K
      <4>5. (CHOOSE p1 \in ends : \A q \in ends : q <= p1) \in ends
        BY <4>3, <4>4, Zenon
      <4>6. last \in ends
        BY <3>2, <4>5
      <4>. HIDE DEF last
      <4>. QED BY <1>4, <4>1, <4>6
    <3>. QED BY <3>1, <3>2
  <2>. HIDE DEF last
  <2>3. last \in Int /\ \A i \in 1 .. last : t[i] \in ValueCharacters
    BY <1>4, <2>2
  <2>. QED BY <2>1, <2>3, SubSeqProperties
<1>. QED BY <1>5, <1>6

-----------------------------------------------------------------------------
(***************************************************************************)
(* Files.  Joined lays the pieces of a file one behind the other, so that  *)
(* every line of the file is one of a piece and keeps what is before it    *)
(* there: a parameter follows the header of its section.                   *)
(***************************************************************************)
\* Joined puts the pieces one behind the other, each from its own offset on.
Laid(file, pieces, names, offset) ==
  /\ \A n \in names : offset[n] \in Nat /\ offset[n] + Len(pieces[n]) <= Len(file)
  /\ \A n \in names : \A i \in 1 .. Len(pieces[n]) : file[offset[n] + i] = pieces[n][i]
  /\ \A k \in 1 .. Len(file) : \E n \in names : \E i \in 1 .. Len(pieces[n]) : k = offset[n] + i
  /\ \A m, n \in names :
       m = n \/ offset[m] + Len(pieces[m]) <= offset[n] \/ offset[n] + Len(pieces[n]) <= offset[m]

\* What MapThenFoldSet comes to: the fold over the empty set is the empty
\* text, and over others that over all but a name, and the name's piece.
LEMMA JoinedFold ==
  ASSUME NEW pieces, IsFiniteSet(DOMAIN pieces)
  PROVE  \E file :
           /\ Joined(pieces) = file[DOMAIN pieces]
           /\ \A s \in SUBSET DOMAIN pieces :
                IF s = {} THEN file[s] = <<>>
                ELSE \E n \in s : file[s] = file[s \ {n}] \o pieces[n]
<1>. DEFINE D == DOMAIN pieces
            One(s) == CHOOSE n \in s : TRUE
            Step(f, s) == IF s = {} THEN <<>> ELSE f[s \ {One(s)}] \o pieces[One(s)]
            file == CHOOSE f : f = [s \in SUBSET D |-> Step(f, s)]
            Upto(n) == {s \in SUBSET D : Cardinality(s) <= n}
            T == {n \in Nat : \E f : f = [s \in Upto(n) |-> Step(f, s)]}
<1>1. Joined(pieces) = file[D]
  BY Zenon DEF Joined, MapThenFoldSet
<1>2. \A s \in SUBSET D : IsFiniteSet(s) /\ Cardinality(s) \in Nat
  BY FS_Subset, FS_CardinalityType
<1>3. \A s \in SUBSET D : s # {} => One(s) \in s
  BY Zenon
<1>. HIDE DEF One
<1>4. \A s \in SUBSET D : s # {} => s \ {One(s)} \in SUBSET D /\ Cardinality(s \ {One(s)}) = Cardinality(s) - 1
  BY <1>2, <1>3, FS_RemoveElement
<1>5. \A s \in SUBSET D : Cardinality(s) = 0 => s = {}
  BY <1>2, FS_EmptySet
<1>. HIDE DEF D
<1>6. 0 \in T
  <2>. DEFINE f == [s \in Upto(0) |-> <<>>]
  <2>1. \A s \in Upto(0) : s = {}
    BY <1>2, <1>5
  <2>. HIDE DEF Upto
  <2>2. f = [s \in Upto(0) |-> Step(f, s)]
    BY <2>1
  <2>. QED BY <2>2
<1>7. ASSUME NEW n \in T PROVE n + 1 \in T
  <2>1. PICK f : f = [s \in Upto(n) |-> Step(f, s)]
    OBVIOUS
  <2>. DEFINE g == [s \in Upto(n + 1) |-> IF s \in Upto(n) THEN f[s] ELSE Step(f, s)]
  <2>2. \A s \in Upto(n) : s \in Upto(n + 1)
    BY <1>2
  <2>3. \A s \in Upto(n + 1) : s # {} => s \ {One(s)} \in Upto(n)
    <3>. SUFFICES ASSUME NEW s \in Upto(n + 1), s # {} PROVE s \ {One(s)} \in Upto(n)
      OBVIOUS
    <3>1. n \in Nat /\ s \in SUBSET D /\ Cardinality(s) \in Nat /\ Cardinality(s) <= n + 1
      BY <1>2
    <3>2. s \ {One(s)} \in SUBSET D /\ Cardinality(s \ {One(s)}) = Cardinality(s) - 1
      BY <1>4, <3>1
    <3>3. Cardinality(s) - 1 <= n
      BY <3>1
    <3>. QED BY <3>2, <3>3
  <2>. HIDE DEF Upto
  <2>4. \A s \in Upto(n) : g[s] = f[s]
    BY <2>2
  <2>5. \A s \in Upto(n + 1) : g[s] = Step(f, s)
    <3>1. \A s \in Upto(n) : f[s] = Step(f, s)
      <4>. HIDE DEF Step
      <4>. QED BY <2>1
    <3>2. \A s \in Upto(n + 1) : g[s] = IF s \in Upto(n) THEN f[s] ELSE Step(f, s)
      BY Zenon
    <3>. HIDE DEF g, Step
    <3>. QED BY <3>1, <3>2
  <2>6. \A s \in Upto(n + 1) : Step(g, s) = Step(f, s)
    <3>. HIDE DEF g
    <3>. SUFFICES ASSUME NEW s \in Upto(n + 1) PROVE Step(g, s) = Step(f, s)
      BY Zenon
    <3>1. s # {} => g[s \ {One(s)}] = f[s \ {One(s)}]
      BY <2>3, <2>4, Zenon
    <3>. QED BY <3>1, Zenon
  <2>7. g = [s \in Upto(n + 1) |-> Step(g, s)]
    <3>1. g = [s \in Upto(n + 1) |-> g[s]]
      BY Zenon
    <3>. HIDE DEF g, Step
    <3>. QED BY <2>5, <2>6, <3>1
  <2>. HIDE DEF g, Step
  <2>. QED BY <2>7
<1>8. T = Nat
  <2>. HIDE DEF T
  <2>1. T \in SUBSET Nat
    BY DEF T
  <2>. QED BY <1>6, <1>7, <2>1, Induction
<1>9. file = [s \in SUBSET D |-> Step(file, s)]
  <2>1. Cardinality(D) \in T
    BY <1>2, <1>8
  <2>2. Upto(Cardinality(D)) = SUBSET D
    BY <1>2, FS_Subset DEF D
  <2>. HIDE DEF Step, Upto
  <2>3. \E f : f = [s \in SUBSET D |-> Step(f, s)]
    BY <2>1, <2>2
  <2>. QED BY <2>3, Zenon
<1>10. \A s \in SUBSET D : file[s] = Step(file, s)
  <2>. HIDE DEF file, Step
  <2>. QED BY <1>9
<1>. HIDE DEF file
<1>11. \A s \in SUBSET D : IF s = {} THEN file[s] = <<>> ELSE \E n \in s : file[s] = file[s \ {n}] \o pieces[n]
  <2>. SUFFICES ASSUME NEW s \in SUBSET D
                PROVE  IF s = {} THEN file[s] = <<>> ELSE \E n \in s : file[s] = file[s \ {n}] \o pieces[n]
    OBVIOUS
  <2>1. file[s] = Step(file, s)
    BY <1>10
  <2>. QED BY <1>3, <2>1, Zenon
<1>. QED BY <1>1, <1>11, Zenon DEF D

\* One more piece behind those that are laid.
LEMMA LaidBehind ==
  ASSUME NEW pieces, NEW L, NEW names, NEW file \in Seq(L), NEW offset, Laid(file, pieces, names, offset),
         NEW x, x \notin names, \A n \in names \cup {x} : pieces[n] \in Seq(L)
  PROVE  /\ file \o pieces[x] \in Seq(L)
         /\ \E off : Laid(file \o pieces[x], pieces, names \cup {x}, off)
<1>. DEFINE last == pieces[x]
            off == [n \in names \cup {x} |-> IF n = x THEN Len(file) ELSE offset[n]]
<1>1. last \in Seq(L) /\ Len(last) \in Nat /\ Len(file) \in Nat
  OBVIOUS
<1>2. PICK more : more = file \o last
  OBVIOUS
<1>3. /\ more \in Seq(L) /\ Len(more) = Len(file) + Len(last)
      /\ \A i \in 1 .. Len(file) : more[i] = file[i]
      /\ \A i \in 1 .. Len(last) : more[Len(file) + i] = last[i]
  <2>. HIDE DEF last
  <2>. QED BY <1>1, <1>2, BothParts
<1>4. off[x] = Len(file) /\ \A n \in names : off[n] = offset[n] /\ Len(pieces[n]) \in Nat
  OBVIOUS
<1>. HIDE DEF off
<1>5. \A n \in names : offset[n] \in Nat /\ offset[n] + Len(pieces[n]) <= Len(file)
  BY DEF Laid
<1>6. \A n \in names \cup {x} : off[n] \in Nat /\ off[n] + Len(pieces[n]) <= Len(more)
  <2>1. off[x] \in Nat /\ off[x] + Len(pieces[x]) <= Len(more)
    BY <1>1, <1>3, <1>4
  <2>2. ASSUME NEW n \in names PROVE off[n] \in Nat /\ off[n] + Len(pieces[n]) <= Len(more)
    <3>1. PICK o \in Nat, l \in Nat : o = offset[n] /\ l = Len(pieces[n]) /\ o + l <= Len(file)
      BY <1>4, <1>5
    <3>2. o + l <= Len(file) + Len(last)
      BY <1>1, <3>1
    <3>. QED BY <1>3, <1>4, <3>1, <3>2
  <2>. QED BY <2>1, <2>2
<1>7. \A n \in names \cup {x} : \A i \in 1 .. Len(pieces[n]) : more[off[n] + i] = pieces[n][i]
  <2>1. ASSUME NEW n \in names, NEW i \in 1 .. Len(pieces[n]) PROVE more[off[n] + i] = pieces[n][i]
    <3>1. off[n] = offset[n] /\ offset[n] \in Nat /\ Len(pieces[n]) \in Nat /\ offset[n] + Len(pieces[n]) <= Len(file)
      BY <1>4, <1>5
    <3>2. offset[n] + i \in 1 .. Len(file)
      <4>1. PICK o \in Nat, l \in Nat : o = offset[n] /\ l = Len(pieces[n]) /\ o + l <= Len(file) /\ i \in 1 .. l
        BY <3>1
      <4>2. o + i \in 1 .. Len(file)
        BY <1>1, <4>1
      <4>. QED BY <4>1, <4>2
    <3>3. more[offset[n] + i] = file[offset[n] + i]
      BY <1>3, <3>2
    <3>4. file[offset[n] + i] = pieces[n][i]
      BY DEF Laid
    <3>. QED BY <3>1, <3>3, <3>4
  <2>2. \A i \in 1 .. Len(last) : more[off[x] + i] = last[i]
    BY <1>3, <1>4
  <2>. QED BY <2>1, <2>2
<1>8. \A k \in 1 .. Len(more) : \E n \in names \cup {x} : \E i \in 1 .. Len(pieces[n]) : k = off[n] + i
  <2>. SUFFICES ASSUME NEW k \in 1 .. Len(more)
                PROVE  \E n \in names \cup {x} : \E i \in 1 .. Len(pieces[n]) : k = off[n] + i
    OBVIOUS
  <2>1. CASE k <= Len(file)
    <3>1. k \in 1 .. Len(file)
      BY <1>1, <2>1
    <3>2. PICK n \in names : \E i \in 1 .. Len(pieces[n]) : k = offset[n] + i
      BY <3>1 DEF Laid
    <3>. QED BY <1>4, <3>2
  <2>2. CASE ~(k <= Len(file))
    <3>1. k - Len(file) \in 1 .. Len(last) /\ k = Len(file) + (k - Len(file))
      BY <1>1, <1>3, <2>2
    <3>. QED BY <1>4, <3>1
  <2>. QED BY <2>1, <2>2
<1>9. \A m, n \in names \cup {x} :
        m = n \/ off[m] + Len(pieces[m]) <= off[n] \/ off[n] + Len(pieces[n]) <= off[m]
  <2>. SUFFICES ASSUME NEW m \in names \cup {x}, NEW n \in names \cup {x}, m # n
                PROVE  off[m] + Len(pieces[m]) <= off[n] \/ off[n] + Len(pieces[n]) <= off[m]
    OBVIOUS
  <2>1. CASE m = x
    BY <1>4, <1>5, <2>1
  <2>2. CASE n = x
    BY <1>4, <1>5, <2>2
  <2>3. CASE m # x /\ n # x
    <3>1. m \in names /\ n \in names
      BY <2>3
    <3>. QED BY <1>4, <3>1 DEF Laid
  <2>. QED BY <2>1, <2>2, <2>3
<1>10. Laid(more, pieces, names \cup {x}, off)
  BY <1>6, <1>7, <1>8, <1>9, Zenon DEF Laid
<1>. QED BY <1>2, <1>3, <1>10, Zenon

\* Every piece is in the text, and nothing else is.
LEMMA JoinedLaid ==
  ASSUME NEW pieces, IsFiniteSet(DOMAIN pieces), NEW L, \A n \in DOMAIN pieces : pieces[n] \in Seq(L)
  PROVE  Joined(pieces) \in Seq(L) /\ \E offset : Laid(Joined(pieces), pieces, DOMAIN pieces, offset)
<1>. DEFINE D == DOMAIN pieces
<1>1. PICK file : /\ Joined(pieces) = file[D]
                  /\ \A s \in SUBSET D :
                       IF s = {} THEN file[s] = <<>> ELSE \E n \in s : file[s] = file[s \ {n}] \o pieces[n]
  BY JoinedFold
<1>. HIDE DEF D
<1>2. \A s \in SUBSET D : IsFiniteSet(s) /\ Cardinality(s) \in Nat
  BY FS_Subset, FS_CardinalityType DEF D
<1>. DEFINE T == {n \in Nat : \A s \in SUBSET D : Cardinality(s) = n =>
                    file[s] \in Seq(L) /\ \E offset : Laid(file[s], pieces, s, offset)}
<1>3. 0 \in T
  <2>1. ASSUME NEW s \in SUBSET D, Cardinality(s) = 0
        PROVE  file[s] \in Seq(L) /\ Laid(file[s], pieces, s, <<>>)
    <3>1. s = {}
      BY <1>2, <2>1, FS_EmptySet
    <3>2. file[s] = <<>>
      BY <1>1, <3>1
    <3>3. file[s] \in Seq(L) /\ Len(file[s]) = 0
      BY <3>2
    <3>. QED BY <3>1, <3>3 DEF Laid
  <2>. QED BY <2>1
<1>4. ASSUME NEW n \in T PROVE n + 1 \in T
  <2>1. ASSUME NEW s \in SUBSET D, Cardinality(s) = n + 1
        PROVE  file[s] \in Seq(L) /\ \E offset : Laid(file[s], pieces, s, offset)
    <3>1. s # {}
      <4>1. n + 1 # 0
        OBVIOUS
      <4>. QED BY <2>1, <4>1, FS_EmptySet
    <3>2. PICK x \in s : file[s] = file[s \ {x}] \o pieces[x]
      BY <1>1, <3>1
    <3>. DEFINE r == s \ {x}
    <3>3. r \in SUBSET D /\ x \notin r /\ s = r \cup {x}
      OBVIOUS
    <3>4. Cardinality(r) = n
      <4>1. Cardinality(r) = Cardinality(s) - 1
        BY <1>2, FS_RemoveElement
      <4>. HIDE DEF r
      <4>. QED BY <2>1, <4>1
    <3>5. file[r] \in Seq(L) /\ \E offset : Laid(file[r], pieces, r, offset)
      <4>. HIDE DEF r
      <4>. QED BY <3>3, <3>4
    <3>6. file[s] = file[r] \o pieces[x]
      BY <3>2
    <3>. HIDE DEF r
    <3>7. PICK offset : Laid(file[r], pieces, r, offset)
      BY <3>5
    <3>8. \A m \in r \cup {x} : pieces[m] \in Seq(L)
      BY <3>3 DEF D
    <3>9. PICK part : part = file[r]
      OBVIOUS
    <3>10. part \in Seq(L) /\ Laid(part, pieces, r, offset) /\ x \notin r
      BY <3>3, <3>5, <3>7, <3>9
    <3>11. part \o pieces[x] \in Seq(L) /\ \E off : Laid(part \o pieces[x], pieces, r \cup {x}, off)
      BY <3>8, <3>10, LaidBehind, Zenon
    <3>. QED BY <3>3, <3>6, <3>9, <3>11, Zenon
  <2>. QED BY <2>1
<1>5. T = Nat
  <2>. HIDE DEF T
  <2>1. T \in SUBSET Nat
    BY DEF T
  <2>. QED BY <1>3, <1>4, <2>1, Induction
<1>6. D \in SUBSET D /\ Cardinality(D) \in T
  <2>1. Cardinality(D) \in Nat
    BY <1>2
  <2>. HIDE DEF T
  <2>. QED BY <1>5, <2>1
<1>7. file[D] \in Seq(L) /\ \E offset : Laid(file[D], pieces, D, offset)
  BY <1>6
<1>. QED BY <1>1, <1>7 DEF D

-----------------------------------------------------------------------------
\* The lines of a written map.
LinesOf(params) ==
  {Line("no_value")} \cup {Assignment(n, WriteValue(params[n].value)) : n \in DOMAIN params}
ParamsCommented(params) == \E n \in DOMAIN params : params[n].comment # 0

\* What a line is made from can be read off it.
LEMMA KindsOfLines ==
  /\ Line("no_value").is = "no_value"
  /\ \A s : Header(s).is = "section" /\ Header(s).name = s
  /\ \A n, text : Assignment(n, text).is = "param" /\ Assignment(n, text).name = n /\ Assignment(n, text).text = text
BY DEF Line, Header, Assignment

\* A line and the comment before it.
LEMMA CommentedLine ==
  ASSUME NEW c, NEW L, NEW line \in L, Line("no_value") \in L
  PROVE  LET piece == WriteComment(c) \o <<line>> IN
           /\ piece \in Seq(L) /\ Len(piece) = IF c = 0 THEN 1 ELSE 2
           /\ piece[Len(piece)] = line
           /\ c # 0 => piece[1] = Line("no_value")
<1>1. PICK none \in L : none = Line("no_value")
  OBVIOUS
<1>2. WriteComment(c) = IF c = 0 THEN <<>> ELSE <<none>>
  BY <1>1, Zenon DEF WriteComment
<1>3. CASE c = 0
  <2>1. <<>> \o <<line>> = <<line>>
    BY ConcatEmptySeq
  <2>2. WriteComment(c) \o <<line>> = <<line>>
    BY <1>2, <1>3, <2>1, Zenon
  <2>3. <<line>> \in Seq(L) /\ Len(<<line>>) = 1 /\ <<line>>[1] = line
    OBVIOUS
  <2>. QED BY <1>3, <2>2, <2>3
<1>4. CASE c # 0
  <2>. DEFINE t == <<none>>
              u == <<line>>
  <2>1. WriteComment(c) \o <<line>> = t \o u
    BY <1>2, <1>4, Zenon
  <2>2. t \in Seq(L) /\ u \in Seq(L) /\ Len(t) = 1 /\ Len(u) = 1 /\ t[1] = none /\ u[1] = line
    BY <1>1
  <2>. HIDE DEF t, u
  <2>3. PICK both : both = t \o u
    OBVIOUS
  <2>4. /\ both \in Seq(L) /\ Len(both) = Len(t) + Len(u)
        /\ \A p \in 1 .. Len(t) : both[p] = t[p]
        /\ \A p \in 1 .. Len(u) : both[Len(t) + p] = u[p]
    <3>1. t \in Seq(L) /\ u \in Seq(L)
      BY <2>2
    <3>. QED BY <2>3, <3>1, BothParts
  <2>5. both \in Seq(L) /\ Len(both) = 2 /\ both[1] = none /\ both[2] = line
    BY <2>2, <2>4
  <2>. QED BY <1>1, <1>4, <2>1, <2>3, <2>5
<1>. QED BY <1>3, <1>4

\* A section's parameters as they are written: each is there, and a line that
\* the reader takes for no parameter if and only if one has a comment.
LEMMA WriteParamsIs ==
  ASSUME NEW params, IsFiniteSet(DOMAIN params)
  PROVE  /\ WriteParams(params) \in Seq(LinesOf(params))
         /\ \A n \in DOMAIN params : \E k \in 1 .. Len(WriteParams(params)) :
              WriteParams(params)[k] = Assignment(n, WriteValue(params[n].value))
         /\ (\E k \in 1 .. Len(WriteParams(params)) : WriteParams(params)[k].is = "no_value")
              <=> ParamsCommented(params)
<1>. DEFINE D == DOMAIN params
            L == LinesOf(params)
            own(n) == Assignment(n, WriteValue(params[n].value))
            pieces == [n \in D |-> WriteComment(params[n].comment) \o <<own(n)>>]
<1>1. WriteParams(params) = Joined(pieces)
  BY Zenon DEF WriteParams
<1>2. Line("no_value") \in L /\ \A n \in D : own(n) \in L
  BY DEF LinesOf
<1>3. \A n \in D : own(n).is = "param"
  BY KindsOfLines
<1>. HIDE DEF own, L
<1>4. ASSUME NEW n \in D
      PROVE  /\ pieces[n] \in Seq(L) /\ Len(pieces[n]) \in {1, 2}
             /\ pieces[n][Len(pieces[n])] = own(n)
             /\ params[n].comment # 0 => pieces[n][1].is = "no_value"
             /\ \A i \in 1 .. Len(pieces[n]) : pieces[n][i].is = "no_value" => params[n].comment # 0
  <2>. DEFINE piece == WriteComment(params[n].comment) \o <<own(n)>>
  <2>1. /\ piece \in Seq(L) /\ Len(piece) = IF params[n].comment = 0 THEN 1 ELSE 2
        /\ piece[Len(piece)] = own(n)
        /\ params[n].comment # 0 => piece[1] = Line("no_value")
    <3>1. PICK line \in L : line = own(n)
      BY <1>2
    <3>2. PICK c : c = params[n].comment
      OBVIOUS
    <3>3. PICK p : p = WriteComment(c) \o <<line>>
      OBVIOUS
    <3>4. p \in Seq(L) /\ (Len(p) = IF c = 0 THEN 1 ELSE 2) /\ p[Len(p)] = line /\ (c # 0 => p[1] = Line("no_value"))
      <4>1. Line("no_value") \in L
        BY <1>2
      <4>. QED BY <3>3, <4>1, CommentedLine, Zenon
    <3>5. piece = p
      BY <3>1, <3>2, <3>3, Zenon
    <3>. HIDE DEF piece
    <3>. QED BY <3>1, <3>2, <3>4, <3>5, Zenon
  <2>2. pieces[n] = piece
    OBVIOUS
  <2>. HIDE DEF piece, pieces
  <2>3. ASSUME params[n].comment = 0, NEW i \in 1 .. Len(piece) PROVE piece[i].is # "no_value"
    <3>1. i = 1 /\ Len(piece) = 1
      BY <2>1, <2>3
    <3>. QED BY <1>3, <2>1, <3>1
  <2>. QED BY <2>1, <2>2, <2>3, KindsOfLines
<1>5. DOMAIN pieces = D
  OBVIOUS
<1>. HIDE DEF pieces
<1>6. PICK file : file = Joined(pieces)
  OBVIOUS
<1>7. file \in Seq(L) /\ \E offset : Laid(file, pieces, D, offset)
  BY <1>4, <1>5, <1>6, JoinedLaid
<1>8. PICK offset : Laid(file, pieces, D, offset)
  BY <1>7
<1>9. ASSUME NEW n \in D, NEW i \in 1 .. Len(pieces[n])
      PROVE  offset[n] + i \in 1 .. Len(file) /\ file[offset[n] + i] = pieces[n][i]
  <2>1. offset[n] \in Nat /\ Len(pieces[n]) \in Nat /\ Len(file) \in Nat /\ offset[n] + Len(pieces[n]) <= Len(file)
    BY <1>4, <1>7, <1>8 DEF Laid
  <2>. QED BY <1>8, <2>1 DEF Laid
<1>10. \A n \in D : \E k \in 1 .. Len(file) : file[k] = own(n)
  <2>. SUFFICES ASSUME NEW n \in D PROVE \E k \in 1 .. Len(file) : file[k] = own(n)
    OBVIOUS
  <2>1. Len(pieces[n]) \in 1 .. Len(pieces[n])
    BY <1>4
  <2>. QED BY <1>4, <1>9, <2>1
<1>11. (\E k \in 1 .. Len(file) : file[k].is = "no_value") <=> ParamsCommented(params)
  <2>1. ASSUME NEW k \in 1 .. Len(file), file[k].is = "no_value" PROVE ParamsCommented(params)
    <3>1. PICK n \in D : \E i \in 1 .. Len(pieces[n]) : k = offset[n] + i
      BY <1>8 DEF Laid
    <3>2. PICK i \in 1 .. Len(pieces[n]) : k = offset[n] + i
      BY <3>1
    <3>3. pieces[n][i].is = "no_value"
      BY <1>9, <2>1, <3>2
    <3>. QED BY <1>4, <3>3 DEF ParamsCommented
  <2>2. ASSUME NEW n \in D, params[n].comment # 0 PROVE \E k \in 1 .. Len(file) : file[k].is = "no_value"
    <3>1. 1 \in 1 .. Len(pieces[n])
      BY <1>4
    <3>. QED BY <1>4, <1>9, <2>2, <3>1
  <2>. QED BY <2>1, <2>2 DEF ParamsCommented
<1>. QED BY <1>1, <1>6, <1>7, <1>10, <1>11, Zenon DEF L, own

-----------------------------------------------------------------------------
\* A section's lines: its header behind its comment, before its parameters.
HeaderAt(item) == IF item.comment = 0 THEN 1 ELSE 2
Commented(item) == item.comment # 0 \/ ParamsCommented(item.params)
SectionShape(piece, s, item) ==
  /\ piece \in Seq({Header(s)} \cup LinesOf(item.params))
  /\ HeaderAt(item) \in 1 .. Len(piece) /\ piece[HeaderAt(item)] = Header(s)
  /\ \A i \in 1 .. Len(piece) :
       /\ i < HeaderAt(item) => piece[i] = Line("no_value")
       /\ i > HeaderAt(item) => piece[i] \in LinesOf(item.params)
  /\ \A n \in DOMAIN item.params : \E i \in 1 .. Len(piece) :
       piece[i] = Assignment(n, WriteValue(item.params[n].value))
  /\ (\E i \in 1 .. Len(piece) : piece[i].is = "no_value") <=> Commented(item)

\* A section as it is written.
LEMMA SectionPieceIs ==
  ASSUME NEW s, NEW item, IsFiniteSet(DOMAIN item.params)
  PROVE  SectionShape(WriteComment(item.comment) \o <<Header(s)>> \o WriteParams(item.params), s, item)
<1>. DEFINE P == LinesOf(item.params)
            L == {Header(s)} \cup P
            h == HeaderAt(item)
<1>1. PICK header \in L : header = Header(s)
  OBVIOUS
<1>2. P \subseteq L /\ Line("no_value") \in L /\ header.is = "section"
  BY <1>1, KindsOfLines DEF LinesOf
<1>3. PICK c : c = item.comment
  OBVIOUS
<1>4. PICK params : params = WriteParams(item.params)
  OBVIOUS
<1>5. /\ params \in Seq(P)
      /\ \A n \in DOMAIN item.params : \E k \in 1 .. Len(params) :
           params[k] = Assignment(n, WriteValue(item.params[n].value))
      /\ (\E k \in 1 .. Len(params) : params[k].is = "no_value") <=> ParamsCommented(item.params)
  BY <1>4, WriteParamsIs
<1>. HIDE DEF L, P
<1>6. PICK begin : begin = WriteComment(c) \o <<header>>
  OBVIOUS
<1>7. /\ begin \in Seq(L) /\ (Len(begin) = IF c = 0 THEN 1 ELSE 2) /\ begin[Len(begin)] = header
      /\ (c # 0 => begin[1] = Line("no_value"))
  BY <1>2, <1>6, CommentedLine, Zenon
<1>8. h \in {1, 2} /\ Len(begin) = h /\ (h = 2 <=> c # 0)
  BY <1>3, <1>7 DEF HeaderAt
<1>9. PICK piece : piece = begin \o params
  OBVIOUS
<1>10. WriteComment(item.comment) \o <<Header(s)>> \o WriteParams(item.params) = piece
  BY <1>1, <1>3, <1>4, <1>6, <1>9, Zenon
<1>11. params \in Seq(L) /\ Len(params) \in Nat /\ \A k \in 1 .. Len(params) : params[k] \in P
  <2>1. \A k \in 1 .. Len(params) : params[k] \in P
    BY <1>5
  <2>2. params \in Seq(L)
    BY <1>2, <1>5, <2>1, SeqMonotonic
  <2>. QED BY <2>1, <2>2
<1>12. /\ piece \in Seq(L) /\ Len(piece) = Len(begin) + Len(params)
       /\ \A i \in 1 .. Len(begin) : piece[i] = begin[i]
       /\ \A i \in 1 .. Len(params) : piece[Len(begin) + i] = params[i]
  <2>1. begin \in Seq(L)
    BY <1>7
  <2>. QED BY <1>9, <1>11, <2>1, BothParts
<1>. HIDE DEF h
<1>13. piece[h] = header /\ h \in 1 .. Len(piece)
  BY <1>7, <1>8, <1>11, <1>12
<1>14. \A i \in 1 .. Len(piece) : i < h => piece[i] = Line("no_value") /\ c # 0
  <2>. SUFFICES ASSUME NEW i \in 1 .. Len(piece), i < h PROVE piece[i] = Line("no_value") /\ c # 0
    OBVIOUS
  <2>1. i = 1 /\ h = 2 /\ 1 \in 1 .. Len(begin)
    BY <1>8
  <2>. QED BY <1>7, <1>8, <1>12, <2>1
<1>15. \A i \in 1 .. Len(piece) : i > h => i - h \in 1 .. Len(params) /\ piece[i] = params[i - h]
  <2>. SUFFICES ASSUME NEW i \in 1 .. Len(piece), i > h
                PROVE  i - h \in 1 .. Len(params) /\ piece[i] = params[i - h]
    OBVIOUS
  <2>1. i - h \in 1 .. Len(params) /\ h + (i - h) = i
    BY <1>8, <1>11, <1>12
  <2>. QED BY <1>8, <1>12, <2>1
<1>16. \A k \in 1 .. Len(params) : h + k \in 1 .. Len(piece) /\ piece[h + k] = params[k]
  BY <1>8, <1>11, <1>12
<1>17. (\E i \in 1 .. Len(piece) : piece[i].is = "no_value") <=> Commented(item)
  <2>1. ASSUME NEW i \in 1 .. Len(piece), piece[i].is = "no_value" PROVE Commented(item)
    <3>1. CASE i < h
      BY <1>3, <1>14, <3>1 DEF Commented
    <3>2. CASE i > h
      BY <1>5, <1>15, <2>1, <3>2 DEF Commented
    <3>3. i # h
      BY <1>2, <1>13, <2>1
    <3>. QED BY <1>8, <3>1, <3>2, <3>3
  <2>2. ASSUME c # 0 PROVE \E i \in 1 .. Len(piece) : piece[i].is = "no_value"
    <3>1. 1 \in 1 .. Len(piece) /\ 1 < h
      BY <1>8, <1>11, <1>12, <2>2
    <3>. QED BY <1>14, <3>1, KindsOfLines
  <2>3. ASSUME ParamsCommented(item.params) PROVE \E i \in 1 .. Len(piece) : piece[i].is = "no_value"
    BY <1>5, <1>16, <2>3
  <2>. QED BY <1>3, <2>1, <2>2, <2>3 DEF Commented
<1>18. \A n \in DOMAIN item.params : \E i \in 1 .. Len(piece) :
         piece[i] = Assignment(n, WriteValue(item.params[n].value))
  BY <1>5, <1>16
<1>19. \A i \in 1 .. Len(piece) : (i < h => piece[i] = Line("no_value")) /\ (i > h => piece[i] \in P)
  BY <1>11, <1>14, <1>15
<1>. QED BY <1>1, <1>10, <1>12, <1>13, <1>17, <1>18, <1>19, Zenon DEF SectionShape, h, L, P

\* The k-th line of a file is one of the section s.
InSection(file, k, s) ==
  \E j \in 1 .. Len(file) : j < k /\ file[j] = Header(s) /\ \A i \in j + 1 .. k : file[i].is # "section"
FileLines(map) ==
  {Line("no_value")} \cup {Header(s) : s \in DOMAIN map} \cup UNION {LinesOf(map[s].params) : s \in DOMAIN map}

\* What the reader finds in the file of a map: each section once, in it its
\* parameters and no other ones, and comments if the map has any.
FileShape(file, map) ==
  /\ file \in Seq(FileLines(map))
  /\ \A j, k \in 1 .. Len(file) : file[j].is = "section" /\ file[k] = file[j] => j = k
  /\ \A s \in DOMAIN map : \E k \in 1 .. Len(file) : file[k] = Header(s)
  /\ \A s \in DOMAIN map : \A n \in DOMAIN map[s].params : \E k \in 1 .. Len(file) :
       InSection(file, k, s) /\ file[k] = Assignment(n, WriteValue(map[s].params[n].value))
  /\ \A k \in 1 .. Len(file) : file[k].is = "param" =>
       \E s \in DOMAIN map : InSection(file, k, s) /\
         \E n \in DOMAIN map[s].params : file[k] = Assignment(n, WriteValue(map[s].params[n].value))
  /\ (\E k \in 1 .. Len(file) : file[k].is = "no_value") <=> \E s \in DOMAIN map : Commented(map[s])

\* A place behind the g-th line of what begins at o.
LEMMA PlaceBehind ==
  ASSUME NEW o \in Nat, NEW l \in Nat, NEW g \in 1 .. l, NEW i \in 1 .. l, NEW k \in o + g + 1 .. o + i
  PROVE  k - o \in 1 .. l /\ k - o # g /\ k = o + (k - o)
OBVIOUS

\* A map as it is written.
LEMMA WriteSectionsIs ==
  ASSUME NEW map, IsFiniteSet(DOMAIN map), \A s \in DOMAIN map : IsFiniteSet(DOMAIN map[s].params)
  PROVE  FileShape(WriteSections(map), map)
<1>. DEFINE D == DOMAIN map
            L == FileLines(map)
            pieces == [s \in D |-> WriteComment(map[s].comment) \o <<Header(s)>> \o WriteParams(map[s].params)]
<1>1. WriteSections(map) = Joined(pieces)
  BY Zenon DEF WriteSections
<1>2. \A s \in D : SectionShape(pieces[s], s, map[s])
  <2>1. \A s \in D : pieces[s] = WriteComment(map[s].comment) \o <<Header(s)>> \o WriteParams(map[s].params)
    BY Zenon
  <2>. QED BY <2>1, SectionPieceIs, Zenon
<1>3. DOMAIN pieces = D
  OBVIOUS
<1>. HIDE DEF pieces
<1>4. ASSUME NEW s \in D PROVE pieces[s] \in Seq(L) /\ Len(pieces[s]) \in Nat
  <2>1. pieces[s] \in Seq({Header(s)} \cup LinesOf(map[s].params))
    BY <1>2 DEF SectionShape
  <2>2. {Header(s)} \cup LinesOf(map[s].params) \subseteq L
    BY DEF FileLines
  <2>. HIDE DEF L
  <2>3. \A i \in 1 .. Len(pieces[s]) : pieces[s][i] \in L
    BY <2>1, <2>2
  <2>. QED BY <2>1, <2>3, SeqMonotonic
<1>5. PICK file : file = Joined(pieces)
  OBVIOUS
<1>6. file \in Seq(L) /\ \E offset : Laid(file, pieces, D, offset)
  BY <1>3, <1>4, <1>5, JoinedLaid
<1>7. PICK offset : Laid(file, pieces, D, offset)
  BY <1>6
<1>. DEFINE h(s) == HeaderAt(map[s])
            last(s) == Len(pieces[s])
<1>8. \A s \in D : offset[s] \in Nat /\ last(s) \in Nat /\ offset[s] + last(s) <= Len(file)
  BY <1>4, <1>7 DEF Laid
<1>9. Len(file) \in Nat
  BY <1>6
<1>10. \A s \in D : \A i \in 1 .. last(s) : offset[s] + i \in 1 .. Len(file) /\ file[offset[s] + i] = pieces[s][i]
  BY <1>7, <1>8, <1>9 DEF Laid
<1>11. \A s \in D : h(s) \in 1 .. last(s) /\ pieces[s][h(s)] = Header(s)
  BY <1>2 DEF SectionShape
<1>12. \A s \in D : \A i \in 1 .. last(s) : i # h(s) => pieces[s][i].is # "section"
  <2>. SUFFICES ASSUME NEW s \in D, NEW i \in 1 .. last(s), i # h(s) PROVE pieces[s][i].is # "section"
    OBVIOUS
  <2>1. pieces[s][i] \in LinesOf(map[s].params)
    <3>1. i < h(s) \/ i > h(s)
      BY <1>8, <1>11
    <3>. QED BY <1>2, <3>1 DEF SectionShape, LinesOf
  <2>. QED BY <2>1, KindsOfLines DEF LinesOf
<1>13. \A s \in D : \A i \in 1 .. last(s) : pieces[s][i].is = "param" => i > h(s) /\ pieces[s][i] \in LinesOf(map[s].params)
  <2>. SUFFICES ASSUME NEW s \in D, NEW i \in 1 .. last(s), pieces[s][i].is = "param"
                PROVE  i > h(s) /\ pieces[s][i] \in LinesOf(map[s].params)
    OBVIOUS
  <2>1. i # h(s) /\ ~(i < h(s))
    <3>1. i # h(s)
      BY <1>11, KindsOfLines
    <3>2. i < h(s) => pieces[s][i] = Line("no_value")
      BY <1>2 DEF SectionShape
    <3>. QED BY <3>1, <3>2, KindsOfLines
  <2>2. i > h(s)
    BY <1>8, <1>11, <2>1
  <2>. QED BY <1>2, <2>2 DEF SectionShape
<1>14. \A k \in 1 .. Len(file) : \E s \in D : \E i \in 1 .. last(s) : k = offset[s] + i /\ file[k] = pieces[s][i]
  <2>. SUFFICES ASSUME NEW k \in 1 .. Len(file)
                PROVE  \E s \in D : \E i \in 1 .. last(s) : k = offset[s] + i /\ file[k] = pieces[s][i]
    OBVIOUS
  <2>1. PICK s \in D : \E i \in 1 .. last(s) : k = offset[s] + i
    BY <1>7 DEF Laid
  <2>. QED BY <1>10, <2>1
<1>15. \A s \in D : \A i \in 1 .. last(s) : i > h(s) => InSection(file, offset[s] + i, s)
  <2>. SUFFICES ASSUME NEW s \in D, NEW i \in 1 .. last(s), i > h(s) PROVE InSection(file, offset[s] + i, s)
    OBVIOUS
  <2>1. PICK j : j = offset[s] + h(s)
    OBVIOUS
  <2>2. j \in 1 .. Len(file) /\ file[j] = Header(s)
    BY <1>10, <1>11, <2>1
  <2>3. j < offset[s] + i
    BY <1>8, <1>11, <2>1
  <2>4. ASSUME NEW k \in j + 1 .. offset[s] + i PROVE file[k].is # "section"
    <3>1. k - offset[s] \in 1 .. last(s) /\ k - offset[s] # h(s) /\ k = offset[s] + (k - offset[s])
      <4>1. PICK o \in Nat, l \in Nat : o = offset[s] /\ l = last(s)
        BY <1>8
      <4>2. PICK g \in 1 .. l : g = h(s)
        BY <1>11, <4>1
      <4>3. k \in o + g + 1 .. o + i /\ i \in 1 .. l
        BY <2>1, <4>1, <4>2
      <4>4. k - o \in 1 .. l /\ k - o # g /\ k = o + (k - o)
        BY <4>3, PlaceBehind
      <4>. QED BY <4>1, <4>2, <4>4
    <3>2. file[k] = pieces[s][k - offset[s]]
      BY <1>10, <3>1
    <3>. QED BY <1>12, <3>1, <3>2
  <2>. QED BY <2>2, <2>3, <2>4 DEF InSection
<1>16. \A k \in 1 .. Len(file) : file[k].is = "section" =>
         \E s \in D : k = offset[s] + h(s) /\ file[k] = Header(s)
  <2>. SUFFICES ASSUME NEW k \in 1 .. Len(file), file[k].is = "section"
                PROVE  \E s \in D : k = offset[s] + h(s) /\ file[k] = Header(s)
    OBVIOUS
  <2>1. PICK s \in D : \E i \in 1 .. last(s) : k = offset[s] + i /\ file[k] = pieces[s][i]
    BY <1>14
  <2>2. PICK i \in 1 .. last(s) : k = offset[s] + i /\ file[k] = pieces[s][i]
    BY <2>1
  <2>3. i = h(s)
    BY <1>12, <2>2
  <2>. QED BY <1>11, <2>2, <2>3
<1>17. \A j, k \in 1 .. Len(file) : file[j].is = "section" /\ file[k] = file[j] => j = k
  <2>. SUFFICES ASSUME NEW j \in 1 .. Len(file), NEW k \in 1 .. Len(file), file[j].is = "section", file[k] = file[j]
                PROVE  j = k
    OBVIOUS
  <2>1. PICK s \in D : j = offset[s] + h(s) /\ file[j] = Header(s)
    BY <1>16
  <2>2. PICK r \in D : k = offset[r] + h(r) /\ file[k] = Header(r)
    BY <1>16
  <2>3. s = r
    BY <2>1, <2>2, KindsOfLines
  <2>. QED BY <2>1, <2>2, <2>3
<1>18. \A s \in D : \E k \in 1 .. Len(file) : file[k] = Header(s)
  BY <1>10, <1>11
<1>19. \A s \in D : \A n \in DOMAIN map[s].params : \E k \in 1 .. Len(file) :
         InSection(file, k, s) /\ file[k] = Assignment(n, WriteValue(map[s].params[n].value))
  <2>. SUFFICES ASSUME NEW s \in D, NEW n \in DOMAIN map[s].params
                PROVE  \E k \in 1 .. Len(file) :
                         InSection(file, k, s) /\ file[k] = Assignment(n, WriteValue(map[s].params[n].value))
    OBVIOUS
  <2>1. PICK i \in 1 .. last(s) : pieces[s][i] = Assignment(n, WriteValue(map[s].params[n].value))
    BY <1>2 DEF SectionShape
  <2>2. i > h(s)
    BY <1>13, <2>1, KindsOfLines
  <2>. QED BY <1>10, <1>15, <2>1, <2>2
<1>20. \A k \in 1 .. Len(file) : file[k].is = "param" =>
         \E s \in D : InSection(file, k, s) /\
           \E n \in DOMAIN map[s].params : file[k] = Assignment(n, WriteValue(map[s].params[n].value))
  <2>. SUFFICES ASSUME NEW k \in 1 .. Len(file), file[k].is = "param"
                PROVE  \E s \in D : InSection(file, k, s) /\
                         \E n \in DOMAIN map[s].params : file[k] = Assignment(n, WriteValue(map[s].params[n].value))
    OBVIOUS
  <2>1. PICK s \in D : \E i \in 1 .. last(s) : k = offset[s] + i /\ file[k] = pieces[s][i]
    BY <1>14
  <2>2. PICK i \in 1 .. last(s) : k = offset[s] + i /\ file[k] = pieces[s][i]
    BY <2>1
  <2>3. i > h(s) /\ file[k] \in LinesOf(map[s].params)
    BY <1>13, <2>2
  <2>4. \E n \in DOMAIN map[s].params : file[k] = Assignment(n, WriteValue(map[s].params[n].value))
    BY <2>3, KindsOfLines DEF LinesOf
  <2>. QED BY <1>15, <2>2, <2>3, <2>4
<1>21. (\E k \in 1 .. Len(file) : file[k].is = "no_value") <=> \E s \in D : Commented(map[s])
  <2>1. \A s \in D : (\E i \in 1 .. last(s) : pieces[s][i].is = "no_value") <=> Commented(map[s])
    BY <1>2 DEF SectionShape
  <2>2. ASSUME NEW k \in 1 .. Len(file), file[k].is = "no_value" PROVE \E s \in D : Commented(map[s])
    <3>1. PICK s \in D : \E i \in 1 .. last(s) : file[k] = pieces[s][i]
      BY <1>14
    <3>2. PICK i \in 1 .. last(s) : file[k] = pieces[s][i]
      BY <3>1
    <3>3. pieces[s][i].is = "no_value"
      BY <2>2, <3>2
    <3>. QED BY <2>1, <3>3
  <2>3. ASSUME NEW s \in D, Commented(map[s]) PROVE \E k \in 1 .. Len(file) : file[k].is = "no_value"
    <3>1. PICK i \in 1 .. last(s) : pieces[s][i].is = "no_value"
      BY <2>1, <2>3
    <3>2. offset[s] + i \in 1 .. Len(file) /\ file[offset[s] + i] = pieces[s][i]
      BY <1>10
    <3>. QED BY <3>1, <3>2
  <2>. QED BY <2>2, <2>3
<1>22. FileShape(file, map)
  BY <1>6, <1>17, <1>18, <1>19, <1>20, <1>21 DEF FileShape
<1>. QED BY <1>1, <1>5, <1>22, Zenon

-----------------------------------------------------------------------------
(***************************************************************************)
(* The round trip.  The map that was written is whole, its file is that of *)
(* WriteSections, and what has been read since is the beginning of that    *)
(* file; if the reader stops before its end, the map does not survive.     *)
(***************************************************************************)
\* Maps, as they are read, made and written.
ItemShape(item) ==
  /\ item = [comment |-> item.comment, params |-> item.params]
  /\ IsFiniteSet(DOMAIN item.params) /\ item.params = [n \in DOMAIN item.params |-> item.params[n]]
  /\ \A n \in DOMAIN item.params :
       item.params[n] = [value |-> item.params[n].value, comment |-> item.params[n].comment]
MapShape(map) ==
  /\ IsFiniteSet(DOMAIN map) /\ map = [s \in DOMAIN map |-> map[s]]
  /\ \A s \in DOMAIN map : ItemShape(map[s])
ValuesWhole(map) ==
  \A s \in DOMAIN map : \A n \in DOMAIN map[s].params : map[s].params[n].value \in Seq(ValueCharacters)
Calm(map) == \A s \in DOMAIN map : ~Commented(map[s])
SurvivesAll(map) ==
  Calm(map) /\ \A s \in DOMAIN map : \A n \in DOMAIN map[s].params : Survives(map[s].params[n].value)

\* What has been read of a written map is the beginning of its file, without a
\* line that the reader does not take.
WrittenLines(file) ==
  /\ Len(lines) <= Len(file) /\ \A k \in 1 .. Len(lines) : lines[k] = file[k]
  /\ \A k \in 1 .. Len(lines) :
       /\ lines[k].is # "no_value"
       /\ lines[k].is = "param" => ReadValue(lines[k].text).ok
       /\ lines[k].is = "section" => sec # NoSection
WrittenInv ==
  /\ MapShape(written.map) /\ ValuesWhole(written.map) /\ written.file = WriteSections(written.map)
  /\ comment = 0 /\ Calm(_section_map) /\ WrittenLines(written.file)
  /\ parse = "read" => Len(lines) = Len(written.file)
  /\ parse \notin {"reading", "read"} => ~SurvivesAll(written.map)
RoundInv ==
  /\ MapShape(_section_map)
  /\ ~written.done => ValuesWhole(_section_map)
  /\ written.done => WrittenInv

\* A section that begins.
LEMMA NoParams ==
  ASSUME NEW c
  PROVE  LET item == [comment |-> c, params |-> <<>>] IN
           ItemShape(item) /\ DOMAIN item.params = {} /\ (c = 0 => ~Commented(item))
<1>. DEFINE item == [comment |-> c, params |-> <<>>]
<1>1. item.params = <<>> /\ item.comment = c /\ item = [comment |-> item.comment, params |-> item.params]
  OBVIOUS
<1>2. DOMAIN <<>> = {} /\ <<>> = [n \in DOMAIN <<>> |-> <<>>[n]] /\ IsFiniteSet({})
  BY FS_EmptySet
<1>. HIDE DEF item
<1>3. DOMAIN item.params = {}
  BY <1>1, <1>2
<1>4. ItemShape(item)
  BY <1>1, <1>2, <1>3 DEF ItemShape
<1>5. c = 0 => ~Commented(item)
  BY <1>1, <1>3 DEF Commented, ParamsCommented
<1>. QED BY <1>3, <1>4, <1>5 DEF item

\* A section is put into a map.
LEMMA SectionInserted ==
  ASSUME NEW map, NEW name, NEW c, NEW more, more = Insert(map, name, [comment |-> c, params |-> <<>>])
  PROVE  /\ MapShape(map) => MapShape(more)
         /\ ValuesWhole(map) => ValuesWhole(more)
         /\ Calm(map) /\ c = 0 => Calm(more)
<1>. DEFINE item == [comment |-> c, params |-> <<>>]
<1>1. /\ DOMAIN more = DOMAIN map \cup {name}
      /\ \A s \in DOMAIN map : more[s] = map[s]
      /\ name \notin DOMAIN map => more[name] = item
      /\ more = [s \in DOMAIN more |-> more[s]]
  <2>1. more = Insert(map, name, item)
    OBVIOUS
  <2>. HIDE DEF item
  <2>. QED BY <2>1 DEF Insert
<1>2. ItemShape(item) /\ DOMAIN item.params = {} /\ (c = 0 => ~Commented(item))
  BY NoParams, Zenon
<1>. HIDE DEF item
<1>3. \A s \in DOMAIN more : s \in DOMAIN map \/ more[s] = item
  BY <1>1
<1>4. MapShape(map) => MapShape(more)
  <2>. SUFFICES ASSUME MapShape(map) PROVE MapShape(more)
    OBVIOUS
  <2>1. IsFiniteSet(DOMAIN more)
    BY <1>1, FS_AddElement DEF MapShape
  <2>2. \A s \in DOMAIN more : ItemShape(more[s])
    BY <1>1, <1>2, <1>3 DEF MapShape
  <2>. QED BY <1>1, <2>1, <2>2 DEF MapShape
<1>5. ValuesWhole(map) => ValuesWhole(more)
  BY <1>1, <1>2, <1>3 DEF ValuesWhole
<1>6. Calm(map) /\ c = 0 => Calm(more)
  BY <1>1, <1>2, <1>3 DEF Calm
<1>. QED BY <1>4, <1>5, <1>6

\* A parameter is put into a section of a map.
WithParam(map, own, name, value, c) ==
  [map EXCEPT ![own].params = Insert(@, name, [value |-> value, comment |-> c])]

LEMMA ParamInserted ==
  ASSUME NEW map, MapShape(map), NEW own \in DOMAIN map, NEW name, NEW value, NEW c, NEW more,
         more = WithParam(map, own, name, value, c)
  PROVE  /\ MapShape(more)
         /\ ValuesWhole(map) /\ value \in Seq(ValueCharacters) => ValuesWhole(more)
         /\ Calm(map) /\ c = 0 => Calm(more)
<1>. DEFINE par == [value |-> value, comment |-> c]
            old == map[own]
            params == Insert(old.params, name, par)
<1>1. ItemShape(old)
  BY DEF MapShape
<1>2. par.value = value /\ par.comment = c /\ par = [value |-> par.value, comment |-> par.comment]
  OBVIOUS
<1>. HIDE DEF par
<1>3. /\ DOMAIN params = DOMAIN old.params \cup {name}
      /\ \A n \in DOMAIN old.params : params[n] = old.params[n]
      /\ name \notin DOMAIN old.params => params[name] = par
      /\ params = [n \in DOMAIN params |-> params[n]]
  <2>1. PICK p : p = params
    OBVIOUS
  <2>2. /\ DOMAIN p = DOMAIN old.params \cup {name}
        /\ \A n \in DOMAIN old.params : p[n] = old.params[n]
        /\ name \notin DOMAIN old.params => p[name] = par
        /\ p = [n \in DOMAIN p |-> p[n]]
    BY <2>1 DEF Insert
  <2>. QED BY <2>1, <2>2, Zenon
<1>4. \A n \in DOMAIN params : n \in DOMAIN old.params \/ params[n] = par
  BY <1>3
<1>5. /\ DOMAIN more = DOMAIN map /\ more = [s \in DOMAIN more |-> more[s]]
      /\ \A s \in DOMAIN map \ {own} : more[s] = map[s]
      /\ more[own] = [old EXCEPT !.params = params]
  BY DEF MapShape, WithParam, par
<1>6. more[own] = [comment |-> old.comment, params |-> params]
  BY <1>1, <1>5 DEF ItemShape
<1>7. PICK item : item = more[own]
  OBVIOUS
<1>. HIDE DEF params
<1>8. item = [comment |-> item.comment, params |-> item.params] /\ item.params = params /\ item.comment = old.comment
  BY <1>6, <1>7
<1>9. ItemShape(item)
  <2>1. IsFiniteSet(DOMAIN params)
    BY <1>1, <1>3, FS_AddElement DEF ItemShape
  <2>2. \A n \in DOMAIN params : params[n] = [value |-> params[n].value, comment |-> params[n].comment]
    BY <1>1, <1>2, <1>3, <1>4 DEF ItemShape
  <2>. QED BY <1>3, <1>8, <2>1, <2>2 DEF ItemShape
<1>10. MapShape(more)
  BY <1>5, <1>7, <1>9 DEF MapShape
<1>11. ASSUME ValuesWhole(map), value \in Seq(ValueCharacters) PROVE ValuesWhole(more)
  <2>1. \A n \in DOMAIN params : params[n].value \in Seq(ValueCharacters)
    BY <1>2, <1>3, <1>4, <1>11 DEF ValuesWhole
  <2>. QED BY <1>5, <1>7, <1>8, <1>11, <2>1 DEF ValuesWhole
<1>12. ASSUME Calm(map), c = 0 PROVE Calm(more)
  <2>1. ~Commented(old)
    BY <1>12 DEF Calm
  <2>2. ~Commented(item)
    BY <1>2, <1>3, <1>4, <1>8, <1>12, <2>1 DEF Commented, ParamsCommented
  <2>. QED BY <1>5, <1>7, <1>12, <2>2 DEF Calm
<1>. QED BY <1>10, <1>11, <1>12

\* Whatever is read, the map keeps its shape.
LEMMA ReadLineMap ==
  ASSUME IniIInv, MapShape(_section_map), NEW line, ReadLine(line)
  PROVE  /\ MapShape(_section_map') /\ written' = written
         /\ ValuesWhole(_section_map) /\ (line.is = "param" => line.text \in Seq(ValueCharacters))
              => ValuesWhole(_section_map')
         /\ Calm(_section_map) /\ comment = 0 => Calm(_section_map')
         /\ comment = 0 /\ line.is # "comment" => comment' = 0
<1>1. ASSUME NEW exception, Throws(exception)
      PROVE  _section_map' = _section_map /\ written' = written /\ comment' = comment
  BY <1>1 DEF Throws
<1>2. CASE line.is = "comment" /\ ReadComment
  BY <1>2 DEF ReadComment, Reads
<1>3. CASE line.is = "section" /\ ReadSection(line.name)
  <2>1. /\ _section_map' = Insert(_section_map, line.name, [comment |-> comment, params |-> <<>>])
        /\ comment' = 0 /\ written' = written
    BY <1>3 DEF ReadSection, Reads
  <2>2. PICK more : more = _section_map'
    OBVIOUS
  <2>3. PICK name : name = line.name
    OBVIOUS
  <2>4. more = Insert(_section_map, name, [comment |-> comment, params |-> <<>>])
    BY <2>1, <2>2, <2>3
  <2>5. /\ MapShape(_section_map) => MapShape(more)
        /\ ValuesWhole(_section_map) => ValuesWhole(more)
        /\ Calm(_section_map) /\ comment = 0 => Calm(more)
    BY <2>4, SectionInserted
  <2>. QED BY <2>1, <2>2, <2>5
<1>4. CASE line.is = "param" /\ ReadParam(line.name, line.text)
  <2>1. CASE Throws("invalid_quotation")
    BY <1>1, <2>1
  <2>2. CASE ~Throws("invalid_quotation")
    <3>. DEFINE value == ReadValue(line.text).value
    <3>1. /\ sec # NoSection /\ ReadValue(line.text).ok /\ written' = written /\ comment' = 0
          /\ _section_map' =
               IF sec.kept
               THEN [_section_map EXCEPT ![sec.name].params = Insert(@, line.name, [value |-> value, comment |-> comment])]
               ELSE _section_map
      BY <1>4, <2>2 DEF ReadParam, Reads
    <3>2. CASE ~sec.kept
      BY <3>1, <3>2
    <3>3. CASE sec.kept
      <4>1. sec.name \in DOMAIN _section_map
        BY <3>1, <3>3 DEF IniIInv, SecInv, SectionMapInv
      <4>2. PICK own \in DOMAIN _section_map : own = sec.name
        BY <4>1
      <4>3. PICK name, v, more : name = line.name /\ v = value /\ more = _section_map'
        OBVIOUS
      <4>. HIDE DEF value
      <4>4. more = WithParam(_section_map, own, name, v, comment)
        BY <3>1, <3>3, <4>2, <4>3 DEF WithParam
      <4>5. /\ MapShape(more)
            /\ ValuesWhole(_section_map) /\ v \in Seq(ValueCharacters) => ValuesWhole(more)
            /\ Calm(_section_map) /\ comment = 0 => Calm(more)
        BY <4>4, ParamInserted
      <4>6. line.text \in Seq(ValueCharacters) => v \in Seq(ValueCharacters)
        BY <3>1, <4>3, ReadValueType DEF value
      <4>. QED BY <1>4, <3>1, <4>3, <4>5, <4>6
    <3>. QED BY <3>2, <3>3
  <2>. QED BY <2>1, <2>2
<1>5. CASE NoValue(line)
  BY <1>1, <1>5 DEF NoValue
<1>. QED BY <1>1, <1>2, <1>3, <1>4, <1>5 DEF ReadLine

\* The lines of a file.
LEMMA FileLinesAre ==
  ASSUME NEW map, NEW line \in FileLines(map)
  PROVE  /\ line.is \in {"no_value", "section", "param"}
         /\ line.is = "section" => line.name \in DOMAIN map /\ line = Header(line.name)
         /\ line.is = "param" => line = Assignment(line.name, line.text)
<1>1. CASE line = Line("no_value")
  BY <1>1, KindsOfLines
<1>2. CASE \E s \in DOMAIN map : line = Header(s)
  BY <1>2, KindsOfLines
<1>3. CASE \E s \in DOMAIN map : \E n \in DOMAIN map[s].params :
        line = Assignment(n, WriteValue(map[s].params[n].value))
  BY <1>3, KindsOfLines
<1>. QED BY <1>1, <1>2, <1>3 DEF FileLines, LinesOf

\* The file of the map that was written.
LEMMA WrittenShape ==
  ASSUME MapShape(written.map), written.file = WriteSections(written.map)
  PROVE  FileShape(written.file, written.map)
BY WriteSectionsIs DEF MapShape, ItemShape

\* A line that the reader takes is read as it was written.
LEMMA OneLineRead ==
  ASSUME IniIInv, NEW file, Len(file) \in Nat, WrittenLines(file), Len(lines) < Len(file),
         lines' = Append(lines, file[Len(lines) + 1]),
         file[Len(lines) + 1].is # "no_value",
         file[Len(lines) + 1].is = "param" => ReadValue(file[Len(lines) + 1].text).ok,
         file[Len(lines) + 1].is = "section" => sec' # NoSection,
         sec # NoSection => sec' # NoSection
  PROVE  WrittenLines(file)'
<1>1. /\ Len(lines) \in Nat /\ Len(lines') = Len(lines) + 1 /\ lines'[Len(lines) + 1] = file[Len(lines) + 1]
      /\ \A k \in 1 .. Len(lines) : lines'[k] = lines[k]
  BY OneMoreLine DEF IniIInv, LinesInv
<1>2. \A k \in 1 .. Len(lines') : k = Len(lines) + 1 \/ k \in 1 .. Len(lines)
  BY <1>1
<1>3. Len(lines') <= Len(file)
  BY <1>1
<1>4. \A k \in 1 .. Len(lines') : lines'[k] = file[k]
  BY <1>1, <1>2 DEF WrittenLines
<1>5. \A k \in 1 .. Len(lines') :
        /\ lines'[k].is # "no_value"
        /\ lines'[k].is = "param" => ReadValue(lines'[k].text).ok
        /\ lines'[k].is = "section" => sec' # NoSection
  BY <1>1, <1>2 DEF WrittenLines
<1>. QED BY <1>3, <1>4, <1>5 DEF WrittenLines

\* The next line of a written file is taken, or the map was not one that
\* survives.
LEMMA WrittenLineStep ==
  ASSUME IniIInv, RoundInv, written.done, parse = "reading", Len(lines) < Len(written.file),
         ReadLine(written.file[Len(lines) + 1])
  PROVE  RoundInv'
<1>. DEFINE file == written.file
            map == written.map
            k == Len(lines) + 1
            line == file[k]
<1>1. WrittenInv /\ MapShape(_section_map)
  BY DEF RoundInv
<1>2. FileShape(file, map)
  BY <1>1, WrittenShape DEF WrittenInv
<1>3. Len(file) \in Nat /\ Len(lines) \in Nat /\ k \in 1 .. Len(file) /\ file \in Seq(FileLines(map))
  BY <1>2 DEF FileShape, IniIInv, LinesInv
<1>4. \A i \in 1 .. Len(file) : file[i] \in FileLines(map)
  BY <1>3
<1>5. /\ line.is \in {"no_value", "section", "param"}
      /\ line.is = "section" => line.name \in DOMAIN map /\ line = Header(line.name)
      /\ line.is = "param" => line = Assignment(line.name, line.text)
  <2>1. line \in FileLines(map)
    BY <1>3, <1>4
  <2>. HIDE DEF line, map
  <2>. QED BY <2>1, FileLinesAre
<1>6. MapShape(_section_map') /\ written' = written /\ Calm(_section_map') /\ comment' = 0
  BY <1>1, <1>5, ReadLineMap DEF WrittenInv
<1>7. /\ \A i \in 1 .. Len(lines) : lines[i] = file[i]
      /\ \A i \in 1 .. Len(lines) : lines[i].is = "section" => sec # NoSection
      /\ WrittenLines(file)
  BY <1>1 DEF WrittenInv, WrittenLines
<1>8. SUFFICES ASSUME TRUE
               PROVE  /\ WrittenLines(file)'
                      /\ parse' # "read"
                      /\ parse' # "reading" => ~SurvivesAll(map)
  BY <1>1, <1>6 DEF RoundInv, WrittenInv
<1>9. ASSUME NEW exception, Throws(exception), exception # "read", ~SurvivesAll(map)
      PROVE  WrittenLines(file)' /\ parse' # "read" /\ (parse' # "reading" => ~SurvivesAll(map))
  BY <1>6, <1>7, <1>9 DEF Throws, WrittenLines
<1>10. CASE line.is = "section" /\ ReadSection(line.name)
  <2>1. lines' = Append(lines, line) /\ parse' = "reading"
    BY <1>5, <1>10 DEF ReadSection, Reads
  <2>3. line.name \notin DOMAIN _section_map
    <3>. SUFFICES ASSUME line.name \in DOMAIN _section_map PROVE FALSE
      OBVIOUS
    <3>1. PICK j : j \in SectionLines(line.name)
      BY FirstOfSection DEF IniIInv, SectionMapInv
    <3>2. j \in 1 .. Len(lines) /\ lines[j].is = "section" /\ lines[j].name = line.name
      BY <3>1 DEF SectionLines, Is
    <3>3. j \in 1 .. Len(file) /\ file[j] = lines[j] /\ j # k
      BY <1>3, <1>7, <3>2
    <3>4. file[j] = Header(line.name)
      BY <1>4, <3>2, <3>3, FileLinesAre
    <3>5. file[j] = line
      BY <1>5, <1>10, <3>4
    <3>. QED BY <1>2, <1>3, <1>10, <3>3, <3>5 DEF FileShape
  <2>4. sec' # NoSection
    <3>1. NoSection.kept = FALSE
      BY DEF NoSection
    <3>2. sec'.kept = TRUE
      BY <1>10, <2>3 DEF ReadSection
    <3>. QED BY <3>1, <3>2
  <2>5. WrittenLines(file)'
    BY <1>3, <1>7, <1>10, <2>1, <2>4, OneLineRead, <1>6
  <2>. QED BY <2>1, <2>5
<1>11. ASSUME line.is = "param" PROVE sec # NoSection
  <2>1. PICK s : InSection(file, k, s)
    BY <1>2, <1>3, <1>11 DEF FileShape
  <2>2. PICK j \in 1 .. Len(file) : j < k /\ file[j] = Header(s)
    BY <2>1 DEF InSection
  <2>3. j \in 1 .. Len(lines) /\ lines[j].is = "section"
    BY <1>3, <1>7, <2>2, KindsOfLines
  <2>. QED BY <1>7, <2>3
<1>12. ASSUME line.is = "no_value" PROVE ~SurvivesAll(map)
  BY <1>2, <1>3, <1>12 DEF FileShape, SurvivesAll, Calm
<1>13. ASSUME line.is = "param", ~ReadValue(line.text).ok PROVE ~SurvivesAll(map)
  <2>1. PICK s \in DOMAIN map : \E n \in DOMAIN map[s].params : line = Assignment(n, WriteValue(map[s].params[n].value))
    BY <1>2, <1>3, <1>13 DEF FileShape
  <2>2. PICK n \in DOMAIN map[s].params : line = Assignment(n, WriteValue(map[s].params[n].value))
    BY <2>1
  <2>3. PICK v : v = map[s].params[n].value
    OBVIOUS
  <2>4. v \in Seq(ValueCharacters)
    BY <1>1, <2>3 DEF WrittenInv, ValuesWhole
  <2>5. line.text = WriteValue(v)
    BY <2>2, <2>3, KindsOfLines
  <2>6. ~Survives(v)
    BY <1>13, <2>4, <2>5, ValueSurvives
  <2>. QED BY <2>3, <2>6 DEF SurvivesAll
<1>14. CASE line.is = "param" /\ ReadParam(line.name, line.text)
  <2>1. CASE ~ReadValue(line.text).ok /\ Throws("invalid_quotation")
    BY <1>9, <1>13, <1>14, <2>1
  <2>2. CASE ReadValue(line.text).ok /\ Reads(Assignment(line.name, line.text)) /\ UNCHANGED sec
    <3>1. lines' = Append(lines, line) /\ parse' = "reading" /\ sec' = sec
      BY <1>5, <1>14, <2>2 DEF Reads
    <3>2. WrittenLines(file)'
      BY <1>3, <1>6, <1>7, <1>14, <2>2, <3>1, OneLineRead
    <3>. QED BY <3>1, <3>2
  <2>. QED BY <1>14, <2>1, <2>2 DEF ReadParam
<1>15. CASE NoValue(line)
  <2>1. line.is = "no_value"
    BY <1>5, <1>11, <1>15 DEF NoValue
  <2>2. \E exception : Throws(exception) /\ exception # "read"
    BY <1>15 DEF NoValue
  <2>. QED BY <1>9, <1>12, <2>1, <2>2
<1>. QED BY <1>5, <1>10, <1>14, <1>15 DEF ReadLine

\* A map that nothing has been read into.
LEMMA EmptyMap == MapShape(<<>>) /\ ValuesWhole(<<>>) /\ Calm(<<>>)
<1>1. DOMAIN <<>> = {} /\ <<>> = [n \in DOMAIN <<>> |-> <<>>[n]] /\ IsFiniteSet({})
  BY FS_EmptySet
<1>. QED BY <1>1 DEF MapShape, ValuesWhole, Calm

\* A map that the program made: one section with one parameter.
LEMMA MadeShape ==
  ASSUME NEW value \in Values
  PROVE  MapShape(Made(value)) /\ ValuesWhole(Made(value))
<1>. DEFINE par == [value |-> value, comment |-> 0]
            params == [n \in {AName} |-> par]
            item == [comment |-> 0, params |-> params]
            map == [s \in {AName} |-> item]
<1>1. Made(value) = map
  BY Zenon DEF Made
<1>2. value \in Seq(ValueCharacters)
  <2>1. PICK n \in 0 .. MaxLength : value \in [1 .. n -> Characters]
    BY DEF Values
  <2>2. n \in Nat
    OBVIOUS
  <2>3. value \in Seq(Characters)
    BY <2>1, <2>2
  <2>. QED BY <2>3, SeqMonotonic DEF ValueCharacters
<1>3. par = [value |-> par.value, comment |-> par.comment] /\ par.value = value
  OBVIOUS
<1>. HIDE DEF par
<1>4. IsFiniteSet({AName})
  BY FS_Singleton
<1>5. DOMAIN params = {AName} /\ params[AName] = par /\ params = [n \in DOMAIN params |-> params[n]]
  OBVIOUS
<1>. HIDE DEF params
<1>6. item = [comment |-> item.comment, params |-> item.params] /\ item.params = params
  OBVIOUS
<1>. HIDE DEF item
<1>7. DOMAIN map = {AName} /\ map[AName] = item /\ map = [s \in DOMAIN map |-> map[s]]
  OBVIOUS
<1>. HIDE DEF map
<1>8. ItemShape(item)
  BY <1>3, <1>4, <1>5, <1>6 DEF ItemShape
<1>9. MapShape(map)
  BY <1>4, <1>7, <1>8 DEF MapShape
<1>10. ValuesWhole(map)
  BY <1>2, <1>3, <1>5, <1>6, <1>7 DEF ValuesWhole
<1>. QED BY <1>1, <1>9, <1>10

\* The texts of the lines that a file holds.
LEMMA GivenTexts ==
  ASSUME NEW line \in GivenLines, line.is = "param"
  PROVE  line.text \in Seq(ValueCharacters)
<1>1. PICK name \in Names, text \in Texts : line = Assignment(name, text)
  <2>1. \A kind \in {"comment", "bad_section", "bad_name", "no_value", "all_name"} : Line(kind).is # "param"
    BY DEF Line
  <2>. QED BY <2>1, KindsOfLines DEF GivenLines
<1>2. line.text = text
  BY <1>1, KindsOfLines
<1>3. \E q \in Quotes : Texts = {<<"x">>, <<q, Space, q>>, <<q>>}
  BY Zenon DEF Quotes, Texts, Space
<1>4. "x" \in ValueCharacters /\ Space \in ValueCharacters /\ Quotes \subseteq ValueCharacters
  BY Zenon DEF ValueCharacters
<1>5. PICK x \in ValueCharacters, q \in ValueCharacters : Texts = {<<x>>, <<q, Space, q>>, <<q>>}
  BY <1>3, <1>4, Zenon
<1>6. <<x>> \in Seq(ValueCharacters) /\ <<q, Space, q>> \in Seq(ValueCharacters) /\ <<q>> \in Seq(ValueCharacters)
  BY <1>4
<1>. QED BY <1>2, <1>5, <1>6

\* Every step keeps the invariant.
LEMMA RoundStepInv ==
  ASSUME IniIInv, RoundInv, [IniNext]_iniVars
  PROVE  RoundInv'
<1>1. ASSUME UNCHANGED <<lines, sec, comment, _section_map, written>>,
             written.done => (parse' = parse \/ (parse' = "read" /\ Len(lines) = Len(written.file)))
      PROVE  RoundInv'
  <2>1. SUFFICES ASSUME written.done
                 PROVE  WrittenInv'
    BY <1>1 DEF RoundInv
  <2>2. WrittenInv
    BY <2>1 DEF RoundInv
  <2>. QED BY <1>1, <2>1, <2>2 DEF WrittenInv, WrittenLines
<1>2. CASE UNCHANGED iniVars
  BY <1>1, <1>2 DEF iniVars
<1>3. CASE ReadGiven
  <2>1. CASE EndOfFile
    BY <1>1, <1>3, <2>1 DEF EndOfFile, ReadGiven
  <2>2. CASE ~EndOfFile
    <3>1. PICK line \in GivenLines : ReadLine(line)
      BY <1>3, <2>2 DEF ReadGiven
    <3>2. MapShape(_section_map) /\ ValuesWhole(_section_map) /\ ~written.done
      BY <1>3 DEF ReadGiven, RoundInv
    <3>3. MapShape(_section_map') /\ written' = written /\ ValuesWhole(_section_map')
      BY <3>1, <3>2, ReadLineMap, GivenTexts
    <3>. QED BY <3>2, <3>3 DEF RoundInv
  <2>. QED BY <2>1, <2>2
<1>4. CASE WriteMap
  <2>1. PICK map \in IF parse = "read" THEN {_section_map} ELSE {Made(value) : value \in Values} :
          written' = [done |-> TRUE, map |-> map, file |-> WriteSections(map)]
    BY <1>4 DEF WriteMap
  <2>2. MapShape(map) /\ ValuesWhole(map)
    BY <1>4, <2>1, MadeShape DEF RoundInv, WriteMap
  <2>3. lines' = <<>> /\ parse' = "reading" /\ comment' = 0 /\ _section_map' = <<>>
    BY <1>4 DEF WriteMap
  <2>4. written'.done /\ written'.map = map /\ written'.file = WriteSections(map)
    BY <2>1
  <2>5. WrittenLines(written.file)'
    <3>1. FileShape(WriteSections(map), map)
      BY <2>2, WriteSectionsIs DEF MapShape, ItemShape
    <3>2. Len(written'.file) \in Nat
      BY <2>4, <3>1 DEF FileShape
    <3>. QED BY <2>3, <3>2 DEF WrittenLines
  <2>6. MapShape(_section_map') /\ Calm(_section_map')
    BY <2>3, EmptyMap
  <2>. QED BY <2>2, <2>3, <2>4, <2>5, <2>6 DEF RoundInv, WrittenInv
<1>5. CASE ReadWritten
  <2>1. CASE Len(lines) < Len(written.file)
    BY <1>5, <2>1, WrittenLineStep DEF ReadWritten
  <2>2. CASE ~(Len(lines) < Len(written.file))
    <3>1. WrittenInv
      BY <1>5 DEF ReadWritten, RoundInv
    <3>2. FileShape(written.file, written.map)
      BY <3>1, WrittenShape DEF WrittenInv
    <3>3. Len(lines) \in Nat /\ Len(written.file) \in Nat /\ Len(lines) <= Len(written.file)
      BY <3>1, <3>2 DEF IniIInv, LinesInv, FileShape, WrittenInv, WrittenLines
    <3>. QED BY <1>1, <1>5, <2>2, <3>3 DEF EndOfFile, ReadWritten
  <2>. QED BY <2>1, <2>2
<1>. QED BY <1>2, <1>3, <1>4, <1>5 DEF IniNext

-----------------------------------------------------------------------------
\* The reader has reached the end of a written map's file.
LEMMA ReadAll ==
  ASSUME IniIInv, WrittenInv, parse = "read"
  PROVE  /\ FileShape(lines, written.map)
         /\ \A k \in 1 .. Len(lines) : /\ lines[k].is # "no_value"
                                       /\ lines[k].is = "param" => ReadValue(lines[k].text).ok
<1>1. FileShape(written.file, written.map)
  BY WrittenShape DEF WrittenInv
<1>2. PICK file : file = written.file
  OBVIOUS
<1>3. Len(file) \in Nat /\ file = [k \in 1 .. Len(file) |-> file[k]]
  BY <1>1, <1>2 DEF FileShape
<1>4. Len(lines) = Len(file) /\ \A k \in 1 .. Len(lines) : lines[k] = file[k]
  BY <1>2 DEF WrittenInv, WrittenLines
<1>5. lines = [k \in 1 .. Len(lines) |-> lines[k]]
  BY DEF IniIInv, LinesInv
<1>6. lines = file
  BY <1>3, <1>4, <1>5
<1>. QED BY <1>1, <1>2, <1>6 DEF WrittenInv, WrittenLines

\* Each section of the map has its header, and no other section has one.
LEMMA HeadersRead ==
  ASSUME NEW map, FileShape(lines, map)
  PROVE  /\ \A s, k : k \in SectionLine(s) <=> k \in 1 .. Len(lines) /\ lines[k] = Header(s)
         /\ \A s : SectionLine(s) # {} <=> s \in DOMAIN map
<1>1. \A k \in 1 .. Len(lines) : lines[k] \in FileLines(map)
  BY DEF FileShape
<1>2. \A s, k : k \in SectionLines(s) <=> k \in 1 .. Len(lines) /\ lines[k] = Header(s)
  BY <1>1, FileLinesAre, KindsOfLines DEF SectionLines, Is
<1>3. \A s : \A j, k \in SectionLines(s) : j = k
  BY <1>2, KindsOfLines DEF FileShape
<1>4. \A s : SectionLines(s) \subseteq Nat
  BY DEF SectionLines
<1>5. \A s, k : k \in SectionLines(s) => k \in SectionLine(s)
  <2>. SUFFICES ASSUME NEW s, NEW k \in SectionLines(s) PROVE k \in SectionLine(s)
    OBVIOUS
  <2>1. k \in Nat /\ \A j \in SectionLines(s) : k <= j
    BY <1>3, <1>4
  <2>. QED BY <2>1, FirstOfSection DEF FirstOf
<1>6. \A s, k : k \in SectionLine(s) <=> k \in 1 .. Len(lines) /\ lines[k] = Header(s)
  BY <1>2, <1>5, FirstOfSection
<1>7. ASSUME NEW s PROVE SectionLine(s) # {} <=> s \in DOMAIN map
  <2>1. ASSUME NEW k \in SectionLine(s) PROVE s \in DOMAIN map
    BY <1>1, <1>6, <2>1, FileLinesAre, KindsOfLines
  <2>2. ASSUME s \in DOMAIN map PROVE SectionLine(s) # {}
    BY <1>6, <2>2 DEF FileShape
  <2>. QED BY <2>1, <2>2
<1>. QED BY <1>6, <1>7

\* The parameter lines of a section of the map are its own parameters.
LEMMA ParamsRead ==
  ASSUME NEW map, FileShape(lines, map), Len(lines) \in Nat
  PROVE  /\ \A s, n : \A k \in ParamLines(s, n) :
              /\ s \in DOMAIN map /\ n \in DOMAIN map[s].params
              /\ lines[k] = Assignment(n, WriteValue(map[s].params[n].value))
         /\ \A s \in DOMAIN map : \A n \in DOMAIN map[s].params : ParamLines(s, n) # {}
<1>1. \A s, k : k \in SectionLine(s) <=> k \in 1 .. Len(lines) /\ lines[k] = Header(s)
  BY HeadersRead
<1>2. ASSUME NEW s, NEW n, NEW k \in ParamLines(s, n)
      PROVE  /\ s \in DOMAIN map /\ n \in DOMAIN map[s].params
             /\ lines[k] = Assignment(n, WriteValue(map[s].params[n].value))
  <2>1. k \in 1 .. Len(lines) /\ lines[k].is = "param" /\ lines[k].name = n /\ Within(k, s)
    BY DEF ParamLines, Is
  <2>2. PICK j \in SectionLine(s) : j < k /\ \A i \in j + 1 .. k : lines[i].is # "section"
    BY <2>1 DEF Within
  <2>3. PICK s2 \in DOMAIN map : InSection(lines, k, s2) /\
          \E m \in DOMAIN map[s2].params : lines[k] = Assignment(m, WriteValue(map[s2].params[m].value))
    BY <2>1 DEF FileShape
  <2>4. PICK j2 \in 1 .. Len(lines) : j2 < k /\ lines[j2] = Header(s2) /\ \A i \in j2 + 1 .. k : lines[i].is # "section"
    BY <2>3 DEF InSection
  <2>5. j \in 1 .. Len(lines) /\ lines[j] = Header(s)
    BY <1>1, <2>2
  <2>6. lines[j].is = "section" /\ lines[j2].is = "section"
    BY <2>4, <2>5, KindsOfLines
  <2>7. j = j2
    <3>1. ~(j < j2)
      BY <2>1, <2>2, <2>4, <2>5, <2>6
    <3>2. ~(j2 < j)
      BY <2>1, <2>2, <2>4, <2>5, <2>6
    <3>. QED BY <2>4, <2>5, <3>1, <3>2
  <2>8. s = s2
    BY <2>4, <2>5, <2>7, KindsOfLines
  <2>9. PICK m \in DOMAIN map[s].params : lines[k] = Assignment(m, WriteValue(map[s].params[m].value))
    BY <2>3, <2>8
  <2>10. m = n
    BY <2>1, <2>9, KindsOfLines
  <2>. QED BY <2>3, <2>8, <2>9, <2>10
<1>3. ASSUME NEW s \in DOMAIN map, NEW n \in DOMAIN map[s].params PROVE ParamLines(s, n) # {}
  <2>1. PICK k \in 1 .. Len(lines) :
          InSection(lines, k, s) /\ lines[k] = Assignment(n, WriteValue(map[s].params[n].value))
    BY DEF FileShape
  <2>2. PICK j \in 1 .. Len(lines) : j < k /\ lines[j] = Header(s) /\ \A i \in j + 1 .. k : lines[i].is # "section"
    BY <2>1 DEF InSection
  <2>3. Within(k, s)
    BY <1>1, <2>2 DEF Within
  <2>4. Is(k, "param", n)
    BY <2>1, KindsOfLines DEF Is
  <2>. QED BY <2>3, <2>4 DEF ParamLines
<1>. QED BY <1>2, <1>3

\* There is a first line where there is one.
LEMMA FirstThere ==
  ASSUME NEW s, NEW n
  PROVE  ParamLine(s, n) = {} <=> ParamLines(s, n) = {}
<1>1. ParamLines(s, n) # {} => FirstOf(ParamLines(s, n)) # {}
  <2>1. SUFFICES ASSUME ParamLines(s, n) # {} PROVE FirstOf(ParamLines(s, n)) # {}
    OBVIOUS
  <2>2. ParamLines(s, n) \in SUBSET Nat
    BY DEF ParamLines
  <2>3. \E k \in ParamLines(s, n) : \A j \in ParamLines(s, n) : k <= j
    BY <2>1, <2>2, LeastExists
  <2>. QED BY <2>3 DEF FirstOf
<1>. QED BY <1>1, FirstOfParam

\* What has been read of a whole file is the map's sections and parameters, each
\* with what the reader takes for the value that was written.
LEMMA EachReadBack ==
  ASSUME IniIInv, WrittenInv, parse = "read"
  PROVE  /\ DOMAIN _section_map = DOMAIN written.map
         /\ \A s \in DOMAIN written.map :
              /\ DOMAIN _section_map[s].params = DOMAIN written.map[s].params
              /\ \A n \in DOMAIN written.map[s].params :
                   LET read == ReadValue(WriteValue(written.map[s].params[n].value)) IN
                     read.ok /\ _section_map[s].params[n].value = read.value
<1>. PICK map : map = written.map
  OBVIOUS
<1>1. /\ FileShape(lines, map)
      /\ \A k \in 1 .. Len(lines) : lines[k].is = "param" => ReadValue(lines[k].text).ok
  BY ReadAll
<1>2. Len(lines) \in Nat
  BY DEF IniIInv, LinesInv
<1>3. DOMAIN _section_map = DOMAIN map
  <2>1. \A s : s \in DOMAIN _section_map <=> s \in DOMAIN map
    BY <1>1, HeadersRead DEF IniIInv, SectionMapInv
  <2>. QED BY <2>1
<1>4. ASSUME NEW s \in DOMAIN map, NEW n
      PROVE  /\ n \in DOMAIN _section_map[s].params <=> n \in DOMAIN map[s].params
             /\ n \in DOMAIN map[s].params =>
                  LET read == ReadValue(WriteValue(map[s].params[n].value)) IN
                    read.ok /\ _section_map[s].params[n].value = read.value
  <2>1. ParamsRight(s, n)
    BY <1>3 DEF IniIInv, SectionMapInv
  <2>2. n \in DOMAIN _section_map[s].params <=> ParamLine(s, n) # {}
    BY <2>1 DEF ParamsRight
  <2>3. ParamLine(s, n) # {} <=> n \in DOMAIN map[s].params
    BY <1>1, <1>2, ParamsRead, FirstThere
  <2>4. ASSUME n \in DOMAIN map[s].params
        PROVE  LET read == ReadValue(WriteValue(map[s].params[n].value)) IN
                 read.ok /\ _section_map[s].params[n].value = read.value
    <3>1. PICK k \in ParamLine(s, n) : TRUE
      BY <2>3, <2>4
    <3>2. k \in ParamLines(s, n)
      BY FirstOfParam
    <3>3. k \in 1 .. Len(lines) /\ lines[k].is = "param"
      BY <3>2 DEF ParamLines, Is
    <3>4. lines[k] = Assignment(n, WriteValue(map[s].params[n].value))
      BY <1>1, <1>2, <3>2, ParamsRead
    <3>5. lines[k].text = WriteValue(map[s].params[n].value)
      BY <3>4, KindsOfLines
    <3>6. _section_map[s].params[n].value = ReadValue(lines[k].text).value
      BY <2>1 DEF ParamsRight
    <3>. QED BY <1>1, <3>3, <3>5, <3>6
  <2>. QED BY <2>2, <2>3, <2>4
<1>. QED BY <1>3, <1>4

\* Two maps without comments are one if they have the same values.
LEMMA SameMaps ==
  ASSUME NEW map, NEW other, MapShape(map), MapShape(other), Calm(map), Calm(other),
         DOMAIN map = DOMAIN other,
         \A s \in DOMAIN map : /\ DOMAIN map[s].params = DOMAIN other[s].params
                               /\ \A n \in DOMAIN map[s].params : map[s].params[n].value = other[s].params[n].value
  PROVE  map = other
<1>1. ASSUME NEW s \in DOMAIN map PROVE map[s] = other[s]
  <2>1. PICK item, item2 : item = map[s] /\ item2 = other[s]
    OBVIOUS
  <2>2. ItemShape(item) /\ ItemShape(item2) /\ ~Commented(item) /\ ~Commented(item2)
    BY <2>1 DEF MapShape, Calm
  <2>3. \A n \in DOMAIN item.params : item.params[n] = item2.params[n]
    <3>. SUFFICES ASSUME NEW n \in DOMAIN item.params PROVE item.params[n] = item2.params[n]
      OBVIOUS
    <3>1. item.params[n].value = item2.params[n].value /\ n \in DOMAIN item2.params
      BY <2>1
    <3>2. item.params[n].comment = 0 /\ item2.params[n].comment = 0
      BY <2>2, <3>1 DEF Commented, ParamsCommented
    <3>3. /\ item.params[n] = [value |-> item.params[n].value, comment |-> item.params[n].comment]
          /\ item2.params[n] = [value |-> item2.params[n].value, comment |-> item2.params[n].comment]
      BY <2>2, <3>1 DEF ItemShape
    <3>. QED BY <3>1, <3>2, <3>3
  <2>4. item.params = item2.params
    <3>1. DOMAIN item.params = DOMAIN item2.params
      BY <2>1
    <3>2. /\ item.params = [n \in DOMAIN item.params |-> item.params[n]]
          /\ item2.params = [n \in DOMAIN item2.params |-> item2.params[n]]
      BY <2>2 DEF ItemShape
    <3>. QED BY <2>3, <3>1, <3>2
  <2>5. item.comment = 0 /\ item2.comment = 0
    BY <2>2 DEF Commented
  <2>6. /\ item = [comment |-> item.comment, params |-> item.params]
        /\ item2 = [comment |-> item2.comment, params |-> item2.params]
    BY <2>2 DEF ItemShape
  <2>. QED BY <2>1, <2>4, <2>5, <2>6
<1>2. map = [s \in DOMAIN map |-> map[s]] /\ other = [s \in DOMAIN other |-> other[s]]
  BY DEF MapShape
<1>. QED BY <1>1, <1>2

\* The invariant says what survives.
LEMMA RoundSurvives ==
  ASSUME IniIInv, RoundInv
  PROVE  FileSurvives
<1>. SUFFICES ASSUME written.done, parse # "reading"
              PROVE  parse = "read" /\ _section_map = written.map <=> SurvivesAll(written.map)
  BY DEF FileSurvives, SurvivesAll, Calm, Commented, ParamsCommented
<1>1. WrittenInv /\ MapShape(_section_map)
  BY DEF RoundInv
<1>2. CASE parse # "read"
  BY <1>1, <1>2 DEF WrittenInv
<1>3. CASE parse = "read"
  <2>. PICK map : map = written.map
    OBVIOUS
  <2>1. MapShape(map) /\ ValuesWhole(map) /\ Calm(_section_map)
    BY <1>1 DEF WrittenInv
  <2>2. /\ FileShape(lines, map)
        /\ \A k \in 1 .. Len(lines) : lines[k].is # "no_value"
    BY <1>1, <1>3, ReadAll
  <2>3. Calm(map)
    BY <2>2 DEF FileShape, Calm
  <2>4. /\ DOMAIN _section_map = DOMAIN map
        /\ \A s \in DOMAIN map :
             /\ DOMAIN _section_map[s].params = DOMAIN map[s].params
             /\ \A n \in DOMAIN map[s].params :
                  LET read == ReadValue(WriteValue(map[s].params[n].value)) IN
                    read.ok /\ _section_map[s].params[n].value = read.value
    BY <1>1, <1>3, EachReadBack
  <2>5. ASSUME NEW s \in DOMAIN map, NEW n \in DOMAIN map[s].params
        PROVE  _section_map[s].params[n].value = map[s].params[n].value <=> Survives(map[s].params[n].value)
    <3>1. PICK v \in Seq(ValueCharacters) : v = map[s].params[n].value
      BY <2>1 DEF ValuesWhole
    <3>2. ReadValue(WriteValue(v)).ok /\ _section_map[s].params[n].value = ReadValue(WriteValue(v)).value
      BY <2>4, <3>1
    <3>3. ReadValue(WriteValue(v)).ok /\ ReadValue(WriteValue(v)).value = v <=> Survives(v)
      BY ValueSurvives
    <3>. QED BY <3>1, <3>2, <3>3
  <2>6. ASSUME _section_map = map PROVE SurvivesAll(map)
    BY <2>3, <2>5, <2>6 DEF SurvivesAll
  <2>7. ASSUME SurvivesAll(map) PROVE _section_map = map
    <3>1. PICK read : read = _section_map
      OBVIOUS
    <3>2. \A s \in DOMAIN map : \A n \in DOMAIN map[s].params :
            read[s].params[n].value = map[s].params[n].value
      BY <2>5, <2>7, <3>1 DEF SurvivesAll
    <3>3. /\ MapShape(read) /\ Calm(read) /\ DOMAIN read = DOMAIN map
          /\ \A s \in DOMAIN map : DOMAIN read[s].params = DOMAIN map[s].params
      BY <1>1, <2>1, <2>4, <3>1
    <3>. QED BY <2>1, <2>3, <3>1, <3>2, <3>3, SameMaps
  <2>. QED BY <1>3, <2>6, <2>7
<1>. QED BY <1>2, <1>3

\* A map that ini_file writes is read back as it was if it has no comments, and
\* each value that has to be quoted has marks of one kind only and no backslash
\* at its end; every other one is read back changed or not at all.
THEOREM WhatIsWrittenIsRead == IniSpec => []FileSurvives
<1>1. IniInit => RoundInv
  <2>1. SUFFICES ASSUME IniInit PROVE RoundInv
    OBVIOUS
  <2>2. _section_map = <<>> /\ written = [done |-> FALSE, map |-> <<>>, file |-> <<>>]
    BY <2>1 DEF IniInit
  <2>3. ~written.done
    BY <2>2
  <2>. QED BY <2>2, <2>3, EmptyMap DEF RoundInv
<1>. QED BY <1>1, IniInitInv, IniStepInv, RoundStepInv, RoundSurvives, PTL DEF IniSpec
=============================================================================
