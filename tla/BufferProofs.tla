---------------------------- MODULE BufferProofs ----------------------------
(***************************************************************************)
(* What is written to and read from buffers of another's making: rows of   *)
(* prepared statements and packet streams.                                 *)
(***************************************************************************)
EXTENDS Statement, PacketStreams, SequenceTheorems, TLAPS

(***************************************************************************)
(* Prepared statements.  Between a fetch and the row that is made of it    *)
(* every buffer begins with what was fetched, as far as it has room, and a *)
(* NUL follows a text that is shorter; the statement knows where the       *)
(* buffers are.                                                            *)
(***************************************************************************)
Byte == Nat \X Nat

\* A text of length bytes of the r-th row at a buffer's beginning.
StartsWith(b, r, length) ==
  /\ \A p \in 1 .. Smaller(length, Len(b)) : b[p] = <<r, p>>
  /\ length < Len(b) => b[length + 1] = NUL

LEMMA BytesAre ==
  ASSUME NEW r \in Nat, NEW n \in Nat
  PROVE  /\ Bytes(r, n) \in Seq(Byte) /\ Len(Bytes(r, n)) = n
         /\ \A p \in 1 .. n : Bytes(r, n)[p] = <<r, p>>
BY DEF Bytes, Byte

LEMMA NULIsAByte == NUL \in Byte /\ \A r \in Nat \ {0} : \A p : <<r, p>> # NUL
BY DEF NUL, Byte

LEMMA SmallerIs ==
  ASSUME NEW a \in Nat, NEW b \in Nat
  PROVE  Smaller(a, b) \in Nat /\ Smaller(a, b) <= a /\ Smaller(a, b) <= b /\ Smaller(a, b) \in {a, b}
BY DEF Smaller

\* Put writes into a buffer and leaves its size as it is.
LEMMA PutIs ==
  ASSUME NEW b \in Seq(Byte), NEW start \in Nat, NEW data \in Seq(Byte), start + Len(data) <= Len(b)
  PROVE  /\ Put(b, start, data) \in Seq(Byte) /\ Len(Put(b, start, data)) = Len(b)
         /\ \A p \in 1 .. start : Put(b, start, data)[p] = b[p]
         /\ \A p \in 1 .. Len(data) : Put(b, start, data)[start + p] = data[p]
         /\ \A p \in start + Len(data) + 1 .. Len(b) : Put(b, start, data)[p] = b[p]
<1>1. \A p \in 1 .. Len(b) : (IF p - start \in 1 .. Len(data) THEN data[p - start] ELSE b[p]) \in Byte
  OBVIOUS
<1>2. Put(b, start, data) \in Seq(Byte) /\ Len(Put(b, start, data)) = Len(b)
  BY <1>1 DEF Put
<1>3. \A p \in 1 .. Len(b) :
        Put(b, start, data)[p] = IF p - start \in 1 .. Len(data) THEN data[p - start] ELSE b[p]
  BY DEF Put
<1>4. \A p \in 1 .. Len(data) : start + p \in 1 .. Len(b) /\ (start + p) - start = p
  OBVIOUS
<1>. QED BY <1>2, <1>3, <1>4, SMTT(30)

\* What a fetch writes for a text of n bytes.
TextFor(b, r, n) == IF n < Len(b) THEN Bytes(r, n) \o <<NUL>> ELSE Bytes(r, Smaller(n, Len(b)))

LEMMA FetchedText ==
  ASSUME NEW b \in Seq(Byte), NEW r \in Nat, NEW n \in Nat
  PROVE  LET c == Put(b, 0, TextFor(b, r, n)) IN  c \in Seq(Byte) /\ Len(c) = Len(b) /\ StartsWith(c, r, n)
<1>. DEFINE text == TextFor(b, r, n)
            c == Put(b, 0, text)
            room == Smaller(n, Len(b))
<1>1. Len(b) \in Nat /\ room \in Nat /\ room = IF n < Len(b) THEN n ELSE Len(b)
  BY DEF Smaller
<1>. HIDE DEF room
<1>2. /\ text \in Seq(Byte) /\ \A p \in 1 .. room : text[p] = <<r, p>>
      /\ IF n < Len(b) THEN Len(text) = n + 1 /\ text[n + 1] = NUL ELSE Len(text) = room
  <2>1. CASE n < Len(b)
    <3>. DEFINE bytes == Bytes(r, n)
                last == <<NUL>>
    <3>1. bytes \in Seq(Byte) /\ Len(bytes) = n /\ \A p \in 1 .. n : bytes[p] = <<r, p>>
      BY BytesAre
    <3>2. last \in Seq(Byte) /\ Len(last) = 1 /\ last[1] = NUL
      BY NULIsAByte
    <3>3. text = bytes \o last
      BY <2>1 DEF TextFor
    <3>. HIDE DEF text, bytes, last
    <3>4. /\ bytes \o last \in Seq(Byte) /\ Len(bytes \o last) = Len(bytes) + Len(last)
          /\ \A i \in 1 .. Len(bytes) + Len(last) :
               (bytes \o last)[i] = IF i <= Len(bytes) THEN bytes[i] ELSE last[i - Len(bytes)]
      BY <3>1, <3>2, ConcatProperties
    <3>5. Len(text) = n + 1 /\ text[n + 1] = NUL
      BY <3>1, <3>2, <3>3, <3>4
    <3>6. \A p \in 1 .. n : text[p] = <<r, p>>
      BY <3>1, <3>2, <3>3, <3>4
    <3>. QED BY <1>1, <2>1, <3>3, <3>4, <3>5, <3>6
  <2>2. CASE ~(n < Len(b))
    <3>1. text = Bytes(r, room)
      BY <2>2 DEF room, TextFor
    <3>. HIDE DEF text
    <3>. QED BY <1>1, <2>2, <3>1, BytesAre
  <2>. QED BY <2>1, <2>2
<1>. HIDE DEF text
<1>3. 0 + Len(text) <= Len(b) /\ Len(text) \in Nat
  BY <1>1, <1>2
<1>4. /\ c \in Seq(Byte) /\ Len(c) = Len(b)
      /\ \A p \in 1 .. Len(text) : c[0 + p] = text[p]
  BY <1>2, <1>3, PutIs
<1>. HIDE DEF c
<1>5. \A p \in 1 .. Len(text) : c[p] = text[p]
  BY <1>3, <1>4
<1>6. \A p \in 1 .. room : c[p] = <<r, p>>
  BY <1>1, <1>2, <1>5
<1>7. n < Len(b) => c[n + 1] = NUL
  BY <1>1, <1>2, <1>5
<1>8. StartsWith(c, r, n)
  BY <1>4, <1>6, <1>7 DEF StartsWith, room
<1>. QED BY <1>4, <1>8 DEF c, text

LEMMA RefetchedText ==
  ASSUME NEW b \in Seq(Byte), NEW r \in Nat, NEW n \in Nat, n > Len(b), StartsWith(b, r, n)
  PROVE  LET c == Put(Enlarged(b, n + 1), Len(b), SubSeq(Bytes(r, n), Len(b) + 1, n))
         IN  c \in Seq(Byte) /\ Len(c) = n + 1 /\ StartsWith(c, r, n)
<1>. DEFINE m == Len(b)
            e == Enlarged(b, n + 1)
            bytes == Bytes(r, n)
            rest == SubSeq(bytes, m + 1, n)
            c == Put(e, m, rest)
<1>1. m \in Nat /\ m < n /\ \A p \in 1 .. m : b[p] = <<r, p>>
  BY DEF StartsWith, Smaller
<1>2. e \in Seq(Byte) /\ Len(e) = n + 1 /\ (\A p \in 1 .. m : e[p] = b[p]) /\ e[n + 1] = NUL
  <2>1. \A p \in 1 .. n + 1 : (IF p <= Len(b) THEN b[p] ELSE NUL) \in Byte
    BY NULIsAByte
  <2>2. e = [p \in 1 .. n + 1 |-> IF p <= Len(b) THEN b[p] ELSE NUL]
    BY DEF Enlarged
  <2>. HIDE DEF e
  <2>. QED BY <1>1, <2>1, <2>2
<1>3. bytes \in Seq(Byte) /\ Len(bytes) = n /\ \A p \in 1 .. n : bytes[p] = <<r, p>>
  BY BytesAre
<1>. HIDE DEF m, e, bytes
<1>4. rest \in Seq(Byte) /\ Len(rest) = n - m /\ \A p \in 1 .. n - m : rest[p] = <<r, m + p>>
  <2>1. \A p \in m + 1 .. n : bytes[p] \in Byte
    BY <1>1, <1>3
  <2>2. /\ rest \in Seq(Byte) /\ Len(rest) = IF m + 1 <= n THEN n - (m + 1) + 1 ELSE 0
        /\ \A p \in 1 .. n - (m + 1) + 1 : rest[p] = bytes[m + 1 + p - 1]
    BY <1>1, <2>1, SubSeqProperties
  <2>. HIDE DEF rest
  <2>3. n - (m + 1) + 1 = n - m /\ Len(rest) = n - m
    BY <1>1, <2>2
  <2>4. ASSUME NEW p \in 1 .. n - m PROVE rest[p] = <<r, m + p>>
    <3>1. m + 1 + p - 1 = m + p /\ m + p \in 1 .. n
      BY <1>1
    <3>. QED BY <1>3, <2>2, <2>3, <3>1
  <2>. QED BY <2>2, <2>3, <2>4
<1>. HIDE DEF rest
<1>5. m + Len(rest) <= Len(e)
  BY <1>1, <1>2, <1>4
<1>6. /\ c \in Seq(Byte) /\ Len(c) = Len(e)
      /\ \A p \in 1 .. m : c[p] = e[p]
      /\ \A p \in 1 .. Len(rest) : c[m + p] = rest[p]
      /\ \A p \in m + Len(rest) + 1 .. Len(e) : c[p] = e[p]
  BY <1>1, <1>2, <1>4, <1>5, PutIs
<1>. HIDE DEF c
<1>7. ASSUME NEW p \in 1 .. n PROVE c[p] = <<r, p>>
  <2>1. CASE p <= m
    BY <1>1, <1>2, <1>6, <2>1
  <2>2. CASE p > m
    <3>1. p - m \in 1 .. n - m /\ m + (p - m) = p
      BY <1>1, <2>2
    <3>2. c[m + (p - m)] = rest[p - m]
      BY <1>4, <1>6, <3>1
    <3>. QED BY <1>4, <3>1, <3>2
  <2>. QED BY <1>1, <2>1, <2>2
<1>8. c[n + 1] = NUL
  BY <1>1, <1>2, <1>4, <1>6
<1>9. StartsWith(c, r, n)
  BY <1>2, <1>6, <1>7, <1>8 DEF StartsWith, Smaller
<1>. QED BY <1>2, <1>6, <1>9 DEF c, e, m, rest, bytes

LEMMA StringText ==
  ASSUME NEW b \in Seq(Byte), NEW r \in Nat, NEW n \in Nat, n <= Len(b), StartsWith(b, r, n)
  PROVE  SubSeq(b, 1, n) = Bytes(r, n)
<1>1. \A p \in 1 .. n : b[p] = <<r, p>> /\ b[p] \in Byte
  BY DEF StartsWith, Smaller
<1>. DEFINE part == SubSeq(b, 1, n)
<1>2. part \in Seq(Byte) /\ Len(part) = n /\ \A p \in 1 .. n : part[p] = b[p]
  <2>1. /\ part \in Seq(Byte) /\ Len(part) = IF 1 <= n THEN n - 1 + 1 ELSE 0
        /\ \A p \in 1 .. n - 1 + 1 : part[p] = b[1 + p - 1]
    BY <1>1, SubSeqProperties
  <2>. HIDE DEF part
  <2>. QED BY <2>1
<1>. HIDE DEF part
<1>3. part = Bytes(r, n)
  <2>. DEFINE bytes == Bytes(r, n)
  <2>1. bytes \in Seq(Byte) /\ Len(bytes) = n /\ \A p \in 1 .. n : bytes[p] = <<r, p>>
    BY BytesAre
  <2>. HIDE DEF bytes
  <2>2. Len(part) = Len(bytes) /\ \A p \in 1 .. Len(part) : part[p] = bytes[p]
    BY <1>1, <1>2, <2>1
  <2>3. part = bytes
    BY <1>2, <2>1, <2>2, SeqEqual
  <2>. QED BY <2>3 DEF bytes
<1>. QED BY <1>3 DEF part

\* Up to its NUL, a text is what was fetched, since no byte of it is a NUL.
LEMMA ParsedText ==
  ASSUME NEW b \in Seq(Byte), NEW r \in Nat \ {0}, NEW n \in Nat, n <= Len(b), StartsWith(b, r, n)
  PROVE  UpToNUL(b) = Bytes(r, n)
<1>1. Len(b) \in Nat /\ (\A p \in 1 .. n : b[p] = <<r, p>>) /\ (n < Len(b) => b[n + 1] = NUL)
  BY DEF StartsWith, Smaller
<1>2. \A p \in 1 .. n : b[p] # NUL
  BY <1>1, NULIsAByte
<1>3. CASE n < Len(b)
  <2>. DEFINE Found(p) == b[p] = NUL /\ \A q \in 1 .. p - 1 : b[q] # NUL
              end == CHOOSE p \in 1 .. Len(b) : Found(p)
  <2>1. n + 1 \in 1 .. Len(b) /\ b[n + 1] = NUL
    BY <1>1, <1>3
  <2>2. Ended(b)
    BY <2>1 DEF Ended
  <2>3. Found(n + 1)
    BY <1>2, <2>1
  <2>4. end \in 1 .. Len(b) /\ Found(end)
    BY <2>1, <2>3
  <2>5. UpToNUL(b) = SubSeq(b, 1, end - 1)
    BY <2>2 DEF UpToNUL
  <2>. HIDE DEF end
  <2>6. end = n + 1
    <3>1. ~(end < n + 1)
      BY <1>2, <2>4
    <3>2. ~(n + 1 < end)
      BY <2>1, <2>4
    <3>. QED BY <2>4, <3>1, <3>2
  <2>7. end - 1 = n
    BY <2>6
  <2>. QED BY <1>3, <2>5, <2>7, StringText
<1>4. CASE ~(n < Len(b))
  <2>1. n = Len(b) /\ ~Ended(b)
    BY <1>1, <1>2, <1>4 DEF Ended
  <2>2. b = Bytes(r, n)
    <3>. DEFINE bytes == Bytes(r, n)
    <3>1. bytes \in Seq(Byte) /\ Len(bytes) = n /\ \A p \in 1 .. n : bytes[p] = <<r, p>>
      BY BytesAre
    <3>. HIDE DEF bytes
    <3>2. Len(b) = Len(bytes) /\ \A p \in 1 .. Len(b) : b[p] = bytes[p]
      BY <1>1, <2>1, <3>1
    <3>3. b = bytes
      BY <3>1, <3>2, SeqEqual
    <3>. QED BY <3>3 DEF bytes
  <2>. QED BY <2>1, <2>2 DEF UpToNUL
<1>. QED BY <1>3, <1>4

LEMMA FetchedNumber ==
  ASSUME NEW b \in Seq(Byte), NEW r \in Nat, NEW n \in Nat, Len(b) = FixedSize
  PROVE  Put(b, 0, Number(r, n)) = Number(r, n) /\ Number(r, n) \in Seq(Byte) /\ Len(Number(r, n)) = FixedSize
<1>. DEFINE number == Number(r, n)
            c == Put(b, 0, number)
<1>1. FixedSize \in Nat
  BY StatementAssumption DEF StatementAssumption
<1>2. number \in Seq(Byte) /\ Len(number) = FixedSize
  <2>1. \A p \in 1 .. FixedSize : (IF p <= n THEN <<r, p>> ELSE NUL) \in Byte
    BY <1>1, NULIsAByte DEF Byte
  <2>. QED BY <1>1, <2>1 DEF Number
<1>. HIDE DEF number
<1>3. /\ c \in Seq(Byte) /\ Len(c) = Len(b)
      /\ \A p \in 1 .. Len(number) : c[0 + p] = number[p]
  BY <1>1, <1>2, PutIs
<1>. HIDE DEF c
<1>4. \A p \in 1 .. Len(number) : c[p] = number[p]
  BY <1>1, <1>2, <1>3
<1>5. c = number
  BY <1>2, <1>3, <1>4, SeqEqual
<1>. QED BY <1>2, <1>5 DEF c, number

Fetching == {"fetch", "truncated", "row"}
Early == {"idle", "prepared", "bind", "execute", "bound"}

StatementTypes ==
  /\ rows \in Seq([Columns -> Lengths \cup {Null}])
  /\ results \in Seq([Columns -> Seq(Byte) \cup {Null}])
  /\ buffers \in [Columns -> Seq(Byte)]
  /\ lengths \in [Columns -> Nat] /\ nullFlags \in [Columns -> BOOLEAN]
  /\ stage \in {"bound"} \cup Fetching => types \in [Columns -> Types]
ArgumentInv ==
  /\ stage \in {"bind", "execute"} => Len(given) \in Nat
  /\ stage = "execute" => inputs = [k \in 1 .. Len(given) |-> Input(k, given[k])]
EarlyInv ==
  /\ stage \in Early => rows = <<>> /\ results = <<>> /\ lengths = [i \in Columns |-> 0]
  /\ stage \in Early \ {"bound"} => buffers = [i \in Columns |-> <<>>]
BufferInv ==
  /\ stage \in {"bound"} \cup Fetching =>
       /\ parameters = BindParameters(buffers)
       /\ \A i \in Columns : ~IsText(i) => Len(buffers[i]) = FixedSize
  /\ stage \in Fetching => bound = parameters
LengthInv ==
  stage \in Fetching => \A i \in Columns :
    TooLong(i) => stage = "truncated" /\ ~nullFlags[i] /\ IsText(i)
\* The i-th column's buffer holds what was fetched for it in the r-th row.
Holds(i, r) ==
  /\ nullFlags[i] <=> rows[r][i] = Null
  /\ ~nullFlags[i] /\ IsText(i) => lengths[i] = rows[r][i] /\ StartsWith(buffers[i], r, lengths[i])
  /\ ~nullFlags[i] /\ ~IsText(i) => buffers[i] = Number(r, rows[r][i])
RowInv == stage \in {"truncated", "row"} => \A i \in Columns : Holds(i, Len(rows))
CountInv ==
  /\ Len(results) <= Len(rows)
  /\ stage \in {"fetch", "returned"} => Len(results) = Len(rows)
  /\ stage \in {"truncated", "row"} => Len(results) + 1 = Len(rows)
WholeInv == \A r \in 1 .. Len(results), i \in Columns : Whole(r, i)
StatementIInv ==
  /\ StatementTypes /\ ArgumentInv /\ EarlyInv /\ BufferInv
  /\ LengthInv /\ RowInv /\ CountInv /\ WholeInv

LEMMA StatementInitInv == StatementInit => StatementIInv
<1>. SUFFICES ASSUME StatementInit PROVE StatementIInv
  OBVIOUS
<1>1. stage = "idle" /\ stage \notin Fetching /\ stage \in Early
  BY DEF StatementInit, Fetching, Early
<1>2. StatementTypes
  BY <1>1 DEF StatementInit, StatementTypes
<1>3. ArgumentInv /\ EarlyInv /\ BufferInv /\ LengthInv /\ RowInv
  BY <1>1 DEF StatementInit, ArgumentInv, EarlyInv, BufferInv, LengthInv, RowInv
<1>4. CountInv /\ WholeInv
  BY <1>1 DEF StatementInit, CountInv, WholeInv
<1>. QED BY <1>2, <1>3, <1>4 DEF StatementIInv

\* A step that leaves rows, buffers and results alone and goes on to a stage
\* that asks no more of them.
LEMMA QuietStep ==
  ASSUME StatementIInv, UNCHANGED <<rows, types, binding, results, overread>>, ArgumentInv',
         stage' \notin {"bound"} \cup Fetching,
         stage' \in Early => stage \in Early \ {"bound"},
         stage' = "returned" => stage = "fetch" \/ stage \in Early
  PROVE  StatementIInv'
<1>. USE DEF binding
<1>1. StatementTypes'
  BY DEF StatementIInv, StatementTypes
<1>2. EarlyInv'
  BY DEF StatementIInv, EarlyInv
<1>3. BufferInv' /\ LengthInv' /\ RowInv'
  BY DEF BufferInv, LengthInv, RowInv, Fetching
<1>4. CountInv'
  BY DEF StatementIInv, EarlyInv, CountInv, Fetching
<1>5. WholeInv'
  BY DEF StatementIInv, WholeInv, Whole, IsText
<1>. QED BY <1>1, <1>2, <1>3, <1>4, <1>5 DEF StatementIInv

LEMMA ThrowStep ==
  ASSUME StatementIInv, Unchanged, stage' \in {"MySqlException", "bad_lexical_cast"}
  PROVE  StatementIInv'
<1>1. stage' \notin Early /\ stage' \notin Fetching /\ stage' # "bound" /\ stage' # "returned"
  BY DEF Early, Fetching
<1>2. ArgumentInv'
  BY <1>1 DEF ArgumentInv, Early
<1>. QED BY <1>1, <1>2, QuietStep DEF Unchanged

LEMMA SetResultsStep ==
  ASSUME StatementIInv, SetResults
  PROVE  StatementIInv'
<1>. USE DEF arguments
<1>1. /\ stage = "execute" /\ stage' = "bound" /\ types' \in [Columns -> Types]
      /\ buffers' = [i \in Columns |-> SetParameter(types'[i], buffers[i])]
      /\ parameters' = BindParameters(buffers')
      /\ UNCHANGED <<rows, results, lengths, nullFlags>>
  BY DEF SetResults
<1>2. stage \in Early /\ stage' \in Early /\ stage' \notin Fetching
  BY <1>1 DEF Early, Fetching
<1>3. rows = <<>> /\ results = <<>> /\ lengths = [i \in Columns |-> 0] /\ buffers = [i \in Columns |-> <<>>]
  BY <1>1, <1>2 DEF StatementIInv, EarlyInv
<1>4. FixedSize \in Nat /\ TextSize \in Nat
  BY StatementAssumption DEF StatementAssumption
<1>5. ASSUME NEW n \in Nat PROVE Buffer(n) \in Seq(Byte) /\ Len(Buffer(n)) = n
  BY NULIsAByte DEF Buffer
<1>6. ASSUME NEW i \in Columns
      PROVE  buffers'[i] \in Seq(Byte) /\ (types'[i].of = "fixed" => Len(buffers'[i]) = FixedSize)
  BY <1>1, <1>3, <1>4, <1>5 DEF SetParameter
<1>7. buffers' \in [Columns -> Seq(Byte)]
  BY <1>1, <1>6
<1>8. StatementTypes'
  BY <1>1, <1>7 DEF StatementIInv, StatementTypes
<1>9. ArgumentInv' /\ EarlyInv'
  BY <1>1, <1>2, <1>3 DEF ArgumentInv, EarlyInv
<1>10. BufferInv'
  BY <1>1, <1>2, <1>6 DEF BufferInv, IsText, Fetching, BindParameters
<1>11. LengthInv' /\ RowInv' /\ CountInv' /\ WholeInv'
  BY <1>1, <1>2, <1>3 DEF LengthInv, RowInv, CountInv, WholeInv, Fetching
<1>. QED BY <1>8, <1>9, <1>10, <1>11 DEF StatementIInv

LEMMA BindAndExecuteStep ==
  ASSUME StatementIInv, BindAndExecuteStatement
  PROVE  StatementIInv'
<1>. USE DEF arguments
<1>1. CASE Throw
  BY <1>1, ThrowStep DEF Throw
<1>2. CASE ~Throw
  <2>1. /\ stage = "bound" /\ bound' = parameters /\ stage' = "fetch"
        /\ UNCHANGED <<call, fields, types, rows, buffers, parameters, lengths, nullFlags, results, overread>>
    BY <1>2 DEF BindAndExecuteStatement
  <2>2. stage \in Early /\ stage' \notin Early /\ stage' \in Fetching
    BY <2>1 DEF Early, Fetching
  <2>3. rows = <<>> /\ results = <<>> /\ lengths = [i \in Columns |-> 0]
    BY <2>1, <2>2 DEF StatementIInv, EarlyInv
  <2>4. StatementTypes' /\ ArgumentInv' /\ EarlyInv'
    BY <2>1, <2>2 DEF StatementIInv, StatementTypes, ArgumentInv, EarlyInv
  <2>5. BufferInv'
    BY <2>1, <2>2 DEF StatementIInv, BufferInv, BindParameters, IsText
  <2>6. LengthInv'
    <3>1. \A i \in Columns : Len(buffers[i]) \in Nat
      BY DEF StatementIInv, StatementTypes
    <3>2. \A i \in Columns : ~TooLong(i)'
      BY <2>1, <2>3, <3>1 DEF TooLong
    <3>. QED BY <3>2 DEF LengthInv
  <2>7. RowInv' /\ CountInv' /\ WholeInv'
    BY <2>1, <2>3 DEF RowInv, CountInv, WholeInv
  <2>. QED BY <2>4, <2>5, <2>6, <2>7 DEF StatementIInv
<1>. QED BY <1>1, <1>2

\* The rows handed out stay whole when another is fetched.
LEMMA WholeKept ==
  ASSUME StatementIInv, UNCHANGED <<types, results>>, overread' = overread,
         NEW row, rows' = Append(rows, row) \/ rows' = rows, row \in [Columns -> Lengths \cup {Null}]
  PROVE  WholeInv'
<1>1. rows \in Seq([Columns -> Lengths \cup {Null}]) /\ Len(results) \in Nat /\ Len(results) <= Len(rows)
  BY DEF StatementIInv, StatementTypes, CountInv
<1>2. \A r \in 1 .. Len(results) : rows'[r] = rows[r]
  BY <1>1
<1>. QED BY <1>2 DEF StatementIInv, WholeInv, Whole, IsText

LEMMA FetchStep ==
  ASSUME StatementIInv, Fetch
  PROVE  StatementIInv'
<1>. USE DEF arguments
<1>1. stage = "fetch" /\ stage \in Fetching /\ stage \notin Early
  BY DEF Fetch, Fetching, Early
<1>2. CASE Throw
  BY <1>2, ThrowStep DEF Throw
<1>3. CASE stage' = "returned" /\ Unchanged
  <2>1. stage' \notin {"bound"} \cup Fetching /\ stage' \notin Early
    BY <1>3 DEF Fetching, Early
  <2>2. ArgumentInv'
    BY <1>3 DEF ArgumentInv
  <2>. QED BY <1>1, <1>3, <2>1, <2>2, QuietStep DEF Unchanged
<1>4. CASE ~ThrowIfFetchError
  <2>1. Len(rows) \in Nat
    BY DEF StatementIInv, StatementTypes
  <2>. PICK r \in Nat \ {0} : r = Len(rows) + 1
    BY <2>1
  <2>2. PICK row \in [Columns -> Lengths \cup {Null}] :
          /\ rows' = Append(rows, row)
          /\ buffers' = [i \in Columns |-> Fetched(i, r, row[i])]
          /\ lengths' = [i \in Columns |-> IF row[i] = Null THEN lengths[i] ELSE IF IsText(i) THEN row[i] ELSE FixedSize]
          /\ nullFlags' = [i \in Columns |-> row[i] = Null]
          /\ stage' = IF \E i \in Columns : Truncated(i, row[i]) THEN "truncated" ELSE "row"
    BY <1>4 DEF Fetch
  <2>3. UNCHANGED <<types, parameters, bound, results, overread>>
    BY <1>4 DEF Fetch
  <2>4. /\ stage' \in {"truncated", "row"} /\ stage' \in Fetching /\ stage' \notin Early
    BY <2>2 DEF Fetching, Early
  <2>5. /\ rows \in Seq([Columns -> Lengths \cup {Null}]) /\ Len(rows') = r /\ rows'[r] = row
        /\ rows' \in Seq([Columns -> Lengths \cup {Null}]) /\ r \in Nat \ {0}
    BY <2>2 DEF StatementIInv, StatementTypes
  <2>6. Lengths \subseteq Nat /\ Null \notin Nat /\ FixedSize \in Nat
    BY StatementAssumption DEF StatementAssumption
  <2>7. ASSUME NEW i \in Columns
        PROVE  /\ buffers[i] \in Seq(Byte) /\ lengths[i] \in Nat /\ Len(buffers[i]) \in Nat
               /\ bound[i].start = 0 /\ bound[i].length = Len(buffers[i])
               /\ ~IsText(i) => Len(buffers[i]) = FixedSize
               /\ lengths[i] <= Len(buffers[i])
               /\ row[i] # Null => row[i] \in Nat
               /\ buffers'[i] = Fetched(i, r, row[i])
               /\ lengths'[i] = IF row[i] = Null THEN lengths[i] ELSE IF IsText(i) THEN row[i] ELSE FixedSize
               /\ nullFlags'[i] <=> row[i] = Null
    <3>1. buffers[i] \in Seq(Byte) /\ lengths[i] \in Nat
      BY DEF StatementIInv, StatementTypes
    <3>2. bound[i] = Bind(Len(buffers[i]), 0, Len(buffers[i]))
      BY <1>1 DEF StatementIInv, BufferInv, BindParameters
    <3>3. lengths[i] <= Len(buffers[i])
      BY <1>1, <3>1 DEF StatementIInv, LengthInv, TooLong
    <3>4. ~IsText(i) => Len(buffers[i]) = FixedSize
      BY <1>1 DEF StatementIInv, BufferInv
    <3>5. bound[i].start = 0 /\ bound[i].length = Len(buffers[i])
      BY <3>2 DEF Bind
    <3>6. row[i] # Null => row[i] \in Nat
      BY <2>6
    <3>7. /\ buffers'[i] = Fetched(i, r, row[i])
          /\ lengths'[i] = IF row[i] = Null THEN lengths[i] ELSE IF IsText(i) THEN row[i] ELSE FixedSize
          /\ nullFlags'[i] <=> row[i] = Null
      BY <2>2
    <3>. QED BY <3>1, <3>3, <3>4, <3>5, <3>6, <3>7
  <2>8. ASSUME NEW i \in Columns
        PROVE  /\ buffers'[i] \in Seq(Byte) /\ Len(buffers'[i]) = Len(buffers[i])
               /\ row[i] # Null /\ IsText(i) => StartsWith(buffers'[i], r, row[i])
               /\ row[i] # Null /\ ~IsText(i) => buffers'[i] = Number(r, row[i])
    <3>. DEFINE b == buffers[i]
                n == row[i]
                text == TextFor(b, r, n)
    <3>1. CASE row[i] = Null
      BY <2>7, <3>1 DEF Fetched
    <3>2. CASE row[i] # Null
      <4>1. buffers'[i] = Put(b, 0, IF IsText(i) THEN text ELSE Number(r, n))
        BY <2>7, <3>2 DEF Fetched, TextFor
      <4>2. b \in Seq(Byte) /\ n \in Nat /\ (~IsText(i) => Len(b) = FixedSize)
        BY <2>7, <3>2
      <4>3. CASE IsText(i)
        <5>1. Put(b, 0, text) \in Seq(Byte) /\ Len(Put(b, 0, text)) = Len(b) /\ StartsWith(Put(b, 0, text), r, n)
          BY <2>5, <4>2, FetchedText
        <5>. QED BY <4>1, <4>3, <5>1
      <4>4. CASE ~IsText(i)
        <5>1. Put(b, 0, Number(r, n)) = Number(r, n) /\ Number(r, n) \in Seq(Byte) /\ Len(Number(r, n)) = FixedSize
          BY <2>5, <4>2, <4>4, FetchedNumber
        <5>. QED BY <4>1, <4>2, <4>4, <5>1
      <4>. QED BY <4>3, <4>4
    <3>. QED BY <3>1, <3>2
  <2>9. StatementTypes'
    <3>1. buffers' \in [Columns -> Seq(Byte)]
      BY <2>2, <2>8
    <3>2. lengths' \in [Columns -> Nat] /\ nullFlags' \in [Columns -> BOOLEAN]
      BY <2>2, <2>6, <2>7
    <3>. QED BY <1>1, <2>3, <2>5, <3>1, <3>2 DEF StatementIInv, StatementTypes
  <2>10. ArgumentInv' /\ EarlyInv'
    BY <2>4 DEF ArgumentInv, EarlyInv
  <2>11. BufferInv'
    <3>1. BindParameters(buffers') = BindParameters(buffers)
      BY <2>8 DEF BindParameters
    <3>2. parameters = BindParameters(buffers) /\ bound = parameters
      BY <1>1 DEF StatementIInv, BufferInv
    <3>3. \A i \in Columns : ~IsText(i)' => Len(buffers'[i]) = FixedSize
      BY <2>3, <2>7, <2>8 DEF IsText
    <3>. QED BY <2>3, <3>1, <3>2, <3>3 DEF BufferInv
  <2>12. LengthInv'
    <3>1. ASSUME NEW i \in Columns, TooLong(i)'
          PROVE  stage' = "truncated" /\ ~nullFlags'[i] /\ IsText(i)'
      <4>1. lengths'[i] > Len(buffers[i])
        BY <2>8, <3>1 DEF TooLong
      <4>2. row[i] # Null /\ IsText(i)
        BY <2>6, <2>7, <4>1
      <4>3. Truncated(i, row[i])
        BY <2>7, <4>1, <4>2 DEF Truncated
      <4>. QED BY <2>2, <2>3, <2>7, <4>2, <4>3 DEF IsText
    <3>. QED BY <3>1 DEF LengthInv
  <2>13. RowInv'
    <3>1. ASSUME NEW i \in Columns PROVE Holds(i, r)'
      BY <2>3, <2>5, <2>7, <2>8 DEF Holds, IsText
    <3>. QED BY <2>5, <3>1 DEF RowInv
  <2>14. CountInv'
    BY <1>1, <2>3, <2>4, <2>5 DEF StatementIInv, CountInv, StatementTypes
  <2>15. WholeInv'
    BY <2>2, <2>3, WholeKept
  <2>. QED BY <2>9, <2>10, <2>11, <2>12, <2>13, <2>14, <2>15 DEF StatementIInv
<1>. QED BY <1>2, <1>3, <1>4 DEF ThrowIfFetchError

LEMMA RefetchStep ==
  ASSUME StatementIInv, Refetch
  PROVE  StatementIInv'
<1>. USE DEF arguments
<1>1. stage = "truncated" /\ stage \in Fetching /\ stage \notin Early
  BY DEF Refetch, Fetching, Early
<1>2. CASE Throw
  BY <1>2, ThrowStep DEF Throw
<1>3. CASE ~Throw
  <2>1. Len(rows) \in Nat
    BY DEF StatementIInv, StatementTypes
  <2>. PICK r \in Nat : r = Len(rows)
    BY <2>1
  <2>2. /\ buffers' = [i \in Columns |-> IF TooLong(i) THEN Refetched(i) ELSE buffers[i]]
        /\ parameters' = [i \in Columns |-> IF TooLong(i) THEN BindParameters(buffers')[i] ELSE parameters[i]]
        /\ bound' = IF \E i \in Columns : TooLong(i) THEN parameters' ELSE bound
        /\ stage' = "row"
        /\ UNCHANGED <<call, fields, given, inputs, types, rows, lengths, nullFlags, results, overread>>
    BY <1>3 DEF Refetch, Rebind
  <2>3. stage' \in Fetching /\ stage' \notin Early
    BY <2>2 DEF Fetching, Early
  <2>4. ASSUME NEW i \in Columns
        PROVE  /\ buffers[i] \in Seq(Byte) /\ lengths[i] \in Nat /\ Len(buffers[i]) \in Nat
               /\ parameters[i] = Bind(Len(buffers[i]), 0, Len(buffers[i]))
               /\ ~IsText(i) => Len(buffers[i]) = FixedSize
               /\ Holds(i, r)
               /\ TooLong(i) => ~nullFlags[i] /\ IsText(i)
    BY <1>1 DEF StatementIInv, StatementTypes, BufferInv, BindParameters, LengthInv, RowInv
  <2>5. ASSUME NEW i \in Columns
        PROVE  /\ buffers'[i] \in Seq(Byte) /\ lengths[i] <= Len(buffers'[i]) /\ Holds(i, r)'
               /\ ~TooLong(i) => buffers'[i] = buffers[i]
    <3>1. CASE TooLong(i)
      <4>. DEFINE b == buffers[i]
                  n == lengths[i]
                  c == Put(Enlarged(b, n + 1), Len(b), SubSeq(Bytes(r, n), Len(b) + 1, n))
      <4>1. buffers'[i] = c
        BY <2>2, <3>1 DEF Refetched, Rest, Bind
      <4>2. b \in Seq(Byte) /\ n \in Nat /\ n > Len(b) /\ StartsWith(b, r, n)
        BY <2>4, <3>1 DEF TooLong, Holds
      <4>3. c \in Seq(Byte) /\ Len(c) = n + 1 /\ StartsWith(c, r, n)
        BY <4>2, RefetchedText
      <4>. HIDE DEF c
      <4>. QED BY <2>2, <2>4, <3>1, <4>1, <4>2, <4>3 DEF Holds, IsText
    <3>2. CASE ~TooLong(i)
      <4>1. buffers'[i] = buffers[i]
        BY <2>2, <3>2
      <4>. QED BY <2>2, <2>4, <3>2, <4>1 DEF Holds, TooLong, IsText
    <3>. QED BY <3>1, <3>2
  <2>6. StatementTypes'
    <3>1. buffers' \in [Columns -> Seq(Byte)]
      BY <2>2, <2>5
    <3>. QED BY <1>1, <2>2, <3>1 DEF StatementIInv, StatementTypes
  <2>7. ArgumentInv' /\ EarlyInv'
    BY <2>2, <2>3 DEF ArgumentInv, EarlyInv
  <2>8. BufferInv'
    <3>1. \A i \in Columns : ~TooLong(i) => BindParameters(buffers')[i] = parameters[i]
      BY <2>4, <2>5 DEF BindParameters
    <3>2. parameters' = BindParameters(buffers')
      <4>1. parameters' = [i \in Columns |-> BindParameters(buffers')[i]]
        BY <2>2, <3>1
      <4>. QED BY <4>1 DEF BindParameters
    <3>3. bound' = parameters'
      <4>1. CASE \E i \in Columns : TooLong(i)
        BY <2>2, <4>1
      <4>2. CASE ~\E i \in Columns : TooLong(i)
        <5>1. bound = parameters /\ parameters = BindParameters(buffers)
          BY <1>1 DEF StatementIInv, BufferInv
        <5>2. parameters' = [i \in Columns |-> parameters[i]]
          BY <2>2, <4>2
        <5>. QED BY <2>2, <4>2, <5>1, <5>2 DEF BindParameters
      <4>. QED BY <4>1, <4>2
    <3>4. \A i \in Columns : ~IsText(i)' => Len(buffers'[i]) = FixedSize
      BY <2>2, <2>4, <2>5 DEF IsText
    <3>. QED BY <3>2, <3>3, <3>4 DEF BufferInv
  <2>9. LengthInv'
    <3>1. \A i \in Columns : ~TooLong(i)'
      BY <2>2, <2>4, <2>5 DEF TooLong
    <3>. QED BY <3>1 DEF LengthInv
  <2>10. RowInv'
    BY <2>2, <2>5 DEF RowInv
  <2>11. CountInv'
    BY <1>1, <2>2 DEF StatementIInv, CountInv
  <2>12. WholeInv'
    BY <2>2 DEF StatementIInv, WholeInv, Whole, IsText
  <2>. QED BY <2>6, <2>7, <2>8, <2>9, <2>10, <2>11, <2>12 DEF StatementIInv
<1>. QED BY <1>2, <1>3

\* A row is made of whole columns.
LEMMA ResultWhole ==
  ASSUME StatementIInv, stage = "row", NEW i \in Columns
  PROVE  /\ Result(i) = LET n == rows[Len(rows)][i] IN
              IF n = Null THEN Null ELSE IF IsText(i) THEN Bytes(Len(rows), n) ELSE Number(Len(rows), n)
         /\ Result(i) \in Seq(Byte) \cup {Null}
<1>. DEFINE r == Len(rows)
            n == rows[r][i]
<1>1. stage \in Fetching /\ Holds(i, r) /\ buffers[i] \in Seq(Byte) /\ nullFlags[i] \in BOOLEAN
  BY DEF Fetching, StatementIInv, RowInv, StatementTypes
<1>2. types[i] \in Types /\ types[i].of \in {"string", "parsed", "fixed"}
  BY <1>1, StatementAssumption DEF StatementAssumption, StatementIInv, StatementTypes
<1>3. r \in Nat \ {0} /\ (n # Null => n \in Nat)
  <2>1. rows \in Seq([Columns -> Lengths \cup {Null}]) /\ Len(results) \in Nat /\ Len(results) + 1 = Len(rows)
    BY DEF StatementIInv, StatementTypes, CountInv
  <2>2. rows[r] \in [Columns -> Lengths \cup {Null}]
    BY <2>1
  <2>3. rows[r][i] \in Lengths \cup {Null}
    BY <2>2
  <2>4. Lengths \subseteq Nat
    BY StatementAssumption DEF StatementAssumption
  <2>5. r \in Nat \ {0}
    <3>1. Len(rows) \in Nat
      BY <2>1
    <3>. QED BY <2>1, <3>1
  <2>. QED BY <2>3, <2>4, <2>5
<1>4. lengths[i] \in Nat /\ lengths[i] <= Len(buffers[i])
  <2>1. lengths[i] \in Nat /\ Len(buffers[i]) \in Nat
    BY DEF StatementIInv, StatementTypes
  <2>. QED BY <1>1, <2>1 DEF StatementIInv, LengthInv, TooLong
<1>. HIDE DEF r, n
<1>5. CASE nullFlags[i]
  BY <1>1, <1>5 DEF Result, Holds, n, r
<1>6. CASE ~nullFlags[i] /\ IsText(i)
  <2>1. n # Null /\ lengths[i] = n /\ StartsWith(buffers[i], r, n)
    BY <1>1, <1>6 DEF Holds, n
  <2>2. SubSeq(buffers[i], 1, n) = Bytes(r, n) /\ UpToNUL(buffers[i]) = Bytes(r, n)
    BY <1>1, <1>3, <1>4, <2>1, StringText, ParsedText
  <2>3. Result(i) = Bytes(r, n)
    BY <1>2, <1>6, <2>1, <2>2 DEF Result, IsText
  <2>. QED BY <1>3, <1>6, <2>1, <2>3, BytesAre DEF n, r
<1>7. CASE ~nullFlags[i] /\ ~IsText(i)
  <2>1. n # Null /\ buffers[i] = Number(r, n)
    BY <1>1, <1>7 DEF Holds, n
  <2>2. Result(i) = buffers[i]
    BY <1>2, <1>7 DEF Result, IsText
  <2>. QED BY <1>1, <1>7, <2>1, <2>2 DEF n, r
<1>. QED BY <1>1, <1>5, <1>6, <1>7

LEMMA SetResultTupleStep ==
  ASSUME StatementIInv, SetResultTuple
  PROVE  StatementIInv'
<1>1. stage = "row" /\ stage \in Fetching /\ stage \notin Early
  BY DEF SetResultTuple, Fetching, Early
<1>2. CASE Throw
  BY <1>2, ThrowStep DEF Throw
<1>3. CASE stage' = "bad_lexical_cast" /\ Unchanged
  BY <1>3, ThrowStep
<1>4. CASE ~Throw /\ ~(stage' = "bad_lexical_cast" /\ Unchanged)
  <2>1. /\ results' = Append(results, [i \in Columns |-> Result(i)])
        /\ overread' = (overread \/ \E i \in Columns : Parsed(i) /\ ~Ended(buffers[i]))
        /\ stage' = "fetch"
        /\ UNCHANGED <<call, fields, given, inputs, types, rows, binding>>
    BY <1>4 DEF SetResultTuple, arguments
  <2>2. stage' \in Fetching /\ stage' \notin Early
    BY <2>1 DEF Fetching, Early
  <2>. DEFINE tuple == [i \in Columns |-> Result(i)]
  <2>3. tuple \in [Columns -> Seq(Byte) \cup {Null}]
    BY <1>1, ResultWhole
  <2>4. \A i \in Columns : tuple[i] = LET n == rows[Len(rows)][i] IN
          IF n = Null THEN Null ELSE IF IsText(i) THEN Bytes(Len(rows), n) ELSE Number(Len(rows), n)
    BY <1>1, ResultWhole
  <2>. HIDE DEF tuple
  <2>5. /\ results \in Seq([Columns -> Seq(Byte) \cup {Null}]) /\ Len(results) \in Nat
        /\ results' = Append(results, tuple) /\ Len(results) + 1 = Len(rows)
    BY <1>1, <2>1 DEF StatementIInv, StatementTypes, CountInv, tuple
  <2>6. /\ results' \in Seq([Columns -> Seq(Byte) \cup {Null}]) /\ Len(results') = Len(rows)
        /\ results'[Len(rows)] = tuple /\ \A r \in 1 .. Len(results) : results'[r] = results[r]
    BY <2>3, <2>5
  <2>7. StatementTypes'
    BY <1>1, <2>1, <2>6 DEF StatementIInv, StatementTypes, binding
  <2>8. ArgumentInv' /\ EarlyInv' /\ RowInv'
    BY <2>1, <2>2 DEF ArgumentInv, EarlyInv, RowInv
  <2>9. BufferInv'
    BY <1>1, <2>1 DEF StatementIInv, BufferInv, BindParameters, IsText, binding
  <2>10. LengthInv'
    BY <1>1, <2>1 DEF StatementIInv, LengthInv, TooLong, binding
  <2>11. CountInv'
    BY <2>1, <2>5, <2>6 DEF CountInv
  <2>12. WholeInv'
    <3>1. ASSUME NEW r \in 1 .. Len(results'), NEW i \in Columns PROVE Whole(r, i)'
      <4>1. CASE r \in 1 .. Len(results)
        BY <2>1, <2>6, <4>1 DEF StatementIInv, WholeInv, Whole, IsText
      <4>2. CASE r = Len(rows)
        BY <2>1, <2>4, <2>6, <4>2 DEF Whole, IsText
      <4>. QED BY <2>5, <2>6, <4>1, <4>2
    <3>. QED BY <3>1 DEF WholeInv
  <2>. QED BY <2>7, <2>8, <2>9, <2>10, <2>11, <2>12 DEF StatementIInv
<1>. QED BY <1>2, <1>3, <1>4

LEMMA StatementStepInv ==
  ASSUME StatementIInv, [StatementNext]_statementVars
  PROVE  StatementIInv'
<1>. USE DEF arguments, binding
<1>1. CASE UNCHANGED statementVars
  BY <1>1 DEF statementVars, StatementIInv, StatementTypes, ArgumentInv, EarlyInv, BufferInv, BindParameters,
         LengthInv, RowInv, CountInv, WholeInv, Holds, Whole, IsText, TooLong
<1>2. CASE Throw
  BY <1>2, ThrowStep DEF Throw
<1>3. CASE PrepareStatement
  <2>1. CASE stage = "idle" /\ stage' = "prepared" /\ UNCHANGED <<arguments, types, rows, binding, results, overread>>
    <3>1. stage \in Early \ {"bound"} /\ stage' \notin {"bound"} \cup Fetching /\ stage' # "returned"
      BY <2>1 DEF Early, Fetching
    <3>2. ArgumentInv'
      BY <2>1 DEF ArgumentInv
    <3>. QED BY <2>1, <3>1, <3>2, QuietStep
  <2>. QED BY <1>2, <1>3, <2>1 DEF PrepareStatement
<1>4. CASE Count
  <2>1. ASSUME NEW args \in UNION {[1 .. n -> InputTypes] : n \in 0 .. 2}, stage = "prepared",
               given' = args, stage' = "bind",
               UNCHANGED <<call, fields, inputs, types, rows, binding, results, overread>>
        PROVE  StatementIInv'
    <3>1. stage \in Early \ {"bound"} /\ stage' \notin {"bound"} \cup Fetching /\ stage' # "returned"
      BY <2>1 DEF Early, Fetching
    <3>2. ArgumentInv'
      BY <2>1 DEF ArgumentInv
    <3>. QED BY <2>1, <3>1, <3>2, QuietStep
  <2>. QED BY <1>2, <1>4, <2>1 DEF Count
<1>5. CASE BindInputs
  <2>1. CASE /\ stage = "bind" /\ stage' = "execute"
             /\ inputs' = [k \in 1 .. Len(given) |-> Input(k, given[k])]
             /\ UNCHANGED <<call, fields, given, types, rows, binding, results, overread>>
    <3>1. stage \in Early \ {"bound"} /\ stage' \notin {"bound"} \cup Fetching /\ stage' # "returned"
      BY <2>1 DEF Early, Fetching
    <3>2. ArgumentInv'
      BY <2>1 DEF StatementIInv, ArgumentInv
    <3>. QED BY <2>1, <3>1, <3>2, QuietStep
  <2>. QED BY <1>2, <1>5, <2>1 DEF BindInputs
<1>6. CASE Execute
  <2>1. CASE /\ stage = "execute" /\ stage' = "returned" /\ Executed
             /\ UNCHANGED <<call, fields, types, rows, binding, results, overread>>
    <3>1. stage \in Early /\ stage' \notin Early /\ stage' \notin {"bound"} \cup Fetching
      BY <2>1 DEF Early, Fetching
    <3>2. ArgumentInv'
      BY <2>1 DEF ArgumentInv
    <3>. QED BY <2>1, <3>1, <3>2, QuietStep
  <2>. QED BY <1>2, <1>6, <2>1 DEF Execute
<1>7. CASE SetResults
  BY <1>7, SetResultsStep
<1>8. CASE BindAndExecuteStatement
  BY <1>8, BindAndExecuteStep
<1>9. CASE Fetch
  BY <1>9, FetchStep
<1>10. CASE Refetch
  BY <1>10, RefetchStep
<1>11. CASE SetResultTuple
  BY <1>11, SetResultTupleStep
<1>. QED BY <1>1, <1>2, <1>3, <1>4, <1>5, <1>6, <1>7, <1>8, <1>9, <1>10, <1>11 DEF StatementNext, SetResultsThrows

\* Rows with short, long and missing columns may alternate in the same buffers:
\* every row that runQuery hands out is the row that was fetched, and a call
\* that returns has handed out all of them.
THEOREM QueriesReturnWholeRows == StatementSpec => []RowsWhole
<1>1. StatementIInv => RowsWhole
  BY DEF StatementIInv, WholeInv, CountInv, RowsWhole
<1>. QED BY <1>1, StatementInitInv, StatementStepInv, PTL DEF StatementSpec

\* The statement reads each parameter from its own argument, and writes a
\* result into its column's buffer only, where that is now and no more than
\* fits; a text that is handed out ends in its buffer, with a NUL behind it
\* unless it fills it.
THEOREM StatementsWriteInBuffers == StatementSpec => []WritesInBuffers
<1>1. StatementIInv => WritesInBuffers
  <2>1. ASSUME StatementIInv, stage = "execute"
        PROVE  /\ Len(inputs) = Len(given)
               /\ \A k \in 1 .. Len(given) :
                    inputs[k].buffer = k /\ (given[k] # "number" => inputs[k].buffer_length = TextOf(given[k]))
    BY <2>1 DEF StatementIInv, ArgumentInv, Input
  <2>2. ASSUME StatementIInv, stage \in Fetching, NEW i \in Columns
        PROVE  /\ bound[i].size = Len(buffers[i])
               /\ bound[i].start + bound[i].length <= Len(buffers[i])
    <3>1. Len(buffers[i]) \in Nat
      BY <2>2 DEF StatementIInv, StatementTypes
    <3>2. bound[i] = Bind(Len(buffers[i]), 0, Len(buffers[i]))
      BY <2>2 DEF StatementIInv, BufferInv, BindParameters
    <3>. QED BY <3>1, <3>2 DEF Bind
  <2>3. ASSUME StatementIInv, stage = "row", NEW i \in Columns, ~nullFlags[i], IsText(i)
        PROVE  /\ lengths[i] <= Len(buffers[i])
               /\ lengths[i] = Len(buffers[i]) \/ buffers[i][lengths[i] + 1] = NUL
    <3>1. Len(buffers[i]) \in Nat /\ lengths[i] \in Nat /\ stage \in Fetching
      BY <2>3 DEF StatementIInv, StatementTypes, Fetching
    <3>2. ~TooLong(i)
      BY <2>3, <3>1 DEF StatementIInv, LengthInv
    <3>3. StartsWith(buffers[i], Len(rows), lengths[i])
      BY <2>3 DEF StatementIInv, RowInv, Holds
    <3>. QED BY <3>1, <3>2, <3>3 DEF TooLong, StartsWith
  <2>. QED BY <2>1, <2>2, <2>3 DEF WritesInBuffers, Fetching
<1>. QED BY <1>1, StatementInitInv, StatementStepInv, PTL DEF StatementSpec

-----------------------------------------------------------------------------
(***************************************************************************)
(* Packet streams.  Whatever happened to a stream before, its vector holds *)
(* the bytes since the last clear behind as many zeros as its position was *)
(* off, and is empty when there are none yet.                              *)
(***************************************************************************)
Contents(b, c, k) == [p \in 1 .. b + k |-> IF p <= b THEN 0 ELSE c + p - b]

PacketTypes ==
  /\ StreamPos \in Nat /\ began \in Nat /\ count \in Nat /\ cleared \in Nat
  /\ StreamPos < SizeLimit /\ cleared <= count /\ since \in Nat
StorageInv ==
  IF count = cleared THEN _storage = <<>> /\ (transfer # "reading" => StreamPos = began)
  ELSE /\ began + (count - cleared) <= MaxStorage
       /\ _storage = Contents(began, cleared, count - cleared)
       /\ transfer # "reading" => StreamPos = began + (count - cleared)
ReadInv ==
  /\ transfer = "none" => count = cleared
  /\ transfer \in {"none", "writing"} => got = <<>> /\ since = 0
  /\ transfer = "reading" =>
       /\ count # cleared /\ packet = _storage
       /\ StreamPos <= Len(_storage) /\ since <= StreamPos /\ got = SubSeq(_storage, since + 1, StreamPos)
OverrunInv ==
  /\ transfer = "overrun" => began > MaxStorage
  /\ transfer = "outside" => since + 2 >= SizeLimit
PacketIInv ==
  /\ PacketTypes /\ OverrunInv
  /\ transfer \in {"none", "writing", "reading"} => StorageInv /\ ReadInv

LEMMA Sizes ==
  /\ SizeLimit \in Nat /\ MaxStorage \in Nat /\ AssertedSize \in Nat
  /\ 2 * MaxStorage < SizeLimit /\ MaxStorage + 2 < SizeLimit
BY PacketStreamsAssumption DEF PacketStreamsAssumption

LEMMA ContentsAre ==
  ASSUME NEW b \in Nat, NEW c \in Nat, NEW k \in Nat
  PROVE  /\ Contents(b, c, k) \in Seq(Nat) /\ Len(Contents(b, c, k)) = b + k
         /\ Contents(b, c, k) = Zeros(b) \o [p \in 1 .. k |-> c + p]
<1>1. Contents(b, c, k) \in Seq(Nat) /\ Len(Contents(b, c, k)) = b + k
  BY DEF Contents
<1>2. Zeros(b) \in Seq(Nat) /\ Len(Zeros(b)) = b
  BY DEF Zeros
<1>3. \A p \in 1 .. b : Zeros(b)[p] = 0
  BY DEF Zeros
<1>. DEFINE rest == [p \in 1 .. k |-> c + p]
<1>4. rest \in Seq(Nat) /\ Len(rest) = k /\ \A p \in 1 .. k : rest[p] = c + p
  OBVIOUS
<1>. HIDE DEF rest
<1>5. /\ Zeros(b) \o rest \in Seq(Nat) /\ Len(Zeros(b) \o rest) = b + k
      /\ \A i \in 1 .. b + k : (Zeros(b) \o rest)[i] = IF i <= b THEN Zeros(b)[i] ELSE rest[i - b]
  <2>. DEFINE zeros == Zeros(b)
  <2>. HIDE DEF zeros
  <2>1. zeros \in Seq(Nat) /\ Len(zeros) = b
    BY <1>2 DEF zeros
  <2>2. /\ zeros \o rest \in Seq(Nat) /\ Len(zeros \o rest) = Len(zeros) + Len(rest)
        /\ \A i \in 1 .. Len(zeros) + Len(rest) :
             (zeros \o rest)[i] = IF i <= Len(zeros) THEN zeros[i] ELSE rest[i - Len(zeros)]
    BY <1>4, <2>1, ConcatProperties
  <2>. QED BY <1>4, <2>1, <2>2 DEF zeros
<1>6. ASSUME NEW i \in 1 .. b + k PROVE Contents(b, c, k)[i] = (Zeros(b) \o rest)[i]
  <2>1. Contents(b, c, k)[i] = IF i <= b THEN 0 ELSE c + i - b
    BY DEF Contents
  <2>2. i <= b => Zeros(b)[i] = 0
    BY <1>3
  <2>3. ~(i <= b) => rest[i - b] = c + i - b
    BY <1>4
  <2>. QED BY <1>5, <2>1, <2>2, <2>3
<1>7. Contents(b, c, k) = Zeros(b) \o rest
  BY <1>1, <1>5, <1>6, SeqEqual
<1>. QED BY <1>1, <1>7 DEF rest

\* resize keeps what is there and fills with zeros.
LEMMA ResizedKeeps ==
  ASSUME NEW s \in Seq(Nat), NEW n \in Nat, Len(s) <= n
  PROVE  /\ Resized(s, n) \in Seq(Nat) /\ Len(Resized(s, n)) = n
         /\ \A p \in 1 .. n : Resized(s, n)[p] = IF p <= Len(s) THEN s[p] ELSE 0
<1>. DEFINE d == n - Len(s)
<1>1. d \in Nat /\ Len(s) \in Nat /\ Len(s) + d = n
  OBVIOUS
<1>. HIDE DEF d
<1>2. Zeros(d) \in Seq(Nat) /\ Len(Zeros(d)) = d /\ \A p \in 1 .. d : Zeros(d)[p] = 0
  BY <1>1 DEF Zeros
<1>3. /\ s \o Zeros(d) \in Seq(Nat) /\ Len(s \o Zeros(d)) = n
      /\ \A p \in 1 .. n : (s \o Zeros(d))[p] = IF p <= Len(s) THEN s[p] ELSE Zeros(d)[p - Len(s)]
  BY <1>1, <1>2, ConcatProperties
<1>4. Resized(s, n) = s \o Zeros(d)
  BY DEF Resized, d
<1>5. ASSUME NEW p \in 1 .. n, ~(p <= Len(s)) PROVE Zeros(d)[p - Len(s)] = 0
  BY <1>1, <1>2, <1>5
<1>. QED BY <1>3, <1>4, <1>5

\* What was read from m on and what is read next are one piece.
LEMMA ReadOn ==
  ASSUME NEW s \in Seq(Nat), NEW m \in Nat, NEW n \in Nat, NEW c \in Nat, m <= n, n + c <= Len(s)
  PROVE  SubSeq(s, m + 1, n) \o [p \in 1 .. c |-> s[n + p]] = SubSeq(s, m + 1, n + c)
<1>. DEFINE next == [p \in 1 .. c |-> s[n + p]]
<1>1. \A p \in 1 .. Len(s) : s[p] \in Nat
  OBVIOUS
<1>2. next \in Seq(Nat) /\ Len(next) = c /\ \A p \in 1 .. c : next[p] = s[n + p]
  OBVIOUS
<1>. HIDE DEF next
<1>3. ASSUME NEW e \in m .. Len(s)
      PROVE  /\ SubSeq(s, m + 1, e) \in Seq(Nat) /\ Len(SubSeq(s, m + 1, e)) = e - m
             /\ \A p \in 1 .. e - m : SubSeq(s, m + 1, e)[p] = s[m + p]
  <2>1. m + 1 \in Int /\ e \in Int /\ \A p \in m + 1 .. e : s[p] \in Nat
    BY <1>1
  <2>2. /\ SubSeq(s, m + 1, e) \in Seq(Nat)
        /\ Len(SubSeq(s, m + 1, e)) = IF m + 1 <= e THEN e - (m + 1) + 1 ELSE 0
        /\ \A p \in 1 .. e - (m + 1) + 1 : SubSeq(s, m + 1, e)[p] = s[m + 1 + p - 1]
    BY <2>1, SubSeqProperties
  <2>3. e - (m + 1) + 1 = e - m /\ \A p \in 1 .. e - m : m + 1 + p - 1 = m + p
    OBVIOUS
  <2>4. Len(SubSeq(s, m + 1, e)) = e - m
    BY <2>2
  <2>. QED BY <2>2, <2>3, <2>4
<1>4. n \in m .. Len(s) /\ n + c \in m .. Len(s)
  OBVIOUS
<1>. DEFINE read == SubSeq(s, m + 1, n)
            all == SubSeq(s, m + 1, n + c)
<1>5. read \in Seq(Nat) /\ Len(read) = n - m /\ \A p \in 1 .. n - m : read[p] = s[m + p]
  BY <1>3, <1>4
<1>6. all \in Seq(Nat) /\ Len(all) = n + c - m /\ \A p \in 1 .. n + c - m : all[p] = s[m + p]
  BY <1>3, <1>4
<1>. HIDE DEF read, all
<1>7. /\ read \o next \in Seq(Nat) /\ Len(read \o next) = n + c - m
      /\ \A i \in 1 .. n + c - m : (read \o next)[i] = IF i <= n - m THEN read[i] ELSE next[i - (n - m)]
  <2>1. Len(read) + Len(next) = n + c - m
    BY <1>2, <1>5
  <2>2. /\ read \o next \in Seq(Nat) /\ Len(read \o next) = Len(read) + Len(next)
        /\ \A i \in 1 .. Len(read) + Len(next) :
             (read \o next)[i] = IF i <= Len(read) THEN read[i] ELSE next[i - Len(read)]
    BY <1>2, <1>5, ConcatProperties
  <2>. QED BY <1>5, <2>1, <2>2
<1>8. ASSUME NEW i \in 1 .. n + c - m PROVE (read \o next)[i] = all[i]
  <2>1. CASE i <= n - m
    <3>1. i \in 1 .. n - m
      BY <2>1
    <3>. QED BY <1>5, <1>6, <1>7, <2>1, <3>1
  <2>2. CASE ~(i <= n - m)
    <3>1. i - (n - m) \in 1 .. c /\ n + (i - (n - m)) = m + i
      BY <2>2
    <3>2. next[i - (n - m)] = s[m + i]
      BY <1>2, <3>1
    <3>. QED BY <1>6, <1>7, <2>2, <3>2
  <2>. QED BY <2>1, <2>2
<1>9. read \o next = all
  BY <1>6, <1>7, <1>8, SeqEqual
<1>. QED BY <1>9 DEF read, all, next

\* A sum of at most one limit more wraps around once.
LEMMA SizeIs ==
  ASSUME NEW n \in Nat
  PROVE  /\ n < SizeLimit => Size(n) = n
         /\ Size(n) \in Nat /\ Size(n) < SizeLimit
BY Sizes DEF Size

LEMMA WriteStep ==
  ASSUME PacketIInv, transfer = "writing", NEW cnt \in 0 .. 2, Write(cnt)
  PROVE  PacketIInv'
<1>. USE DEF stream
<1>1. PacketTypes /\ StorageInv /\ got = <<>> /\ since = 0
  BY DEF PacketIInv, ReadInv
<1>2. ASSUME NEW exception, EndsIn(exception), exception \notin {"none", "writing", "reading", "outside"},
             exception = "overrun" => began > MaxStorage
      PROVE  PacketIInv'
  BY <1>1, <1>2 DEF EndsIn, PacketIInv, PacketTypes, OverrunInv
<1>. DEFINE k == count - cleared
            sum == StreamPos + cnt
<1>3. k \in Nat /\ StreamPos = began + k /\ sum \in Nat /\ StreamPos \in Nat /\ began \in Nat /\ cnt \in Nat
  BY <1>1 DEF PacketTypes, StorageInv
<1>4. _storage \in Seq(Nat) /\ (k = 0 => Len(_storage) = 0) /\ (k # 0 => Len(_storage) = StreamPos /\ StreamPos <= MaxStorage)
  <2>1. CASE k = 0
    BY <1>1, <1>3, <2>1 DEF StorageInv, PacketTypes
  <2>2. CASE k # 0
    <3>1. _storage = Contents(began, cleared, k) /\ StreamPos <= MaxStorage
      BY <1>1, <1>3, <2>2 DEF StorageInv, PacketTypes
    <3>. HIDE DEF k
    <3>2. cleared \in Nat
      BY <1>1 DEF PacketTypes
    <3>3. _storage \in Seq(Nat) /\ Len(_storage) = began + k
      BY <1>3, <3>1, <3>2, ContentsAre
    <3>. QED BY <1>3, <2>2, <3>1, <3>3
  <2>. QED BY <2>1, <2>2
<1>. DEFINE Fails ==
       EndsIn("PacketStreamSourceException") \/ EndsIn("assertion_failed") \/ EndsIn("length_error")
            Puts ==
       /\ cnt > 0 /\ Size(sum) <= MaxStorage
       /\ IF sum > Len(Grown(cnt)) THEN EndsIn("overrun")
          ELSE /\ _storage' = [p \in 1 .. Len(Grown(cnt)) |->
                    IF p - StreamPos \in 1 .. cnt THEN count + p - StreamPos ELSE Grown(cnt)[p]]
               /\ StreamPos' = Size(sum)
               /\ count' = count + cnt
               /\ UNCHANGED <<transfer, began, cleared, packet, got, since>>
<1>5. Fails \/ Puts
  BY DEF Write
<1>. HIDE DEF k, sum, Fails, Puts
<1>6. CASE Fails
  BY <1>2, <1>6 DEF Fails
<1>7. CASE Puts
  <2>1. cnt > 0 /\ Size(sum) <= MaxStorage /\ sum = StreamPos + cnt /\ MaxStorage \in Nat /\ SizeLimit \in Nat
    BY <1>7, Sizes DEF Puts, sum
  <2>2. Size(sum) \in Nat /\ (sum < SizeLimit => Size(sum) = sum)
    BY <1>3, SizeIs
  <2>. DEFINE grown == Grown(cnt)
  <2>3. grown = IF Len(_storage) < Size(sum) THEN Resized(_storage, Size(sum)) ELSE _storage
    BY DEF Grown, sum
  <2>. HIDE DEF grown
  <2>4. Len(grown) <= MaxStorage /\ Len(grown) \in Nat
    <3>1. CASE Len(_storage) < Size(sum)
      BY <1>4, <2>1, <2>2, <2>3, <3>1, ResizedKeeps
    <3>2. CASE ~(Len(_storage) < Size(sum))
      BY <1>3, <1>4, <2>1, <2>2, <2>3, <3>2
    <3>. QED BY <3>1, <3>2
  <2>5. CASE sum > Len(grown)
    <3>1. EndsIn("overrun")
      BY <1>7, <2>5 DEF Puts, grown
    <3>2. began > MaxStorage
      <4>1. SUFFICES ASSUME began <= MaxStorage PROVE FALSE
        BY <1>1, <1>3, <2>1 DEF PacketTypes
      <4>2. sum < SizeLimit
        BY <1>3, <1>4, <2>1, <4>1, Sizes
      <4>3. Size(sum) = sum /\ Len(_storage) < Size(sum)
        BY <1>3, <1>4, <2>1, <2>2, <4>1, <4>2, Sizes
      <4>4. Len(grown) = sum
        BY <1>4, <2>2, <2>3, <4>3, ResizedKeeps
      <4>. QED BY <1>3, <2>5, <4>4
    <3>. QED BY <1>2, <3>1, <3>2
  <2>6. CASE ~(sum > Len(grown))
    <3>1. /\ _storage' = [p \in 1 .. Len(grown) |-> IF p - StreamPos \in 1 .. cnt THEN count + p - StreamPos ELSE grown[p]]
          /\ StreamPos' = Size(sum) /\ count' = count + cnt
          /\ UNCHANGED <<transfer, began, cleared, packet, got, since>>
      BY <1>7, <2>6 DEF Puts, grown
    <3>2. sum <= MaxStorage /\ Size(sum) = sum /\ Len(_storage) < sum /\ Len(_storage) <= StreamPos
      BY <1>3, <1>4, <2>1, <2>2, <2>4, <2>6, Sizes
    <3>3. /\ Len(grown) = sum
          /\ \A p \in 1 .. sum : grown[p] = IF p <= Len(_storage) THEN _storage[p] ELSE 0
      <4>1. grown = Resized(_storage, sum)
        BY <2>3, <3>2
      <4>2. Len(_storage) <= sum
        BY <1>3, <1>4, <3>2
      <4>. QED BY <1>3, <1>4, <4>1, <4>2, ResizedKeeps
    <3>4. \A p \in 1 .. Len(_storage) : _storage[p] = IF p <= began THEN 0 ELSE cleared + p - began
      <4>1. CASE k = 0
        BY <1>4, <4>1
      <4>2. CASE k # 0
        BY <1>1, <1>3, <1>4, <4>2 DEF StorageInv, Contents, k
      <4>. QED BY <4>1, <4>2
    <3>5. ASSUME NEW p \in 1 .. sum
          PROVE  (IF p - StreamPos \in 1 .. cnt THEN count + p - StreamPos ELSE grown[p])
                   = (IF p <= began THEN 0 ELSE cleared + p - began)
      <4>1. count = cleared + k /\ count \in Nat /\ cleared \in Nat /\ began \in Nat
        BY <1>1 DEF k, PacketTypes
      <4>2. CASE p > StreamPos
        BY <1>3, <2>1, <4>1, <4>2
      <4>3. CASE p <= StreamPos
        <5>1. grown[p] = IF p <= Len(_storage) THEN _storage[p] ELSE 0
          BY <3>3
        <5>2. ~(p <= Len(_storage)) => p <= began
          BY <1>3, <1>4, <4>1, <4>3
        <5>3. p <= Len(_storage) => _storage[p] = IF p <= began THEN 0 ELSE cleared + p - began
          BY <1>4, <3>4
        <5>. QED BY <1>3, <4>1, <4>3, <5>1, <5>2, <5>3
      <4>. QED BY <1>3, <4>2, <4>3
    <3>6. count - cleared = k /\ began + (k + cnt) = sum /\ count \in Nat /\ cleared \in Nat /\ began \in Nat /\ cleared <= count
      BY <1>1, <1>3, <2>1 DEF k, PacketTypes
    <3>7. _storage' = Contents(began, cleared, k + cnt)
      BY <3>1, <3>3, <3>5, <3>6 DEF Contents
    <3>8. PacketTypes'
      BY <1>1, <1>3, <2>1, <3>1, <3>2, <3>6, Sizes DEF PacketTypes
    <3>9. StorageInv'
      <4>1. count' - cleared' = k + cnt /\ count' # cleared' /\ StreamPos' = sum
        BY <1>3, <2>1, <3>1, <3>2, <3>6
      <4>. QED BY <3>1, <3>2, <3>6, <3>7, <4>1 DEF StorageInv
    <3>10. ReadInv' /\ OverrunInv'
      BY <1>1, <3>1 DEF ReadInv, OverrunInv
    <3>. QED BY <3>8, <3>9, <3>10 DEF PacketIInv
  <2>. QED BY <1>3, <2>4, <2>5, <2>6
<1>. QED BY <1>5, <1>6, <1>7

LEMMA ReadingStorage ==
  ASSUME PacketIInv, transfer = "reading"
  PROVE  /\ _storage \in Seq(Nat) /\ Len(_storage) <= MaxStorage
         /\ StreamPos <= Len(_storage) /\ StreamPos \in Nat
         /\ since \in Nat /\ since <= StreamPos /\ got = SubSeq(_storage, since + 1, StreamPos)
<1>1. PacketTypes /\ StorageInv /\ ReadInv
  BY DEF PacketIInv
<1>. DEFINE k == count - cleared
<1>2. /\ k \in Nat /\ began \in Nat /\ cleared \in Nat /\ began + k <= MaxStorage
      /\ _storage = Contents(began, cleared, k)
  BY <1>1 DEF StorageInv, ReadInv, PacketTypes
<1>. HIDE DEF k
<1>3. _storage \in Seq(Nat) /\ Len(_storage) <= MaxStorage
  BY <1>2, ContentsAre
<1>. QED BY <1>1, <1>3 DEF ReadInv, PacketTypes

LEMMA PassesStep ==
  ASSUME PacketIInv, NEW cnt \in Nat, Passes(cnt)
  PROVE  PacketIInv'
<1>. USE DEF stream
<1>1. transfer = "reading" /\ PacketTypes /\ StorageInv /\ ReadInv
  BY DEF Passes, PacketIInv
<1>2. CASE ~InPacket(StreamPos, cnt)
  BY <1>1, <1>2 DEF Passes, EndsIn, PacketIInv, PacketTypes, OverrunInv
<1>3. CASE InPacket(StreamPos, cnt)
  <2>1. /\ StreamPos' = Size(StreamPos + cnt)
        /\ IF StreamPos + cnt < SizeLimit THEN got' = got \o Taken(cnt) /\ since' = since
           ELSE got' = <<>> /\ since' = StreamPos'
        /\ UNCHANGED <<transfer, _storage, began, count, cleared, packet>>
    BY <1>3 DEF Passes
  <2>2. /\ _storage \in Seq(Nat) /\ StreamPos <= Len(_storage) /\ StreamPos \in Nat
        /\ since \in Nat /\ since <= StreamPos /\ got = SubSeq(_storage, since + 1, StreamPos)
    BY <1>1, ReadingStorage
  <2>3. /\ StreamPos' \in Nat /\ StreamPos' < SizeLimit /\ StreamPos' <= Len(_storage)
        /\ StreamPos + cnt < SizeLimit => StreamPos' = StreamPos + cnt
    BY <1>3, <2>1, <2>2, SizeIs DEF InPacket
  <2>4. since' \in Nat /\ since' <= StreamPos' /\ got' = SubSeq(_storage, since' + 1, StreamPos')
    <3>1. CASE StreamPos + cnt < SizeLimit
      <4>1. StreamPos' = StreamPos + cnt /\ StreamPos + cnt <= Len(_storage)
        BY <2>3, <3>1
      <4>2. SubSeq(_storage, since + 1, StreamPos) \o [p \in 1 .. cnt |-> _storage[StreamPos + p]]
            = SubSeq(_storage, since + 1, StreamPos + cnt)
        BY <2>2, <4>1, ReadOn, SMTT(30)
      <4>3. got' = got \o Taken(cnt) /\ since' = since
        BY <2>1, <3>1
      <4>4. got' = SubSeq(_storage, since' + 1, StreamPos')
        BY <2>2, <4>1, <4>2, <4>3, Zenon DEF Taken
      <4>5. since' \in Nat /\ since' <= StreamPos'
        BY <2>2, <4>1, <4>3
      <4>. QED BY <4>4, <4>5
    <3>2. CASE ~(StreamPos + cnt < SizeLimit)
      <4>1. got' = <<>> /\ since' = StreamPos'
        BY <2>1, <3>2
      <4>2. ASSUME NEW n \in Nat PROVE SubSeq(_storage, n + 1, n) = <<>>
        <5>1. n + 1 \in Int /\ n \in Int /\ n < n + 1
          OBVIOUS
        <5>. QED BY <5>1, SubSeqEmpty
      <4>3. SubSeq(_storage, StreamPos' + 1, StreamPos') = <<>>
        BY <2>3, <4>2
      <4>4. got' = SubSeq(_storage, since' + 1, StreamPos')
        BY <4>1, <4>3, Zenon
      <4>5. since' \in Nat /\ since' <= StreamPos'
        BY <2>3, <4>1
      <4>. QED BY <4>4, <4>5
    <3>. QED BY <3>1, <3>2
  <2>5. PacketTypes' /\ OverrunInv' /\ StorageInv'
    BY <1>1, <2>1, <2>3, <2>4 DEF PacketTypes, OverrunInv, StorageInv
  <2>6. ReadInv'
    BY <1>1, <2>1, <2>3, <2>4 DEF ReadInv
  <2>. QED BY <2>5, <2>6 DEF PacketIInv
<1>. QED BY <1>2, <1>3

\* A read that passes the check and ends behind the vector has wrapped around.
LEMMA ReadAtStep ==
  ASSUME PacketIInv, ReadAt
  PROVE  PacketIInv'
<1>. USE DEF stream
<1>1. PICK pos \in 0 .. SizeLimit - 1, cnt \in 1 .. 2 :
        \/ ~InPacket(pos, cnt) /\ EndsIn("PacketStreamPositionException")
        \/ InPacket(pos, cnt) /\ pos + cnt <= Len(_storage) /\ UNCHANGED packetVars
        \/ /\ InPacket(pos, cnt) /\ pos + cnt > Len(_storage)
           /\ transfer' = "outside" /\ since' = pos
           /\ UNCHANGED <<stream, began, count, cleared, packet, got>>
  BY DEF ReadAt
<1>2. CASE EndsIn("PacketStreamPositionException")
  BY <1>2 DEF EndsIn, PacketIInv, PacketTypes, OverrunInv
<1>3. CASE UNCHANGED packetVars
  BY <1>3 DEF packetVars, PacketIInv, PacketTypes, StorageInv, ReadInv, OverrunInv
<1>4. CASE /\ InPacket(pos, cnt) /\ pos + cnt > Len(_storage)
           /\ transfer' = "outside" /\ since' = pos
           /\ UNCHANGED <<stream, began, count, cleared, packet, got>>
  <2>1. pos \in Nat /\ cnt \in Nat /\ cnt <= 2 /\ pos + cnt \in Nat
    BY Sizes
  <2>2. pos + cnt >= SizeLimit
    <3>1. pos + cnt < SizeLimit => Size(pos + cnt) = pos + cnt
      BY <2>1, SizeIs
    <3>2. Len(_storage) \in Nat
      BY ReadingStorage DEF ReadAt
    <3>. QED BY <1>4, <2>1, <3>1, <3>2, Sizes DEF InPacket
  <2>. QED BY <1>4, <2>1, <2>2, Sizes DEF PacketIInv, PacketTypes, OverrunInv
<1>. QED BY <1>1, <1>2, <1>3, <1>4

LEMMA PacketStepInv ==
  ASSUME PacketIInv, [PacketNext]_packetVars
  PROVE  PacketIInv'
<1>. USE DEF stream
<1>1. CASE UNCHANGED packetVars
  BY <1>1 DEF packetVars, PacketIInv, PacketTypes, StorageInv, ReadInv, OverrunInv
<1>2. ASSUME NEW exception, transfer = "writing", EndsIn(exception),
             exception \notin {"none", "writing", "reading", "overrun", "outside"}
      PROVE  PacketIInv'
  BY <1>2 DEF EndsIn, PacketIInv, PacketTypes, OverrunInv
<1>3. CASE Construct
  BY <1>3, Sizes DEF Construct, PacketIInv, PacketTypes, StorageInv, ReadInv, OverrunInv
<1>4. CASE clear
  BY <1>4, Sizes DEF clear, PacketIInv, PacketTypes, StorageInv, ReadInv, OverrunInv
<1>5. ASSUME NEW cnt \in 0 .. 2, Writes(cnt)
      PROVE  PacketIInv'
  BY <1>5, WriteStep DEF Writes
<1>6. CASE WriteNext \/ WriteString \/ WriteStream
  BY <1>5, <1>6 DEF WriteNext, WriteString, WriteStream
<1>7. CASE WriteStringOf
  BY <1>2, <1>5, <1>7 DEF WriteStringOf
<1>8. CASE Index
  BY <1>1, <1>2, <1>8 DEF Index, Element
<1>9. CASE Arrives
  <2>1. CASE EndsIn("PacketStreamException")
    BY <1>2, <1>9, <2>1 DEF Arrives
  <2>2. CASE ~EndsIn("PacketStreamException")
    <3>1. /\ transfer = "writing" /\ _storage # <<>>
          /\ transfer' = "reading" /\ packet' = _storage
          /\ StreamPos' = 0 /\ UNCHANGED <<_storage, began, count, cleared, got, since>>
      BY <1>9, <2>2 DEF Arrives
    <3>2. PacketTypes /\ StorageInv /\ got = <<>> /\ since = 0
      BY <3>1 DEF PacketIInv, ReadInv
    <3>3. _storage \in Seq(Nat) /\ count # cleared
      BY <3>1, <3>2, ContentsAre DEF StorageInv, PacketTypes
    <3>4. SubSeq(_storage, 1, 0) = <<>> /\ Len(_storage) >= 0
      BY <3>3, SubSeqEmpty
    <3>5. PacketTypes' /\ OverrunInv' /\ StorageInv'
      BY <3>1, <3>2, Sizes DEF PacketTypes, OverrunInv, StorageInv
    <3>6. ReadInv'
      BY <3>1, <3>2, <3>3, <3>4 DEF ReadInv
    <3>. QED BY <3>5, <3>6 DEF PacketIInv
  <2>. QED BY <2>1, <2>2
<1>10. CASE ReadNext \/ ReadString \/ Read_skip
  <2>1. \E cnt \in Nat : Passes(cnt)
    BY <1>10, Sizes DEF ReadNext, ReadString, Read_skip
  <2>. QED BY <2>1, PassesStep
<1>11. CASE ReadAt
  BY <1>11, ReadAtStep
<1>. QED BY <1>1, <1>3, <1>4, <1>6, <1>7, <1>8, <1>9, <1>10, <1>11 DEF PacketNext

\* A packet is read at the other end as it was written, in order and never
\* beyond its end, however its values were put together and whatever lay in
\* the memory the stream was made in: PacketStream, WriteStream and ReadStream,
\* for any size_t a caller may give.  Sums that wrap around make Write go
\* outside the vector only from a position no vector is long enough for,
\* Read_skip go back in the packet, and Read of a place go outside the vector
\* only from the last places a size_t names.
THEOREM PacketsReadAsWritten == PacketSpec => []ReadsWhatWasWritten
<1>1. PacketInit => PacketIInv
  BY Sizes DEF PacketInit, PacketIInv, PacketTypes, StorageInv, ReadInv, OverrunInv
<1>2. PacketIInv /\ [PacketNext]_packetVars => PacketIInv'
  BY PacketStepInv
<1>3. PacketIInv => ReadsWhatWasWritten
  <2>1. SUFFICES ASSUME PacketIInv, transfer = "reading"
                 PROVE  /\ packet = Zeros(began) \o [p \in 1 .. count - cleared |-> cleared + p]
                        /\ StreamPos <= Len(packet) /\ since <= StreamPos
                        /\ got = SubSeq(packet, since + 1, StreamPos)
    BY DEF PacketIInv, OverrunInv, ReadsWhatWasWritten
  <2>. DEFINE k == count - cleared
  <2>2. /\ k \in Nat /\ began \in Nat /\ cleared \in Nat
        /\ packet = _storage /\ _storage = Contents(began, cleared, k)
        /\ StreamPos <= Len(packet) /\ since <= StreamPos /\ got = SubSeq(packet, since + 1, StreamPos)
    BY <2>1 DEF PacketIInv, PacketTypes, StorageInv, ReadInv
  <2>. HIDE DEF k
  <2>3. packet = Zeros(began) \o [p \in 1 .. k |-> cleared + p]
    BY <2>2, ContentsAre
  <2>. QED BY <2>2, <2>3 DEF k
<1>. QED BY <1>1, <1>2, <1>3, PTL DEF PacketSpec
=============================================================================
