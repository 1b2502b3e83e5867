----------------------------- MODULE Statement ------------------------------
(***************************************************************************)
(* One call of DatabaseClient::runCommand or runQuery: the prepared        *)
(* statement, and for a query the binding of result columns to buffers of  *)
(* OutputBinder, which mysql_stmt_fetch writes to.  A buffer that is too   *)
(* small for a column is enlarged and the rest of the column fetched.      *)
(*                                                                         *)
(* The n bytes of a column in the r-th row are <<r, 1>> .. <<r, n>>.       *)
(***************************************************************************)
EXTENDS Integers, Sequences, FiniteSets

CONSTANTS
  Types,        \* element types: [of: {"string", "parsed", "fixed"}, pointer: BOOLEAN]
  TextSize,     \* a text buffer's size at first, 20 in the code
  FixedSize,    \* sizeof an integer or floating-point type
  Lengths,      \* of columns
  MaxRows,      \* bound on a query's rows
  Null

ASSUME StatementAssumption ==
  /\ Types \subseteq [of : {"string", "parsed", "fixed"}, pointer : BOOLEAN]
  /\ TextSize \in Nat /\ FixedSize \in Nat
  /\ Lengths \subseteq Nat /\ Null \notin Nat

Columns == {1, 2}

VARIABLES
  stage,        \* "idle", "prepared", "bind", "execute", "bound", "fetch", "truncated", "row", and how the call ended
  call,         \* "runCommand" or "runQuery"
  fields,       \* fieldCount_ of the statement
  given,        \* the types of the arguments
  inputs,       \* the MYSQL_BINDs of the parameters
  types,        \* of the result's tuples
  rows,         \* the rows fetched: Null or a length for each column
  buffers,
  parameters,   \* the MYSQL_BINDs: where each buffer was when its address was taken
  bound,        \* the copy the statement took of them
  lengths, nullFlags,
  results,
  overread      \* a text was parsed that no NUL ends

binding == <<buffers, parameters, bound, lengths, nullFlags>>
arguments == <<given, inputs>>
statementVars == <<stage, call, fields, arguments, types, rows, binding, results, overread>>

Bytes(r, n) == [p \in 1 .. n |-> <<r, p>>]
NUL == <<0, 0>>
Smaller(a, b) == IF a < b THEN a ELSE b

\* A vector of size bytes; enlarging it moves it.
Buffer(size) == [p \in 1 .. size |-> NUL]
Enlarged(b, size) == [p \in 1 .. size |-> IF p <= Len(b) THEN b[p] ELSE NUL]
Put(b, start, data) ==
  [p \in 1 .. Len(b) |-> IF p - start \in 1 .. Len(data) THEN data[p - start] ELSE b[p]]

\* A MYSQL_BIND's buffer and buffer_length: an address in a vector of size bytes.
Bind(size, start, length) == [size |-> size, start |-> start, length |-> length]

StatementInit ==
  /\ stage = "idle" /\ call = "runCommand" /\ fields = 0 /\ given = <<>> /\ inputs = <<>>
  /\ types = [i \in Columns |-> Null]
  /\ rows = <<>> /\ results = <<>> /\ overread = FALSE
  /\ buffers = [i \in Columns |-> <<>>]
  /\ parameters = [i \in Columns |-> Bind(0, 0, 0)]
  /\ bound = parameters
  /\ lengths = [i \in Columns |-> 0] /\ nullFlags = [i \in Columns |-> FALSE]

Unchanged == UNCHANGED <<call, fields, arguments, types, rows, binding, results, overread>>

\* Every failing call of the C API is thrown as a MySqlException.
Throw == stage' = "MySqlException" /\ Unchanged

-----------------------------------------------------------------------------
(* The statement and its inputs.                                             *)

\* A failed mysql_stmt_prepare closes the statement again.
PrepareStatement ==
  /\ stage = "idle"
  /\ \/ Throw
     \/ /\ stage' = "prepared"
        /\ call' \in {"runCommand", "runQuery"} /\ fields' \in 0 .. 2
        /\ UNCHANGED <<arguments, types, rows, binding, results, overread>>

\* A command has no fields and a query has, and each as many arguments as
\* there are parameters.
InputTypes == {"char*", "string", "number"}
RunCommandTakes == call = "runCommand" /\ fields = 0
RunQueryTakes == call = "runQuery" /\ fields # 0
Count ==
  /\ stage = "prepared"
  /\ \E parameterCount \in 0 .. 2, args \in UNION {[1 .. n -> InputTypes] : n \in 0 .. 2} :
       \/ /\ RunCommandTakes \/ RunQueryTakes
          /\ Len(args) = parameterCount
          /\ given' = args /\ stage' = "bind"
          /\ UNCHANGED <<call, fields, inputs, types, rows, binding, results, overread>>
       \/ ~(RunCommandTakes \/ RunQueryTakes) /\ Throw
       \/ Len(args) # parameterCount /\ Throw

\* bindInputs: the k-th parameter points to the k-th argument.  An argument is a
\* text of three characters with a NUL in its middle, of which a char* has the
\* first, or a number, whose length the type says.
TextOf(type) == IF type = "char*" THEN 1 ELSE 3
Input(k, type) ==
  [buffer |-> k, buffer_length |-> IF type = "number" THEN 0 ELSE TextOf(type)]
BindInputs ==
  /\ stage = "bind"
  /\ \/ Throw
     \/ /\ inputs' = [k \in 1 .. Len(given) |-> Input(k, given[k])]
        /\ stage' = "execute"
        /\ UNCHANGED <<call, fields, given, types, rows, binding, results, overread>>

\* The parameters are read when the statement is executed.
Executed == given' = <<>> /\ inputs' = <<>>

\* runCommand: affected rows of -1 mean that it was a query after all.
Execute ==
  /\ stage = "execute" /\ call = "runCommand"
  /\ \/ Throw
     \/ /\ stage' = "returned" /\ Executed
        /\ UNCHANGED <<call, fields, types, rows, binding, results, overread>>

-----------------------------------------------------------------------------
(* setResults.                                                               *)

\* A smart pointer's buffer is its element's.
SetParameter(t, b) ==
  IF t.of = "fixed" THEN Buffer(FixedSize)
  ELSE IF Len(b) = 0 THEN Buffer(TextSize) ELSE b

\* The columns must be as many as the tuple has elements.
CountRight == fields = Cardinality(Columns)
BindParameters(bs) == [i \in Columns |-> Bind(Len(bs[i]), 0, Len(bs[i]))]

SetResults ==
  /\ stage = "execute" /\ call = "runQuery" /\ CountRight
  /\ types' \in [Columns -> Types]
  /\ buffers' = [i \in Columns |-> SetParameter(types'[i], buffers[i])]
  /\ parameters' = BindParameters(buffers')
  /\ stage' = "bound"
  /\ UNCHANGED <<call, fields, arguments, rows, bound, lengths, nullFlags, results, overread>>
SetResultsThrows == stage = "execute" /\ call = "runQuery" /\ ~CountRight /\ Throw

BindAndExecuteStatement ==
  /\ stage = "bound"
  /\ \/ Throw
     \/ /\ bound' = parameters
        /\ stage' = "fetch" /\ Executed
        /\ UNCHANGED <<call, fields, types, rows, buffers, parameters, lengths, nullFlags, results, overread>>

\* What mysql_stmt_fetch writes for a column: a NULL leaves the length of the
\* row before; a text is ended by a NUL if there is room for one.
Number(r, n) == [p \in 1 .. FixedSize |-> IF p <= n THEN <<r, p>> ELSE NUL]
IsText(i) == types[i].of # "fixed"
Fetched(i, r, n) ==
  LET copied == Smaller(n, bound[i].length)
      text == IF n < bound[i].length THEN Bytes(r, n) \o <<NUL>> ELSE Bytes(r, copied)
  IN  IF n = Null THEN buffers[i]
      ELSE Put(buffers[i], bound[i].start, IF IsText(i) THEN text ELSE Number(r, n))
Truncated(i, n) == n # Null /\ n > bound[i].length

\* What the fetch says when there is no row.
ThrowIfFetchError == Throw \/ (stage' = "returned" /\ Unchanged)

Fetch ==
  /\ stage = "fetch"
  /\ \/ ThrowIfFetchError
     \/ /\ Len(rows) < MaxRows
        /\ \E row \in [Columns -> Lengths \cup {Null}] :
             LET r == Len(rows) + 1 IN
               /\ rows' = Append(rows, row)
               /\ buffers' = [i \in Columns |-> Fetched(i, r, row[i])]
               /\ lengths' = [i \in Columns |->
                    IF row[i] = Null THEN lengths[i] ELSE IF IsText(i) THEN row[i] ELSE FixedSize]
               /\ nullFlags' = [i \in Columns |-> row[i] = Null]
               /\ stage' = IF \E i \in Columns : Truncated(i, row[i]) THEN "truncated" ELSE "row"
        /\ UNCHANGED <<call, fields, arguments, types, parameters, bound, results, overread>>

\* mutant: the statement goes on with the buffers it knows
RebindNever(ps) == bound
Rebind(ps) == ps

\* mutant: the part that was fetched is overwritten by the rest
RestAtFront(i) == Bind(lengths[i] + 1, 0, lengths[i] - Len(buffers[i]))
Rest(i) == Bind(lengths[i] + 1, Len(buffers[i]), lengths[i] - Len(buffers[i]))

\* refetchTruncatedColumns.  A number that did not fit is not noticed here.
TooLong(i) == lengths[i] > Len(buffers[i])
Refetched(i) ==
  LET r == Len(rows) IN
    Put(Enlarged(buffers[i], Rest(i).size), Rest(i).start,
        SubSeq(Bytes(r, lengths[i]), Len(buffers[i]) + 1, lengths[i]))
Refetch ==
  /\ stage = "truncated"
  /\ \/ (\E i \in Columns : TooLong(i)) /\ Throw
     \/ /\ buffers' = [i \in Columns |-> IF TooLong(i) THEN Refetched(i) ELSE buffers[i]]
        /\ parameters' = [i \in Columns |->
             IF TooLong(i) THEN BindParameters(buffers')[i] ELSE parameters[i]]
        /\ bound' = IF \E i \in Columns : TooLong(i) THEN Rebind(parameters') ELSE bound
        /\ stage' = "row"
        /\ UNCHANGED <<call, fields, arguments, types, rows, lengths, nullFlags, results, overread>>

\* The text up to its NUL, or all there is and what follows in memory.
Ended(b) == \E p \in 1 .. Len(b) : b[p] = NUL
UpToNUL(b) ==
  IF Ended(b) THEN SubSeq(b, 1, (CHOOSE p \in 1 .. Len(b) : b[p] = NUL /\ \A q \in 1 .. p - 1 : b[q] # NUL) - 1)
  ELSE b

Result(i) ==
  CASE nullFlags[i] -> Null
    [] ~nullFlags[i] /\ types[i].of = "string" -> SubSeq(buffers[i], 1, lengths[i])
    [] ~nullFlags[i] /\ types[i].of = "parsed" -> UpToNUL(buffers[i])
    [] ~nullFlags[i] /\ types[i].of = "fixed" -> buffers[i]

\* The last column comes first.  A NULL is only taken by a smart pointer; a text
\* that is no number ends the call with an exception that nobody catches.
Parsed(i) == types[i].of = "parsed" /\ ~nullFlags[i]
Refused(i) == nullFlags[i] /\ ~types[i].pointer
SetResultTuple ==
  /\ stage = "row"
  /\ \/ (\E i \in Columns : Refused(i)) /\ Throw
     \/ /\ \E i \in Columns : Parsed(i) /\ \A j \in Columns : j > i => ~Refused(j)
        /\ stage' = "bad_lexical_cast" /\ Unchanged
     \/ /\ ~\E i \in Columns : Refused(i)
        /\ results' = Append(results, [i \in Columns |-> Result(i)])
        /\ overread' = (overread \/ \E i \in Columns : Parsed(i) /\ ~Ended(buffers[i]))
        /\ stage' = "fetch"
        /\ UNCHANGED <<call, fields, arguments, types, rows, binding>>

-----------------------------------------------------------------------------
StatementNext ==
  PrepareStatement \/ Count \/ BindInputs \/ Execute
  \/ SetResults \/ SetResultsThrows \/ BindAndExecuteStatement \/ Fetch \/ Refetch \/ SetResultTuple

StatementSpec == StatementInit /\ [][StatementNext]_statementVars

-----------------------------------------------------------------------------
(* Properties.                                                               *)

\* However rows with short, long and missing columns alternate in the same
\* buffers, every row handed out is the row that was fetched, with each of its
\* texts whole and nothing left of a row before; a call that returns has handed
\* out all.  (A number that does not fit is cut, and a text that
\* no NUL ends may be read past its end.)
Whole(r, i) ==
  \/ rows[r][i] = Null /\ results[r][i] = Null
  \/ rows[r][i] # Null /\ results[r][i] = IF IsText(i) THEN Bytes(r, rows[r][i]) ELSE Number(r, rows[r][i])
  \/ types[i].of = "parsed" /\ overread
RowsWhole ==
  /\ \A r \in 1 .. Len(results), i \in Columns : Whole(r, i)
  /\ stage \in {"fetch", "returned"} => Len(results) = Len(rows)

\* A parameter is read from its own argument, and a text to its end.  What the
\* statement writes to is never a buffer that has moved, and never more than
\* fits; what is read of a text is in its buffer, with a NUL behind it
\* unless the text fills the buffer to its last byte.
WritesInBuffers ==
  /\ stage = "execute" =>
       /\ Len(inputs) = Len(given)
       /\ \A k \in 1 .. Len(given) :
            inputs[k].buffer = k /\ (given[k] # "number" => inputs[k].buffer_length = TextOf(given[k]))
  /\ stage \in {"fetch", "truncated", "row"} => \A i \in Columns :
      /\ bound[i].size = Len(buffers[i])
      /\ bound[i].start + bound[i].length <= Len(buffers[i])
      /\ stage = "row" /\ ~nullFlags[i] /\ IsText(i) =>
           /\ lengths[i] <= Len(buffers[i])
           /\ lengths[i] = Len(buffers[i]) \/ buffers[i][lengths[i] + 1] = NUL
=============================================================================
