----------------------------- MODULE QueryPath ------------------------------
(***************************************************************************)
(* The way of a row: the client puts its parameters into an INSERT, SQLite *)
(* reads the text and stores the values, handle_query turns the columns of *)
(* a SELECT into JSON, and the client makes a result of that.  Between the *)
(* two statements, and between sqlite3_prepare_v2 and sqlite3_step, other  *)
(* connections may change the table.                                       *)
(*                                                                         *)
(* A text is a sequence of characters, of which the quote, the question    *)
(* mark, NUL, lone surrogates, the bytes that are not UTF-8, and those of  *)
(* a BLOB literal are told apart.  Frames and statements are within their  *)
(* limits of length (client_max_packet_size, SQLITE_LIMIT_SQL_LENGTH, and  *)
(* the digits that Python's str() writes of an int).  A value is <<type, value>>, and the columns of the     *)
(* table have no affinity.                                                 *)
(***************************************************************************)
EXTENDS Integers, SequencesExt

CONSTANTS
    MaxInt,      \* the largest INTEGER of SQLite
    MaxDouble,   \* the largest integer that is not infinite as a double
    Templates,   \* the VALUES lists: 0 is '?', n is '?n'
    ParamLists,  \* the params arguments of query()
    Selects,     \* select lists of <<column, alias>>, the empty one is '*'
    RawTexts,    \* texts that get into the table on another way
    NewNames,    \* names for new columns
    MaxChanges   \* bound: changes by other connections

Quote == "'"
Nul == "NUL"
Broken == "BAD"    \* bytes that are not UTF-8
Surrogate == "SUR" \* a code point of Python's str that is half of a pair, alone
HexDigits == {"0", "1"}

NoneValue == <<"None", 0>>
Null == <<"NULL", 0>>
Error == <<"error", 0>>
FirstColumns == <<"a", "b">>

\* A str of Python has no bytes that are not UTF-8; a byte is its two digits.
ParamType ==
    {NoneValue} \union ({"bool"} \X BOOLEAN) \union ({"int"} \X Int)
    \union ({"float"} \X {"finite", "nan", "inf"})
    \union ({"bytes"} \X Seq(HexDigits \X HexDigits))
    \union ({"str"} \X Seq(STRING \ {Broken}))

ASSUME SelectAssumption == \A s \in Selects : s \in Seq(STRING \X STRING)

\* The client's statements are about the columns of the table it knows.
ASSUME StatementAssumption ==
    /\ MaxInt \in Nat \ {0} /\ MaxDouble \in Nat
    /\ \A t \in Templates : t \in [DOMAIN FirstColumns -> Nat]
    /\ \A p \in ParamLists : p \in Seq(ParamType)
    /\ \A s \in Selects : \A i \in DOMAIN s : Contains(FirstColumns, s[i][1])

VARIABLES
    template, params, select,  \* the calls of the client
    pc,       \* what comes next, or how the call ended
    table,    \* the row in the table: the name and the value of each column
    schema,   \* column names in the schema that the handle has read
    columns,  \* columnNames
    row,      \* rowData
    stale,    \* history: the statement was compiled with an old schema
    changes   \* number of changes by other connections

vars == <<template, params, select, pc, table, schema, columns, row, stale, changes>>

NamesOf(t) == [i \in DOMAIN t |-> t[i].name]

Init ==
    /\ template \in Templates /\ params \in ParamLists /\ select \in Selects
    /\ pc = "insert"
    /\ table = <<>>
    /\ schema = FirstColumns
    /\ columns = <<>> /\ row = <<>> /\ stale = FALSE /\ changes = 0

-----------------------------------------------------------------------------
(* The text of the statement: a sequence of characters and of literals that  *)
(* are no texts.                                                            *)

Char(c) == <<"char", c>>

\* Mutation: quotes are not doubled.
SpellUnescaped(s) == [i \in DOMAIN s |-> Char(s[i])]

\* A text with its quotes doubled.
Spell(s) ==
    FlattenSeq([i \in DOMAIN s |-> IF s[i] = Quote THEN <<Char(Quote), Char(Quote)>>
                                   ELSE <<Char(s[i])>>])

SerializeSqlValue(v) ==
    CASE v[1] = "None" -> <<Null>>
      [] v[1] = "bool" -> <<<<"int", IF v[2] THEN 1 ELSE 0>>>>
      [] v[1] = "float" -> <<IF v[2] = "nan" THEN Null ELSE v>>
      [] v[1] \in {"int", "bytes"} -> <<v>>
      [] v[1] = "str" -> <<Char(Quote)>> \o Spell(v[2]) \o <<Char(Quote)>>

\* The parameter for item i of template t: '?' counts the '?' up to it.
Param(t, ps, i) ==
    LET n == IF t[i] # 0 THEN t[i] ELSE Cardinality({k \in 1 .. i : t[k] = 0})
    IN  IF n <= Len(ps) THEN ps[n] ELSE Error

\* A placeholder without a parameter stays as it is.
ClientSidePrepare(t, ps) ==
    FlattenSeq([i \in DOMAIN t |->
        (IF Param(t, ps, i) = Error THEN <<Char("?")>> ELSE SerializeSqlValue(Param(t, ps, i)))
        \o <<Char(",")>>])

-----------------------------------------------------------------------------
(* SQLite reads the text. *)

\* An integer literal that does not fit an INTEGER is a float, or too large for it.
Stored(literal) ==
    CASE literal[1] = "int" ->
            IF literal[2] \in -MaxInt - 1 .. MaxInt THEN <<"INTEGER", literal[2]>>
            ELSE <<"FLOAT", IF literal[2] \in -MaxDouble .. MaxDouble THEN "finite" ELSE "inf">>
      [] literal[1] = "float" -> <<"FLOAT", literal[2]>>
      [] literal[1] = "bytes" -> <<"BLOB", literal[2]>>
      [] literal = Null -> Null

\* The tokenizer between two literals, inside a text, behind a quote that ends
\* the text or is the first of a pair, and behind the end of the statement.
Outside(values) == [at |-> "outside", text |-> <<>>, values |-> values]
Inside(values, text) == [at |-> "inside", text |-> text, values |-> values]
AtQuote(values, text) == [at |-> "quote", text |-> text, values |-> values]
AtEnd(values) == [at |-> "end", text |-> <<>>, values |-> values]

\* The values when the statement ends here; a text that is still open is an error.
Complete(s) ==
    CASE s.at = "inside" -> Append(s.values, Error)
      [] s.at = "quote" -> Append(s.values, <<"TEXT", s.text>>)
      [] s.at \in {"outside", "end"} -> s.values

\* The next token begins with x; a placeholder that is left is NULL.
Token(values, x) ==
    IF x = Char(",") THEN Outside(values)
    ELSE IF x = Char("?") THEN Outside(Append(values, Null))
    ELSE IF x = Char(Quote) THEN Inside(values, <<>>)
    ELSE Outside(Append(values, IF x[1] # "char" THEN Stored(x) ELSE Error))

\* sqlite3_prepare_v2 stops at a NUL.
ReadNext(s, x) ==
    IF s.at = "end" THEN s
    ELSE IF x = Char(Nul) THEN AtEnd(Complete(s))
    ELSE CASE s.at = "outside" -> Token(s.values, x)
           [] s.at = "inside" -> IF x = Char(Quote) THEN AtQuote(s.values, s.text)
                                 ELSE Inside(s.values, Append(s.text, x[2]))
           [] s.at = "quote" -> IF x = Char(Quote) THEN Inside(s.values, Append(s.text, Quote))
                                ELSE Token(Complete(s), x)

Scan(s, text) ==
    LET scan[i \in 0 .. Len(text)] == IF i = 0 THEN s ELSE ReadNext(scan[i - 1], text[i])
    IN  scan[Len(text)]

\* The values of a VALUES list.
ValuesOf(text) == Complete(Scan(Outside(<<>>), text))

\* json.dumps writes a lone surrogate as an escape that parse_request refuses.
Unparsable(text) == Contains(text, Char(Surrogate))

Insert ==
    LET text == ClientSidePrepare(template, params)
        values == ValuesOf(text)
    IN
    /\ pc = "insert"
    /\ IF Unparsable(text) \/ Contains(values, Error) \/ Len(values) # Len(FirstColumns)
       THEN pc' = "error" /\ UNCHANGED table
       ELSE /\ pc' = "select"
            /\ table' = [i \in DOMAIN FirstColumns |-> [name |-> FirstColumns[i], value |-> values[i]]]
    /\ UNCHANGED <<template, params, select, schema, columns, row, stale, changes>>

-----------------------------------------------------------------------------
(* Other connections: ALTER TABLE, and an UPDATE with CAST(X'..' AS TEXT).   *)

Change(t) ==
    /\ pc \in {"select", "step"}
    /\ changes < MaxChanges
    /\ table' = t
    /\ changes' = changes + 1
    /\ UNCHANGED <<template, params, select, pc, schema, columns, row, stale>>

Fresh == NewNames \ ToSet(NamesOf(table))

AddColumn == \E n \in Fresh : Change(Append(table, [name |-> n, value |-> Null]))

DropColumn == Len(table) > 1 /\ \E i \in DOMAIN table : Change(RemoveAt(table, i))

RenameColumn == \E i \in DOMAIN table, n \in Fresh : Change([table EXCEPT ![i].name = n])

UpdateText ==
    \E i \in DOMAIN table, s \in RawTexts : Change([table EXCEPT ![i].value = <<"TEXT", s>>])

-----------------------------------------------------------------------------
(* handle_query. *)

\* The columns of the select list over a table with these names.
ResultNames(names) ==
    IF select = <<>> THEN names ELSE [i \in DOMAIN select |-> select[i][2]]

Compiles(names) == \A i \in DOMAIN select : Contains(names, select[i][1])

\* The values of the columns of the select list.
ResultValues ==
    IF select = <<>> THEN [i \in DOMAIN table |-> table[i].value]
    ELSE [i \in DOMAIN select |->
             table[SelectInSeq(NamesOf(table), LAMBDA n : n = select[i][1])].value]

\* prepare(), column_count() and column_name(): a schema in which a name is
\* missing is read again, any other is taken for the current one.
PrepareSelect ==
    LET names == IF Compiles(schema) THEN schema ELSE NamesOf(table) IN
    /\ pc = "select"
    /\ schema' = names
    /\ IF Compiles(names)
       THEN pc' = "step" /\ columns' = ResultNames(names)
       ELSE pc' = "error" /\ UNCHANGED columns
    /\ UNCHANGED <<template, params, select, table, row, stale, changes>>

\* sqlite3_column_text is read as a C string.
Before(s, c) ==
    IF Contains(s, c) THEN SubSeq(s, 1, SelectInSeq(s, LAMBDA x : x = c) - 1) ELSE s

\* The digits of a byte are its two nibbles, in the model as in the literal.
Hex(blob) == FlattenSeq(blob)

\* The switch over the column type, dump(), and json.loads at the client: an
\* infinite number is null, a text ends at its first NUL.
Encode(v) ==
    CASE v[1] = "INTEGER" -> <<"int", v[2]>>
      [] v[1] = "FLOAT" -> IF v[2] = "finite" THEN <<"float", "finite">> ELSE NoneValue
      [] v[1] = "TEXT" -> <<"str", Before(v[2], Nul)>>
      [] v[1] = "BLOB" -> <<"str", <<"X", Quote>> \o Hex(v[2]) \o <<Quote>>>>
      [] v = Null -> NoneValue

\* dump() throws an exception for a text that is not UTF-8, up to its first NUL.
Unencodable(v) == v[1] = "TEXT" /\ Contains(Before(v[2], Nul), Broken)

\* Mutation: a name keeps the value it was given first.
RowDataKeepsFirst(n) ==
    LET names == SubSeq(ResultNames(NamesOf(table)), 1, n) IN
    [m \in ToSet(names) |-> Encode(ResultValues[SelectInSeq(names, LAMBDA x : x = m)])]

\* The first n columns; rowData is an object, so the last value of a name stays.
RowData(n) ==
    LET names == SubSeq(ResultNames(NamesOf(table)), 1, n) IN
    [m \in ToSet(names) |-> Encode(ResultValues[SelectLastInSeq(names, LAMBDA x : x = m)])]

\* next_row(): sqlite3_step compiles the statement again when the schema has
\* changed.  The number of columns is the one from before; the name of a column
\* that is gone is a null pointer.
StepSelect ==
    LET n == Len(columns)
        now == NamesOf(table)
    IN
    /\ pc = "step"
    /\ schema' = now
    /\ stale' = (schema # now)
    /\ IF ~Compiles(now) THEN pc' = "error" /\ UNCHANGED row
       ELSE IF n > Len(ResultValues) \/ \E i \in 1 .. n : Unencodable(ResultValues[i])
       THEN pc' = "terminated" /\ UNCHANGED row
       ELSE pc' = "answered" /\ row' = RowData(n)
    /\ UNCHANGED <<template, params, select, table, columns, changes>>

Next ==
    \/ Insert \/ PrepareSelect \/ StepSelect
    \/ AddColumn \/ DropColumn \/ RenameColumn \/ UpdateText

Spec == Init /\ [][Next]_vars

-----------------------------------------------------------------------------
(* The client's QueryResult. *)

\* QueryResult.scalar
Scalar == IF columns[1] \in DOMAIN row THEN row[columns[1]] ELSE NoneValue

\* decode_blob_literal
DecodeBlobLiteral(v) ==
    IF v = NoneValue THEN v
    ELSE LET s == v[2]
             digits == SubSeq(s, 3, Len(s) - 1)
         IN  IF /\ v[1] = "str" /\ Len(s) >= 3
                /\ s[1] = "X" /\ s[2] = Quote /\ s[Len(s)] = Quote
                /\ ToSet(digits) \subseteq HexDigits /\ Len(digits) % 2 = 0
             THEN <<"bytes", [i \in 1 .. Len(digits) \div 2 |->
                                 <<digits[2 * i - 1], digits[2 * i]>>]>>
             ELSE Error

-----------------------------------------------------------------------------
\* What a parameter is when it comes back.
Returned(v) ==
    CASE v[1] = "bool" -> <<"int", IF v[2] THEN 1 ELSE 0>>
      [] v[1] = "int" -> IF v[2] \in -MaxInt - 1 .. MaxInt THEN v
                         ELSE IF v[2] \in -MaxDouble .. MaxDouble THEN <<"float", "finite">> ELSE NoneValue
      [] v[1] = "float" -> IF v[2] = "finite" THEN v ELSE NoneValue
      [] v = Error -> NoneValue
      [] OTHER -> v

Used == {Param(template, params, i) : i \in DOMAIN template}

(***************************************************************************)
(* A parameter comes back from the table as it was given: texts with       *)
(* quotes and question marks, bytes through blob(), integers at the limits *)
(* of 64 bits, '?' and '?N' in any mixture; a value never ends its literal *)
(* and is never taken for a placeholder.  What changes is this: a bool is  *)
(* an int, a float that is not finite is None, and an int beyond 64 bits   *)
(* is a float, or None when it is beyond the range of a double.  The       *)
(* INSERT fails only when a text has a NUL or a lone surrogate.            *)
(***************************************************************************)
RoundTrip ==
    changes = 0 =>
        /\ pc = "answered" /\ select = <<>> =>
              \A i \in DOMAIN template :
                  LET v == Param(template, params, i)
                      got == row[FirstColumns[i]]
                  IN  IF v[1] = "bytes" THEN DecodeBlobLiteral(got) = v ELSE got = Returned(v)
        /\ pc = "error" => \E v \in Used : v[1] = "str" /\ \E c \in {Nul, Surrogate} : Contains(v[2], c)
        /\ pc # "terminated"

(***************************************************************************)
(* The result of a statement that was compiled with the current schema has *)
(* the columns of its select list in their order, a row with just these    *)
(* names, and under each name the value of its column; scalar() is the     *)
(* first column.  Of columns that share a name the last one is in the row. *)
(* A statement that other connections' ALTER TABLE made SQLite compile     *)
(* again has columns of the old table and a row of as many columns of the  *)
(* new one, and the process ends only for want of such a column or for a   *)
(* text that is not UTF-8.                                                 *)
(***************************************************************************)
ResultShape ==
    LET names == ResultNames(NamesOf(table))
        n == Len(columns)
        last(i) == \A j \in i + 1 .. n : names[j] # names[i]
    IN
    /\ pc = "answered" =>
          /\ DOMAIN row = ToSet(SubSeq(names, 1, n))
          /\ \A i \in 1 .. n : last(i) => row[names[i]] = Encode(ResultValues[i])
          /\ ~stale => columns = names
          /\ ~stale /\ last(1) => Scalar = Encode(ResultValues[1])
    /\ pc = "terminated" =>
          \/ stale /\ n > Len(names)
          \/ \E i \in 1 .. n : Unencodable(ResultValues[i])
=============================================================================
