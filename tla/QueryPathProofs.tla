--------------------------- MODULE QueryPathProofs --------------------------
(***************************************************************************)
(* The shape of a result, for every select list, every table and every     *)
(* number of changes that other connections make between the statements    *)
(* and between prepare and step.                                           *)
(***************************************************************************)
EXTENDS QueryPath, SequenceTheorems, TLAPS

-----------------------------------------------------------------------------
(* Sequences of values of which nothing is known. *)

IsSeq(s) == \E S : s \in Seq(S)

LEMMA TypedIsSeq == ASSUME NEW T, NEW s \in Seq(T) PROVE IsSeq(s)
  BY DEF IsSeq

\* A function on 1 .. n is a sequence of length n.
LEMMA FunctionIsSeq ==
  ASSUME NEW n \in Nat, NEW S, NEW f \in [1 .. n -> S]
  PROVE  IsSeq(f) /\ Len(f) = n
<1>1. f \in Seq(S)
  BY SeqDef
<1>2. Len(f) \in Nat /\ DOMAIN f = 1 .. Len(f)
  BY <1>1, LenProperties
<1>3. Len(f) = n
  BY <1>2
<1> QED
  BY <1>1, <1>3 DEF IsSeq

\* The length and the domain of a sequence.
LEMMA SeqFacts ==
  ASSUME NEW s, IsSeq(s)
  PROVE  /\ Len(s) \in Nat /\ DOMAIN s = 1 .. Len(s)
         /\ Len(s) = 0 <=> s = <<>>
<1>1. PICK S : s \in Seq(S)
  BY DEF IsSeq
<1> QED
  BY <1>1, LenProperties, EmptySeq

\* The last position of a name is the one SelectLastInSeq finds.
LEMMA LastFound ==
  ASSUME NEW s, Len(s) \in Nat, NEW i \in 1 .. Len(s), \A j \in i + 1 .. Len(s) : s[j] # s[i]
  PROVE  SelectLastInSeq(s, LAMBDA x : x = s[i]) = i
<1> DEFINE I == {j \in 1 .. Len(s) : s[j] = s[i]}
<1>1. i \in I /\ I # {}
  OBVIOUS
<1>2. SelectLastInSeq(s, LAMBDA x : x = s[i]) = Max(I)
  BY <1>1 DEF SelectLastInSeq
<1>3. \A j \in I : i >= j
  OBVIOUS
<1>4. \A k \in I : (\A j \in I : k >= j) => k = i
  BY <1>1, <1>3
<1> HIDE DEF I
<1>5. Max(I) = i
  BY <1>1, <1>3, <1>4 DEF Max
<1> QED
  BY <1>2, <1>5
-----------------------------------------------------------------------------
(* The names and the values of a result. *)

\* A row of at least one column.
IsRow(s) == IsSeq(s) /\ Len(s) > 0

\* A table has a name for each of its columns.
LEMMA NamesTyped == ASSUME NEW t, IsRow(t) PROVE IsRow(NamesOf(t)) /\ Len(NamesOf(t)) = Len(t)
<1>1. Len(t) \in Nat /\ DOMAIN t = 1 .. Len(t)
  BY SeqFacts DEF IsRow
<1>2. NamesOf(t) \in [1 .. Len(t) -> {t[i].name : i \in 1 .. Len(t)}]
  BY <1>1 DEF NamesOf
<1>3. IsSeq(NamesOf(t)) /\ Len(NamesOf(t)) = Len(t)
  BY <1>1, <1>2, FunctionIsSeq
<1> QED
  BY <1>3 DEF IsRow

\* A result has a column for each item of the select list, or of the table.
LEMMA ResultNamesTyped ==
  ASSUME select \in Seq(STRING \X STRING), NEW names, IsRow(names)
  PROVE  /\ IsRow(ResultNames(names))
         /\ Len(ResultNames(names)) = IF select = <<>> THEN Len(names) ELSE Len(select)
<1>1. CASE select = <<>>
  BY <1>1 DEF ResultNames
<1>2. CASE select # <<>>
  <2> DEFINE r == [i \in DOMAIN select |-> select[i][2]]
  <2>1. Len(select) \in Nat \ {0} /\ DOMAIN select = 1 .. Len(select)
    BY <1>2, EmptySeq, LenProperties
  <2>2. r \in [1 .. Len(select) -> {select[i][2] : i \in 1 .. Len(select)}]
    BY <2>1
  <2>3. Len(select) \in Nat
    BY <2>1
  <2> HIDE DEF r
  <2>4. IsSeq(r) /\ Len(r) = Len(select)
    BY <2>2, <2>3, FunctionIsSeq
  <2>5. ResultNames(names) = r
    BY <1>2 DEF ResultNames, r
  <2> QED
    BY <1>2, <2>1, <2>4, <2>5 DEF IsRow
<1> QED
  BY <1>1, <1>2

\* A result has as many values as names.
LEMMA ResultValuesTyped ==
  ASSUME select \in Seq(STRING \X STRING), IsRow(table)
  PROVE  Len(ResultValues) = Len(ResultNames(NamesOf(table)))
<1>0. Len(table) \in Nat /\ DOMAIN table = 1 .. Len(table)
  BY SeqFacts DEF IsRow
<1>1. Len(ResultNames(NamesOf(table))) = IF select = <<>> THEN Len(table) ELSE Len(select)
  BY NamesTyped, ResultNamesTyped
<1>2. CASE select = <<>>
  <2> DEFINE r == [i \in DOMAIN table |-> table[i].value]
  <2>1. r \in [1 .. Len(table) -> {table[i].value : i \in 1 .. Len(table)}]
    BY <1>0
  <2>2. ResultValues = r
    BY <1>2 DEF ResultValues
  <2> HIDE DEF r
  <2> QED
    BY <1>0, <1>1, <1>2, <2>1, <2>2, FunctionIsSeq
<1>3. CASE select # <<>>
  <2>1. Len(select) \in Nat /\ DOMAIN select = 1 .. Len(select)
    BY LenProperties
  <2> DEFINE v(i) == table[SelectInSeq(NamesOf(table), LAMBDA n : n = select[i][1])].value
             r == [i \in DOMAIN select |-> v(i)]
  <2>2. ResultValues = r
    BY <1>3 DEF ResultValues
  <2> HIDE DEF v
  <2>3. r \in [1 .. Len(select) -> {v(i) : i \in 1 .. Len(select)}]
    BY <2>1
  <2> HIDE DEF r
  <2> QED
    BY <1>1, <1>3, <2>1, <2>2, <2>3, FunctionIsSeq
<1> QED
  BY <1>2, <1>3

\* What RowData makes of the first n columns.
LEMMA RowDataFacts ==
  ASSUME NEW n \in Nat, IsSeq(ResultNames(NamesOf(table))),
         n <= Len(ResultNames(NamesOf(table)))
  PROVE  LET names == ResultNames(NamesOf(table)) IN
         /\ DOMAIN RowData(n) = ToSet(SubSeq(names, 1, n))
         /\ \A i \in 1 .. n : names[i] \in DOMAIN RowData(n)
         /\ \A i \in 1 .. n : (\A j \in i + 1 .. n : names[j] # names[i])
                => RowData(n)[names[i]] = Encode(ResultValues[i])
<1> DEFINE names == ResultNames(NamesOf(table))
           ns == SubSeq(names, 1, n)
           entry(m) == Encode(ResultValues[SelectLastInSeq(ns, LAMBDA x : x = m)])
<1>1. PICK S : names \in Seq(S)
  BY DEF IsSeq
<1>2. Len(names) \in Nat /\ \A i \in 1 .. Len(names) : names[i] \in S
  BY <1>1, LenProperties, ElementOfSeq
<1>3. RowData(n) = [m \in ToSet(ns) |-> entry(m)]
  BY DEF RowData
<1> HIDE DEF names
<1>4. ns \in Seq(S) /\ Len(ns) = n /\ \A i \in 1 .. n : ns[i] = names[i]
  <2>1. \A i \in 1 .. n : names[i] \in S
    BY <1>2 DEF names
  <2>2. /\ ns \in Seq(S) /\ Len(ns) = IF 1 <= n THEN n - 1 + 1 ELSE 0
        /\ \A i \in 1 .. n - 1 + 1 : ns[i] = names[1 + i - 1]
    BY <2>1, SubSeqProperties
  <2> QED
    BY <2>2
<1> HIDE DEF ns
<1>5. DOMAIN ns = 1 .. n
  BY <1>4, LenProperties
<1>6. \A i \in 1 .. n : names[i] \in ToSet(ns)
  BY <1>4, <1>5 DEF ToSet
<1>7. ASSUME NEW i \in 1 .. n, \A j \in i + 1 .. n : names[j] # names[i]
      PROVE  entry(names[i]) = Encode(ResultValues[i])
  <2>1. \A j \in i + 1 .. n : ns[j] # ns[i]
    BY <1>4, <1>7
  <2>2. SelectLastInSeq(ns, LAMBDA x : x = ns[i]) = i
    BY <1>4, <2>1, LastFound
  <2>3. ns[i] = names[i]
    BY <1>4
  <2> QED
    BY <2>2, <2>3
<1> HIDE DEF entry
<1>8. DOMAIN RowData(n) = ToSet(ns) /\ \A m \in ToSet(ns) : RowData(n)[m] = entry(m)
  BY <1>3
<1> QED
  BY <1>6, <1>7, <1>8 DEF names, ns
-----------------------------------------------------------------------------
(* The invariant.  What the client will be told was compiled with the      *)
(* schema of the handle; the table may be another one by then.             *)

ShapeInv ==
    /\ select \in Seq(STRING \X STRING)
    /\ pc \in {"select", "step", "answered", "terminated"} => IsRow(table)
    /\ IsRow(schema)
    /\ pc = "step" => columns = ResultNames(schema)
    /\ ResultShape

\* The table as the client creates it.
LEMMA FirstRow == IsRow(FirstColumns) /\ DOMAIN FirstColumns = 1 .. 2
<1>1. FirstColumns \in [1 .. 2 -> {"a", "b"}]
  BY DEF FirstColumns
<1>2. IsSeq(FirstColumns) /\ Len(FirstColumns) = 2
  BY <1>1, FunctionIsSeq
<1> QED
  BY <1>1, <1>2 DEF IsRow

LEMMA ShapeInit == Init => ShapeInv
<1> SUFFICES ASSUME Init PROVE ShapeInv
  OBVIOUS
<1>1. select \in Seq(STRING \X STRING) /\ pc = "insert" /\ schema = FirstColumns
  BY SelectAssumption DEF Init
<1> QED
  BY <1>1, FirstRow DEF ShapeInv, ResultShape

\* A result changes with the table and the select list only.
LEMMA SameResult ==
  ASSUME UNCHANGED <<select, table>>
  PROVE  ResultNames(NamesOf(table))' = ResultNames(NamesOf(table)) /\ ResultValues' = ResultValues
<1>1. ResultNames(NamesOf(table))' = ResultNames(NamesOf(table))
  BY DEF ResultNames, NamesOf
<1>2. ResultValues' = ResultValues
  BY DEF ResultValues, NamesOf, SelectInSeq
<1> QED
  BY <1>1, <1>2

\* Every change of another connection leaves a table of at least one column.
LEMMA ChangedTable ==
  ASSUME ShapeInv, AddColumn \/ DropColumn \/ RenameColumn \/ UpdateText
  PROVE  pc \in {"select", "step"} /\ IsRow(table') /\ UNCHANGED <<select, pc, schema, columns>>
<1>1. pc \in {"select", "step"} /\ UNCHANGED <<select, pc, schema, columns>>
  BY DEF AddColumn, DropColumn, RenameColumn, UpdateText, Change
<1>2. IsRow(table)
  BY <1>1 DEF ShapeInv
<1>3. PICK S : table \in Seq(S)
  BY <1>2 DEF IsRow, IsSeq
<1>4. Len(table) \in Nat \ {0} /\ DOMAIN table = 1 .. Len(table) /\ \A i \in 1 .. Len(table) : table[i] \in S
  BY <1>2, <1>3, LenProperties, ElementOfSeq DEF IsRow
<1>5. ASSUME NEW c, table' = Append(table, c) PROVE IsRow(table')
  <2>1. table \in Seq(S \union {c})
    BY <1>3, SeqMonotonic
  <2>2. table' \in Seq(S \union {c}) /\ Len(table') = Len(table) + 1
    BY <1>5, <2>1
  <2> QED
    BY <1>4, <2>2 DEF IsRow, IsSeq
<1>6. ASSUME NEW i \in DOMAIN table, NEW c, table' = [table EXCEPT ![i] = c] PROVE IsRow(table')
  <2>1. table' \in [1 .. Len(table) -> S \union {c}]
    BY <1>4, <1>6
  <2>2. IsSeq(table') /\ Len(table') = Len(table)
    BY <1>4, <2>1, FunctionIsSeq
  <2> QED
    BY <1>4, <2>2 DEF IsRow
<1>7. CASE AddColumn
  BY <1>5, <1>7 DEF AddColumn, Change
<1>8. CASE DropColumn
  <2>1. PICK i \in DOMAIN table : table' = RemoveAt(table, i) /\ Len(table) > 1
    BY <1>8 DEF DropColumn, Change
  <2> DEFINE a == SubSeq(table, 1, i - 1)
             b == SubSeq(table, i + 1, Len(table))
  <2>2. i \in 1 .. Len(table)
    BY <1>4, <2>1
  <2>3. \A j \in 1 .. i - 1 : table[j] \in S
    BY <1>4, <2>2
  <2>4. \A j \in i + 1 .. Len(table) : table[j] \in S
    BY <1>4, <2>2
  <2>5. a \in Seq(S) /\ Len(a) = IF 1 <= i - 1 THEN (i - 1) - 1 + 1 ELSE 0
    BY <2>2, <2>3, <1>4, SubSeqProperties
  <2>6. b \in Seq(S) /\ Len(b) = IF i + 1 <= Len(table) THEN Len(table) - (i + 1) + 1 ELSE 0
    BY <2>2, <2>4, <1>4, SubSeqProperties
  <2>7. table' = a \o b
    BY <2>1 DEF RemoveAt
  <2> HIDE DEF a, b
  <2>8. table' \in Seq(S) /\ Len(table') = Len(a) + Len(b)
    BY <2>5, <2>6, <2>7, ConcatProperties
  <2>9. Len(table') > 0
    BY <1>4, <2>1, <2>2, <2>5, <2>6, <2>8
  <2> QED
    BY <1>1, <2>8, <2>9, TypedIsSeq DEF IsRow
<1>9. CASE RenameColumn
  BY <1>6, <1>9 DEF RenameColumn, Change
<1>10. CASE UpdateText
  BY <1>6, <1>10 DEF UpdateText, Change
<1> QED
  BY <1>1, <1>7, <1>8, <1>9, <1>10

\* The row that next_row() reads has the shape that the property states.
LEMMA StepShape ==
  ASSUME ShapeInv, StepSelect
  PROVE  ResultShape'
<1> DEFINE names == ResultNames(NamesOf(table))
           n == Len(columns)
<1>1. /\ pc = "step" /\ schema' = NamesOf(table) /\ stale' = (schema # NamesOf(table))
      /\ UNCHANGED <<select, table, columns>>
  BY DEF StepSelect
<1>2. IsRow(NamesOf(table)) /\ IsRow(names) /\ Len(ResultValues) = Len(names)
  BY <1>1, NamesTyped, ResultNamesTyped, ResultValuesTyped DEF ShapeInv
<1>3. columns = ResultNames(schema) /\ IsRow(columns) /\ n \in Nat /\ n > 0 /\ Len(names) \in Nat
  BY <1>1, <1>2, ResultNamesTyped, SeqFacts DEF ShapeInv, IsRow
<1>4. ~stale' => columns = names
  BY <1>1, <1>3
<1>5. names' = names /\ ResultValues' = ResultValues /\ columns' = columns
  BY <1>1, SameResult
<1>6. CASE pc' = "answered"
  <2>1. n <= Len(names) /\ row' = RowData(n)
    <3>1. row' = RowData(n) /\ ~(n > Len(ResultValues))
      BY <1>6 DEF StepSelect
    <3> QED
      BY <1>2, <1>3, <3>1
  <2>2. /\ DOMAIN row' = ToSet(SubSeq(names, 1, n))
        /\ \A i \in 1 .. n : names[i] \in DOMAIN row'
        /\ \A i \in 1 .. n : (\A j \in i + 1 .. n : names[j] # names[i])
               => row'[names[i]] = Encode(ResultValues[i])
    BY <1>2, <1>3, <2>1, RowDataFacts DEF IsRow
  <2> HIDE DEF names
  <2>3. ASSUME ~stale', \A j \in 1 + 1 .. n : names[j] # names[1]
        PROVE  Scalar' = Encode(ResultValues[1])
    <3>1. 1 \in 1 .. n /\ columns[1] = names[1]
      BY <1>3, <1>4, <2>3
    <3>2. names[1] \in DOMAIN row' /\ row'[names[1]] = Encode(ResultValues[1])
      BY <2>2, <2>3, <3>1
    <3> QED
      BY <1>5, <3>1, <3>2 DEF Scalar
  <2> QED
    BY <1>4, <1>5, <1>6, <2>2, <2>3 DEF ResultShape, names
<1>7. CASE pc' = "terminated"
  <2>1. n > Len(names) \/ \E i \in 1 .. n : Unencodable(ResultValues[i])
    BY <1>2, <1>7 DEF StepSelect
  <2>2. n > Len(names) => stale'
    BY <1>1, <1>3, <1>4
  <2> QED
    BY <1>5, <1>7, <2>1, <2>2 DEF ResultShape
<1>8. CASE pc' \notin {"answered", "terminated"}
  BY <1>8 DEF ResultShape
<1> QED
  BY <1>6, <1>7, <1>8

\* Every step keeps the shape: the answer is made by StepShape, the table is changed by ChangedTable.
LEMMA ShapeStep == ShapeInv /\ [Next]_vars => ShapeInv'
<1> SUFFICES ASSUME ShapeInv, [Next]_vars PROVE ShapeInv'
  OBVIOUS
<1>1. CASE Insert
  <2>1. pc' \in {"select", "error"} /\ UNCHANGED <<select, schema>>
    BY <1>1 DEF Insert
  <2>2. ASSUME pc' = "select" PROVE IsRow(table')
    <3>1. PICK values : table' = [i \in 1 .. 2 |-> [name |-> FirstColumns[i], value |-> values[i]]]
      BY <1>1, <2>2, FirstRow DEF Insert
    <3>2. table' \in [1 .. 2 -> {table'[i] : i \in 1 .. 2}]
      BY <3>1
    <3>3. IsSeq(table') /\ Len(table') = 2
      BY <3>2, FunctionIsSeq
    <3> QED
      BY <3>3 DEF IsRow
  <2>3. ResultShape'
    BY <2>1 DEF ResultShape
  <2> QED
    BY <2>1, <2>2, <2>3 DEF ShapeInv
<1>2. CASE PrepareSelect
  <2>1. /\ pc = "select" /\ pc' \in {"step", "error"} /\ UNCHANGED <<select, table>>
        /\ schema' = IF Compiles(schema) THEN schema ELSE NamesOf(table)
        /\ pc' = "step" => columns' = ResultNames(schema')
    BY <1>2 DEF PrepareSelect
  <2>2. IsRow(schema')
    BY <2>1, NamesTyped DEF ShapeInv
  <2>3. ResultNames(schema)' = ResultNames(schema')
    BY <2>1 DEF ResultNames
  <2>4. ResultShape'
    BY <2>1 DEF ResultShape
  <2> QED
    BY <2>1, <2>2, <2>3, <2>4 DEF ShapeInv
<1>3. CASE StepSelect
  <2>1. /\ pc = "step" /\ pc' \in {"error", "terminated", "answered"} /\ UNCHANGED <<select, table>>
        /\ schema' = NamesOf(table)
    BY <1>3 DEF StepSelect
  <2>2. IsRow(schema')
    BY <2>1, NamesTyped DEF ShapeInv
  <2>3. ResultShape'
    BY <1>3, StepShape
  <2> QED
    BY <2>1, <2>2, <2>3 DEF ShapeInv
<1>4. CASE AddColumn \/ DropColumn \/ RenameColumn \/ UpdateText
  <2>1. pc \in {"select", "step"} /\ IsRow(table') /\ UNCHANGED <<select, pc, schema, columns>>
    BY <1>4, ChangedTable
  <2>2. ResultShape'
    BY <2>1 DEF ResultShape
  <2> QED
    BY <2>1, <2>2 DEF ShapeInv, ResultNames
<1>5. CASE UNCHANGED vars
  <2>1. UNCHANGED <<select, pc, table, schema, columns, row, stale>>
    BY <1>5 DEF vars
  <2>2. ResultNames(NamesOf(table))' = ResultNames(NamesOf(table)) /\ ResultValues' = ResultValues
    BY <2>1, SameResult
  <2>3. Scalar' = Scalar
    BY <2>1 DEF Scalar
  <2>4. ResultShape'
    BY <2>1, <2>2, <2>3 DEF ShapeInv, ResultShape
  <2>5. ResultNames(schema)' = ResultNames(schema)
    BY <2>1 DEF ResultNames
  <2> QED
    BY <2>1, <2>4, <2>5 DEF ShapeInv
<1> QED
  BY <1>1, <1>2, <1>3, <1>4, <1>5 DEF Next

\* The result of a statement has the columns of its select list and a row with
\* the last value of each name, or, after another connection's ALTER TABLE, a row
\* of as many columns of the new table; the process ends only for want of such a
\* column or for a text that is not UTF-8.  For every select list, every table and
\* any number of changes.
THEOREM ResultsHaveTheirShape == Spec => []ResultShape
<1>1. ShapeInv => ResultShape
  BY DEF ShapeInv
<1> QED
  BY <1>1, ShapeInit, ShapeStep, PTL DEF Spec
=============================================================================
