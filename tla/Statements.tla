----------------------------- MODULE Statements -----------------------------
(***************************************************************************)
(* INSERT, SELECT, DELETE and UPDATE on one table, from the literals of    *)
(* the statement to the bytes of the record and back: which literals the   *)
(* transformer takes (src/src/parser/), how the binder resolves names, how *)
(* a row is serialised (src/src/storage/page/row.cpp), how a WHERE clause  *)
(* is evaluated (src/src/include/planner/physical/expression/), and what   *)
(* a select list prints (src/src/executor/execute.cpp).                    *)
(*                                                                         *)
(* One session in autocommit mode: a statement that throws is rolled back, *)
(* so a record is live or marked, and a scan reads the live ones in order. *)
(* A value's content is a sequence of units, an integer or a Boolean one   *)
(* unit, a string its characters.  The payload of a record is a sequence   *)
(* of cells: one per column of the null bitmap, one for an integer, one    *)
(* for a string's length, one per character.                               *)
(***************************************************************************)
EXTENDS Integers, FiniteSets, SequencesExt

CONSTANTS ColumnTypes,   \* types of the columns, in the order of their ids
          ColumnNames,   \* their names
          IntBits,       \* width of int
          Inserts,       \* INSERT statements: names and literals
          Sets,          \* SET lists: names and literals
          Wheres,        \* WHERE clauses
          SelectLists,   \* select lists: stars, columns and other items
          MaxRecords     \* bound: records ever written

ASSUME ColumnsAssumption ==
    /\ ColumnTypes \in Seq({"INTEGER", "VARCHAR"}) \ {<<>>}
    /\ Len(ColumnNames) = Len(ColumnTypes)
    /\ IsInjective(ColumnNames)
ASSUME IntBitsAssumption == IntBits \in Nat \ {0}
ASSUME StatementsAssumption ==
    \A st \in Inserts \union Sets : Len(st.names) = Len(st.literals) /\ st.names # <<>>

VARIABLES
    records,   \* the table's records: payload and delete mark
    names,     \* column_name_idx: the ids that names resolve to
    table      \* history: the row that each record was to hold

stmtVars == <<records, names, table>>

ColumnIds == 1 .. Len(ColumnTypes)
Live == {r \in 1 .. Len(records) : ~records[r].del}

-----------------------------------------------------------------------------
(* Values.  A default-constructed Value is null and holds the int 0. *)
Val(type, units) == [type |-> type, null |-> FALSE, units |-> units]
NULL == [type |-> "int", null |-> TRUE, units |-> <<0>>]
Bool(b) == Val("bool", IF b THEN <<1>> ELSE <<0>>)
Throws == Val("throws", <<>>)
IsTrue(v) == v.units = <<1>>

(* The literal's 64-bit integer is cast to int. *)
ToInt(n) == ((n + 2^(IntBits - 1)) % 2^IntBits) - 2^(IntBits - 1)

LiteralToValue(lit) ==
    Val(lit.type, IF lit.type = "int" THEN <<ToInt(lit.units[1])>> ELSE lit.units)

TypeOf == [INTEGER |-> "int", VARCHAR |-> "string"]

DefaultValue(c) == Val(TypeOf[ColumnTypes[c]],
                       IF ColumnTypes[c] = "INTEGER" THEN <<0>> ELSE <<>>)

-----------------------------------------------------------------------------
(* Rows and their bytes. *)

(* GetInt and GetString throw on a value of another type. *)
Serializable(row) ==
    \A c \in ColumnIds : row[c].null \/ row[c].type = TypeOf[ColumnTypes[c]]

Field(row, c) ==
    CASE row[c].null -> <<>>
      [] ~row[c].null /\ ColumnTypes[c] = "INTEGER" -> row[c].units
      [] OTHER -> <<Len(row[c].units)>> \o row[c].units

(* use_size_: computed from the values before anything is written. *)
Size(row) ==
    FoldLeft(LAMBDA sum, c : IF row[c].null THEN sum
                             ELSE IF ColumnTypes[c] = "INTEGER" THEN sum + 1
                             ELSE sum + 1 + Len(row[c].units),
             Len(row), [c \in ColumnIds |-> c])

(* Serialize, and the bytes of it that the tuple takes to the page. *)
Serialize(row) ==
    SubSeq([c \in ColumnIds |-> IF row[c].null THEN 0 ELSE 1]
             \o FlattenSeq([c \in ColumnIds |-> Field(row, c)]), 1, Size(row))

(* A plausible slip: a null column takes room among the fields. *)
WidthOfNull(cells, c, at) ==
    IF cells[c] = 0 \/ ColumnTypes[c] = "INTEGER" THEN 1 ELSE 1 + cells[at]

(* The cells of column c, whose field starts at "at". *)
Width(cells, c, at) ==
    IF cells[c] = 0 THEN 0
    ELSE IF ColumnTypes[c] = "INTEGER" THEN 1 ELSE 1 + cells[at]

Deserialize(cells) ==
    LET at[c \in ColumnIds] ==
            IF c = 1 THEN Len(ColumnTypes) + 1 ELSE at[c - 1] + Width(cells, c - 1, at[c - 1])
    IN  [c \in ColumnIds |->
            IF cells[c] = 0 THEN NULL
            ELSE Val(TypeOf[ColumnTypes[c]],
                     IF ColumnTypes[c] = "INTEGER" THEN <<cells[at[c]]>>
                     ELSE SubSeq(cells, at[c] + 1, at[c] + cells[at[c]]))]

(* A plausible slip: a null stays a null. *)
GetValueNull(row, c) == row[c]

(* Row::GetValue, which expressions read columns with. *)
GetValue(row, c) == IF row[c].null THEN DefaultValue(c) ELSE row[c]

-----------------------------------------------------------------------------
(* WHERE clauses: trees of operators over columns and literals. *)

(* IN, which both accept, has no second operand and is left out; NOT,      *)
(* IS NULL and || are transformed by none of the operators' functions.     *)
BinderOps == {"OR", "AND", "LIKE", "NLIKE", "LT", "LTE", "GT", "GTE", "EQ", "NEQ"}
TransformedOps == BinderOps \union {"ADD", "SUB", "MU", "DE"}

RECURSIVE TransformsWhere(_)
TransformsWhere(e) ==
    CASE e.kind \in {"none", "column"} -> TRUE
      [] e.kind = "literal" -> e.lit.type \in {"int", "string"}
      [] e.kind = "op" ->
           e.op \in TransformedOps /\ TransformsWhere(e.left) /\ TransformsWhere(e.right)

RECURSIVE BoundCompExpression(_)
BoundCompExpression(e) ==
    CASE e.kind \in {"none", "literal"} -> TRUE
      [] e.kind = "column" -> e.name \in DOMAIN names
      [] e.kind = "op" ->
           e.op \in BinderOps /\ BoundCompExpression(e.left) /\ BoundCompExpression(e.right)

Binds(e) == TransformsWhere(e) /\ BoundCompExpression(e)

StrLess(s, t) ==
    \E k \in 0 .. Len(s) :
        /\ k < Len(t) /\ SubSeq(s, 1, k) = SubSeq(t, 1, k)
        /\ k = Len(s) \/ s[k + 1] < t[k + 1]

Less(l, r) == IF l.type = "int" THEN l.units[1] < r.units[1] ELSE StrLess(l.units, r.units)

FoundIn(s, t) == \E i \in 0 .. Len(s) - Len(t) : SubSeq(s, i + 1, i + Len(t)) = t

(* A plausible slip: the operands of <= are exchanged. *)
CompareSwapped(op, l, r) ==
    CASE op = "LT" -> Less(l, r)
      [] op \in {"LTE", "GTE"} -> ~Less(l, r)
      [] op = "GT" -> Less(r, l)
      [] op = "EQ" -> l.units = r.units
      [] op = "NEQ" -> l.units # r.units

Compare(op, l, r) ==
    CASE op = "LT" -> Less(l, r)
      [] op = "LTE" -> ~Less(r, l)
      [] op = "GT" -> Less(r, l)
      [] op = "GTE" -> ~Less(l, r)
      [] op = "EQ" -> l.units = r.units
      [] op = "NEQ" -> l.units # r.units

(* AND and OR: "decisive" is the value that settles the outcome alone. *)
EvaluateLogical(op, l, r) ==
    LET decisive == (op = "OR")
        bad(v) == ~v.null /\ v.type # "bool"
        settles(v) == ~v.null /\ IsTrue(v) = decisive
    IN  CASE bad(l) -> Throws
          [] ~bad(l) /\ settles(l) -> Bool(decisive)
          [] ~bad(l) /\ ~settles(l) /\ bad(r) -> Throws
          [] ~bad(l) /\ ~settles(l) /\ ~bad(r) /\ settles(r) -> Bool(decisive)
          [] OTHER -> IF l.null \/ r.null THEN NULL ELSE Bool(~decisive)

EvaluateStringOp(op, l, r) ==
    IF l.type # "string" \/ r.type # "string" THEN Throws
    ELSE Bool(FoundIn(l.units, r.units) = (op = "LIKE"))

EvaluateComparison(op, l, r) ==
    IF l.type # r.type \/ l.type \notin {"int", "string"} THEN Throws
    ELSE Bool(Compare(op, l, r))

(* Both operands are evaluated before the operator looks at them. *)
EvaluateBinary(op, l, r) ==
    CASE Throws \in {l, r} -> Throws
      [] Throws \notin {l, r} /\ op \in {"AND", "OR"} -> EvaluateLogical(op, l, r)
      [] Throws \notin {l, r} /\ op \notin {"AND", "OR"} /\ (l.null \/ r.null) -> NULL
      [] OTHER -> IF op \in {"LIKE", "NLIKE"} THEN EvaluateStringOp(op, l, r)
                  ELSE EvaluateComparison(op, l, r)

EvaluateColumn(e, cells) == GetValue(Deserialize(cells), names[e.name])

(* The physical expression has the shape of the bound one. *)
RECURSIVE Evaluate(_, _)
Evaluate(e, cells) ==
    CASE e.kind = "column" -> EvaluateColumn(e, cells)
      [] e.kind = "literal" -> LiteralToValue(e.lit)
      [] e.kind = "op" -> EvaluateBinary(e.op, Evaluate(e.left, cells), Evaluate(e.right, cells))

-----------------------------------------------------------------------------
(* Which records a clause selects, and whether it throws on one. *)

(* ExecutorFilter: GetBool without a look at is_null. *)
FilterThrows(v) == v.type # "bool"

SelectThrows(w) ==
    \/ ~Binds(w)
    \/ w.kind # "none" /\ \E r \in Live : FilterThrows(Evaluate(w, records[r].cells))

SelectHits(w) ==
    {r \in Live : w.kind = "none" \/ IsTrue(Evaluate(w, records[r].cells))}

(* ExecutorDelete and ExecutorUpdate: !IsNull() && GetBool(). *)
MatchThrows(v) == ~v.null /\ v.type # "bool"
Matched(v) == ~v.null /\ IsTrue(v)

ScanThrows(w) ==
    \/ ~Binds(w)
    \/ w.kind # "none" /\ \E r \in Live : MatchThrows(Evaluate(w, records[r].cells))

Hits(w) == {r \in Live : w.kind = "none" \/ Matched(Evaluate(w, records[r].cells))}

-----------------------------------------------------------------------------
(* Select lists.  An item that is no star and no column is dropped, with a *)
(* line in the log.                                                        *)

transformSelect(list) == SelectSeq(list, LAMBDA item : item.kind # "other")

(* BoundColumnRefExpression throws on a name it does not know; a star      *)
(* among other items is a null pointer to BoundSelectStatement.            *)
ListBinds(list) ==
    LET items == transformSelect(list)
    IN  Len(items) = 1 \/ \A i \in 1 .. Len(items) :
            items[i].kind = "column" /\ items[i].name \in DOMAIN names

BoundStarExpression == [c \in ColumnIds |-> names[ColumnNames[c]]]

(* One item stands for all the columns, whatever it is. *)
BoundSelectStatement(list) ==
    LET items == transformSelect(list)
    IN  IF Len(items) = 1 THEN BoundStarExpression
        ELSE [i \in 1 .. Len(items) |-> names[items[i].name]]

(* A plausible slip: the projection reads columns as expressions do. *)
ProjectedByGetValue(ids, cells) ==
    LET row == Deserialize(cells)
    IN  [i \in 1 .. Len(ids) |-> GetValue(row, ids[i])]

(* ExecutorProjection::Next: the values at the ids. *)
Projected(ids, cells) ==
    LET row == Deserialize(cells)
    IN  [i \in 1 .. Len(ids) |-> row[ids[i]]]

(* What PrintTuple is handed: without a projection, the record. *)
QueryResult(list, cells) ==
    LET ids == BoundSelectStatement(list)
    IN  IF ids = <<>> THEN Deserialize(cells) ELSE Projected(ids, cells)

(* The value at a position is printed as the schema's column there: it is  *)
(* of that type or PrintTuple throws; past the last column the read is     *)
(* undefined.                                                              *)
PrintTupleThrows(values) ==
    \E i \in 1 .. Len(values) :
        ~values[i].null /\ values[i].type # TypeOf[ColumnTypes[i]]

-----------------------------------------------------------------------------
(* Statements.  SELECT changes nothing; nor does a DELETE or UPDATE that   *)
(* throws, once it is rolled back.                                         *)

StmtInit ==
    /\ records = <<>>
    /\ names = [n \in ToSet(ColumnNames) |-> CHOOSE c \in ColumnIds : ColumnNames[c] = n]
    /\ table = <<>>

(* operator[] of column_name_idx: an unknown name is added, with id 0 (the *)
(* first column).                                                          *)
BoundNames(st) ==
    [n \in DOMAIN names \union ToSet(st.names) |-> IF n \in DOMAIN names THEN names[n] ELSE 1]

(* ExecutorValues::Open: of two literals for one column the last counts. *)
FullValues(st, idx) ==
    LET given(c) == {i \in 1 .. Len(st.names) : idx[st.names[i]] = c}
    IN  [c \in ColumnIds |->
            IF given(c) = {} THEN NULL
            ELSE LiteralToValue(st.literals[CHOOSE i \in given(c) : \A j \in given(c) : j <= i])]

(* transformInsert throws on a literal that is no string and no integer. *)
Transforms(st) == \A i \in 1 .. Len(st.literals) : st.literals[i].type \in {"int", "string"}

(* What the statement says the row is, for the history. *)
Given(st, idx, row) ==
    FoldLeft(LAMBDA sofar, i : [sofar EXCEPT ![idx[st.names[i]]] = LiteralToValue(st.literals[i])],
             row, [i \in 1 .. Len(st.names) |-> i])

Insert(st) ==
    LET row == FullValues(st, BoundNames(st))
    IN  /\ Len(records) < MaxRecords
        /\ Transforms(st) /\ Serializable(row)
        /\ names' = BoundNames(st)
        /\ records' = Append(records, [cells |-> Serialize(row), del |-> FALSE])
        /\ table' = Append(table, Given(st, BoundNames(st), [c \in ColumnIds |-> NULL]))

(* Row::Serialize throws: the binder's names stay. *)
InsertThrows(st) ==
    /\ Transforms(st) /\ ~Serializable(FullValues(st, BoundNames(st)))
    /\ names' = BoundNames(st)
    /\ UNCHANGED <<records, table>>

Marked(hits) ==
    [r \in DOMAIN records |-> IF r \in hits THEN [records[r] EXCEPT !.del = TRUE] ELSE records[r]]

Delete(w) ==
    /\ ~ScanThrows(w)
    /\ Hits(w) # {}
    /\ records' = Marked(Hits(w))
    /\ UNCHANGED <<names, table>>

(* The new version of a record: its row with the SET list applied. *)
NewValues(st, r) == Given(st, names, Deserialize(records[r].cells))

Update(st, w) ==
    LET hits == SetToSortSeq(Hits(w), <)
    IN  /\ ToSet(st.names) \subseteq DOMAIN names
        /\ ~ScanThrows(w)
        /\ hits # <<>>
        /\ Len(records) + Len(hits) <= MaxRecords
        /\ \A r \in Hits(w) : Serializable(NewValues(st, r))
        /\ records' = Marked(Hits(w)) \o
             [i \in 1 .. Len(hits) |-> [cells |-> Serialize(NewValues(st, hits[i])), del |-> FALSE]]
        /\ table' = table \o [i \in 1 .. Len(hits) |-> Given(st, names, table[hits[i]])]
        /\ UNCHANGED names

StmtNext ==
    \/ \E st \in Inserts : Insert(st) \/ InsertThrows(st)
    \/ \E w \in Wheres : Delete(w)
    \/ \E st \in Sets, w \in Wheres : Update(st, w)

StmtSpec == StmtInit /\ [][StmtNext]_stmtVars

-----------------------------------------------------------------------------
(***************************************************************************)
(* What a statement put into a row is what every later statement reads     *)
(* from its record: integers, strings of any length and nulls, in rows     *)
(* that INSERT filled in part and UPDATE rewrote again and again.          *)
(***************************************************************************)
StoredIsGiven ==
    \A r \in 1 .. Len(records) : Deserialize(records[r].cells) = table[r]

(***************************************************************************)
(* SELECT shows the rows that DELETE and UPDATE with the same clause would *)
(* change, and throws where they throw, although they test the outcome of  *)
(* the clause differently: no clause ever has the outcome NULL.            *)
(***************************************************************************)
SelectIsPreview ==
    \A w \in Wheres :
        /\ SelectThrows(w) <=> ScanThrows(w)
        /\ ~SelectThrows(w) => SelectHits(w) = Hits(w)

(* The type of a clause whose names are columns, or "bad". *)
RECURSIVE TypeOfClause(_)
TypeOfClause(e) ==
    CASE e.kind = "column" -> TypeOf[ColumnTypes[names[e.name]]]
      [] e.kind = "literal" -> e.lit.type
      [] e.kind = "op" ->
           LET l == TypeOfClause(e.left)
               r == TypeOfClause(e.right)
               ok == CASE e.op \in {"AND", "OR"} -> {l, r} = {"bool"}
                       [] e.op \in {"LIKE", "NLIKE"} -> {l, r} = {"string"}
                       [] OTHER -> {l, r} \in {{"int"}, {"string"}}
           IN  IF ok THEN "bool" ELSE "bad"

(* The meaning of a well-typed clause on a row: two-valued logic, a null   *)
(* read as its column's default.                                           *)
RECURSIVE Holds(_, _)
Operand(e, row) ==
    CASE e.kind = "literal" -> ToInt(e.lit.units[1])
      [] e.kind = "column" -> IF row[names[e.name]].null THEN 0 ELSE row[names[e.name]].units[1]
Text(e, row) ==
    CASE e.kind = "literal" -> e.lit.units
      [] e.kind = "column" -> IF row[names[e.name]].null THEN <<>> ELSE row[names[e.name]].units
Holds(e, row) ==
    LET int == TypeOfClause(e.left) = "int"
        x == Operand(e.left, row)
        y == Operand(e.right, row)
        s == Text(e.left, row)
        t == Text(e.right, row)
    IN  CASE e.op = "AND" -> Holds(e.left, row) /\ Holds(e.right, row)
          [] e.op = "OR" -> Holds(e.left, row) \/ Holds(e.right, row)
          [] e.op = "LIKE" -> FoundIn(s, t)
          [] e.op = "NLIKE" -> ~FoundIn(s, t)
          [] e.op = "LT" -> IF int THEN x < y ELSE StrLess(s, t)
          [] e.op = "LTE" -> IF int THEN x <= y ELSE s = t \/ StrLess(s, t)
          [] e.op = "GT" -> IF int THEN x > y ELSE StrLess(t, s)
          [] e.op = "GTE" -> IF int THEN x >= y ELSE s = t \/ StrLess(t, s)
          [] e.op = "EQ" -> IF int THEN x = y ELSE s = t
          [] e.op = "NEQ" -> IF int THEN x # y ELSE s # t

(***************************************************************************)
(* A well-typed clause throws on no row, whichever of its columns are null *)
(* and however its operands are ordered, and selects exactly the rows it   *)
(* describes.                                                              *)
(***************************************************************************)
ClauseMeansWhatItSays ==
    \A w \in Wheres :
        w.kind = "op" /\ Binds(w) =>
            (TypeOfClause(w) = "bool" =>
                /\ ~SelectThrows(w)
                /\ SelectHits(w) = {r \in Live : Holds(w, table[r])})

(***************************************************************************)
(* A select list of two or more columns of the table, each of the type of  *)
(* the column at its place, prints of every live row the values that       *)
(* statements gave these columns, nulls as nulls, and never throws; so     *)
(* does a star, and a list of which no item is left.  The names that       *)
(* INSERT added to column_name_idx change nothing of that.                 *)
(***************************************************************************)
ListPrintsItsColumns ==
    \A list \in SelectLists :
        LET items == transformSelect(list)
            asked == IF \A i \in 1 .. Len(items) : items[i].kind = "star" THEN ColumnNames
                     ELSE [i \in 1 .. Len(items) |-> items[i].name]
            id(n) == CHOOSE c \in ColumnIds : ColumnNames[c] = n
            described ==
                /\ Len(items) <= 1 => asked = ColumnNames
                /\ Len(asked) <= Len(ColumnTypes)
                /\ ToSet(asked) \subseteq ToSet(ColumnNames)
                /\ \A i \in 1 .. Len(asked) : ColumnTypes[id(asked[i])] = ColumnTypes[i]
        IN  ListBinds(list) /\ described =>
                \A r \in Live :
                    LET values == QueryResult(list, records[r].cells)
                    IN  /\ ~PrintTupleThrows(values)
                        /\ values = [i \in 1 .. Len(asked) |-> table[r][id(asked[i])]]
=============================================================================
