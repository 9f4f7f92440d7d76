------------------------------- MODULE MysqlRows -------------------------------
(***************************************************************************)
(* What mysql_wrap.hpp makes of the rows it fetches, and of the values and *)
(* the tables it puts into its statements (utility.hpp).                   *)
(*                                                                         *)
(* A cell is a sequence of bytes, which are strings of one character, or   *)
(* Null; a byte may be Nul, which ends a C string.  A result of a query is *)
(* a record of its fields and its rows, or NoRows of a statement that has  *)
(* none.  A statement is a sequence of words.                              *)
(* An operator marked "Fault" is a wrong version of the one below it.      *)
(***************************************************************************)
EXTENDS Naturals, Sequences, SequencesExt, FiniteSetsExt, Functions

Null == <<"null">>
Nul == "nul"
NoRows == [fields |-> << >>, rows |-> << >>]

\* What strlen finds of bytes.
CString(bytes) ==
  LET ends == {i \in DOMAIN bytes : bytes[i] = Nul}
  IN IF ends = {} THEN bytes ELSE SubSeq(bytes, 1, Min(ends) - 1)

----------------------------------------------------------------------------
(* query_result.hpp and query *)

NewResult == [fieldtype |-> << >>, recordset |-> << >>, affected |-> 0]

\* One cell: of the type BIN with its length, of others as a C string.
Cell(type, cell) ==
  CASE cell = Null -> << >>
    [] cell # Null /\ type = "BIN" -> cell
    [] OTHER -> CString(cell)

\* One result: its fields are added to those that are there, and the types of the
\* first ones are those of its columns.
Stored(q, result) ==
  LET types == q.fieldtype \o result.fields
  IN IF result = NoRows THEN q
     ELSE [fieldtype |-> types, affected |-> q.affected + Len(result.rows),
           recordset |-> q.recordset \o
             [r \in DOMAIN result.rows |-> [c \in DOMAIN result.rows[r] |-> Cell(types[c].type, result.rows[r][c])]]]

QueryResults(q, results) == FoldLeft(Stored, q, results)

\* get_field_index: the first of the name.
FieldIndex(q, name) ==
  LET of == {i \in DOMAIN q.fieldtype : q.fieldtype[i].name = name}
  IN IF of = {} THEN Len(q.fieldtype) + 1 ELSE Min(of)

\* get_item_value by name: empty when there is no such field.  A row that is not there
\* is read all the same when the field is.
ItemValue(q, row, name) ==
  IF FieldIndex(q, name) > Len(q.fieldtype) THEN << >> ELSE q.recordset[row][FieldIndex(q, name)]

----------------------------------------------------------------------------
(* query into tuples and structs, with a buffer for each column *)

Zero(kind) == IF kind = "number" THEN <<"0">> ELSE << >>

\* mysql_stmt_fetch: a null leaves the buffer as it was, and a cell that is longer
\* than its buffer ends the loop.  A cell as long as its buffer leaves no NUL for the
\* strlen that follows, which then reads on behind it: there are none of these here.
Fetched(buffers, row) == [c \in DOMAIN row |-> IF row[c] = Null THEN buffers[c] ELSE row[c]]
Fits(row, room) == \A c \in DOMAIN row : row[c] = Null \/ Len(row[c]) <= room

RowsThatFit(rows, room) ==
  LET long == {r \in DOMAIN rows : ~Fits(rows[r], room)}
  IN IF long = {} THEN rows ELSE SubSeq(rows, 1, Min(long) - 1)

\* Which buffer each column of a tuple is taken from: "it" is moved on by strings and
\* not by arrays, which are copied from where it is.
BufferOf(kinds, c) ==
  IF kinds[c] = "number" THEN c
  ELSE LET before == Cardinality({i \in 1..(c - 1) : kinds[i] = "string"})
           buffered == SelectSeq([i \in DOMAIN kinds |-> i], LAMBDA i : kinds[i] # "number")
       IN buffered[before + 1]

\* query of tuples: buffers and numbers stay from row to row.
QueryTuples(kinds, rows, room) ==
  FoldLeft(LAMBDA s, row : LET b == Fetched(s.buffers, row)
                           IN [buffers |-> b,
                               out |-> Append(s.out, [c \in DOMAIN kinds |-> CString(b[BufferOf(kinds, c)])])],
           [buffers |-> [c \in DOMAIN kinds |-> Zero(kinds[c])], out |-> << >>],
           RowsThatFit(rows, room)).out

\* Fault: what one row left is there for the next.
BuffersStay(b, kinds) == b

\* After each row the buffers, and the numbers, are zeros again.
BuffersCleared(b, kinds) == [c \in DOMAIN kinds |-> Zero(kinds[c])]

\* query of structs.
QueryStructs(kinds, rows, room) ==
  FoldLeft(LAMBDA s, row : LET b == Fetched(s.buffers, row)
                           IN [buffers |-> BuffersCleared(b, kinds), out |-> Append(s.out, [c \in DOMAIN kinds |-> CString(b[c])])],
           [buffers |-> [c \in DOMAIN kinds |-> Zero(kinds[c])], out |-> << >>],
           RowsThatFit(rows, room)).out

----------------------------------------------------------------------------
(* utility.hpp *)

\* to_str: a number as it is, a text in quotes that are not escaped.
ToStr(kind, value) == IF kind = "number" THEN value ELSE <<"'">> \o value \o <<"'">>

\* get_str: the first "?" there is becomes the value and a blank.
GetStr(sql, s) ==
  LET at == Min({i \in DOMAIN sql : sql[i] = "?"})
  IN SubSeq(sql, 1, at - 1) \o s \o <<" ">> \o SubSeq(sql, at + 1, Len(sql))

\* get_sql, and the number of values it is asked with, which has to be the right one.
GetSql(sql, kinds, values) ==
  IF Len(values) # 0 /\ Len(values) # Cardinality({i \in DOMAIN sql : sql[i] = "?"}) THEN << >>
  ELSE FoldLeft(LAMBDA s, i : GetStr(s, ToStr(kinds[i], values[i])), sql, [i \in DOMAIN values |-> i])

\* generate_insert_sql.
InsertSql(name, size, update) ==
  <<IF update THEN "replace into " ELSE "insert into ", name, " values(">>
    \o FlattenSeq([i \in 1..size |-> <<"?", IF i < size THEN ", " ELSE ");">>])

KeyKinds == {"key", "auto_key"}

\* sort_tuple: of two, the key is first; two without a key change their places.
SortTuple(constraints) ==
  IF Len(constraints) = 2 /\ constraints[1].kind \notin KeyKinds THEN Reverse(constraints) ELSE constraints

\* What one constraint adds to the definition of the field it is about.
Clause(constraint) ==
  CASE constraint.kind = "not_null" -> <<"NOT NULL">>
    [] constraint.kind = "key" -> <<"PRIMARY KEY">>
    [] constraint.kind = "auto_key" -> <<"AUTO_INCREMENT", "PRIMARY KEY">>
    [] constraint.kind = "unique" -> <<",", "UNIQUE">>

\* generate_createtb_sql, the definitions of the fields, one after the other.
CreateFields(fields, constraints) ==
  [i \in DOMAIN fields |->
     <<fields[i]>> \o FlattenSeq([k \in DOMAIN constraints |->
        LET c == SortTuple(constraints)[k] IN IF fields[i] \in c.fields THEN Clause(c) ELSE << >>])]

----------------------------------------------------------------------------

\* Structs have what their rows have, and an empty text or a zero where a row has a
\* null, whatever the row before it had: up to a row with a cell too long.
StructsAreRows(kinds, rows, room) ==
  QueryStructs(kinds, rows, room) =
    [r \in DOMAIN RowsThatFit(rows, room) |->
       [c \in DOMAIN kinds |-> IF rows[r][c] = Null THEN Zero(kinds[c]) ELSE CString(rows[r][c])]]

\* Tuples do when no row has a null and no column is an array.
TuplesAreRows(kinds, rows, room) ==
  (\A r \in DOMAIN rows : Null \notin Range(rows[r])) /\ "array" \notin Range(kinds) =>
    QueryTuples(kinds, rows, room) = QueryStructs(kinds, rows, room)

\* What a query stored is found by the name of its field, a null as an empty text.
ItemsAreCells(result) ==
  \A r \in DOMAIN result.rows, c \in DOMAIN result.fields :
    (\A d \in 1..(c - 1) : result.fields[d].name # result.fields[c].name) =>
      ItemValue(QueryResults(NewResult, <<NoRows, result>>), r, result.fields[c].name) =
        IF result.rows[r][c] = Null THEN << >>
        ELSE IF result.fields[c].type = "BIN" THEN result.rows[r][c] ELSE CString(result.rows[r][c])

\* Each value takes its own place in a statement, if none of them has a "?", and a
\* statement with another number of places than there are values is refused.
ValuesInPlace(name, kinds, values) ==
  LET n == Len(values)
      place(i) == ToStr(kinds[i], values[i]) \o <<" ", IF i < n THEN ", " ELSE ");">>
      sql(size) == InsertSql(name, size, TRUE)
  IN /\ GetSql(sql(n), kinds, values) = SubSeq(sql(n), 1, 3) \o FlattenSeq([i \in 1..n |-> place(i)])
     /\ GetSql(sql(n + 1), kinds, values) = << >>

\* A table with a key and one more constraint has its key and what must not be null
\* in the definition of the field, before the clause of its own that makes it unique.
TableWellFormed(fields, constraints) ==
  \A i \in DOMAIN fields : LET def == CreateFields(fields, constraints)[i] IN
    \A j, k \in DOMAIN def : def[j] = "UNIQUE" /\ k > j => def[k] \notin {"NOT NULL", "PRIMARY KEY", "AUTO_INCREMENT"}

=============================================================================
