------------------------------- MODULE Parser -------------------------------
(***************************************************************************)
(* parse() of src/sql/parser.c, and the planner, src/sql/planner.c.  The   *)
(* input is a sequence of words: white space, quotes, the case of keywords *)
(* and the limits on lengths (1023 characters in a line, 255 in a value,   *)
(* 31 in a name) are left out.  A word past the end is the empty word.     *)
(***************************************************************************)
EXTENDS Schema

CONSTANT DefaultSize     \* bytes of a VARCHAR without a size: 32

(* statement_t, zeroed; columns and values are sequences with their count. *)
Blank == [type |-> "CREATE_TABLE", predicate_kind |-> "NONE",
          pred_field |-> "", pred_value |-> "", pred_id |-> 0,
          col_defs |-> <<>>, insert_values |-> <<>>,
          inner_type |-> "CREATE_TABLE", inner_predicate |-> "NONE"]
Rejected == [Blank EXCEPT !.type = "REJECTED"]     \* parse returns -1
(* More values or columns than the arrays of statement_t hold: what is     *)
(* written behind them is undefined behaviour.                             *)
Overrun == [Blank EXCEPT !.type = "OVERRUN"]

Word(text, i) == IF i \in DOMAIN text THEN text[i] ELSE ""
From(text, i) == SubSeq(text, i, Len(text))

(* strcasecmp_n(name, "id", 2) == 0 and no third letter *)
IsIdName(name) == name \in {"id", "Id", "iD", "ID"}

-----------------------------------------------------------------------------
(* parse_create_table *)

TypeSize(type) == CASE type = "INT" -> 4 [] type = "BIGINT" -> 8 [] type = "VARCHAR" -> DefaultSize

(* One sequence of definitions, from the word i on; none if the text is    *)
(* refused.  atoi of the size is cut to 16 bits.                           *)
ColumnDefs(text) ==
  LET Close(i) == LET closing == {j \in i .. Len(text) : text[j] = ")"}
                  IN  IF closing = {} THEN Len(text) + 1
                      ELSE (CHOOSE j \in closing : \A k \in closing : j <= k) + 1
      defs[i \in 1 .. Len(text) + 2] ==
        LET sized == Word(text, i + 1) = "VARCHAR" /\ Word(text, i + 2) = "("
            size == IF sized THEN Atoi(Word(text, i + 3)) % SizeModulus
                             ELSE TypeSize(Word(text, i + 1))
            after == IF sized THEN Close(i + 3) ELSE i + 2
            next == IF Word(text, after) = "," THEN after + 1 ELSE after
        IN  IF Word(text, i) \in {")", ""} THEN {<<>>}
            ELSE IF Word(text, i + 1) \notin {"INT", "BIGINT", "VARCHAR"} THEN {}
            ELSE {<<[name |-> Word(text, i), type |-> Word(text, i + 1), size |-> size]>> \o rest :
                    rest \in defs[next]}
  IN  defs[1]

ParseCreateTable(text) ==
  LET open == IF Word(text, 1) = "(" THEN 1 ELSE 2       \* after the table's name
      defs == ColumnDefs(From(text, open + 1))
  IN  IF Word(text, open) # "(" \/ defs = {} THEN Rejected
      ELSE IF \E d \in defs : Len(d) > MaxColumns THEN Overrun
      ELSE [Blank EXCEPT !.col_defs = CHOOSE d \in defs : TRUE]

-----------------------------------------------------------------------------
(* parse_insert *)

(* A comma without a value before it is an empty value. *)
Values(text) ==
  LET values[i \in 1 .. Len(text) + 2] ==
        LET empty == Word(text, i) = ","
            after == IF empty THEN i ELSE i + 1
            next == IF Word(text, after) = "," THEN after + 1 ELSE after
        IN  IF Word(text, i) \in {")", ""} THEN <<>>
            ELSE <<IF empty THEN "" ELSE Word(text, i)>> \o values[next]
  IN  values[1]

ParseInsert(text) ==
  IF Word(text, 1) # "INTO" \/ Word(text, 3) # "VALUES" \/ Word(text, 4) # "(" THEN Rejected
  ELSE IF Len(Values(From(text, 5))) > MaxColumns THEN Overrun
  ELSE [Blank EXCEPT !.type = "INSERT", !.insert_values = Values(From(text, 5))]

-----------------------------------------------------------------------------
(* parse_where, parse_select, parse_delete *)

(* Mutant: what does not start with WHERE counts as no condition. *)
ParseWhereLenient(text, stmt) ==
  IF Word(text, 1) # "WHERE" THEN stmt
  ELSE [stmt EXCEPT !.predicate_kind = IF IsIdName(Word(text, 2)) THEN "ID_EQ" ELSE "FIELD_EQ",
                    !.pred_field = Word(text, 2), !.pred_value = Word(text, 4),
                    !.pred_id = Atoi(Word(text, 4))]

(* What follows the value is not looked at. *)
ParseWhere(text, stmt) ==
  LET field == IF Word(text, 2) = "=" THEN "" ELSE Word(text, 2)
      rest == From(text, IF field = "" THEN 2 ELSE 3)
      value == Word(rest, 2)
      found == [stmt EXCEPT !.pred_field = field, !.pred_value = value]
  IN  IF text = <<>> THEN stmt
      ELSE IF text[1] # "WHERE" \/ Word(rest, 1) # "=" THEN Rejected
      ELSE IF IsIdName(field)
      THEN [found EXCEPT !.predicate_kind = "ID_EQ", !.pred_id = Atoi(value)]
      ELSE [found EXCEPT !.predicate_kind = "FIELD_EQ"]

ParseFrom(text, type) ==
  IF Word(text, 1) # "FROM" THEN Rejected
  ELSE ParseWhere(From(text, 3), [Blank EXCEPT !.type = type])

ParseSelect(text) == ParseFrom(IF Word(text, 1) = "*" THEN Tail(text) ELSE text, "SELECT")
ParseDelete(text) == ParseFrom(text, "DELETE")

-----------------------------------------------------------------------------
(* parse *)

(* EXPLAIN keeps of the inner statement its type, its condition and no     *)
(* more: what an inner EXPLAIN was about is gone.                          *)
Explaining(inner) ==
  IF inner \in {Rejected, Overrun} THEN inner
  ELSE [Blank EXCEPT !.type = "EXPLAIN", !.inner_type = inner.type,
                     !.inner_predicate = inner.predicate_kind,
                     !.predicate_kind = inner.predicate_kind,
                     !.pred_field = inner.pred_field, !.pred_value = inner.pred_value,
                     !.pred_id = inner.pred_id]

Parse(line) ==
  LET parsed[i \in 1 .. Len(line) + 1] ==
        LET rest == From(line, i + 1)
        IN  CASE Word(line, i) = "EXPLAIN" -> Explaining(parsed[i + 1])
              [] Word(line, i) = "CREATE" /\ Word(line, i + 1) = "TABLE" ->
                   ParseCreateTable(From(line, i + 2))
              [] Word(line, i) = "INSERT" -> ParseInsert(rest)
              [] Word(line, i) = "SELECT" -> ParseSelect(rest)
              [] Word(line, i) = "DELETE" -> ParseDelete(rest)
              [] OTHER -> Rejected
  IN  parsed[1]

-----------------------------------------------------------------------------
(* planner_create_plan *)

AccessPaths == {"TABLE_SCAN", "INDEX_LOOKUP", "INDEX_DELETE", "INSERT", "CREATE_TABLE"}

PathOfLookupOnly(type, predicate) ==                \* mutant: DELETE never uses the index
  CASE type \in {"CREATE_TABLE", "INSERT"} -> type
    [] type = "SELECT" /\ predicate = "ID_EQ" -> "INDEX_LOOKUP"
    [] OTHER -> "TABLE_SCAN"

PathOf(type, predicate) ==
  CASE type \in {"CREATE_TABLE", "INSERT"} -> type
    [] type = "SELECT" /\ predicate = "ID_EQ" -> "INDEX_LOOKUP"
    [] type = "DELETE" /\ predicate = "ID_EQ" -> "INDEX_DELETE"
    [] OTHER -> "TABLE_SCAN"

(* The plans a statement can get.  For EXPLAIN the planner calls itself    *)
(* with a statement of which only type and predicate_kind are set: when    *)
(* that is an EXPLAIN again, it reads inner_type, which nobody has set.    *)
Plans(stmt) ==
  CASE stmt.type = "EXPLAIN" /\ stmt.inner_type = "EXPLAIN" -> AccessPaths \cup {"UNKNOWN"}
    [] stmt.type = "EXPLAIN" -> {PathOf(stmt.inner_type, stmt.inner_predicate)}
    [] OTHER -> {PathOf(stmt.type, stmt.predicate_kind)}
=============================================================================
