------------------------------ MODULE Session -------------------------------
(***************************************************************************)
(* A user at the prompt: src/main.c reads a line, parser.c makes it a      *)
(* statement, planner.c chooses the access path, executor.c answers.       *)
(*                                                                         *)
(* The rows are a set of (id, bytes): heap and index behind them are       *)
(* module Database, whose StructuresAgree entitles this module to look an  *)
(* id up in the set.  Requests are what the user means; Text is how it is  *)
(* written down; "made" and "wrote" remember what was meant, so that the   *)
(* answers can be judged without parser, layout and bytes.                 *)
(***************************************************************************)
EXTENDS Parser, FiniteSets

CONSTANTS
  Tables,     \* what CREATE TABLE may be asked for: sequences of columns
  Inputs,     \* what INSERT may be asked for: sequences of words
  Wheres,     \* conditions: <<>>, or field and value
  MaxId       \* bound: ids are 1 .. MaxId

VARIABLES
  columns,    \* header.columns[0 .. column_count - 1]
  rows,       \* live rows
  next_id,    \* header.next_id
  status,     \* "prompt", "closed", or "undefined": C's undefined behaviour
  shown,      \* what the last line printed
  asked,      \* history: the last request
  made,       \* history: the columns of the first CREATE TABLE
  wrote       \* history: id -> the words of its INSERT

tableVars == <<columns, rows, next_id, made, wrote>>
vars == <<tableVars, status, shown, asked>>

-----------------------------------------------------------------------------
(* Requests and how they are written *)

Request(kind, what) == [kind |-> kind, what |-> what]
Explain(request) == Request("explain", request)

Creates == {Request("create", t) : t \in Tables}
Inserts == {Request("insert", i) : i \in Inputs}
Selects == {Request("select", w) : w \in Wheres}
Deletes == {Request("delete", w) : w \in Wheres}
Plain == Creates \cup Inserts \cup Selects \cup Deletes

Commas(parts) ==     \* the parts with a comma between any two
  FoldLeft(LAMBDA text, part : IF text = <<>> THEN part ELSE text \o <<",">> \o part,
           <<>>, parts)

ColumnText(col) ==
  IF col.type = "VARCHAR" THEN <<col.name, "VARCHAR", "(", col.length, ")">>
                          ELSE <<col.name, col.type>>
WhereText(where) == IF where = <<>> THEN <<>> ELSE <<"WHERE", where[1], "=", where[2]>>

PlainText(request) ==
  LET what == request.what
  IN  CASE request.kind = "create" ->
             <<"CREATE", "TABLE", "t", "(">>
             \o Commas([i \in DOMAIN what |-> ColumnText(what[i])]) \o <<")">>
        [] request.kind = "insert" ->
             <<"INSERT", "INTO", "t", "VALUES", "(">>
             \o Commas([i \in DOMAIN what |-> <<what[i]>>]) \o <<")">>
        [] request.kind = "select" -> <<"SELECT", "*", "FROM", "t">> \o WhereText(what)
        [] request.kind = "delete" -> <<"DELETE", "FROM", "t">> \o WhereText(what)
Text(request) ==
  IF request.kind = "explain" THEN <<"EXPLAIN">> \o PlainText(request.what)
                              ELSE PlainText(request)

-----------------------------------------------------------------------------
(* What a line prints: an error, or the path taken and the rows it is about *)

Answer(kind, path, ids) == [kind |-> kind, path |-> path, ids |-> ids]
Error == Answer("error", "UNKNOWN", {})
Nothing == Answer("nothing", "UNKNOWN", {})

Init ==
  /\ columns = <<>> /\ rows = {} /\ next_id = 1
  /\ status = "prompt" /\ shown = Nothing
  /\ asked = Request("none", <<>>) /\ made = <<>> /\ wrote = <<>>

-----------------------------------------------------------------------------
(* executor.c *)

(* exec_create_table: a column the user calls "id" is skipped.  With more  *)
(* than MAX_COLUMNS columns it writes behind the header.                   *)
ExecCreateTable(stmt) ==
  LET users == SelectSeq(stmt.col_defs, LAMBDA def : def.name # "id")
      all == <<IdColumn>>
             \o [i \in DOMAIN users |->
                   Column(users[i].name, users[i].type, users[i].size, FALSE)]
  IN  IF columns # <<>>
      THEN shown' = Error /\ UNCHANGED <<tableVars, status>>
      ELSE /\ columns' = WithOffsets(all)
           /\ status' = IF Len(all) > MaxColumns THEN "undefined" ELSE status
           /\ shown' = Answer("created", "CREATE_TABLE", {})
           /\ made' = asked'.what
           /\ UNCHANGED <<rows, next_id, wrote>>

ExecInsert(stmt) ==
  LET values == RowValues(columns, next_id, stmt.insert_values)
  IN  IF columns = <<>>
      THEN shown' = Error /\ UNCHANGED <<tableVars, status>>
      ELSE IF ~ Workable(columns)
      THEN status' = "undefined" /\ shown' = Nothing /\ UNCHANGED tableVars
      ELSE /\ rows' = rows \cup {[id |-> next_id, bytes |-> Serialize(columns, values)]}
           /\ next_id' = next_id + 1
           /\ shown' = Answer("inserted", "INSERT", {next_id})
           /\ wrote' = Append(wrote, asked'.what)
           /\ UNCHANGED <<columns, status, made>>

(* match_predicate, with the row decoded.                                  *)
MatchesAlways(stmt, row) == TRUE        \* mutant: every row satisfies every condition
Matches(stmt, row) ==
  stmt.predicate_kind = "FIELD_EQ" =>
    FieldMatches(columns, Deserialize(columns, row.bytes), stmt.pred_field, stmt.pred_value)

ScanFor(stmt) == {row \in rows : Matches(stmt, row)}
IndexFor(stmt) == {row \in rows : row.id = stmt.pred_id}
Ids(found) == {row.id : row \in found}

(* exec_index_lookup says so when there is no such id. *)
ExecSelect(found, path) ==
  /\ shown' = IF path = "INDEX_LOOKUP" /\ found = {} THEN Error
              ELSE Answer("selected", path, Ids(found))
  /\ UNCHANGED <<tableVars, status>>

(* The id a row is deleted by is the one in its bytes. *)
ExecDelete(found, path) ==
  /\ shown' = IF path = "INDEX_DELETE" /\ found = {} THEN Error
              ELSE Answer("deleted", path, Ids(found))
  /\ rows' = {row \in rows :
                ~ \E gone \in found :
                    Deserialize(columns, gone.bytes)[1] = IntBytes(row.id, 8)}
  /\ UNCHANGED <<columns, next_id, made, wrote, status>>

ExecExplain(stmt, path) ==
  /\ shown' = Answer("plan", path,
                     IF path \in {"INDEX_LOOKUP", "INDEX_DELETE"} THEN {stmt.pred_id} ELSE {})
  /\ UNCHANGED <<tableVars, status>>

Execute(stmt) ==
  \E path \in Plans(stmt) :
    CASE stmt.type = "EXPLAIN" -> ExecExplain(stmt, path)
      [] path = "CREATE_TABLE" -> ExecCreateTable(stmt)
      [] path = "INSERT" -> ExecInsert(stmt)
      [] path = "INDEX_LOOKUP" -> ExecSelect(IndexFor(stmt), path)
      [] path = "INDEX_DELETE" -> ExecDelete(IndexFor(stmt), path)
      [] stmt.type = "DELETE" -> ExecDelete(ScanFor(stmt), path)
      [] OTHER -> ExecSelect(ScanFor(stmt), path)

-----------------------------------------------------------------------------
(* main.c *)

(* The line of a request is read, parsed and executed. *)
Enter(request, line) ==
  LET stmt == Parse(line)
  IN  /\ status = "prompt"
      /\ asked' = request
      /\ CASE stmt = Rejected -> shown' = Error /\ UNCHANGED <<tableVars, status>>
           [] stmt = Overrun ->
                status' = "undefined" /\ shown' = Nothing /\ UNCHANGED tableVars
           [] OTHER -> Execute(stmt)

Ask == \E request \in Plain \cup {Explain(r) : r \in Plain} :
         /\ request.kind = "insert" => next_id <= MaxId
         /\ Enter(request, Text(request))
AskTwice == \E request \in Plain :     \* EXPLAIN EXPLAIN ...
              Enter(Explain(Explain(request)), <<"EXPLAIN">> \o Text(Explain(request)))

(* A DELETE with a condition that lost a word on the way. *)
Slip == \E request \in Deletes :
          /\ request.what # <<>>
          /\ \E i \in DOMAIN Text(request) :
               Enter(Request("slip", <<request.what, i>>), RemoveAt(Text(request), i))

(* .exit closes the file; the next start finds the header and the pages.   *)
Exit ==
  /\ status = "prompt" /\ status' = "closed"
  /\ shown' = Nothing /\ asked' = Request("none", <<>>) /\ UNCHANGED tableVars
Start ==
  /\ status = "closed" /\ status' = "prompt"
  /\ UNCHANGED <<tableVars, shown, asked>>

Next == Ask \/ Slip \/ Exit \/ Start
NextNested == Next \/ AskTwice

Spec == Init /\ [][Next]_vars
NestedSpec == Init /\ [][NextNested]_vars

-----------------------------------------------------------------------------
(* What was meant, without parser, layout and bytes *)

UserColumns == SelectSeq(made, LAMBDA col : col.name # "id")
Wrote(id, c) == IF c \in DOMAIN wrote[id] THEN wrote[id][c] ELSE ""

SizeOf(col) == CASE col.type = "INT" -> 4 [] col.type = "BIGINT" -> 8
                 [] col.length = "" -> DefaultSize [] OTHER -> Atoi(col.length)

(* A string column of size n keeps n - 1 characters. *)
Kept(col, text) ==
  IF col.type # "VARCHAR" THEN IntBytes(Atoi(text), SizeOf(col))
  ELSE SubSeq(StringBytes(text), 1, IF Len(Chars(text)) < SizeOf(col) THEN Len(Chars(text))
                                                                  ELSE SizeOf(col) - 1)

(* The row of this id satisfies the condition. *)
Meant(id, where) ==
  CASE where = <<>> -> TRUE
    [] where # <<>> /\ IsIdName(where[1]) -> id = Atoi(where[2])
    [] OTHER ->
         \E c \in DOMAIN UserColumns :
           /\ UserColumns[c].name = where[1]
           /\ \A b \in 1 .. c - 1 : UserColumns[b].name # where[1]
           /\ Kept(UserColumns[c], Wrote(id, c)) =
                Convert(UserColumns[c] @@ [size |-> SizeOf(UserColumns[c])], where[2])
MeantIds(where) == {id \in Ids(rows) : Meant(id, where)}

-----------------------------------------------------------------------------
(* Properties *)

(* Every stored row gives back its id and the words of its INSERT, each    *)
(* converted to its column's type and cut to its size, whatever columns    *)
(* lie before it and however many words there were (row_serialize,         *)
(* row_deserialize, schema_compute_layout, exec_insert).                   *)
RowsReadBack ==
  \A row \in rows :
    Deserialize(columns, row.bytes) =
      <<IntBytes(row.id, 8)>>
      \o [c \in DOMAIN UserColumns |-> Kept(UserColumns[c], Wrote(row.id, c))]

(* SELECT shows exactly the rows its condition is meant to select, whether *)
(* the planner takes the index or the scan; "not found" is said only when  *)
(* there is none.                                                          *)
AnswersAreRight ==
  asked.kind = "select" =>
    IF shown.kind = "error" THEN MeantIds(asked.what) = {}
                            ELSE shown.ids = MeantIds(asked.what)

(* DELETE takes exactly the rows its condition is meant to select: the one *)
(* id, the rows whose field has the value, or all of them when there is no *)
(* condition, and never a row of another id (exec_index_delete,            *)
(* delete_scan_cb, exec_delete_scan).                                      *)
DeletesWhatWasMeant ==
  [][asked'.kind = "delete" => Ids(rows') = Ids(rows) \ MeantIds(asked'.what)]_vars

(* A DELETE ... WHERE that lost a word never deletes more than was meant:  *)
(* it is refused or finds nothing, except that a lost value reads as the   *)
(* empty word.                                                             *)
LostWordIsHarmless ==
  [][asked'.kind = "slip" =>
       LET where == asked'.what[1]
           lostValue == asked'.what[2] = 7
       IN  Ids(rows) \ Ids(rows') \subseteq IF lostValue THEN MeantIds(<<where[1], "">>) ELSE {}]_vars

(* The access path of a request, as README.md has it: WHERE id = N uses    *)
(* the index, every other condition the scan.                              *)
DocumentedPath(request) ==
  LET byId == request.what # <<>> /\ IsIdName(request.what[1])
  IN  CASE request.kind = "create" -> "CREATE_TABLE"
        [] request.kind = "insert" -> "INSERT"
        [] request.kind = "select" -> IF byId THEN "INDEX_LOOKUP" ELSE "TABLE_SCAN"
        [] request.kind = "delete" -> IF byId THEN "INDEX_DELETE" ELSE "TABLE_SCAN"

(* EXPLAIN names the path on which the explained statement would run, and  *)
(* the id it would look up; statements run on that path.                   *)
PathsAsDocumented ==
  /\ asked.kind \in {"select", "delete"} /\ shown.kind # "error" =>
       shown.path = DocumentedPath(asked)
  /\ asked.kind = "explain" /\ shown.kind = "plan" =>
       /\ shown.path = DocumentedPath(asked.what)
       /\ shown.path \in {"INDEX_LOOKUP", "INDEX_DELETE"} =>
            shown.ids = {Atoi(asked.what.what[2])}

(* docs/sql/implementation-spec.md:1027 "EXPLAIN이 access path를 정확히    *)
(* 출력": EXPLAIN prints the access path exactly, of a nested EXPLAIN too. *)
Innermost(request) ==
  IF request.what.kind = "explain" THEN request.what.what ELSE request.what
ExplainIsExact ==
  asked.kind = "explain" /\ shown.kind = "plan" => shown.path = DocumentedPath(Innermost(asked))

(* page_format.h:47: MAX_COLUMNS is the largest number of columns of a     *)
(* table.                                                                  *)
ColumnsFit == Len(columns) <= MaxColumns
=============================================================================
