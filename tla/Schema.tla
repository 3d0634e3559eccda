------------------------------- MODULE Schema -------------------------------
(***************************************************************************)
(* Rows as bytes: src/storage/schema.c, the column metadata of the header, *)
(* and the conversions executor.c makes between text and typed values.     *)
(*                                                                         *)
(* A byte is a pair, so that it says what was written: <<c, 0>> is the     *)
(* character c, <<v, k>> the k-th byte of the integer v.  A row_value_t is *)
(* the sequence of its bytes (a string without its padding), which makes   *)
(* strcmp and == the equality of sequences.                                *)
(***************************************************************************)
EXTENDS Integers, SequencesExt

CONSTANTS
  SizeModulus,    \* sizes, offsets and row_size are uint16_t: 65536
  StrSize,        \* sizeof(row_value_t.str_val): 256
  MaxColumns,     \* MAX_COLUMNS: 16
  MaxRowSize,     \* what an empty heap page takes: page_size - 24
  Atoi(_),        \* atoi, atoll of a word: 0 unless it starts with a number
  Chars(_)        \* the characters of a word, at most StrSize - 1

(* A row that fits a page has a size of 16 bits. *)
ASSUME SchemaAssumption ==
  SizeModulus \in Nat \ {0} /\ MaxRowSize \in 0 .. SizeModulus - 1

Byte(c, k) == <<c, k>>
ZeroByte == Byte(0, 0)
IntBytes(v, size) == [k \in 1 .. size |-> IF v = 0 THEN ZeroByte ELSE Byte(v, k)]
StringBytes(text) == [k \in DOMAIN Chars(text) |-> Byte(Chars(text)[k], 0)]

Column(name, type, size, is_system) ==
  [name |-> name, type |-> type, size |-> size, offset |-> 0, is_system |-> is_system]
IdColumn == Column("id", "BIGINT", 8, TRUE)

-----------------------------------------------------------------------------
(* schema_compute_layout *)

(* The bytes of the first n columns. *)
SizeOfFirst(columns) ==
  LET sum[n \in 0 .. Len(columns)] == IF n = 0 THEN 0 ELSE sum[n - 1] + columns[n].size
  IN  sum
SumOfSizes(columns) == SizeOfFirst(columns)[Len(columns)]

(* Mutant: the last column starts where the one before it started. *)
OffsetsBehind(columns) ==
  [i \in 1 .. Len(columns) + 1 |->
     SizeOfFirst(columns)[IF i = Len(columns) THEN Max({0, i - 2}) ELSE i - 1] % SizeModulus]

(* Where each column starts, in 16 bits; the last number is row_size. *)
Offsets(columns) ==
  [i \in 1 .. Len(columns) + 1 |-> SizeOfFirst(columns)[i - 1] % SizeModulus]

WithOffsets(columns) ==
  [i \in DOMAIN columns |-> [columns[i] EXCEPT !.offset = Offsets(columns)[i]]]
LayoutSize(columns) == Offsets(columns)[Len(columns) + 1]

(* The layouts the code can work with.  For any other one the C functions  *)
(* below reach behind the row buffer (sizes that wrap around), behind the  *)
(* text (VARCHAR(0): a length of -1), behind values[MAX_COLUMNS] (a        *)
(* VARCHAR above 255) or behind the heap page.  CREATE TABLE takes them    *)
(* all.                                                                    *)
Workable(columns) ==
  /\ Len(columns) <= MaxColumns
  /\ SumOfSizes(columns) <= MaxRowSize
  /\ \A i \in DOMAIN columns :
       columns[i].type = "VARCHAR" =>
         /\ columns[i].size > 0
         /\ (i - 1) * StrSize + columns[i].size < MaxColumns * StrSize

-----------------------------------------------------------------------------
(* row_serialize, row_deserialize *)

(* A string keeps room for its terminating zero. *)
Cell(col, value) ==
  IF col.type = "VARCHAR" /\ Len(value) >= col.size THEN SubSeq(value, 1, col.size - 1)
                                                    ELSE value

Cells(columns, values) == [i \in DOMAIN columns |-> Cell(columns[i], values[i])]

(* The columns whose bytes are copied to byte k of the row. *)
Over(columns, cells, k) ==
  {i \in DOMAIN columns : k - columns[i].offset \in 0 .. Len(cells[i]) - 1}

(* The row is zeroed, then the columns are copied into it one after the    *)
(* other: where two of them overlap the later one remains.                 *)
Serialize(columns, values) ==
  LET cells == Cells(columns, values)
  IN  [k \in 0 .. LayoutSize(columns) - 1 |->
         LET over == Over(columns, cells, k)
             last == Max(over)
         IN  IF over = {} THEN ZeroByte ELSE cells[last][k - columns[last].offset + 1]]

UpToZero(bytes) ==
  LET zeros == {k \in DOMAIN bytes : bytes[k] = ZeroByte}
  IN  IF zeros = {} THEN bytes
      ELSE SubSeq(bytes, 1, (CHOOSE k \in zeros : \A j \in zeros : k <= j) - 1)

Deserialize(columns, row) ==
  [i \in DOMAIN columns |->
     LET bytes == [k \in 1 .. columns[i].size |-> row[columns[i].offset + k - 1]]
     IN  IF columns[i].type = "VARCHAR" THEN UpToZero(bytes) ELSE bytes]

-----------------------------------------------------------------------------
(* Text to values: exec_insert and match_predicate *)

Convert(col, text) ==
  IF col.type = "VARCHAR" THEN StringBytes(text) ELSE IntBytes(Atoi(text), col.size)
NoValue(col) == IF col.type = "VARCHAR" THEN <<>> ELSE IntBytes(0, col.size)

(* values[0] is the id; the user's values fill the other columns in order: *)
(* columns without a value stay zero, values without a column are ignored. *)
RowValues(columns, id, texts) ==
  [i \in DOMAIN columns |->
     CASE i = 1 -> IntBytes(id, 8)
       [] i > 1 /\ i - 1 <= Len(texts) -> Convert(columns[i], texts[i - 1])
       [] OTHER -> NoValue(columns[i])]

(* WHERE field = text on one row: the first column of that name decides.   *)
FieldMatches(columns, values, field, text) ==
  LET named == {i \in DOMAIN columns : columns[i].name = field}
      first == CHOOSE i \in named : \A j \in named : i <= j
  IN  named # {} /\ values[first] = Convert(columns[first], text)
=============================================================================
