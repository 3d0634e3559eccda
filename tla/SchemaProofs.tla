---------------------------- MODULE SchemaProofs ----------------------------
(***************************************************************************)
(* The layout of rows, for every list of columns that CREATE TABLE takes   *)
(* and the code can work with: columns lie side by side, row_deserialize   *)
(* gives back what row_serialize was given, and the id that exec_delete    *)
(* reads out of a row is the id the row was inserted with.                 *)
(***************************************************************************)
EXTENDS Schema, LinkedListProofs

(* The columns of a table whose names are in Names. *)
ColumnMeta(Names) ==
  {col \in [name : Names, type : {"INT", "BIGINT", "VARCHAR"}, size : Nat, offset : Nat,
            is_system : BOOLEAN] :
     (col.type = "INT" => col.size = 4) /\ (col.type = "BIGINT" => col.size = 8)}

-----------------------------------------------------------------------------
(* Layout *)

(* SizeOfFirst is the running sum. *)
LEMMA RunningSum ==
  ASSUME NEW columns, Len(columns) \in Nat, \A i \in 1 .. Len(columns) : columns[i].size \in Nat
  PROVE  LET sum == SizeOfFirst(columns)
         IN  /\ sum \in [0 .. Len(columns) -> Nat] /\ sum[0] = 0
             /\ \A i \in 1 .. Len(columns) : sum[i] = sum[i - 1] + columns[i].size
<1> DEFINE n == Len(columns)
           step == [x \in Nat \X (1 .. n) |-> x[1] + columns[x[2]].size]
           Sums(f) == f = [k \in 0 .. n |-> IF k = 0 THEN 0 ELSE f[k - 1] + columns[k].size]
           sum == SizeOfFirst(columns)
<1>1. sum = CHOOSE f : Sums(f)
  BY DEF SizeOfFirst
<1>2. IsLoop(Nat, 0, n, step)
  BY DEF IsLoop
<1>3. PICK f : LoopRun(Nat, 0, n, step, f)
  <2> HIDE DEF step, n
  <2> QED BY <1>2, LoopRuns
<1>4. f \in [0 .. n -> Nat] /\ f[0] = 0
  BY <1>3 DEF LoopRun
<1>5. ASSUME NEW k \in 1 .. n PROVE f[k] = f[k - 1] + columns[k].size
  <2>1. k - 1 \in 0 .. n /\ f[k - 1] \in Nat
    BY <1>4
  <2>2. f[k] = step[<<f[k - 1], k>>]
    BY <1>3 DEF LoopRun
  <2> QED BY <2>1, <2>2
<1>6. Sums(f)
  <2>1. \A k \in 0 .. n : f[k] = IF k = 0 THEN 0 ELSE f[k - 1] + columns[k].size
    <3> TAKE k \in 0 .. n
    <3>1. k # 0 => k \in 1 .. n
      OBVIOUS
    <3> QED BY <3>1, <1>4, <1>5
  <2>2. f = [k \in 0 .. n |-> f[k]]
    BY <1>4
  <2> QED BY <2>1, <2>2
<1>7. Sums(sum)
  <2> HIDE DEF Sums, sum
  <2> QED BY <1>1, <1>6
<1> HIDE DEF sum
<1>8. /\ DOMAIN sum = 0 .. n /\ sum[0] = 0
      /\ \A k \in 1 .. n : sum[k] = sum[k - 1] + columns[k].size
  <2>1. \A k \in 1 .. n : k \in 0 .. n /\ k # 0
    OBVIOUS
  <2> QED BY <1>7, <2>1
<1>9. sum \in [0 .. n -> Nat]
  <2> DEFINE Small == {k \in 0 .. n : sum[k] \in Nat}
  <2>1. 0 \in Small
    BY <1>8
  <2>2. \A k \in 1 .. n : k - 1 \in Small => k \in Small
    BY <1>8
  <2> HIDE DEF Small
  <2>3. \A k \in 0 .. n : k \in Small
    BY <2>1, <2>2, EveryRound
  <2>4. \A k \in 0 .. n : sum[k] \in Nat
    BY <2>3 DEF Small
  <2>5. sum = [k \in 0 .. n |-> sum[k]]
    BY <1>7, <1>8
  <2> QED BY <2>4, <2>5
<1> QED BY <1>8, <1>9 DEF sum

(* The sum grows. *)
LEMMA SumGrows ==
  ASSUME NEW columns, Len(columns) \in Nat, \A i \in 1 .. Len(columns) : columns[i].size \in Nat,
         NEW j \in 0 .. Len(columns), NEW k \in j .. Len(columns)
  PROVE  SizeOfFirst(columns)[j] <= SizeOfFirst(columns)[k]
<1> DEFINE sum == SizeOfFirst(columns)
           n == Len(columns)
           Above == {i \in 0 .. n : i < j \/ sum[j] <= sum[i]}
<1>1. /\ sum \in [0 .. n -> Nat]
      /\ \A i \in 1 .. n : sum[i] = sum[i - 1] + columns[i].size
  BY RunningSum
<1> HIDE DEF sum
<1>2. 0 \in Above
  BY <1>1
<1>3. ASSUME NEW i \in 1 .. n, i - 1 \in Above PROVE i \in Above
  <2>1. i \in 0 .. n /\ i - 1 \in 0 .. n /\ j \in 0 .. n
    OBVIOUS
  <2> HIDE DEF n
  <2>2. sum[i] \in Nat /\ sum[i - 1] \in Nat /\ sum[j] \in Nat
    BY <1>1, <2>1
  <2>3. columns[i].size \in Nat
    BY DEF n
  <2>4. sum[i - 1] <= sum[i]
    BY <1>1, <2>2, <2>3
  <2>5. i < j \/ i = j \/ ~(i - 1 < j)
    BY <2>1
  <2> QED BY <1>3, <2>1, <2>2, <2>4, <2>5
<1> HIDE DEF Above
<1>4. \A i \in 0 .. n : i \in Above
  BY <1>2, <1>3, EveryRound
<1> QED BY <1>4 DEF Above, sum

(* A layout changes nothing but the offsets. *)
LEMMA LayoutKeeps ==
  ASSUME NEW Names, NEW all \in Seq(ColumnMeta(Names))
  PROVE  LET columns == WithOffsets(all)
         IN  /\ Len(all) \in Nat /\ Len(columns) = Len(all) /\ DOMAIN columns = 1 .. Len(all)
             /\ \A i \in 1 .. Len(all) :
                  /\ columns[i].type = all[i].type /\ columns[i].size = all[i].size
                  /\ columns[i].offset = Offsets(all)[i] /\ all[i].size \in Nat
<1> DEFINE columns == WithOffsets(all)
           n == Len(all)
<1>1. n \in Nat /\ DOMAIN all = 1 .. n /\ \A i \in 1 .. n : all[i] \in ColumnMeta(Names)
  OBVIOUS
<1>2. columns = [i \in 1 .. n |-> [all[i] EXCEPT !.offset = Offsets(all)[i]]]
  BY <1>1 DEF WithOffsets
<1> HIDE DEF columns
<1>3. ASSUME NEW i \in 1 .. n
      PROVE  /\ columns[i].type = all[i].type /\ columns[i].size = all[i].size
             /\ columns[i].offset = Offsets(all)[i] /\ all[i].size \in Nat
  <2>1. all[i] \in [name : Names, type : {"INT", "BIGINT", "VARCHAR"}, size : Nat, offset : Nat,
                    is_system : BOOLEAN]
    BY <1>1 DEF ColumnMeta
  <2>2. columns[i] = [all[i] EXCEPT !.offset = Offsets(all)[i]]
    BY <1>2
  <2> QED BY <2>1, <2>2
<1>4. Len(columns) = n /\ DOMAIN columns = 1 .. n
  BY <1>1, <1>2
<1> QED BY <1>1, <1>3, <1>4 DEF columns

(* The sum is the same before and after. *)
LEMMA SameSum ==
  ASSUME NEW a, NEW b, Len(a) \in Nat, Len(b) = Len(a),
         \A i \in 1 .. Len(a) : a[i].size \in Nat /\ b[i].size = a[i].size
  PROVE  SizeOfFirst(b) = SizeOfFirst(a)
<1> DEFINE f == SizeOfFirst(a)
           g == SizeOfFirst(b)
           n == Len(a)
           Same == {k \in 0 .. n : f[k] = g[k]}
<1>1. /\ f \in [0 .. n -> Nat] /\ f[0] = 0
      /\ \A i \in 1 .. n : f[i] = f[i - 1] + a[i].size
  BY RunningSum
<1>2. /\ g \in [0 .. n -> Nat] /\ g[0] = 0
      /\ \A i \in 1 .. n : g[i] = g[i - 1] + a[i].size
  BY RunningSum
<1> HIDE DEF f, g
<1>3. 0 \in Same
  BY <1>1, <1>2
<1>4. \A k \in 1 .. n : k - 1 \in Same => k \in Same
  BY <1>1, <1>2
<1> HIDE DEF Same
<1>5. \A k \in 0 .. n : k \in Same
  BY <1>3, <1>4, EveryRound
<1>6. \A k \in 0 .. n : f[k] = g[k]
  BY <1>5 DEF Same
<1>7. f = g
  BY <1>1, <1>2, <1>6
<1> QED BY <1>7 DEF f, g

(* schema_compute_layout: when the sizes do not wrap around, every column  *)
(* ends where the next one starts or before, and the last one at row_size. *)
THEOREM ColumnsStayApart ==
  ASSUME NEW Names, NEW all \in Seq(ColumnMeta(Names)), SumOfSizes(all) < SizeModulus
  PROVE  LET columns == WithOffsets(all)
         IN  /\ LayoutSize(columns) = SumOfSizes(all)
             /\ \A i \in DOMAIN columns :
                  /\ columns[i].offset \in Nat
                  /\ columns[i].offset + columns[i].size <= LayoutSize(columns)
             /\ \A i, j \in DOMAIN columns :
                  i < j => columns[i].offset + columns[i].size <= columns[j].offset
<1> DEFINE columns == WithOffsets(all)
           sum == SizeOfFirst(all)
           n == Len(all)
<1>1. /\ n \in Nat /\ Len(columns) = n /\ DOMAIN columns = 1 .. n
      /\ \A i \in 1 .. n : /\ columns[i].size = all[i].size /\ all[i].size \in Nat
                           /\ columns[i].offset = Offsets(all)[i]
  BY LayoutKeeps
<1>2. SizeOfFirst(columns) = sum
  BY <1>1, SameSum
<1>3. /\ sum \in [0 .. n -> Nat]
      /\ \A i \in 1 .. n : sum[i] = sum[i - 1] + all[i].size
  BY <1>1, RunningSum
<1>4. \A j \in 0 .. n : \A k \in j .. n : sum[j] <= sum[k]
  BY <1>1, SumGrows
<1>5. sum[n] < SizeModulus
  BY DEF SumOfSizes
<1> HIDE DEF columns, sum
<1>6. \A j \in 0 .. n : sum[j] \in Nat /\ sum[j] % SizeModulus = sum[j]
  <2> TAKE j \in 0 .. n
  <2>1. n \in j .. n /\ sum[j] \in Nat /\ sum[n] \in Nat
    BY <1>1, <1>3
  <2>2. sum[j] < SizeModulus
    BY <1>4, <1>5, <2>1, SchemaAssumption
  <2> QED BY <2>1, <2>2, SchemaAssumption
<1>7. \A i \in 1 .. n : columns[i].offset = sum[i - 1]
  <2> TAKE i \in 1 .. n
  <2>1. i \in 1 .. n + 1 /\ i - 1 \in 0 .. n
    BY <1>1
  <2>2. Offsets(all)[i] = sum[i - 1] % SizeModulus
    BY <2>1 DEF Offsets, sum
  <2> QED BY <1>1, <1>6, <2>1, <2>2
<1>8. LayoutSize(columns) = sum[n]
  <2>1. n + 1 \in 1 .. n + 1 /\ (n + 1) - 1 = n /\ n \in 0 .. n
    BY <1>1
  <2>2. Offsets(columns)[n + 1] = sum[(n + 1) - 1] % SizeModulus
    BY <1>1, <1>2, <2>1 DEF Offsets
  <2> QED BY <1>1, <1>6, <2>1, <2>2 DEF LayoutSize
<1>9. SumOfSizes(all) = sum[n]
  BY DEF SumOfSizes, sum
<1>10. \A i \in 1 .. n : columns[i].offset + columns[i].size = sum[i] /\ sum[i] <= sum[n]
  <2> TAKE i \in 1 .. n
  <2>1. i \in 0 .. n /\ n \in i .. n
    BY <1>1
  <2> QED BY <1>1, <1>3, <1>4, <1>7, <2>1
<1>11. \A i, j \in 1 .. n : i < j => sum[i] <= columns[j].offset
  <2> SUFFICES ASSUME NEW i \in 1 .. n, NEW j \in 1 .. n, i < j PROVE sum[i] <= sum[j - 1]
    BY <1>7
  <2>1. i \in 0 .. n /\ j - 1 \in i .. n
    BY <1>1
  <2> QED BY <1>4, <2>1
<1>12. \A i \in 1 .. n : columns[i].offset \in Nat
  <2> TAKE i \in 1 .. n
  <2>1. i - 1 \in 0 .. n
    BY <1>1
  <2> QED BY <2>1, <1>6, <1>7
<1> QED BY <1>1, <1>8, <1>9, <1>10, <1>11, <1>12 DEF columns

-----------------------------------------------------------------------------
(* row_serialize and row_deserialize *)

(* A value fits its column: integers have the size of the column, and no   *)
(* character of a string is a zero.                                        *)
ValueFits(col, value, Bytes) ==
  /\ value \in Seq(Bytes)
  /\ col.type # "VARCHAR" => Len(value) = col.size
  /\ col.type = "VARCHAR" => \A k \in 1 .. Len(value) : value[k] # ZeroByte

(* A string and its zero end where the next column starts, or before. *)
LEMMA CellFacts ==
  ASSUME NEW Bytes, NEW col, NEW value, ValueFits(col, value, Bytes), col.size \in Nat,
         col.type = "VARCHAR" => col.size > 0
  PROVE  LET cell == Cell(col, value)
         IN  /\ cell \in Seq(Bytes) /\ Len(cell) <= col.size
             /\ col.type # "VARCHAR" => Len(cell) = col.size
             /\ col.type = "VARCHAR" => /\ Len(cell) < col.size
                                        /\ \A k \in 1 .. Len(cell) : cell[k] # ZeroByte
<1>1. value \in Seq(Bytes) /\ Len(value) \in Nat
  BY DEF ValueFits
<1>2. CASE col.type = "VARCHAR" /\ Len(value) >= col.size
  <2> DEFINE cut == SubSeq(value, 1, col.size - 1)
  <2>1. /\ cut \in Seq(Bytes) /\ Len(cut) = col.size - 1
        /\ \A k \in 1 .. Len(cut) : cut[k] = value[k] /\ k \in 1 .. Len(value)
    BY <1>1, <1>2
  <2>2. Cell(col, value) = cut
    BY <1>2 DEF Cell
  <2> HIDE DEF cut
  <2> QED BY <2>1, <2>2, <1>2 DEF ValueFits
<1>3. CASE ~(col.type = "VARCHAR" /\ Len(value) >= col.size)
  <2>1. Cell(col, value) = value
    BY <1>3 DEF Cell
  <2> QED BY <1>1, <1>3, <2>1 DEF ValueFits
<1> QED BY <1>2, <1>3

(* What follows the string is zero, and the string has no zero. *)
LEMMA StringEnds ==
  ASSUME NEW Bytes, NEW cell \in Seq(Bytes), \A k \in 1 .. Len(cell) : cell[k] # ZeroByte,
         NEW size \in Nat, Len(cell) < size, NEW bytes \in Seq(Bytes \cup {ZeroByte}),
         Len(bytes) = size,
         \A k \in 1 .. size : bytes[k] = IF k <= Len(cell) THEN cell[k] ELSE ZeroByte
  PROVE  UpToZero(bytes) = cell
<1> DEFINE zeros == {k \in DOMAIN bytes : bytes[k] = ZeroByte}
           n == Len(cell)
           first == CHOOSE k \in zeros : \A j \in zeros : k <= j
           cut == SubSeq(bytes, 1, n)
<1>1. n \in Nat /\ DOMAIN bytes = 1 .. size
  OBVIOUS
<1>2. \A k : k \in zeros <=> k \in n + 1 .. size
  BY <1>1
<1>3. n + 1 \in zeros /\ \A j \in zeros : n + 1 <= j
  BY <1>1, <1>2
<1>4. \A k \in zeros : k \in Nat
  BY <1>1
<1>5. first = n + 1
  <2> HIDE DEF zeros
  <2>1. first \in zeros /\ \A j \in zeros : first <= j
    BY <1>3
  <2> QED BY <2>1, <1>1, <1>3, <1>4
<1>6. zeros # {} /\ UpToZero(bytes) = SubSeq(bytes, 1, first - 1)
  BY <1>3 DEF UpToZero
<1>7. first - 1 = n
  <2> HIDE DEF first, n
  <2> QED BY <1>1, <1>5
<1>8. /\ cut \in Seq(Bytes \cup {ZeroByte}) /\ Len(cut) = n
      /\ \A k \in 1 .. n : cut[k] = bytes[k] /\ k \in 1 .. size
  BY <1>1
<1>9. cut = cell
  <2> HIDE DEF cut
  <2>1. cell \in Seq(Bytes \cup {ZeroByte})
    OBVIOUS
  <2>2. \A k \in 1 .. n : cut[k] = cell[k]
    BY <1>8
  <2> QED BY <1>8, <2>1, <2>2, SeqEqual
<1> QED BY <1>6, <1>7, <1>9

(* Two intervals with a number in common do not lie side by side. *)
LEMMA SidesMeet ==
  ASSUME NEW a \in Nat, NEW s \in Nat, NEW b \in Nat, NEW t \in Nat, NEW x \in Nat,
         a <= x, x < a + s, b <= x, x < b + t
  PROVE  ~(a + s <= b) /\ ~(b + t <= a)
OBVIOUS

(* A number inside the first bytes of an interval is inside the interval. *)
LEMMA InsideOf ==
  ASSUME NEW a \in Nat, NEW s \in Nat, NEW x \in Nat, NEW m \in Nat, m <= s,
         x - a \in 0 .. m - 1
  PROVE  a <= x /\ x < a + s
OBVIOUS

(* Byte k of column i is in the row where the column starts.               *)
CellInRow(columns, values, i) ==
  \A k \in 1 .. columns[i].size :
    Serialize(columns, values)[columns[i].offset + k - 1] =
      IF k <= Len(Cell(columns[i], values[i])) THEN Cell(columns[i], values[i])[k] ELSE ZeroByte

LEMMA BytesInRow ==
  ASSUME NEW Bytes, NEW Names, NEW all \in Seq(ColumnMeta(Names)),
         Workable(WithOffsets(all)), NEW values,
         \A i \in 1 .. Len(all) : ValueFits(all[i], values[i], Bytes),
         NEW i \in 1 .. Len(all)
  PROVE  CellInRow(WithOffsets(all), values, i)
<1>0. WithOffsets(all)[i].size = all[i].size
  BY LayoutKeeps
<1> SUFFICES
      ASSUME NEW k \in 1 .. all[i].size
      PROVE  LET columns == WithOffsets(all)
                 cell == Cell(columns[i], values[i])
             IN  Serialize(columns, values)[columns[i].offset + k - 1] =
                   IF k <= Len(cell) THEN cell[k] ELSE ZeroByte
  BY <1>0 DEF CellInRow
<1> DEFINE columns == WithOffsets(all)
           cells == Cells(columns, values)
           n == Len(all)
           at == columns[i].offset + k - 1
           over == Over(columns, cells, at)
           last == Max(over)
<1>1. /\ n \in Nat /\ Len(columns) = n /\ DOMAIN columns = 1 .. n
      /\ \A j \in 1 .. n : /\ columns[j].type = all[j].type /\ columns[j].size = all[j].size
                           /\ all[j].size \in Nat
  BY LayoutKeeps
<1>2. SumOfSizes(all) < SizeModulus
  <2>1. SumOfSizes(columns) = SumOfSizes(all)
    BY <1>1, SameSum DEF SumOfSizes
  <2>2. SumOfSizes(all) \in Nat
    <3>1. SizeOfFirst(all) \in [0 .. n -> Nat]
      BY <1>1, RunningSum
    <3> QED BY <3>1, <1>1 DEF SumOfSizes
  <2>3. SumOfSizes(columns) <= MaxRowSize
    BY DEF Workable
  <2> QED BY <2>1, <2>2, <2>3, SchemaAssumption
<1>3. /\ \A j \in 1 .. n : /\ columns[j].offset \in Nat
                           /\ columns[j].offset + columns[j].size <= LayoutSize(columns)
      /\ \A a, b \in 1 .. n : a < b => columns[a].offset + columns[a].size <= columns[b].offset
      /\ LayoutSize(columns) \in Nat
  <2>1. /\ LayoutSize(columns) = SumOfSizes(all)
        /\ \A j \in DOMAIN columns : /\ columns[j].offset \in Nat
                                     /\ columns[j].offset + columns[j].size <= LayoutSize(columns)
        /\ \A a, b \in DOMAIN columns :
             a < b => columns[a].offset + columns[a].size <= columns[b].offset
    BY <1>2, ColumnsStayApart
  <2>2. SumOfSizes(all) \in Nat
    <3>1. SizeOfFirst(all) \in [0 .. n -> Nat]
      BY <1>1, RunningSum
    <3> QED BY <3>1, <1>1 DEF SumOfSizes
  <2> HIDE DEF columns
  <2> QED BY <1>1, <2>1, <2>2
<1>4. \A j \in 1 .. n : columns[j].type = "VARCHAR" => columns[j].size > 0
  BY <1>1 DEF Workable
<1> HIDE DEF columns
<1>5. \A j \in 1 .. n : /\ cells[j] = Cell(columns[j], values[j])
                        /\ cells[j] \in Seq(Bytes) /\ Len(cells[j]) <= columns[j].size
                        /\ Len(cells[j]) \in Nat
  <2> TAKE j \in 1 .. n
  <2>1. cells[j] = Cell(columns[j], values[j])
    BY <1>1 DEF Cells
  <2>2. ValueFits(columns[j], values[j], Bytes)
    BY <1>1 DEF ValueFits
  <2>3. Cell(columns[j], values[j]) \in Seq(Bytes) /\ Len(Cell(columns[j], values[j])) <= columns[j].size
    BY <1>1, <1>4, <2>2, CellFacts
  <2> QED BY <2>1, <2>3
<1> HIDE DEF cells
<1>6. at \in 0 .. LayoutSize(columns) - 1 /\ k \in Nat /\ k >= 1
  BY <1>1, <1>3
<1>7. \A j \in 1 .. n : j \in over <=> at - columns[j].offset \in 0 .. Len(cells[j]) - 1
  BY <1>1 DEF Over
<1>8. over \subseteq 1 .. n
  BY <1>1 DEF Over
<1>9. ASSUME NEW j \in 1 .. n, j \in over PROVE j = i
  <2>1. i \in 1 .. n
    OBVIOUS
  <2>2. /\ columns[j].size \in Nat /\ columns[j].offset \in Nat
        /\ columns[i].size \in Nat /\ columns[i].offset \in Nat /\ k <= columns[i].size
    <3>1. columns[i].size = all[i].size /\ all[i].size \in Nat /\ columns[i].offset \in Nat
      BY <1>1, <1>3, <2>1
    <3>2. columns[j].size = all[j].size /\ all[j].size \in Nat /\ columns[j].offset \in Nat
      BY <1>1, <1>3
    <3>3. k <= all[i].size
      BY <3>1
    <3> QED BY <3>1, <3>2, <3>3
  <2>3. Len(cells[j]) <= columns[j].size /\ Len(cells[j]) \in Nat
    BY <1>5
  <2>4. at - columns[j].offset \in 0 .. Len(cells[j]) - 1
    BY <1>7, <1>9
  <2>5. /\ at \in Nat /\ columns[i].offset <= at /\ at < columns[i].offset + columns[i].size
    BY <1>6, <2>2
  <2> HIDE DEF at, n
  <2>6. columns[j].offset <= at /\ at < columns[j].offset + columns[j].size
    <3>1. columns[j].offset \in Nat /\ columns[j].size \in Nat
      BY <2>2
    <3>2. at \in Nat
      BY <2>5
    <3> QED BY <3>1, <3>2, <2>3, <2>4, InsideOf
  <2>7. /\ ~(columns[j].offset + columns[j].size <= columns[i].offset)
        /\ ~(columns[i].offset + columns[i].size <= columns[j].offset)
    BY <2>2, <2>5, <2>6, SidesMeet
  <2>8. ~(j < i) /\ ~(i < j)
    BY <1>3, <2>1, <2>7
  <2> QED BY <1>1, <2>1, <2>8
<1>10. i \in over <=> k <= Len(cells[i])
  BY <1>3, <1>5, <1>6, <1>7
<1>11. Serialize(columns, values)[at] =
         IF over = {} THEN ZeroByte ELSE cells[last][at - columns[last].offset + 1]
  BY <1>6 DEF Serialize, cells
<1>12. CASE k <= Len(cells[i])
  <2>1. over = {i}
    BY <1>8, <1>9, <1>10, <1>12
  <2>2. last = i
    BY <2>1 DEF Max
  <2>3. at - columns[i].offset + 1 = k
    BY <1>3, <1>6
  <2> HIDE DEF at, over, last
  <2>4. Serialize(columns, values)[at] = cells[i][k]
    BY <1>11, <2>1, <2>2, <2>3
  <2> QED BY <1>5, <1>12, <2>4 DEF columns, at
<1>13. CASE ~(k <= Len(cells[i]))
  <2>1. over = {}
    BY <1>8, <1>9, <1>10, <1>13
  <2> HIDE DEF at, over, last
  <2>2. Serialize(columns, values)[at] = ZeroByte
    BY <1>11, <2>1
  <2> QED BY <1>5, <1>13, <2>2 DEF columns, at
<1> QED BY <1>12, <1>13

(* row_deserialize gives back what row_serialize was given, each string    *)
(* cut to the size of its column less one.                                 *)
THEOREM RowsComeBack ==
  ASSUME NEW Bytes, NEW Names, NEW all \in Seq(ColumnMeta(Names)),
         Workable(WithOffsets(all)), NEW values,
         \A i \in 1 .. Len(all) : ValueFits(all[i], values[i], Bytes)
  PROVE  LET columns == WithOffsets(all)
         IN  Deserialize(columns, Serialize(columns, values)) = Cells(columns, values)
<1> DEFINE columns == WithOffsets(all)
           n == Len(all)
           row == Serialize(columns, values)
           bytes(i) == [k \in 1 .. columns[i].size |-> row[columns[i].offset + k - 1]]
<1>1. /\ n \in Nat /\ DOMAIN columns = 1 .. n
      /\ \A j \in 1 .. n : /\ columns[j].type = all[j].type /\ columns[j].size = all[j].size
                           /\ all[j].size \in Nat
  BY LayoutKeeps
<1>2. \A j \in 1 .. n : columns[j].type = "VARCHAR" => columns[j].size > 0
  BY <1>1 DEF Workable
<1>3. ASSUME NEW i \in 1 .. n
      PROVE  (IF columns[i].type = "VARCHAR" THEN UpToZero(bytes(i)) ELSE bytes(i))
               = Cell(columns[i], values[i])
  <2> DEFINE cell == Cell(columns[i], values[i])
             size == columns[i].size
  <2>1. \A k \in 1 .. size : row[columns[i].offset + k - 1] =
                               IF k <= Len(cell) THEN cell[k] ELSE ZeroByte
    <3>1. CellInRow(WithOffsets(all), values, i)
      BY BytesInRow
    <3> QED BY <3>1 DEF CellInRow
  <2> HIDE DEF columns
  <2>2. ValueFits(columns[i], values[i], Bytes)
    BY <1>1 DEF ValueFits
  <2>3. /\ cell \in Seq(Bytes) /\ Len(cell) <= size
        /\ columns[i].type # "VARCHAR" => Len(cell) = size
        /\ columns[i].type = "VARCHAR" => /\ Len(cell) < size
                                          /\ \A k \in 1 .. Len(cell) : cell[k] # ZeroByte
    BY <1>1, <1>2, <2>2, CellFacts
  <2> HIDE DEF cell, row
  <2>4. /\ size \in Nat /\ bytes(i) = [k \in 1 .. size |-> IF k <= Len(cell) THEN cell[k] ELSE ZeroByte]
    BY <1>1, <2>1
  <2> HIDE DEF bytes, size
  <2>5. bytes(i) \in Seq(Bytes \cup {ZeroByte}) /\ Len(bytes(i)) = size
        /\ \A k \in 1 .. size : bytes(i)[k] = IF k <= Len(cell) THEN cell[k] ELSE ZeroByte
    <3>1. \A k \in 1 .. size : (IF k <= Len(cell) THEN cell[k] ELSE ZeroByte) \in Bytes \cup {ZeroByte}
      BY <2>3
    <3> QED BY <2>4, <3>1
  <2>6. CASE columns[i].type = "VARCHAR"
    <3>1. UpToZero(bytes(i)) = cell
      <4>1. /\ cell \in Seq(Bytes) /\ (\A k \in 1 .. Len(cell) : cell[k] # ZeroByte)
            /\ size \in Nat /\ Len(cell) < size
        BY <2>3, <2>4, <2>6 DEF size
      <4>2. PICK b : b = bytes(i)
        OBVIOUS
      <4>3. UpToZero(b) = cell
        BY <2>5, <4>1, <4>2, StringEnds
      <4> QED BY <4>2, <4>3
    <3> QED BY <2>6, <3>1 DEF cell
  <2>7. CASE columns[i].type # "VARCHAR"
    <3>1. cell \in Seq(Bytes \cup {ZeroByte})
      BY <2>3
    <3>2. bytes(i) = cell
      BY <2>3, <2>5, <2>7, <3>1, SeqEqual
    <3> QED BY <2>7, <3>2 DEF cell
  <2> QED BY <2>6, <2>7
<1>4. Deserialize(columns, row) =
        [i \in 1 .. n |-> IF columns[i].type = "VARCHAR" THEN UpToZero(bytes(i)) ELSE bytes(i)]
  BY <1>1 DEF Deserialize
<1>5. Cells(columns, values) = [i \in 1 .. n |-> Cell(columns[i], values[i])]
  BY <1>1 DEF Cells
<1> HIDE DEF columns, row, bytes
<1>6. Deserialize(columns, row) = Cells(columns, values)
  BY <1>3, <1>4, <1>5
<1> QED BY <1>6 DEF columns, row

-----------------------------------------------------------------------------
(* exec_insert and exec_delete *)

(* What the bytes of a row are. *)
RowBytes == Int \X Nat

(* An integer has the bytes of its column, and they tell it from any other.*)
LEMMA IntBytesFacts ==
  ASSUME NEW v \in Int, NEW size \in Nat
  PROVE  /\ IntBytes(v, size) \in Seq(RowBytes) /\ Len(IntBytes(v, size)) = size
         /\ \A w \in Int : size > 0 /\ IntBytes(w, size) = IntBytes(v, size) => w = v
<1>1. \A w \in Int : /\ DOMAIN IntBytes(w, size) = 1 .. size
                     /\ \A k \in 1 .. size :
                          IntBytes(w, size)[k] = IF w = 0 THEN <<0, 0>> ELSE <<w, k>>
  BY DEF IntBytes, Byte, ZeroByte
<1>2. \A k \in 1 .. size : (IF v = 0 THEN <<0, 0>> ELSE <<v, k>>) \in RowBytes
  BY DEF RowBytes
<1>3. IntBytes(v, size) = [k \in 1 .. size |-> IF v = 0 THEN <<0, 0>> ELSE <<v, k>>]
  BY DEF IntBytes, Byte, ZeroByte
<1>4. ASSUME NEW w \in Int, size > 0, IntBytes(w, size) = IntBytes(v, size) PROVE w = v
  <2>1. 1 \in 1 .. size
    BY <1>4
  <2>2. (IF w = 0 THEN <<0, 0>> ELSE <<w, 1>>) = (IF v = 0 THEN <<0, 0>> ELSE <<v, 1>>)
    BY <1>1, <1>4, <2>1
  <2> QED BY <2>2
<1> QED BY <1>2, <1>3, <1>4

(* So does a converted word, and no character of a string is a zero. *)
LEMMA ConvertedFits ==
  ASSUME NEW Names, NEW col \in ColumnMeta(Names), NEW word,
         Chars(word) \in Seq(Nat \ {0}), Atoi(word) \in Int
  PROVE  ValueFits(col, Convert(col, word), RowBytes)
<1>1. col.size \in Nat
  BY DEF ColumnMeta
<1>2. CASE col.type = "VARCHAR"
  <2>1. /\ DOMAIN Chars(word) = 1 .. Len(Chars(word)) /\ Len(Chars(word)) \in Nat
        /\ \A k \in 1 .. Len(Chars(word)) : Chars(word)[k] \in Nat \ {0}
    OBVIOUS
  <2>2. StringBytes(word) = [k \in 1 .. Len(Chars(word)) |-> <<Chars(word)[k], 0>>]
    BY <2>1 DEF StringBytes, Byte
  <2>3. \A k \in 1 .. Len(Chars(word)) :
          <<Chars(word)[k], 0>> \in RowBytes /\ <<Chars(word)[k], 0>> # <<0, 0>>
    BY <2>1 DEF RowBytes
  <2>4. /\ StringBytes(word) \in Seq(RowBytes)
        /\ \A k \in 1 .. Len(StringBytes(word)) : StringBytes(word)[k] # <<0, 0>>
    BY <2>1, <2>2, <2>3
  <2>5. Convert(col, word) = StringBytes(word)
    BY <1>2 DEF Convert
  <2> QED BY <1>2, <2>4, <2>5 DEF ValueFits, ZeroByte, Byte
<1>3. CASE col.type # "VARCHAR"
  <2>1. Convert(col, word) = IntBytes(Atoi(word), col.size)
    BY <1>3 DEF Convert
  <2> QED BY <1>1, <1>3, <2>1, IntBytesFacts DEF ValueFits
<1> QED BY <1>2, <1>3

LEMMA NoValueFits ==
  ASSUME NEW Names, NEW col \in ColumnMeta(Names)
  PROVE  ValueFits(col, NoValue(col), RowBytes)
<1>1. col.size \in Nat
  BY DEF ColumnMeta
<1>2. CASE col.type = "VARCHAR"
  <2>1. NoValue(col) = <<>>
    BY <1>2 DEF NoValue
  <2>2. <<>> \in Seq(RowBytes) /\ \A k \in 1 .. Len(<<>>) : <<>>[k] # ZeroByte
    OBVIOUS
  <2>3. ValueFits(col, <<>>, RowBytes)
    BY <1>2, <2>2 DEF ValueFits
  <2> QED BY <2>1, <2>3
<1>3. CASE col.type # "VARCHAR"
  <2>1. NoValue(col) = IntBytes(0, col.size)
    BY <1>3 DEF NoValue
  <2>2. 0 \in Int
    OBVIOUS
  <2>3. IntBytes(0, col.size) \in Seq(RowBytes) /\ Len(IntBytes(0, col.size)) = col.size
    BY <1>1, <2>2, IntBytesFacts
  <2> QED BY <1>3, <2>1, <2>3 DEF ValueFits
<1> QED BY <1>2, <1>3

(* exec_create_table puts the id in front of the user's columns. *)
LEMMA AllColumns ==
  ASSUME NEW Names, "id" \in Names, NEW users \in Seq(ColumnMeta(Names))
  PROVE  LET all == <<IdColumn>> \o users
         IN  /\ all \in Seq(ColumnMeta(Names)) /\ Len(all) \in Nat /\ Len(all) >= 1
             /\ all[1] = IdColumn
<1>1. IdColumn \in ColumnMeta(Names)
  BY DEF IdColumn, Column, ColumnMeta
<1>2. <<IdColumn>> \in Seq(ColumnMeta(Names)) /\ Len(<<IdColumn>>) = 1 /\ <<IdColumn>>[1] = IdColumn
  BY <1>1
<1> QED BY <1>2

(* The values of an INSERT fit their columns, however many there are. *)
LEMMA InsertedValuesFit ==
  ASSUME NEW Names, "id" \in Names, NEW users \in Seq(ColumnMeta(Names)),
         NEW Words, \A w \in Words : Chars(w) \in Seq(Nat \ {0}) /\ Atoi(w) \in Int,
         NEW texts \in Seq(Words), NEW id \in Int
  PROVE  LET all == <<IdColumn>> \o users
             values == RowValues(WithOffsets(all), id, texts)
         IN  \A i \in 1 .. Len(all) : ValueFits(all[i], values[i], RowBytes)
<1> DEFINE all == <<IdColumn>> \o users
           columns == WithOffsets(all)
           values == RowValues(columns, id, texts)
<1>1. all \in Seq(ColumnMeta(Names)) /\ Len(all) >= 1 /\ all[1] = IdColumn
  BY AllColumns
<1> HIDE DEF all
<1>2. /\ Len(all) \in Nat /\ DOMAIN columns = 1 .. Len(all)
      /\ \A i \in 1 .. Len(all) : /\ columns[i].type = all[i].type /\ columns[i].size = all[i].size
  BY <1>1, LayoutKeeps
<1> HIDE DEF columns
<1> SUFFICES ASSUME NEW i \in 1 .. Len(all) PROVE ValueFits(all[i], values[i], RowBytes)
  BY DEF columns, all
<1>3. all[i] \in ColumnMeta(Names)
  BY <1>1
<1>4. CASE i = 1
  <2>1. values[i] = IntBytes(id, 8)
    BY <1>2, <1>4 DEF RowValues
  <2>2. all[i].type # "VARCHAR" /\ all[i].size = 8
    BY <1>1, <1>4 DEF IdColumn, Column
  <2>3. IntBytes(id, 8) \in Seq(RowBytes) /\ Len(IntBytes(id, 8)) = 8
    BY IntBytesFacts
  <2> QED BY <2>1, <2>2, <2>3 DEF ValueFits
<1>5. CASE i # 1 /\ i - 1 <= Len(texts)
  <2>1. i - 1 \in 1 .. Len(texts) /\ i > 1
    BY <1>2, <1>5
  <2>2. texts[i - 1] \in Words
    BY <2>1
  <2>3. values[i] = Convert(columns[i], texts[i - 1])
    BY <1>2, <1>5, <2>1 DEF RowValues
  <2>4. Convert(columns[i], texts[i - 1]) = Convert(all[i], texts[i - 1])
    BY <1>2 DEF Convert
  <2>5. ValueFits(all[i], Convert(all[i], texts[i - 1]), RowBytes)
    BY <1>3, <2>2, ConvertedFits
  <2> QED BY <2>3, <2>4, <2>5
<1>6. CASE i # 1 /\ ~(i - 1 <= Len(texts))
  <2>1. values[i] = NoValue(columns[i])
    BY <1>2, <1>6 DEF RowValues
  <2>2. NoValue(columns[i]) = NoValue(all[i])
    BY <1>2 DEF NoValue
  <2>3. ValueFits(all[i], NoValue(all[i]), RowBytes)
    BY <1>3, NoValueFits
  <2> QED BY <2>1, <2>2, <2>3
<1> QED BY <1>4, <1>5, <1>6

(* exec_insert and a later scan: for a table the code can work with, the   *)
(* row that comes back is the row that was inserted, whatever the number   *)
(* of its values, the words and the id, each string cut to its column.     *)
THEOREM InsertedRowsComeBack ==
  ASSUME NEW Names, "id" \in Names, NEW users \in Seq(ColumnMeta(Names)),
         Workable(WithOffsets(<<IdColumn>> \o users)),
         NEW Words, \A w \in Words : Chars(w) \in Seq(Nat \ {0}) /\ Atoi(w) \in Int,
         NEW texts \in Seq(Words), NEW id \in Int
  PROVE  LET columns == WithOffsets(<<IdColumn>> \o users)
             values == RowValues(columns, id, texts)
         IN  Deserialize(columns, Serialize(columns, values)) = Cells(columns, values)
<1> DEFINE all == <<IdColumn>> \o users
           values == RowValues(WithOffsets(all), id, texts)
<1>1. all \in Seq(ColumnMeta(Names))
  BY AllColumns
<1>2. \A i \in 1 .. Len(all) : ValueFits(all[i], values[i], RowBytes)
  BY InsertedValuesFit
<1>3. Workable(WithOffsets(all))
  OBVIOUS
<1> HIDE DEF all, values
<1>4. Deserialize(WithOffsets(all), Serialize(WithOffsets(all), values)) = Cells(WithOffsets(all), values)
  BY <1>1, <1>2, <1>3, RowsComeBack
<1> QED BY <1>4 DEF all, values

(* exec_delete takes the key it removes from the index out of the row: the *)
(* bytes it reads are those of the id the row was inserted with, and of no *)
(* other id.                                                               *)
THEOREM RowsKeepTheirId ==
  ASSUME NEW Names, "id" \in Names, NEW users \in Seq(ColumnMeta(Names)),
         Workable(WithOffsets(<<IdColumn>> \o users)),
         NEW Words, \A w \in Words : Chars(w) \in Seq(Nat \ {0}) /\ Atoi(w) \in Int,
         NEW texts \in Seq(Words), NEW id \in Int, NEW other \in Int
  PROVE  LET columns == WithOffsets(<<IdColumn>> \o users)
             row == Serialize(columns, RowValues(columns, id, texts))
         IN  Deserialize(columns, row)[1] = IntBytes(other, 8) <=> id = other
<1> DEFINE all == <<IdColumn>> \o users
           columns == WithOffsets(all)
           values == RowValues(columns, id, texts)
<1>1. all \in Seq(ColumnMeta(Names)) /\ Len(all) >= 1 /\ all[1] = IdColumn
  BY AllColumns
<1>2. Deserialize(columns, Serialize(columns, values)) = Cells(columns, values)
  BY InsertedRowsComeBack
<1>3. /\ 1 \in DOMAIN columns /\ columns[1].type = "BIGINT"
  <2> HIDE DEF all
  <2>1. /\ Len(all) \in Nat /\ DOMAIN columns = 1 .. Len(all)
        /\ \A i \in 1 .. Len(all) : columns[i].type = all[i].type
    BY <1>1, LayoutKeeps
  <2>2. 1 \in 1 .. Len(all)
    BY <1>1, <2>1
  <2>3. columns[1].type = all[1].type
    BY <2>1, <2>2
  <2> QED BY <1>1, <2>1, <2>2, <2>3 DEF IdColumn, Column
<1> HIDE DEF columns
<1>4. Cells(columns, values)[1] = IntBytes(id, 8)
  <2>1. values[1] = IntBytes(id, 8)
    BY <1>3 DEF RowValues
  <2>2. Cell(columns[1], values[1]) = values[1]
    BY <1>3 DEF Cell
  <2> QED BY <1>3, <2>1, <2>2 DEF Cells
<1>5. IntBytes(id, 8) = IntBytes(other, 8) => id = other
  BY IntBytesFacts
<1> QED BY <1>2, <1>4, <1>5 DEF columns
=============================================================================
