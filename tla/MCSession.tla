----------------------------- MODULE MCSession ------------------------------
(* Instances of Session for TLC. *)
EXTENDS Session

Col(name, type, length) == [name |-> name, type |-> type, length |-> length]
Name == Col("n", "VARCHAR", "3")
Age == Col("k", "INT", "")

(* With a string first, an id of the user's, a string of default size and  *)
(* two columns of one name, a column that WHERE takes for the id, and      *)
(* tables no row can be put into.                                          *)
SmallTables ==
  {<<Name, Age>>, <<Col("id", "BIGINT", ""), Col("k", "BIGINT", ""), Name>>,
   <<Col("n", "VARCHAR", ""), Col("n", "INT", "")>>,
   <<Col("ID", "INT", ""), Col("n", "INT", "")>>,
   <<Col("n", "VARCHAR", "0")>>, <<Col("n", "VARCHAR", "30")>>,
   <<Col("n", "VARCHAR", "30"), Col("k", "VARCHAR", "30")>>}
WideTables == {<<Name>>, <<Age, Name, Name>>}

SmallInputs == {<<>>, <<"abcd">>, <<"ab", "7">>, <<"7", "ab", "7">>,
                <<"7", "7", "7", "7">>}
SmallWheres == {<<>>, <<"id", "1">>, <<"ID", "2">>, <<"n", "ab">>, <<"n", "abcd">>,
                <<"k", "7">>, <<"x", "7">>}

MCAtoi(word) == CASE word = "1" -> 1 [] word = "2" -> 2 [] word = "3" -> 3
                  [] word = "7" -> 7 [] word = "30" -> 30 [] OTHER -> 0
MCChars(word) == CASE word = "ab" -> <<1, 2>> [] word = "abcd" -> <<1, 2, 3, 4>>
                   [] word = "7" -> <<7>> [] word = "1" -> <<8>> [] word = "2" -> <<9>>
                   [] OTHER -> <<>>
=============================================================================
