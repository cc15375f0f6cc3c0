------------------------------ MODULE MCConnIO ------------------------------
(* ConnIO for TLC: lengths in bytes, all scripts of two messages, some of three. *)
EXTENDS ConnIO

MCLineSize == [k \in Kinds |-> CASE k = "cmd" -> 3 [] k = "long" -> 14 [] OTHER -> 4]
MCBodySize == [k \in Kinds |-> CASE k = "put" -> 4 [] k = "putin" -> 6 [] k = "big" -> 7
                                 [] OTHER -> 0]
MCInnerCR == [k \in Kinds |-> IF k = "putin" THEN 1 ELSE 0]
MCScripts == [1..2 -> Kinds]
             \cup {<<"put", "big", "cmd">>, <<"big", "putin", "cmd">>, <<"cmd", "cmd", "put">>}
=============================================================================
