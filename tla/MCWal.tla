------------------------------- MODULE MCWal --------------------------------
(* Wal for TLC. *)
EXTENDS Wal

\* The sizes below leave a file room for the largest job.
ASSUME RoomyAssumption == Roomy

\* Bytes of tube name and body.
ExtraSizes == [kind \in Kinds |-> CASE kind = "plain" -> 1 [] kind = "long" -> 4
                                    [] OTHER -> 2]

\* Most of what is asked of the log takes three puts and two deletes; the rest costs more.
Costs == [op \in Ops |-> IF op \in {"put", "delete"} THEN 1 ELSE 3]
=============================================================================
