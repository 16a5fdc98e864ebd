--------------------------- MODULE MCColumnOptions ---------------------------
(***************************************************************************)
(* Property names of one part, in two cases, and of two parts, for TLC.       *)
(***************************************************************************)
EXTENDS ColumnOptions, TLC

MCSegments == {"P", "p", "Q"} \cup Custom
MCPropertyKeys == {<<"P">>, <<"p">>, <<"P", "Q">>}
MCLowerCase == [s \in MCSegments |-> IF s = "P" THEN "p" ELSE s]
=============================================================================
