--------------------------- MODULE MCSealedStream ---------------------------
(***************************************************************************)
(* How often the container of a file of each length is damaged: twice for  *)
(* one container of each number of records that the index allows, and for  *)
(* the empty file; once for all others.                                    *)
(***************************************************************************)
EXTENDS SealedStream

EditsByLength == [n \in Lengths |-> IF n \in {0, 2, 3, 5} THEN 2 ELSE 1]
=============================================================================
