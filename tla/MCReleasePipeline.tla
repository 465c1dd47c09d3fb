--------------------------- MODULE MCReleasePipeline ---------------------------
(* ReleasePipeline for Gameweeks 2 and 3, with a deadline that a slow release misses. *)
EXTENDS ReleasePipeline

MCDue == <<0, 6, 30>>

===============================================================================
