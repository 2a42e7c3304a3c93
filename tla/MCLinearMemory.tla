--------------------------- MODULE MCLinearMemory ---------------------------
(***************************************************************************)
(* Instances of LinearMemory for TLC.                                      *)
(***************************************************************************)
EXTENDS LinearMemory

\* One data segment, in page 0.
OneSegment == [p \in Page |-> IF p = 0 THEN 1 ELSE 0]
=============================================================================
