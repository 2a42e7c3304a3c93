--------------------------- MODULE MCJitLifecycle ---------------------------
(***************************************************************************)
(* Instances of JitLifecycle for TLC.                                      *)
(***************************************************************************)
EXTENDS JitLifecycle

Instr(k, a) == [kind |-> k, arg |-> a]

\* Function 0 is an import.  1 and 2 call each other, 2 calls itself; 3 has the imports and
\* the table calls; 4 is reached through the table only and needs 5, which nothing else
\* calls; 5 can end the process; 6 is in the table too and does not compile.
RunBody ==
    1 :> <<Instr("call", 2), Instr("call", 3)>> @@
    2 :> <<Instr("call", 2), Instr("call", 1)>> @@
    3 :> <<Instr("call", 0), Instr("calli", 7)>> @@
    4 :> <<Instr("calli", 7), Instr("call", 5), Instr("call", 5)>> @@
    5 :> <<Instr("ud2", 0), Instr("helper", 0)>> @@
    6 :> <<Instr("call", 2), Instr("bad", 0)>>

\* 2 and 0 are other types; 9 is not a function; index 5 is past the table.
RunTypes == 0 :> 7 @@ 1 :> 6 @@ 2 :> 6 @@ 3 :> 6 @@ 4 :> 7 @@ 5 :> 6 @@ 6 :> 7
RunTable == <<4, 2, 9, 0, 6>>

\* 3 does not compile; 2 does, and reaches 3 through the table; 1 needs more than the plane
\* has once 2 and 4 are in it.
BadBody ==
    1 :> <<Instr("call", 2), Instr("call", 4)>> @@
    2 :> <<Instr("calli", 7), Instr("call", 0)>> @@
    3 :> <<Instr("call", 2), Instr("bad", 0)>> @@
    4 :> <<Instr("helper", 0), Instr("call", 1), Instr("calli", 7)>>
BadTypes == 0 :> 7 @@ 1 :> 6 @@ 2 :> 6 @@ 3 :> 7 @@ 4 :> 6
BadTable == <<3, 4, 0>>
=============================================================================
