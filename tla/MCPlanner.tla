----------------------------- MODULE MCPlanner -----------------------------
(***************************************************************************)
(* A small instance of Planner: few names per directory, so that names run *)
(* out, and a limit small enough to cut plans short.                       *)
(***************************************************************************)
EXTENDS Planner

MCBase == <<>>

(* Four names in the base directory, two in its subdirectory "a" and one   *)
(* in each of the others: every directory has at least one possible name.  *)
MCPaths == {<<>>, <<"a">>, <<"b">>, <<"c">>, <<"d">>,
            <<"a", "x">>, <<"a", "y">>, <<"b", "x">>, <<"c", "x">>, <<"d", "x">>}
MCDir   == [p \in MCPaths |-> IF p = <<>> THEN <<>>
                              ELSE SubSeq(p, 1, Len(p) - 1)]

ModeOnly == {{"mode"}}

=============================================================================
