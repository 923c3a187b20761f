--------------------------- MODULE MCRunPipeline ---------------------------
(***************************************************************************)
(* A small instance of RunPipeline: two runs of one generator, in any mix  *)
(* of run modes, over an empty or a populated base directory.              *)
(***************************************************************************)
EXTENDS RunPipeline

MCBase == <<>>

MCPaths == {<<>>, <<"a">>, <<"b">>, <<"c">>, <<"a", "x">>, <<"b", "x">>, <<"c", "x">>}
MCDir   == [p \in MCPaths |-> IF p = <<>> THEN <<>>
                              ELSE SubSeq(p, 1, Len(p) - 1)]

ModeOnly == {{"mode"}}

NoProfiles == {<<>>}

Pre(p, kind) ==
  [kind |-> kind, by |-> 0, ino |-> p,
   whole |-> kind # "none", meta |-> {}]

Nothing(p) == [kind |-> "none", by |-> 0, ino |-> <<>>, whole |-> FALSE, meta |-> {}]

(* An absent base path, and one with a symlink where a directory may go. *)
MCTrees ==
  { [p \in MCPaths |-> Nothing(p)],
    [p \in MCPaths |-> CASE p = <<>>   -> Pre(p, "dir")
                         [] p = <<"a">> -> Pre(p, "symlink")
                         [] p = <<"b">> -> Pre(p, "file")
                         [] OTHER       -> Nothing(p)] }

=============================================================================
