---------------------------- MODULE MCApplyPlan ----------------------------
(***************************************************************************)
(* A small instance of ApplyPlan: a base directory with a subdirectory "a" *)
(* and a sibling "b"; two plans that together use every kind of entry and  *)
(* every metadata step; every pre-existing tree of the kinds PreKinds.     *)
(***************************************************************************)
EXTENDS ApplyPlan

CONSTANT PreKinds   \* the kinds of node that may exist before the first run

MCBase  == <<>>
MCPaths == {<<>>, <<"a">>, <<"b">>, <<"a", "c">>}
MCDir   == [p \in MCPaths |-> IF p = <<>> THEN <<>>
                              ELSE SubSeq(p, 1, Len(p) - 1)]

E(kind, path, target, attrs) ==
  [kind |-> kind, path |-> path, target |-> target, attrs |-> attrs,
   via |-> IF kind = "symlink" THEN "absolute" ELSE "none"]

(* A directory in a directory, a file in it and a hard link beside it. *)
LinkPlan ==
  << E("dir", <<>>, NoPath, {"mode", "times"}),
     E("dir", <<"a">>, NoPath, {"owner", "mode", "times"}),
     E("file", <<"a", "c">>, NoPath, {"mode", "times", "xattrs", "acl"}),
     E("hardlink", <<"b">>, <<"a", "c">>, {}) >>

(* A named pipe and a symlink with metadata of its own. *)
PipePlan ==
  << E("dir", <<>>, NoPath, {"mode"}),
     E("fifo", <<"a">>, NoPath, {"mode", "times"}),
     E("symlink", <<"b">>, <<"a">>, {"times"}) >>

(* A run whose depth generator returns zero plans nothing. *)
EmptyPlan == <<>>

(* Planned modes with setuid, setgid or sticky set. *)
SpecialBitsPlan ==
  << E("dir", <<>>, NoPath, {"mode", "sbits"}),
     E("file", <<"a">>, NoPath, {"owner", "mode", "sbits"}) >>

MCPlans == {LinkPlan, PipePlan}
AllPlans == {LinkPlan, PipePlan, EmptyPlan}
SpecialBitsPlans == {SpecialBitsPlan}

Rule(nth, kind, paths) ==
  [nth |-> nth, scope |-> "run", kind |-> kind, paths |-> paths]

NoProfiles == {<<>>}

(* No rule; two rules of which the second may win; two that come due at    *)
(* the same hook of the second pass; a rule of the other scope; an invalid *)
(* rule.                                                                   *)
MCProfiles ==
  { <<>>,
    << Rule(3, "", {}), Rule(2, "create-dir", {}) >>,
    << Rule(2, "finalize-directory-metadata", {}), Rule(4, "", {<<>>, <<"a">>}) >>,
    << [nth |-> 1, scope |-> "mutation", kind |-> "", paths |-> {}] >>,
    << Rule(0, "", {}) >> }

Pre(p, kind) ==
  IF kind = "none" THEN Absent
  ELSE [kind |-> kind, by |-> 0, ino |-> p, whole |-> TRUE, meta |-> {"times"}]

(* Every tree of the given kinds in which only directories have entries. *)
MCTrees ==
  {[p \in MCPaths |-> Pre(p, f[p])] :
     f \in {g \in [MCPaths -> {"none", "dir"} \cup PreKinds] :
              \A p \in MCPaths :
                (p # <<>> /\ g[p] # "none") => g[MCDir[p]] = "dir"}}

=============================================================================
