----------------------------- MODULE MCMutation -----------------------------
(***************************************************************************)
(* Small baselines and streams for Mutation.  A baseline name is <<0, x>>, *)
(* a generated one <<n, b>> with n > 0.                                    *)
(***************************************************************************)
EXTENDS Mutation

A == <<0, 1>>
B == <<0, 2>>

N(kind, id, size, xattrs) ==
  [kind |-> kind, id |-> id, size |-> size, xattrs |-> xattrs]

Nodes3(p, n, q, m, r, o) ==
  [x \in {Root, p, q, r} |->
     CASE x = Root -> N("dir", 1, 0, {"u"})
       [] x = p -> n [] x = q -> m [] OTHER -> o]

(* A directory with a file and, beside it, a pipe; and one that holds a    *)
(* name the generator may draw.                                            *)
PlainTree ==
  Nodes3(<<A>>, N("dir", 2, 0, {}), <<A, B>>, N("file", 3, 2, {"u"}),
         <<B>>, N("fifo", 4, 0, {}))
DrawnTree ==
  Nodes3(<<A>>, N("dir", 2, 0, {}), <<A, <<1, 0>>>>, N("file", 3, 1, {}),
         <<A, <<2, 0>>>>, N("dir", 4, 0, {}))

(* Pipes where the generator may put something. *)
PipeTree ==
  Nodes3(<<A>>, N("dir", 2, 0, {}), <<<<1, 0>>>>, N("fifo", 3, 0, {}),
         <<A, <<1, 0>>>>, N("fifo", 4, 0, {}))

(* Two names of one file and a symlink. *)
LinkedTree ==
  Nodes3(<<A>>, N("file", 2, 2, {"u"}), <<B>>, N("file", 2, 2, {"u"}),
         <<<<0, 3>>>>, N("symlink", 3, 0, {}))

(* Operations a caller may give, for the paths A, B and A/B. *)
GivenPaths == {<<A>>, <<B>>, <<A, B>>}
GivenOps ==
  {Op(k, p, Root, 1, 0, "u") :
     k \in OpKinds \ {"rename", "create-hardlink"}, p \in GivenPaths}
  \cup {Op(k, p, q, 1, 0, "u") :
          k \in {"rename", "create-hardlink"}, p, q \in GivenPaths}
  \cup {Op("delete", Root, Root, 0, 0, ""), Op("chmod", Root, Root, 0, 0, ""),
        Op("append", <<A, B>>, Root, 0, 0, ""),
        Op("overwrite-range", <<A, B>>, Root, 1, 9, "")}
GivenStreams == {<<a, b>> : a, b \in GivenOps}

R(nth, kind, paths) ==
  [nth |-> nth, scope |-> "mutation", kind |-> kind, paths |-> paths]

NoProfile == {<<>>}
MCProfiles == {<<>>, <<R(2, "", {})>>,
               <<R(1, "append", {}), R(1, "", {<<A, B>>})>>, <<R(0, "", {})>>}

Job(baseline, kinds, count, stream, profiles) ==
  [baseline |-> baseline, kinds |-> kinds, count |-> count, stream |-> stream,
   profiles |-> profiles]

(* Longer streams without links or of the kinds that draw names, shorter   *)
(* ones of every kind or of two kinds that need something to work on, and  *)
(* what a caller may give.                                                 *)
MCJobs ==
  {Job(PlainTree, OpKinds \ {"create-symlink", "create-hardlink"}, 3, <<>>, NoProfile),
   Job(DrawnTree, {"create-file", "create-dir", "rename", "delete"}, 3, <<>>, NoProfile)}
  \cup {Job(PipeTree, {"create-dir", "rename"}, 2, <<>>, NoProfile)}
  \cup {Job(t, kinds, 2, <<>>, MCProfiles) :
          t \in {PlainTree, LinkedTree}, kinds \in {OpKinds, {"delete", "append"}}}
  \cup {Job(t, {}, 0, s, MCProfiles) : t \in {PlainTree, LinkedTree}, s \in GivenStreams}

AliasedJobs == {Job(LinkedTree, {"truncate", "overwrite-range"}, 2, <<>>, NoProfile)}

=============================================================================
