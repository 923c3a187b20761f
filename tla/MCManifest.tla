----------------------------- MODULE MCManifest -----------------------------
(***************************************************************************)
(* A small instance of Manifest: the plans of MCApplyPlan and eight more,  *)
(* one for each way of building to succeed or fail or for a name to be     *)
(* lost; given manifests of up to four entries in every order.  The name   *)
(* "x" has an invalid byte, and "b" is what a JSON parser makes of it; the *)
(* name "d" is blank.                                                      *)
(***************************************************************************)
EXTENDS Manifest, MCApplyPlan

TreePaths == MCPaths \cup {<<"d">>, <<"x">>}
TreeDir   == [p \in TreePaths |-> IF p = <<>> THEN <<>>
                                  ELSE SubSeq(p, 1, Len(p) - 1)]

TreeReads == [p \in TreePaths |-> IF p = <<"x">> THEN <<"b">> ELSE p]
TreeBlank == {<<"d">>}

Top == E("dir", <<>>, NoPath, {"mode", "times"})

Via(e, origin) == [e EXCEPT !.via = origin]

(* A hard link to a hard link. *)
ChainPlan ==
  << Top, E("file", <<"a">>, NoPath, {"mode", "owner", "xattrs"}),
     E("hardlink", <<"b">>, <<"a">>, {}), E("hardlink", <<"d">>, <<"b">>, {}) >>

(* Symlinks with timestamps, as in a coverage plan, and a bare pipe. *)
TimesPlan ==
  << Top, E("fifo", <<"a">>, NoPath, {"mode"}),
     E("symlink", <<"b">>, <<"a">>, {"times"}),
     Via(E("symlink", <<"d">>, <<"a">>, {"times"}), "relative") >>

DanglingPlan ==
  << Top, Via(E("symlink", <<"b">>, <<"a">>, {}), "dangling") >>

(* A mode generator that returns zero. *)
ZeroModePlan == << Top, E("dir", <<"a">>, NoPath, {}) >>

(* A generator that returns a mode above 0o7777. *)
UnfitPlan == << Top, E("file", <<"a">>, NoPath, {"mode", "unfit"}) >>

(* A relative symlink to the blank name beside it. *)
BlankPlan ==
  << Top, E("file", <<"d">>, NoPath, {"mode"}),
     Via(E("symlink", <<"b">>, <<"d">>, {}), "relative") >>

(* A name that is not valid UTF-8, alone and beside its replacement. *)
BytePlan == << Top, E("file", <<"x">>, NoPath, {"mode"}) >>
TwinPlan == << Top, E("file", <<"x">>, NoPath, {"mode"}), E("fifo", <<"b">>, NoPath, {"mode"}) >>

BuildPlans ==
  {LinkPlan, PipePlan, EmptyPlan, ChainPlan, TimesPlan, DanglingPlan, ZeroModePlan,
   UnfitPlan, BlankPlan, BytePlan, TwinPlan}
DeepPlans == {LinkPlan}

ME(kind, path, target, how, attrs) ==
  [kind |-> kind, path |-> path, target |-> target, how |-> how, attrs |-> attrs]

GivenEntries ==
  { ME("dir", <<"a">>, NoPath, "none", {"mode"}),
    ME("file", <<"a">>, NoPath, "none", {"mode", "times"}),
    ME("file", <<"a", "c">>, NoPath, "none", {"mode"}),
    ME("hardlink", <<"b">>, <<"a">>, "none", {}),
    ME("hardlink", <<"b">>, <<"a", "c">>, "none", {}),
    ME("hardlink", <<"d">>, <<"b">>, "none", {"times"}),
    ME("symlink", <<"b">>, <<"a">>, "manifest-path", {}),
    ME("symlink", <<"b">>, <<"d">>, "literal", {}),
    ME("file", <<"x">>, NoPath, "none", {"mode"}) }

TopEntry == ME("dir", <<>>, NoPath, "none", {"mode"})

(* Manifests with any of these entries, sealed before normalisation. *)
GivenManifest(es, m, capabilities) ==
  LET draft == [entries |-> <<TopEntry>> \o es, mode |-> m, header |-> TRUE,
                checksum |-> <<>>, capabilities |-> capabilities]
  IN  [draft EXCEPT !.checksum = <<Payload(draft)>>]

Triples == UNION {[1 .. n -> GivenEntries] : n \in 0 .. 3}

GivenManifests ==
  {GivenManifest(es, m, c) : es \in Triples, m \in {"append", "replace"}, c \in {{}, {"times"}}}
  \cup {[GivenManifest(<<>>, "strict", {}) EXCEPT !.checksum = <<>>],
        [GivenManifest(<<>>, "strict", {}) EXCEPT !.header = FALSE]}

(* Nothing at all; a populated directory; a symlink where one is needed. *)
ReplayTrees ==
  { [p \in TreePaths |-> Absent],
    [p \in TreePaths |-> CASE p = <<>> -> Pre(p, "dir")
                           [] p = <<"a">> -> Pre(p, "dir")
                           [] p = <<"b">> -> Pre(p, "file")
                           [] OTHER -> Absent],
    [p \in TreePaths |-> CASE p = <<>> -> Pre(p, "dir")
                           [] p = <<"a">> -> Pre(p, "symlink")
                           [] OTHER -> Absent] }
EmptyTree == {[p \in TreePaths |-> Absent]}

=============================================================================
