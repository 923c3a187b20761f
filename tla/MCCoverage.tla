----------------------------- MODULE MCCoverage -----------------------------
(***************************************************************************)
(* The settings for TLC: one of the size the code really has, for a call   *)
(* that is planned only, and small ones in which calls of all kinds follow *)
(* each other on different hosts and file systems.                         *)
(***************************************************************************)
EXTENDS Coverage

Opts(e, l, p, lim, m) == [effort |-> e, linux |-> l, priv |-> p, limit |-> lim, mode |-> m]
Call(k, o) == [kind |-> k, opts |-> o]

Small(host, root, short, xattr, acl, cs, os) ==
  [host |-> host, root |-> root, shortPath |-> short, xattr |-> xattr, acl |-> acl,
   modes |-> <<"regular", "setuid">>, contents |-> <<"plain", "sparse">>,
   sizes |-> <<"empty", "small">>, names |-> <<"basic", "bytes">>,
   strategies |-> <<"absolute", "relative", "dangling", "self", "chained", "cycle">>,
   groupSizes |-> <<2, 3>>,
   userXAttrs |-> <<"short", "empty">>, timeVariants |-> <<"epoch", "past">>,
   calls |-> cs, options |-> os]

Full(cs, os) ==
  [host |-> "linux", root |-> TRUE, shortPath |-> TRUE, xattr |-> TRUE, acl |-> TRUE,
   modes |-> <<"regular", "exec", "setuid", "setgid", "sticky", "setuid-setgid">>,
   contents |-> <<"plain", "segmented", "sparse", "repeated", "random">>,
   sizes |-> <<"0", "1", "63", "64", "65", "page", "multi">>,
   names |-> <<"n1", "n2", "n3", "n4", "n5", "n6", "n7", "n8", "n9">>,
   strategies |-> <<"absolute", "relative", "dangling", "self", "chained", "cycle">>,
   groupSizes |-> <<2, 3, 4>>,
   userXAttrs |-> <<"short", "empty", "large", "binary">>,
   timeVariants |-> <<"epoch", "past", "future", "before", "after">>,
   calls |-> cs, options |-> os]

(* Calls of the functions that take no generator. *)
Linux == {Call("spec", Opts("low", FALSE, FALSE, 0, "append")),
          Call("run", Opts("low", TRUE, FALSE, 0, "replace"))}
Mixed == {Call("run", Opts("medium", TRUE, FALSE, 0, "strict")),
          Call("run", Opts("low", TRUE, FALSE, 0, "unknown")),
          Call("spec", Opts("none", TRUE, FALSE, 0, "append"))}
Privileges == {Call("run", Opts("low", TRUE, TRUE, 0, "append")),
               Call("spec", Opts("low", FALSE, TRUE, 0, "append"))}

(* Options for a generator: coverage with a mode and a limit, *)
CoverageOf(o) == [kind |-> "coverage", opts |-> o]
Mode(m) == [kind |-> "mode", mode |-> m]
Limit(n) == [kind |-> "limit", limit |-> n]
CoverageOptions ==
  {<<Mode("strict"), Limit(500)>> \o ScenarioOptions("low", 7),
   <<CoverageOf(Opts("medium", TRUE, FALSE, 40, "replace"))>>,
   <<CoverageOf(Opts("low", TRUE, FALSE, 0, "unknown"))>>,
   <<Limit(40), CoverageOf(Opts("none", TRUE, FALSE, 0, "append"))>>}

(* and the random generators: the built-in scenarios, what is refused, and *)
(* the base options without one or with half of a pair.                    *)
XAttr(ns, rest) == [kind |-> "xattr", name |-> [ns |-> ns, rest |-> rest], valid |-> TRUE]
Allow(ns, on) == [kind |-> "allow", ns |-> ns, on |-> on]
Base0 == BaseOptions(7)
Without(field) == SelectSeq(Base0, LAMBDA o : o # SetOption({field}))
RandomOptions ==
  {ScenarioOptions(name, 7) : name \in {"hardlink-heavy", "symlink-cycle", "metadata-heavy",
                                        "sparse-large", "xattr-acl-heavy"}}
  \cup {Without(f) : f \in {"data", "dirName", "nFiles", "symlinkRelProb"}}
  \cup {Without("data") \o <<SetOption({f})>> : f \in {"contentPattern", "contentSize"}}
  \cup {Without("dirName") \o <<SetOption({"byteDirName"}), XAttr("trusted", "x")>>}
  \cup {<<SetOption({f})>> : f \in {"contentPattern", "contentSize", "data", "uid", "specialType"}}
  \cup {<<Allow("trusted", TRUE)>>, <<XAttr("user", "x"), Allow("trusted", FALSE)>>,
        <<[kind |-> "xattrs", names |-> {}]>>, <<[kind |-> "seed", seed |-> 3], Mode("unknown")>>,
        <<XAttr("user", "x"), XAttr("", "x")>>, <<Limit(5), Limit(0)>>,
        <<SetOption({"mtime"}), [kind |-> "nil"]>>,
        <<[kind |-> "set", fields |-> {"nDirs"}, valid |-> FALSE]>>}

NoOptions == {}

MCSettings ==
  {[env |-> Full({Call("spec", Opts("low", TRUE, TRUE, 0, "append"))}, NoOptions),
    base |-> "none"],
   [env |-> Small("linux", FALSE, FALSE, TRUE, FALSE, Mixed, NoOptions), base |-> "none"],
   [env |-> Small("linux", TRUE, TRUE, TRUE, TRUE, Privileges, NoOptions), base |-> "none"],
   [env |-> Small("darwin", FALSE, TRUE, FALSE, FALSE, Privileges, NoOptions), base |-> "dir"],
   [env |-> Small("linux", FALSE, FALSE, TRUE, FALSE, {}, CoverageOptions), base |-> "none"],
   [env |-> Small("darwin", FALSE, TRUE, FALSE, FALSE, {}, RandomOptions), base |-> "dir"]}
  \cup {[env |-> Small("linux", FALSE, TRUE, TRUE, TRUE, Linux, NoOptions), base |-> b] :
           b \in {"none", "dir", "file"}}

=============================================================================
