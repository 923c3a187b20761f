------------------------------ MODULE Options ------------------------------
(***************************************************************************)
(* A Generator and its configuration (options.go, the fields and checks of *)
(* generator.go and metadata.go, the presets of scenarios.go).  Configure  *)
(* works on a shallow copy of the generator and assigns it at the end, so  *)
(* what the generator points to (its random source, its list of extended   *)
(* attributes) is shared with the copy while the options run.              *)
(*                                                                         *)
(* Abstractions.  A generator function is present or absent; one option    *)
(* stands for all that set the same fields (a generator, a range, a        *)
(* probability).  Whether the arguments are valid is part of the option.   *)
(* The heap holds the random sources and the attribute lists by address.   *)
(***************************************************************************)
EXTENDS Integers, Sequences, FiniteSets

VARIABLES
  g,        \* the Generator
  heap,     \* the objects it points to
  copy,     \* the copy Configure works on ("next" in the code)
  todo,     \* the options it has yet to apply
  config    \* "new", "applying", "done" or "refused"

optionVars == <<g, heap, copy, todo, config>>

DefaultLimit == 100000
DefaultSeed  == 0

NoCoverage == [effort |-> "none", linux |-> FALSE, priv |-> FALSE, limit |-> 0,
               mode |-> "append"]
Efforts == {"low", "medium", "high", "xhigh"}
RunModes == {"append", "strict", "replace"}

Source(seed) == [seed |-> seed, drawn |-> 0]

(* New *)
NewGenerator ==
  [rnd |-> 1, runMode |-> "append", limit |-> DefaultLimit, set |-> {}, xattrs |-> 0,
   allowed |-> {"user"}, coverage |-> NoCoverage]

(* The names in a list of extended attributes; address 0 is the nil slice. *)
NamesAt(a) == IF a = 0 THEN {} ELSE heap[a]

(* What a generator amounts to, its pointers followed. *)
Meaning == [gen |-> [g EXCEPT !.rnd = 0, !.xattrs = 0], source |-> heap[g.rnd],
            names |-> NamesAt(g.xattrs)]

OptionsInit ==
  /\ g = NewGenerator
  /\ heap = <<Source(DefaultSeed)>>
  /\ copy = NewGenerator
  /\ todo = <<>>
  /\ config = "new"

-----------------------------------------------------------------------------
(* Options *)

(* A name the kernel would take: it has a namespace and something after it. *)
ValidName(name) == name.ns # "" /\ name.rest # ""

(* The option returns no error. *)
Accepted(o) ==
  CASE o.kind = "set"      -> o.valid
    [] o.kind = "mode"     -> o.mode \in RunModes
    [] o.kind = "limit"    -> o.limit > 0
    [] o.kind = "xattr"    -> o.valid /\ ValidName(o.name)
    [] o.kind = "xattrs"   -> \A name \in o.names : ValidName(name)
    [] o.kind = "coverage" -> o.opts.effort \in Efforts
    [] o.kind = "nil"      -> FALSE
    [] OTHER               -> TRUE

(* Mutant: WithSeed seeds the source that is there. *)
WithSeedInPlace(seed) ==
  heap' = [heap EXCEPT ![copy.rnd] = Source(seed)] /\ UNCHANGED copy

(* WithSeed makes a new random source. *)
WithSeed(seed) ==
  /\ heap' = Append(heap, Source(seed))
  /\ copy' = [copy EXCEPT !.rnd = Len(heap) + 1]

(* WithXAttrValueGenerator and WithXAttrsFixed build a new list. *)
WithNames(names) ==
  IF names = {} THEN copy' = [copy EXCEPT !.xattrs = 0] /\ UNCHANGED heap
  ELSE /\ heap' = Append(heap, names)
       /\ copy' = [copy EXCEPT !.xattrs = Len(heap) + 1]

Set(fields) == copy' = [copy EXCEPT !.set = @ \cup fields] /\ UNCHANGED heap

Effect(o) ==
  CASE o.kind = "set"      -> Set(o.fields)
    [] o.kind = "seed"     -> WithSeed(o.seed)
    [] o.kind = "mode"     -> copy' = [copy EXCEPT !.runMode = o.mode] /\ UNCHANGED heap
    [] o.kind = "limit"    -> copy' = [copy EXCEPT !.limit = o.limit] /\ UNCHANGED heap
    [] o.kind = "xattr"    -> WithNames(NamesAt(copy.xattrs) \cup {o.name})
    [] o.kind = "xattrs"   -> WithNames(o.names)
    [] o.kind = "allow"    -> /\ copy' = [copy EXCEPT !.allowed =
                                            IF o.on THEN @ \cup {o.ns} ELSE @ \ {o.ns}]
                              /\ UNCHANGED heap
    [] OTHER               -> copy' = [copy EXCEPT !.coverage = o.opts] /\ UNCHANGED heap

-----------------------------------------------------------------------------
(* Configure *)

StartConfigure(options) ==
  /\ config # "applying"
  /\ config' = "applying"
  /\ copy' = g
  /\ todo' = options
  /\ UNCHANGED <<g, heap>>

ApplyOption ==
  /\ config = "applying" /\ todo # <<>>
  /\ Accepted(Head(todo))
  /\ Effect(Head(todo))
  /\ todo' = Tail(todo)
  /\ UNCHANGED <<g, config>>

RefuseOption ==
  /\ config = "applying" /\ todo # <<>>
  /\ ~ Accepted(Head(todo))
  /\ config' = "refused"
  /\ UNCHANGED <<g, heap, copy, todo>>

CommitOptions ==
  /\ config = "applying" /\ todo = <<>>
  /\ g' = copy
  /\ config' = "done"
  /\ UNCHANGED <<heap, copy, todo>>

ConfigureStep == ApplyOption \/ RefuseOption \/ CommitOptions

-----------------------------------------------------------------------------
(* What a run checks first, and what it then calls *)

hasNoConfiguration == g.set = {} /\ NamesAt(g.xattrs) = {}

validateXAttrConfiguration == \A name \in NamesAt(g.xattrs) : name.ns \in g.allowed

Required == {"dirNameLen", "dirMode", "nFiles", "nDirs", "fileNameLen", "fileMode",
             "pathDepth", "symlinkProb"}

OneOf == {{"dirName", "byteDirName"}, {"fileName", "byteFileName"},
          {"data", "contentPattern"}, {"symlinkRelProb", "symlinkStrategy"}}

(* Mutant: a content pattern needs no size to go with it. *)
TogetherLax == {{"uid", "gid"}, {"atime", "mtime"}, {"specialProb", "specialType"},
                {"deviceMajor", "deviceMinor"}}

Together == {{"contentPattern", "contentSize"}, {"uid", "gid"}, {"atime", "mtime"},
             {"specialProb", "specialType"}, {"deviceMajor", "deviceMinor"}}

validateRunConfiguration ==
  /\ Required \subseteq g.set
  /\ \A either \in OneOf : either \cap g.set # {}
  /\ \A pair \in Together : pair \subseteq g.set \/ pair \cap g.set = {}
  /\ validateXAttrConfiguration
  /\ g.runMode \in RunModes
  /\ g.limit > 0

(***************************************************************************)
(* The generators the planner may call.  A byte generator goes before its  *)
(* string counterpart, a pattern with a size before plain data; the others *)
(* are asked for first or only called when they are there.                 *)
(***************************************************************************)
Called ==
  Required
  \cup {IF "byteDirName" \in g.set THEN "byteDirName" ELSE "dirName"}
  \cup {IF "byteFileName" \in g.set THEN "byteFileName" ELSE "fileName"}
  \cup (IF {"contentPattern", "contentSize"} \subseteq g.set THEN {} ELSE {"data"})

-----------------------------------------------------------------------------
(* The built-in scenarios *)

SetOption(fields) == [kind |-> "set", fields |-> fields, valid |-> TRUE]

(* The generators every random scenario is given. *)
BaseFields ==
  <<"dirName", "dirNameLen", "dirMode", "nFiles", "nDirs", "fileName", "fileNameLen",
    "fileMode", "data", "pathDepth", "symlinkProb", "symlinkRelProb", "hardlinkProb">>

(* builtInScenarioBaseOptions *)
BaseOptions(seed) ==
  <<[kind |-> "seed", seed |-> seed], [kind |-> "mode", mode |-> "append"],
    [kind |-> "limit", limit |-> DefaultLimit]>>
  \o [k \in DOMAIN BaseFields |-> SetOption({BaseFields[k]})]

(* What a scenario adds to the base options; counts set again are left out. *)
ScenarioExtras(name) ==
  CASE name = "hardlink-heavy"  -> <<SetOption({"hardlinkProb"})>>
    [] name = "symlink-cycle"   -> <<SetOption({"symlinkProb"}), SetOption({"hardlinkProb"}),
                                     SetOption({"symlinkStrategy"})>>
    [] name = "metadata-heavy"  -> <<SetOption({"dirMode"}), SetOption({"fileMode"}),
                                     SetOption({"atime", "mtime"})>>
    [] name = "sparse-large"    -> <<SetOption({"contentPattern"}), SetOption({"contentSize"}),
                                     SetOption({"data"})>>
    [] name = "xattr-acl-heavy" -> <<[kind |-> "xattrs",
                                      names |-> {[ns |-> "user", rest |-> "case"],
                                                 [ns |-> "user", rest |-> "source"]}],
                                     SetOption({"acl"})>>

(* BuildBuiltInScenario *)
ScenarioOptions(name, seed) ==
  IF name \in Efforts
  THEN <<[kind |-> "coverage", opts |-> [NoCoverage EXCEPT !.effort = name]]>>
  ELSE BaseOptions(seed) \o ScenarioExtras(name)

-----------------------------------------------------------------------------
(* Properties *)

(***************************************************************************)
(* "Configure applies the provided options atomically": until it returns   *)
(* without error, no option it has gone through shows, neither in the      *)
(* generator nor in the random source and the attributes it points to.     *)
(***************************************************************************)
ConfigureAtomic ==
  [][config = "applying" /\ config' # "done" => Meaning' = Meaning]_optionVars

=============================================================================
