------------------------------ MODULE Coverage ------------------------------
(***************************************************************************)
(* The deterministic coverage scenario (coverage.go,                       *)
(* coverage_enumerator.go, coverage_capabilities.go,                       *)
(* coverage_capabilities_linux.go, coverage_naming.go): a call resolves    *)
(* which capabilities the host and the file system have, enumerates a plan *)
(* subtree by subtree from pairwise covering arrays, and, unless it was    *)
(* made for the specification only, applies the plan in a run mode.        *)
(*                                                                         *)
(* Abstractions.  A path is the sequence of its names: the number of the   *)
(* subtree, the number of the cell, the salt a name is derived from (two   *)
(* names of a cell have different salts, hence different suffixes of eight *)
(* digits).  A class of modes, names, contents or sizes is a value of its  *)
(* own; what is made of it is left out, but for the metadata.  The entries *)
(* are applied by the pipeline of the module ApplyPlan, which takes any    *)
(* well-formed plan; here an application is one step of which only the     *)
(* node left at the base path matters, for the next call probes it.        *)
(* Elapsed times and reasons are left out.                                 *)
(***************************************************************************)
EXTENDS Pairwise, Options

CONSTANTS
  NoPath,     \* the empty string, where the code stores no path
  Settings,   \* what a behaviour starts from: scale, host and base path
  MaxCalls,   \* bound on the number of calls
  MaxConfigs  \* bound on the number of calls of Configure

(* The paths the enumerators name, the base path, and filepath.Dir. *)
Paths == Seq(Int)
Base == <<>>
Dir == [p \in Paths |-> IF p = Base THEN Base ELSE SubSeq(p, 1, Len(p) - 1)]

INSTANCE PlanEntries

(* A list of whatever values. *)
IsList(l) == Len(l) \in Nat /\ l = [k \in 1 .. Len(l) |-> l[k]]

(* DeterministicCoverageOptions *)
IsRequest(o) ==
  o = [effort |-> o.effort, linux |-> o.linux, priv |-> o.priv, limit |-> o.limit,
       mode |-> o.mode]

(* An option that a generator is configured with *)
IsOption(o) ==
  /\ o.kind \in {"set", "seed", "mode", "limit", "xattr", "xattrs", "allow", "coverage", "nil"}
  /\ o.kind = "coverage" => IsRequest(o.opts)

(* The values of the dimensions are listed and there are some, a group of  *)
(* hard links has two names or more, two namespaces of extended attributes *)
(* are no variants of the user's, what is asked is typed, and at the base  *)
(* path is nothing, a directory or a file.                                 *)
ASSUME CoverageAssumption ==
  \A s \in Settings :
    /\ s.base \in {"none", "dir", "file"}
    /\ \A l \in {s.env.modes, s.env.contents, s.env.sizes, s.env.names, s.env.strategies,
                  s.env.userXAttrs, s.env.timeVariants} : IsList(l) /\ l # <<>>
    /\ IsList(s.env.groupSizes) /\ s.env.groupSizes # <<>>
    /\ \A k \in DOMAIN s.env.groupSizes : s.env.groupSizes[k] \in Nat \ {0, 1}
    /\ \A k \in DOMAIN s.env.userXAttrs :
         s.env.userXAttrs[k] \notin {"xattr-trusted", "xattr-security"}
    /\ \A c \in s.env.calls : IsRequest(c.opts)
    /\ \A options \in s.env.options :
         IsList(options) /\ \A k \in DOMAIN options : IsOption(options[k])

VARIABLES
  env,        \* the scale of the dimensions and the host, fixed
  base,       \* what is at the base path: "none", "dir" or "file"
  kept,       \* previousRunMode and previousLimit of runCoverage
  call,       \* the call being executed: who calls, what was asked, what holds
  phase,      \* where it is
  probes,     \* which of the two probes found support
  caps,       \* the enabled capabilities
  entries,    \* coveragePlanBuilder.entries
  groups,     \* coveragePlanBuilder.hardlinks
  used,       \* coveragePlanBuilder.used
  nextCell,   \* coveragePlanBuilder.nextCellIndex
  sub,        \* the subtree being enumerated
  cell,       \* the case and the repetition it has come to
  calls,      \* number of calls made
  configs,    \* number of calls of Configure
  log         \* history: what the calls planned

callVars == <<env, call, calls>>
genVars  == <<optionVars, configs, kept>>
planVars == <<caps, entries, groups, used, nextCell, sub, cell>>
coverageVars == <<callVars, genVars, base, phase, probes, planVars, log, pairVars>>

-----------------------------------------------------------------------------
(* Options and capabilities *)

(* coverageEffortMultiplier *)
Multiplier(effort) ==
  CASE effort = "medium" -> 3 [] effort = "high" -> 10
    [] effort = "xhigh" -> 50 [] OTHER -> 1

(* normalizeDeterministicCoverageOptions *)
normalize(o) ==
  IF env.host # "linux" THEN [o EXCEPT !.linux = FALSE, !.priv = FALSE]
  ELSE IF ~ o.linux /\ ~ o.priv THEN [o EXCEPT !.linux = TRUE]
  ELSE o

Capabilities ==
  {"hardlinks", "symlinks", "fifo", "socket", "char", "block", "ownership",
   "timestamps", "xattr-user", "xattr-trusted", "xattr-security", "acl",
   "other-owner"}

(* coverageCapabilityRequirements *)
LinuxOnly == Capabilities \ {"hardlinks", "symlinks"}
Privileged == {"char", "block", "xattr-trusted", "xattr-security", "other-owner"}

(* The options admit the capability, so it is probed. *)
Admitted(id, o) ==
  /\ id \in LinuxOnly => o.linux
  /\ id \in Privileged => o.priv

(* runCoverageCapabilityProbe, the two file system probes already made *)
ProbeOk(id) ==
  CASE id \in {"xattr-user", "xattr-trusted", "xattr-security"} -> "xattr" \in probes
    [] id = "acl"         -> "acl" \in probes
    [] id = "other-owner" -> env.host = "linux" => env.root
    [] id = "socket"      -> env.shortPath
    [] OTHER              -> TRUE

(* resolveCoverageCapabilities *)
Resolved == {id \in Capabilities : Admitted(id, call.opts) /\ ProbeOk(id)}

-----------------------------------------------------------------------------
(* Dimensions *)

SubTrees == <<"dirs", "files", "symlinks", "hardlinks", "special",
              "xattr-variants", "acl-variants", "timestamp-variants">>

(* coverageEnabledMetadataValues *)
MetaValues ==
  <<"none">>
  \o (IF "ownership" \in caps THEN <<"ownership">> ELSE <<>>)
  \o (IF "timestamps" \in caps THEN <<"timestamps">> ELSE <<>>)
  \o (IF {"ownership", "timestamps", "xattr-user", "acl"} \subseteq caps
      THEN <<"full">> ELSE <<>>)

(* Mutant: special types are gated by the capability of pipes alone. *)
SpecialTypesUngated ==
  IF "fifo" \in caps THEN <<"fifo", "socket", "char", "block">> ELSE <<>>

(* A value that is appended if b.capabilityEnabled says so. *)
IfEnabled(id) == IF id \in caps THEN <<id>> ELSE <<>>

SpecialTypes ==
  IfEnabled("fifo") \o IfEnabled("socket") \o IfEnabled("char") \o IfEnabled("block")

XAttrVariants ==
  env.userXAttrs \o IfEnabled("xattr-trusted") \o IfEnabled("xattr-security")

(* The dimensions of a subtree, by name and by their values. *)
Axes(s) ==
  CASE s = "dirs"      -> <<"mode", "name", "meta">>
    [] s = "files"     -> <<"mode", "content", "size", "name", "meta">>
    [] s = "special"   -> <<"variant", "mode">>
    [] OTHER           -> <<"variant", "name">>

Variants(s) ==
  CASE s = "symlinks"       -> env.strategies
    [] s = "hardlinks"      -> env.groupSizes
    [] s = "special"        -> SpecialTypes
    [] s = "xattr-variants" -> XAttrVariants
    [] s = "acl-variants"   -> <<"base", "named-mask", "default-on-dir">>
    [] OTHER                -> env.timeVariants

AxisValues(s, axis) ==
  CASE axis = "mode"    -> IF s = "special" THEN <<"regular", "exec">> ELSE env.modes
    [] axis = "name"    -> env.names
    [] axis = "content" -> env.contents
    [] axis = "size"    -> env.sizes
    [] axis = "meta"    -> MetaValues
    [] OTHER            -> Variants(s)

DimSizes(s) == [d \in DOMAIN Axes(s) |-> Len(AxisValues(s, Axes(s)[d]))]

(* The early returns of the enumerators. *)
Enumerated(s) ==
  CASE s = "symlinks"           -> "symlinks" \in caps
    [] s = "hardlinks"          -> "hardlinks" \in caps
    [] s = "special"            -> SpecialTypes # <<>>
    [] s = "xattr-variants"     -> "xattr-user" \in caps
    [] s = "acl-variants"       -> "acl" \in caps
    [] s = "timestamp-variants" -> "timestamps" \in caps
    [] OTHER                    -> TRUE

-----------------------------------------------------------------------------
(* Entries *)

(* ensureDeterministicTimestamps, deterministicLinkMetadata *)
Stamped(attrs) == attrs \cup (IF "timestamps" \in caps THEN {"times"} ELSE {})

(* coverageModeForFile, coverageModeForDir: four classes set special bits. *)
ModeAttrs(class) == {"mode"} \cup (IF class \in {"regular", "exec"} THEN {} ELSE {"sbits"})

(* coverageMetadataFor *)
MetadataFor(class) ==
  Stamped({}
    \cup (IF class \in {"ownership", "full"} THEN {"owner"} ELSE {})
    \cup (IF class = "full" THEN {"xattrs", "acl"} ELSE {}))

CoverageEntry(kind, path, target, attrs, via, traits) ==
  [kind |-> kind, path |-> path, target |-> target, attrs |-> attrs,
   via |-> via, traits |-> traits]

NoTraits == [mode |-> "regular"]

DirEntry(path, attrs, traits) ==
  CoverageEntry("dir", path, NoPath, Stamped(attrs), "none", traits)
FileEntry(path, attrs, traits) ==
  CoverageEntry("file", path, NoPath, Stamped(attrs), "none", traits)
LinkEntry(path, target, via, traits) ==
  CoverageEntry("symlink", path, target, Stamped({}), via, traits)

RootOf(s) == <<CHOOSE n \in DOMAIN SubTrees : SubTrees[n] = s>>

AnchorFile == RootOf("symlinks") \o <<-1>>
AnchorLink == RootOf("symlinks") \o <<-2>>

(* emitCoverageSymlinkCell; salt 9 names what a dangling link points to *)
SymlinkCell(w, t) ==
  LET leaf(salt) == w \o <<salt>>
  IN  CASE t.variant \in {"absolute", "relative"} ->
             <<LinkEntry(leaf(0), AnchorFile, t.variant, t)>>
        [] t.variant = "dangling" -> <<LinkEntry(leaf(0), leaf(9), "dangling", t)>>
        [] t.variant = "self"     -> <<LinkEntry(leaf(0), leaf(0), "self", t)>>
        [] t.variant = "chained"  -> <<LinkEntry(leaf(0), AnchorLink, "chained", t)>>
        [] OTHER -> <<LinkEntry(leaf(0), leaf(1), "cycle", t),
                      LinkEntry(leaf(1), leaf(0), "cycle", t)>>

(* The origin and its mirrors. *)
HardlinkCell(w, t) ==
  <<FileEntry(w \o <<0>>, {"mode"}, t)>>
  \o [m \in 1 .. (t.variant - 1) |->
        CoverageEntry("hardlink", w \o <<m>>, w \o <<0>>, {}, "none", t)]

(* What one cell holds below its wrapper directory w. *)
CellContent(s, w, t) ==
  LET leaf == w \o <<0>>
  IN  CASE s = "dirs"      -> <<DirEntry(leaf, ModeAttrs(t.mode) \cup MetadataFor(t.meta), t)>>
        [] s = "files"     -> <<FileEntry(leaf, ModeAttrs(t.mode) \cup MetadataFor(t.meta), t)>>
        [] s = "symlinks"  -> SymlinkCell(w, t)
        [] s = "hardlinks" -> HardlinkCell(w, t)
        [] s = "xattr-variants" -> <<FileEntry(leaf, {"mode", "xattrs"}, t)>>
        [] s = "acl-variants" ->
             IF t.variant = "default-on-dir" THEN <<DirEntry(leaf, {"mode", "acl"}, t)>>
             ELSE <<FileEntry(leaf, {"mode", "acl"}, t)>>
        [] OTHER -> <<FileEntry(leaf, {"mode", "times"}, t)>>

(* Mutant: the values of the first two dimensions are swapped. *)
TraitsSwapped(s, case) ==
  [axis \in {Axes(s)[d] : d \in DOMAIN Axes(s)} |->
     LET d == CHOOSE d \in DOMAIN Axes(s) : Axes(s)[d] = axis
         vals == AxisValues(s, axis)
         v == case[CASE d = 1 -> 2 [] d = 2 -> 1 [] OTHER -> d]
     IN  vals[(v % Len(vals)) + 1]]

(* The values a case selects. *)
Traits(s, case) ==
  [axis \in {Axes(s)[d] : d \in DOMAIN Axes(s)} |->
     LET d == CHOOSE d \in DOMAIN Axes(s) : Axes(s)[d] = axis
     IN  AxisValues(s, axis)[case[d] + 1]]

(***************************************************************************)
(* The entries of one repetition of a case.  Special files have no wrapper *)
(* and are numbered on their own, from zero.                               *)
(***************************************************************************)
CellEntries(s, t, special) ==
  LET w == RootOf(s) \o <<nextCell>>
  IN  IF s = "special"
      THEN <<CoverageEntry(t.variant, RootOf(s) \o <<special>>, NoPath,
                           Stamped(ModeAttrs(t.mode)), "none", t)>>
      ELSE <<DirEntry(w, {"mode"}, NoTraits)>> \o CellContent(s, w, t)

(* registerHardlinkGroup: the origin comes first. *)
GroupOf(es) == {es[k].path : k \in {j \in DOMAIN es : es[j].kind # "dir"}}

-----------------------------------------------------------------------------
(* A call *)

NoCall == [kind |-> "none", base |-> "none", asked |-> NoCoverage, opts |-> NoCoverage]
NoneKept == [mode |-> "append", limit |-> DefaultLimit]

CoverageInit ==
  /\ \E s \in Settings : env = s.env /\ base = s.base
  /\ OptionsInit
  /\ configs = 0
  /\ kept = NoneKept
  /\ call = NoCall
  /\ phase = "returned"
  /\ probes = {}
  /\ caps = {} /\ entries = <<>> /\ groups = {} /\ used = {} /\ nextCell = 0
  /\ sub = 0
  /\ cell = [case |-> 1, rep |-> 0]
  /\ calls = 0
  /\ log = {}
  /\ PairInit

(* runCoverage: what the options leave open is the generator's. *)
Inherit(o) ==
  [o EXCEPT !.mode  = IF @ = "append" THEN g.runMode ELSE @,
            !.limit = IF @ <= 0 THEN g.limit ELSE @]

(* validateDeterministicCoverageEffort, and validateRunMode in a "run" *)
Refuses(kind, o) ==
  \/ o.effort \notin Efforts
  \/ kind = "run" /\ o.mode \notin RunModes

(* Neither a call nor a Configure is under way. *)
Idle == phase \in {"returned", "failed"} /\ config # "applying"

(* Configure is called, and goes through its options. *)
CallConfigure(options) ==
  /\ Idle
  /\ configs < MaxConfigs
  /\ configs' = configs + 1
  /\ StartConfigure(options)
  /\ UNCHANGED <<callVars, kept, base, phase, probes, planVars, log, pairVars>>

Configuring ==
  /\ ConfigureStep
  /\ UNCHANGED <<callVars, configs, kept, base, phase, probes, planVars, log, pairVars>>

(***************************************************************************)
(* BuildDeterministicCoverageSpec ("spec"), RunDeterministicCoverage       *)
(* ("run") or Generator.Run with WithDeterministicCoverage ("generator").  *)
(***************************************************************************)
StartCall(kind, o) ==
  /\ Idle
  /\ calls < MaxCalls
  /\ calls' = calls + 1
  /\ call' = [kind |-> kind, base |-> base, asked |-> o,
              opts |-> IF kind = "generator" THEN Inherit(normalize(o)) ELSE normalize(o)]
  /\ phase' = IF Refuses(kind, o) THEN "failed"
              ELSE IF normalize(o).linux THEN "probe-xattr" ELSE "resolve"
  /\ probes' = {}
  /\ UNCHANGED <<env, genVars, base, planVars, log, pairVars>>

(***************************************************************************)
(* A plan is applied.  It ends well, which a file at the base path         *)
(* prevents in all modes but replace, or ends early: nothing was done, the *)
(* base was cleared and no more, or some entries were made.                *)
(***************************************************************************)
ApplyTo(mode) ==
  \/ /\ mode = "replace" \/ base # "file"
     /\ mode \in RunModes
     /\ base' = "dir"
     /\ phase' \in {"returned", "failed"}
  \/ /\ base' \in {base} \cup (IF mode = "replace" THEN {"none"} ELSE {})
     /\ phase' = "failed"

(***************************************************************************)
(* Generator.Run.  The coverage scenario goes first; a generator that was  *)
(* never configured does nothing; any other must have what a run needs.    *)
(***************************************************************************)
RunCoverage == g.coverage # NoCoverage /\ StartCall("generator", g.coverage)

RunRandom ==
  /\ Idle
  /\ g.coverage = NoCoverage
  /\ calls < MaxCalls
  /\ calls' = calls + 1
  /\ call' = [NoCall EXCEPT !.kind = "random", !.base = base]
  /\ phase' = IF hasNoConfiguration THEN "returned"
              ELSE IF validateRunConfiguration THEN "planning" ELSE "failed"
  /\ UNCHANGED <<env, genVars, base, probes, planVars, log, pairVars>>

(***************************************************************************)
(* The random source is drawn from; the plan is made and applied, of which *)
(* the module RunPipeline has the steps.                                   *)
(***************************************************************************)
PlanAtRandom ==
  /\ phase = "planning"
  /\ heap' = [heap EXCEPT ![g.rnd].drawn = @ + 1]
  /\ ApplyTo(g.runMode)
  /\ UNCHANGED <<callVars, g, copy, todo, config, configs, kept, probes, planVars, log,
                 pairVars>>

(* Mutant: a probe does not make the base directory. *)
ProbedBaseMissing == base

(* os.MkdirAll(probeBasePath) of a probe *)
ProbedBase == IF base = "none" THEN "dir" ELSE base

(* The probe file is made in the base directory and removed again. *)
Probe(feature, supported) ==
  /\ base' = ProbedBase
  /\ probes' = probes \cup (IF ProbedBase = "dir" /\ supported THEN {feature} ELSE {})
  /\ UNCHANGED <<callVars, genVars, planVars, log, pairVars>>

ProbeXAttrSupport ==
  phase = "probe-xattr" /\ Probe("xattr", env.xattr) /\ phase' = "probe-acl"

ProbeACLSupport ==
  phase = "probe-acl" /\ Probe("acl", env.acl) /\ phase' = "resolve"

(* The capabilities are settled and the builder starts with the base. *)
ResolveCapabilities ==
  /\ phase = "resolve"
  /\ caps' = Resolved
  /\ entries' = <<CoverageEntry("dir", Base, NoPath,
                    {"mode"} \cup (IF "timestamps" \in Resolved THEN {"times"} ELSE {}),
                    "none", NoTraits)>>
  /\ groups' = {}
  /\ used' = {Base}
  /\ nextCell' = 0
  /\ sub' = 1
  /\ cell' = [case |-> 1, rep |-> 0]
  /\ phase' = "subtree"
  /\ UNCHANGED <<callVars, genVars, base, probes, log, pairVars>>

(* registerPath and append, or the error of a path met twice. *)
AppendEntries(es, next) ==
  LET ps == [k \in DOMAIN es |-> es[k].path]
  IN  IF \E k \in DOMAIN es : ps[k] \in used \/ \E j \in 1 .. (k - 1) : ps[j] = ps[k]
      THEN phase' = "failed" /\ UNCHANGED <<entries, used>>
      ELSE /\ entries' = entries \o es
           /\ used' = used \cup {ps[k] : k \in DOMAIN es}
           /\ phase' = next

SubTree == SubTrees[sub]

Anchors ==
  IF SubTree = "symlinks"
  THEN <<FileEntry(AnchorFile, {"mode"}, NoTraits),
         LinkEntry(AnchorLink, AnchorFile, "relative", NoTraits)>>
  ELSE <<>>

(* The root of a subtree is planned; nothing more if it is gated out. *)
SkipSubTree ==
  /\ phase = "subtree" /\ sub <= Len(SubTrees)
  /\ ~ Enumerated(SubTree)
  /\ AppendEntries(<<DirEntry(RootOf(SubTree), {"mode"}, NoTraits)>>, "subtree")
  /\ sub' = sub + 1
  /\ UNCHANGED <<callVars, genVars, base, probes, caps, groups, nextCell, cell, log, pairVars>>

StartSubTree ==
  /\ phase = "subtree" /\ sub <= Len(SubTrees)
  /\ Enumerated(SubTree)
  /\ AppendEntries(<<DirEntry(RootOf(SubTree), {"mode"}, NoTraits)>> \o Anchors, "cells")
  /\ Begin(DimSizes(SubTree))
  /\ cell' = [case |-> 1, rep |-> 0]
  /\ UNCHANGED <<callVars, genVars, base, probes, caps, groups, nextCell, sub, log>>

(* coveragePairwise runs. *)
SearchCases ==
  /\ phase = "cells"
  /\ PairStep
  /\ UNCHANGED <<callVars, genVars, base, phase, probes, planVars, log>>

(* Mutant: the repetitions of a case share their wrapper. *)
AdvanceCellOnce(s) ==
  IF s = "special" \/ cell.rep + 1 < Multiplier(call.opts.effort) THEN nextCell
  ELSE nextCell + 1

(* nextCellIndex moves with every wrapper. *)
AdvanceCell(s) == IF s = "special" THEN nextCell ELSE nextCell + 1

EmitCell ==
  /\ phase = "cells" /\ at = "done"
  /\ cell.case <= Len(cases)
  /\ LET m  == Multiplier(call.opts.effort)
         es == CellEntries(SubTree, Traits(SubTree, cases[cell.case]),
                           (cell.case - 1) * m + cell.rep)
     IN  /\ AppendEntries(es, "cells")
         /\ groups' = groups \cup
              (IF SubTree = "hardlinks" THEN {GroupOf(es)} ELSE {})
         /\ cell' = IF cell.rep + 1 < m THEN [cell EXCEPT !.rep = @ + 1]
                    ELSE [case |-> cell.case + 1, rep |-> 0]
  /\ nextCell' = AdvanceCell(SubTree)
  /\ UNCHANGED <<callVars, genVars, base, probes, caps, sub, log, pairVars>>

EndSubTree ==
  /\ phase = "cells" /\ at = "done"
  /\ cell.case > Len(cases)
  /\ sub' = sub + 1
  /\ phase' = "subtree"
  /\ UNCHANGED <<callVars, genVars, base, probes, caps, entries, groups, used, nextCell,
                 cell, log, pairVars>>

(* Mutant: the loop looks for a ninth subtree. *)
PlannedLate ==
  /\ phase = "subtree" /\ sub > Len(SubTrees) + 1
  /\ phase' = "planned"
  /\ UNCHANGED <<callVars, genVars, base, probes, planVars, log, pairVars>>

(* enumerateCoveragePlan returns. *)
Planned ==
  /\ phase = "subtree" /\ sub > Len(SubTrees)
  /\ phase' = "planned"
  /\ log' = log \cup {[base |-> call.base, opts |-> call.opts, plan |-> entries]}
  /\ UNCHANGED <<callVars, genVars, base, probes, planVars, pairVars>>

PlanLimit == IF call.opts.limit <= 0 THEN DefaultLimit ELSE call.opts.limit

(* A specification is reported; a plan that is too long is refused. *)
ReportSpec ==
  /\ phase = "planned"
  /\ call.kind = "spec"
  /\ phase' = "returned"
  /\ UNCHANGED <<callVars, genVars, base, probes, planVars, log, pairVars>>

OverLimit ==
  /\ phase = "planned"
  /\ call.kind # "spec"
  /\ Len(entries) > PlanLimit
  /\ phase' = "failed"
  /\ UNCHANGED <<callVars, genVars, base, probes, planVars, log, pairVars>>

(* The generator runs with the effective mode and limit for a while. *)
StartApply ==
  /\ phase = "planned"
  /\ call.kind # "spec"
  /\ Len(entries) <= PlanLimit
  /\ kept' = [mode |-> g.runMode, limit |-> g.limit]
  /\ g' = IF call.kind = "generator"
          THEN [g EXCEPT !.runMode = call.opts.mode, !.limit = PlanLimit] ELSE g
  /\ phase' = "applying"
  /\ UNCHANGED <<callVars, heap, copy, todo, config, configs, base, probes, planVars, log, pairVars>>

(* Mutant: a generator whose run failed keeps the mode and limit of the run. *)
RestoredOnSuccess ==
  IF phase' = "returned" THEN [g EXCEPT !.runMode = kept.mode, !.limit = kept.limit] ELSE g

(* The deferred function of runCoverage *)
Restored == [g EXCEPT !.runMode = kept.mode, !.limit = kept.limit]

ApplyEnds ==
  /\ phase = "applying"
  /\ ApplyTo(call.opts.mode)
  /\ g' = Restored
  /\ UNCHANGED <<callVars, heap, copy, todo, config, configs, kept, probes, planVars, log,
                 pairVars>>

CallStep ==
  \/ ProbeXAttrSupport \/ ProbeACLSupport \/ ResolveCapabilities
  \/ SkipSubTree \/ StartSubTree \/ SearchCases \/ EmitCell \/ EndSubTree
  \/ Planned \/ ReportSpec \/ OverLimit \/ StartApply \/ ApplyEnds
  \/ PlanAtRandom \/ Configuring

CoverageNext ==
  \/ CallStep
  \/ \E c \in env.calls : StartCall(c.kind, c.opts)
  \/ \E options \in env.options : CallConfigure(options)
  \/ env.options # {} /\ (RunCoverage \/ RunRandom)

(* A call is sequential code: once started it runs to its end. *)
CoverageSpec == CoverageInit /\ [][CoverageNext]_coverageVars /\ WF_coverageVars(CallStep)

-----------------------------------------------------------------------------
(* Properties *)

(* The plan as the apply pipeline sees it. *)
RunPlan ==
  [k \in DOMAIN entries |->
     [kind |-> entries[k].kind, path |-> entries[k].path, target |-> entries[k].target,
      attrs |-> entries[k].attrs, via |-> entries[k].via]]

(***************************************************************************)
(* The coverage plan is one the apply pipeline takes: base first, every    *)
(* directory before what it holds, every origin before its links, no path  *)
(* twice, and the enumeration never ends in a path collision.  The groups  *)
(* are exactly the origins with their links.                               *)
(***************************************************************************)
CoverageWellFormed ==
  /\ phase = "planned" =>
       /\ WellFormedPlan(RunPlan)
       /\ groups = {{entries[o].path} \cup
                      {entries[k].path : k \in {j \in DOMAIN entries :
                                                  entries[j].kind = "hardlink"
                                                  /\ entries[j].target = entries[o].path}} :
                    o \in {j \in DOMAIN entries : \E k \in DOMAIN entries :
                             /\ entries[k].kind = "hardlink"
                             /\ entries[k].target = entries[j].path}}
  /\ phase = "failed" /\ ~ Refuses(call.kind, call.asked) => sub > Len(SubTrees)

(* The cells of a subtree whose entries show both values. *)
CellsShowing(s, a, x, b, y) ==
  {SubSeq(entries[k].path, 1, 2) :
     k \in {j \in DOMAIN entries :
              LET e == entries[j]
              IN  /\ e.path # Base /\ SubSeq(e.path, 1, 1) = RootOf(s)
                  /\ {a, b} \subseteq DOMAIN e.traits
                  /\ e.traits[a] = x /\ e.traits[b] = y}}

(***************************************************************************)
(* The plan covers: in every subtree that is enumerated, every two values  *)
(* of two dimensions meet in at least as many cells as the effort repeats. *)
(***************************************************************************)
PairsPlanned ==
  phase = "planned" =>
    \A n \in DOMAIN SubTrees :
      LET s == SubTrees[n]
      IN  Enumerated(s) =>
            \A d \in DOMAIN Axes(s), e \in DOMAIN Axes(s) :
              d < e =>
                \A x \in DOMAIN AxisValues(s, Axes(s)[d]),
                   y \in DOMAIN AxisValues(s, Axes(s)[e]) :
                  Cardinality(CellsShowing(s, Axes(s)[d], AxisValues(s, Axes(s)[d])[x],
                                              Axes(s)[e], AxisValues(s, Axes(s)[e])[y]))
                    >= Multiplier(call.opts.effort)

(* The capabilities an entry depends on when it is applied. *)
Needs(e) ==
  (IF e.kind \in SpecialKinds THEN {e.kind} ELSE {})
  \cup (IF e.kind = "symlink" THEN {"symlinks"} ELSE {})
  \cup (IF e.kind = "hardlink" THEN {"hardlinks"} ELSE {})
  \cup (IF "times" \in e.attrs THEN {"timestamps"} ELSE {})
  \cup (IF "owner" \in e.attrs THEN {"ownership"} ELSE {})
  \cup (IF "acl" \in e.attrs THEN {"acl"} ELSE {})
  \cup (IF "xattrs" \in e.attrs
        THEN {IF "variant" \in DOMAIN e.traits
                 /\ e.traits.variant \in {"xattr-trusted", "xattr-security"}
              THEN e.traits.variant ELSE "xattr-user"}
        ELSE {})

(***************************************************************************)
(* The plan asks for nothing that the options do not admit, that the host  *)
(* does not have or that a probe did not find: devices and the trusted and *)
(* security namespaces only on request, Linux metadata only on Linux.      *)
(***************************************************************************)
NeedsOnlyResolved ==
  phase = "planned" =>
    \A k \in DOMAIN entries :
      \A id \in Needs(entries[k]) :
        /\ Admitted(id, normalize(call.asked))
        /\ id \in LinuxOnly => env.host = "linux"
        /\ ProbeOk(id)

(***************************************************************************)
(* The determinism contract of RunDeterministicCoverage: calls with the    *)
(* same effort and flags plan the same entries, whoever calls, in whatever *)
(* order, however earlier calls ended and however the generator was used.  *)
(* A file at the base path, which no probe can get past, is the one thing  *)
(* that may change the plan.                                               *)
(***************************************************************************)
SamePlanAgain ==
  \A r, t \in log :
    /\ r.opts.effort = t.opts.effort
    /\ r.opts.linux = t.opts.linux
    /\ r.opts.priv = t.opts.priv
    /\ "file" \notin {r.base, t.base}
    => r.plan = t.plan

(***************************************************************************)
(* A run does not change the configuration, however it ends: the mode and  *)
(* the limit that a coverage run puts in their place are given back.       *)
(***************************************************************************)
ConfigurationKept == Idle /\ config = "done" => g = copy

(***************************************************************************)
(* A run that got past its checks calls no generator that was never set:   *)
(* the planner's choices between generators are among what is checked.     *)
(***************************************************************************)
NoNilCall == phase = "planning" => Called \subseteq g.set

(* A call comes to an end: the search and the enumeration always finish,   *)
(* and so does a Configure.                                                *)
CallReturns == ~ Idle ~> Idle

=============================================================================
