----------------------------- MODULE ApplyPlan -----------------------------
(***************************************************************************)
(* The apply pipeline of plan.go (applyRunPlan, applyPlannedEntry) with    *)
(* the metadata steps of metadata_linux.go and the fault hooks of          *)
(* faults.go: one run takes a plan to a directory tree on disk, in one of  *)
(* three run modes; a run may fail at every system call and at every fault *)
(* hook, and a later run starts from whatever an earlier one left behind.  *)
(*                                                                         *)
(* Abstractions.  A node remembers what the properties need: its kind, the *)
(* run that made it (0: it was there before the first run), its inode, if  *)
(* its content is whole, and which planned metadata it carries now.        *)
(* Elapsed times and error texts are left out.  The tree below the base    *)
(* path belongs to this process while a run executes, which is the         *)
(* package's documented ownership rule.                                    *)
(***************************************************************************)
EXTENDS PlanEntries, FaultInjector, FiniteSets

CONSTANTS
  Plans,         \* the plans a run may be given
  Modes,         \* the run modes in use
  Profiles,      \* the fault profiles in use
  InitialTrees,  \* what may exist at and below Base before the first run
  MaxRuns        \* bound on the number of runs

NodeKinds == {"none", "dir", "file", "symlink"} \cup SpecialKinds

Node == [kind : NodeKinds, by : 0 .. MaxRuns, ino : Paths,
         whole : BOOLEAN, meta : SUBSET Attrs]

(* FaultRule; a path pattern is the set of the paths it matches. *)
FaultRule == [nth : Int, scope : STRING, kind : STRING, paths : SUBSET Paths]

ASSUME RunAssumption ==
  /\ \A pl \in Plans : WellFormedPlan(pl)
  /\ Modes \subseteq {"append", "strict", "replace"}
  /\ Profiles \subseteq Seq(FaultRule)
  /\ InitialTrees \subseteq {t \in [Paths -> Node] : \A p \in Paths : t[p].by = 0}
  /\ MaxRuns \in Nat

VARIABLES
  tree,         \* [Paths -> Node]
  run,          \* number of runs started
  plan,         \* the plan of the current run
  mode,         \* Generator.runMode of the current run
  profile,      \* RunOptions.FaultProfile of the current run
  pc,           \* "idle", "clear", "entries", "finalize", "ok" or "failed"
  i,            \* index of the current loop
  createdDirs,  \* createdDirs of applyRunPlan
  injector,     \* the executionContext
  stats,        \* applyStats
  points,       \* history: the fault hooks passed in this run
  fault         \* history: the rule that ended this run, 0 if none

runVars == <<run, plan, mode, profile>>
vars == <<tree, runVars, pc, i, createdDirs, injector, stats, points, fault>>

-----------------------------------------------------------------------------
(* The tree *)

Absent == [kind |-> "none", by |-> 0, ino |-> Base, whole |-> FALSE, meta |-> {}]

Exists(p) == tree[p].kind # "none"

(* A new directory entry moves the modification time of its directory. *)
WithNode(p, node) ==
  [q \in Paths |->
     IF q = p THEN node
     ELSE IF p # Base /\ q = Dir[p]
          THEN [tree[q] EXCEPT !.meta = @ \ {"times"}]
          ELSE tree[q]]

(* What kind of node an entry becomes; a hard link is a regular file. *)
NodeKind(e) == IF e.kind = "hardlink" THEN "file" ELSE e.kind

-----------------------------------------------------------------------------
(* Metadata *)

(* Mutant: the ACL is written before chmod. *)
AclBeforeMode == <<"owner", "acl", "mode", "times", "xattrs">>

(* The order of the calls of applyMetadata, named for what they set. *)
CallOrder == <<"owner", "mode", "times", "xattrs", "acl">>

(***************************************************************************)
(* The calls made for an entry: applyMetadata calls chmod whatever was     *)
(* asked for, applyLinkMetadata makes two of the calls.  os.Chmod takes    *)
(* the nine permission bits of a raw POSIX mode and ignores the three      *)
(* above, so no call sets "sbits".  The values themselves are not told     *)
(* apart, so "unfit" makes no call either.                                 *)
(***************************************************************************)
MetadataCalls(e) ==
  IF e.kind = "symlink" THEN e.attrs \cap {"owner", "times"}
  ELSE (e.attrs \cup {"mode"}) \ {"sbits", "unfit"}

(***************************************************************************)
(* What the kernel changes beside the attribute a call sets: chown drops   *)
(* setuid and setgid, chmod rewrites the ACL's mask entry, writing an      *)
(* access ACL rewrites the permission bits.                                *)
(***************************************************************************)
Clobbers(a) ==
  CASE a = "owner" -> {"sbits"}
    [] a = "mode"  -> {"sbits", "acl"}
    [] a = "acl"   -> {"mode"}
    [] OTHER       -> {}

(* The metadata in force when the calls up to the nth in order were made. *)
AfterCalls(e, n) ==
  LET made == {k \in 1 .. n : CallOrder[k] \in MetadataCalls(e)}
  IN  {CallOrder[k] : k \in {j \in made :
         \A m \in made : m > j => CallOrder[j] \notin Clobbers(CallOrder[m])}}

AfterAllCalls(e) == AfterCalls(e, Len(CallOrder))

(* The metadata in force when one of the calls has failed. *)
AfterFailedCall(e) ==
  {AfterCalls(e, n - 1) :
     n \in {k \in DOMAIN CallOrder : CallOrder[k] \in MetadataCalls(e)}}

-----------------------------------------------------------------------------
(* Creating one entry *)

Made(e, whole, meta) ==
  [kind |-> NodeKind(e), by |-> run, ino |-> e.path,
   whole |-> whole, meta |-> meta]

(***************************************************************************)
(* The node a successful creation leaves: a hard link is one more name of  *)
(* its target's inode; a directory waits for the second pass.              *)
(***************************************************************************)
Created(e) ==
  CASE e.kind = "hardlink" -> [tree[e.target] EXCEPT !.by = run]
    [] e.kind = "dir"      -> Made(e, TRUE, {})
    [] OTHER -> Made(e, TRUE, AfterAllCalls(e))

(***************************************************************************)
(* The nodes a failed creation may leave: none at all, a file with part of *)
(* its content, or a node whose metadata calls stopped half way.           *)
(***************************************************************************)
Leftovers(e) ==
  {Absent}
  \cup {Made(e, FALSE, {}) : x \in IF e.kind = "file" THEN {1} ELSE {}}
  \cup {Made(e, TRUE, meta) :
          meta \in IF e.kind \in {"dir", "hardlink"} THEN {} ELSE AfterFailedCall(e)}

(* Mutant: any node will do for a planned directory. *)
AcceptsAnyForDir(e) ==
  e.kind = "dir" \/ tree[e.path].kind = NodeKind(e)

(* applyPlannedEntry on a path that exists: accept it as it is, or refuse. *)
Accepts(e) ==
  IF mode = "strict"
  THEN e.kind = "dir" /\ e.path = Base /\ tree[e.path].kind = "dir"
  ELSE tree[e.path].kind = NodeKind(e)

(* The system call can succeed: its directory, and a link's target, exist. *)
CanCreate(e) ==
  /\ e.path # Base => tree[Dir[e.path]].kind = "dir"
  /\ e.kind = "hardlink" => tree[e.target].kind = "file"

-----------------------------------------------------------------------------
(* One run *)

Init ==
  /\ tree \in InitialTrees
  /\ run = 0
  /\ plan = <<>>
  /\ mode = "append"
  /\ profile = <<>>
  /\ pc = "idle"
  /\ i = 0
  /\ createdDirs = {}
  /\ injector = newFaultInjector(<<>>)
  /\ stats = [applied |-> 0, finalized |-> 0]
  /\ points = <<>>
  /\ fault = 0

(* RunWithMetrics after planning: an invalid profile ends the run at once. *)
StartRun(pl, m, rules) ==
  /\ pc \in {"idle", "ok", "failed"}
  /\ run < MaxRuns
  /\ run' = run + 1
  /\ plan' = pl
  /\ mode' = m
  /\ profile' = rules
  /\ pc' = IF ~ validate(rules) THEN "failed"
           ELSE IF m = "replace" THEN "clear" ELSE "entries"
  /\ i' = 1
  /\ createdDirs' = {}
  /\ injector' = newFaultInjector(rules)
  /\ stats' = [applied |-> 0, finalized |-> 0]
  /\ points' = <<>>
  /\ fault' = 0
  /\ UNCHANGED tree

(* Mutant: replace mode removes only what earlier runs made. *)
ClearMadeNodes ==
  /\ pc = "clear"
  /\ tree' = [p \in Paths |-> IF tree[p].by > 0 THEN Absent ELSE tree[p]]
  /\ pc' = "entries"
  /\ UNCHANGED <<runVars, i, createdDirs, injector, stats, points, fault>>

(* os.RemoveAll(basePath) in replace mode *)
ClearBase ==
  /\ pc = "clear"
  /\ tree' = [p \in Paths |-> Absent]
  /\ pc' = "entries"
  /\ UNCHANGED <<runVars, i, createdDirs, injector, stats, points, fault>>

(* os.RemoveAll fails: it may have removed part of the tree, leaves first. *)
ClearFails ==
  /\ pc = "clear"
  /\ \E kept \in SUBSET {p \in Paths : Exists(p)} :
       /\ kept # {}
       /\ \A p \in kept : p # Base => Dir[p] \in kept
       /\ tree' = [p \in Paths |->
                     IF p \notin kept THEN Absent
                     ELSE IF \E q \in Paths \ kept :
                               q # Base /\ Dir[q] = p /\ Exists(q)
                          THEN [tree[p] EXCEPT !.meta = @ \ {"times"}]
                          ELSE tree[p]]
  /\ pc' = "failed"
  /\ UNCHANGED <<runVars, i, createdDirs, injector, stats, points, fault>>

(* plannedEntryTypeLabel *)
Label(e) ==
  CASE e.kind = "dir"      -> "create-dir"
    [] e.kind = "file"     -> "create-file"
    [] e.kind = "symlink"  -> "create-symlink"
    [] e.kind = "hardlink" -> "create-hardlink"
    [] OTHER               -> "create-special"

(* The fault hooks of the two loops of applyRunPlan. *)
CreatePoint   == [scope |-> "run", kind |-> Label(plan[i]), path |-> plan[i].path]
FinalizePoint == [scope |-> "run", kind |-> "finalize-directory-metadata",
                  path |-> plan[i].path]

(* executionContext.before lets the step through. *)
Passes(point) ==
  /\ FiredRule(profile, injector, point) = 0
  /\ injector' = before(profile, injector, point)
  /\ points' = Append(points, point)
  /\ UNCHANGED fault

(* executionContext.before injects an error and the run ends. *)
Faults(point) ==
  /\ FiredRule(profile, injector, point) # 0
  /\ injector' = before(profile, injector, point)
  /\ points' = Append(points, point)
  /\ fault' = FiredRule(profile, injector, point)
  /\ pc' = "failed"
  /\ UNCHANGED <<tree, runVars, i, createdDirs, stats>>

AtEntry == pc = "entries" /\ i <= Len(plan)

EntryFault == AtEntry /\ Faults(CreatePoint)

(* The path exists and is accepted without being touched. *)
EntryAccepted ==
  /\ AtEntry
  /\ Passes(CreatePoint)
  /\ Exists(plan[i].path)
  /\ Accepts(plan[i])
  /\ i' = i + 1
  /\ stats' = [stats EXCEPT !.applied = @ + 1]
  /\ UNCHANGED <<tree, runVars, pc, createdDirs>>

(* The path exists and is refused, which ends the run. *)
EntryRefused ==
  /\ AtEntry
  /\ Passes(CreatePoint)
  /\ Exists(plan[i].path)
  /\ ~ Accepts(plan[i])
  /\ pc' = "failed"
  /\ UNCHANGED <<tree, runVars, i, createdDirs, stats>>

(* os.Lstat fails for another reason than a missing path. *)
InspectFails ==
  /\ AtEntry
  /\ Passes(CreatePoint)
  /\ pc' = "failed"
  /\ UNCHANGED <<tree, runVars, i, createdDirs, stats>>

(* The path is absent and is created. *)
EntryCreated ==
  /\ AtEntry
  /\ Passes(CreatePoint)
  /\ ~ Exists(plan[i].path)
  /\ CanCreate(plan[i])
  /\ tree' = WithNode(plan[i].path, Created(plan[i]))
  /\ createdDirs' = createdDirs \cup
       (IF plan[i].kind = "dir" THEN {plan[i].path} ELSE {})
  /\ i' = i + 1
  /\ stats' = [stats EXCEPT !.applied = @ + 1]
  /\ UNCHANGED <<runVars, pc>>

(* Mutant: an entry that fails is passed over. *)
EntryFailsOn ==
  /\ AtEntry
  /\ Passes(CreatePoint)
  /\ ~ Exists(plan[i].path)
  /\ \E node \in Leftovers(plan[i]) :
       /\ node # Absent => CanCreate(plan[i])
       /\ tree' = IF node = Absent THEN tree ELSE WithNode(plan[i].path, node)
  /\ i' = i + 1
  /\ UNCHANGED <<runVars, pc, createdDirs, stats>>

(* The path is absent and one of the calls that create it fails. *)
EntryFails ==
  /\ AtEntry
  /\ Passes(CreatePoint)
  /\ ~ Exists(plan[i].path)
  /\ \E node \in Leftovers(plan[i]) :
       /\ node # Absent => CanCreate(plan[i])
       /\ tree' = IF node = Absent THEN tree ELSE WithNode(plan[i].path, node)
  /\ pc' = "failed"
  /\ UNCHANGED <<runVars, i, createdDirs, stats>>

(* Where the second pass starts: at the end of the plan. *)
LastEntry(n) == n

EntriesDone ==
  /\ pc = "entries"
  /\ i > Len(plan)
  /\ pc' = "finalize"
  /\ i' = LastEntry(Len(plan))
  /\ UNCHANGED <<tree, runVars, createdDirs, injector, stats, points, fault>>

(* Mutant: every planned directory is finalized. *)
AnyDirToFinalize(e) == e.kind = "dir"

(* Only directories created by this run get their metadata. *)
ToFinalize(e) == e.kind = "dir" /\ e.path \in createdDirs

AtFinalize == pc = "finalize" /\ i > 0

(* Mutant: the loop passes over files but waits on accepted directories. *)
FinalizeSkipFiles ==
  /\ AtFinalize
  /\ plan[i].kind # "dir"
  /\ i' = i - 1
  /\ UNCHANGED <<tree, runVars, pc, createdDirs, injector, stats, points, fault>>

FinalizeSkip ==
  /\ AtFinalize
  /\ ~ ToFinalize(plan[i])
  /\ i' = i - 1
  /\ UNCHANGED <<tree, runVars, pc, createdDirs, injector, stats, points, fault>>

FinalizeFault == AtFinalize /\ ToFinalize(plan[i]) /\ Faults(FinalizePoint)

FinalizeDir ==
  /\ AtFinalize
  /\ ToFinalize(plan[i])
  /\ Passes(FinalizePoint)
  /\ tree' = [tree EXCEPT ![plan[i].path].meta = AfterAllCalls(plan[i])]
  /\ i' = i - 1
  /\ stats' = [stats EXCEPT !.finalized = @ + 1]
  /\ UNCHANGED <<runVars, pc, createdDirs>>

FinalizeFails ==
  /\ AtFinalize
  /\ ToFinalize(plan[i])
  /\ Passes(FinalizePoint)
  /\ \E meta \in AfterFailedCall(plan[i]) :
       tree' = [tree EXCEPT ![plan[i].path].meta = meta]
  /\ pc' = "failed"
  /\ UNCHANGED <<runVars, i, createdDirs, stats>>

FinishRun ==
  /\ pc = "finalize"
  /\ i = 0
  /\ pc' = "ok"
  /\ UNCHANGED <<tree, runVars, i, createdDirs, injector, stats, points, fault>>

RunStep ==
  \/ ClearBase \/ ClearFails
  \/ EntryFault \/ InspectFails
  \/ EntryAccepted \/ EntryRefused \/ EntryCreated \/ EntryFails
  \/ EntriesDone
  \/ FinalizeSkip \/ FinalizeFault \/ FinalizeDir \/ FinalizeFails
  \/ FinishRun

Next ==
  \/ \E pl \in Plans, m \in Modes, rules \in Profiles : StartRun(pl, m, rules)
  \/ RunStep

(* A run is one sequential call: once started it keeps executing. *)
Spec == Init /\ [][Next]_vars /\ WF_vars(RunStep)

-----------------------------------------------------------------------------
(* Properties *)

(* The metadata an entry's node must carry in the end.  The permission     *)
(* bits of an entry with an ACL are those of the ACL.                      *)
PlannedMeta(e) ==
  LET asked == IF e.kind = "symlink" THEN e.attrs \cap {"owner", "times"}
               ELSE e.attrs \cup {"mode"}
  IN  asked \ ({"sbits", "unfit"} \cup IF "acl" \in asked THEN {"mode"} ELSE {})

Complete(e) ==
  tree[e.path].whole /\ tree[e.path].meta = PlannedMeta(e)

(***************************************************************************)
(* Applying a plan in order is enough: when an entry's turn comes, its     *)
(* directory is a real directory below the base path (never a symlink that *)
(* would lead the write outside, never missing) and the target of a hard   *)
(* link is a regular file, whatever was on disk and however earlier runs   *)
(* ended (plan.go, applyPlannedEntry).                                     *)
(***************************************************************************)
OrderSuffices == AtEntry => CanCreate(plan[i])

(***************************************************************************)
(* After a successful run every planned path exists with its kind, and     *)
(* whatever this run made is whole and carries exactly the planned         *)
(* metadata: in particular no later child creation has moved a             *)
(* directory's timestamps and no later call has overwritten an earlier one *)
(* (the two passes of applyRunPlan, the call order of applyMetadata).      *)
(***************************************************************************)
OkMeansComplete ==
  pc = "ok" =>
    \A k \in DOMAIN plan :
      /\ tree[plan[k].path].kind = NodeKind(plan[k])
      /\ (tree[plan[k].path].by = run /\ plan[k].kind # "hardlink")
           => Complete(plan[k])

(***************************************************************************)
(* Nothing old passes for new: a successful replace run leaves exactly its *)
(* plan on disk, all of it made by this run, even after failed runs and    *)
(* half-finished clears, and a strict run made every planned path itself,  *)
(* apart from a base directory that was already there (the run modes in    *)
(* applyRunPlan and applyPlannedEntry).                                    *)
(***************************************************************************)
FreshRunsExact ==
  /\ (pc = "ok" /\ mode = "replace") =>
       \A p \in Paths : /\ Exists(p) <=> p \in PathsOf(plan)
                        /\ Exists(p) => tree[p].by = run /\ tree[p].whole
  /\ (pc = "ok" /\ mode = "strict") =>
       \A k \in DOMAIN plan : plan[k].path # Base => tree[plan[k].path].by = run

(***************************************************************************)
(* AppliedEntries tells how far a run got: the entries it counts are in    *)
(* place, files and links among them finished, and nothing beyond the      *)
(* entry that failed was made (the fail-fast loop of applyRunPlan).        *)
(***************************************************************************)
AppliedPrefix ==
  \A k \in DOMAIN plan :
    /\ k <= stats.applied =>
         /\ tree[plan[k].path].kind = NodeKind(plan[k])
         /\ ( /\ tree[plan[k].path].by = run
              /\ plan[k].kind \notin {"dir", "hardlink"} ) => Complete(plan[k])
    /\ k > stats.applied + 1 => tree[plan[k].path].by # run

(***************************************************************************)
(* A run ends by an injected fault exactly at the first hook at which some *)
(* rule has its Nth match, and reports the first such rule of the profile; *)
(* as long as no rule has reached its Nth match no fault is injected       *)
(* (faultInjector.before, README "fail at Nth matching execution point").  *)
(***************************************************************************)
FaultsExact ==
  \A r \in DOMAIN profile :
    LET seen == Cardinality(Matches(profile[r], points))
    IN  /\ (validate(profile) /\ fault = 0) => seen < profile[r].nth
        /\ fault = r => seen = profile[r].nth /\ pc = "failed"
        /\ (fault # 0 /\ r < fault) => seen < profile[r].nth

(***************************************************************************)
(* Outside replace mode a run changes nothing it did not make itself: a    *)
(* node that was there before keeps its kind, inode, content and metadata; *)
(* only a directory that receives a new child loses its timestamps         *)
(* (created = false in applyPlannedEntry, createdDirs in applyRunPlan).    *)
(***************************************************************************)
OthersKept ==
  [][ (run' = run /\ mode # "replace") =>
        \A p \in Paths : (Exists(p) /\ tree[p].by # run) =>
          \E meta \in {tree[p].meta, tree[p].meta \ {"times"}} :
            tree'[p] = [tree[p] EXCEPT !.meta = meta] ]_vars

(* Every run that starts returns (applyRunPlan has no unbounded loop). *)
RunReturns ==
  (pc \in {"clear", "entries", "finalize"}) ~> (pc \in {"ok", "failed"})

(***************************************************************************)
(* Special mode bits are applied: README "special mode bits (setuid,       *)
(* setgid, sticky) through existing mode generators", the comments of      *)
(* applyPlannedEntry and TestRunAppliesSpecialModeBits.                    *)
(***************************************************************************)
SpecialBitsApplied ==
  pc = "ok" =>
    \A k \in DOMAIN plan :
      (tree[plan[k].path].by = run /\ "sbits" \in plan[k].attrs)
        => "sbits" \in tree[plan[k].path].meta

=============================================================================
