------------------------------ MODULE Planner ------------------------------
(***************************************************************************)
(* The planner (plan.go, planRun): it walks the tree to be made in         *)
(* preorder and emits one planned entry after the other, before anything   *)
(* is written to disk.                                                     *)
(*                                                                         *)
(* planDir is recursive; its activation records are the frames of `stack`. *)
(* Whatever a random generator returns is a choice from a constant set.    *)
(* A fresh name for an entry is found in at most                           *)
(* maxPlanPathCollisionRetries draws: the draws that collide are not       *)
(* counted, only if a fresh path was found or all draws collided.          *)
(* Planning metrics and the content of files are left out.                 *)
(***************************************************************************)
EXTENDS PlanEntries, FiniteSets

CONSTANTS
  EntryLimit,     \* Generator.planEntryLimit
  Depths,         \* what pathDepthGen may return
  DirCounts,      \* what nDirsInDirGen may return
  FileCounts,     \* what nFilesInDirGen may return
  StrategySets,   \* for each symlinkStrategyGen what it may return, {} for nil
  Hardlinks,      \* TRUE iff hardlinkProbGen is set
  SpecialSet,     \* what specialFileTypeGen may return, {} if it is nil
  DeviceNumbers,  \* TRUE iff the device number generators are set and never negative
  AttrSets        \* the metadata the generators may ask for

ASSUME PlannerAssumption ==
  /\ EntryLimit \in Nat
  /\ Depths \subseteq Nat
  /\ DirCounts \subseteq Nat
  /\ FileCounts \subseteq Nat
  /\ StrategySets \subseteq SUBSET Strategies
  /\ Hardlinks \in BOOLEAN
  /\ SpecialSet \subseteq SpecialKinds
  /\ DeviceNumbers \in BOOLEAN
  /\ AttrSets \subseteq SUBSET Attrs

VARIABLES
  strategies,    \* what Generator.symlinkStrategyGen may return, fixed
  stack,         \* activation records of planDir, the innermost first
  outcome,       \* "planning", "done", or why planRun returned an error
  entries,       \* runPlan.entries
  used,          \* planState.used
  lastPath,      \* planState.lastPath
  filePaths,     \* planState.filePaths, as a set
  symlinkPaths,  \* planState.symlinkPaths, as a set
  groupByPath,   \* planState.hardlinkGroupByPath: a group is named by its origin
  groups,        \* planState.hardlinkGroups: the paths of the group of an origin
  wanted         \* history: the number of files drawn for a directory

linkVars == <<strategies, groupByPath, groups>>
vars == <<stack, outcome, entries, used, lastPath, filePaths, symlinkPaths,
          linkVars, wanted>>

-----------------------------------------------------------------------------

(***************************************************************************)
(* A frame is in one of three places of planDir: before the depth check,   *)
(* in the loop over subdirectories or in the loop over files.              *)
(***************************************************************************)
Frame == [path : Paths, depth : Nat, at : {"enter", "dirs", "files"}, left : Nat]

Top == stack[1]

In(place) == outcome = "planning" /\ stack # <<>> /\ Top.at = place

Children(dir) == {p \in Paths \ {Base} : Dir[p] = dir}

(* The paths planUniquePathWithByte may return for an entry of dir. *)
Fresh(dir) == Children(dir) \ used

(* All draws may collide as soon as one name of dir is taken. *)
MayExhaust(dir) == Children(dir) \cap used # {}

(* Mutant: the limit is checked after the entry has been added. *)
RoomForOneTooMany(n) == Len(entries) + n <= EntryLimit + 1

(* planState.appendEntry accepts n more entries. *)
Room(n) == Len(entries) + n <= EntryLimit

(* planRun returns an error: nothing more is planned. *)
Fail(why) ==
  /\ outcome' = why
  /\ UNCHANGED <<stack, filePaths, symlinkPaths, lastPath, linkVars, wanted>>

Iterate == stack' = <<[Top EXCEPT !.left = @ - 1]>> \o Tail(stack)

Entry5(kind, path, target, attrs, via) ==
  [kind |-> kind, path |-> path, target |-> target, attrs |-> attrs, via |-> via]

Symlink(path, target, via) == Entry5("symlink", path, target, {}, via)

-----------------------------------------------------------------------------
(* Directories *)

Init ==
  /\ strategies \in StrategySets
  /\ stack = <<[path |-> Base, depth |-> 1, at |-> "enter", left |-> 0]>>
  /\ outcome = "planning"
  /\ entries = <<>>
  /\ used = {Base}
  /\ lastPath = NoPath
  /\ filePaths = {}
  /\ symlinkPaths = {}
  /\ groupByPath = [p \in Paths |-> NoPath]
  /\ groups = [p \in Paths |-> {}]
  /\ wanted = [p \in Paths |-> 0]

(* planDir returns to its caller. *)
Return ==
  /\ stack' = Tail(stack)
  /\ outcome' = IF Len(stack) = 1 THEN "done" ELSE "planning"

(* The depth check of planDir fails: the directory is not planned. *)
TooDeep ==
  /\ In("enter")
  /\ \E d \in Depths : Top.depth > d
  /\ Return
  /\ UNCHANGED <<entries, used, lastPath, filePaths, symlinkPaths, linkVars, wanted>>

(* The directory entry is appended and the number of subdirectories drawn. *)
EnterDir ==
  /\ In("enter")
  /\ \E d \in Depths : Top.depth <= d
  /\ Room(1)
  /\ \E attrs \in AttrSets, n \in DirCounts :
       /\ entries' = Append(entries, Entry5("dir", Top.path, NoPath, attrs, "none"))
       /\ stack' = <<[Top EXCEPT !.at = "dirs", !.left = n]>> \o Tail(stack)
  /\ UNCHANGED <<outcome, used, lastPath, filePaths, symlinkPaths, linkVars, wanted>>

(* The entry limit is reached, or a metadata generator fails. *)
EnterDirFails ==
  /\ In("enter")
  /\ \E d \in Depths : Top.depth <= d
  /\ \/ /\ ~ Room(1)
        /\ Fail("limit")
        /\ UNCHANGED entries
     \/ /\ Room(1)
        /\ entries' = Append(entries, Entry5("dir", Top.path, NoPath, {}, "none"))
        /\ Fail("generator")
  /\ UNCHANGED used

(* Mutant: the path of a subdirectory is not reserved. *)
PlanSubdirUnreserved ==
  /\ In("dirs")
  /\ Top.left > 0
  /\ \E p \in Fresh(Top.path) :
       stack' = <<[path |-> p, depth |-> Top.depth + 1, at |-> "enter", left |-> 0],
                  [Top EXCEPT !.left = @ - 1]>> \o Tail(stack)
  /\ UNCHANGED <<used, outcome, entries, lastPath, filePaths, symlinkPaths, linkVars, wanted>>

(* One iteration of the loop over subdirectories: the path is reserved     *)
(* before the recursive call decides if it becomes an entry.               *)
PlanSubdir ==
  /\ In("dirs")
  /\ Top.left > 0
  /\ \E p \in Fresh(Top.path) :
       /\ used' = used \cup {p}
       /\ stack' = <<[path |-> p, depth |-> Top.depth + 1, at |-> "enter", left |-> 0],
                     [Top EXCEPT !.left = @ - 1]>> \o Tail(stack)
  /\ UNCHANGED <<outcome, entries, lastPath, filePaths, symlinkPaths, linkVars, wanted>>

(* The number of files is drawn once all subdirectories are planned. *)
DirsDone ==
  /\ In("dirs")
  /\ Top.left = 0
  /\ \E n \in FileCounts :
       /\ stack' = <<[Top EXCEPT !.at = "files", !.left = n]>> \o Tail(stack)
       /\ wanted' = [wanted EXCEPT ![Top.path] = n]
  /\ UNCHANGED <<outcome, entries, used, lastPath, filePaths, symlinkPaths, linkVars>>

FilesDone ==
  /\ In("files")
  /\ Top.left = 0
  /\ Return
  /\ UNCHANGED <<entries, used, lastPath, filePaths, symlinkPaths, linkVars, wanted>>

-----------------------------------------------------------------------------
(* One iteration of the loop over files *)

AtFile == In("files") /\ Top.left > 0

(***************************************************************************)
(* What a new symlink may point to, by the way its target is chosen.       *)
(* Without a strategy generator the target is the last path planned.       *)
(***************************************************************************)
Targets(via) ==
  CASE via \in {"absolute", "relative"} -> filePaths
    [] via = "chained"                  -> symlinkPaths
    [] via = "last"                     -> {lastPath} \ {NoPath}

SymlinkForms ==
  IF strategies = {} THEN {"last"}
  ELSE strategies \cap {"absolute", "relative", "chained"}

AddSymlinks(paths) ==
  /\ symlinkPaths' = symlinkPaths \cup paths
  /\ Iterate
  /\ UNCHANGED <<outcome, lastPath, filePaths, linkVars, wanted>>

(* tryPlanSymlink with an existing target. *)
PlanSymlink ==
  /\ AtFile
  /\ Room(1)
  /\ \E via \in SymlinkForms : \E t \in Targets(via), p \in Fresh(Top.path) :
       /\ used' = used \cup {p}
       /\ entries' = Append(entries, Symlink(p, t, via))
       /\ AddSymlinks({p})

(* Mutant: the target of a dangling symlink is not reserved. *)
PlanDanglingUnreserved ==
  /\ AtFile
  /\ "dangling" \in strategies
  /\ Room(1)
  /\ \E t, p \in Fresh(Top.path) :
       /\ t # p
       /\ used' = used \cup {p}
       /\ entries' = Append(entries, Symlink(p, t, "dangling"))
       /\ AddSymlinks({p})

(* SymlinkStrategyDangling: the target is reserved and never planned. *)
PlanDangling ==
  /\ AtFile
  /\ "dangling" \in strategies
  /\ Room(1)
  /\ \E t, p \in Fresh(Top.path) :
       /\ t # p
       /\ used' = used \cup {t, p}
       /\ entries' = Append(entries, Symlink(p, t, "dangling"))
       /\ AddSymlinks({p})

(* SymlinkStrategySelfReferential *)
PlanSelfReferential ==
  /\ AtFile
  /\ "self" \in strategies
  /\ Room(1)
  /\ \E p \in Fresh(Top.path) :
       /\ used' = used \cup {p}
       /\ entries' = Append(entries, Symlink(p, p, "self"))
       /\ AddSymlinks({p})

(* Mutant: both links of a cycle point to the first path. *)
CyclePair(p, q) == <<Symlink(p, p, "cycle"), Symlink(q, p, "cycle")>>

(* planSymlinkCycle links each path of the cycle to the next one. *)
Cycle(p, q) == <<Symlink(p, q, "cycle"), Symlink(q, p, "cycle")>>

PlanCycle ==
  /\ AtFile
  /\ "cycle" \in strategies
  /\ Room(2)
  /\ \E p, q \in Fresh(Top.path) :
       /\ p # q
       /\ used' = used \cup {p, q}
       /\ entries' = entries \o Cycle(p, q)
       /\ AddSymlinks({p, q})

(* The limit cuts a cycle between its two links. *)
PlanHalfCycle ==
  /\ AtFile
  /\ "cycle" \in strategies
  /\ Room(1) /\ ~ Room(2)
  /\ \E p, q \in Fresh(Top.path) :
       /\ p # q
       /\ used' = used \cup {p, q}
       /\ entries' = Append(entries, Symlink(p, q, "cycle"))
  /\ Fail("limit")

(* Mutant: a link to a link starts a group of its own. *)
GroupOfTarget(target) == target

(* registerHardlink: the group the target belongs to, or a new one. *)
GroupOrigin(target) ==
  IF groupByPath[target] = NoPath THEN target ELSE groupByPath[target]

PlanHardlink ==
  /\ AtFile
  /\ Hardlinks
  /\ Room(1)
  /\ \E t \in filePaths, p \in Fresh(Top.path) :
       LET o == GroupOrigin(t) IN
       /\ used' = used \cup {p}
       /\ entries' = Append(entries, Entry5("hardlink", p, t, {}, "none"))
       /\ filePaths' = filePaths \cup {p}
       /\ lastPath' = p
       /\ groupByPath' = [groupByPath EXCEPT ![t] = o, ![p] = o]
       /\ groups' = [groups EXCEPT ![o] = @ \cup {t, p}]
  /\ Iterate
  /\ UNCHANGED <<strategies, outcome, symlinkPaths, wanted>>

PlanSpecial ==
  /\ AtFile
  /\ Room(1)
  /\ \E kind \in SpecialSet, p \in Fresh(Top.path) :
       /\ kind \in {"char", "block"} => DeviceNumbers
       /\ used' = used \cup {p}
       /\ entries' = Append(entries, Entry5(kind, p, NoPath, {"mode"}, "none"))
       /\ lastPath' = p
  /\ Iterate
  /\ UNCHANGED <<outcome, filePaths, symlinkPaths, linkVars, wanted>>

(* A device is drawn without usable numbers for it. *)
PlanDeviceFails ==
  /\ AtFile
  /\ SpecialSet \cap {"char", "block"} # {} /\ ~ DeviceNumbers
  /\ \E p \in Fresh(Top.path) : used' = used \cup {p}
  /\ Fail("device")
  /\ UNCHANGED entries

(* planFile *)
PlanFile ==
  /\ AtFile
  /\ Room(1)
  /\ \E p \in Fresh(Top.path), attrs \in AttrSets :
       /\ used' = used \cup {p}
       /\ entries' = Append(entries, Entry5("file", p, NoPath, attrs, "none"))
       /\ filePaths' = filePaths \cup {p}
       /\ lastPath' = p
  /\ Iterate
  /\ UNCHANGED <<outcome, symlinkPaths, linkVars, wanted>>

(* planFile adds a relative symlink to the file it has just planned. *)
PlanFileWithLink ==
  /\ AtFile
  /\ strategies = {}
  /\ Room(2)
  /\ \E p, s \in Fresh(Top.path), attrs \in AttrSets :
       /\ p # s
       /\ used' = used \cup {p, s}
       /\ entries' = entries \o <<Entry5("file", p, NoPath, attrs, "none"),
                                  Symlink(s, p, "beside")>>
       /\ filePaths' = filePaths \cup {p}
       /\ symlinkPaths' = symlinkPaths \cup {s}
       /\ lastPath' = p
  /\ Iterate
  /\ UNCHANGED <<outcome, linkVars, wanted>>

(* The file is planned, but its symlink finds no room or no fresh name. *)
PlanFileLinkFails ==
  /\ AtFile
  /\ strategies = {}
  /\ Room(1)
  /\ \E p, s \in Fresh(Top.path), attrs \in AttrSets :
       /\ \/ p # s /\ ~ Room(2) /\ outcome' = "limit"
          \/ p = s /\ outcome' = "collision"
       /\ used' = used \cup {p, s}
       /\ entries' = Append(entries, Entry5("file", p, NoPath, attrs, "none"))
       /\ filePaths' = filePaths \cup {p}
       /\ lastPath' = p
  /\ UNCHANGED <<stack, symlinkPaths, linkVars, wanted>>

(* A data or metadata generator fails after the file's path is reserved. *)
PlanFileFails ==
  /\ AtFile
  /\ \E p \in Fresh(Top.path) : used' = used \cup {p}
  /\ Fail("generator")
  /\ UNCHANGED entries

(* Strategies that reserve a second path before they append an entry. *)
TwoPaths == strategies \cap {"dangling", "cycle"} # {}

(* The limit refuses an entry whose path or paths are already reserved. *)
LimitReached ==
  /\ AtFile
  /\ ~ Room(1)
  /\ \E p, q \in Fresh(Top.path) :
       /\ p # q => TwoPaths
       /\ used' = used \cup {p, q}
  /\ Fail("limit")
  /\ UNCHANGED entries

(* The first path is reserved and every draw for the second one collides. *)
SecondNameExhausted ==
  /\ AtFile
  /\ TwoPaths
  /\ \E p \in Fresh(Top.path) : used' = used \cup {p}
  /\ Fail("collision")
  /\ UNCHANGED entries

(* Mutant: an entry without a fresh name is dropped and planning goes on. *)
DropEntry ==
  /\ outcome = "planning" /\ stack # <<>>
  /\ Top.at \in {"dirs", "files"} /\ Top.left > 0
  /\ MayExhaust(Top.path)
  /\ Iterate
  /\ UNCHANGED <<outcome, entries, used, lastPath, filePaths, symlinkPaths, linkVars, wanted>>

(* Every draw of a name collided: ErrPlanPathCollisionExhausted. *)
NamesExhausted ==
  /\ outcome = "planning" /\ stack # <<>>
  /\ Top.at \in {"dirs", "files"} /\ Top.left > 0
  /\ MayExhaust(Top.path)
  /\ Fail("collision")
  /\ UNCHANGED <<entries, used>>

Next ==
  \/ TooDeep \/ EnterDir \/ EnterDirFails
  \/ PlanSubdir \/ DirsDone \/ FilesDone
  \/ PlanSymlink \/ PlanDangling \/ PlanSelfReferential
  \/ PlanCycle \/ PlanHalfCycle
  \/ PlanHardlink \/ PlanSpecial \/ PlanDeviceFails
  \/ PlanFile \/ PlanFileWithLink \/ PlanFileLinkFails \/ PlanFileFails
  \/ LimitReached \/ SecondNameExhausted \/ NamesExhausted

Spec == Init /\ [][Next]_vars

-----------------------------------------------------------------------------
(* Properties *)

Outcomes == {"planning", "done", "limit", "collision", "generator", "device"}

(* Every variable of the planner has its type; in particular no frame of   *)
(* planDir ever counts below zero entries left.                            *)
TypeOK ==
  /\ strategies \in SUBSET Strategies
  /\ stack \in Seq(Frame)
  /\ outcome \in Outcomes
  /\ entries \in Seq(Entry)
  /\ used \in SUBSET Paths
  /\ lastPath \in Paths \cup {NoPath}
  /\ filePaths \in SUBSET Paths
  /\ symlinkPaths \in SUBSET Paths
  /\ groupByPath \in [Paths -> Paths \cup {NoPath}]
  /\ groups \in [Paths -> SUBSET Paths]
  /\ wanted \in [Paths -> Nat]

(***************************************************************************)
(* At every moment of planning the entries so far can be applied in order: *)
(* the base path comes first, no path is planned twice, directories come   *)
(* before what they hold and hard links after what they name.  This is     *)
(* what the apply pipeline relies on (plan.go, planDir and its helpers).   *)
(***************************************************************************)
PlanWellFormed == WellFormedPlan(entries)

(***************************************************************************)
(* The plan never outgrows the entry limit, and ErrPlanEntryLimitExceeded  *)
(* is returned only by a plan that fills it (appendEntry).                 *)
(***************************************************************************)
LimitExact ==
  /\ Len(entries) <= EntryLimit
  /\ outcome = "limit" => Len(entries) = EntryLimit

(***************************************************************************)
(* The target of a dangling symlink is never planned, neither before nor   *)
(* after the link: the link dangles in a tree made from the plan           *)
(* (SymlinkStrategyDangling in planSymlinkStrategy).                       *)
(***************************************************************************)
DanglingStays ==
  \A k \in DOMAIN entries :
    entries[k].via = "dangling" => entries[k].target \notin PathsOf(entries)

Regular == {"file", "hardlink"}

(* The link at k of the plan pl has the goal its strategy says. *)
Resolves(pl, k) ==
  \E j \in DOMAIN pl :
    LET link == pl[k]
        goal == pl[j]
    IN  /\ goal.path = link.target
        /\ CASE link.via \in {"absolute", "relative", "beside"} ->
                   j < k /\ goal.kind \in Regular
             [] link.via = "chained" -> j < k /\ goal.kind = "symlink"
             [] link.via = "last" ->
                   j < k /\ goal.kind \in Regular \cup SpecialKinds
             [] link.via = "self" -> j = k
             [] link.via = "cycle" -> j # k /\ goal.target = link.path

(***************************************************************************)
(* In a finished plan every other symlink resolves as its strategy says:   *)
(* to a regular file planned before it, to a symlink planned before it, to *)
(* the last file, link or special file planned, to itself, or to the other *)
(* link of a closed cycle (planSymlinkStrategy, planSymlinkCycle,          *)
(* planFile).                                                              *)
(***************************************************************************)
SymlinksResolve ==
  outcome = "done" =>
    \A k \in DOMAIN entries :
      entries[k].kind = "symlink" /\ entries[k].via # "dangling" => Resolves(entries, k)

(* What the plan pl holds in the directory p, other than directories. *)
Held(pl, p) == {k \in DOMAIN pl : pl[k].kind # "dir" /\ Dir[pl[k].path] = p}

(***************************************************************************)
(* A plan that is returned without error never under-generates: every      *)
(* directory holds at least as many non-directory entries as were drawn    *)
(* for it (README: ErrPlanPathCollisionExhausted "instead of silently      *)
(* under-generating").                                                     *)
(***************************************************************************)
NeverUnderGenerates ==
  outcome = "done" => \A p \in Paths : wanted[p] <= Cardinality(Held(entries, p))

=============================================================================
