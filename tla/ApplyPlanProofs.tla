-------------------------- MODULE ApplyPlanProofs --------------------------
(***************************************************************************)
(* Proofs about ApplyPlan, for every set of paths, every well-formed plan, *)
(* every fault profile, every tree found at the start and any history of   *)
(* runs.                                                                   *)
(*                                                                         *)
(* The argument is a loop invariant, ApplyInv.  The first loop of          *)
(* applyRunPlan has put a prefix of the plan in place (PrefixInPlace) and  *)
(* made nothing behind it (MakersKnown); because the plan is well-formed,  *)
(* the directory of the next entry and the target of a hard link are in    *)
(* that prefix.  A new child takes the timestamps of its directory, so     *)
(* directories have their metadata only behind the second loop, which runs *)
(* backwards (SuffixFinalized).  In replace mode the prefix is all there   *)
(* is (OnlyPrefixExists).  The fault injector's counters are shown to be   *)
(* the numbers of matching hooks passed (FaultInv).                        *)
(***************************************************************************)
EXTENDS ApplyPlan, FiniteSetTheorems, NaturalsInduction, WellFoundedInduction, TLAPS

States == {"idle", "clear", "entries", "finalize", "ok", "failed"}

TypeOK ==
  /\ tree \in [Paths -> Node]
  /\ run \in 0 .. MaxRuns
  /\ WellFormedPlan(plan)
  /\ mode \in {"append", "strict", "replace"}
  /\ pc \in States
  /\ i \in Nat
  /\ createdDirs \subseteq Paths
  /\ stats \in [applied : Nat, finalized : Nat]

(* Where the two loops are, and what the counter of the first says. *)
LoopsCounted ==
  /\ stats.applied <= Len(plan)
  /\ pc = "clear" => mode = "replace" /\ i = 1 /\ stats.applied = 0
  /\ pc = "entries" => i = stats.applied + 1
  /\ pc = "finalize" => i <= Len(plan) /\ stats.applied = Len(plan)
  /\ pc = "ok" => i = 0 /\ stats.applied = Len(plan)

(* No node claims a later run; none is ascribed to this run too early. *)
MakersKnown ==
  /\ pc # "idle" => run > 0
  /\ \A p \in Paths : tree[p].by <= run
  /\ \A k \in DOMAIN plan : k > stats.applied + 1 => tree[plan[k].path].by # run
  /\ pc \in {"clear", "entries"} =>
       \A k \in DOMAIN plan : k > stats.applied => tree[plan[k].path].by # run

(* The entries the first loop has passed are in place. *)
InPlace(k) ==
  LET node == tree[plan[k].path]
  IN  /\ node.kind = NodeKind(plan[k])
      /\ (node.by = run /\ plan[k].kind = "dir") =>
           node.whole /\ plan[k].path \in createdDirs
      /\ (node.by = run /\ plan[k].kind \notin {"dir", "hardlink"}) => Complete(plan[k])
      /\ (mode = "strict" /\ plan[k].path # Base) => node.by = run

PrefixInPlace == \A k \in 1 .. stats.applied : InPlace(k)

(* createdDirs holds directories of this run. *)
CreatedAreOurs ==
  /\ \A p \in createdDirs : tree[p].by = run /\ tree[p].kind = "dir"
  /\ pc = "clear" => createdDirs = {}

(* The second loop has finished the directories behind it. *)
SuffixFinalized ==
  pc \in {"finalize", "ok"} =>
    \A k \in DOMAIN plan :
      (k > i /\ plan[k].kind = "dir" /\ plan[k].path \in createdDirs) =>
        tree[plan[k].path].meta = PlannedMeta(plan[k])

(* After the clear of replace mode only the planned prefix exists. *)
OnlyPrefixExists ==
  (mode = "replace" /\ pc \in {"entries", "finalize", "ok"}) =>
    \A p \in Paths :
      /\ Exists(p) <=> \E k \in 1 .. stats.applied : plan[k].path = p
      /\ Exists(p) => tree[p].by = run /\ tree[p].whole

ApplyInv ==
  /\ TypeOK
  /\ LoopsCounted
  /\ MakersKnown
  /\ PrefixInPlace
  /\ CreatedAreOurs
  /\ SuffixFinalized
  /\ OnlyPrefixExists

-----------------------------------------------------------------------------

(* The metadata calls, made in their order, leave what was planned. *)
LEMMA CallsLeavePlanned ==
  ASSUME NEW e \in Entry
  PROVE  /\ AfterAllCalls(e) = PlannedMeta(e)
         /\ PlannedMeta(e) \subseteq Attrs
<1>1. e.attrs \subseteq Attrs
  BY DEF Entry
<1> DEFINE C == MetadataCalls(e)
<1>2. C \subseteq {"owner", "mode", "times", "xattrs", "acl"}
  BY <1>1 DEF MetadataCalls, Attrs
<1>3. AfterAllCalls(e) = IF "acl" \in C THEN C \ {"mode"} ELSE C
  <2> HIDE DEF C
  <2>1. /\ Len(CallOrder) = 5
        /\ CallOrder[1] = "owner" /\ CallOrder[2] = "mode" /\ CallOrder[3] = "times"
        /\ CallOrder[4] = "xattrs" /\ CallOrder[5] = "acl"
    BY DEF CallOrder
  <2> QED BY <1>2, <2>1 DEF AfterAllCalls, AfterCalls, Clobbers, C
<1> QED BY <1>1, <1>3 DEF PlannedMeta, MetadataCalls, Attrs

(* What the plan of a run is known to be. *)
LEMMA PlanFacts ==
  ASSUME TypeOK
  PROVE  /\ plan \in Seq(Entry) /\ Len(plan) \in Nat /\ DOMAIN plan = 1 .. Len(plan)
         /\ \A k \in DOMAIN plan :
              /\ plan[k] \in Entry
              /\ plan[k].path \in Paths
              /\ plan[k].kind \in EntryKinds
              /\ NodeKind(plan[k]) \in NodeKinds \ {"none"}
         /\ \A j, k \in DOMAIN plan : plan[j].path = plan[k].path => j = k
<1>1. plan \in Seq(Entry)
  BY DEF TypeOK, WellFormedPlan
<1>2. \A k \in DOMAIN plan : plan[k] \in Entry
  BY <1>1
<1>3. \A k \in DOMAIN plan : NodeKind(plan[k]) \in NodeKinds \ {"none"}
  BY <1>2 DEF Entry, EntryKinds, NodeKind, NodeKinds, SpecialKinds
<1> QED BY <1>1, <1>2, <1>3 DEF TypeOK, WellFormedPlan, PathsDistinct, Entry

(* Nodes of the tree and what a new directory entry does to the others. *)
LEMMA WithNodeFacts ==
  ASSUME tree \in [Paths -> Node], NEW p \in Paths, NEW node \in Node
  PROVE  /\ WithNode(p, node) \in [Paths -> Node]
         /\ WithNode(p, node)[p] = node
         /\ \A q \in Paths : q # p =>
              /\ WithNode(p, node)[q].kind = tree[q].kind
              /\ WithNode(p, node)[q].by = tree[q].by
              /\ WithNode(p, node)[q].ino = tree[q].ino
              /\ WithNode(p, node)[q].whole = tree[q].whole
              /\ (p = Base \/ q # Dir[p]) => WithNode(p, node)[q] = tree[q]
<1>1. \A q \in Paths :
        /\ tree[q] \in Node
        /\ [tree[q] EXCEPT !.meta = tree[q].meta \ {"times"}] \in Node
        /\ tree[q] = [tree[q] EXCEPT !.meta = tree[q].meta]
  BY DEF Node
<1> QED BY <1>1 DEF WithNode, Node

(***************************************************************************)
(* The order of the plan suffices: what an entry needs was planned before  *)
(* it, so it is in place.                                                  *)
(***************************************************************************)
LEMMA OrderHolds ==
  ASSUME ApplyInv
  PROVE  OrderSuffices
<1> SUFFICES ASSUME AtEntry PROVE CanCreate(plan[i])
  BY DEF OrderSuffices
<1>1. TypeOK /\ i \in DOMAIN plan /\ stats.applied = i - 1 /\ i \in Nat /\ i > 0
  BY PlanFacts DEF ApplyInv, TypeOK, LoopsCounted, AtEntry
<1>2. ASSUME plan[i].path # Base
      PROVE  tree[Dir[plan[i].path]].kind = "dir"
  <2>1. PICK k \in 1 .. (i - 1) : plan[k].kind = "dir" /\ plan[k].path = Dir[plan[i].path]
    BY <1>1, <1>2 DEF TypeOK, WellFormedPlan, ParentsFirst
  <2> QED BY <1>1, <2>1 DEF ApplyInv, PrefixInPlace, InPlace, NodeKind
<1>3. ASSUME plan[i].kind = "hardlink"
      PROVE  tree[plan[i].target].kind = "file"
  <2>1. PICK k \in 1 .. (i - 1) :
               plan[k].kind \in {"file", "hardlink"} /\ plan[k].path = plan[i].target
    BY <1>1, <1>3 DEF TypeOK, WellFormedPlan, LinksBackward
  <2> QED BY <1>1, <2>1 DEF ApplyInv, PrefixInPlace, InPlace, NodeKind
<1> QED BY <1>2, <1>3 DEF CanCreate

(* The invariant holds before the first run. *)
LEMMA ApplyInvInit == Init => ApplyInv
<1> SUFFICES ASSUME Init PROVE ApplyInv
  OBVIOUS
<1>1. /\ tree \in [Paths -> Node] /\ \A p \in Paths : tree[p].by = 0
      /\ run = 0 /\ plan = <<>> /\ mode = "append" /\ pc = "idle" /\ i = 0
      /\ createdDirs = {} /\ stats = [applied |-> 0, finalized |-> 0]
  BY RunAssumption DEF Init
<1>2. WellFormedPlan(plan)
  BY <1>1 DEF WellFormedPlan, RootFirst, PathsDistinct, ParentsFirst, LinksBackward
<1>3. TypeOK
  BY <1>1, <1>2, RunAssumption DEF TypeOK, States
<1> QED
  BY <1>1, <1>3 DEF ApplyInv, LoopsCounted, MakersKnown, PrefixInPlace,
                    CreatedAreOurs, SuffixFinalized, OnlyPrefixExists

(* A run may start in any mode with any well-formed plan. *)
LEMMA StartKeepsInv ==
  ASSUME ApplyInv, NEW pl, NEW m \in {"append", "strict", "replace"}, NEW rules,
         WellFormedPlan(pl), StartRun(pl, m, rules)
  PROVE  ApplyInv'
<1>1. /\ tree \in [Paths -> Node] /\ tree' = tree
      /\ \A p \in Paths : tree[p].by <= run /\ tree[p].by \in Nat
      /\ run \in Nat /\ run' = run + 1 /\ run' \in 0 .. MaxRuns
      /\ plan' = pl /\ mode' = m /\ i' = 1 /\ createdDirs' = {}
      /\ stats' = [applied |-> 0, finalized |-> 0]
      /\ pc' \in {"failed", "clear", "entries"}
      /\ pc' = "clear" => m = "replace"
      /\ pc' = "entries" => m # "replace"
  BY RunAssumption DEF ApplyInv, TypeOK, MakersKnown, StartRun, Node
<1>2. /\ pl \in Seq(Entry) /\ Len(pl) \in Nat
      /\ \A k \in DOMAIN pl : pl[k].path \in Paths
  <2>1. pl \in Seq(Entry)
    BY DEF WellFormedPlan
  <2>2. \A k \in DOMAIN pl : pl[k] \in Entry
    BY <2>1
  <2> QED BY <2>1, <2>2 DEF Entry
<1>3. TypeOK'
  BY <1>1 DEF TypeOK, States
<1>4. MakersKnown'
  BY <1>1, <1>2 DEF MakersKnown
<1> QED
  BY <1>1, <1>2, <1>3, <1>4 DEF ApplyInv, LoopsCounted, PrefixInPlace,
                    CreatedAreOurs, SuffixFinalized, OnlyPrefixExists

(* os.RemoveAll, whole or in part. *)
LEMMA ClearKeepsInv ==
  ASSUME ApplyInv, ClearBase \/ ClearFails
  PROVE  ApplyInv'
<1>1. /\ pc = "clear" /\ tree \in [Paths -> Node] /\ run \in 0 .. MaxRuns
      /\ run > 0 /\ mode = "replace" /\ stats.applied = 0 /\ createdDirs = {} /\ i = 1
      /\ UNCHANGED <<runVars, i, createdDirs, injector, stats, points, fault>>
      /\ pc' \in {"entries", "failed"}
  BY DEF ApplyInv, TypeOK, LoopsCounted, MakersKnown, CreatedAreOurs,
         ClearBase, ClearFails
<1>2. /\ tree' \in [Paths -> Node]
      /\ \A p \in Paths : \/ tree'[p] = Absent
                          \/ tree'[p].by = tree[p].by
      /\ pc' = "entries" => \A p \in Paths : tree'[p] = Absent
  <2>1. Absent \in Node
    BY PathAssumption, RunAssumption DEF Absent, Node, NodeKinds
  <2>2. CASE ClearBase
    BY <2>1, <2>2 DEF ClearBase
  <2>3. CASE ClearFails
    <3>1. \A p \in Paths : /\ tree[p] \in Node
                          /\ [tree[p] EXCEPT !.meta = tree[p].meta \ {"times"}] \in Node
                          /\ [tree[p] EXCEPT !.meta = tree[p].meta \ {"times"}].by = tree[p].by
      BY <1>1 DEF Node
    <3> QED BY <2>1, <2>3, <3>1 DEF ClearFails
  <2> QED BY <2>2, <2>3
<1>3. \A p \in Paths : tree'[p].by <= run /\ (tree[p].by # run => tree'[p].by # run)
  BY <1>1, <1>2 DEF ApplyInv, MakersKnown, Absent
<1>4. TypeOK'
  BY <1>1, <1>2 DEF ApplyInv, TypeOK, States, runVars
<1>5. MakersKnown'
  BY <1>1, <1>3, PlanFacts DEF ApplyInv, MakersKnown, runVars
<1>6. LoopsCounted' /\ PrefixInPlace' /\ CreatedAreOurs' /\ SuffixFinalized'
  BY <1>1 DEF ApplyInv, TypeOK, LoopsCounted, PrefixInPlace, CreatedAreOurs,
              SuffixFinalized, runVars
<1>7. OnlyPrefixExists'
  BY <1>1, <1>2 DEF OnlyPrefixExists, Exists, Absent, runVars
<1> QED BY <1>4, <1>5, <1>6, <1>7 DEF ApplyInv

(* A run that stops without another change of the tree. *)
LEMMA StopKeepsInv ==
  ASSUME ApplyInv, pc' = "failed", pc # "idle",
         UNCHANGED <<tree, runVars, i, createdDirs, stats>>
  PROVE  ApplyInv'
<1>1. TypeOK'
  BY DEF ApplyInv, TypeOK, States, runVars
<1>2. LoopsCounted' /\ MakersKnown' /\ CreatedAreOurs'
  BY DEF ApplyInv, LoopsCounted, MakersKnown, CreatedAreOurs, runVars
<1>3. PrefixInPlace'
  BY DEF ApplyInv, PrefixInPlace, InPlace, Complete, runVars
<1>4. SuffixFinalized' /\ OnlyPrefixExists'
  BY DEF SuffixFinalized, OnlyPrefixExists
<1> QED BY <1>1, <1>2, <1>3, <1>4 DEF ApplyInv

(* What is known when the first loop is at an entry. *)
LEMMA AtEntryFacts ==
  ASSUME ApplyInv, AtEntry
  PROVE  /\ pc = "entries" /\ i \in Nat /\ i > 0 /\ i \in DOMAIN plan
         /\ stats.applied = i - 1 /\ stats \in [applied : Nat, finalized : Nat]
         /\ plan[i] \in Entry /\ plan[i].path \in Paths
         /\ tree \in [Paths -> Node] /\ run \in 1 .. MaxRuns
         /\ tree[plan[i].path].by # run
         /\ \A k \in DOMAIN plan : k # i => plan[k].path # plan[i].path
<1>1. /\ pc = "entries" /\ i \in Nat /\ i > 0 /\ i \in DOMAIN plan
      /\ stats.applied = i - 1 /\ stats \in [applied : Nat, finalized : Nat]
  BY PlanFacts DEF ApplyInv, TypeOK, LoopsCounted, AtEntry
<1>2. run \in 1 .. MaxRuns /\ tree[plan[i].path].by # run
  BY <1>1 DEF ApplyInv, TypeOK, MakersKnown
<1> QED BY <1>1, <1>2, PlanFacts DEF ApplyInv, TypeOK

(* A path accepted as it is was there before this run, and is in place. *)
LEMMA AcceptedKeepsInv ==
  ASSUME ApplyInv, EntryAccepted
  PROVE  ApplyInv'
<1>1. AtEntry /\ Exists(plan[i].path) /\ Accepts(plan[i])
  BY DEF EntryAccepted
<1>2. /\ i' = i + 1 /\ stats' = [stats EXCEPT !.applied = @ + 1]
      /\ UNCHANGED <<tree, runVars, pc, createdDirs>>
  BY DEF EntryAccepted
<1>3. /\ pc = "entries" /\ i \in Nat /\ i > 0 /\ i \in DOMAIN plan
      /\ stats.applied = i - 1 /\ stats'.applied = i
      /\ stats' \in [applied : Nat, finalized : Nat]
      /\ plan[i].path \in Paths /\ tree[plan[i].path].by # run
      /\ \A k \in DOMAIN plan : k # i => plan[k].path # plan[i].path
      /\ Len(plan) \in Nat /\ DOMAIN plan = 1 .. Len(plan)
  BY <1>1, <1>2, AtEntryFacts, PlanFacts DEF ApplyInv
<1>4. TypeOK' /\ LoopsCounted'
  BY <1>2, <1>3 DEF ApplyInv, TypeOK, LoopsCounted, runVars
<1>5. MakersKnown' /\ CreatedAreOurs' /\ SuffixFinalized'
  BY <1>2, <1>3 DEF ApplyInv, MakersKnown, CreatedAreOurs, SuffixFinalized, runVars
<1>6. InPlace(i)
  BY <1>1, <1>3 DEF InPlace, Accepts, NodeKind
<1>7. PrefixInPlace'
  BY <1>2, <1>3, <1>6 DEF ApplyInv, PrefixInPlace, InPlace, Complete, runVars
<1>8. mode # "replace"
  BY <1>1, <1>3 DEF ApplyInv, OnlyPrefixExists
<1>9. OnlyPrefixExists'
  BY <1>2, <1>8 DEF OnlyPrefixExists, runVars
<1> QED BY <1>4, <1>5, <1>7, <1>9 DEF ApplyInv

(* Between the two loops nothing changes but the index. *)
LEMMA EntriesDoneKeepsInv ==
  ASSUME ApplyInv, EntriesDone
  PROVE  ApplyInv'
<1>1. /\ pc = "entries" /\ pc' = "finalize" /\ i' = Len(plan)
      /\ i > Len(plan) /\ i \in Nat /\ Len(plan) \in Nat /\ DOMAIN plan = 1 .. Len(plan)
      /\ stats.applied = Len(plan)
      /\ UNCHANGED <<tree, runVars, createdDirs, stats>>
  BY PlanFacts DEF ApplyInv, TypeOK, LoopsCounted, EntriesDone, LastEntry
<1>2. TypeOK' /\ LoopsCounted'
  BY <1>1 DEF ApplyInv, TypeOK, LoopsCounted, States, runVars
<1>3. MakersKnown' /\ CreatedAreOurs' /\ SuffixFinalized'
  BY <1>1 DEF ApplyInv, MakersKnown, CreatedAreOurs, SuffixFinalized, runVars
<1>4. PrefixInPlace'
  BY <1>1 DEF ApplyInv, PrefixInPlace, InPlace, Complete, runVars
<1>5. OnlyPrefixExists'
  BY <1>1 DEF ApplyInv, OnlyPrefixExists, Exists, runVars
<1> QED BY <1>2, <1>3, <1>4, <1>5 DEF ApplyInv

(* The second loop passes over an entry, or ends. *)
LEMMA SkipKeepsInv ==
  ASSUME ApplyInv, FinalizeSkip \/ FinishRun
  PROVE  ApplyInv'
<1>1. /\ pc = "finalize" /\ pc' \in {"finalize", "ok"} /\ i \in Nat /\ i <= Len(plan)
      /\ i' \in Nat /\ i' <= i
      /\ \A k \in DOMAIN plan : k > i' => k > i \/ ~ ToFinalize(plan[k])
      /\ pc' = "ok" => i' = 0
      /\ stats.applied = Len(plan) /\ Len(plan) \in Nat /\ DOMAIN plan = 1 .. Len(plan)
      /\ UNCHANGED <<tree, runVars, createdDirs, stats>>
  BY PlanFacts DEF ApplyInv, TypeOK, LoopsCounted, FinalizeSkip, FinishRun, AtFinalize
<1>2. TypeOK' /\ LoopsCounted'
  BY <1>1 DEF ApplyInv, TypeOK, LoopsCounted, States, runVars
<1>3. MakersKnown' /\ CreatedAreOurs'
  BY <1>1 DEF ApplyInv, MakersKnown, CreatedAreOurs, runVars
<1>4. SuffixFinalized'
  BY <1>1 DEF ApplyInv, SuffixFinalized, ToFinalize, runVars
<1>5. PrefixInPlace'
  BY <1>1 DEF ApplyInv, PrefixInPlace, InPlace, Complete, runVars
<1>6. OnlyPrefixExists'
  BY <1>1 DEF ApplyInv, OnlyPrefixExists, Exists, runVars
<1> QED BY <1>2, <1>3, <1>4, <1>5, <1>6 DEF ApplyInv

(* The nodes a creation leaves, finished or not. *)
LEMMA CreatedFacts ==
  ASSUME ApplyInv, AtEntry
  PROVE  /\ Created(plan[i]) \in Node
         /\ Created(plan[i]).by = run
         /\ CanCreate(plan[i]) => Created(plan[i]).kind = NodeKind(plan[i])
         /\ plan[i].kind = "dir" => Created(plan[i]).whole
         /\ plan[i].kind \notin {"dir", "hardlink"} =>
              Created(plan[i]).whole /\ Created(plan[i]).meta = PlannedMeta(plan[i])
         /\ plan[i].kind = "hardlink" =>
              /\ plan[i].target \in Paths
              /\ Created(plan[i]).whole = tree[plan[i].target].whole
         /\ \A node \in Leftovers(plan[i]) : node = Absent \/ (node \in Node /\ node.by = run)
<1>1. /\ plan[i] \in Entry /\ plan[i].path \in Paths /\ i \in DOMAIN plan
      /\ tree \in [Paths -> Node] /\ run \in 1 .. MaxRuns
      /\ NodeKind(plan[i]) \in NodeKinds /\ Len(plan) \in Nat /\ DOMAIN plan = 1 .. Len(plan)
      /\ \A k \in DOMAIN plan : plan[k].path \in Paths
  BY AtEntryFacts, PlanFacts DEF ApplyInv
<1>2. ASSUME NEW meta \in SUBSET Attrs
      PROVE  /\ Made(plan[i], TRUE, meta) \in Node
             /\ Made(plan[i], TRUE, meta).by = run
             /\ Made(plan[i], TRUE, meta).kind = NodeKind(plan[i])
             /\ Made(plan[i], TRUE, meta).whole
             /\ Made(plan[i], TRUE, meta).meta = meta
  BY <1>1 DEF Made, Node
<1>3. /\ Made(plan[i], TRUE, {}) \in Node
      /\ Made(plan[i], TRUE, {}).by = run
      /\ Made(plan[i], TRUE, {}).kind = NodeKind(plan[i])
      /\ Made(plan[i], TRUE, {}).whole
      /\ Made(plan[i], FALSE, {}) \in Node
      /\ Made(plan[i], FALSE, {}).by = run
  BY <1>1 DEF Made, Node
<1>4. AfterAllCalls(plan[i]) = PlannedMeta(plan[i]) /\ PlannedMeta(plan[i]) \in SUBSET Attrs
  BY <1>1, CallsLeavePlanned
<1>5. \A meta \in AfterFailedCall(plan[i]) : meta \in SUBSET Attrs
  <2>1. \A k \in DOMAIN CallOrder : CallOrder[k] \in Attrs
    BY DEF CallOrder, Attrs
  <2>2. DOMAIN CallOrder = 1 .. 5
    BY DEF CallOrder
  <2> QED BY <2>1, <2>2 DEF AfterFailedCall, AfterCalls
<1>6. CASE plan[i].kind = "hardlink"
  <2>1. PICK k \in 1 .. (i - 1) : plan[k].path = plan[i].target
    BY <1>1, <1>6 DEF ApplyInv, TypeOK, WellFormedPlan, LinksBackward
  <2>2. plan[i].target \in Paths
    BY <1>1, <2>1
  <2>3. Created(plan[i]) = [tree[plan[i].target] EXCEPT !.by = run]
    BY <1>6 DEF Created
  <2>4. /\ Created(plan[i]) \in Node /\ Created(plan[i]).by = run
        /\ Created(plan[i]).kind = tree[plan[i].target].kind
        /\ Created(plan[i]).whole = tree[plan[i].target].whole
    BY <1>1, <2>2, <2>3 DEF Node
  <2>5. \A node \in Leftovers(plan[i]) : node = Absent
    BY <1>6 DEF Leftovers
  <2> QED BY <1>6, <2>2, <2>4, <2>5 DEF CanCreate, NodeKind
<1>7. CASE plan[i].kind = "dir"
  <2>1. Created(plan[i]) = Made(plan[i], TRUE, {})
    BY <1>7 DEF Created
  <2>2. \A node \in Leftovers(plan[i]) : node = Absent
    BY <1>7 DEF Leftovers
  <2> QED BY <1>7, <1>3, <2>1, <2>2
<1>8. CASE plan[i].kind \notin {"dir", "hardlink"}
  <2>1. Created(plan[i]) = Made(plan[i], TRUE, PlannedMeta(plan[i]))
    BY <1>4, <1>8 DEF Created
  <2>2. ASSUME NEW node \in Leftovers(plan[i]), node # Absent
        PROVE  node \in Node /\ node.by = run
    <3>1. \/ node = Made(plan[i], FALSE, {})
          \/ \E meta \in AfterFailedCall(plan[i]) : node = Made(plan[i], TRUE, meta)
      BY <1>8, <2>2 DEF Leftovers
    <3> QED BY <1>2, <1>5, <1>3, <3>1
  <2> QED BY <1>2, <1>4, <1>8, <2>1, <2>2
<1> QED BY <1>6, <1>7, <1>8

(***************************************************************************)
(* A node made at the current entry leaves the entries before it in place: *)
(* only the directory that receives it changes, and that has not been      *)
(* finalized yet.                                                          *)
(***************************************************************************)
LEMMA NewNodeKeepsPrefix ==
  ASSUME ApplyInv, AtEntry, NEW node \in Node, node.by = run, CanCreate(plan[i]),
         tree' = WithNode(plan[i].path, node), UNCHANGED runVars,
         createdDirs \subseteq createdDirs'
  PROVE  /\ tree' \in [Paths -> Node]
         /\ tree'[plan[i].path] = node
         /\ \A q \in Paths \ {plan[i].path} :
              tree'[q].kind = tree[q].kind /\ tree'[q].by = tree[q].by
              /\ tree'[q].whole = tree[q].whole
         /\ \A p \in Paths : tree'[p].by <= run
         /\ \A k \in 1 .. (i - 1) : InPlace(k)'
<1>1. /\ i \in Nat /\ i \in DOMAIN plan /\ stats.applied = i - 1
      /\ plan[i].path \in Paths /\ tree \in [Paths -> Node] /\ run \in 1 .. MaxRuns
      /\ \A k \in DOMAIN plan : k # i => plan[k].path # plan[i].path
      /\ DOMAIN plan = 1 .. Len(plan) /\ Len(plan) \in Nat
      /\ \A k \in DOMAIN plan : plan[k].path \in Paths
  BY AtEntryFacts, PlanFacts DEF ApplyInv
<1>2. /\ tree' \in [Paths -> Node] /\ tree'[plan[i].path] = node
      /\ \A q \in Paths \ {plan[i].path} :
           /\ tree'[q].kind = tree[q].kind /\ tree'[q].by = tree[q].by
           /\ tree'[q].whole = tree[q].whole
           /\ (plan[i].path = Base \/ q # Dir[plan[i].path]) => tree'[q] = tree[q]
  BY <1>1, WithNodeFacts
<1>3. \A p \in Paths : tree'[p].by <= run
  BY <1>1, <1>2 DEF ApplyInv, MakersKnown
<1>4. ASSUME NEW k \in 1 .. (i - 1) PROVE InPlace(k)'
  <2>1. /\ k \in DOMAIN plan /\ plan[k].path \in Paths \ {plan[i].path} /\ InPlace(k)
    BY <1>1 DEF ApplyInv, PrefixInPlace
  <2>2. plan' = plan /\ run' = run /\ mode' = mode
    BY DEF runVars
  <2>3. ASSUME plan[k].kind # "dir" PROVE tree'[plan[k].path] = tree[plan[k].path]
    <3>1. tree[plan[k].path].kind # "dir"
      BY <2>1, <2>3 DEF InPlace, NodeKind
    <3> QED BY <1>2, <2>1, <3>1 DEF CanCreate
  <2>4. plan[k].kind # "dir" => (Complete(plan[k]) => Complete(plan[k])')
    BY <2>2, <2>3 DEF Complete
  <2> QED BY <1>2, <2>1, <2>2, <2>4 DEF InPlace
<1> QED BY <1>2, <1>3, <1>4

(* A new entry is in place and the entries before it stay in place. *)
LEMMA CreatedKeepsInv ==
  ASSUME ApplyInv, EntryCreated
  PROVE  ApplyInv'
<1> DEFINE p == plan[i].path
           node == Created(plan[i])
<1>1. /\ AtEntry /\ ~ Exists(p) /\ CanCreate(plan[i]) /\ tree' = WithNode(p, node)
      /\ createdDirs' = createdDirs \cup (IF plan[i].kind = "dir" THEN {p} ELSE {})
      /\ i' = i + 1 /\ stats' = [stats EXCEPT !.applied = @ + 1]
      /\ UNCHANGED <<runVars, pc>>
  BY DEF EntryCreated
<1>2. /\ pc = "entries" /\ i \in Nat /\ i > 0 /\ i \in DOMAIN plan
      /\ stats.applied = i - 1 /\ stats'.applied = i
      /\ stats' \in [applied : Nat, finalized : Nat]
      /\ p \in Paths /\ run \in 1 .. MaxRuns
      /\ tree \in [Paths -> Node]
      /\ \A k \in DOMAIN plan : k # i => plan[k].path # p
      /\ Len(plan) \in Nat /\ DOMAIN plan = 1 .. Len(plan)
      /\ \A k \in DOMAIN plan : plan[k].path \in Paths
  BY <1>1, AtEntryFacts, PlanFacts DEF ApplyInv
<1>3. /\ node \in Node /\ node.by = run /\ node.kind = NodeKind(plan[i])
      /\ plan[i].kind = "dir" => node.whole
      /\ plan[i].kind \notin {"dir", "hardlink"} =>
           node.whole /\ node.meta = PlannedMeta(plan[i])
      /\ plan[i].kind = "hardlink" =>
           plan[i].target \in Paths /\ node.whole = tree[plan[i].target].whole
      /\ NodeKind(plan[i]) # "none"
  BY <1>1, <1>2, CreatedFacts, PlanFacts DEF ApplyInv
<1> HIDE DEF node
<1>4. /\ tree' \in [Paths -> Node] /\ tree'[p] = node
      /\ \A q \in Paths \ {p} :
           tree'[q].kind = tree[q].kind /\ tree'[q].by = tree[q].by
           /\ tree'[q].whole = tree[q].whole
      /\ \A q \in Paths : tree'[q].by <= run
      /\ \A k \in 1 .. (i - 1) : InPlace(k)'
  BY <1>1, <1>3, NewNodeKeepsPrefix
<1> HIDE DEF p
<1>5. plan' = plan /\ run' = run /\ mode' = mode /\ pc' = pc
  BY <1>1 DEF runVars
<1>6. TypeOK' /\ LoopsCounted'
  BY <1>1, <1>2, <1>4, <1>5 DEF ApplyInv, TypeOK, LoopsCounted
<1>7. MakersKnown'
  BY <1>2, <1>4, <1>5 DEF ApplyInv, MakersKnown
<1>8. ASSUME NEW k, k = i PROVE InPlace(k)'
  BY <1>1, <1>3, <1>4, <1>5, <1>8 DEF InPlace, Complete, p
<1>9. PrefixInPlace'
  BY <1>2, <1>4, <1>8 DEF PrefixInPlace
<1>10. CreatedAreOurs' /\ SuffixFinalized'
  <2>1. \A q \in createdDirs : q \in Paths /\ tree[q].by = run /\ tree[q].kind = "dir"
    BY DEF ApplyInv, TypeOK, CreatedAreOurs
  <2>2. \A q \in createdDirs' : q \in createdDirs \/ (q = p /\ plan[i].kind = "dir")
    BY <1>1
  <2>3. plan[i].kind = "dir" => node.kind = "dir"
    BY <1>3 DEF NodeKind
  <2>4. \A q \in createdDirs' : tree'[q].by = run /\ tree'[q].kind = "dir"
    BY <1>1, <1>3, <1>4, <2>1, <2>2, <2>3 DEF Exists
  <2> QED BY <1>2, <1>5, <2>4 DEF CreatedAreOurs, SuffixFinalized
<1>11. ASSUME mode = "replace"
       PROVE  \A q \in Paths :
                /\ (tree'[q].kind # "none") <=> \E k \in 1 .. i : plan[k].path = q
                /\ (tree'[q].kind # "none") => tree'[q].by = run /\ tree'[q].whole
  <2>1. \A q \in Paths :
          /\ (tree[q].kind # "none") <=> \E k \in 1 .. (i - 1) : plan[k].path = q
          /\ (tree[q].kind # "none") => tree[q].by = run /\ tree[q].whole
    BY <1>2, <1>11 DEF ApplyInv, OnlyPrefixExists, Exists
  <2>2. node.whole
    BY <1>1, <1>3, <2>1 DEF CanCreate
  <2>3. \A q \in Paths : (\E k \in 1 .. i : plan[k].path = q)
                         <=> (q = p \/ \E k \in 1 .. (i - 1) : plan[k].path = q)
    BY <1>2 DEF p
  <2> QED BY <1>3, <1>4, <2>1, <2>2, <2>3
<1>12. OnlyPrefixExists'
  BY <1>2, <1>5, <1>11 DEF OnlyPrefixExists, Exists
<1> QED BY <1>6, <1>7, <1>9, <1>10, <1>12 DEF ApplyInv

(* What a failed entry leaves is at its own path. *)
LEMMA FailedKeepsInv ==
  ASSUME ApplyInv, EntryFails
  PROVE  ApplyInv'
<1> DEFINE p == plan[i].path
<1>1. PICK node \in Leftovers(plan[i]) :
        /\ node # Absent => CanCreate(plan[i])
        /\ tree' = IF node = Absent THEN tree ELSE WithNode(p, node)
  BY DEF EntryFails
<1>2. AtEntry /\ pc' = "failed" /\ UNCHANGED <<runVars, i, createdDirs, stats>>
  BY DEF EntryFails
<1>3. CASE node = Absent
  BY <1>1, <1>2, <1>3, StopKeepsInv DEF AtEntry
<1>4. CASE node # Absent
  <2>1. node \in Node /\ node.by = run
    BY <1>1, <1>2, <1>4, CreatedFacts
  <2>2. /\ tree' \in [Paths -> Node] /\ tree'[p] = node
        /\ \A q \in Paths \ {p} :
             tree'[q].kind = tree[q].kind /\ tree'[q].by = tree[q].by
             /\ tree'[q].whole = tree[q].whole
        /\ \A q \in Paths : tree'[q].by <= run
        /\ \A k \in 1 .. (i - 1) : InPlace(k)'
    BY <1>1, <1>2, <1>4, <2>1, NewNodeKeepsPrefix
  <2>3. /\ i \in DOMAIN plan /\ i \in Nat /\ stats.applied = i - 1 /\ p \in Paths
        /\ ~ Exists(p) /\ pc = "entries"
        /\ \A k \in DOMAIN plan : k # i => plan[k].path # p
        /\ Len(plan) \in Nat /\ DOMAIN plan = 1 .. Len(plan)
        /\ \A k \in DOMAIN plan : plan[k].path \in Paths
    BY <1>2, AtEntryFacts, PlanFacts DEF ApplyInv, EntryFails
  <2>4. plan' = plan /\ run' = run /\ mode' = mode /\ stats' = stats
        /\ createdDirs' = createdDirs /\ i' = i
    BY <1>2 DEF runVars
  <2>5. TypeOK' /\ LoopsCounted'
    BY <1>2, <2>2, <2>4 DEF ApplyInv, TypeOK, LoopsCounted, States
  <2>6. MakersKnown'
    BY <1>2, <2>2, <2>3, <2>4 DEF ApplyInv, MakersKnown
  <2>7. PrefixInPlace'
    BY <2>2, <2>3, <2>4 DEF PrefixInPlace
  <2>8. p \notin createdDirs
    BY <2>3 DEF ApplyInv, CreatedAreOurs, Exists
  <2>9. CreatedAreOurs' /\ SuffixFinalized' /\ OnlyPrefixExists'
    BY <1>2, <2>2, <2>4, <2>8
       DEF ApplyInv, TypeOK, CreatedAreOurs, SuffixFinalized, OnlyPrefixExists
  <2> QED BY <2>5, <2>6, <2>7, <2>9 DEF ApplyInv
<1> QED BY <1>3, <1>4

(* The metadata of a directory is written, whole or in part. *)
LEMMA FinalizeKeepsInv ==
  ASSUME ApplyInv, FinalizeDir \/ FinalizeFails
  PROVE  ApplyInv'
<1> DEFINE p == plan[i].path
<1>1. AtFinalize /\ ToFinalize(plan[i]) /\ UNCHANGED <<runVars, createdDirs>>
  BY DEF FinalizeDir, FinalizeFails
<1>2. /\ pc = "finalize" /\ i \in Nat /\ i > 0 /\ i \in DOMAIN plan
      /\ stats.applied = Len(plan) /\ Len(plan) \in Nat /\ DOMAIN plan = 1 .. Len(plan)
      /\ plan[i] \in Entry /\ p \in Paths /\ tree \in [Paths -> Node]
      /\ \A k \in DOMAIN plan : k # i => plan[k].path # p
      /\ \A k \in DOMAIN plan : plan[k].path \in Paths
      /\ plan[i].kind = "dir" /\ p \in createdDirs
      /\ stats \in [applied : Nat, finalized : Nat]
  BY <1>1, PlanFacts DEF ApplyInv, TypeOK, LoopsCounted, AtFinalize, ToFinalize
<1>3. \A meta \in AfterFailedCall(plan[i]) : meta \in SUBSET Attrs
  <2>1. \A k \in 1 .. 5 : CallOrder[k] \in Attrs
    BY DEF CallOrder, Attrs
  <2>2. DOMAIN CallOrder = 1 .. 5
    BY DEF CallOrder
  <2> QED BY <2>1, <2>2 DEF AfterFailedCall, AfterCalls
<1>4. PICK meta \in SUBSET Attrs :
        /\ tree' = [tree EXCEPT ![p].meta = meta]
        /\ FinalizeDir => meta = PlannedMeta(plan[i])
  <2>1. CASE FinalizeDir
    BY <1>2, <2>1, CallsLeavePlanned DEF FinalizeDir
  <2>2. CASE FinalizeFails /\ ~ FinalizeDir
    BY <1>3, <2>2 DEF FinalizeFails
  <2> QED BY <2>1, <2>2
<1>5. /\ tree' \in [Paths -> Node]
      /\ tree'[p].kind = tree[p].kind /\ tree'[p].by = tree[p].by
      /\ tree'[p].whole = tree[p].whole /\ tree'[p].meta = meta
      /\ \A q \in Paths \ {p} : tree'[q] = tree[q]
  BY <1>2, <1>4 DEF Node
<1>6. /\ plan' = plan /\ run' = run /\ mode' = mode /\ createdDirs' = createdDirs
      /\ stats'.applied = stats.applied /\ stats' \in [applied : Nat, finalized : Nat]
      /\ \/ pc' = "failed" /\ i' = i
         \/ pc' = "finalize" /\ i' = i - 1 /\ meta = PlannedMeta(plan[i])
  BY <1>1, <1>2, <1>4 DEF FinalizeDir, FinalizeFails, runVars
<1> HIDE DEF p
<1>7. TypeOK' /\ LoopsCounted'
  BY <1>2, <1>5, <1>6 DEF ApplyInv, TypeOK, LoopsCounted, States
<1>8. MakersKnown' /\ CreatedAreOurs'
  <2>1. \A q \in Paths : tree'[q].by = tree[q].by /\ tree'[q].kind = tree[q].kind
    BY <1>5
  <2> QED BY <1>2, <1>6, <2>1 DEF ApplyInv, TypeOK, MakersKnown, CreatedAreOurs
<1>9. PrefixInPlace'
  <2> SUFFICES ASSUME NEW k \in 1 .. stats.applied PROVE InPlace(k)'
    BY <1>6 DEF PrefixInPlace
  <2>1. InPlace(k) /\ k \in DOMAIN plan
    BY <1>2 DEF ApplyInv, PrefixInPlace
  <2>2. CASE k = i
    BY <1>2, <1>5, <1>6, <2>1, <2>2 DEF InPlace, p
  <2>3. CASE k # i
    <3>1. tree'[plan[k].path] = tree[plan[k].path]
      BY <1>2, <1>5, <2>1, <2>3
    <3> QED BY <1>6, <2>1, <3>1 DEF InPlace, Complete
  <2> QED BY <2>2, <2>3
<1>10. SuffixFinalized'
  BY <1>2, <1>5, <1>6 DEF ApplyInv, SuffixFinalized, p
<1>11. OnlyPrefixExists'
  BY <1>2, <1>5, <1>6 DEF ApplyInv, OnlyPrefixExists, Exists
<1> QED BY <1>7, <1>8, <1>9, <1>10, <1>11 DEF ApplyInv

(* Every step of a run keeps the invariant. *)
LEMMA RunStepKeepsInv ==
  ASSUME ApplyInv, RunStep
  PROVE  ApplyInv'
<1>1. CASE ClearBase \/ ClearFails
  BY <1>1, ClearKeepsInv
<1>2. CASE EntryFault \/ InspectFails \/ EntryRefused \/ FinalizeFault
  BY <1>2, StopKeepsInv DEF EntryFault, InspectFails, EntryRefused, FinalizeFault,
                            Faults, AtEntry, AtFinalize
<1>3. CASE EntryAccepted
  BY <1>3, AcceptedKeepsInv
<1>4. CASE EntryCreated
  BY <1>4, CreatedKeepsInv
<1>5. CASE EntryFails
  BY <1>5, FailedKeepsInv
<1>6. CASE EntriesDone
  BY <1>6, EntriesDoneKeepsInv
<1>7. CASE FinalizeSkip \/ FinishRun
  BY <1>7, SkipKeepsInv
<1>8. CASE FinalizeDir \/ FinalizeFails
  BY <1>8, FinalizeKeepsInv
<1> QED BY <1>1, <1>2, <1>3, <1>4, <1>5, <1>6, <1>7, <1>8 DEF RunStep

(* A step of the specification, or none. *)
LEMMA ApplyInvNext ==
  ASSUME ApplyInv, [Next]_vars
  PROVE  ApplyInv'
<1>1. ASSUME NEW pl \in Plans, NEW m \in Modes, NEW rules \in Profiles,
             StartRun(pl, m, rules)
      PROVE  ApplyInv'
  BY <1>1, RunAssumption, StartKeepsInv
<1>2. CASE RunStep
  BY <1>2, RunStepKeepsInv
<1>3. CASE UNCHANGED vars
  <2>1. UNCHANGED <<tree, runVars, pc, i, createdDirs, stats>>
    BY <1>3 DEF vars
  <2>2. TypeOK' /\ LoopsCounted' /\ MakersKnown' /\ CreatedAreOurs'
    BY <2>1 DEF ApplyInv, TypeOK, LoopsCounted, MakersKnown, CreatedAreOurs, runVars
  <2>3. PrefixInPlace'
    BY <2>1 DEF ApplyInv, PrefixInPlace, InPlace, Complete, runVars
  <2>4. SuffixFinalized' /\ OnlyPrefixExists'
    BY <2>1 DEF ApplyInv, SuffixFinalized, OnlyPrefixExists, Exists, runVars
  <2> QED BY <2>2, <2>3, <2>4 DEF ApplyInv
<1> QED BY <1>1, <1>2, <1>3 DEF Next

(* The inductive invariant holds of every run, whatever runs came before. *)
THEOREM ApplyInvHolds == Spec => []ApplyInv
<1>1. Init => ApplyInv
  BY ApplyInvInit
<1>2. ApplyInv /\ [Next]_vars => ApplyInv'
  BY ApplyInvNext
<1> QED BY <1>1, <1>2, PTL DEF Spec

(***************************************************************************)
(* OrderSuffices for every plan, tree and history of runs: no entry is     *)
(* created in a directory that is missing or that is a symlink, and every  *)
(* hard link finds a regular file (applyPlannedEntry in plan order).       *)
(***************************************************************************)
THEOREM ApplyOrderSuffices == Spec => []OrderSuffices
<1>1. ApplyInv => OrderSuffices
  BY OrderHolds
<1> QED BY <1>1, ApplyInvHolds, PTL

(***************************************************************************)
(* OkMeansComplete: a run that returns nil has put every entry in place    *)
(* and given what it made its whole content and exactly the planned        *)
(* metadata (applyRunPlan, applyMetadata).                                 *)
(***************************************************************************)
THEOREM ApplyOkMeansComplete == Spec => []OkMeansComplete
<1>1. ApplyInv => OkMeansComplete
  <2> SUFFICES ASSUME ApplyInv, pc = "ok", NEW k \in DOMAIN plan
               PROVE  /\ tree[plan[k].path].kind = NodeKind(plan[k])
                      /\ (tree[plan[k].path].by = run /\ plan[k].kind # "hardlink")
                           => Complete(plan[k])
    BY DEF OkMeansComplete
  <2>1. k \in 1 .. stats.applied /\ k > i
    BY PlanFacts DEF ApplyInv, TypeOK, LoopsCounted
  <2>2. InPlace(k)
    BY <2>1 DEF ApplyInv, PrefixInPlace
  <2>3. CASE plan[k].kind = "dir"
    BY <2>1, <2>2, <2>3 DEF InPlace, Complete, ApplyInv, SuffixFinalized
  <2>4. CASE plan[k].kind # "dir"
    BY <2>2, <2>4 DEF InPlace
  <2> QED BY <2>3, <2>4
<1> QED BY <1>1, ApplyInvHolds, PTL

(***************************************************************************)
(* FreshRunsExact: a replace run leaves its plan and nothing else, all of  *)
(* it new, and a strict run made all it planned (the run modes of          *)
(* applyRunPlan and applyPlannedEntry).                                    *)
(***************************************************************************)
THEOREM ApplyFreshRunsExact == Spec => []FreshRunsExact
<1>1. ApplyInv => FreshRunsExact
  <2> SUFFICES ASSUME ApplyInv, pc = "ok" PROVE FreshRunsExact
    BY DEF FreshRunsExact
  <2>1. stats.applied = Len(plan) /\ DOMAIN plan = 1 .. Len(plan)
    BY PlanFacts DEF ApplyInv, LoopsCounted
  <2>2. mode = "replace" =>
          \A p \in Paths : /\ Exists(p) <=> p \in PathsOf(plan)
                           /\ Exists(p) => tree[p].by = run /\ tree[p].whole
    BY <2>1 DEF ApplyInv, OnlyPrefixExists, PathsOf
  <2>3. mode = "strict" =>
          \A k \in DOMAIN plan : plan[k].path # Base => tree[plan[k].path].by = run
    BY <2>1 DEF ApplyInv, PrefixInPlace, InPlace
  <2> QED BY <2>2, <2>3 DEF FreshRunsExact
<1> QED BY <1>1, ApplyInvHolds, PTL

(***************************************************************************)
(* AppliedPrefix: at every moment, also after a failure, the entries that  *)
(* AppliedEntries counts are in place and none but the next was begun (the *)
(* fail-fast loop of applyRunPlan).                                        *)
(***************************************************************************)
THEOREM ApplyAppliedPrefix == Spec => []AppliedPrefix
<1>1. ApplyInv => AppliedPrefix
  <2> SUFFICES ASSUME ApplyInv, NEW k \in DOMAIN plan
               PROVE  /\ k <= stats.applied =>
                           /\ tree[plan[k].path].kind = NodeKind(plan[k])
                           /\ ( /\ tree[plan[k].path].by = run
                                /\ plan[k].kind \notin {"dir", "hardlink"} ) =>
                                Complete(plan[k])
                      /\ k > stats.applied + 1 => tree[plan[k].path].by # run
    BY DEF AppliedPrefix
  <2>1. k \in Nat /\ k > 0 /\ stats.applied \in Nat
    BY PlanFacts DEF ApplyInv, TypeOK
  <2> QED BY <2>1 DEF ApplyInv, PrefixInPlace, InPlace, MakersKnown
<1> QED BY <1>1, ApplyInvHolds, PTL

-----------------------------------------------------------------------------
(* What a run may not change *)

(* The node at p is the same, but for its timestamps. *)
NodeKept(p) ==
  \E meta \in {tree[p].meta, tree[p].meta \ {"times"}} :
    tree'[p] = [tree[p] EXCEPT !.meta = meta]

(* A node that does not change is kept. *)
LEMMA SameNodeKept ==
  ASSUME NEW p \in Paths, tree \in [Paths -> Node], tree'[p] = tree[p]
  PROVE  NodeKept(p)
<1>1. tree[p] \in Node
  OBVIOUS
<1>2. tree[p] = [tree[p] EXCEPT !.meta = tree[p].meta]
  BY <1>1 DEF Node
<1> QED BY <1>2 DEF NodeKept

(* A new node changes at most the timestamps of the others. *)
LEMMA WithNodeKeeps ==
  ASSUME NEW p \in Paths, NEW q \in Paths \ {p}, NEW node, tree \in [Paths -> Node],
         tree' = WithNode(p, node)
  PROVE  NodeKept(q)
<1>1. CASE p # Base /\ q = Dir[p]
  <2>1. tree'[q] = [tree[q] EXCEPT !.meta = tree[q].meta \ {"times"}]
    BY <1>1 DEF WithNode
  <2> QED BY <2>1 DEF NodeKept
<1>2. CASE ~ (p # Base /\ q = Dir[p])
  <2>1. tree'[q] = tree[q]
    BY <1>2 DEF WithNode
  <2> QED BY <2>1, SameNodeKept
<1> QED BY <1>1, <1>2

(* No step of a run touches what another made, outside replace mode. *)
LEMMA StepKeepsOthers ==
  ASSUME ApplyInv, [Next]_vars, run' = run, mode # "replace",
         NEW p \in Paths, Exists(p), tree[p].by # run
  PROVE  NodeKept(p)
<1>1. tree \in [Paths -> Node] /\ run \in Nat
  BY DEF ApplyInv, TypeOK
<1>2. CASE tree' = tree
  BY <1>1, <1>2, SameNodeKept
<1>3. CASE ClearBase \/ ClearFails
  BY <1>3 DEF ApplyInv, LoopsCounted, ClearBase, ClearFails
<1>4. CASE EntryCreated \/ EntryFails
  <2>1. AtEntry /\ ~ Exists(plan[i].path)
    BY <1>4 DEF EntryCreated, EntryFails
  <2>2. plan[i].path \in Paths /\ p # plan[i].path
    BY <2>1, AtEntryFacts
  <2>3. tree' = tree \/ \E node : tree' = WithNode(plan[i].path, node)
    BY <1>4 DEF EntryCreated, EntryFails
  <2> QED BY <1>1, <1>2, <2>2, <2>3, WithNodeKeeps
<1>5. CASE FinalizeDir \/ FinalizeFails
  <2>1. ToFinalize(plan[i]) /\ \E meta : tree' = [tree EXCEPT ![plan[i].path].meta = meta]
    BY <1>5 DEF FinalizeDir, FinalizeFails
  <2>2. p # plan[i].path
    BY <2>1 DEF ApplyInv, CreatedAreOurs, ToFinalize
  <2>3. tree'[p] = tree[p]
    BY <1>1, <2>1, <2>2
  <2> QED BY <1>1, <2>3, SameNodeKept
<1>6. CASE EntryFault \/ InspectFails \/ EntryAccepted \/ EntryRefused
           \/ EntriesDone \/ FinalizeSkip \/ FinalizeFault \/ FinishRun
  BY <1>2, <1>6 DEF EntryFault, InspectFails, EntryAccepted, EntryRefused,
                    EntriesDone, FinalizeSkip, FinalizeFault, FinishRun, Faults
<1>7. CASE \E pl \in Plans, m \in Modes, rules \in Profiles : StartRun(pl, m, rules)
  BY <1>1, <1>7 DEF StartRun
<1>8. CASE UNCHANGED vars
  BY <1>2, <1>8 DEF vars
<1> QED BY <1>3, <1>4, <1>5, <1>6, <1>7, <1>8 DEF Next, RunStep

(***************************************************************************)
(* OthersKept: outside replace mode no step of a run, failing ones         *)
(* included, changes a node that the run did not make, but for the         *)
(* timestamps of a directory that receives a child (applyPlannedEntry,     *)
(* createdDirs of applyRunPlan).                                           *)
(***************************************************************************)
THEOREM ApplyOthersKept == Spec => OthersKept
<1>1. ASSUME ApplyInv, [Next]_vars
      PROVE  [ (run' = run /\ mode # "replace") =>
                 \A p \in Paths : (Exists(p) /\ tree[p].by # run) =>
                   \E meta \in {tree[p].meta, tree[p].meta \ {"times"}} :
                     tree'[p] = [tree[p] EXCEPT !.meta = meta] ]_vars
  BY <1>1, StepKeepsOthers DEF NodeKept
<1> QED BY <1>1, ApplyInvHolds, PTL DEF Spec, OthersKept

-----------------------------------------------------------------------------
(* Injected faults *)

HookKinds == {"create-dir", "create-file", "create-symlink", "create-hardlink",
              "create-special", "finalize-directory-metadata"}

Point == [scope : {"run"}, kind : HookKinds, path : Paths]

(* How often each rule has matched, as the injector counts it. *)
Counted(rules, pts) ==
  [r \in DOMAIN rules |->
     [matchCount |-> Cardinality(Matches(rules[r], pts)), triggered |-> FALSE]]

FaultInv ==
  /\ profile \in Seq(FaultRule)
  /\ points \in Seq(Point)
  /\ pc \in {"clear", "entries", "finalize"} => fault = 0 /\ validate(profile)
  /\ fault = 0 => injector = Counted(profile, points)
  /\ FaultsExact

(* One more hook is one more match of the rules it matches. *)
LEMMA MatchesGrow ==
  ASSUME NEW rule, NEW pts \in Seq(Point), NEW pt \in Point
  PROVE  /\ Cardinality(Matches(rule, pts)) \in Nat
         /\ Cardinality(Matches(rule, Append(pts, pt))) =
              Cardinality(Matches(rule, pts))
                + (IF faultRuleMatchesPoint(rule, pt) THEN 1 ELSE 0)
<1> DEFINE S == Matches(rule, pts)
           T == Matches(rule, Append(pts, pt))
           n == Len(pts) + 1
<1>1. S \in SUBSET (1 .. Len(pts)) /\ Len(pts) \in Nat
  BY DEF Matches
<1>2. IsFiniteSet(S)
  <2>1. IsFiniteSet(1 .. Len(pts))
    BY <1>1, FS_Interval
  <2> HIDE DEF S
  <2> QED BY <1>1, <2>1, FS_Subset
<1>3. n \notin S
  BY <1>1
<1>4. T = IF faultRuleMatchesPoint(rule, pt) THEN S \cup {n} ELSE S
  <2>1. /\ DOMAIN Append(pts, pt) = 1 .. n
        /\ \A k \in 1 .. Len(pts) : Append(pts, pt)[k] = pts[k]
        /\ Append(pts, pt)[n] = pt
        /\ DOMAIN pts = 1 .. Len(pts)
    OBVIOUS
  <2>2. \A k \in 1 .. Len(pts) : k \in T <=> k \in S
    BY <2>1 DEF Matches
  <2>3. n \in T <=> faultRuleMatchesPoint(rule, pt)
    BY <1>1, <2>1 DEF Matches
  <2>4. T \subseteq (1 .. Len(pts)) \cup {n}
    BY <1>1, <2>1 DEF Matches
  <2> HIDE DEF S, T, n
  <2>5. ASSUME faultRuleMatchesPoint(rule, pt) PROVE T = S \cup {n}
    BY <1>1, <2>2, <2>3, <2>4, <2>5
  <2>6. ASSUME ~ faultRuleMatchesPoint(rule, pt) PROVE T = S
    BY <1>1, <1>3, <2>2, <2>3, <2>4, <2>6
  <2> QED BY <2>5, <2>6
<1> QED BY <1>2, <1>3, <1>4, FS_AddElement, FS_CardinalityType

(* A set of rule numbers that is not empty has a first one. *)
LEMMA FirstRuleExists ==
  ASSUME NEW S \in SUBSET Nat, S # {}
  PROVE  FirstRule(S) \in S /\ \A r \in S : FirstRule(S) <= r
<1>1. PICK m \in S : \A n \in S : ~ (<<n, m>> \in OpToRel(<, Nat))
  BY NatLessThanWellFounded, WFMin, Zenon
<1>2. \A n \in S : ~ (n < m)
  BY <1>1 DEF OpToRel
<1>3. \A n \in S : m <= n
  BY <1>2
<1> QED BY <1>3 DEF FirstRule

(***************************************************************************)
(* What a hook does when all counters are right and no rule is due yet: it *)
(* lets the step through and the counters stay right, or the first of the  *)
(* rules that come due fires.                                              *)
(***************************************************************************)
LEMMA HookExact ==
  ASSUME NEW rules \in Seq(FaultRule), NEW pts \in Seq(Point), NEW pt \in Point,
         \A r \in DOMAIN rules : Cardinality(Matches(rules[r], pts)) < rules[r].nth
  PROVE  LET fired == FiredRule(rules, Counted(rules, pts), pt)
             seen(r) == Cardinality(Matches(rules[r], Append(pts, pt)))
         IN  /\ fired = 0 =>
                  /\ before(rules, Counted(rules, pts), pt) = Counted(rules, Append(pts, pt))
                  /\ \A r \in DOMAIN rules : seen(r) < rules[r].nth
             /\ fired # 0 =>
                  /\ fired \in DOMAIN rules
                  /\ seen(fired) = rules[fired].nth
                  /\ \A r \in DOMAIN rules : r < fired => seen(r) < rules[r].nth
<1> DEFINE inj == Counted(rules, pts)
           fired == FiredRule(rules, inj, pt)
           seen(r) == Cardinality(Matches(rules[r], Append(pts, pt)))
           due == Due(rules, inj, pt)
<1>1. /\ DOMAIN rules = 1 .. Len(rules) /\ Len(rules) \in Nat
      /\ \A r \in DOMAIN rules : rules[r].nth \in Int
  <2>1. \A r \in DOMAIN rules : rules[r] \in FaultRule
    OBVIOUS
  <2> QED BY <2>1 DEF FaultRule
<1>2. \A r \in DOMAIN rules :
        /\ inj[r].matchCount \in Nat /\ inj[r].matchCount < rules[r].nth
        /\ inj[r].triggered = FALSE
        /\ seen(r) = inj[r].matchCount
                       + (IF faultRuleMatchesPoint(rules[r], pt) THEN 1 ELSE 0)
  BY MatchesGrow DEF Counted
<1>3. /\ due \in SUBSET Nat
      /\ \A r \in DOMAIN rules :
           r \in due <=> faultRuleMatchesPoint(rules[r], pt)
                           /\ inj[r].matchCount + 1 = rules[r].nth
      /\ due \subseteq DOMAIN rules
  BY <1>1, <1>2 DEF Due, Advancing
<1>4. CASE due = {}
  <2>1. fired = 0
    BY <1>4 DEF FiredRule
  <2>2. ASSUME NEW r \in DOMAIN rules PROVE seen(r) < rules[r].nth
    <3> HIDE DEF inj, due, seen
    <3>1. ~ (faultRuleMatchesPoint(rules[r], pt) /\ inj[r].matchCount + 1 = rules[r].nth)
      BY <1>3, <1>4
    <3> QED BY <1>1, <1>2, <3>1
  <2>3. before(rules, inj, pt) =
          [r \in DOMAIN rules |->
             IF faultRuleMatchesPoint(rules[r], pt)
             THEN [matchCount |-> inj[r].matchCount + 1, triggered |-> r = 0]
             ELSE inj[r]]
    BY <1>2, <2>1 DEF before, Advancing
  <2>4. ASSUME NEW r \in DOMAIN rules
        PROVE  before(rules, inj, pt)[r] = [matchCount |-> seen(r), triggered |-> FALSE]
    <3>1. r # 0
      BY <1>1
    <3>2. inj[r] = [matchCount |-> inj[r].matchCount, triggered |-> FALSE]
      BY DEF Counted
    <3> HIDE DEF inj, seen
    <3>3. CASE faultRuleMatchesPoint(rules[r], pt)
      <4>1. before(rules, inj, pt)[r] =
              [matchCount |-> inj[r].matchCount + 1, triggered |-> r = 0]
        BY <2>3, <3>3
      <4>2. seen(r) = inj[r].matchCount + 1
        BY <1>2, <3>3
      <4>3. (r = 0) = FALSE
        BY <3>1, Zenon
      <4> QED BY <4>1, <4>2, <4>3, Zenon
    <3>4. CASE ~ faultRuleMatchesPoint(rules[r], pt)
      <4>1. before(rules, inj, pt)[r] = inj[r]
        BY <2>3, <3>4
      <4>2. seen(r) = inj[r].matchCount
        BY <1>2, <3>4
      <4> QED BY <3>2, <4>1, <4>2, Zenon
    <3> QED BY <3>3, <3>4
  <2>5. before(rules, inj, pt) = Counted(rules, Append(pts, pt))
    BY <2>3, <2>4 DEF Counted
  <2> QED BY <2>1, <2>2, <2>5
<1>5. CASE due # {}
  <2>1. fired = FirstRule(due)
    BY <1>5 DEF FiredRule
  <2>2. fired \in due /\ \A r \in due : fired <= r
    BY <1>3, <1>5, <2>1, FirstRuleExists
  <2>3. fired \in DOMAIN rules /\ fired # 0 /\ fired \in Nat
    BY <1>1, <1>3, <2>2
  <2>4. seen(fired) = rules[fired].nth
    BY <1>1, <1>2, <1>3, <2>2, <2>3
  <2>5. ASSUME NEW r \in DOMAIN rules, r < fired
        PROVE  seen(r) < rules[r].nth
    <3>1. r \notin due
      BY <1>1, <2>2, <2>3, <2>5
    <3> QED BY <1>1, <1>2, <1>3, <3>1
  <2> QED BY <2>3, <2>4, <2>5
<1> QED BY <1>4, <1>5

(* A hook that lets the step through. *)
LEMMA PassKeepsFaultInv ==
  ASSUME FaultInv, NEW pt \in Point, Passes(pt), UNCHANGED profile,
         pc \in {"entries", "finalize"}
  PROVE  FaultInv'
<1>1. /\ profile \in Seq(FaultRule) /\ points \in Seq(Point) /\ fault = 0
      /\ validate(profile) /\ injector = Counted(profile, points)
      /\ \A r \in DOMAIN profile : Cardinality(Matches(profile[r], points)) < profile[r].nth
  BY DEF FaultInv, FaultsExact
<1>2. /\ injector' = Counted(profile, Append(points, pt))
      /\ points' = Append(points, pt) /\ fault' = 0 /\ profile' = profile
      /\ \A r \in DOMAIN profile :
           Cardinality(Matches(profile[r], Append(points, pt))) < profile[r].nth
  BY <1>1, HookExact DEF Passes
<1>3. points' \in Seq(Point)
  BY <1>1, <1>2
<1>4. FaultsExact'
  <2>1. \A r \in DOMAIN profile : r # 0
    BY <1>1
  <2> QED BY <1>2, <2>1 DEF FaultsExact
<1> QED BY <1>1, <1>2, <1>3, <1>4 DEF FaultInv

(* A hook that ends the run. *)
LEMMA FaultKeepsFaultInv ==
  ASSUME FaultInv, NEW pt \in Point, Faults(pt), pc \in {"entries", "finalize"}
  PROVE  FaultInv'
<1>1. /\ profile \in Seq(FaultRule) /\ points \in Seq(Point) /\ fault = 0
      /\ injector = Counted(profile, points)
      /\ \A r \in DOMAIN profile : Cardinality(Matches(profile[r], points)) < profile[r].nth
  BY DEF FaultInv, FaultsExact
<1>2. /\ fault' # 0 /\ fault' \in DOMAIN profile
      /\ points' = Append(points, pt) /\ profile' = profile /\ pc' = "failed"
      /\ Cardinality(Matches(profile[fault'], Append(points, pt))) = profile[fault'].nth
      /\ \A r \in DOMAIN profile : r < fault' =>
           Cardinality(Matches(profile[r], Append(points, pt))) < profile[r].nth
  BY <1>1, HookExact DEF Faults, runVars
<1>3. points' \in Seq(Point)
  BY <1>1, <1>2
<1>4. FaultsExact'
  BY <1>2 DEF FaultsExact
<1> QED BY <1>1, <1>2, <1>3, <1>4 DEF FaultInv

(* No hook has been passed before the first run. *)
LEMMA FaultInvInit == Init => FaultInv
<1> SUFFICES ASSUME Init PROVE FaultInv
  OBVIOUS
<1>1. profile = <<>> /\ points = <<>> /\ pc = "idle" /\ fault = 0 /\ DOMAIN profile = {}
      /\ injector = newFaultInjector(profile)
  BY DEF Init
<1>2. injector = Counted(profile, points)
  BY <1>1 DEF newFaultInjector, Counted
<1> QED BY <1>1, <1>2 DEF FaultInv, FaultsExact

(* Every run starts with counters of its own. *)
LEMMA StartKeepsFaultInv ==
  ASSUME NEW pl, NEW m, NEW rules \in Seq(FaultRule), StartRun(pl, m, rules)
  PROVE  FaultInv'
<1>1. /\ profile' = rules /\ points' = <<>> /\ fault' = 0
      /\ injector' = newFaultInjector(rules)
      /\ pc' # "failed" => validate(rules)
  BY DEF StartRun
<1>2. \A r \in DOMAIN rules : Cardinality(Matches(rules[r], <<>>)) = 0
  <2>1. \A r \in DOMAIN rules : Matches(rules[r], <<>>) = {}
    BY DEF Matches
  <2> QED BY <2>1, FS_EmptySet
<1>3. injector' = Counted(rules, <<>>)
  BY <1>1, <1>2 DEF newFaultInjector, Counted
<1>4. \A r \in DOMAIN rules : r # 0 /\ (validate(rules) => 0 < rules[r].nth)
  <2>1. \A r \in DOMAIN rules : r # 0
    OBVIOUS
  <2> QED BY <2>1 DEF validate
<1>5. FaultsExact'
  BY <1>1, <1>2, <1>4 DEF FaultsExact
<1> QED BY <1>1, <1>3, <1>5 DEF FaultInv

(* Every step keeps the counters equal to the matches seen. *)
LEMMA FaultInvNext ==
  ASSUME ApplyInv, FaultInv, [Next]_vars
  PROVE  FaultInv'
<1>1. ASSUME AtEntry \/ AtFinalize PROVE plan[i].path \in Paths
  BY <1>1, PlanFacts DEF ApplyInv, TypeOK, LoopsCounted, AtEntry, AtFinalize
<1>2. AtEntry => CreatePoint \in Point /\ pc \in {"entries", "finalize"}
  <2>1. \A e : Label(e) \in HookKinds
    BY DEF Label, HookKinds
  <2> QED BY <1>1, <2>1 DEF CreatePoint, Point, AtEntry
<1>3. AtFinalize => FinalizePoint \in Point /\ pc \in {"entries", "finalize"}
  BY <1>1 DEF FinalizePoint, Point, HookKinds, AtFinalize
<1>4. CASE EntryFault \/ FinalizeFault
  BY <1>2, <1>3, <1>4, FaultKeepsFaultInv DEF EntryFault, FinalizeFault
<1>5. CASE EntryAccepted \/ EntryRefused \/ InspectFails \/ EntryCreated \/ EntryFails
  <2>1. AtEntry /\ Passes(CreatePoint) /\ UNCHANGED profile
    BY <1>5 DEF EntryAccepted, EntryRefused, InspectFails, EntryCreated, EntryFails, runVars
  <2> QED BY <1>2, <2>1, PassKeepsFaultInv
<1>6. CASE FinalizeDir \/ FinalizeFails
  <2>1. AtFinalize /\ Passes(FinalizePoint) /\ UNCHANGED profile
    BY <1>6 DEF FinalizeDir, FinalizeFails, runVars
  <2> QED BY <1>3, <2>1, PassKeepsFaultInv
<1>7. CASE ClearBase \/ ClearFails \/ EntriesDone \/ FinalizeSkip \/ FinishRun
  <2>1. /\ UNCHANGED <<profile, points, injector, fault>>
        /\ pc \in {"clear", "entries", "finalize"}
    BY <1>7 DEF ClearBase, ClearFails, EntriesDone, FinalizeSkip, FinishRun,
                AtFinalize, runVars
  <2>2. \A r \in DOMAIN profile : r # 0
    BY DEF FaultInv
  <2> QED BY <2>1, <2>2 DEF FaultInv, FaultsExact
<1>8. CASE \E pl \in Plans, m \in Modes, rules \in Profiles : StartRun(pl, m, rules)
  BY <1>8, RunAssumption, StartKeepsFaultInv
<1>9. CASE UNCHANGED vars
  BY <1>9 DEF vars, runVars, FaultInv, FaultsExact
<1> QED BY <1>4, <1>5, <1>6, <1>7, <1>8, <1>9 DEF Next, RunStep

(***************************************************************************)
(* FaultsExact for every profile: a run ends by an injected fault at the   *)
(* first hook at which some rule has its Nth match, with the first such    *)
(* rule, and counts nothing from earlier runs (faultInjector.before).      *)
(***************************************************************************)
THEOREM ApplyFaultsExact == Spec => []FaultsExact
<1>1. Init => FaultInv
  BY FaultInvInit
<1>2. ApplyInv /\ FaultInv /\ [Next]_vars => FaultInv'
  BY FaultInvNext
<1>3. FaultInv => FaultsExact
  BY DEF FaultInv
<1> QED BY <1>1, <1>2, <1>3, ApplyInvHolds, PTL DEF Spec

-----------------------------------------------------------------------------

(***************************************************************************)
(* The inode a planned regular file has: root says which file of the plan  *)
(* each name leads to, a hard link to the one its target leads to.         *)
(***************************************************************************)
Roots(pl, root) ==
  \A k \in DOMAIN pl :
    /\ pl[k].kind = "file" => root[pl[k].path] = pl[k].path
    /\ pl[k].kind = "hardlink" => root[pl[k].path] = root[pl[k].target]

(* Where every planned file is made by the run itself, names that lead to  *)
(* one file of the plan share its inode.                                   *)
InodesRooted(root) ==
  (mode \in {"strict", "replace"} /\ pc \in {"entries", "finalize", "ok"}) =>
    \A k \in 1 .. stats.applied :
      plan[k].kind \in {"file", "hardlink"} =>
        tree[plan[k].path].ino = root[plan[k].path]

(* The inode of the node made for a regular file. *)
LEMMA CreatedInode ==
  ASSUME ApplyInv, AtEntry, NEW root, Roots(plan, root), InodesRooted(root),
         mode \in {"strict", "replace"}, plan[i].kind \in {"file", "hardlink"}
  PROVE  Created(plan[i]).ino = root[plan[i].path]
<1>1. /\ pc = "entries" /\ i \in Nat /\ i \in DOMAIN plan /\ stats.applied = i - 1
      /\ tree \in [Paths -> Node] /\ Len(plan) \in Nat /\ DOMAIN plan = 1 .. Len(plan)
      /\ \A k \in DOMAIN plan : plan[k].path \in Paths
  BY AtEntryFacts, PlanFacts DEF ApplyInv
<1>2. CASE plan[i].kind = "file"
  <2>1. Created(plan[i]).ino = plan[i].path
    BY <1>2 DEF Created, Made
  <2> QED BY <1>1, <1>2, <2>1 DEF Roots
<1>3. CASE plan[i].kind = "hardlink"
  <2>1. PICK k \in 1 .. (i - 1) :
          plan[k].kind \in {"file", "hardlink"} /\ plan[k].path = plan[i].target
    BY <1>1, <1>3 DEF ApplyInv, TypeOK, WellFormedPlan, LinksBackward
  <2>2. tree[plan[i].target].ino = root[plan[i].target] /\ plan[i].target \in Paths
    BY <1>1, <2>1 DEF InodesRooted
  <2>3. Created(plan[i]) = [tree[plan[i].target] EXCEPT !.by = run]
    BY <1>3 DEF Created
  <2>4. Created(plan[i]).ino = tree[plan[i].target].ino
    BY <1>1, <2>2, <2>3 DEF Node
  <2> QED BY <1>1, <1>3, <2>2, <2>4 DEF Roots
<1> QED BY <1>2, <1>3

(* Every step of a run keeps the names and the inodes together. *)
LEMMA RunStepKeepsInodes ==
  ASSUME ApplyInv, RunStep, NEW root, Roots(plan, root), InodesRooted(root)
  PROVE  InodesRooted(root)'
<1>0. /\ tree \in [Paths -> Node] /\ Len(plan) \in Nat /\ DOMAIN plan = 1 .. Len(plan)
      /\ \A k \in DOMAIN plan : plan[k].path \in Paths
      /\ stats.applied \in Nat /\ stats.applied <= Len(plan)
  BY PlanFacts DEF ApplyInv, TypeOK, LoopsCounted
<1>1. CASE pc' = "failed"
  BY <1>1 DEF InodesRooted
<1>2. CASE ClearBase
  <2>1. stats.applied = 0 /\ stats' = stats
    BY <1>2 DEF ApplyInv, LoopsCounted, ClearBase
  <2> QED BY <2>1 DEF InodesRooted
<1>3. CASE EntryAccepted
  <2>1. /\ AtEntry /\ Exists(plan[i].path) /\ Accepts(plan[i])
        /\ UNCHANGED <<tree, runVars, pc>> /\ stats' = [stats EXCEPT !.applied = @ + 1]
    BY <1>3 DEF EntryAccepted
  <2>2. /\ pc = "entries" /\ i \in DOMAIN plan /\ stats.applied = i - 1 /\ i \in Nat
        /\ stats'.applied = i
        /\ \A k \in DOMAIN plan : k # i => plan[k].path # plan[i].path
        /\ plan[i].path \in Paths
    BY <2>1, AtEntryFacts
  <2>3. mode # "replace"
    BY <1>0, <2>1, <2>2 DEF ApplyInv, OnlyPrefixExists
  <2>4. mode = "strict" => plan[i].kind = "dir"
    BY <2>1 DEF Accepts
  <2> QED BY <1>0, <2>1, <2>2, <2>3, <2>4 DEF InodesRooted, runVars
<1>4. CASE EntryCreated
  <2> DEFINE p == plan[i].path
  <2>1. /\ AtEntry /\ CanCreate(plan[i])
        /\ tree' = WithNode(p, Created(plan[i]))
        /\ UNCHANGED <<runVars, pc>> /\ stats' = [stats EXCEPT !.applied = @ + 1]
    BY <1>4 DEF EntryCreated
  <2>2. /\ pc = "entries" /\ i \in DOMAIN plan /\ stats.applied = i - 1 /\ i \in Nat
        /\ stats'.applied = i /\ p \in Paths
        /\ \A k \in DOMAIN plan : k # i => plan[k].path # p
    BY <2>1, AtEntryFacts
  <2>3. Created(plan[i]) \in Node
    BY <2>1, CreatedFacts
  <2>4. /\ tree'[p] = Created(plan[i])
        /\ \A q \in Paths : q # p => tree'[q].ino = tree[q].ino
    BY <1>0, <2>1, <2>2, <2>3, WithNodeFacts
  <2>5. (mode \in {"strict", "replace"} /\ plan[i].kind \in {"file", "hardlink"}) =>
          tree'[p].ino = root[p]
    BY <2>1, <2>4, CreatedInode
  <2> QED BY <1>0, <2>1, <2>2, <2>4, <2>5 DEF InodesRooted, runVars
<1>5. CASE EntriesDone \/ FinalizeSkip \/ FinishRun
  <2>1. /\ UNCHANGED <<tree, runVars, stats>>
        /\ pc \in {"entries", "finalize"}
    BY <1>5 DEF EntriesDone, FinalizeSkip, FinishRun, AtFinalize
  <2> QED BY <2>1 DEF InodesRooted, runVars
<1>6. CASE FinalizeDir
  <2>1. /\ AtFinalize /\ UNCHANGED <<runVars, pc>>
        /\ stats' = [stats EXCEPT !.finalized = @ + 1]
        /\ tree' = [tree EXCEPT ![plan[i].path].meta = AfterAllCalls(plan[i])]
    BY <1>6 DEF FinalizeDir
  <2>2. \A q \in Paths : tree'[q].ino = tree[q].ino
    BY <1>0, <2>1 DEF Node
  <2>3. stats'.applied = stats.applied /\ pc = "finalize"
    BY <2>1 DEF ApplyInv, TypeOK, AtFinalize
  <2> QED BY <1>0, <2>1, <2>2, <2>3 DEF InodesRooted, runVars
<1>7. CASE EntryFault \/ InspectFails \/ EntryRefused \/ EntryFails \/ ClearFails
             \/ FinalizeFault \/ FinalizeFails
  <2>1. pc' = "failed"
    BY <1>7 DEF EntryFault, InspectFails, EntryRefused, EntryFails, ClearFails,
                FinalizeFault, FinalizeFails, Faults
  <2> QED BY <1>1, <2>1
<1> QED BY <1>2, <1>3, <1>4, <1>5, <1>6, <1>7 DEF RunStep

(* Forgetting how the last run ended keeps the invariant. *)
LEMMA IdleKeepsInv ==
  ASSUME ApplyInv, pc' = "idle", UNCHANGED <<tree, runVars, i, createdDirs, stats>>
  PROVE  ApplyInv'
<1>1. TypeOK' /\ LoopsCounted' /\ MakersKnown' /\ CreatedAreOurs'
  BY DEF ApplyInv, TypeOK, States, LoopsCounted, MakersKnown, CreatedAreOurs, runVars
<1>2. PrefixInPlace'
  BY DEF ApplyInv, PrefixInPlace, InPlace, Complete, runVars
<1>3. SuffixFinalized' /\ OnlyPrefixExists'
  BY DEF SuffixFinalized, OnlyPrefixExists
<1> QED BY <1>1, <1>2, <1>3 DEF ApplyInv

=============================================================================
