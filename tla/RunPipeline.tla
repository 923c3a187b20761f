---------------------------- MODULE RunPipeline ----------------------------
(***************************************************************************)
(* Generator.RunWithMetrics (generator.go): plan the whole tree, then      *)
(* apply the plan.  The planner is the module Planner, the apply pipeline  *)
(* the module ApplyPlan; here the plan that is applied is the one the      *)
(* planner returned.  A generator may be run again: its random source has  *)
(* moved on, so the next run plans another tree over what the last one     *)
(* left.                                                                   *)
(***************************************************************************)
EXTENDS Planner

CONSTANTS Modes, Profiles, InitialTrees, MaxRuns

VARIABLES tree, run, plan, mode, profile, pc, i, createdDirs, injector,
          stats, points, fault

applyVars == <<tree, run, plan, mode, profile, pc, i, createdDirs, injector,
               stats, points, fault>>

(* No plan is given from outside. *)
Apply == INSTANCE ApplyPlan WITH Plans <- {}

ASSUME PipelineAssumption ==
  /\ Modes \subseteq {"append", "strict", "replace"}
  /\ Profiles \subseteq Seq(Apply!FaultRule)
  /\ InitialTrees \subseteq {t \in [Paths -> Apply!Node] : \A p \in Paths : t[p].by = 0}
  /\ MaxRuns \in Nat

(* planRun has returned without error: applyRunPlan takes over.  A call    *)
(* with an invalid profile has returned before planning.                   *)
StartApply ==
  /\ outcome = "done"
  /\ pc = "idle"
  /\ \E m \in Modes, rules \in Profiles :
       Apply!validate(rules) /\ Apply!StartRun(entries, m, rules)
  /\ UNCHANGED vars

(* Every planRun starts from a fresh planState. *)
FreshPlanState ==
  /\ UNCHANGED strategies
  /\ stack' = <<[path |-> Base, depth |-> 1, at |-> "enter", left |-> 0]>>
  /\ outcome' = "planning"
  /\ entries' = <<>>
  /\ used' = {Base}
  /\ lastPath' = NoPath
  /\ filePaths' = {}
  /\ symlinkPaths' = {}
  /\ groupByPath' = [p \in Paths |-> NoPath]
  /\ groups' = [p \in Paths |-> {}]
  /\ wanted' = [p \in Paths |-> 0]

(* Run is called again on the same generator. *)
RunAgain ==
  /\ pc \in {"ok", "failed"}
  /\ run < MaxRuns
  /\ FreshPlanState
  /\ pc' = "idle"
  /\ UNCHANGED <<tree, run, plan, mode, profile, i, createdDirs, injector,
                 stats, points, fault>>

PipelineInit == Init /\ Apply!Init

PlanStep  == Next /\ UNCHANGED applyVars
ApplyStep == Apply!RunStep /\ UNCHANGED vars

PipelineNext == PlanStep \/ StartApply \/ ApplyStep \/ RunAgain

pipelineVars == <<vars, applyVars>>

PipelineSpec == PipelineInit /\ [][PipelineNext]_pipelineVars

-----------------------------------------------------------------------------
(* Properties *)

(***************************************************************************)
(* The links of the plan are the links on disk.  After a run that made all *)
(* of its plan two regular files share an inode if and only if the planner *)
(* put them in one group (registerHardlink against os.Link), also over the *)
(* tree of an earlier run; and after a replace run a symlink leads to a    *)
(* node unless it was planned to dangle (planSymlinkStrategy, planFile).   *)
(***************************************************************************)
LinksAsPlanned ==
  /\ (pc = "ok" /\ mode \in {"strict", "replace"}) =>
       \A p, q \in filePaths : p # q =>
         (tree[p].ino = tree[q].ino) <=> \E o \in Paths : {p, q} \subseteq groups[o]
  /\ (pc = "ok" /\ mode = "replace") =>
       \A k \in DOMAIN plan : plan[k].kind = "symlink" =>
         (tree[plan[k].target].kind = "none") <=> plan[k].via = "dangling"

=============================================================================
