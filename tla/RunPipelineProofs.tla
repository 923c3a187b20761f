------------------------- MODULE RunPipelineProofs -------------------------
(***************************************************************************)
(* Proofs about Planner and about RunPipeline, which runs its plans, for   *)
(* every value of their constants.                                         *)
(*                                                                         *)
(* Part one is the planner: whatever the generators return and however     *)
(* planning ends, the plan can be applied in order, keeps to the entry     *)
(* limit and leaves its dangling symlinks dangling.  A plan grows by one   *)
(* entry at a time, so the heart of the argument is AddEntry: what a new   *)
(* entry has to satisfy for the plan to stay sound.  The rest shows that   *)
(* every action of the planner meets that condition, for which the frames  *)
(* of planDir must be known to stand for directories that are planned, or  *)
(* for one that is reserved and about to be planned.                       *)
(*                                                                         *)
(* Part two is the pipeline: what the planner plans and what the apply     *)
(* pipeline makes of it fit together, for every tree found and any number  *)
(* of runs.  The proof puts the two halves side by side.  Part one knows   *)
(* what a finished plan is (PlanInv: well-formed, every link resolves or   *)
(* dangles, and the groups of hard links are the names with one root);     *)
(* ApplyPlanProofs knows what a run makes of any well-formed plan          *)
(* (ApplyInv, InodesRooted).  The two meet in the fact that the plan of a  *)
(* run is the finished plan of the planner until the generator is run      *)
(* again.                                                                  *)
(***************************************************************************)
EXTENDS RunPipeline, FiniteSetTheorems, TLAPS

-----------------------------------------------------------------------------
(***************************************************************************)
(* Part one: the planner.                                                  *)
(***************************************************************************)

Dangling(pl) == {k \in DOMAIN pl : pl[k].via = "dangling"}

PlannedAs(pl, kinds, p) == \E k \in DOMAIN pl : pl[k].kind \in kinds /\ pl[k].path = p

(* The plan pl is sound, given the reserved paths u and the files fp. *)
Sound(pl, u, fp) ==
  /\ WellFormedPlan(pl)
  /\ PathsOf(pl) \subseteq u
  /\ \A p \in fp : PlannedAs(pl, Regular, p)
  /\ \A k \in Dangling(pl) : pl[k].target \in u \ PathsOf(pl)

(* The path p is reserved for the directory that is planned next. *)
Entering(pl, u, p) ==
  /\ p \in u \ PathsOf(pl)
  /\ \A k \in Dangling(pl) : pl[k].target # p
  /\ pl = <<>> => p = Base
  /\ p # Base => PlannedAs(pl, {"dir"}, Dir[p])

(* The frames of planDir: only the innermost may still have to be planned. *)
FramesSound(stk, pl, u) ==
  \A k \in DOMAIN stk :
    IF stk[k].at = "enter" THEN k = 1 /\ Entering(pl, u, stk[k].path)
    ELSE PlannedAs(pl, {"dir"}, stk[k].path)

PlannerInv ==
  /\ TypeOK
  /\ Base \in used
  /\ Sound(entries, used, filePaths)
  /\ outcome = "planning" => FramesSound(stack, entries, used)
  /\ LimitExact

-----------------------------------------------------------------------------

(* What appending an entry does to a plan. *)
LEMMA AppendFacts ==
  ASSUME NEW pl \in Seq(Entry), NEW e \in Entry
  PROVE  /\ Append(pl, e) \in Seq(Entry)
         /\ Len(Append(pl, e)) = Len(pl) + 1
         /\ DOMAIN Append(pl, e) = 1 .. (Len(pl) + 1)
         /\ \A k \in 1 .. Len(pl) : Append(pl, e)[k] = pl[k]
         /\ Append(pl, e)[Len(pl) + 1] = e
         /\ PathsOf(Append(pl, e)) = PathsOf(pl) \cup {e.path}
         /\ \A kinds, p : PlannedAs(pl, kinds, p) => PlannedAs(Append(pl, e), kinds, p)
         /\ PlannedAs(Append(pl, e), {e.kind}, e.path)
<1> DEFINE q == Append(pl, e)
<1>1. /\ q \in Seq(Entry)
      /\ Len(q) = Len(pl) + 1
      /\ DOMAIN q = 1 .. (Len(pl) + 1)
      /\ \A k \in 1 .. Len(pl) : q[k] = pl[k]
      /\ q[Len(pl) + 1] = e
      /\ Len(pl) \in Nat
      /\ DOMAIN pl = 1 .. Len(pl)
  OBVIOUS
<1> HIDE DEF q
<1>2. PathsOf(q) = PathsOf(pl) \cup {e.path}
  BY <1>1 DEF PathsOf
<1>3. \A kinds, p : PlannedAs(pl, kinds, p) => PlannedAs(q, kinds, p)
  BY <1>1 DEF PlannedAs
<1>4. PlannedAs(q, {e.kind}, e.path)
  BY <1>1 DEF PlannedAs
<1> QED BY <1>1, <1>2, <1>3, <1>4 DEF q

(***************************************************************************)
(* A sound plan stays sound when an entry is appended whose path is        *)
(* reserved now and was not planned before, whose directory is planned     *)
(* and, for a hard link, whose target is a planned regular file.           *)
(***************************************************************************)
LEMMA AddEntry ==
  ASSUME NEW pl, NEW u, NEW v, NEW fp, NEW e \in Entry,
         Sound(pl, u, fp),
         u \subseteq v, e.path \in v, e.path \notin PathsOf(pl),
         \A k \in Dangling(pl) : pl[k].target # e.path,
         pl = <<>> => e.kind = "dir" /\ e.path = Base,
         e.path # Base => PlannedAs(pl, {"dir"}, Dir[e.path]),
         e.kind = "hardlink" => PlannedAs(pl, Regular, e.target),
         e.via = "dangling" => e.target \in v \ (PathsOf(pl) \cup {e.path})
  PROVE  /\ Sound(Append(pl, e), v, fp)
         /\ e.kind \in Regular => Sound(Append(pl, e), v, fp \cup {e.path})
<1> DEFINE q == Append(pl, e)
<1>0. pl \in Seq(Entry) /\ Len(pl) \in Nat /\ DOMAIN pl = 1 .. Len(pl)
  BY DEF Sound, WellFormedPlan
<1>1. /\ q \in Seq(Entry)
      /\ Len(q) = Len(pl) + 1
      /\ DOMAIN q = 1 .. (Len(pl) + 1)
      /\ \A k \in 1 .. Len(pl) : q[k] = pl[k]
      /\ q[Len(pl) + 1] = e
      /\ PathsOf(q) = PathsOf(pl) \cup {e.path}
      /\ \A kinds, p : PlannedAs(pl, kinds, p) => PlannedAs(q, kinds, p)
      /\ PlannedAs(q, {e.kind}, e.path)
  BY <1>0, AppendFacts
<1> HIDE DEF q
<1>2. RootFirst(q)
  BY <1>0, <1>1 DEF RootFirst, Sound, WellFormedPlan
<1>3. PathsDistinct(q)
  BY <1>0, <1>1 DEF PathsDistinct, PathsOf, Sound, WellFormedPlan
<1>4. ParentsFirst(q)
  BY <1>0, <1>1 DEF ParentsFirst, PlannedAs, Sound, WellFormedPlan
<1>5. LinksBackward(q)
  BY <1>0, <1>1 DEF LinksBackward, PlannedAs, Regular, Sound, WellFormedPlan
<1>6. WellFormedPlan(q)
  BY <1>1, <1>2, <1>3, <1>4, <1>5 DEF WellFormedPlan
<1>7. \A k \in Dangling(q) : q[k].target \in v \ PathsOf(q)
  BY <1>0, <1>1 DEF Dangling, Sound
<1>8. Sound(q, v, fp)
  BY <1>1, <1>6, <1>7 DEF Sound
<1>9. ASSUME e.kind \in Regular PROVE Sound(q, v, fp \cup {e.path})
  <2>1. PlannedAs(q, Regular, e.path)
    BY <1>1, <1>9 DEF PlannedAs
  <2> QED BY <1>8, <2>1 DEF Sound
<1> QED BY <1>8, <1>9 DEF q

(***************************************************************************)
(* The frames stay sound when the plan grows, unless the innermost one is  *)
(* the directory being planned.                                            *)
(***************************************************************************)
LEMMA FramesGrow ==
  ASSUME NEW stk, NEW pl \in Seq(Entry), NEW e \in Entry, NEW u, NEW v,
         FramesSound(stk, pl, u),
         \A k \in DOMAIN stk : stk[k].at # "enter"
  PROVE  FramesSound(stk, Append(pl, e), v)
BY AppendFacts DEF FramesSound

(* Replacing the innermost frame. *)
LEMMA ReplaceTop ==
  ASSUME NEW stk \in Seq(Frame), stk # <<>>, NEW f \in Frame
  PROVE  LET t == <<f>> \o Tail(stk)
         IN  /\ t \in Seq(Frame)
             /\ DOMAIN t = DOMAIN stk
             /\ t[1] = f
             /\ \A k \in DOMAIN t : k # 1 => t[k] = stk[k]
OBVIOUS

(* Calling planDir: a new innermost frame over a changed one. *)
LEMMA PushFrame ==
  ASSUME NEW stk \in Seq(Frame), stk # <<>>, NEW f \in Frame, NEW g \in Frame
  PROVE  LET t == <<f, g>> \o Tail(stk)
         IN  /\ t \in Seq(Frame)
             /\ DOMAIN t = 1 .. (Len(stk) + 1)
             /\ t[1] = f
             /\ t[2] = g
             /\ \A k \in DOMAIN t : k > 2 => t[k] = stk[k - 1] /\ k - 1 \in DOMAIN stk
OBVIOUS

(* Returning from planDir. *)
LEMMA PopFrame ==
  ASSUME NEW stk \in Seq(Frame), stk # <<>>
  PROVE  /\ Tail(stk) \in Seq(Frame)
         /\ \A k \in DOMAIN Tail(stk) : Tail(stk)[k] = stk[k + 1] /\ k + 1 \in DOMAIN stk
OBVIOUS

(* What is known when planDir is at one of its three places. *)
LEMMA AtPlace ==
  ASSUME PlannerInv, NEW place, In(place)
  PROVE  /\ outcome = "planning"
         /\ stack \in Seq(Frame) /\ stack # <<>> /\ Top \in Frame /\ 1 \in DOMAIN stack
         /\ Top.path \in Paths
         /\ entries \in Seq(Entry) /\ Len(entries) \in Nat
         /\ used \subseteq Paths
         /\ FramesSound(stack, entries, used)
         /\ place = "enter" => Entering(entries, used, Top.path)
         /\ place # "enter" => /\ PlannedAs(entries, {"dir"}, Top.path)
                               /\ entries # <<>>
                               /\ \A k \in DOMAIN stack : stack[k].at # "enter"
<1>1. /\ outcome = "planning" /\ stack \in Seq(Frame) /\ stack # <<>>
      /\ Top \in Frame /\ 1 \in DOMAIN stack
      /\ entries \in Seq(Entry) /\ Len(entries) \in Nat
      /\ used \subseteq Paths
      /\ Top.at = place
  BY DEF PlannerInv, TypeOK, In, Top
<1>2. Top.path \in Paths
  BY <1>1 DEF Frame
<1>3. FramesSound(stack, entries, used)
  BY <1>1 DEF PlannerInv
<1>4. place = "enter" => Entering(entries, used, Top.path)
  BY <1>1, <1>3 DEF FramesSound, Top
<1>5. ASSUME place # "enter"
      PROVE  /\ PlannedAs(entries, {"dir"}, Top.path)
             /\ entries # <<>>
             /\ \A k \in DOMAIN stack : stack[k].at # "enter"
  <2>1. PlannedAs(entries, {"dir"}, Top.path)
    BY <1>1, <1>3, <1>5 DEF FramesSound, Top
  <2>2. entries # <<>>
    BY <1>1, <2>1 DEF PlannedAs
  <2>3. \A k \in DOMAIN stack : stack[k].at # "enter"
    BY <1>1, <1>3, <1>5 DEF FramesSound, Top
  <2> QED BY <2>1, <2>2, <2>3
<1> QED BY <1>1, <1>2, <1>3, <1>4, <1>5

(* A fresh path for an entry of the directory being filled. *)
LEMMA FreshPath ==
  ASSUME PlannerInv, NEW place, In(place), NEW p \in Fresh(Top.path)
  PROVE  /\ p \in Paths /\ p # Base /\ p \notin used
         /\ p \notin PathsOf(entries)
         /\ Dir[p] = Top.path
         /\ \A k \in Dangling(entries) : entries[k].target # p
         /\ \A q \in filePaths : q # p
<1>1. p \in Paths /\ p # Base /\ p \notin used /\ Dir[p] = Top.path
  BY DEF Fresh, Children
<1>2. Sound(entries, used, filePaths)
  BY DEF PlannerInv
<1> QED BY <1>1, <1>2 DEF Sound, PlannedAs, PathsOf

(* An iteration of a loop of planDir keeps the frames sound. *)
LEMMA IterateFrames ==
  ASSUME NEW stk \in Seq(Frame), stk # <<>>, NEW f \in Frame, NEW pl, NEW u,
         FramesSound(stk, pl, u),
         f.path = stk[1].path, f.at # "enter",
         PlannedAs(pl, {"dir"}, f.path)
  PROVE  /\ <<f>> \o Tail(stk) \in Seq(Frame)
         /\ FramesSound(<<f>> \o Tail(stk), pl, u)
<1> DEFINE t == <<f>> \o Tail(stk)
<1>1. /\ t \in Seq(Frame)
      /\ DOMAIN t = DOMAIN stk
      /\ t[1] = f
      /\ \A k \in DOMAIN t : k # 1 => t[k] = stk[k]
  BY ReplaceTop
<1> HIDE DEF t
<1>2. FramesSound(t, pl, u)
  BY <1>1 DEF FramesSound
<1> QED BY <1>1, <1>2 DEF t

(* One more entry in the loop over files. *)
LEMMA FileEntry ==
  ASSUME PlannerInv, AtFile, NEW e \in Entry, NEW v, used \subseteq v,
         e.path \in Fresh(Top.path), e.path \in v,
         e.kind = "hardlink" => e.target \in filePaths,
         e.via = "dangling" => e.target \in v \ (used \cup {e.path})
  PROVE  /\ Append(entries, e) \in Seq(Entry)
         /\ Len(Append(entries, e)) = Len(entries) + 1
         /\ PathsOf(Append(entries, e)) = PathsOf(entries) \cup {e.path}
         /\ Sound(Append(entries, e), v, filePaths)
         /\ e.kind \in Regular => Sound(Append(entries, e), v, filePaths \cup {e.path})
         /\ FramesSound(stack, Append(entries, e), v)
         /\ PlannedAs(Append(entries, e), {"dir"}, Top.path)
<1>0. In("files")
  BY DEF AtFile
<1>1. /\ entries \in Seq(Entry) /\ entries # <<>>
      /\ FramesSound(stack, entries, used)
      /\ \A k \in DOMAIN stack : stack[k].at # "enter"
      /\ PlannedAs(entries, {"dir"}, Top.path)
  BY <1>0, AtPlace
<1>2. /\ e.path \in Paths /\ e.path # Base /\ e.path \notin used
      /\ e.path \notin PathsOf(entries)
      /\ Dir[e.path] = Top.path
      /\ \A k \in Dangling(entries) : entries[k].target # e.path
  BY <1>0, FreshPath
<1>3. Sound(entries, used, filePaths)
  BY DEF PlannerInv
<1>4. /\ e.kind = "hardlink" => PlannedAs(entries, Regular, e.target)
      /\ e.via = "dangling" => e.target \in v \ (PathsOf(entries) \cup {e.path})
  BY <1>3 DEF Sound
<1>5. /\ Sound(Append(entries, e), v, filePaths)
      /\ e.kind \in Regular => Sound(Append(entries, e), v, filePaths \cup {e.path})
  BY <1>1, <1>2, <1>3, <1>4, AddEntry
<1>6. FramesSound(stack, Append(entries, e), v)
  BY <1>1, FramesGrow
<1> QED BY <1>1, <1>5, <1>6, AppendFacts

(* The symlink that follows an entry just added, in the same iteration. *)
LEMMA FollowingSymlink ==
  ASSUME PlannerInv, AtFile, NEW pl \in Seq(Entry), NEW v, NEW fp, NEW e \in Entry,
         Sound(pl, v, fp), FramesSound(stack, pl, v),
         PlannedAs(pl, {"dir"}, Top.path),
         e.kind = "symlink", e.via # "dangling",
         e.path \in v \ PathsOf(pl), e.path \in Fresh(Top.path),
         \A k \in Dangling(pl) : pl[k].target # e.path
  PROVE  /\ Append(pl, e) \in Seq(Entry)
         /\ Len(Append(pl, e)) = Len(pl) + 1
         /\ Sound(Append(pl, e), v, fp)
         /\ FramesSound(stack, Append(pl, e), v)
         /\ PlannedAs(Append(pl, e), {"dir"}, Top.path)
<1>1. /\ In("files")
      /\ \A k \in DOMAIN stack : stack[k].at # "enter"
  BY AtPlace DEF AtFile
<1>2. e.path # Base /\ Dir[e.path] = Top.path
  BY DEF Fresh, Children
<1>3. pl # <<>>
  BY DEF PlannedAs
<1>4. Sound(Append(pl, e), v, fp)
  BY <1>2, <1>3, AddEntry
<1>5. FramesSound(stack, Append(pl, e), v)
  BY <1>1, FramesGrow
<1> QED BY <1>4, <1>5, AppendFacts

(* The end of an iteration of the loop over files. *)
LEMMA FileIteration ==
  ASSUME PlannerInv, AtFile, Iterate, NEW pl, NEW v,
         FramesSound(stack, pl, v), PlannedAs(pl, {"dir"}, Top.path)
  PROVE  stack' \in Seq(Frame) /\ FramesSound(stack', pl, v)
<1>1. stack \in Seq(Frame) /\ stack # <<>> /\ Top \in Frame
  BY AtPlace DEF AtFile
<1>2. Top.at = "files" /\ Top.left > 0
  BY DEF AtFile, In
<1> DEFINE f == [Top EXCEPT !.left = @ - 1]
<1>3. f \in Frame /\ f.path = stack[1].path /\ f.at # "enter" /\ f.path = Top.path
  BY <1>1, <1>2 DEF Frame, Top
<1> HIDE DEF f
<1>4. <<f>> \o Tail(stack) \in Seq(Frame) /\ FramesSound(<<f>> \o Tail(stack), pl, v)
  BY <1>1, <1>3, IterateFrames
<1> QED BY <1>4 DEF Iterate, f

-----------------------------------------------------------------------------

(* The invariant holds initially. *)
LEMMA PlannerInvInit == Init => PlannerInv
<1> SUFFICES ASSUME Init PROVE PlannerInv
  OBVIOUS
<1> USE PathAssumption, PlannerAssumption
<1>1. TypeOK
  BY DEF Init, TypeOK, Frame, Outcomes
<1>2. Base \in used
  BY DEF Init
<1>3. Sound(entries, used, filePaths)
  BY DEF Init, Sound, WellFormedPlan, PathsOf, RootFirst, PathsDistinct,
         ParentsFirst, LinksBackward, Dangling
<1>4. FramesSound(stack, entries, used)
  BY DEF Init, FramesSound, Entering, PathsOf, Dangling
<1>5. LimitExact
  BY DEF Init, LimitExact
<1> QED BY <1>1, <1>2, <1>3, <1>4, <1>5 DEF PlannerInv

(***************************************************************************)
(* Actions that plan a symlink, a special file or a regular file: one or   *)
(* two entries, then the next iteration.                                   *)
(***************************************************************************)
LEMMA SymlinkActions ==
  ASSUME PlannerInv, PlanSymlink \/ PlanDangling \/ PlanSelfReferential
  PROVE  PlannerInv'
<1> USE PathAssumption, PlannerAssumption
<1>1. PICK p \in Fresh(Top.path), t \in Paths, via \in Strategies \cup {"last"},
           v \in SUBSET Paths :
        /\ AtFile /\ Room(1)
        /\ used \subseteq v /\ p \in v
        /\ via = "dangling" => t \in v \ (used \cup {p})
        /\ used' = v
        /\ entries' = Append(entries, Symlink(p, t, via))
        /\ AddSymlinks({p})
  <2>0. used \subseteq Paths /\ filePaths \subseteq Paths /\ symlinkPaths \subseteq Paths
        /\ lastPath \in Paths \cup {NoPath}
    BY DEF PlannerInv, TypeOK
  <2>1. CASE PlanSymlink
    <3>1. PICK via \in SymlinkForms : \E t \in Targets(via), p \in Fresh(Top.path) :
            /\ used' = used \cup {p}
            /\ entries' = Append(entries, Symlink(p, t, via))
            /\ AddSymlinks({p})
      BY <2>1 DEF PlanSymlink
    <3>2. via \in {"absolute", "relative", "chained", "last"}
      BY <3>1 DEF SymlinkForms
    <3>3. Targets(via) \subseteq Paths
      BY <2>0, <3>2 DEF Targets
    <3>4. AtFile /\ Room(1)
      BY <2>1 DEF PlanSymlink
    <3>5. PICK t \in Targets(via), p \in Fresh(Top.path) :
            /\ used' = used \cup {p}
            /\ entries' = Append(entries, Symlink(p, t, via))
            /\ AddSymlinks({p})
      BY <3>1
    <3>6. t \in Paths /\ via \in Strategies \cup {"last"} /\ via # "dangling"
      BY <3>2, <3>3 DEF Strategies
    <3>7. used \cup {p} \in SUBSET Paths
      BY <2>0 DEF Fresh, Children
    <3> QED BY <3>4, <3>5, <3>6, <3>7
  <2>2. CASE PlanDangling
    <3>1. PICK t, p \in Fresh(Top.path) :
            /\ t # p
            /\ used' = used \cup {t, p}
            /\ entries' = Append(entries, Symlink(p, t, "dangling"))
            /\ AddSymlinks({p})
      BY <2>2 DEF PlanDangling
    <3>2. t \in Paths /\ p \in Paths /\ t \notin used
      BY DEF Fresh, Children
    <3>3. used \cup {t, p} \in SUBSET Paths /\ t \in (used \cup {t, p}) \ (used \cup {p})
      BY <2>0, <3>1, <3>2
    <3>4. AtFile /\ Room(1) /\ "dangling" \in Strategies
      BY <2>2 DEF PlanDangling, Strategies
    <3> QED BY <3>1, <3>2, <3>3, <3>4
  <2>3. CASE PlanSelfReferential
    BY <2>0, <2>3 DEF PlanSelfReferential, Strategies, Fresh, Children
  <2> QED BY <2>1, <2>2, <2>3
<1> DEFINE e == Symlink(p, t, via)
<1>2. e \in Entry /\ e.path = p /\ e.kind = "symlink" /\ e.target = t /\ e.via = via
  BY DEF Entry, Symlink, Entry5, EntryKinds, Origins, Fresh, Children
<1> HIDE DEF e
<1>3. /\ Append(entries, e) \in Seq(Entry)
      /\ Len(Append(entries, e)) = Len(entries) + 1
      /\ Sound(Append(entries, e), v, filePaths)
      /\ FramesSound(stack, Append(entries, e), v)
      /\ PlannedAs(Append(entries, e), {"dir"}, Top.path)
  BY <1>1, <1>2, FileEntry
<1>4. entries' = Append(entries, e) /\ used' = v /\ filePaths' = filePaths
  BY <1>1 DEF e, AddSymlinks
<1>5. stack' \in Seq(Frame) /\ FramesSound(stack', entries', used')
  BY <1>1, <1>3, <1>4, FileIteration DEF AddSymlinks
<1>6. TypeOK'
  BY <1>1, <1>3, <1>4, <1>5 DEF PlannerInv, TypeOK, AddSymlinks, linkVars, Fresh, Children
<1>7. LimitExact'
  BY <1>1, <1>3, <1>4 DEF LimitExact, Room, AddSymlinks, AtFile, In
<1> QED BY <1>1, <1>3, <1>4, <1>5, <1>6, <1>7 DEF PlannerInv

(* A planned hard link names a path already planned as a regular file. *)
LEMMA HardlinkAction == ASSUME PlannerInv, PlanHardlink PROVE PlannerInv'
<1> USE PathAssumption, PlannerAssumption
<1>1. PICK t \in filePaths, p \in Fresh(Top.path) :
        /\ used' = used \cup {p}
        /\ entries' = Append(entries, Entry5("hardlink", p, t, {}, "none"))
        /\ filePaths' = filePaths \cup {p}
        /\ lastPath' = p
        /\ groupByPath' = [groupByPath EXCEPT ![t] = GroupOrigin(t), ![p] = GroupOrigin(t)]
        /\ groups' = [groups EXCEPT ![GroupOrigin(t)] = @ \cup {t, p}]
  BY DEF PlanHardlink
<1>2. AtFile /\ Room(1) /\ Iterate /\ UNCHANGED <<strategies, outcome, symlinkPaths, wanted>>
  BY DEF PlanHardlink
<1>3. /\ used \subseteq Paths /\ filePaths \subseteq Paths /\ t \in Paths /\ p \in Paths
      /\ groupByPath \in [Paths -> Paths \cup {NoPath}]
      /\ groups \in [Paths -> SUBSET Paths]
  BY DEF PlannerInv, TypeOK, Fresh, Children
<1>4. GroupOrigin(t) \in Paths
  BY <1>3 DEF GroupOrigin
<1> DEFINE e == Entry5("hardlink", p, t, {}, "none")
<1>5. e \in Entry /\ e.path = p /\ e.kind = "hardlink" /\ e.target = t /\ e.via = "none"
  BY <1>3 DEF Entry, Entry5, EntryKinds, Origins
<1>6. entries' = Append(entries, e)
  BY <1>1
<1>v. PICK v : v = used' /\ used \subseteq v /\ p \in v
  BY <1>1
<1> HIDE DEF e
<1>7. /\ Append(entries, e) \in Seq(Entry)
      /\ Len(Append(entries, e)) = Len(entries) + 1
      /\ Sound(Append(entries, e), v, filePaths')
      /\ FramesSound(stack, Append(entries, e), v)
      /\ PlannedAs(Append(entries, e), {"dir"}, Top.path)
  BY <1>1, <1>2, <1>5, <1>v, FileEntry DEF Regular
<1>8. stack' \in Seq(Frame) /\ FramesSound(stack', entries', v)
  BY <1>2, <1>6, <1>7, FileIteration
<1>9. groupByPath' \in [Paths -> Paths \cup {NoPath}] /\ groups' \in [Paths -> SUBSET Paths]
  BY <1>1, <1>3, <1>4
<1>10. TypeOK'
  BY <1>1, <1>2, <1>3, <1>6, <1>7, <1>8, <1>9 DEF PlannerInv, TypeOK
<1>11. LimitExact'
  BY <1>2, <1>6, <1>7 DEF LimitExact, Room, AtFile, In
<1> QED BY <1>1, <1>6, <1>v, <1>7, <1>8, <1>10, <1>11 DEF PlannerInv

(* A special file is one more entry with a fresh path. *)
LEMMA SpecialAction == ASSUME PlannerInv, PlanSpecial PROVE PlannerInv'
<1> USE PathAssumption, PlannerAssumption
<1>1. PICK kind \in SpecialSet, p \in Fresh(Top.path) :
        /\ used' = used \cup {p}
        /\ entries' = Append(entries, Entry5(kind, p, NoPath, {"mode"}, "none"))
        /\ lastPath' = p
  BY DEF PlanSpecial
<1>2. /\ AtFile /\ Room(1) /\ Iterate
      /\ UNCHANGED <<outcome, filePaths, symlinkPaths, linkVars, wanted>>
  BY DEF PlanSpecial
<1>3. used \subseteq Paths /\ p \in Paths
  BY DEF PlannerInv, TypeOK, Fresh, Children
<1> DEFINE e == Entry5(kind, p, NoPath, {"mode"}, "none")
<1>4. e \in Entry /\ e.path = p /\ e.kind # "hardlink" /\ e.via = "none"
  BY <1>3 DEF Entry, Entry5, EntryKinds, SpecialKinds, Origins, Attrs
<1>5. entries' = Append(entries, e)
  BY <1>1
<1>v. PICK v : v = used' /\ used \subseteq v /\ p \in v
  BY <1>1
<1> HIDE DEF e
<1>6. /\ Append(entries, e) \in Seq(Entry)
      /\ Len(Append(entries, e)) = Len(entries) + 1
      /\ Sound(Append(entries, e), v, filePaths)
      /\ FramesSound(stack, Append(entries, e), v)
      /\ PlannedAs(Append(entries, e), {"dir"}, Top.path)
  BY <1>1, <1>2, <1>4, <1>v, FileEntry
<1>7. stack' \in Seq(Frame) /\ FramesSound(stack', entries', v)
  BY <1>2, <1>5, <1>6, FileIteration
<1>8. TypeOK'
  BY <1>1, <1>2, <1>3, <1>5, <1>6, <1>7 DEF PlannerInv, TypeOK, linkVars
<1>9. LimitExact'
  BY <1>2, <1>5, <1>6 DEF LimitExact, Room, AtFile, In
<1> QED BY <1>1, <1>2, <1>5, <1>v, <1>6, <1>7, <1>8, <1>9 DEF PlannerInv

(* A regular file, as PlanFile, PlanFileWithLink and PlanFileLinkFails add it. *)
LEMMA FileAdded ==
  ASSUME PlannerInv, AtFile, NEW p \in Fresh(Top.path), NEW attrs \in AttrSets,
         NEW v, used \subseteq v, p \in v
  PROVE  LET q == Append(entries, Entry5("file", p, NoPath, attrs, "none"))
         IN  /\ q \in Seq(Entry)
             /\ Len(q) = Len(entries) + 1
             /\ PathsOf(q) = PathsOf(entries) \cup {p}
             /\ \A k \in Dangling(q) : q[k].target \in used
             /\ Sound(q, v, filePaths \cup {p})
             /\ FramesSound(stack, q, v)
             /\ PlannedAs(q, {"dir"}, Top.path)
<1> USE PathAssumption, PlannerAssumption
<1> DEFINE e == Entry5("file", p, NoPath, attrs, "none")
<1>1. e \in Entry /\ e.path = p /\ e.kind = "file" /\ e.via = "none"
  BY DEF Entry, Entry5, EntryKinds, Origins, Fresh, Children
<1>2. entries \in Seq(Entry) /\ Sound(entries, used, filePaths)
  BY DEF PlannerInv, TypeOK
<1> HIDE DEF e
<1>3. \A k \in Dangling(Append(entries, e)) : Append(entries, e)[k].target \in used
  BY <1>1, <1>2, AppendFacts DEF Dangling, Sound
<1>4. /\ Append(entries, e) \in Seq(Entry)
      /\ Len(Append(entries, e)) = Len(entries) + 1
      /\ PathsOf(Append(entries, e)) = PathsOf(entries) \cup {p}
      /\ Sound(Append(entries, e), v, filePaths \cup {p})
      /\ FramesSound(stack, Append(entries, e), v)
      /\ PlannedAs(Append(entries, e), {"dir"}, Top.path)
  BY <1>1, FileEntry DEF Regular
<1> QED BY <1>3, <1>4 DEF e

(* A regular file is one more entry with a fresh path (planFile). *)
LEMMA FileAction == ASSUME PlannerInv, PlanFile PROVE PlannerInv'
<1> USE PathAssumption, PlannerAssumption
<1>1. PICK p \in Fresh(Top.path), attrs \in AttrSets :
        /\ used' = used \cup {p}
        /\ entries' = Append(entries, Entry5("file", p, NoPath, attrs, "none"))
        /\ filePaths' = filePaths \cup {p}
        /\ lastPath' = p
  BY DEF PlanFile
<1>2. AtFile /\ Room(1) /\ Iterate /\ UNCHANGED <<outcome, symlinkPaths, linkVars, wanted>>
  BY DEF PlanFile
<1>3. used \subseteq Paths /\ p \in Paths /\ filePaths \subseteq Paths
  BY DEF PlannerInv, TypeOK, Fresh, Children
<1>4. PICK v : v = used' /\ used \subseteq v /\ p \in v
  <2>1. used \subseteq used' /\ p \in used'
    BY <1>1
  <2> QED BY <2>1
<1>5. /\ entries' \in Seq(Entry) /\ Len(entries') = Len(entries) + 1
      /\ Sound(entries', v, filePaths')
      /\ FramesSound(stack, entries', v)
      /\ PlannedAs(entries', {"dir"}, Top.path)
  BY <1>1, <1>2, <1>4, FileAdded
<1>6. stack' \in Seq(Frame) /\ FramesSound(stack', entries', v)
  BY <1>2, <1>5, FileIteration
<1>7. TypeOK'
  BY <1>1, <1>2, <1>3, <1>5, <1>6 DEF PlannerInv, TypeOK, linkVars
<1>8. LimitExact'
  BY <1>2, <1>5 DEF LimitExact, Room, AtFile, In
<1> QED BY <1>1, <1>2, <1>4, <1>5, <1>6, <1>7, <1>8 DEF PlannerInv

(* A regular file and the symlink planFile puts beside it. *)
LEMMA FileWithLinkAction == ASSUME PlannerInv, PlanFileWithLink PROVE PlannerInv'
<1> USE PathAssumption, PlannerAssumption
<1>1. PICK p \in Fresh(Top.path), s \in Fresh(Top.path), attrs \in AttrSets :
        /\ p # s
        /\ used' = used \cup {p, s}
        /\ entries' = entries \o <<Entry5("file", p, NoPath, attrs, "none"),
                                   Symlink(s, p, "beside")>>
        /\ filePaths' = filePaths \cup {p}
        /\ symlinkPaths' = symlinkPaths \cup {s}
        /\ lastPath' = p
  BY DEF PlanFileWithLink
<1>2. AtFile /\ Room(2) /\ Iterate /\ UNCHANGED <<outcome, linkVars, wanted>>
  BY DEF PlanFileWithLink
<1>3. /\ used \subseteq Paths /\ p \in Paths /\ s \in Paths /\ s \notin used
      /\ filePaths \subseteq Paths /\ symlinkPaths \subseteq Paths
      /\ entries \in Seq(Entry) /\ s \notin PathsOf(entries)
  BY DEF PlannerInv, TypeOK, Sound, Fresh, Children
<1>4. PICK v : v = used' /\ used \subseteq v /\ p \in v /\ s \in v
  BY <1>1
<1> DEFINE q == Append(entries, Entry5("file", p, NoPath, attrs, "none"))
           e == Symlink(s, p, "beside")
<1>5. /\ q \in Seq(Entry) /\ Len(q) = Len(entries) + 1
      /\ PathsOf(q) = PathsOf(entries) \cup {p}
      /\ \A k \in Dangling(q) : q[k].target \in used
      /\ Sound(q, v, filePaths \cup {p})
      /\ FramesSound(stack, q, v)
      /\ PlannedAs(q, {"dir"}, Top.path)
  BY <1>2, <1>4, FileAdded
<1>6. entries' = Append(q, e)
  BY <1>1, <1>3
<1>7. /\ e \in Entry /\ e.kind = "symlink" /\ e.via # "dangling" /\ e.path = s
      /\ e.path \in Fresh(Top.path)
  BY <1>3 DEF Entry, Symlink, Entry5, EntryKinds, Origins
<1> HIDE DEF q, e
<1>8. e.path \in v \ PathsOf(q) /\ \A k \in Dangling(q) : q[k].target # e.path
  BY <1>1, <1>3, <1>4, <1>5, <1>7
<1>9. /\ entries' \in Seq(Entry) /\ Len(entries') = Len(entries) + 2
      /\ Sound(entries', v, filePaths')
      /\ FramesSound(stack, entries', v)
      /\ PlannedAs(entries', {"dir"}, Top.path)
  <2>1. /\ Append(q, e) \in Seq(Entry)
        /\ Len(Append(q, e)) = Len(q) + 1
        /\ Sound(Append(q, e), v, filePaths \cup {p})
        /\ FramesSound(stack, Append(q, e), v)
        /\ PlannedAs(Append(q, e), {"dir"}, Top.path)
    BY <1>2, <1>5, <1>7, <1>8, FollowingSymlink
  <2>2. Len(entries) \in Nat /\ filePaths' = filePaths \cup {p}
    BY <1>1, <1>3
  <2>3. Len(entries') = Len(entries) + 2
    BY <1>5, <1>6, <2>1, <2>2
  <2> QED BY <1>6, <2>1, <2>2, <2>3
<1>10. stack' \in Seq(Frame) /\ FramesSound(stack', entries', v)
  BY <1>2, <1>9, FileIteration
<1>11. TypeOK'
  BY <1>1, <1>2, <1>3, <1>9, <1>10 DEF PlannerInv, TypeOK, linkVars
<1>12. LimitExact'
  BY <1>2, <1>9 DEF LimitExact, Room, AtFile, In
<1> QED BY <1>1, <1>2, <1>4, <1>9, <1>10, <1>11, <1>12 DEF PlannerInv

(* The two links of a cycle take two different fresh paths. *)
LEMMA CycleAction == ASSUME PlannerInv, PlanCycle PROVE PlannerInv'
<1> USE PathAssumption, PlannerAssumption
<1>1. PICK p \in Fresh(Top.path), s \in Fresh(Top.path) :
        /\ p # s
        /\ used' = used \cup {p, s}
        /\ entries' = entries \o Cycle(p, s)
        /\ AddSymlinks({p, s})
  BY DEF PlanCycle
<1>2. AtFile /\ Room(2)
  BY DEF PlanCycle
<1>3. /\ used \subseteq Paths /\ p \in Paths /\ s \in Paths /\ s \notin used
      /\ symlinkPaths \subseteq Paths
      /\ entries \in Seq(Entry) /\ Len(entries) \in Nat /\ s \notin PathsOf(entries)
      /\ Sound(entries, used, filePaths)
  BY DEF PlannerInv, TypeOK, Sound, Fresh, Children
<1>4. PICK v : v = used' /\ used \subseteq v /\ p \in v /\ s \in v
  BY <1>1
<1> DEFINE d == Symlink(p, s, "cycle")
           e == Symlink(s, p, "cycle")
           q == Append(entries, d)
<1>5. entries' = Append(q, e)
  BY <1>1, <1>3 DEF Cycle
<1>6. /\ d \in Entry /\ d.kind = "symlink" /\ d.via = "cycle" /\ d.path = p
      /\ e \in Entry /\ e.kind = "symlink" /\ e.via = "cycle" /\ e.path = s
  BY <1>3 DEF Entry, Symlink, Entry5, EntryKinds, Origins, Strategies
<1> HIDE DEF d, e
<1>7. /\ q \in Seq(Entry) /\ Len(q) = Len(entries) + 1
      /\ PathsOf(q) = PathsOf(entries) \cup {p}
      /\ Sound(q, v, filePaths)
      /\ FramesSound(stack, q, v)
      /\ PlannedAs(q, {"dir"}, Top.path)
  BY <1>2, <1>4, <1>6, FileEntry
<1>8. \A k \in Dangling(q) : q[k].target \in used
  BY <1>3, <1>6, AppendFacts DEF Dangling, Sound
<1> HIDE DEF q
<1>9. e.path \in v \ PathsOf(q) /\ \A k \in Dangling(q) : q[k].target # e.path
  BY <1>1, <1>3, <1>4, <1>6, <1>7, <1>8
<1>10. /\ Append(q, e) \in Seq(Entry)
       /\ Len(Append(q, e)) = Len(q) + 1
       /\ Sound(Append(q, e), v, filePaths)
       /\ FramesSound(stack, Append(q, e), v)
       /\ PlannedAs(Append(q, e), {"dir"}, Top.path)
  BY <1>2, <1>6, <1>7, <1>9, FollowingSymlink
<1>11. entries' \in Seq(Entry) /\ Len(entries') = Len(entries) + 2
  BY <1>3, <1>5, <1>7, <1>10
<1>12. stack' \in Seq(Frame) /\ FramesSound(stack', entries', v)
  BY <1>1, <1>2, <1>5, <1>10, FileIteration DEF AddSymlinks
<1>13. TypeOK'
  BY <1>1, <1>3, <1>11, <1>12 DEF PlannerInv, TypeOK, linkVars, AddSymlinks
<1>14. LimitExact'
  BY <1>1, <1>2, <1>11 DEF LimitExact, Room, AtFile, In, AddSymlinks
<1>15. Base \in used'
  BY <1>1 DEF PlannerInv
<1> QED BY <1>1, <1>4, <1>5, <1>10, <1>12, <1>13, <1>14, <1>15 DEF PlannerInv, AddSymlinks

(* Actions that end planning with an error and add no entry. *)
LEMMA FailingActions ==
  ASSUME PlannerInv,
         PlanDeviceFails \/ PlanFileFails \/ LimitReached
           \/ SecondNameExhausted \/ NamesExhausted
  PROVE  PlannerInv'
<1> USE PathAssumption, PlannerAssumption
<1>1. /\ entries' = entries /\ used \subseteq used' /\ used' \subseteq Paths
      /\ outcome' \in {"device", "generator", "limit", "collision"}
      /\ outcome' = "limit" => ~ Room(1)
      /\ UNCHANGED <<stack, filePaths, symlinkPaths, lastPath, linkVars, wanted>>
  <2>0. used \subseteq Paths
    BY DEF PlannerInv, TypeOK
  <2>1. CASE PlanDeviceFails
    BY <2>0, <2>1 DEF PlanDeviceFails, Fail, Fresh, Children
  <2>2. CASE PlanFileFails
    BY <2>0, <2>2 DEF PlanFileFails, Fail, Fresh, Children
  <2>3. CASE LimitReached
    BY <2>0, <2>3 DEF LimitReached, Fail, Fresh, Children
  <2>4. CASE SecondNameExhausted
    BY <2>0, <2>4 DEF SecondNameExhausted, Fail, Fresh, Children
  <2>5. CASE NamesExhausted
    BY <2>0, <2>5 DEF NamesExhausted, Fail
  <2> QED BY <2>1, <2>2, <2>3, <2>4, <2>5
<1>2. TypeOK'
  BY <1>1 DEF PlannerInv, TypeOK, Outcomes, linkVars
<1>3. Sound(entries', used', filePaths') /\ Base \in used'
  BY <1>1 DEF PlannerInv, Sound
<1>4. LimitExact'
  BY <1>1 DEF PlannerInv, TypeOK, LimitExact, Room
<1> QED BY <1>1, <1>2, <1>3, <1>4 DEF PlannerInv

(* A cycle cut by the limit leaves its first link and a full plan. *)
LEMMA HalfCycleAction == ASSUME PlannerInv, PlanHalfCycle PROVE PlannerInv'
<1> USE PathAssumption, PlannerAssumption
<1>1. PICK p \in Fresh(Top.path), s \in Fresh(Top.path) :
        /\ used' = used \cup {p, s}
        /\ entries' = Append(entries, Symlink(p, s, "cycle"))
  BY DEF PlanHalfCycle
<1>2. /\ AtFile /\ Room(1) /\ ~ Room(2) /\ outcome' = "limit"
      /\ UNCHANGED <<stack, filePaths, symlinkPaths, lastPath, linkVars, wanted>>
  BY DEF PlanHalfCycle, Fail
<1>3. used \subseteq Paths /\ p \in Paths /\ s \in Paths /\ Len(entries) \in Nat
  BY DEF PlannerInv, TypeOK, Fresh, Children
<1>4. PICK v : v = used' /\ used \subseteq v /\ p \in v
  <2>1. used \subseteq used' /\ p \in used'
    BY <1>1
  <2> QED BY <2>1
<1> DEFINE e == Symlink(p, s, "cycle")
<1>5. e \in Entry /\ e.path = p /\ e.kind = "symlink" /\ e.via = "cycle"
  BY <1>3 DEF Entry, Symlink, Entry5, EntryKinds, Origins, Strategies
<1>6. entries' = Append(entries, e)
  BY <1>1
<1> HIDE DEF e
<1>7. /\ Append(entries, e) \in Seq(Entry)
      /\ Len(Append(entries, e)) = Len(entries) + 1
      /\ Sound(Append(entries, e), v, filePaths)
  BY <1>2, <1>4, <1>5, FileEntry
<1>8. TypeOK'
  BY <1>1, <1>2, <1>3, <1>6, <1>7 DEF PlannerInv, TypeOK, Outcomes, linkVars
<1>9. LimitExact'
  BY <1>2, <1>3, <1>6, <1>7 DEF LimitExact, Room
<1>10. Base \in used'
  BY <1>1 DEF PlannerInv
<1> QED BY <1>2, <1>4, <1>6, <1>7, <1>8, <1>9, <1>10 DEF PlannerInv

(* A file whose symlink fails leaves a plan that is still sound. *)
LEMMA FileLinkFailsAction == ASSUME PlannerInv, PlanFileLinkFails PROVE PlannerInv'
<1> USE PathAssumption, PlannerAssumption
<1>1. PICK p \in Fresh(Top.path), s \in Fresh(Top.path), attrs \in AttrSets :
        /\ \/ ~ Room(2) /\ outcome' = "limit"
           \/ outcome' = "collision"
        /\ used' = used \cup {p, s}
        /\ entries' = Append(entries, Entry5("file", p, NoPath, attrs, "none"))
        /\ filePaths' = filePaths \cup {p}
        /\ lastPath' = p
  BY DEF PlanFileLinkFails
<1>2. AtFile /\ Room(1) /\ UNCHANGED <<stack, symlinkPaths, linkVars, wanted>>
  BY DEF PlanFileLinkFails
<1>3. /\ used \subseteq Paths /\ p \in Paths /\ s \in Paths /\ Len(entries) \in Nat
      /\ filePaths \subseteq Paths
  BY DEF PlannerInv, TypeOK, Fresh, Children
<1>4. PICK v : v = used' /\ used \subseteq v /\ p \in v
  <2>1. used \subseteq used' /\ p \in used'
    BY <1>1
  <2> QED BY <2>1
<1>5. /\ entries' \in Seq(Entry) /\ Len(entries') = Len(entries) + 1
      /\ Sound(entries', v, filePaths')
  BY <1>1, <1>2, <1>4, FileAdded
<1>6. TypeOK'
  BY <1>1, <1>2, <1>3, <1>5 DEF PlannerInv, TypeOK, Outcomes, linkVars
<1>7. LimitExact'
  BY <1>1, <1>2, <1>3, <1>5 DEF LimitExact, Room
<1>8. Base \in used' /\ outcome' # "planning"
  BY <1>1 DEF PlannerInv
<1> QED BY <1>4, <1>5, <1>6, <1>7, <1>8 DEF PlannerInv

(* The directory whose turn has come becomes an entry. *)
LEMMA DirAdded ==
  ASSUME PlannerInv, In("enter"), NEW attrs \in SUBSET Attrs
  PROVE  LET q == Append(entries, Entry5("dir", Top.path, NoPath, attrs, "none"))
         IN  /\ q \in Seq(Entry)
             /\ Len(q) = Len(entries) + 1
             /\ Sound(q, used, filePaths)
             /\ PlannedAs(q, {"dir"}, Top.path)
             /\ \A p : PlannedAs(entries, {"dir"}, p) => PlannedAs(q, {"dir"}, p)
<1> USE PathAssumption
<1> DEFINE e == Entry5("dir", Top.path, NoPath, attrs, "none")
<1>1. /\ entries \in Seq(Entry) /\ Top.path \in Paths
      /\ Entering(entries, used, Top.path)
      /\ Sound(entries, used, filePaths)
  BY AtPlace DEF PlannerInv
<1>2. e \in Entry /\ e.path = Top.path /\ e.kind = "dir" /\ e.via = "none"
  BY <1>1 DEF Entry, Entry5, EntryKinds, Origins
<1> HIDE DEF e
<1>3. Sound(Append(entries, e), used, filePaths)
  BY <1>1, <1>2, AddEntry DEF Entering
<1>4. /\ Append(entries, e) \in Seq(Entry)
      /\ Len(Append(entries, e)) = Len(entries) + 1
      /\ PlannedAs(Append(entries, e), {"dir"}, Top.path)
      /\ \A p : PlannedAs(entries, {"dir"}, p) => PlannedAs(Append(entries, e), {"dir"}, p)
  BY <1>1, <1>2, AppendFacts
<1> QED BY <1>3, <1>4 DEF e

(* The directory at the innermost frame is planned before what it holds. *)
LEMMA EnterActions ==
  ASSUME PlannerInv, EnterDir \/ EnterDirFails
  PROVE  PlannerInv'
<1> USE PathAssumption, PlannerAssumption
<1>0. In("enter") /\ used' = used /\ filePaths' = filePaths /\ Base \in used
  BY DEF EnterDir, EnterDirFails, Fail, PlannerInv
<1>1. /\ stack \in Seq(Frame) /\ stack # <<>> /\ Top \in Frame
      /\ Len(entries) \in Nat
      /\ FramesSound(stack, entries, used)
  BY <1>0, AtPlace
<1>2. CASE EnterDir
  <2>1. PICK attrs \in AttrSets, n \in DirCounts :
          /\ entries' = Append(entries, Entry5("dir", Top.path, NoPath, attrs, "none"))
          /\ stack' = <<[Top EXCEPT !.at = "dirs", !.left = n]>> \o Tail(stack)
    BY <1>2 DEF EnterDir
  <2>2. /\ Room(1)
        /\ UNCHANGED <<outcome, used, lastPath, filePaths, symlinkPaths, linkVars, wanted>>
    BY <1>2 DEF EnterDir
  <2>3. attrs \in SUBSET Attrs
    OBVIOUS
  <2>4. /\ entries' \in Seq(Entry) /\ Len(entries') = Len(entries) + 1
        /\ Sound(entries', used, filePaths)
        /\ PlannedAs(entries', {"dir"}, Top.path)
        /\ \A p : PlannedAs(entries, {"dir"}, p) => PlannedAs(entries', {"dir"}, p)
    BY <1>0, <2>1, <2>3, DirAdded
  <2> DEFINE f == [Top EXCEPT !.at = "dirs", !.left = n]
  <2>5. f \in Frame /\ f.path = Top.path /\ f.at = "dirs"
    BY <1>1 DEF Frame
  <2>6. stack' = <<f>> \o Tail(stack)
    BY <2>1
  <2> HIDE DEF f
  <2>7. /\ stack' \in Seq(Frame) /\ DOMAIN stack' = DOMAIN stack /\ stack'[1] = f
        /\ \A k \in DOMAIN stack' : k # 1 => stack'[k] = stack[k]
    BY <1>1, <2>5, <2>6, ReplaceTop
  <2>8. FramesSound(stack', entries', used)
    BY <1>1, <2>4, <2>5, <2>7 DEF FramesSound
  <2>9. TypeOK'
    BY <2>2, <2>4, <2>7 DEF PlannerInv, TypeOK, linkVars
  <2>10. LimitExact'
    BY <1>0, <1>1, <2>2, <2>4 DEF LimitExact, Room, In
  <2> QED BY <1>0, <2>4, <2>8, <2>9, <2>10 DEF PlannerInv
<1>3. CASE EnterDirFails
  <2>1. /\ UNCHANGED <<stack, filePaths, symlinkPaths, lastPath, linkVars, wanted>>
        /\ outcome' \in {"limit", "generator"}
        /\ \/ outcome' = "limit" /\ entries' = entries /\ ~ Room(1)
           \/ /\ outcome' = "generator" /\ Room(1)
              /\ entries' = Append(entries, Entry5("dir", Top.path, NoPath, {}, "none"))
    BY <1>3 DEF EnterDirFails, Fail
  <2>2. /\ entries' \in Seq(Entry)
        /\ Sound(entries', used, filePaths)
        /\ entries' = entries \/ Len(entries') = Len(entries) + 1
    <3>1. CASE entries' = entries
      BY <3>1 DEF PlannerInv, TypeOK
    <3>2. CASE entries' = Append(entries, Entry5("dir", Top.path, NoPath, {}, "none"))
      BY <1>0, <3>2, DirAdded
    <3> QED BY <2>1, <3>1, <3>2
  <2>3. TypeOK'
    BY <1>0, <2>1, <2>2 DEF PlannerInv, TypeOK, Outcomes, linkVars
  <2>4. LimitExact'
    <3>1. CASE outcome' = "limit" /\ entries' = entries /\ ~ Room(1)
      BY <1>1, <3>1 DEF PlannerInv, LimitExact, Room
    <3>2. CASE outcome' = "generator" /\ Room(1) /\ Len(entries') = Len(entries) + 1
      BY <1>1, <3>2 DEF LimitExact, Room
    <3>3. CASE outcome' = "generator" /\ entries' = entries
      BY <1>1, <3>3 DEF PlannerInv, LimitExact
    <3> QED BY <2>1, <2>2, <3>1, <3>2, <3>3
  <2> QED BY <1>0, <2>1, <2>2, <2>3, <2>4 DEF PlannerInv
<1> QED BY <1>2, <1>3

(* planDir returns: the frames below the innermost one stay as they are. *)
LEMMA ReturnActions ==
  ASSUME PlannerInv, TooDeep \/ FilesDone
  PROVE  PlannerInv'
<1> USE PathAssumption, PlannerAssumption
<1>1. /\ In("enter") \/ In("files")
      /\ stack' = Tail(stack)
      /\ outcome' \in {"done", "planning"}
      /\ UNCHANGED <<entries, used, lastPath, filePaths, symlinkPaths, linkVars, wanted>>
  BY DEF TooDeep, FilesDone, Return
<1>2. stack \in Seq(Frame) /\ stack # <<>> /\ FramesSound(stack, entries, used)
  BY <1>1, AtPlace
<1>3. /\ stack' \in Seq(Frame)
      /\ \A k \in DOMAIN stack' : stack'[k] = stack[k + 1] /\ k + 1 \in DOMAIN stack
  BY <1>1, <1>2, PopFrame
<1>4. \A k \in DOMAIN stack' : k \in Nat \ {0}
  BY <1>3
<1>5. FramesSound(stack', entries, used)
  BY <1>2, <1>3, <1>4 DEF FramesSound
<1>6. TypeOK'
  BY <1>1, <1>3 DEF PlannerInv, TypeOK, Outcomes, linkVars
<1>7. LimitExact'
  BY <1>1 DEF PlannerInv, LimitExact
<1> QED BY <1>1, <1>5, <1>6, <1>7 DEF PlannerInv

(* The recursive call: the new frame's path is reserved and not planned. *)
LEMMA SubdirAction == ASSUME PlannerInv, PlanSubdir PROVE PlannerInv'
<1> USE PathAssumption, PlannerAssumption
<1>1. PICK p \in Fresh(Top.path) :
        /\ used' = used \cup {p}
        /\ stack' = <<[path |-> p, depth |-> Top.depth + 1, at |-> "enter", left |-> 0],
                      [Top EXCEPT !.left = @ - 1]>> \o Tail(stack)
  BY DEF PlanSubdir
<1>2. /\ In("dirs") /\ Top.left > 0
      /\ UNCHANGED <<outcome, entries, lastPath, filePaths, symlinkPaths, linkVars, wanted>>
  BY DEF PlanSubdir
<1>3. /\ stack \in Seq(Frame) /\ stack # <<>> /\ Top \in Frame /\ 1 \in DOMAIN stack
      /\ entries # <<>> /\ used \subseteq Paths
      /\ FramesSound(stack, entries, used)
      /\ PlannedAs(entries, {"dir"}, Top.path)
      /\ \A k \in DOMAIN stack : stack[k].at # "enter"
  BY <1>2, AtPlace
<1>4. /\ p \in Paths /\ p # Base /\ p \notin used /\ p \notin PathsOf(entries)
      /\ Dir[p] = Top.path
      /\ \A k \in Dangling(entries) : entries[k].target # p
  BY <1>2, FreshPath
<1> DEFINE f == [path |-> p, depth |-> Top.depth + 1, at |-> "enter", left |-> 0]
           g == [Top EXCEPT !.left = @ - 1]
<1> HIDE DEF f, g
<1>5. f \in Frame /\ f.path = p /\ f.at = "enter"
  BY <1>3, <1>4 DEF Frame, f
<1>6. g \in Frame /\ g.path = Top.path /\ g.at = "dirs"
  <2>1. Top.at = "dirs" /\ Top.left > 0 /\ Top \in Frame
    BY <1>2, <1>3 DEF In
  <2>2. g.path = Top.path /\ g.at = Top.at /\ g.left = Top.left - 1 /\ g.depth = Top.depth
    BY <2>1 DEF Frame, Top, g
  <2>3. g \in Frame
    BY <2>1 DEF Frame, Top, g
  <2> QED BY <2>1, <2>2, <2>3
<1>7. stack' = <<f, g>> \o Tail(stack)
  BY <1>1 DEF f, g
<1>8. /\ stack' \in Seq(Frame) /\ DOMAIN stack' = 1 .. (Len(stack) + 1)
      /\ stack'[1] = f /\ stack'[2] = g
      /\ \A k \in DOMAIN stack' : k > 2 => stack'[k] = stack[k - 1] /\ k - 1 \in DOMAIN stack
  BY <1>3, <1>5, <1>6, <1>7, PushFrame
<1>9. Entering(entries, used', p)
  BY <1>1, <1>3, <1>4 DEF Entering
<1>10. FramesSound(stack', entries, used')
  <2> SUFFICES ASSUME NEW k \in DOMAIN stack'
               PROVE  IF stack'[k].at = "enter"
                      THEN k = 1 /\ Entering(entries, used', stack'[k].path)
                      ELSE PlannedAs(entries, {"dir"}, stack'[k].path)
    BY DEF FramesSound
  <2>0. k \in Nat /\ k >= 1 /\ Len(stack) \in Nat
    BY <1>3, <1>8
  <2>1. CASE k = 1
    BY <1>5, <1>8, <1>9, <2>1
  <2>2. CASE k = 2
    BY <1>3, <1>6, <1>8, <2>2
  <2>3. CASE k > 2
    BY <1>3, <1>8, <2>3 DEF FramesSound
  <2> QED BY <2>0, <2>1, <2>2, <2>3
<1>11. TypeOK'
  BY <1>1, <1>2, <1>3, <1>4, <1>8 DEF PlannerInv, TypeOK, linkVars
<1>12. Sound(entries', used', filePaths') /\ Base \in used' /\ LimitExact'
  BY <1>1, <1>2 DEF PlannerInv, Sound, LimitExact
<1> QED BY <1>2, <1>10, <1>11, <1>12 DEF PlannerInv

(* planDir goes on from its subdirectories to its files. *)
LEMMA DirsDoneAction == ASSUME PlannerInv, DirsDone PROVE PlannerInv'
<1> USE PathAssumption, PlannerAssumption
<1>1. PICK n \in FileCounts :
        /\ stack' = <<[Top EXCEPT !.at = "files", !.left = n]>> \o Tail(stack)
        /\ wanted' = [wanted EXCEPT ![Top.path] = n]
  BY DEF DirsDone
<1>2. /\ In("dirs")
      /\ UNCHANGED <<outcome, entries, used, lastPath, filePaths, symlinkPaths, linkVars>>
  BY DEF DirsDone
<1>3. /\ stack \in Seq(Frame) /\ stack # <<>> /\ Top \in Frame
      /\ FramesSound(stack, entries, used)
      /\ PlannedAs(entries, {"dir"}, Top.path)
  BY <1>2, AtPlace
<1> DEFINE f == [Top EXCEPT !.at = "files", !.left = n]
<1>4. f \in Frame /\ f.path = Top.path /\ f.at # "enter" /\ f.path = stack[1].path
  BY <1>3 DEF Frame, Top
<1> HIDE DEF f
<1>5. /\ <<f>> \o Tail(stack) \in Seq(Frame)
      /\ FramesSound(<<f>> \o Tail(stack), entries, used)
  BY <1>3, <1>4, IterateFrames
<1>6. stack' \in Seq(Frame) /\ FramesSound(stack', entries, used)
  BY <1>1, <1>5 DEF f
<1>7. wanted' \in [Paths -> Nat]
  BY <1>1 DEF PlannerInv, TypeOK
<1>8. TypeOK'
  BY <1>2, <1>6, <1>7 DEF PlannerInv, TypeOK, linkVars
<1>9. LimitExact'
  BY <1>2 DEF PlannerInv, LimitExact
<1> QED BY <1>2, <1>6, <1>8, <1>9 DEF PlannerInv

(* Every step of the planner keeps the invariant. *)
LEMMA PlannerInvNext == PlannerInv /\ [Next]_vars => PlannerInv'
<1> SUFFICES ASSUME PlannerInv, [Next]_vars PROVE PlannerInv'
  OBVIOUS
<1>1. CASE TooDeep \/ FilesDone
  BY <1>1, ReturnActions
<1>2. CASE EnterDir \/ EnterDirFails
  BY <1>2, EnterActions
<1>3. CASE PlanSubdir
  BY <1>3, SubdirAction
<1>4. CASE DirsDone
  BY <1>4, DirsDoneAction
<1>5. CASE PlanSymlink \/ PlanDangling \/ PlanSelfReferential
  BY <1>5, SymlinkActions
<1>6. CASE PlanCycle
  BY <1>6, CycleAction
<1>7. CASE PlanHalfCycle
  BY <1>7, HalfCycleAction
<1>8. CASE PlanHardlink
  BY <1>8, HardlinkAction
<1>9. CASE PlanSpecial
  BY <1>9, SpecialAction
<1>10. CASE PlanFile
  BY <1>10, FileAction
<1>11. CASE PlanFileWithLink
  BY <1>11, FileWithLinkAction
<1>12. CASE PlanFileLinkFails
  BY <1>12, FileLinkFailsAction
<1>13. CASE PlanDeviceFails \/ PlanFileFails \/ LimitReached
              \/ SecondNameExhausted \/ NamesExhausted
  BY <1>13, FailingActions
<1>14. CASE UNCHANGED vars
  BY <1>14 DEF vars, linkVars, PlannerInv, TypeOK, LimitExact
<1> QED BY <1>1, <1>2, <1>3, <1>4, <1>5, <1>6, <1>7, <1>8, <1>9, <1>10, <1>11,
           <1>12, <1>13, <1>14 DEF Next

(* The inductive invariant holds in every state of the planner. *)
LEMMA PlannerInvAlways == Spec => []PlannerInv
BY PlannerInvInit, PlannerInvNext, PTL DEF Spec

(* Every variable of the planner always has its type, for every value of   *)
(* the constants.                                                          *)
THEOREM PlannerTypeOK == Spec => []TypeOK
<1>1. PlannerInv => TypeOK
  BY DEF PlannerInv
<1> QED BY <1>1, PlannerInvAlways, PTL

(***************************************************************************)
(* Whatever the generators return, whatever the limit and however planning *)
(* ends, the entries planned so far can be applied in order: the base path *)
(* first, no path twice, directories before what they hold, hard links     *)
(* after what they name (plan.go, planRun).                                *)
(***************************************************************************)
THEOREM PlannerWellFormed == Spec => []PlanWellFormed
<1>1. PlannerInv => PlanWellFormed
  BY DEF PlannerInv, Sound, PlanWellFormed
<1> QED BY <1>1, PlannerInvAlways, PTL

(* The plan never outgrows the entry limit, and the limit error is         *)
(* returned only by a plan that fills it (appendEntry).                    *)
THEOREM PlannerKeepsLimit == Spec => []LimitExact
<1>1. PlannerInv => LimitExact
  BY DEF PlannerInv
<1> QED BY <1>1, PlannerInvAlways, PTL

(* No directory, file or link is ever planned at the target of a dangling  *)
(* symlink (SymlinkStrategyDangling in planSymlinkStrategy).               *)
THEOREM PlannerDanglingStays == Spec => []DanglingStays
<1>1. PlannerInv => DanglingStays
  BY DEF PlannerInv, Sound, Dangling, DanglingStays
<1> QED BY <1>1, PlannerInvAlways, PTL

-----------------------------------------------------------------------------
(***************************************************************************)
(* The second half: what the symlinks and the groups of a plan are, and    *)
(* that no directory gets fewer entries than were drawn for it.            *)
(***************************************************************************)

(* Planning goes on or has ended with a plan. *)
Going == outcome \in {"planning", "done"}

Goals == Regular \cup SpecialKinds

(* Every symlink of the plan that is not meant to dangle resolves. *)
AllResolve(pl) ==
  \A k \in DOMAIN pl :
    pl[k].kind = "symlink" /\ pl[k].via # "dangling" => Resolves(pl, k)

(* What planSymlinkStrategy chooses from stands for entries of the plan. *)
LinksInv ==
  /\ \A p \in symlinkPaths : PlannedAs(entries, {"symlink"}, p)
  /\ lastPath # NoPath => PlannedAs(entries, Goals, lastPath)
  /\ Going => AllResolve(entries)

(* How many of the files drawn for p the loop over files has still to plan. *)
Missing(stk, p) ==
  IF stk # <<>> /\ stk[1].at = "files" /\ stk[1].path = p THEN stk[1].left ELSE 0

CountInv ==
  /\ outcome = "planning" => \A k \in DOMAIN stack : k # 1 => stack[k].at = "dirs"
  /\ Going => \A p \in Paths :
                wanted[p] <= Cardinality(Held(entries, p)) + Missing(stack, p)
  /\ outcome = "done" => stack = <<>>

(* The file whose inode the name p of a regular file shares. *)
Root(g, p) == IF g[p] = NoPath THEN p ELSE g[p]

GroupInv ==
  /\ \A p, o \in Paths : p \in groups[o] <=> groupByPath[p] = o
  /\ \A p \in Paths : groupByPath[p] # NoPath =>
       p \in filePaths /\ groupByPath[groupByPath[p]] = groupByPath[p]
  /\ \A k \in DOMAIN entries :
       /\ entries[k].kind = "file" => Root(groupByPath, entries[k].path) = entries[k].path
       /\ entries[k].kind = "hardlink" =>
            Root(groupByPath, entries[k].path) = Root(groupByPath, entries[k].target)

-----------------------------------------------------------------------------

(* A link that resolves still does when the plan has grown. *)
LEMMA ResolvesGrow ==
  ASSUME NEW pl \in Seq(Entry), NEW e \in Entry, NEW k \in DOMAIN pl, Resolves(pl, k)
  PROVE  Resolves(Append(pl, e), k)
<1> DEFINE q == Append(pl, e)
<1>1. /\ DOMAIN pl \subseteq DOMAIN q
      /\ \A j \in DOMAIN pl : q[j] = pl[j]
  OBVIOUS
<1> HIDE DEF q
<1>2. Resolves(q, k)
  BY <1>1 DEF Resolves
<1> QED BY <1>2 DEF q

(* All links resolve when the entry added is no link, or resolves itself. *)
LEMMA AddResolving ==
  ASSUME NEW pl \in Seq(Entry), NEW e \in Entry, AllResolve(pl),
         e.kind = "symlink" /\ e.via # "dangling" => Resolves(Append(pl, e), Len(pl) + 1)
  PROVE  AllResolve(Append(pl, e))
<1> DEFINE q == Append(pl, e)
<1>1. /\ DOMAIN q = 1 .. (Len(pl) + 1) /\ DOMAIN pl = 1 .. Len(pl) /\ Len(pl) \in Nat
      /\ \A k \in DOMAIN pl : q[k] = pl[k]
      /\ q[Len(pl) + 1] = e
  OBVIOUS
<1>2. \A k \in DOMAIN pl : Resolves(pl, k) => Resolves(q, k)
  BY ResolvesGrow
<1> HIDE DEF q
<1>3. e.kind = "symlink" /\ e.via # "dangling" => Resolves(q, Len(pl) + 1)
  BY DEF q
<1>4. AllResolve(q)
  BY <1>1, <1>2, <1>3 DEF AllResolve
<1> QED BY <1>4 DEF q

(* A new link to what is already planned resolves. *)
LEMMA NewLinkResolves ==
  ASSUME NEW pl \in Seq(Entry), NEW e \in Entry,
         \/ e.via \in {"absolute", "relative", "beside"} /\ PlannedAs(pl, Regular, e.target)
         \/ e.via = "chained" /\ PlannedAs(pl, {"symlink"}, e.target)
         \/ e.via = "last" /\ PlannedAs(pl, Goals, e.target)
         \/ e.via = "self" /\ e.target = e.path
  PROVE  Resolves(Append(pl, e), Len(pl) + 1)
<1> DEFINE q == Append(pl, e)
<1>1. /\ DOMAIN q = 1 .. (Len(pl) + 1) /\ DOMAIN pl = 1 .. Len(pl) /\ Len(pl) \in Nat
      /\ \A k \in DOMAIN pl : q[k] = pl[k]
      /\ q[Len(pl) + 1] = e
  OBVIOUS
<1> HIDE DEF q
<1>2. CASE e.via \in {"absolute", "relative", "beside"} /\ PlannedAs(pl, Regular, e.target)
  <2>1. PICK j \in DOMAIN pl : pl[j].kind \in Regular /\ pl[j].path = e.target
    BY <1>2 DEF PlannedAs
  <2>2. /\ q[Len(pl) + 1].via \in {"absolute", "relative", "beside"}
        /\ q[j].path = q[Len(pl) + 1].target /\ q[j].kind \in Regular
        /\ j \in DOMAIN q /\ j < Len(pl) + 1
    BY <1>1, <1>2, <2>1
  <2>3. Resolves(q, Len(pl) + 1)
    BY <2>2 DEF Resolves
  <2> QED BY <2>3 DEF q
<1>3. CASE e.via = "chained" /\ PlannedAs(pl, {"symlink"}, e.target)
  <2>1. PICK j \in DOMAIN pl : pl[j].kind = "symlink" /\ pl[j].path = e.target
    BY <1>3 DEF PlannedAs
  <2> QED BY <1>1, <1>3, <2>1 DEF Resolves, q
<1>4. CASE e.via = "last" /\ PlannedAs(pl, Goals, e.target)
  <2>1. PICK j \in DOMAIN pl : pl[j].kind \in Goals /\ pl[j].path = e.target
    BY <1>4 DEF PlannedAs
  <2> QED BY <1>1, <1>4, <2>1 DEF Resolves, Goals, q
<1>5. CASE e.via = "self" /\ e.target = e.path
  <2>1. /\ q[Len(pl) + 1].via = "self"
        /\ q[Len(pl) + 1].target = q[Len(pl) + 1].path
        /\ Len(pl) + 1 \in DOMAIN q
    BY <1>1, <1>5
  <2>2. Resolves(q, Len(pl) + 1)
    BY <2>1 DEF Resolves
  <2> QED BY <2>2 DEF q
<1> QED BY <1>2, <1>3, <1>4, <1>5

(* The two links of a cycle resolve to each other. *)
LEMMA CycleResolves ==
  ASSUME NEW pl \in Seq(Entry), NEW d \in Entry, NEW e \in Entry, AllResolve(pl),
         d.via = "cycle", e.via = "cycle", d.target = e.path, e.target = d.path
  PROVE  AllResolve(Append(Append(pl, d), e))
<1> DEFINE r == Append(pl, d)
           q == Append(r, e)
<1>1. /\ r \in Seq(Entry) /\ q \in Seq(Entry)
      /\ DOMAIN q = 1 .. (Len(pl) + 2) /\ DOMAIN pl = 1 .. Len(pl) /\ Len(pl) \in Nat
      /\ DOMAIN r = 1 .. (Len(pl) + 1)
      /\ \A k \in DOMAIN pl : q[k] = pl[k]
      /\ q[Len(pl) + 1] = d
      /\ q[Len(pl) + 2] = e
  OBVIOUS
<1>2. \A k \in DOMAIN pl : Resolves(pl, k) => Resolves(r, k)
  BY ResolvesGrow
<1> HIDE DEF r
<1>3. \A k \in DOMAIN r : Resolves(r, k) => Resolves(q, k)
  BY <1>1, ResolvesGrow
<1> HIDE DEF q
<1>4. Resolves(q, Len(pl) + 1) /\ Resolves(q, Len(pl) + 2)
  <2>1. /\ q[Len(pl) + 1].via = "cycle" /\ q[Len(pl) + 2].via = "cycle"
        /\ q[Len(pl) + 1].target = q[Len(pl) + 2].path
        /\ q[Len(pl) + 2].target = q[Len(pl) + 1].path
        /\ Len(pl) + 1 # Len(pl) + 2
        /\ Len(pl) + 1 \in DOMAIN q /\ Len(pl) + 2 \in DOMAIN q
    BY <1>1
  <2> QED BY <2>1, Zenon DEF Resolves
<1>5. AllResolve(q)
  BY <1>1, <1>2, <1>3, <1>4 DEF AllResolve
<1> QED BY <1>5 DEF q, r

(* What a directory holds grows with the plan. *)
LEMMA HeldGrows ==
  ASSUME NEW pl \in Seq(Entry), NEW e \in Entry, NEW p
  PROVE  /\ Cardinality(Held(pl, p)) \in Nat
         /\ Cardinality(Held(Append(pl, e), p)) \in Nat
         /\ Cardinality(Held(Append(pl, e), p)) >= Cardinality(Held(pl, p))
         /\ e.kind # "dir" /\ Dir[e.path] = p =>
              Cardinality(Held(Append(pl, e), p)) = Cardinality(Held(pl, p)) + 1
<1> DEFINE q == Append(pl, e)
<1>1. /\ DOMAIN q = 1 .. (Len(pl) + 1) /\ DOMAIN pl = 1 .. Len(pl) /\ Len(pl) \in Nat
      /\ \A k \in DOMAIN pl : q[k] = pl[k]
      /\ q[Len(pl) + 1] = e
  OBVIOUS
<1> HIDE DEF q
<1>2. IsFiniteSet(Held(pl, p))
  <2>1. IsFiniteSet(1 .. Len(pl))
    BY <1>1, FS_Interval
  <2>2. Held(pl, p) \subseteq 1 .. Len(pl)
    BY <1>1 DEF Held
  <2> QED BY <2>1, <2>2, FS_Subset
<1>3. Cardinality(Held(pl, p)) \in Nat
  BY <1>2, FS_CardinalityType
<1>4. CASE e.kind # "dir" /\ Dir[e.path] = p
  <2>1. Held(q, p) = Held(pl, p) \cup {Len(pl) + 1} /\ Len(pl) + 1 \notin Held(pl, p)
    BY <1>1, <1>4 DEF Held
  <2>2. Cardinality(Held(q, p)) = Cardinality(Held(pl, p)) + 1
    BY <1>2, <2>1, FS_AddElement
  <2> QED BY <1>3, <2>2 DEF q
<1>5. CASE ~ (e.kind # "dir" /\ Dir[e.path] = p)
  <2>1. Held(q, p) = Held(pl, p)
    BY <1>1, <1>5 DEF Held
  <2> QED BY <1>3, <1>5, <2>1 DEF q
<1> QED BY <1>4, <1>5

(* A frame after an iteration of its loop. *)
LEMMA CountedDown ==
  ASSUME NEW g \in Frame, g.left > 0
  PROVE  LET f == [g EXCEPT !.left = @ - 1]
         IN  /\ f \in Frame /\ f.path = g.path /\ f.at = g.at
             /\ f.left = g.left - 1 /\ g.left \in Nat
BY DEF Frame

(* One entry, then the next iteration of the loop over files: what the     *)
(* directory holds has grown by what is no longer missing.                 *)
LEMMA IterationCounts ==
  ASSUME PlannerInv, CountInv, AtFile, Iterate, UNCHANGED <<outcome, wanted>>,
         \A p \in Paths :
           /\ Cardinality(Held(entries, p)) \in Nat
           /\ Cardinality(Held(entries', p)) \in Nat
           /\ Cardinality(Held(entries', p)) >= Cardinality(Held(entries, p)),
         Cardinality(Held(entries', Top.path)) >= Cardinality(Held(entries, Top.path)) + 1
  PROVE  CountInv'
<1> DEFINE f == [Top EXCEPT !.left = @ - 1]
<1>1. /\ outcome = "planning" /\ stack \in Seq(Frame) /\ stack # <<>> /\ Top \in Frame
      /\ Top.path \in Paths
  BY AtPlace DEF AtFile
<1>2. Top.at = "files" /\ Top.left > 0 /\ wanted \in [Paths -> Nat]
  BY DEF AtFile, In, PlannerInv, TypeOK
<1>3. /\ f \in Frame /\ f.path = Top.path /\ f.at = "files" /\ f.left = Top.left - 1
      /\ Top.left \in Nat
  BY <1>1, <1>2, CountedDown
<1>4. stack' = <<f>> \o Tail(stack)
  BY DEF Iterate
<1> HIDE DEF f
<1>5. /\ DOMAIN stack' = DOMAIN stack /\ stack'[1] = f /\ stack' # <<>>
      /\ \A k \in DOMAIN stack' : k # 1 => stack'[k] = stack[k]
  BY <1>1, <1>3, <1>4, ReplaceTop
<1>6. \A p \in Paths :
        wanted'[p] <= Cardinality(Held(entries', p)) + Missing(stack', p)
  <2> SUFFICES ASSUME NEW p \in Paths
               PROVE  wanted[p] <= Cardinality(Held(entries', p)) + Missing(stack', p)
    OBVIOUS
  <2>1. wanted[p] <= Cardinality(Held(entries, p)) + Missing(stack, p) /\ wanted[p] \in Nat
    BY <1>1, <1>2 DEF CountInv, Going
  <2>2. CASE p = Top.path
    <3>1. Missing(stack, p) = Top.left /\ Missing(stack', p) = Top.left - 1
      BY <1>1, <1>2, <1>3, <1>5, <2>2 DEF Missing, Top
    <3> QED BY <1>3, <2>1, <2>2, <3>1
  <2>3. CASE p # Top.path
    <3>1. Missing(stack, p) = 0 /\ Missing(stack', p) = 0
      BY <1>1, <1>2, <1>3, <1>5, <2>3 DEF Missing, Top
    <3> QED BY <2>1, <3>1
  <2> QED BY <2>2, <2>3
<1>7. \A k \in DOMAIN stack' : k # 1 => stack'[k].at = "dirs"
  BY <1>1, <1>5 DEF CountInv
<1> QED BY <1>1, <1>6, <1>7 DEF CountInv

(* An iteration of the loop over files that plans the one entry e. *)
OneEntry(e) ==
  /\ AtFile /\ Iterate /\ UNCHANGED <<outcome, wanted>>
  /\ e \in Entry /\ e.path \in Fresh(Top.path) /\ e.kind # "dir"
  /\ entries' = Append(entries, e)
  /\ \A p \in symlinkPaths' : p \in symlinkPaths \/ (p = e.path /\ e.kind = "symlink")
  /\ lastPath' = lastPath \/ (lastPath' = e.path /\ e.kind \in Goals)
  /\ e.kind = "symlink" =>
       \/ e.via = "dangling"
       \/ e.via \in {"absolute", "relative", "beside"} /\ PlannedAs(entries, Regular, e.target)
       \/ e.via = "chained" /\ PlannedAs(entries, {"symlink"}, e.target)
       \/ e.via = "last" /\ PlannedAs(entries, Goals, e.target)
       \/ e.via = "self" /\ e.target = e.path

(* The new symlink points to what its strategy asks for. *)
LEMMA SymlinkIsOneEntry ==
  ASSUME PlannerInv, LinksInv, PlanSymlink
  PROVE  \E e : OneEntry(e)
<1> USE PathAssumption, PlannerAssumption
<1>0. /\ used \subseteq Paths /\ filePaths \subseteq Paths /\ symlinkPaths \subseteq Paths
      /\ lastPath \in Paths \cup {NoPath} /\ strategies \subseteq Strategies
      /\ \A p \in filePaths : PlannedAs(entries, Regular, p)
  BY DEF PlannerInv, TypeOK, Sound
<1>1. PICK via \in SymlinkForms :
         \E t \in Targets(via), p \in Fresh(Top.path) :
           /\ entries' = Append(entries, Symlink(p, t, via))
           /\ AddSymlinks({p})
  BY DEF PlanSymlink
<1>2. PICK t \in Targets(via), p \in Fresh(Top.path) :
        /\ entries' = Append(entries, Symlink(p, t, via))
        /\ AddSymlinks({p})
  BY <1>1
<1>3. via \in {"last", "absolute", "relative", "chained"}
  BY DEF SymlinkForms
<1>4. /\ \/ via \in {"absolute", "relative"} /\ PlannedAs(entries, Regular, t)
         \/ via = "chained" /\ PlannedAs(entries, {"symlink"}, t)
         \/ via = "last" /\ PlannedAs(entries, Goals, t)
      /\ t \in Paths
  <2>1. CASE via \in {"absolute", "relative"}
    BY <1>0, <2>1 DEF Targets
  <2>2. CASE via = "chained"
    BY <1>0, <2>2 DEF Targets, LinksInv
  <2>3. CASE via = "last"
    BY <1>0, <2>3 DEF Targets, LinksInv
  <2> QED BY <1>3, <2>1, <2>2, <2>3
<1> DEFINE e == Symlink(p, t, via)
<1>5. /\ e \in Entry /\ e.path = p /\ e.kind = "symlink" /\ e.via = via /\ e.target = t
      /\ e.kind # "dir"
  <2>1. p \in Paths
    BY DEF Fresh, Children
  <2> QED BY <1>3, <1>4, <2>1 DEF Entry, Symlink, Entry5, EntryKinds, Origins, Strategies
<1>6. entries' = Append(entries, e)
  BY <1>2
<1> HIDE DEF e
<1>7. AtFile /\ Iterate /\ UNCHANGED <<outcome, wanted, lastPath>>
      /\ symlinkPaths' = symlinkPaths \cup {p}
  BY <1>2 DEF PlanSymlink, AddSymlinks
<1>8. OneEntry(e)
  BY <1>4, <1>5, <1>6, <1>7 DEF OneEntry
<1> QED BY <1>8

(* A dangling link and a link to itself. *)
LEMMA OtherSymlinkIsOneEntry ==
  ASSUME PlannerInv, PlanDangling \/ PlanSelfReferential
  PROVE  \E e : OneEntry(e)
<1> USE PathAssumption, PlannerAssumption
<1>1. PICK p \in Fresh(Top.path), t \in Paths, via \in {"dangling", "self"} :
        /\ entries' = Append(entries, Symlink(p, t, via))
        /\ AddSymlinks({p})
        /\ via = "self" => t = p
  BY DEF PlanDangling, PlanSelfReferential, Fresh, Children
<1> DEFINE e == Symlink(p, t, via)
<1>2. /\ e \in Entry /\ e.path = p /\ e.kind = "symlink" /\ e.via = via /\ e.target = t
      /\ e.kind # "dir"
  <2>1. p \in Paths
    BY DEF Fresh, Children
  <2> QED BY <2>1 DEF Entry, Symlink, Entry5, EntryKinds, Origins, Strategies
<1>3. entries' = Append(entries, e)
  BY <1>1
<1> HIDE DEF e
<1>4. AtFile /\ Iterate /\ UNCHANGED <<outcome, wanted, lastPath>>
      /\ symlinkPaths' = symlinkPaths \cup {p}
  BY <1>1 DEF PlanDangling, PlanSelfReferential, AddSymlinks
<1>5. OneEntry(e)
  BY <1>1, <1>2, <1>3, <1>4 DEF OneEntry
<1> QED BY <1>5

(* A hard link, a special file and a regular file. *)
LEMMA FileIsOneEntry ==
  ASSUME PlannerInv, PlanHardlink \/ PlanSpecial \/ PlanFile
  PROVE  \E e : OneEntry(e)
<1> USE PathAssumption, PlannerAssumption
<1>0. filePaths \subseteq Paths
  BY DEF PlannerInv, TypeOK
<1>1. PICK p \in Fresh(Top.path), e \in Entry :
        /\ e.path = p /\ e.kind \in Goals
        /\ entries' = Append(entries, e)
        /\ lastPath' = p
  <2>1. CASE PlanHardlink
    <3>1. PICK t \in filePaths, p \in Fresh(Top.path) :
            /\ entries' = Append(entries, Entry5("hardlink", p, t, {}, "none"))
            /\ lastPath' = p
      BY <2>1 DEF PlanHardlink
    <3>2. t \in Paths /\ p \in Paths
      BY <1>0 DEF Fresh, Children
    <3>3. Entry5("hardlink", p, t, {}, "none") \in Entry
      BY <3>2 DEF Entry, Entry5, EntryKinds, Origins
    <3> QED BY <3>1, <3>3 DEF Entry5, Goals, Regular
  <2>2. CASE PlanSpecial
    <3>1. PICK kind \in SpecialSet, p \in Fresh(Top.path) :
            /\ entries' = Append(entries, Entry5(kind, p, NoPath, {"mode"}, "none"))
            /\ lastPath' = p
      BY <2>2 DEF PlanSpecial
    <3>2. p \in Paths /\ kind \in SpecialKinds
      BY DEF Fresh, Children
    <3>3. Entry5(kind, p, NoPath, {"mode"}, "none") \in Entry
      BY <3>2 DEF Entry, Entry5, EntryKinds, Origins, Attrs
    <3> QED BY <3>1, <3>2, <3>3 DEF Entry5, Goals
  <2>3. CASE PlanFile
    <3>1. PICK p \in Fresh(Top.path), attrs \in AttrSets :
            /\ entries' = Append(entries, Entry5("file", p, NoPath, attrs, "none"))
            /\ lastPath' = p
      BY <2>3 DEF PlanFile
    <3>2. p \in Paths /\ attrs \in SUBSET Attrs
      BY DEF Fresh, Children
    <3>3. Entry5("file", p, NoPath, attrs, "none") \in Entry
      BY <3>2 DEF Entry, Entry5, EntryKinds, Origins
    <3> QED BY <3>1, <3>3 DEF Entry5, Goals, Regular
  <2> QED BY <2>1, <2>2, <2>3
<1>2. /\ AtFile /\ Iterate /\ UNCHANGED <<outcome, wanted>>
      /\ symlinkPaths' = symlinkPaths
  BY DEF PlanHardlink, PlanSpecial, PlanFile
<1>3. e.kind # "dir" /\ e.kind # "symlink"
  BY <1>1 DEF Goals, Regular, SpecialKinds
<1>4. OneEntry(e)
  BY <1>1, <1>2, <1>3 DEF OneEntry
<1> QED BY <1>4

(* An iteration that plans one entry keeps both invariants. *)
LEMMA OneEntryKeeps ==
  ASSUME PlannerInv, LinksInv, CountInv, NEW e, OneEntry(e)
  PROVE  LinksInv' /\ CountInv'
<1>1. /\ entries \in Seq(Entry) /\ outcome = "planning" /\ Top.path \in Paths
  BY AtPlace DEF OneEntry, AtFile
<1>2. e \in Entry /\ entries' = Append(entries, e) /\ outcome' = outcome
  BY DEF OneEntry
<1>3. /\ \A kinds, p : PlannedAs(entries, kinds, p) => PlannedAs(entries', kinds, p)
      /\ PlannedAs(entries', {e.kind}, e.path)
  BY <1>1, <1>2, AppendFacts
<1>4. \A p \in symlinkPaths' : PlannedAs(entries', {"symlink"}, p)
  BY <1>3 DEF OneEntry, LinksInv
<1>5. lastPath' # NoPath => PlannedAs(entries', Goals, lastPath')
  <2>1. CASE lastPath' = lastPath
    BY <1>3, <2>1 DEF LinksInv
  <2>2. CASE lastPath' = e.path /\ e.kind \in Goals
    BY <1>3, <2>2 DEF PlannedAs
  <2> QED BY <2>1, <2>2 DEF OneEntry
<1>6. AllResolve(entries')
  <2>1. AllResolve(entries)
    BY <1>1 DEF LinksInv, Going
  <2>2. e.kind = "symlink" /\ e.via # "dangling" =>
          Resolves(Append(entries, e), Len(entries) + 1)
    BY <1>1, <1>2, NewLinkResolves DEF OneEntry
  <2> QED BY <1>1, <1>2, <2>1, <2>2, AddResolving
<1>7. LinksInv'
  BY <1>4, <1>5, <1>6 DEF LinksInv
<1>8. \A p \in Paths :
        /\ Cardinality(Held(entries, p)) \in Nat
        /\ Cardinality(Held(entries', p)) \in Nat
        /\ Cardinality(Held(entries', p)) >= Cardinality(Held(entries, p))
  BY <1>1, <1>2, HeldGrows
<1>9. Cardinality(Held(entries', Top.path)) >= Cardinality(Held(entries, Top.path)) + 1
  <2>1. e.kind # "dir" /\ Dir[e.path] = Top.path
    BY DEF OneEntry, Fresh, Children
  <2>2. Cardinality(Held(entries', Top.path)) = Cardinality(Held(entries, Top.path)) + 1
    BY <1>1, <1>2, <2>1, HeldGrows
  <2> QED BY <1>1, <1>8, <2>2
<1>10. CountInv'
  BY <1>8, <1>9, IterationCounts DEF OneEntry
<1> QED BY <1>7, <1>10

(* Two entries of one directory, then the next iteration. *)
LEMMA PairCounts ==
  ASSUME PlannerInv, CountInv, AtFile, Iterate, UNCHANGED <<outcome, wanted>>,
         NEW d \in Entry, NEW e \in Entry, d.kind # "dir", d.path \in Fresh(Top.path),
         entries' = Append(Append(entries, d), e)
  PROVE  CountInv'
<1> DEFINE q == Append(entries, d)
<1>1. entries \in Seq(Entry) /\ q \in Seq(Entry) /\ Top.path \in Paths
  BY AtPlace, AppendFacts DEF AtFile
<1>2. Dir[d.path] = Top.path
  BY DEF Fresh, Children
<1>3. \A p \in Paths :
        /\ Cardinality(Held(entries, p)) \in Nat
        /\ Cardinality(Held(q, p)) \in Nat
        /\ Cardinality(Held(q, p)) >= Cardinality(Held(entries, p))
  BY <1>1, HeldGrows
<1>4. Cardinality(Held(q, Top.path)) = Cardinality(Held(entries, Top.path)) + 1
  BY <1>1, <1>2, HeldGrows
<1> HIDE DEF q
<1>5. \A p \in Paths :
        /\ Cardinality(Held(entries', p)) \in Nat
        /\ Cardinality(Held(entries', p)) >= Cardinality(Held(q, p))
  BY <1>1, HeldGrows DEF q
<1>6. /\ \A p \in Paths :
           /\ Cardinality(Held(entries, p)) \in Nat
           /\ Cardinality(Held(entries', p)) \in Nat
           /\ Cardinality(Held(entries', p)) >= Cardinality(Held(entries, p))
      /\ Cardinality(Held(entries', Top.path)) >= Cardinality(Held(entries, Top.path)) + 1
  BY <1>1, <1>3, <1>4, <1>5
<1> QED BY <1>6, IterationCounts

(* The two links of a cycle. *)
LEMMA CycleKeeps ==
  ASSUME PlannerInv, LinksInv, CountInv, PlanCycle
  PROVE  LinksInv' /\ CountInv'
<1>1. PICK p \in Fresh(Top.path), s \in Fresh(Top.path) :
        /\ entries' = entries \o Cycle(p, s)
        /\ AddSymlinks({p, s})
  BY DEF PlanCycle
<1>2. /\ AtFile /\ Iterate /\ UNCHANGED <<outcome, wanted, lastPath>>
      /\ symlinkPaths' = symlinkPaths \cup {p, s}
  BY <1>1 DEF PlanCycle, AddSymlinks
<1>3. entries \in Seq(Entry) /\ outcome = "planning" /\ p \in Paths /\ s \in Paths
  BY <1>2, AtPlace DEF AtFile, Fresh, Children
<1> DEFINE d == Symlink(p, s, "cycle")
           e == Symlink(s, p, "cycle")
           q == Append(entries, d)
<1>4. entries' = Append(q, e)
  BY <1>1, <1>3 DEF Cycle
<1>5. /\ d \in Entry /\ d.kind = "symlink" /\ d.via = "cycle" /\ d.path = p /\ d.target = s
      /\ e \in Entry /\ e.kind = "symlink" /\ e.via = "cycle" /\ e.path = s /\ e.target = p
  BY <1>3 DEF Entry, Symlink, Entry5, EntryKinds, Origins, Strategies
<1> HIDE DEF d, e
<1>6. /\ q \in Seq(Entry)
      /\ \A kinds, r : PlannedAs(entries, kinds, r) => PlannedAs(q, kinds, r)
      /\ PlannedAs(q, {"symlink"}, p)
  BY <1>3, <1>5, AppendFacts
<1>7. CountInv'
  <2>1. d.kind # "dir"
    BY <1>5
  <2> QED BY <1>2, <1>4, <1>5, <2>1, PairCounts
<1>8. AllResolve(entries')
  <2>1. AllResolve(entries)
    BY <1>3 DEF LinksInv, Going
  <2> QED BY <1>3, <1>4, <1>5, <2>1, CycleResolves
<1> HIDE DEF q
<1>9. /\ \A kinds, r : PlannedAs(entries, kinds, r) => PlannedAs(entries', kinds, r)
      /\ PlannedAs(entries', {"symlink"}, p)
      /\ PlannedAs(entries', {"symlink"}, s)
  BY <1>4, <1>5, <1>6, AppendFacts
<1>10. LinksInv'
  BY <1>2, <1>8, <1>9 DEF LinksInv
<1> QED BY <1>7, <1>10

(* A file and the symlink beside it. *)
LEMMA FileWithLinkKeeps ==
  ASSUME PlannerInv, LinksInv, CountInv, PlanFileWithLink
  PROVE  LinksInv' /\ CountInv'
<1> USE PathAssumption, PlannerAssumption
<1>1. PICK p \in Fresh(Top.path), s \in Fresh(Top.path), attrs \in AttrSets :
        /\ entries' = entries \o <<Entry5("file", p, NoPath, attrs, "none"),
                                   Symlink(s, p, "beside")>>
        /\ symlinkPaths' = symlinkPaths \cup {s}
        /\ lastPath' = p
  BY DEF PlanFileWithLink
<1>2. AtFile /\ Iterate /\ UNCHANGED <<outcome, wanted>>
  BY DEF PlanFileWithLink
<1>3. /\ entries \in Seq(Entry) /\ outcome = "planning" /\ p \in Paths /\ s \in Paths
      /\ attrs \in SUBSET Attrs
  BY <1>2, AtPlace DEF AtFile, Fresh, Children
<1> DEFINE d == Entry5("file", p, NoPath, attrs, "none")
           e == Symlink(s, p, "beside")
           q == Append(entries, d)
<1>4. entries' = Append(q, e)
  BY <1>1, <1>3
<1>5. /\ d \in Entry /\ d.kind = "file" /\ d.path = p
      /\ e \in Entry /\ e.kind = "symlink" /\ e.via = "beside" /\ e.path = s /\ e.target = p
  BY <1>3 DEF Entry, Symlink, Entry5, EntryKinds, Origins, Strategies
<1> HIDE DEF d, e
<1>6. /\ q \in Seq(Entry)
      /\ \A kinds, r : PlannedAs(entries, kinds, r) => PlannedAs(q, kinds, r)
      /\ PlannedAs(q, {"file"}, p)
  BY <1>3, <1>5, AppendFacts
<1>7. CountInv'
  <2>1. d.kind # "dir"
    BY <1>5
  <2> QED BY <1>2, <1>4, <1>5, <2>1, PairCounts
<1>8. PlannedAs(q, Regular, p)
  BY <1>6 DEF PlannedAs, Regular
<1>9. AllResolve(q)
  <2>1. AllResolve(entries)
    BY <1>3 DEF LinksInv, Going
  <2>2. d.kind # "symlink"
    BY <1>5
  <2> QED BY <1>3, <1>5, <2>1, <2>2, AddResolving
<1> HIDE DEF q
<1>10. AllResolve(entries')
  <2>1. Resolves(Append(q, e), Len(q) + 1)
    BY <1>5, <1>6, <1>8, NewLinkResolves
  <2> QED BY <1>4, <1>5, <1>6, <1>9, <2>1, AddResolving
<1>11. /\ \A kinds, r : PlannedAs(entries, kinds, r) => PlannedAs(entries', kinds, r)
       /\ PlannedAs(entries', {"symlink"}, s)
       /\ PlannedAs(entries', {"file"}, p)
  BY <1>4, <1>5, <1>6, AppendFacts
<1>12. PlannedAs(entries', Goals, p)
  BY <1>11 DEF PlannedAs, Goals, Regular
<1>13. LinksInv'
  BY <1>1, <1>10, <1>11, <1>12 DEF LinksInv
<1> QED BY <1>7, <1>13

(* Planning ends with an error: only the links known so far matter. *)
LEMMA FailureKeeps ==
  ASSUME PlannerInv, LinksInv, CountInv,
         \/ PlanHalfCycle \/ PlanFileLinkFails \/ PlanDeviceFails \/ PlanFileFails
         \/ LimitReached \/ SecondNameExhausted \/ NamesExhausted \/ EnterDirFails
  PROVE  LinksInv' /\ CountInv'
<1> USE PathAssumption, PlannerAssumption
<1>1. /\ outcome' \in {"limit", "collision", "generator", "device"}
      /\ symlinkPaths' = symlinkPaths
  BY DEF PlanHalfCycle, PlanFileLinkFails, PlanDeviceFails, PlanFileFails, LimitReached,
         SecondNameExhausted, NamesExhausted, EnterDirFails, Fail
<1>2. ~ Going' /\ CountInv'
  BY <1>1 DEF Going, CountInv
<1>3. CASE entries' = entries /\ lastPath' = lastPath
  BY <1>1, <1>2, <1>3 DEF LinksInv
<1>4. ASSUME NEW e \in Entry, entries' = Append(entries, e),
             lastPath' = lastPath \/ (lastPath' = e.path /\ e.kind \in Goals)
      PROVE  LinksInv'
  <2>1. entries \in Seq(Entry)
    BY DEF PlannerInv, TypeOK
  <2>2. /\ \A kinds, p : PlannedAs(entries, kinds, p) => PlannedAs(entries', kinds, p)
        /\ PlannedAs(entries', {e.kind}, e.path)
    BY <1>4, <2>1, AppendFacts
  <2>3. lastPath' # NoPath => PlannedAs(entries', Goals, lastPath')
    BY <1>4, <2>2 DEF LinksInv, PlannedAs
  <2> QED BY <1>1, <1>2, <2>2, <2>3 DEF LinksInv
<1>5. CASE PlanDeviceFails \/ PlanFileFails \/ LimitReached
             \/ SecondNameExhausted \/ NamesExhausted
  <2>1. entries' = entries /\ lastPath' = lastPath
    BY <1>5 DEF PlanDeviceFails, PlanFileFails, LimitReached, SecondNameExhausted,
                NamesExhausted, Fail
  <2> QED BY <1>2, <1>3, <2>1
<1>6. CASE PlanHalfCycle
  <2>1. PICK p \in Fresh(Top.path), q \in Fresh(Top.path) :
          entries' = Append(entries, Symlink(p, q, "cycle"))
    BY <1>6 DEF PlanHalfCycle
  <2>2. p \in Paths /\ q \in Paths /\ lastPath' = lastPath
    BY <1>6 DEF PlanHalfCycle, Fail, Fresh, Children
  <2>3. Symlink(p, q, "cycle") \in Entry
    BY <2>2 DEF Entry, Symlink, Entry5, EntryKinds, Origins, Strategies
  <2> QED BY <1>2, <1>4, <2>1, <2>2, <2>3
<1>7. CASE PlanFileLinkFails
  <2>1. PICK p \in Fresh(Top.path), attrs \in AttrSets :
          /\ entries' = Append(entries, Entry5("file", p, NoPath, attrs, "none"))
          /\ lastPath' = p
    BY <1>7 DEF PlanFileLinkFails
  <2>2. p \in Paths /\ attrs \in SUBSET Attrs
    BY DEF Fresh, Children
  <2> DEFINE e == Entry5("file", p, NoPath, attrs, "none")
  <2>3. e \in Entry /\ e.path = p /\ e.kind \in Goals
    BY <2>2 DEF Entry, Entry5, EntryKinds, Origins, Goals, Regular
  <2> QED BY <1>2, <1>4, <2>1, <2>3
<1>8. CASE EnterDirFails
  <2>1. In("enter") /\ lastPath' = lastPath
    BY <1>8 DEF EnterDirFails, Fail
  <2>2. Top.path \in Paths
    BY <2>1, AtPlace
  <2>3. Entry5("dir", Top.path, NoPath, {}, "none") \in Entry
    BY <2>2 DEF Entry, Entry5, EntryKinds, Origins
  <2>4. CASE entries' = entries
    BY <1>2, <1>3, <2>1, <2>4
  <2>5. CASE entries' = Append(entries, Entry5("dir", Top.path, NoPath, {}, "none"))
    BY <1>2, <1>4, <2>1, <2>3, <2>5
  <2> QED BY <1>8, <2>4, <2>5 DEF EnterDirFails
<1> QED BY <1>5, <1>6, <1>7, <1>8

(* The directory is planned; nothing is drawn for it yet. *)
LEMMA EnterDirKeeps ==
  ASSUME PlannerInv, LinksInv, CountInv, EnterDir
  PROVE  LinksInv' /\ CountInv'
<1> USE PathAssumption, PlannerAssumption
<1>1. PICK attrs \in AttrSets, n \in DirCounts :
        /\ entries' = Append(entries, Entry5("dir", Top.path, NoPath, attrs, "none"))
        /\ stack' = <<[Top EXCEPT !.at = "dirs", !.left = n]>> \o Tail(stack)
  BY DEF EnterDir
<1>2. In("enter") /\ UNCHANGED <<outcome, lastPath, symlinkPaths, wanted>>
  BY DEF EnterDir
<1>3. /\ entries \in Seq(Entry) /\ outcome = "planning" /\ Top.path \in Paths
      /\ stack \in Seq(Frame) /\ stack # <<>> /\ Top \in Frame
      /\ attrs \in SUBSET Attrs /\ Top.at = "enter" /\ wanted \in [Paths -> Nat]
  BY <1>2, AtPlace DEF In, PlannerInv, TypeOK
<1> DEFINE e == Entry5("dir", Top.path, NoPath, attrs, "none")
           f == [Top EXCEPT !.at = "dirs", !.left = n]
<1>4. e \in Entry /\ e.kind = "dir"
  BY <1>3 DEF Entry, Entry5, EntryKinds, Origins
<1>5. f \in Frame /\ f.at = "dirs"
  BY <1>3 DEF Frame
<1>6. entries' = Append(entries, e) /\ stack' = <<f>> \o Tail(stack)
  BY <1>1
<1> HIDE DEF e, f
<1>7. \A kinds, p : PlannedAs(entries, kinds, p) => PlannedAs(entries', kinds, p)
  BY <1>3, <1>4, <1>6, AppendFacts
<1>8. AllResolve(entries')
  <2>1. AllResolve(entries)
    BY <1>3 DEF LinksInv, Going
  <2>2. e.kind # "symlink"
    BY <1>4
  <2> QED BY <1>3, <1>4, <1>6, <2>1, <2>2, AddResolving
<1>9. LinksInv'
  BY <1>2, <1>7, <1>8 DEF LinksInv
<1>10. /\ DOMAIN stack' = DOMAIN stack /\ stack'[1] = f
       /\ \A k \in DOMAIN stack' : k # 1 => stack'[k] = stack[k]
  BY <1>3, <1>5, <1>6, ReplaceTop
<1>11. ASSUME NEW p \in Paths
       PROVE  wanted'[p] <= Cardinality(Held(entries', p)) + Missing(stack', p)
  <2>1. wanted[p] <= Cardinality(Held(entries, p)) + Missing(stack, p) /\ wanted[p] \in Nat
    BY <1>3 DEF CountInv, Going
  <2>2. Missing(stack, p) = 0 /\ Missing(stack', p) = 0
    BY <1>3, <1>5, <1>10 DEF Missing, Top
  <2>3. /\ Cardinality(Held(entries, p)) \in Nat
        /\ Cardinality(Held(entries', p)) \in Nat
        /\ Cardinality(Held(entries', p)) >= Cardinality(Held(entries, p))
    BY <1>3, <1>4, <1>6, HeldGrows
  <2> QED BY <1>2, <2>1, <2>2, <2>3
<1>12. CountInv'
  BY <1>2, <1>3, <1>10, <1>11 DEF CountInv
<1> QED BY <1>9, <1>12

(* How much the entries of a plan hold is a number. *)
LEMMA HeldCount ==
  ASSUME NEW pl \in Seq(Entry), NEW p
  PROVE  Cardinality(Held(pl, p)) \in Nat
<1>1. IsFiniteSet(1 .. Len(pl))
  BY FS_Interval
<1>2. Held(pl, p) \subseteq 1 .. Len(pl)
  BY DEF Held
<1> QED BY <1>1, <1>2, FS_Subset, FS_CardinalityType

(* planDir returns only when nothing is missing. *)
LEMMA ReturnKeeps ==
  ASSUME PlannerInv, LinksInv, CountInv, TooDeep \/ FilesDone
  PROVE  LinksInv' /\ CountInv'
<1>1. /\ In("enter") \/ (In("files") /\ Top.left = 0)
      /\ stack' = Tail(stack)
      /\ outcome' = IF Len(stack) = 1 THEN "done" ELSE "planning"
      /\ UNCHANGED <<entries, lastPath, symlinkPaths, wanted>>
  BY DEF TooDeep, FilesDone, Return
<1>2. /\ stack \in Seq(Frame) /\ stack # <<>> /\ outcome = "planning"
      /\ entries \in Seq(Entry) /\ wanted \in [Paths -> Nat]
  BY <1>1, AtPlace DEF PlannerInv, TypeOK
<1>3. LinksInv'
  BY <1>1, <1>2 DEF LinksInv, Going
<1>4. /\ stack' \in Seq(Frame)
      /\ \A k \in DOMAIN stack' : stack'[k] = stack[k + 1] /\ k + 1 \in DOMAIN stack
      /\ \A k \in DOMAIN stack' : k \in Nat \ {0}
      /\ stack' # <<>> => 1 \in DOMAIN stack'
      /\ Len(stack) = 1 => stack' = <<>>
  BY <1>1, <1>2, PopFrame
<1>5. \A k \in DOMAIN stack' : stack'[k].at = "dirs"
  BY <1>2, <1>4 DEF CountInv
<1>6. ASSUME NEW p \in Paths
      PROVE  wanted'[p] <= Cardinality(Held(entries', p)) + Missing(stack', p)
  <2>1. wanted[p] <= Cardinality(Held(entries, p)) + Missing(stack, p) /\ wanted[p] \in Nat
    BY <1>2 DEF CountInv, Going
  <2>2. Missing(stack, p) = 0
    BY <1>1 DEF Missing, Top, In
  <2>3. Missing(stack', p) = 0
    BY <1>4, <1>5 DEF Missing
  <2> QED BY <1>1, <1>2, <2>1, <2>2, <2>3, HeldCount
<1>7. outcome' = "done" => stack' = <<>>
  BY <1>1, <1>4
<1>8. CountInv'
  BY <1>5, <1>6, <1>7 DEF CountInv
<1> QED BY <1>3, <1>8

(* The recursive call is made from the loop over subdirectories. *)
LEMMA SubdirKeeps ==
  ASSUME PlannerInv, LinksInv, CountInv, PlanSubdir
  PROVE  LinksInv' /\ CountInv'
<1>1. PICK p \in Fresh(Top.path) :
        stack' = <<[path |-> p, depth |-> Top.depth + 1, at |-> "enter", left |-> 0],
                   [Top EXCEPT !.left = @ - 1]>> \o Tail(stack)
  BY DEF PlanSubdir
<1>2. /\ In("dirs") /\ Top.left > 0
      /\ UNCHANGED <<outcome, entries, lastPath, symlinkPaths, wanted>>
  BY DEF PlanSubdir
<1>3. /\ stack \in Seq(Frame) /\ stack # <<>> /\ Top \in Frame /\ outcome = "planning"
      /\ entries \in Seq(Entry) /\ Top.at = "dirs" /\ wanted \in [Paths -> Nat]
      /\ p \in Paths
  BY <1>2, AtPlace DEF In, PlannerInv, TypeOK, Fresh, Children
<1>4. LinksInv'
  BY <1>2 DEF LinksInv, Going
<1> DEFINE f == [path |-> p, depth |-> Top.depth + 1, at |-> "enter", left |-> 0]
           g == [Top EXCEPT !.left = @ - 1]
<1>5. f \in Frame /\ f.at = "enter"
  BY <1>3 DEF Frame
<1>6. g \in Frame /\ g.at = "dirs"
  BY <1>2, <1>3, CountedDown
<1>7. stack' = <<f, g>> \o Tail(stack)
  BY <1>1
<1> HIDE DEF f, g
<1>8. /\ DOMAIN stack' = 1 .. (Len(stack) + 1)
      /\ stack'[1] = f /\ stack'[2] = g
      /\ \A k \in DOMAIN stack' : k > 2 => stack'[k] = stack[k - 1] /\ k - 1 \in DOMAIN stack
  BY <1>3, <1>5, <1>6, <1>7, PushFrame
<1>9. \A k \in DOMAIN stack' : k # 1 => stack'[k].at = "dirs"
  <2> SUFFICES ASSUME NEW k \in DOMAIN stack', k # 1
               PROVE  stack'[k].at = "dirs"
    OBVIOUS
  <2>1. k \in Nat /\ k >= 1 /\ Len(stack) \in Nat
    BY <1>3, <1>8
  <2>2. CASE k = 2
    BY <1>6, <1>8, <2>2
  <2>3. CASE k > 2
    <3>1. stack'[k] = stack[k - 1] /\ k - 1 \in DOMAIN stack /\ k - 1 # 1
      BY <1>8, <2>1, <2>3
    <3> QED BY <1>3, <3>1 DEF CountInv
  <2> QED BY <2>1, <2>2, <2>3
<1>10. ASSUME NEW q \in Paths
       PROVE  wanted'[q] <= Cardinality(Held(entries', q)) + Missing(stack', q)
  <2>1. wanted[q] <= Cardinality(Held(entries, q)) + Missing(stack, q) /\ wanted[q] \in Nat
    BY <1>3 DEF CountInv, Going
  <2>2. Missing(stack, q) = 0 /\ Missing(stack', q) = 0
    BY <1>3, <1>5, <1>8 DEF Missing, Top
  <2> QED BY <1>2, <1>3, <2>1, <2>2, HeldCount
<1>11. CountInv'
  BY <1>2, <1>3, <1>9, <1>10 DEF CountInv
<1> QED BY <1>4, <1>11

(* As many files are missing as have been drawn. *)
LEMMA DirsDoneKeeps ==
  ASSUME PlannerInv, LinksInv, CountInv, DirsDone
  PROVE  LinksInv' /\ CountInv'
<1> USE PlannerAssumption
<1>1. PICK n \in FileCounts :
        /\ stack' = <<[Top EXCEPT !.at = "files", !.left = n]>> \o Tail(stack)
        /\ wanted' = [wanted EXCEPT ![Top.path] = n]
  BY DEF DirsDone
<1>2. In("dirs") /\ UNCHANGED <<outcome, entries, lastPath, symlinkPaths>>
  BY DEF DirsDone
<1>3. /\ stack \in Seq(Frame) /\ stack # <<>> /\ Top \in Frame /\ Top.path \in Paths
      /\ outcome = "planning" /\ entries \in Seq(Entry) /\ Top.at = "dirs"
      /\ wanted \in [Paths -> Nat] /\ n \in Nat
  BY <1>2, AtPlace DEF In, PlannerInv, TypeOK
<1>4. LinksInv'
  BY <1>2 DEF LinksInv, Going
<1> DEFINE f == [Top EXCEPT !.at = "files", !.left = n]
<1>5. f \in Frame /\ f.at = "files" /\ f.path = Top.path /\ f.left = n
  BY <1>3 DEF Frame
<1>6. stack' = <<f>> \o Tail(stack)
  BY <1>1
<1> HIDE DEF f
<1>7. /\ DOMAIN stack' = DOMAIN stack /\ stack'[1] = f /\ stack' # <<>>
      /\ \A k \in DOMAIN stack' : k # 1 => stack'[k] = stack[k]
  BY <1>3, <1>5, <1>6, ReplaceTop
<1>8. ASSUME NEW p \in Paths
      PROVE  wanted'[p] <= Cardinality(Held(entries', p)) + Missing(stack', p)
  <2>1. wanted[p] <= Cardinality(Held(entries, p)) + Missing(stack, p) /\ wanted[p] \in Nat
    BY <1>3 DEF CountInv, Going
  <2>2. Cardinality(Held(entries, p)) \in Nat
    BY <1>3, HeldCount
  <2>3. CASE p = Top.path
    <3>1. Missing(stack', p) = n /\ wanted'[p] = n
      BY <1>1, <1>3, <1>5, <1>7, <2>3 DEF Missing
    <3> QED BY <1>2, <1>3, <2>2, <3>1
  <2>4. CASE p # Top.path
    <3>1. Missing(stack, p) = 0 /\ Missing(stack', p) = 0 /\ wanted'[p] = wanted[p]
      BY <1>1, <1>3, <1>5, <1>7, <2>4 DEF Missing, Top
    <3> QED BY <1>2, <2>1, <2>2, <3>1
  <2> QED BY <2>3, <2>4
<1>9. CountInv'
  BY <1>2, <1>3, <1>7, <1>8 DEF CountInv
<1> QED BY <1>4, <1>9

(* Both invariants hold in every state of the planner. *)
LEMMA PlanInvInit == Init => LinksInv /\ CountInv /\ GroupInv
<1> SUFFICES ASSUME Init PROVE LinksInv /\ CountInv /\ GroupInv
  OBVIOUS
<1> USE PathAssumption
<1>1. LinksInv
  BY DEF Init, LinksInv, AllResolve
<1>2. CountInv
  <2>1. stack[1].at = "enter" /\ entries = <<>>
    BY DEF Init
  <2>2. ASSUME NEW p \in Paths
        PROVE  wanted[p] <= Cardinality(Held(entries, p)) + Missing(stack, p)
    <3>1. Held(entries, p) = {}
      BY <2>1 DEF Held
    <3>2. Missing(stack, p) = 0
      BY <2>1 DEF Missing
    <3>3. wanted[p] = 0
      BY DEF Init
    <3>4. Cardinality(Held(entries, p)) = 0
      BY <3>1, FS_EmptySet
    <3> QED BY <3>2, <3>3, <3>4
  <2>3. \A k \in DOMAIN stack : k = 1
    BY DEF Init
  <2>4. outcome = "planning"
    BY DEF Init
  <2> QED BY <2>2, <2>3, <2>4 DEF CountInv
<1>3. GroupInv
  BY DEF Init, GroupInv
<1> QED BY <1>1, <1>2, <1>3

(* Every step of the planner keeps what is known of links and counts. *)
LEMMA LinksCountNext ==
  ASSUME PlannerInv, LinksInv, CountInv, [Next]_vars
  PROVE  LinksInv' /\ CountInv'
<1>1. CASE PlanSymlink
  BY <1>1, SymlinkIsOneEntry, OneEntryKeeps
<1>2. CASE PlanDangling \/ PlanSelfReferential
  BY <1>2, OtherSymlinkIsOneEntry, OneEntryKeeps
<1>3. CASE PlanHardlink \/ PlanSpecial \/ PlanFile
  BY <1>3, FileIsOneEntry, OneEntryKeeps
<1>4. CASE PlanCycle
  BY <1>4, CycleKeeps
<1>5. CASE PlanFileWithLink
  BY <1>5, FileWithLinkKeeps
<1>6. CASE \/ PlanHalfCycle \/ PlanFileLinkFails \/ PlanDeviceFails \/ PlanFileFails
           \/ LimitReached \/ SecondNameExhausted \/ NamesExhausted \/ EnterDirFails
  BY <1>6, FailureKeeps
<1>7. CASE EnterDir
  BY <1>7, EnterDirKeeps
<1>8. CASE TooDeep \/ FilesDone
  BY <1>8, ReturnKeeps
<1>9. CASE PlanSubdir
  BY <1>9, SubdirKeeps
<1>10. CASE DirsDone
  BY <1>10, DirsDoneKeeps
<1>11. CASE UNCHANGED vars
  BY <1>11 DEF vars, linkVars, LinksInv, CountInv, Going
<1> QED BY <1>1, <1>2, <1>3, <1>4, <1>5, <1>6, <1>7, <1>8, <1>9, <1>10, <1>11 DEF Next

-----------------------------------------------------------------------------

(* No group changes, and every new regular file is a file of its own. *)
NoNewLink ==
  /\ groupByPath' = groupByPath /\ groups' = groups
  /\ filePaths \subseteq filePaths'
  /\ \A k \in DOMAIN entries' :
       \/ k \in DOMAIN entries /\ entries'[k] = entries[k]
       \/ /\ entries'[k].kind # "hardlink"
          /\ entries'[k].kind = "file" => entries'[k].path \notin filePaths

(* A step that makes no hard link keeps the groups. *)
LEMMA NoNewLinkKeeps ==
  ASSUME PlannerInv', GroupInv, NoNewLink
  PROVE  GroupInv'
<1>1. entries' \in Seq(Entry)
  BY DEF PlannerInv, TypeOK
<1>2. ASSUME NEW k \in DOMAIN entries'
      PROVE  /\ entries'[k].kind = "file" => Root(groupByPath, entries'[k].path) = entries'[k].path
             /\ entries'[k].kind = "hardlink" =>
                  Root(groupByPath, entries'[k].path) = Root(groupByPath, entries'[k].target)
  <2>1. entries'[k] \in Entry
    BY <1>1
  <2>2. entries'[k].path \in Paths
    BY <2>1 DEF Entry
  <2>3. CASE k \in DOMAIN entries /\ entries'[k] = entries[k]
    BY <2>3 DEF GroupInv
  <2>4. CASE /\ entries'[k].kind # "hardlink"
             /\ entries'[k].kind = "file" => entries'[k].path \notin filePaths
    BY <2>2, <2>4 DEF GroupInv, Root
  <2> QED BY <2>3, <2>4 DEF NoNewLink
<1>3. /\ \A p, o \in Paths : p \in groups'[o] <=> groupByPath'[p] = o
      /\ \A p \in Paths : groupByPath'[p] # NoPath =>
           p \in filePaths' /\ groupByPath'[groupByPath'[p]] = groupByPath'[p]
  BY DEF GroupInv, NoNewLink
<1> QED BY <1>2, <1>3 DEF GroupInv, NoNewLink

(* A hard link joins the group of its target, or starts one with it. *)
LEMMA HardlinkKeepsGroups ==
  ASSUME PlannerInv, GroupInv, PlanHardlink
  PROVE  GroupInv'
<1> USE PathAssumption
<1>1. PICK t \in filePaths, p \in Fresh(Top.path) :
        /\ entries' = Append(entries, Entry5("hardlink", p, t, {}, "none"))
        /\ filePaths' = filePaths \cup {p}
        /\ groupByPath' = [groupByPath EXCEPT ![t] = GroupOrigin(t), ![p] = GroupOrigin(t)]
        /\ groups' = [groups EXCEPT ![GroupOrigin(t)] = @ \cup {t, p}]
  BY DEF PlanHardlink
<1>2. AtFile
  BY DEF PlanHardlink
<1>3. /\ entries \in Seq(Entry) /\ filePaths \subseteq Paths
      /\ groupByPath \in [Paths -> Paths \cup {NoPath}] /\ groups \in [Paths -> SUBSET Paths]
      /\ t \in Paths /\ p \in Paths /\ p \notin filePaths
  BY <1>2, FreshPath DEF PlannerInv, TypeOK, AtFile
<1> DEFINE o == GroupOrigin(t)
<1>4. /\ o \in Paths
      /\ groupByPath[p] = NoPath
      /\ groupByPath[t] = NoPath => o = t
      /\ groupByPath[t] # NoPath => groupByPath[t] = o /\ groupByPath[o] = o
      /\ o # p
  BY <1>3 DEF GroupInv, GroupOrigin
<1> HIDE DEF o
<1>5. /\ groupByPath' \in [Paths -> Paths \cup {NoPath}]
      /\ groupByPath'[t] = o /\ groupByPath'[p] = o
      /\ \A q \in Paths : q # t /\ q # p => groupByPath'[q] = groupByPath[q]
      /\ groups'[o] = groups[o] \cup {t, p}
      /\ \A q \in Paths : q # o => groups'[q] = groups[q]
  BY <1>1, <1>3, <1>4 DEF o
<1>6. groupByPath'[o] = o
  BY <1>4, <1>5
<1>7. \A q, r \in Paths : q \in groups'[r] <=> groupByPath'[q] = r
  <2> SUFFICES ASSUME NEW q \in Paths, NEW r \in Paths
               PROVE  q \in groups'[r] <=> groupByPath'[q] = r
    OBVIOUS
  <2>1. q \in groups[r] <=> groupByPath[q] = r
    BY DEF GroupInv
  <2>2. CASE q = t \/ q = p
    BY <1>3, <1>4, <1>5, <2>1, <2>2
  <2>3. CASE q # t /\ q # p
    BY <1>5, <2>1, <2>3
  <2> QED BY <2>2, <2>3
<1>8. \A q \in Paths : groupByPath'[q] # NoPath =>
        q \in filePaths' /\ groupByPath'[groupByPath'[q]] = groupByPath'[q]
  <2> SUFFICES ASSUME NEW q \in Paths, groupByPath'[q] # NoPath
               PROVE  q \in filePaths' /\ groupByPath'[groupByPath'[q]] = groupByPath'[q]
    OBVIOUS
  <2>1. CASE q = t \/ q = p
    BY <1>1, <1>5, <1>6, <2>1
  <2>2. CASE q # t /\ q # p
    <3>1. groupByPath'[q] = groupByPath[q] /\ q \in filePaths
      BY <1>5, <2>2 DEF GroupInv
    <3>2. groupByPath[q] \in Paths /\ groupByPath[groupByPath[q]] = groupByPath[q]
      BY <1>3, <3>1 DEF GroupInv
    <3>3. groupByPath[q] # p
      BY <1>3, <1>4, <3>2
    <3>4. CASE groupByPath[q] = t
      BY <1>1, <1>4, <1>5, <3>1, <3>2, <3>4
    <3>5. CASE groupByPath[q] # t
      BY <1>1, <1>5, <3>1, <3>2, <3>3, <3>5
    <3> QED BY <3>4, <3>5
  <2> QED BY <2>1, <2>2
<1>9. \A q \in Paths : q # p => Root(groupByPath', q) = Root(groupByPath, q)
  BY <1>4, <1>5 DEF Root
<1>10. Root(groupByPath', p) = o /\ Root(groupByPath', t) = o
  BY <1>3, <1>4, <1>5 DEF Root
<1> DEFINE e == Entry5("hardlink", p, t, {}, "none")
<1>11. e \in Entry /\ e.kind = "hardlink" /\ e.path = p /\ e.target = t
  BY <1>3 DEF Entry, Entry5, EntryKinds, Origins
<1>12. entries' = Append(entries, e)
  BY <1>1
<1> HIDE DEF e
<1>13. /\ DOMAIN entries' = 1 .. (Len(entries) + 1) /\ Len(entries) \in Nat
       /\ DOMAIN entries = 1 .. Len(entries)
       /\ \A k \in DOMAIN entries : entries'[k] = entries[k]
       /\ entries'[Len(entries) + 1] = e
  BY <1>3, <1>11, <1>12
<1>14. \A k \in DOMAIN entries' :
         /\ entries'[k].kind = "file" =>
              Root(groupByPath', entries'[k].path) = entries'[k].path
         /\ entries'[k].kind = "hardlink" =>
              Root(groupByPath', entries'[k].path) = Root(groupByPath', entries'[k].target)
  <2> SUFFICES ASSUME NEW k \in DOMAIN entries'
               PROVE  /\ entries'[k].kind = "file" =>
                           Root(groupByPath', entries'[k].path) = entries'[k].path
                      /\ entries'[k].kind = "hardlink" =>
                           Root(groupByPath', entries'[k].path)
                             = Root(groupByPath', entries'[k].target)
    OBVIOUS
  <2>1. CASE k = Len(entries) + 1
    BY <1>10, <1>11, <1>13, <2>1
  <2>2. CASE k \in DOMAIN entries
    <3>1. entries'[k] = entries[k] /\ entries[k] \in Entry
      BY <1>3, <1>13, <2>2
    <3>2. entries[k].path \in Paths /\ entries[k].path # p
      <4>1. entries[k].path \in PathsOf(entries) /\ p \notin PathsOf(entries)
        BY <1>2, <2>2, FreshPath DEF PathsOf, AtFile
      <4> QED BY <3>1, <4>1 DEF Entry
    <3>3. entries[k].kind = "hardlink" => entries[k].target \in Paths /\ entries[k].target # p
      <4> SUFFICES ASSUME entries[k].kind = "hardlink"
                   PROVE  entries[k].target \in Paths /\ entries[k].target # p
        OBVIOUS
      <4>1. LinksBackward(entries)
        BY DEF PlannerInv, Sound, WellFormedPlan
      <4>2. PICK j \in 1 .. (k - 1) : entries[j].path = entries[k].target
        BY <2>2, <4>1 DEF LinksBackward
      <4>3. j \in DOMAIN entries
        BY <1>13, <2>2, <4>2
      <4>4. entries[j] \in Entry /\ entries[j].path \in PathsOf(entries)
        BY <1>3, <4>3 DEF PathsOf
      <4>5. p \notin PathsOf(entries)
        BY <1>2, FreshPath DEF AtFile
      <4> QED BY <4>2, <4>4, <4>5 DEF Entry
    <3> QED BY <1>9, <2>2, <3>1, <3>2, <3>3 DEF GroupInv
  <2> QED BY <1>13, <2>1, <2>2
<1> QED BY <1>7, <1>8, <1>14 DEF GroupInv

(* Planning one entry that is no hard link touches no group. *)
LEMMA OneIsNoNewLink ==
  ASSUME PlannerInv, NEW e \in Entry, entries' = Append(entries, e),
         e.kind # "hardlink", e.kind = "file" => e.path \notin filePaths,
         groupByPath' = groupByPath, groups' = groups, filePaths \subseteq filePaths'
  PROVE  NoNewLink
<1>1. entries \in Seq(Entry)
  BY DEF PlannerInv, TypeOK
<1>2. /\ DOMAIN entries' = 1 .. (Len(entries) + 1) /\ Len(entries) \in Nat
      /\ DOMAIN entries = 1 .. Len(entries)
      /\ \A k \in DOMAIN entries : entries'[k] = entries[k]
      /\ entries'[Len(entries) + 1] = e
  BY <1>1
<1> QED BY <1>2 DEF NoNewLink

(* So does planning two of them. *)
LEMMA TwoIsNoNewLink ==
  ASSUME PlannerInv, NEW d \in Entry, NEW e \in Entry,
         entries' = entries \o <<d, e>>,
         d.kind # "hardlink", d.kind = "file" => d.path \notin filePaths,
         e.kind = "symlink",
         groupByPath' = groupByPath, groups' = groups, filePaths \subseteq filePaths'
  PROVE  NoNewLink
<1>1. entries \in Seq(Entry)
  BY DEF PlannerInv, TypeOK
<1>2. /\ DOMAIN entries' = 1 .. (Len(entries) + 2) /\ Len(entries) \in Nat
      /\ DOMAIN entries = 1 .. Len(entries)
      /\ \A k \in DOMAIN entries : entries'[k] = entries[k]
      /\ entries'[Len(entries) + 1] = d
      /\ entries'[Len(entries) + 2] = e
  BY <1>1
<1> QED BY <1>2 DEF NoNewLink

(* Every action but PlanHardlink leaves the groups alone. *)
LEMMA OthersAreNoNewLink ==
  ASSUME PlannerInv, [Next]_vars, ~ PlanHardlink
  PROVE  NoNewLink
<1> USE PathAssumption, PlannerAssumption
<1>1. CASE /\ entries' = entries
           /\ UNCHANGED <<filePaths, groupByPath, groups>>
  BY <1>1 DEF NoNewLink
<1>2. CASE \/ TooDeep \/ PlanSubdir \/ DirsDone \/ FilesDone \/ PlanDeviceFails
           \/ PlanFileFails \/ LimitReached \/ SecondNameExhausted \/ NamesExhausted
           \/ UNCHANGED vars
  BY <1>1, <1>2 DEF TooDeep, PlanSubdir, DirsDone, FilesDone, PlanDeviceFails, PlanFileFails,
       LimitReached, SecondNameExhausted, NamesExhausted, Fail, vars, linkVars
<1>3. CASE EnterDir \/ EnterDirFails
  <2>1. In("enter") /\ UNCHANGED <<filePaths, groupByPath, groups>>
    BY <1>3 DEF EnterDir, EnterDirFails, Fail, linkVars
  <2>2. Top.path \in Paths
    BY <2>1, AtPlace
  <2>3. CASE entries' = entries
    BY <1>1, <2>1, <2>3
  <2>4. ASSUME NEW attrs \in SUBSET Attrs,
               entries' = Append(entries, Entry5("dir", Top.path, NoPath, attrs, "none"))
        PROVE  NoNewLink
    <3> DEFINE e == Entry5("dir", Top.path, NoPath, attrs, "none")
    <3>1. e \in Entry /\ e.kind # "hardlink" /\ e.kind # "file" /\ entries' = Append(entries, e)
      BY <2>2, <2>4 DEF Entry, Entry5, EntryKinds, Origins
    <3> HIDE DEF e
    <3> QED BY <2>1, <3>1, OneIsNoNewLink
  <2>5. \/ entries' = entries
        \/ \E attrs \in SUBSET Attrs :
             entries' = Append(entries, Entry5("dir", Top.path, NoPath, attrs, "none"))
    BY <1>3 DEF EnterDir, EnterDirFails
  <2> QED BY <2>3, <2>4, <2>5
<1>4. CASE PlanSymlink \/ PlanDangling \/ PlanSelfReferential \/ PlanHalfCycle
  <2>1. PICK p, t, via : entries' = Append(entries, Symlink(p, t, via))
    BY <1>4 DEF PlanSymlink, PlanDangling, PlanSelfReferential, PlanHalfCycle
  <2>2. UNCHANGED <<filePaths, groupByPath, groups>>
    BY <1>4 DEF PlanSymlink, PlanDangling, PlanSelfReferential, PlanHalfCycle, Fail,
                AddSymlinks, linkVars
  <2>3. entries' \in Seq(Entry) /\ entries \in Seq(Entry)
    BY PlannerInvNext DEF PlannerInv, TypeOK
  <2> DEFINE e == Symlink(p, t, via)
  <2>4. e.kind = "symlink" /\ entries' = Append(entries, e)
    BY <2>1 DEF Symlink, Entry5
  <2> HIDE DEF e
  <2>5. /\ DOMAIN entries' = 1 .. (Len(entries) + 1) /\ Len(entries) \in Nat
        /\ DOMAIN entries = 1 .. Len(entries)
        /\ \A k \in DOMAIN entries : entries'[k] = entries[k]
        /\ entries'[Len(entries) + 1] = e
    BY <2>3, <2>4
  <2> QED BY <2>2, <2>4, <2>5 DEF NoNewLink
<1>5. CASE PlanCycle
  <2>1. PICK p \in Fresh(Top.path), s \in Fresh(Top.path) : entries' = entries \o Cycle(p, s)
    BY <1>5 DEF PlanCycle
  <2>2. UNCHANGED <<filePaths, groupByPath, groups>> /\ p \in Paths /\ s \in Paths
    BY <1>5 DEF PlanCycle, AddSymlinks, linkVars, Fresh, Children
  <2> DEFINE d == Symlink(p, s, "cycle")
             e == Symlink(s, p, "cycle")
  <2>3. /\ d \in Entry /\ d.kind = "symlink" /\ e \in Entry /\ e.kind = "symlink"
        /\ entries' = entries \o <<d, e>>
    BY <2>1, <2>2 DEF Cycle, Entry, Symlink, Entry5, EntryKinds, Origins, Strategies
  <2> HIDE DEF d, e
  <2>4. d.kind # "hardlink" /\ d.kind # "file"
    BY <2>3
  <2> QED BY <2>2, <2>3, <2>4, TwoIsNoNewLink
<1>6. CASE PlanSpecial
  <2>1. PICK kind \in SpecialSet, p \in Fresh(Top.path) :
          entries' = Append(entries, Entry5(kind, p, NoPath, {"mode"}, "none"))
    BY <1>6 DEF PlanSpecial
  <2>2. UNCHANGED <<filePaths, groupByPath, groups>> /\ p \in Paths
    BY <1>6 DEF PlanSpecial, linkVars, Fresh, Children
  <2> DEFINE e == Entry5(kind, p, NoPath, {"mode"}, "none")
  <2>3. e \in Entry /\ e.kind \in SpecialKinds /\ entries' = Append(entries, e)
    BY <2>1, <2>2 DEF Entry, Entry5, EntryKinds, Origins, Attrs
  <2> HIDE DEF e
  <2>4. e.kind # "hardlink" /\ e.kind # "file"
    BY <2>3 DEF SpecialKinds
  <2> QED BY <2>2, <2>3, <2>4, OneIsNoNewLink
<1>7. CASE PlanFile \/ PlanFileLinkFails
  <2>1. PICK p \in Fresh(Top.path), attrs \in AttrSets :
          /\ entries' = Append(entries, Entry5("file", p, NoPath, attrs, "none"))
          /\ filePaths' = filePaths \cup {p}
    BY <1>7 DEF PlanFile, PlanFileLinkFails
  <2>2. AtFile /\ UNCHANGED <<groupByPath, groups>>
    BY <1>7 DEF PlanFile, PlanFileLinkFails, linkVars
  <2>3. p \in Paths /\ p \notin filePaths /\ attrs \in SUBSET Attrs
    BY <2>2, FreshPath DEF AtFile
  <2> DEFINE e == Entry5("file", p, NoPath, attrs, "none")
  <2>4. e \in Entry /\ e.kind = "file" /\ e.path = p /\ entries' = Append(entries, e)
    BY <2>1, <2>3 DEF Entry, Entry5, EntryKinds, Origins
  <2> HIDE DEF e
  <2>5. e.kind # "hardlink" /\ filePaths \subseteq filePaths'
    BY <2>1, <2>4
  <2> QED BY <2>2, <2>3, <2>4, <2>5, OneIsNoNewLink
<1>8. CASE PlanFileWithLink
  <2>1. PICK p \in Fresh(Top.path), s \in Fresh(Top.path), attrs \in AttrSets :
          /\ entries' = entries \o <<Entry5("file", p, NoPath, attrs, "none"),
                                     Symlink(s, p, "beside")>>
          /\ filePaths' = filePaths \cup {p}
    BY <1>8 DEF PlanFileWithLink
  <2>2. AtFile /\ UNCHANGED <<groupByPath, groups>>
    BY <1>8 DEF PlanFileWithLink, linkVars
  <2>3. p \in Paths /\ s \in Paths /\ p \notin filePaths /\ attrs \in SUBSET Attrs
    BY <2>2, FreshPath DEF AtFile
  <2> DEFINE d == Entry5("file", p, NoPath, attrs, "none")
             e == Symlink(s, p, "beside")
  <2>4. /\ d \in Entry /\ d.kind = "file" /\ d.path = p
        /\ e \in Entry /\ e.kind = "symlink"
        /\ entries' = entries \o <<d, e>>
    BY <2>1, <2>3 DEF Entry, Symlink, Entry5, EntryKinds, Origins
  <2> HIDE DEF d, e
  <2>5. d.kind # "hardlink" /\ filePaths \subseteq filePaths'
    BY <2>1, <2>4
  <2> QED BY <2>2, <2>3, <2>4, <2>5, TwoIsNoNewLink
<1> QED BY <1>2, <1>3, <1>4, <1>5, <1>6, <1>7, <1>8 DEF Next

(* Every step of the planner keeps the groups. *)
LEMMA GroupInvNext ==
  ASSUME PlannerInv, GroupInv, [Next]_vars
  PROVE  GroupInv'
<1>1. CASE PlanHardlink
  BY <1>1, HardlinkKeepsGroups
<1>2. CASE ~ PlanHardlink
  <2>1. NoNewLink
    BY <1>2, OthersAreNoNewLink
  <2>2. PlannerInv'
    BY PlannerInvNext
  <2> QED BY <2>1, <2>2, NoNewLinkKeeps
<1> QED BY <1>1, <1>2

(* Two regular files are in one group exactly if they have one root. *)
LEMMA GroupsAreRoots ==
  ASSUME PlannerInv, GroupInv, NEW p \in filePaths, NEW q \in filePaths, p # q
  PROVE  Root(groupByPath, p) = Root(groupByPath, q)
           <=> \E o \in Paths : {p, q} \subseteq groups[o]
<1> USE PathAssumption
<1>1. /\ p \in Paths /\ q \in Paths
      /\ groupByPath \in [Paths -> Paths \cup {NoPath}]
  BY DEF PlannerInv, TypeOK
<1>2. ASSUME NEW o \in Paths, {p, q} \subseteq groups[o]
      PROVE  Root(groupByPath, p) = Root(groupByPath, q)
  BY <1>1, <1>2 DEF GroupInv, Root
<1>3. ASSUME Root(groupByPath, p) = Root(groupByPath, q)
      PROVE  \E o \in Paths : {p, q} \subseteq groups[o]
  <2> DEFINE o == Root(groupByPath, p)
  <2>1. o \in Paths
    BY <1>1 DEF Root
  <2>2. groupByPath[p] = o /\ groupByPath[q] = o
    BY <1>1, <1>3 DEF Root, GroupInv
  <2>3. p \in groups[o] /\ q \in groups[o]
    BY <1>1, <2>1, <2>2 DEF GroupInv
  <2> QED BY <2>1, <2>3
<1> QED BY <1>2, <1>3

-----------------------------------------------------------------------------

(* Everything the proofs know of a state of the planner. *)
PlanInv == PlannerInv /\ LinksInv /\ CountInv /\ GroupInv

(* Every step of the planner keeps all of it. *)
LEMMA PlanInvNext == PlanInv /\ [Next]_vars => PlanInv'
BY PlannerInvNext, LinksCountNext, GroupInvNext DEF PlanInv

(* Planning starts in a state of that kind. *)
LEMMA PlanInvFirst == Init => PlanInv
BY PlannerInvInit, PlanInvInit DEF PlanInv

(* And never leaves such states. *)
LEMMA PlanInvAlways == Spec => []PlanInv
BY PlanInvFirst, PlanInvNext, PTL DEF Spec

(***************************************************************************)
(* In every plan that is returned each symlink that is not meant to dangle *)
(* leads to a planned entry of the kind its strategy asks for, planned     *)
(* before it, itself, or the other link of a closed cycle                  *)
(* (planSymlinkStrategy, planSymlinkCycle, planFile).                      *)
(***************************************************************************)
THEOREM PlannerSymlinksResolve == Spec => []SymlinksResolve
<1>1. PlanInv => SymlinksResolve
  BY DEF PlanInv, LinksInv, AllResolve, Going, SymlinksResolve
<1> QED BY <1>1, PlanInvAlways, PTL

(***************************************************************************)
(* A plan that is returned holds, in every directory, at least as many     *)
(* entries as were drawn for it: running out of names or of entries is an  *)
(* error, never a shorter plan (planDir, planUniquePathWithByte).          *)
(***************************************************************************)
THEOREM PlannerNeverUnderGenerates == Spec => []NeverUnderGenerates
<1>1. PlanInv => NeverUnderGenerates
  <2> SUFFICES ASSUME PlanInv, outcome = "done", NEW p \in Paths
               PROVE  wanted[p] <= Cardinality(Held(entries, p))
    BY DEF NeverUnderGenerates
  <2>1. stack = <<>> /\ entries \in Seq(Entry)
    BY DEF PlanInv, CountInv, PlannerInv, TypeOK
  <2>2. Missing(stack, p) = 0
    BY <2>1 DEF Missing
  <2>3. wanted[p] <= Cardinality(Held(entries, p)) + Missing(stack, p)
    BY DEF PlanInv, CountInv, Going
  <2> QED BY <2>1, <2>2, <2>3, HeldCount
<1> QED BY <1>1, PlanInvAlways, PTL

-----------------------------------------------------------------------------
(***************************************************************************)
(* Part two: the pipeline.                                                 *)
(***************************************************************************)

(* The theory of the apply pipeline, for the pipeline's own variables. *)
P == INSTANCE ApplyPlanProofs WITH Plans <- {}

(* The file of the plan that each name leads to. *)
PlannedRoot == [p \in Paths |-> Root(groupByPath, p)]

PipelineInv ==
  /\ strategies \in StrategySets
  /\ PlanInv
  /\ P!ApplyInv
  /\ pc # "idle" => outcome = "done" /\ plan = entries
  /\ P!InodesRooted(PlannedRoot)

-----------------------------------------------------------------------------
(***************************************************************************)
(* Apply and P are the same definitions over the same variables.           *)
(***************************************************************************)

(* What ApplyPlan assumes of its constants holds here. *)
LEMMA ApplyAssumptionsHold == P!PathAssumption /\ P!RunAssumption
<1>1. P!PathAssumption
  BY PathAssumption
<1>2. P!RunAssumption
  BY PipelineAssumption
     DEF Apply!FaultRule, P!FaultRule, Apply!Node, P!Node, Apply!NodeKinds, P!NodeKinds,
         Apply!SpecialKinds, P!SpecialKinds, Apply!Attrs, P!Attrs
<1> QED BY <1>1, <1>2

(* Both start in the same state. *)
LEMMA SameInit == Apply!Init <=> P!Init
BY DEF Apply!Init, P!Init, Apply!newFaultInjector, P!newFaultInjector

(* Both start a run in the same way. *)
LEMMA SameStart ==
  ASSUME NEW pl, NEW m, NEW rules
  PROVE  Apply!StartRun(pl, m, rules) <=> P!StartRun(pl, m, rules)
BY DEF Apply!StartRun, P!StartRun, Apply!newFaultInjector, P!newFaultInjector,
       Apply!validate, P!validate

(* Both take the same steps. *)
LEMMA SameStep == Apply!RunStep <=> P!RunStep
BY DEF Apply!RunStep, P!RunStep, Apply!ClearBase, P!ClearBase, Apply!ClearFails,
       P!ClearFails, Apply!EntryFault, P!EntryFault, Apply!InspectFails, P!InspectFails,
       Apply!EntryAccepted, P!EntryAccepted, Apply!EntryRefused, P!EntryRefused,
       Apply!EntryCreated, P!EntryCreated, Apply!EntryFails, P!EntryFails,
       Apply!EntriesDone, P!EntriesDone, Apply!FinalizeSkip, P!FinalizeSkip,
       Apply!FinalizeFault, P!FinalizeFault, Apply!FinalizeDir, P!FinalizeDir,
       Apply!FinalizeFails, P!FinalizeFails, Apply!FinishRun, P!FinishRun, Apply!Absent,
       P!Absent, Apply!Exists, P!Exists, Apply!WithNode, P!WithNode, Apply!NodeKind,
       P!NodeKind, Apply!CallOrder, P!CallOrder, Apply!MetadataCalls, P!MetadataCalls,
       Apply!Clobbers, P!Clobbers, Apply!AfterCalls, P!AfterCalls, Apply!AfterAllCalls,
       P!AfterAllCalls, Apply!AfterFailedCall, P!AfterFailedCall, Apply!Made, P!Made,
       Apply!Created, P!Created, Apply!Leftovers, P!Leftovers, Apply!Accepts, P!Accepts,
       Apply!CanCreate, P!CanCreate, Apply!Label, P!Label, Apply!CreatePoint,
       P!CreatePoint, Apply!FinalizePoint, P!FinalizePoint, Apply!Passes, P!Passes,
       Apply!Faults, P!Faults, Apply!AtEntry, P!AtEntry, Apply!LastEntry, P!LastEntry,
       Apply!ToFinalize, P!ToFinalize, Apply!AtFinalize, P!AtFinalize, Apply!runVars,
       P!runVars, Apply!FirstRule, P!FirstRule, Apply!faultRuleMatchesPoint,
       P!faultRuleMatchesPoint, Apply!Advancing, P!Advancing, Apply!Due, P!Due,
       Apply!FiredRule, P!FiredRule, Apply!before, P!before

(* The two halves agree on what a well-formed plan is. *)
LEMMA SamePlans ==
  ASSUME NEW pl
  PROVE  P!WellFormedPlan(pl) <=> WellFormedPlan(pl)
BY DEF P!WellFormedPlan, WellFormedPlan, P!RootFirst, RootFirst, P!PathsDistinct,
       PathsDistinct, P!ParentsFirst, ParentsFirst, P!LinksBackward, LinksBackward,
       P!Entry, Entry, P!EntryKinds, EntryKinds, P!SpecialKinds, SpecialKinds,
       P!Attrs, Attrs, P!Origins, Origins, P!Strategies, Strategies

-----------------------------------------------------------------------------

(* The invariant holds before the first run. *)
LEMMA PipelineInvInit == PipelineInit => PipelineInv
<1> SUFFICES ASSUME PipelineInit PROVE PipelineInv
  OBVIOUS
<1>1. Init /\ P!Init
  BY SameInit DEF PipelineInit
<1>2. PlanInv
  BY <1>1, PlanInvFirst
<1>3. P!ApplyInv
  BY <1>1, ApplyAssumptionsHold, P!ApplyInvInit
<1>4. pc = "idle" /\ strategies \in StrategySets
  BY <1>1 DEF P!Init, Init
<1> QED BY <1>2, <1>3, <1>4 DEF PipelineInv, P!InodesRooted

(* The planner does nothing once it has returned. *)
LEMMA PlannerIsDone == Next => outcome = "planning" /\ strategies' = strategies
BY DEF Next, TooDeep, EnterDir, EnterDirFails, PlanSubdir, DirsDone, FilesDone, PlanSymlink,
       PlanDangling, PlanSelfReferential, PlanCycle, PlanHalfCycle, PlanHardlink,
       PlanSpecial, PlanDeviceFails, PlanFile, PlanFileWithLink, PlanFileLinkFails,
       PlanFileFails, LimitReached, SecondNameExhausted, NamesExhausted, AtFile, In,
       Fail, AddSymlinks, linkVars

(* A step of the planner happens while the pipeline is idle. *)
LEMMA PlanStepKeeps == ASSUME PipelineInv, PlanStep PROVE PipelineInv'
<1>1. Next /\ UNCHANGED applyVars
  BY DEF PlanStep
<1>2. outcome = "planning" /\ strategies' = strategies
  BY <1>1, PlannerIsDone
<1>3. pc = "idle" /\ pc' = "idle"
  BY <1>1, <1>2 DEF PipelineInv, applyVars
<1>4. PlanInv'
  BY <1>1, PlanInvNext DEF PipelineInv
<1>5. P!ApplyInv'
  <2>1. UNCHANGED P!vars
    BY <1>1 DEF applyVars, P!vars, P!runVars
  <2>2. P!ApplyInv
    BY DEF PipelineInv
  <2> QED BY <2>1, <2>2, ApplyAssumptionsHold, P!ApplyInvNext
<1>6. P!InodesRooted(PlannedRoot)'
  BY <1>3 DEF P!InodesRooted
<1> QED BY <1>2, <1>3, <1>4, <1>5, <1>6 DEF PipelineInv

(* The finished plan is handed over. *)
LEMMA StartApplyKeeps == ASSUME PipelineInv, StartApply PROVE PipelineInv'
<1>1. PICK m \in Modes, rules \in Profiles : Apply!StartRun(entries, m, rules)
  BY DEF StartApply
<1>2. outcome = "done" /\ UNCHANGED vars
  BY DEF StartApply
<1>3. P!StartRun(entries, m, rules)
  BY <1>1, SameStart
<1>4. P!WellFormedPlan(entries) /\ m \in {"append", "strict", "replace"}
  BY SamePlans, PipelineAssumption DEF PipelineInv, PlanInv, PlannerInv, Sound
<1>5. P!ApplyInv'
  BY <1>3, <1>4, ApplyAssumptionsHold, P!StartKeepsInv DEF PipelineInv
<1>6. plan' = entries /\ stats'.applied = 0
  BY <1>3 DEF P!StartRun
<1>7. P!InodesRooted(PlannedRoot)'
  BY <1>6 DEF P!InodesRooted
<1>8. PlanInv'
  BY <1>2, PlanInvNext DEF PipelineInv
<1>9. strategies' \in StrategySets /\ outcome' = "done" /\ plan' = entries'
  BY <1>2, <1>6 DEF PipelineInv, vars, linkVars
<1> QED BY <1>5, <1>7, <1>8, <1>9 DEF PipelineInv

(* A step of the run leaves the plan and the planner's groups alone. *)
LEMMA ApplyStepKeeps == ASSUME PipelineInv, ApplyStep PROVE PipelineInv'
<1>1. P!RunStep /\ UNCHANGED vars
  BY SameStep DEF ApplyStep
<1>2. P!ApplyInv' /\ PlanInv'
  BY <1>1, ApplyAssumptionsHold, P!RunStepKeepsInv, PlanInvNext DEF PipelineInv
<1>3. pc # "idle" /\ plan' = plan
  BY <1>1 DEF P!RunStep, P!ClearBase, P!ClearFails, P!EntryFault, P!InspectFails,
       P!EntryAccepted, P!EntryRefused, P!EntryCreated, P!EntryFails, P!EntriesDone,
       P!FinalizeSkip, P!FinalizeFault, P!FinalizeDir, P!FinalizeFails, P!FinishRun,
       P!Faults, P!AtEntry, P!AtFinalize, P!runVars
<1>4. PICK root : root = PlannedRoot
  OBVIOUS
<1>5. P!Roots(plan, root)
  <2>1. plan = entries /\ entries \in Seq(Entry) /\ GroupInv /\ LinksBackward(entries)
    BY <1>3 DEF PipelineInv, PlanInv, PlannerInv, TypeOK, Sound, WellFormedPlan
  <2>2. \A k \in DOMAIN entries : entries[k] \in Entry
    BY <2>1
  <2>3. \A k \in DOMAIN entries : entries[k].path \in Paths
    BY <2>2 DEF Entry
  <2>4. \A k \in DOMAIN entries : entries[k].kind = "hardlink" => entries[k].target \in Paths
    BY <2>1, <2>3 DEF LinksBackward
  <2> QED BY <1>4, <2>1, <2>3, <2>4 DEF P!Roots, PlannedRoot, GroupInv
<1>6. P!InodesRooted(root)'
  BY <1>1, <1>4, <1>5, ApplyAssumptionsHold, P!RunStepKeepsInodes DEF PipelineInv
<1>7. PlannedRoot' = root /\ strategies' = strategies /\ outcome' = outcome
      /\ entries' = entries
  BY <1>1, <1>4 DEF PlannedRoot, vars, linkVars
<1>8. P!InodesRooted(PlannedRoot)'
  BY <1>6, <1>7 DEF P!InodesRooted
<1> QED BY <1>2, <1>3, <1>7, <1>8 DEF PipelineInv

(* A new run starts with a fresh planner. *)
LEMMA RunAgainKeeps == ASSUME PipelineInv, RunAgain PROVE PipelineInv'
<1>1. FreshPlanState /\ pc' = "idle"
      /\ UNCHANGED <<tree, run, plan, mode, profile, i, createdDirs, stats>>
  BY DEF RunAgain
<1>2. Init'
  BY <1>1 DEF FreshPlanState, Init, PipelineInv
<1>3. PlanInv'
  BY <1>2, PlanInvFirst, PTL
<1>4. P!ApplyInv'
  BY <1>1, ApplyAssumptionsHold, P!IdleKeepsInv DEF PipelineInv, P!runVars
<1>5. strategies' \in StrategySets
  BY <1>1 DEF FreshPlanState, PipelineInv
<1>6. P!InodesRooted(PlannedRoot)'
  BY <1>1 DEF P!InodesRooted
<1> QED BY <1>1, <1>3, <1>4, <1>5, <1>6 DEF PipelineInv

(* Every step of the composition keeps the invariant. *)
LEMMA PipelineInvNext == PipelineInv /\ [PipelineNext]_pipelineVars => PipelineInv'
<1> SUFFICES ASSUME PipelineInv, [PipelineNext]_pipelineVars PROVE PipelineInv'
  OBVIOUS
<1>1. CASE UNCHANGED pipelineVars
  <2>1. UNCHANGED vars /\ UNCHANGED P!vars /\ UNCHANGED <<mode, pc, plan, stats, tree>>
    BY <1>1 DEF pipelineVars, applyVars, P!vars, P!runVars
  <2>2. PlanInv' /\ P!ApplyInv'
    BY <2>1, PlanInvNext, ApplyAssumptionsHold, P!ApplyInvNext DEF PipelineInv
  <2>3. PlannedRoot' = PlannedRoot /\ strategies' = strategies /\ outcome' = outcome
        /\ entries' = entries
    BY <2>1 DEF PlannedRoot, vars, linkVars
  <2>4. P!InodesRooted(PlannedRoot)'
    BY <2>1, <2>3 DEF PipelineInv, P!InodesRooted
  <2> QED BY <2>1, <2>2, <2>3, <2>4 DEF PipelineInv
<1> QED BY <1>1, PlanStepKeeps, StartApplyKeeps, ApplyStepKeeps, RunAgainKeeps
        DEF PipelineNext

(* The invariant holds in every state of the composition. *)
LEMMA PipelineInvAlways == PipelineSpec => []PipelineInv
BY PipelineInvInit, PipelineInvNext, PTL DEF PipelineSpec

-----------------------------------------------------------------------------

(* After a run that made all of its plan, names share an inode exactly if  *)
(* the planner grouped them.                                               *)
LEMMA GroupsAreInodes ==
  ASSUME PipelineInv, pc = "ok", mode \in {"strict", "replace"},
         NEW p \in filePaths, NEW q \in filePaths, p # q
  PROVE  (tree[p].ino = tree[q].ino) <=> \E o \in Paths : {p, q} \subseteq groups[o]
<1>1. plan = entries /\ PlannerInv /\ GroupInv /\ filePaths \subseteq Paths
  BY DEF PipelineInv, PlanInv, PlannerInv, TypeOK
<1>2. stats.applied = Len(plan) /\ plan \in Seq(Entry)
  BY <1>1 DEF PipelineInv, P!ApplyInv, P!LoopsCounted, PlannerInv, TypeOK
<1>3. ASSUME NEW r \in filePaths
      PROVE  tree[r].ino = Root(groupByPath, r)
  <2>1. PICK k \in DOMAIN entries : entries[k].kind \in Regular /\ entries[k].path = r
    BY <1>1 DEF PlannerInv, Sound, PlannedAs
  <2>2. k \in 1 .. stats.applied /\ plan[k].kind \in {"file", "hardlink"} /\ plan[k].path = r
    BY <1>1, <1>2, <2>1 DEF Regular
  <2>3. tree[r].ino = PlannedRoot[r]
    BY <2>2 DEF PipelineInv, P!InodesRooted
  <2> QED BY <1>1, <2>3 DEF PlannedRoot
<1> QED BY <1>1, <1>3, GroupsAreRoots

(* After a replace run a symlink leads to a node unless it was planned to  *)
(* dangle.                                                                 *)
LEMMA LinksLeadSomewhere ==
  ASSUME PipelineInv, pc = "ok", mode = "replace",
         NEW k \in DOMAIN plan, plan[k].kind = "symlink"
  PROVE  (tree[plan[k].target].kind = "none") <=> plan[k].via = "dangling"
<1>1. plan = entries /\ outcome = "done" /\ PlannerInv /\ LinksInv
  BY DEF PipelineInv, PlanInv
<1>2. /\ stats.applied = Len(plan) /\ plan \in Seq(Entry) /\ used \subseteq Paths
      /\ DOMAIN plan = 1 .. Len(plan)
  BY <1>1 DEF PipelineInv, P!ApplyInv, P!LoopsCounted, PlannerInv, TypeOK
<1>3. \A p \in Paths : tree[p].kind # "none" <=> p \in PathsOf(plan)
  BY <1>2 DEF PipelineInv, P!ApplyInv, P!OnlyPrefixExists, P!Exists, PathsOf
<1>4. CASE plan[k].via = "dangling"
  <2>1. plan[k].target \in used \ PathsOf(plan)
    BY <1>1, <1>4 DEF PlannerInv, Sound, Dangling
  <2> QED BY <1>2, <1>3, <1>4, <2>1
<1>5. CASE plan[k].via # "dangling"
  <2>1. Resolves(plan, k)
    BY <1>1, <1>5 DEF LinksInv, Going, AllResolve
  <2>2. PICK j \in DOMAIN plan : plan[j].path = plan[k].target
    BY <2>1 DEF Resolves
  <2>3. plan[k].target \in PathsOf(plan) /\ plan[j] \in Entry
    BY <1>2, <2>2 DEF PathsOf
  <2>4. plan[k].target \in Paths
    BY <2>2, <2>3 DEF Entry
  <2> QED BY <1>3, <1>5, <2>3, <2>4
<1> QED BY <1>4, <1>5

(***************************************************************************)
(* The links of the plan are the links on disk, for every generator and    *)
(* after any number of runs: hard links share an inode exactly as the      *)
(* planner grouped them (registerHardlink against os.Link), and symlinks   *)
(* lead to a node exactly if they were not planned to dangle               *)
(* (planSymlinkStrategy against os.Symlink).                               *)
(***************************************************************************)
THEOREM PipelineLinksAsPlanned == PipelineSpec => []LinksAsPlanned
<1>1. PipelineInv => LinksAsPlanned
  BY GroupsAreInodes, LinksLeadSomewhere DEF LinksAsPlanned
<1> QED BY <1>1, PipelineInvAlways, PTL

(***************************************************************************)
(* Whatever was planned can be applied in order: in every run of a         *)
(* generator, over whatever earlier runs left, the directory of the next   *)
(* entry exists and a hard link finds its file (planRun against            *)
(* applyPlannedEntry).                                                     *)
(***************************************************************************)
THEOREM PipelineOrderSuffices == PipelineSpec => []Apply!OrderSuffices
<1>1. PipelineInv => Apply!OrderSuffices
  <2>1. Apply!OrderSuffices <=> P!OrderSuffices
    BY DEF Apply!OrderSuffices, P!OrderSuffices, Apply!AtEntry, P!AtEntry,
           Apply!CanCreate, P!CanCreate
  <2> QED BY <2>1, ApplyAssumptionsHold, P!OrderHolds DEF PipelineInv
<1> QED BY <1>1, PipelineInvAlways, PTL

=============================================================================
