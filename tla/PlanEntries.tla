---------------------------- MODULE PlanEntries ----------------------------
(***************************************************************************)
(* The vocabulary shared by the planner (plan.go, planRun) and by the      *)
(* apply pipeline (plan.go, applyRunPlan): paths, planned entries and what *)
(* makes a sequence of planned entries a plan that can be applied in       *)
(* order.                                                                  *)
(*                                                                         *)
(* A path is an opaque value.  Dir is filepath.Dir restricted to the tree  *)
(* below the base path; the parent of Base itself lies outside the tree.   *)
(***************************************************************************)
EXTENDS Integers, Sequences

CONSTANTS
  Paths,   \* every path that can be named below and including the base path
  Base,    \* Generator.basePath
  Dir,     \* [Paths -> Paths]: the parent directory of a path
  NoPath   \* the empty string, where the code stores no path

ASSUME PathAssumption ==
  /\ Base \in Paths
  /\ Dir \in [Paths -> Paths]
  /\ NoPath \notin Paths

(* What plannedEntryType and SpecialFileType tell apart. *)
SpecialKinds == {"fifo", "socket", "char", "block"}
EntryKinds   == {"dir", "file", "symlink", "hardlink"} \cup SpecialKinds

(***************************************************************************)
(* The metadata an entry asks for (mode and metadataConfig).  "mode" is    *)
(* the nine permission bits, "sbits" says that the planned mode also has   *)
(* setuid, setgid or sticky set, and "unfit" that a generator of the       *)
(* caller's returned what only a manifest refuses: a mode above 0o7777, a  *)
(* negative owner.                                                         *)
(***************************************************************************)
Attrs == {"owner", "mode", "sbits", "unfit", "times", "xattrs", "acl"}

(* How a symlink's target was chosen: a SymlinkStrategy, or one of the two *)
(* probabilistic forms used when no strategy generator is configured.      *)
Strategies == {"absolute", "relative", "dangling", "self", "chained", "cycle"}
Origins    == Strategies \cup {"last", "beside", "none"}

(***************************************************************************)
(* plannedEntry.  linkTarget is kept as the path it resolves to; via tells *)
(* if it is written absolutely or relative to the link.  The base path is  *)
(* taken to be absolute.                                                   *)
(***************************************************************************)
Entry == [kind : EntryKinds, path : Paths, target : Paths \cup {NoPath},
          attrs : SUBSET Attrs, via : Origins]

PathsOf(pl) == {pl[k].path : k \in DOMAIN pl}

(* The base path is planned first, as a directory. *)
RootFirst(pl) ==
  pl # <<>> => pl[1].kind = "dir" /\ pl[1].path = Base

(* No path is planned twice. *)
PathsDistinct(pl) ==
  \A j, k \in DOMAIN pl : pl[j].path = pl[k].path => j = k

(* The directory that holds an entry is planned before the entry. *)
ParentsFirst(pl) ==
  \A j \in DOMAIN pl : pl[j].path # Base =>
    \E k \in 1 .. (j - 1) :
      pl[k].kind = "dir" /\ pl[k].path = Dir[pl[j].path]

(* A hard link names a regular file, or another link to one, planned before. *)
LinksBackward(pl) ==
  \A j \in DOMAIN pl : pl[j].kind = "hardlink" =>
    \E k \in 1 .. (j - 1) :
      pl[k].kind \in {"file", "hardlink"} /\ pl[k].path = pl[j].target

WellFormedPlan(pl) ==
  /\ pl \in Seq(Entry)
  /\ RootFirst(pl)
  /\ PathsDistinct(pl)
  /\ ParentsFirst(pl)
  /\ LinksBackward(pl)

=============================================================================
