------------------------------- MODULE Parity -------------------------------
(***************************************************************************)
(* An entry is made twice, below two base paths, and the results are       *)
(* compared: content (module Content), mode, times and ACL (module Acl) of *)
(* one planned entry, in the order in which applyPlannedEntry and          *)
(* applyMetadata write them, then the comparison (module Diff).  Any step  *)
(* of the making may fail and leave the rest undone.                       *)
(*                                                                         *)
(* The module ApplyPlan has the pipeline around these steps and abstracts  *)
(* the data; here it is the data that counts.                              *)
(***************************************************************************)
EXTENDS Diff

CONSTANT Jobs   \* recipes for both sides, or trees that are there, and a comparison

(* What can be planned for an entry *)
IsRecipe(r) ==
  /\ r.kind \in {"file", "dir"}
  /\ IsPlanned(r.content)
  /\ r.times = <<r.times[1], r.times[2]>>
  /\ DOMAIN r.xattrs = 1 .. Len(r.xattrs) /\ Len(r.xattrs) \in Nat
  /\ DOMAIN r.acl = 1 .. Len(r.acl) /\ Len(r.acl) \in Nat
  /\ \A i \in DOMAIN r.acl : IsKey(r.acl[i].key)

ASSUME JobsAssumption ==
  \A j \in Jobs :
    /\ j.disk = [s \in Sides |-> j.disk[s]]
    /\ \A s \in Sides : IsTree(j.disk[s])
    /\ j.recipe # <<>> => \A s \in Sides : IsRecipe(j.recipe[s])

VARIABLES
  job,        \* the job being done
  making,     \* the side being made and the step it is at
  call,       \* which write call, and the position in it
  written,    \* history: bytes written so far
  made        \* history: how the making of each side ended

makeVars == <<job, making, call, written, made>>
vars == <<diffVars, makeVars>>

Init ==
  /\ job \in Jobs
  /\ disk = job.disk
  /\ diff = job.diff
  /\ at = [side |-> "idle", name |-> 0]
  /\ seen = [s \in Sides |-> <<>>]
  /\ groups = [s \in Sides |-> [k \in 1 .. Names |-> {}]]
  /\ verdict = "none"
  /\ clock = 100
  /\ before = job.disk
  /\ lost = [s \in Sides |-> {}]
  /\ making = [side |-> IF job.recipe = <<>> THEN "none" ELSE "left", step |-> "create"]
  /\ call = [number |-> 1, position |-> 0]
  /\ written = 0
  /\ made = [s \in Sides |-> "todo"]

-----------------------------------------------------------------------------
(* Making one side *)

Recipe == job.recipe[making.side]
Making(step) == making.side \in Sides /\ making.step = step

Then(step) == making' = [making EXCEPT !.step = step]

Node == disk[making.side].node[1]
SetNode(x) == disk' = [disk EXCEPT ![making.side].node[1] = x]

MakeUnchanged == UNCHANGED <<diff, at, seen, groups, verdict, before, lost, job, made>>

(* The new inode gets its name; nothing is in it. *)
NewNode(kind) ==
  [kind |-> kind, file |-> <<>>, target |-> None, mode |-> Recipe.mode,
   mtime |-> <<clock, 0>>, atime |-> <<clock, 0>>, owner |-> <<0, 0>>, dev |-> <<1>>, rdev |-> <<0>>,
   xattrs |-> {}, access |-> <<>>, default |-> <<>>]

(* os.MkdirAll, or the OpenFile of writePlannedFileContent *)
Create ==
  /\ Making("create")
  /\ disk' = [disk EXCEPT ![making.side] =
                [inode |-> [n \in 1 .. Names |-> IF n = 1 THEN 1 ELSE 0],
                 node  |-> <<NewNode(Recipe.kind)>>]]
  /\ clock' = clock + 1
  /\ Then(IF Recipe.kind = "file" THEN "write" ELSE "chown")
  /\ call' = [number |-> 1, position |-> 0]
  /\ written' = 0
  /\ MakeUnchanged

Calls == WriteCalls(Recipe.content)
Current == Calls[call.number]

(* One turn of the loop of a write call *)
WriteChunk ==
  /\ Making("write")
  /\ call.number <= Len(Calls) /\ call.position < Current.length
  /\ SetNode([Node EXCEPT !.file = WriteAt(@, Recipe.content, Current, call.position),
                          !.mtime = <<clock, 0>>])
  /\ written' = written + ChunkLen(Current, call.position)
  /\ call' = [call EXCEPT !.position = @ + ChunkLen(Current, call.position)]
  /\ clock' = clock + 1
  /\ UNCHANGED making /\ MakeUnchanged

NextCall ==
  /\ Making("write")
  /\ call.number <= Len(Calls) /\ call.position >= Current.length
  /\ call' = [number |-> call.number + 1, position |-> 0]
  /\ UNCHANGED <<disk, clock, written, making>> /\ MakeUnchanged

(* Truncate and Close *)
Truncate ==
  /\ Making("write")
  /\ call.number > Len(Calls)
  /\ SetNode([Node EXCEPT !.file = Truncated(@, Recipe.content.size), !.mtime = <<clock, 0>>])
  /\ clock' = clock + 1
  /\ Then("chown")
  /\ UNCHANGED <<call, written>> /\ MakeUnchanged

(* applyMetadata, call by call; what the metadata does not have is left. *)
Has(what) == what \in Recipe.has
ValidOwner == Recipe.owner[1] >= 0 /\ Recipe.owner[2] >= 0

Chown ==
  /\ Making("chown")
  /\ Has("owner") => ValidOwner
  /\ SetNode([Node EXCEPT !.owner = IF Has("owner") THEN Recipe.owner ELSE @])
  /\ Then("chmod")
  /\ UNCHANGED <<clock, call, written>> /\ MakeUnchanged

Chmod ==
  /\ Making("chmod")
  /\ SetNode([Node EXCEPT !.mode = Recipe.mode])
  /\ Then("utimes")
  /\ UNCHANGED <<clock, call, written>> /\ MakeUnchanged

(* Mutant: the modification time is left to the writes. *)
UtimesAccessOnly ==
  /\ Making("utimes")
  /\ SetNode([Node EXCEPT !.atime = IF Has("times") THEN Recipe.times ELSE @])
  /\ Then("xattrs")
  /\ UNCHANGED <<clock, call, written>> /\ MakeUnchanged

Utimes ==
  /\ Making("utimes")
  /\ SetNode([Node EXCEPT !.atime = IF Has("times") THEN Recipe.times ELSE @,
                          !.mtime = IF Has("times") THEN Recipe.times ELSE @])
  /\ Then("xattrs")
  /\ UNCHANGED <<clock, call, written>> /\ MakeUnchanged

(* applyXAttrs, one setxattr after the other *)
SetXAttr ==
  /\ Making("xattrs")
  /\ LET next == Cardinality(Node.xattrs) + 1
         some == Has("xattrs") /\ next <= Len(Recipe.xattrs)
     IN  /\ SetNode(IF some THEN [Node EXCEPT !.xattrs = @ \cup {Recipe.xattrs[next]}] ELSE Node)
         /\ Then(IF some THEN "xattrs" ELSE IF Has("acl") THEN "acl" ELSE "link")
  /\ UNCHANGED <<clock, call, written>> /\ MakeUnchanged

(* applyACL, up to and including clearACLXAttrs *)
ClearACL ==
  /\ Making("acl")
  /\ Resolves(Recipe.mode, Recipe.acl)
  /\ HasDefault(Recipe.acl) => Recipe.kind = "dir"
  /\ SetNode([Node EXCEPT !.access = <<>>, !.default = <<>>])
  /\ Then(IF Recipe.acl = <<>> THEN "link" ELSE "access")
  /\ UNCHANGED <<clock, call, written>> /\ MakeUnchanged

SetAccess ==
  /\ Making("access")
  /\ LET acl == Resolve(Recipe.mode, Recipe.acl, FALSE)
     IN  SetNode([Node EXCEPT !.access = Kept(Marshal(acl)), !.mode = ModeOf(acl)])
  /\ Then(IF HasDefault(Recipe.acl) THEN "default" ELSE "link")
  /\ UNCHANGED <<clock, call, written>> /\ MakeUnchanged

SetDefault ==
  /\ Making("default")
  /\ SetNode([Node EXCEPT !.default = Marshal(Resolve(Recipe.mode, Recipe.acl, TRUE))])
  /\ Then("link")
  /\ UNCHANGED <<clock, call, written>> /\ MakeUnchanged

(* The side is made, or the making of it stopped. *)
EndSide(outcome) ==
  /\ made' = [made EXCEPT ![making.side] = outcome]
  /\ making' = [side |-> IF making.side = "left" THEN "right" ELSE "none", step |-> "create"]
  /\ UNCHANGED <<diff, at, seen, groups, verdict, before, lost, job, clock, call, written>>

(* os.Link, where the plan has a hard link to the file *)
LinkAndEnd ==
  /\ Making("link")
  /\ disk' = IF Recipe.kind = "file" /\ Recipe.link
             THEN [disk EXCEPT ![making.side].inode[2] = 1] ELSE disk
  /\ EndSide("ok")

(* A call fails, or the ACL is not one for this entry. *)
MakeFails ==
  /\ making.side \in Sides
  /\ \/ job.failing
     \/ making.step = "chown" /\ Has("owner") /\ ~ ValidOwner
     \/ /\ making.step = "acl"
        /\ \/ ~ Resolves(Recipe.mode, Recipe.acl)
           \/ HasDefault(Recipe.acl) /\ Recipe.kind # "dir"
  /\ UNCHANGED disk
  /\ EndSide("failed")

MakeStep ==
  \/ Create \/ WriteChunk \/ NextCall \/ Truncate
  \/ Chown \/ Chmod \/ Utimes \/ SetXAttr \/ ClearACL \/ SetAccess \/ SetDefault \/ LinkAndEnd \/ MakeFails

Next ==
  \/ MakeStep
  \/ making.side = "none" /\ StartDiff(job.diff) /\ UNCHANGED makeVars
  \/ DiffStep /\ UNCHANGED makeVars

Spec == Init /\ [][Next]_vars

-----------------------------------------------------------------------------
(* Properties *)

(***************************************************************************)
(* The loops write what was planned: a file whose writes are done has the  *)
(* planned size, every byte comes from the extent that counts at its       *)
(* place, no more was written than the plan says, and there is a hole in   *)
(* it if and only if the plan expects one.                                 *)
(***************************************************************************)
WrittenAsPlanned ==
  Making("chown") /\ Recipe.kind = "file" =>
    LET c == Recipe.content
    IN  /\ Node.file = [i \in 1 .. c.size |-> PromisedByte(c, i - 1)]
        /\ written = c.written
        /\ c.sparse <=> \E i \in DOMAIN Node.file : Node.file[i] = Hole

(* The permissions the last entry for a key asks for. *)
Asked(raw, default) ==
  {raw[i] : i \in {n \in For(raw, default) :
                     \A j \in For(raw, default) : raw[j].key = raw[n].key => j <= n}}

AsAsked(acl, raw, default) ==
  /\ \A e \in Asked(raw, default) : e.key \in DOMAIN acl /\ acl[e.key] = e.perm
  /\ MaskKey \in DOMAIN acl /\ (\A e \in Asked(raw, default) : e.key # MaskKey) =>
       \A k \in DOMAIN acl : Named(k) \/ k = GroupObj => acl[k] \subseteq acl[MaskKey]

(***************************************************************************)
(* Every entry of the ACL text is in force as it reads back from disk, be  *)
(* it kept as an ACL or, where only the base entries are asked for, as the *)
(* mode; and a mask that nobody asked for takes nothing away from anybody. *)
(***************************************************************************)
AclInForce ==
  Making("link") /\ Has("acl") /\ Recipe.acl # <<>> =>
    /\ AsAsked(InForce(Node.mode, Node.access), Recipe.acl, FALSE)
    /\ HasDefault(Recipe.acl) => AsAsked(Parse(Node.default), Recipe.acl, TRUE)

(***************************************************************************)
(* An entry with planned times that is made twice compares equal, whatever *)
(* options the host can serve, although the two were written at different  *)
(* times: all that the writing leaves behind is overwritten at the end.    *)
(* That is if both base paths are what they are made in, not symlinks to   *)
(* it, and every inode was found out.                                      *)
(***************************************************************************)
MadeTwiceIsEqual ==
  /\ job.recipe # <<>> /\ job.recipe["left"] = job.recipe["right"]
  /\ "times" \in job.recipe["left"].has
  /\ made = [s \in Sides |-> "ok"]
  /\ diff.base["left"] = diff.base["right"] /\ lost["left"] = lost["right"]
  /\ ~ Blurred
  => verdict # "differs"

=============================================================================
