------------------------------ MODULE Mutation ------------------------------
(***************************************************************************)
(* The mutation engine (mutate.go): GenerateOperations scans a baseline    *)
(* and plans a stream of operations against a virtual copy of it;          *)
(* ApplyOperationsWithOptions executes a stream on disk, stops at the      *)
(* first operation that fails, by an injected fault, by a check or by an   *)
(* I/O error, and is called again with StartIndex at that operation.       *)
(*                                                                         *)
(* A stream is generated, or given by the caller.  The tree belongs to     *)
(* this process from the scan on, as ApplyOperations documents.            *)
(***************************************************************************)
EXTENDS FileTree, FaultInjector

CONSTANTS
  Jobs,         \* what is to be done: see IsJob
  MaxDataSize,  \* longest data of one operation
  Bytes,        \* the random byte in a generated name
  XAttrNames,   \* the attribute names that may be drawn
  Retries,      \* maxMutationPathCollisionRetries
  MaxCalls      \* bound on the calls of ApplyOperationsWithOptions

(***************************************************************************)
(* A job is a baseline on disk, the fault profiles its calls use, and      *)
(* either AllowedKinds and Count of a stream to generate, or a stream that *)
(* a caller gives (with no kinds).                                         *)
(***************************************************************************)
IsJob(j) ==
  /\ DOMAIN j = {"baseline", "kinds", "count", "stream", "profiles"}
  /\ DOMAIN j.baseline \subseteq Path /\ IsFiniteSet(DOMAIN j.baseline)
  /\ j.baseline \in [DOMAIN j.baseline -> DiskNode]
  /\ IsTree(j.baseline)
  /\ j.stream \in Seq(Operation)
  /\ j.kinds \subseteq OpKinds
  /\ j.kinds # {} => j.count \in Nat \ {0} /\ j.stream = <<>>

ASSUME MutationAssumption ==
  /\ \A j \in Jobs : IsJob(j)
  /\ MaxDataSize \in Nat \ {0}
  /\ Bytes \subseteq Nat
  /\ XAttrNames \subseteq AttrName
  /\ Retries \in Nat \ {0}
  /\ MaxCalls \in Nat

VARIABLES
  tree,      \* the tree on disk
  job,       \* the job being done
  pc,        \* what the caller is doing, or how its last call ended
  ops,       \* the operations planned so far, or given
  history,   \* the virtual tree before each planned operation and after the last
  nameSeq,   \* mutationState.nameSeq
  next,      \* the operation to execute next, or the one that failed
  calls,     \* calls of ApplyOperationsWithOptions so far
  profile,   \* OperationApplyOptions.FaultProfile
  injector,  \* the executionContext
  points,    \* history: the fault hooks passed in this call
  fault,     \* history: the rule that ended this call, 0 if none
  torn       \* history: the operations an I/O error has left part of behind

planVars  == <<job, ops, history, nameSeq>>
callVars  == <<calls, profile>>
hookVars  == <<injector, points, fault>>
vars == <<tree, pc, planVars, next, callVars, hookVars, torn>>

-----------------------------------------------------------------------------
(* Generating a stream *)

(* mutationState.nodes *)
Nodes == history[Len(history)]

OfKind(kind) == {p \in DOMAIN Nodes : Nodes[p].kind = kind}
sortedPaths  == DOMAIN Nodes \ {Root}

(* The n-th name, in a directory of the virtual tree. *)
Candidates(n) == {Append(d, <<n, b>>) : d \in OfKind("dir"), b \in Bytes}

(* A planned operation is applied to the virtual tree at once. *)
Emit(op) ==
  /\ ops' = Append(ops, op)
  /\ IF VirtualAccepts(Nodes, op)
     THEN /\ history' = Append(history, applyVirtualOperation(Nodes, op))
          /\ pc' = IF Len(ops) + 1 = job.count THEN "ready" ELSE "planning"
     ELSE /\ pc' = "contradiction"
          /\ UNCHANGED history
  /\ UNCHANGED <<tree, job, next, callVars, hookVars, torn>>

Planning(kind) == pc = "planning" /\ kind \in job.kinds

(* A result of planUniquePath: a path, and nameSeq after it was drawn. *)
Drawn(path, seq) == [path |-> path, seq |-> seq]

(* Mutant: a name is not looked up before it is used. *)
UniquePathUnchecked(seq) == {Drawn(c, seq + 1) : c \in Candidates(seq)}

Taken(n) == Candidates(n) \cap DOMAIN Nodes # {}

(***************************************************************************)
(* What planUniquePath may return when nameSeq is seq: a path that is not  *)
(* there, after at most Retries - 1 draws of one that is.                  *)
(***************************************************************************)
planUniquePath(seq) ==
  UNION {{Drawn(c, seq + k + 1) : c \in Candidates(seq + k) \ DOMAIN Nodes} :
           k \in {n \in 0 .. (Retries - 1) :
                    \A j \in 0 .. (n - 1) : Taken(seq + j)}}

(* Every draw of planUniquePath may collide. *)
MayExhaust(seq) == \A k \in 0 .. (Retries - 1) : Taken(seq + k)

(***************************************************************************)
(* nameSeq after the first n attempts at a destination for `source` all    *)
(* led into the directory that is to be renamed; seq[m] is its value after *)
(* m of them.                                                              *)
(***************************************************************************)
Inward(source, n) ==
  LET Into(d) == Nodes[source].kind = "dir" /\ isChildMutationPath(d.path, source)
  IN  {seq[n] : seq \in
         {s \in [0 .. n -> nameSeq .. (nameSeq + n * Retries)] :
            /\ s[0] = nameSeq
            /\ \A m \in 1 .. n :
                 \E d \in planUniquePath(s[m - 1]) : Into(d) /\ d.seq = s[m]}}

(* What the loop over rename destinations may end with. *)
Destinations(source) ==
  {d \in UNION {planUniquePath(q) : q \in UNION {Inward(source, n) :
                                               n \in 0 .. (Retries - 1)}} :
     Nodes[source].kind = "dir" => ~ isChildMutationPath(d.path, source)}

(* randomDataLength *)
DataLengths(max) == 1 .. MaxOf(1, max)

(* A new path is drawn and the operation for it emitted. *)
EmitNew(d, op) == nameSeq' = d.seq /\ Emit(op)

PlanCreateFile ==
  /\ Planning("create-file")
  /\ \E d \in planUniquePath(nameSeq), n \in DataLengths(MaxDataSize) :
       EmitNew(d, Op("create-file", d.path, Root, n, 0, ""))

PlanCreateDir ==
  /\ Planning("create-dir")
  /\ \E d \in planUniquePath(nameSeq) :
       EmitNew(d, Op("create-dir", d.path, Root, 0, 0, ""))

PlanCreateSymlink ==
  /\ Planning("create-symlink")
  /\ sortedPaths # {}
  /\ \E d \in planUniquePath(nameSeq) :
       EmitNew(d, Op("create-symlink", d.path, Root, 0, 0, ""))

PlanCreateHardlink ==
  /\ Planning("create-hardlink")
  /\ \E source \in OfKind("file"), d \in planUniquePath(nameSeq) :
       EmitNew(d, Op("create-hardlink", d.path, source, 0, 0, ""))

PlanRename ==
  /\ Planning("rename")
  /\ \E source \in sortedPaths : \E d \in Destinations(source) :
       EmitNew(d, Op("rename", source, d.path, 0, 0, ""))

PlanOnPath ==
  /\ pc = "planning"
  /\ \E kind \in {"delete", "chmod", "chown"}, p \in sortedPaths :
       /\ Planning(kind)
       /\ Emit(Op(kind, p, Root, 0, 0, ""))
  /\ UNCHANGED nameSeq

PlanTruncate ==
  /\ Planning("truncate")
  /\ \E p \in OfKind("file") : \E n \in 0 .. MaxOf(MaxDataSize, Nodes[p].size) :
       Emit(Op("truncate", p, Root, n, 0, ""))
  /\ UNCHANGED nameSeq

PlanAppend ==
  /\ Planning("append")
  /\ \E p \in OfKind("file"), n \in DataLengths(MaxDataSize) :
       Emit(Op("append", p, Root, n, 0, ""))
  /\ UNCHANGED nameSeq

(* Mutant: the offset may lie behind the end of the file. *)
OffsetsOffByOne(size) == 0 .. (size + 1)

Offsets(size) == 0 .. (size - 1)

PlanOverwriteRange ==
  /\ Planning("overwrite-range")
  /\ \E p \in OfKind("file") : \E off \in Offsets(Nodes[p].size) :
       LET remaining == Nodes[p].size - off
           maxLen == IF MaxDataSize > remaining THEN remaining ELSE MaxDataSize
       IN  \E n \in DataLengths(maxLen) :
             Emit(Op("overwrite-range", p, Root, n, off, ""))
  /\ UNCHANGED nameSeq

PlanSetXAttr ==
  /\ Planning("set-xattr")
  /\ \E p \in DOMAIN Nodes, name \in XAttrNames :
       Emit(Op("set-xattr", p, Root, 0, 0, name))
  /\ UNCHANGED nameSeq

PlanRemoveXAttr ==
  /\ Planning("remove-xattr")
  /\ \E p \in DOMAIN Nodes : \E name \in Nodes[p].xattrs :
       Emit(Op("remove-xattr", p, Root, 0, 0, name))
  /\ UNCHANGED nameSeq

(* planOperation may return errOperationPreconditions for this kind. *)
MayDecline(kind) ==
  CASE kind \in {"create-file", "create-dir"} -> FALSE
    [] kind = "set-xattr" -> FALSE
    [] kind \in {"create-hardlink", "truncate", "append"} -> OfKind("file") = {}
    [] kind = "overwrite-range" ->
         OfKind("file") = {} \/ \E p \in OfKind("file") : Nodes[p].size = 0
    [] kind = "remove-xattr" -> \A p \in DOMAIN Nodes : Nodes[p].xattrs = {}
    [] OTHER -> sortedPaths = {}

(* No allowed kind finds its preconditions met: GenerateOperations fails. *)
PlanFails ==
  /\ pc = "planning"
  /\ \A kind \in job.kinds : MayDecline(kind)
  /\ pc' = "unplannable"
  /\ UNCHANGED <<tree, planVars, next, callVars, hookVars, torn>>

(* ErrMutationPathCollisionExhausted, for a new path or for the            *)
(* destination of a rename.                                                *)
PathsExhausted ==
  /\ pc = "planning"
  /\ \/ /\ \E kind \in job.kinds \cap Creations : ~ MayDecline(kind)
        /\ MayExhaust(nameSeq)
     \/ /\ "rename" \in job.kinds
        /\ \E source \in sortedPaths :
             \/ Inward(source, Retries) # {}
             \/ \E n \in 0 .. (Retries - 1) :
                  \E q \in Inward(source, n) : MayExhaust(q)
  /\ pc' = "exhausted"
  /\ UNCHANGED <<tree, planVars, next, callVars, hookVars, torn>>

Generate ==
  \/ PlanCreateFile \/ PlanCreateDir \/ PlanCreateSymlink \/ PlanCreateHardlink
  \/ PlanRename \/ PlanOnPath \/ PlanTruncate \/ PlanAppend
  \/ PlanOverwriteRange \/ PlanSetXAttr \/ PlanRemoveXAttr
  \/ PlanFails \/ PathsExhausted

-----------------------------------------------------------------------------
(* Applying a stream *)

Stopped == {"ready", "ok", "injected", "refused", "failed", "badindex"}

(* OperationApplyOptions.validate *)
ValidStart(start) == start \in 1 .. (Len(ops) + 1)

(***************************************************************************)
(* A call with StartIndex = start - 1.  At the end of the stream it        *)
(* returns nil before anything is looked at.                               *)
(***************************************************************************)
StartApply(start, rules) ==
  /\ pc \in Stopped
  /\ calls < MaxCalls
  /\ calls' = calls + 1
  /\ profile' = rules
  /\ injector' = newFaultInjector(rules)
  /\ points' = <<>>
  /\ fault' = 0
  /\ IF ~ ValidStart(start) \/ ~ validate(rules)
     THEN pc' = "badindex" /\ UNCHANGED next
     ELSE IF start = Len(ops) + 1
     THEN pc' = "ok" /\ next' = start
     ELSE pc' = "applying" /\ next' = start
  /\ UNCHANGED <<tree, planVars, torn>>

Point == [scope |-> "mutation", kind |-> ops[next].kind, path |-> ops[next].path]

AtOp == pc = "applying" /\ next <= Len(ops)

OpInvalid ==
  /\ AtOp
  /\ ~ normalizeOperation(ops[next])
  /\ pc' = "refused"
  /\ UNCHANGED <<tree, planVars, next, callVars, hookVars, torn>>

OpFault ==
  /\ AtOp
  /\ normalizeOperation(ops[next])
  /\ FiredRule(profile, injector, Point) # 0
  /\ injector' = before(profile, injector, Point)
  /\ points' = Append(points, Point)
  /\ fault' = FiredRule(profile, injector, Point)
  /\ pc' = "injected"
  /\ UNCHANGED <<tree, planVars, next, callVars, torn>>

(* The operation is valid and no fault is injected before it. *)
OpPasses ==
  /\ AtOp
  /\ normalizeOperation(ops[next])
  /\ FiredRule(profile, injector, Point) = 0
  /\ injector' = before(profile, injector, Point)
  /\ points' = Append(points, Point)
  /\ UNCHANGED fault

OpRefused ==
  /\ OpPasses
  /\ ~ Accepts(tree, ops[next]) \/ MayDangle(tree, ops[next])
  /\ pc' = "refused"
  /\ UNCHANGED <<tree, planVars, next, callVars, torn>>

OpApplied ==
  /\ OpPasses
  /\ Accepts(tree, ops[next])
  /\ tree' = applyOperation(tree, ops[next])
  /\ next' = next + 1
  /\ UNCHANGED <<pc, planVars, callVars, torn>>

(* What an I/O error leaves behind of the next operation. *)
Breaks ==
  /\ OpPasses
  /\ Accepts(tree, ops[next])
  /\ tree' \in Torn(tree, ops[next])
  /\ torn' = IF tree' # tree THEN torn \cup {next} ELSE torn

(* Mutant: the error names the operation behind the one that failed. *)
OpFailsBehind ==
  /\ Breaks
  /\ pc' = "failed"
  /\ next' = next + 1
  /\ UNCHANGED <<planVars, calls, profile>>

(* A system call fails after the checks have passed. *)
OpFails ==
  /\ Breaks
  /\ pc' = "failed"
  /\ UNCHANGED <<planVars, next, callVars>>

StreamDone ==
  /\ pc = "applying"
  /\ next > Len(ops)
  /\ pc' = "ok"
  /\ UNCHANGED <<tree, planVars, next, callVars, hookVars, torn>>

ApplyStep ==
  OpInvalid \/ OpFault \/ OpRefused \/ OpApplied \/ OpFails \/ StreamDone

-----------------------------------------------------------------------------

Init ==
  /\ job \in Jobs
  /\ tree = job.baseline
  /\ ops = job.stream
  /\ IF job.kinds # {}
     THEN pc = "planning" /\ history = <<scanMutationState(tree)>>
     ELSE pc = "ready" /\ history = <<>>
  /\ nameSeq = 1
  /\ next = 1
  /\ calls = 0
  /\ profile = <<>>
  /\ injector = newFaultInjector(<<>>)
  /\ points = <<>>
  /\ fault = 0
  /\ torn = {}

(* The caller resumes where the last call stopped, or gets the index wrong. *)
Next ==
  \/ Generate
  \/ \E start \in {next, Len(ops) + 2}, rules \in job.profiles :
       StartApply(start, rules)
  \/ ApplyStep

(* Both calls are sequential code: once begun they go on until they return. *)
Spec == Init /\ [][Next]_vars /\ WF_vars(Generate) /\ WF_vars(ApplyStep)

-----------------------------------------------------------------------------
(* Properties *)

Generated == history # <<>>

(***************************************************************************)
(* What planOperation picks satisfies the checks applyVirtualOperation     *)
(* makes of it, and those of normalizeOperation: generation never fails    *)
(* with "failed to apply planned operation".                               *)
(***************************************************************************)
NeverContradicts ==
  /\ pc # "contradiction"
  /\ Generated => \A k \in DOMAIN ops : normalizeOperation(ops[k])

(* No file has several names and no symlink is about, now or later. *)
LinkFree ==
  /\ job.kinds \cap {"create-symlink", "create-hardlink"} = {}
  /\ \A p, q \in DOMAIN job.baseline :
       /\ job.baseline[p].kind # "symlink"
       /\ job.baseline[p].id = job.baseline[q].id => p = q

(* An append that was repeated had left part of its data already. *)
Grown == \E k \in torn : ops[k].kind = "append"

(* The node v of the virtual tree has the size and the attributes of the   *)
(* node n on disk, which may be longer if something has grown.  Attributes *)
(* the root had before are not known to the scan.                          *)
Predicts(v, n, p, grown) ==
  /\ v.size <= n.size
  /\ ~ grown => v.size = n.size
  /\ v.xattrs \subseteq n.xattrs
  /\ n.xattrs \subseteq v.xattrs \cup (IF p = Root THEN job.baseline[Root].xattrs ELSE {})

(***************************************************************************)
(* The virtual tree predicts the disk after any prefix of the stream, over *)
(* any number of injected faults, I/O errors and resumed calls             *)
(* (applyVirtualOperation against applyOperation), but for an operation    *)
(* that was left half done and not yet repeated.  Without links each node  *)
(* on disk is the one the generator had in mind at that point: to repeat   *)
(* an overwrite or a delete heals what an I/O error left of it, to repeat  *)
(* an append writes some of the data twice, and nothing ever gets lost.    *)
(* With links sizes and attributes may go astray, names and kinds do not.  *)
(***************************************************************************)
StreamTracksTree ==
  (Generated /\ next \notin torn) =>
    LET virtual == history[next]
    IN  /\ DOMAIN virtual = DOMAIN scanMutationState(tree)
        /\ \A p \in DOMAIN virtual :
             /\ virtual[p].kind = tree[p].kind
             /\ LinkFree => Predicts(virtual[p], tree[p], p, Grown)

(***************************************************************************)
(* A caller who resumes at the operation that an I/O error left half done  *)
(* (StartIndex) has it accepted again, whatever the stream and the error   *)
(* left, unless it makes a file: a half-made file bars its own making, and *)
(* is never passed over as if it were whole.                               *)
(***************************************************************************)
HalfDoneRepeats ==
  /\ (pc = "refused" /\ next \in torn) => ops[next].kind = "create-file"
  /\ \A k \in torn : k < next => ops[k].kind # "create-file"

(***************************************************************************)
(* A generated stream applies to its baseline: no check of applyOperation  *)
(* and none of the kernel's refuses an operation (the test                 *)
(* TestGenerateAndApplyOperationsIntegrationWithDiff requires no error).   *)
(***************************************************************************)
GeneratedApplies == (Generated /\ torn = {}) => pc # "refused"

(* A special file, which scanMutationState leaves out, has the name p. *)
Unseen(p) == p \in DOMAIN tree \ DOMAIN scanMutationState(tree)

(***************************************************************************)
(* The operations of a generated stream that the disk may refuse, if they  *)
(* were not left half done: a name was drawn that a special file has, or   *)
(* it goes back to a link, with chmod or set-xattr on a symlink, or a file *)
(* that some operation reached by another of its names.  Without either    *)
(* none is refused, whatever I/O errors came before.                       *)
(***************************************************************************)
RefusedForLinks ==
  (Generated /\ next \notin torn /\ pc = "refused") =>
    LET op == ops[next]
        Named(id) == {p \in DOMAIN tree : tree[p].id = id}
    IN  \/ op.kind \in Creations /\ Unseen(op.path)
        \/ op.kind = "rename" /\ Unseen(op.to)
        \/ /\ ~ LinkFree
           /\ \/ op.kind \in {"chmod", "set-xattr"} /\ tree[op.path].kind = "symlink"
              \/ /\ op.kind \in {"overwrite-range", "remove-xattr"}
                 /\ \/ Named(tree[op.path].id) # {op.path}
                    \/ \E k \in 1 .. (next - 1) :
                         ops[k].kind \in {"delete", "create-hardlink"}

(***************************************************************************)
(* Whatever operations a caller gives, the disk stays a tree: the root is  *)
(* there, everything else lies in a directory, and only regular files have *)
(* several names (the checks of applyOperation).                           *)
(***************************************************************************)
TreeWellFormed == IsTree(tree)

=============================================================================
