------------------------------ MODULE FileTree ------------------------------
(***************************************************************************)
(* What one mutation operation does (mutate.go, operations.go): to the     *)
(* generator's virtual tree (mutationState) and to the tree on disk        *)
(* (applyOperation).  Both are functions from the paths that exist to      *)
(* nodes; a path is the sequence of its components, the root the empty     *)
(* sequence.                                                               *)
(*                                                                         *)
(* Data is abstracted to its length; modes, owners, attribute values and   *)
(* what a symlink points to are left out.  A node on disk has an inode id, *)
(* which the names of a hard-linked file share; a virtual node has none.   *)
(***************************************************************************)
EXTENDS Integers, SequencesExt

(* A name is told apart by two numbers; the first is mutationState.nameSeq *)
(* for a generated name and zero for one of the baseline.                  *)
Path == Seq(Nat \X Nat)
Root == <<>>

(* The name of an extended attribute; "" where an operation names none. *)
AttrName == STRING \cup {""}

NodeKinds == {"dir", "file", "symlink", "fifo", "socket", "char", "block"}
DiskNode  == [kind : NodeKinds, id : Nat, size : Int, xattrs : SUBSET AttrName]

Creations == {"create-file", "create-dir", "create-symlink", "create-hardlink"}
Contents  == {"truncate", "append", "overwrite-range"}
OnAnyPath == {"chmod", "chown", "set-xattr", "remove-xattr"}
OpKinds   == Creations \cup Contents \cup OnAnyPath \cup {"delete", "rename"}

(* Operation: `to` is Destination or SourcePath, n is Size or len(Data). *)
Op(kind, path, to, n, off, name) ==
  [kind |-> kind, path |-> path, to |-> to, n |-> n, off |-> off, name |-> name]

Operation == [kind : OpKinds, path : Path, to : Path, n : Int, off : Int, name : AttrName]

(* normalizeOperation accepts the operation; modes, owners and the syntax  *)
(* of paths are left out.                                                  *)
normalizeOperation(op) ==
  /\ op.kind \notin OnAnyPath => op.path # Root
  /\ op.kind \in {"rename", "create-hardlink"} => op.to \notin {Root, op.path}
  /\ op.kind = "truncate" => op.n >= 0
  /\ op.kind \in {"append", "overwrite-range"} => op.n > 0
  /\ op.kind = "overwrite-range" => op.off >= 0

-----------------------------------------------------------------------------
(* Paths and trees *)

isChildMutationPath(path, parent) == IsStrictPrefix(parent, path)

Subtree(t, p) == {q \in DOMAIN t : q = p \/ isChildMutationPath(q, p)}

IsKind(t, p, kind) == p \in DOMAIN t /\ t[p].kind = kind

(***************************************************************************)
(* What a file system keeps: the root is there, everything above a path is *)
(* a directory, and only regular files have several names.                 *)
(***************************************************************************)
IsTree(t) ==
  /\ IsKind(t, Root, "dir")
  /\ \A p \in DOMAIN t : \A k \in 0 .. (Len(p) - 1) : IsKind(t, SubSeq(p, 1, k), "dir")
  /\ \A p, q \in DOMAIN t :
       (t[p].id = t[q].id /\ p # q) => t[p] = t[q] /\ t[p].kind = "file"

Put(t, p, node) == [q \in DOMAIN t \cup {p} |-> IF q = p THEN node ELSE t[q]]

Without(t, S) == Restrict(t, DOMAIN t \ S)

(* Every path of the subtree at `from` gets `to` in place of its prefix. *)
Move(t, from, to) ==
  LET Tailing(q, p) == SubSeq(q, Len(p) + 1, Len(q))
      arriving == {to \o Tailing(q, from) : q \in Subtree(t, from)}
  IN  [q \in (DOMAIN t \ Subtree(t, from)) \cup arriving |->
         IF q \in arriving THEN t[from \o Tailing(q, to)] ELSE t[q]]

MaxOf(a, b) == IF a > b THEN a ELSE b

(* What a content or attribute operation makes of the node it is for. *)
Changed(node, op) ==
  CASE op.kind = "truncate"        -> [node EXCEPT !.size = op.n]
    [] op.kind = "append"          -> [node EXCEPT !.size = @ + op.n]
    [] op.kind = "overwrite-range" -> [node EXCEPT !.size = MaxOf(@, op.off + op.n)]
    [] op.kind = "set-xattr"       -> [node EXCEPT !.xattrs = @ \cup {op.name}]
    [] op.kind = "remove-xattr"    -> [node EXCEPT !.xattrs = @ \ {op.name}]
    [] OTHER                       -> node

(* The kind of node a creation makes. *)
MadeKind(op) ==
  CASE op.kind = "create-dir"     -> "dir"
    [] op.kind = "create-symlink" -> "symlink"
    [] OTHER                      -> "file"

-----------------------------------------------------------------------------
(* The virtual tree *)

hasParentDirectory(t, p) == IsKind(t, Front(p), "dir")

(* The checks of applyVirtualOperation. *)
VirtualAccepts(t, op) ==
  /\ IF op.kind \in Creations
     THEN op.path \notin DOMAIN t /\ hasParentDirectory(t, op.path)
     ELSE op.path \in DOMAIN t
  /\ op.kind = "create-hardlink" => IsKind(t, op.to, "file")
  /\ op.kind = "rename" =>
       /\ op.to \notin DOMAIN t
       /\ hasParentDirectory(t, op.to)
       /\ t[op.path].kind = "dir" => ~ isChildMutationPath(op.to, op.path)
  /\ op.kind \in Contents => t[op.path].kind = "file"
  /\ op.kind = "remove-xattr" => op.name \in t[op.path].xattrs

(* Mutant: deleting a directory leaves what it held. *)
VirtualKeepsChildren(t, op) ==
  CASE op.kind = "create-hardlink" -> Put(t, op.path, t[op.to])
    [] op.kind \in Creations \ {"create-hardlink"} ->
         Put(t, op.path, [kind |-> MadeKind(op), size |-> op.n, xattrs |-> {}])
    [] op.kind = "delete" -> Without(t, {op.path})
    [] op.kind = "rename" -> Move(t, op.path, op.to)
    [] OTHER -> Put(t, op.path, Changed(t[op.path], op))

(* applyVirtualOperation: a hard link starts as a copy of its source. *)
applyVirtualOperation(t, op) ==
  CASE op.kind = "create-hardlink" -> Put(t, op.path, t[op.to])
    [] op.kind \in Creations \ {"create-hardlink"} ->
         Put(t, op.path, [kind |-> MadeKind(op), size |-> op.n, xattrs |-> {}])
    [] op.kind = "delete" -> Without(t, Subtree(t, op.path))
    [] op.kind = "rename" -> Move(t, op.path, op.to)
    [] OTHER -> Put(t, op.path, Changed(t[op.path], op))

(* scanMutationState: special files are skipped, the attributes of the     *)
(* root are not read, a size is kept for regular files only.               *)
scanMutationState(t) ==
  [p \in {q \in DOMAIN t : t[q].kind \in {"file", "dir", "symlink"}} |->
     [kind |-> t[p].kind, size |-> t[p].size,
      xattrs |-> IF p = Root THEN {} ELSE t[p].xattrs]]

-----------------------------------------------------------------------------
(* The tree on disk *)

(* ensureNoSymlinkParents and ensureParentDirectory: everything above p is *)
(* a directory.                                                            *)
ensureNoSymlinkParents(t, p) ==
  \A k \in 0 .. (Len(p) - 1) : IsKind(t, SubSeq(p, 1, k), "dir")

(* Mutant: a directory may be renamed into itself, a file made anywhere. *)
AcceptsAnyParent(t, op) ==
  IF op.kind \in Creations THEN op.path \notin DOMAIN t ELSE op.path \in DOMAIN t

(***************************************************************************)
(* The checks of applyOperation before its first change, with those the    *)
(* kernel makes: attributes in the user namespace are for regular files    *)
(* and directories, and one that is removed has to exist.                  *)
(***************************************************************************)
Accepts(t, op) ==
  /\ ensureNoSymlinkParents(t, op.path)
  /\ IF op.kind \in Creations THEN op.path \notin DOMAIN t ELSE op.path \in DOMAIN t
  /\ op.kind = "create-hardlink" =>
       ensureNoSymlinkParents(t, op.to) /\ IsKind(t, op.to, "file")
  /\ op.kind = "rename" =>
       /\ ensureNoSymlinkParents(t, op.to)
       /\ t[op.path].kind = "dir" => ~ isChildMutationPath(op.to, op.path)
       /\ op.to \notin DOMAIN t
  /\ op.kind \in Contents => t[op.path].kind = "file"
  /\ op.kind = "overwrite-range" => op.off <= t[op.path].size
  /\ op.kind = "set-xattr" => t[op.path].kind \in {"file", "dir"}
  /\ op.kind = "remove-xattr" => op.name \in t[op.path].xattrs

(* os.Chmod follows a symlink: it fails if the link leads nowhere. *)
MayDangle(t, op) == op.kind = "chmod" /\ IsKind(t, op.path, "symlink")

(* An inode id that is not in use. *)
FreshId(t) ==
  CHOOSE n \in 1 .. (Cardinality(DOMAIN t) + 1) : \A q \in DOMAIN t : t[q].id # n

NewNode(t, op, size) ==
  [kind |-> MadeKind(op), id |-> FreshId(t), size |-> size, xattrs |-> {}]

(* A change of an inode shows under each of its names. *)
PutInode(t, p, node) ==
  [q \in DOMAIN t |-> IF t[q].id = t[p].id THEN node ELSE t[q]]

(* applyOperation *)
applyOperation(t, op) ==
  CASE op.kind = "create-hardlink" -> Put(t, op.path, t[op.to])
    [] op.kind \in Creations \ {"create-hardlink"} -> Put(t, op.path, NewNode(t, op, op.n))
    [] op.kind = "delete" -> Without(t, Subtree(t, op.path))
    [] op.kind = "rename" -> Move(t, op.path, op.to)
    [] OTHER -> PutInode(t, op.path, Changed(t[op.path], op))

(***************************************************************************)
(* What a call that fails half way may leave: a file with part of its      *)
(* data, part of an append or of an overwrite, or a directory of which     *)
(* os.RemoveAll has removed a part, leaves first.                          *)
(***************************************************************************)
Torn(t, op) ==
  CASE op.kind = "create-file" ->
         {t} \cup {Put(t, op.path, NewNode(t, op, m)) : m \in 0 .. op.n}
    [] op.kind \in {"append", "overwrite-range"} ->
         {t} \cup {PutInode(t, op.path, Changed(t[op.path], [op EXCEPT !.n = m])) :
                     m \in 1 .. op.n}
    [] op.kind = "delete" ->
         {Without(t, gone) : gone \in
            {S \in SUBSET (Subtree(t, op.path) \ {op.path}) :
               \A p \in S : Subtree(t, p) \subseteq S}}
    [] OTHER -> {t}

=============================================================================
