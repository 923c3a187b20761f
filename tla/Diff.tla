-------------------------------- MODULE Diff --------------------------------
(***************************************************************************)
(* Comparing two trees (diff/diff.go, collect.go, collect_linux.go,        *)
(* collect_other.go, node.go, options.go).  Each side is walked and its    *)
(* nodes are collected one by one; only then are the two lists compared.   *)
(* Collecting reads files, and reading is not without effect: on a mount   *)
(* that keeps access times it moves the access time of the inode.          *)
(*                                                                         *)
(* Abstractions.  The names of a tree are the numbers 1 .. Names in walk   *)
(* order; a node is an inode with its bytes and attributes, shared by all  *)
(* names that have its number.  A hash tells contents apart.  Options are  *)
(* the set of what is compared.  Hooks given by the caller are left out.   *)
(* A base path is a directory, missing, or a symlink to a directory or a   *)
(* file: filepath.Walk shows those two once, as the base, and ends.        *)
(***************************************************************************)
EXTENDS Acl, Content

CONSTANTS
  Names,      \* number of names a tree may have
  DiskBlock   \* the unit in which the file system allocates

ASSUME DiffAssumption == Names \in Nat \ {0} /\ DiskBlock \in Nat \ {0}

VARIABLES
  disk,       \* the two trees: names to inodes, and the inodes
  diff,       \* the call: options, mount, platform, what the base paths are
  at,         \* how far it is: side and name, or "idle", "compare", "over"
  seen,       \* the nodes collected of each side, by name
  groups,     \* hardlinkPathsByKey of each side: inode to names
  verdict,    \* "none", "equal", "differs" or "error"
  clock,      \* the time of day
  before,     \* history: the trees when the call began
  lost        \* history: the files of each side whose inode was not found out

diffVars == <<disk, diff, at, seen, groups, verdict, clock, before, lost>>

Sides == {"left", "right"}
NamesOf(t) == {n \in 1 .. Names : t.inode[n] # 0}
NodeOf(t, n) == t.node[t.inode[n]]
Compares(what) == what \in diff.opts

(* A node has all the attributes, and its ACLs are in canonical order. *)
IsNode(x) ==
  /\ x = [kind |-> x.kind, file |-> x.file, target |-> x.target, mode |-> x.mode,
          mtime |-> <<x.mtime[1], x.mtime[2]>>, atime |-> <<x.atime[1], x.atime[2]>>,
          owner |-> x.owner, dev |-> x.dev, rdev |-> x.rdev, xattrs |-> x.xattrs,
          access |-> x.access, default |-> x.default]
  /\ IsCanonical(x.access) /\ IsCanonical(x.default)

(* A tree gives its names inodes that are there. *)
IsTree(t) ==
  /\ t = [inode |-> t.inode, node |-> [k \in DOMAIN t.node |-> t.node[k]]]
  /\ t.inode \in [1 .. Names -> 0 .. Names]
  /\ \A n \in NamesOf(t) : t.inode[n] \in DOMAIN t.node
  /\ \A k \in DOMAIN t.node : IsNode(t.node[k])

NoTree == [inode |-> [n \in 1 .. Names |-> 0], node |-> <<>>]

(* What filepath.Walk finds below a base path: it follows no symlink. *)
Below(trees, side) == IF diff.base[side] = "dir" THEN trees[side] ELSE NoTree

-----------------------------------------------------------------------------
(* Collecting *)

(* Blocks that hold a byte that was written. *)
Allocated(file) ==
  Cardinality({(i - 1) \div DiskBlock : i \in {j \in DOMAIN file : file[j] # Hole}})

(* stat.Blocks*512 < stat.Size *)
SparseParity(file) == Allocated(file) * DiskBlock < Len(file)

None == <<>>

(* Llistxattr lists the ACLs with the rest. *)
XAttrsOf(x) == <<x.xattrs, x.access, x.default>>

(***************************************************************************)
(* The Node collectPaths makes.  What the options do not ask for, and what *)
(* the platform does not have, is none.                                    *)
(***************************************************************************)
Collected(x) ==
  LET linux == diff.platform = "linux"
      file  == x.kind = "file"
  IN  [kind   |-> x.kind,
       mode   |-> x.mode,
       mtime  |-> x.mtime,
       target |-> IF x.kind = "symlink" THEN x.target ELSE None,
       size   |-> IF file THEN Len(x.file) ELSE 0,
       hash   |-> IF file /\ Compares("hash") THEN x.file ELSE None,
       sparse |-> file /\ linux /\ SparseParity(x.file),
       owner  |-> IF linux THEN x.owner ELSE None,
       atime  |-> IF linux THEN x.atime ELSE None,
       dev    |-> IF linux THEN x.dev ELSE None,
       rdev   |-> IF linux THEN x.rdev ELSE None,
       xattrs |-> IF Compares("xattrs") THEN XAttrsOf(x) ELSE None,
       acl    |-> IF Compares("acls") THEN Format(x.access, x.default) ELSE {}]

(* The kernel has no ACLs for symlinks, and other platforms offer less. *)
Uncollectable(x) ==
  \/ Compares("acls") /\ x.kind = "symlink"
  \/ diff.platform # "linux" /\ {"sparse", "xattrs", "acls"} \cap diff.opts # {}

(* The lists are walked in order; the right tree comes second. *)
Following(side, n) ==
  IF n < Names THEN [side |-> side, name |-> n + 1]
  ELSE IF side = "left" THEN [side |-> "right", name |-> 1]
  ELSE [side |-> "compare", name |-> 0]

Walking == at.side \in Sides
Here == Below(disk, at.side)

Touched(t, n) ==
  IF diff.mount = "atime" THEN [t EXCEPT !.node[t.inode[n]].atime = <<clock, 0>>] ELSE t

(* filepath.Walk lists a directory before it shows it to the callback. *)
Listed(t, n) == IF NodeOf(t, n).kind = "dir" THEN Touched(t, n) ELSE t

(* Readlink, and hashFile *)
IsRead(x) == x.kind = "symlink" \/ (x.kind = "file" /\ Compares("hash"))
ReadNode(t, n) == IF IsRead(NodeOf(t, n)) THEN Touched(t, n) ELSE t

SkipName ==
  /\ Walking /\ at.name \notin NamesOf(Here)
  /\ diff.base[at.side] # "missing"
  /\ at' = Following(at.side, at.name)
  /\ UNCHANGED <<disk, diff, seen, groups, verdict, clock, before, lost>>

(* Mutant: the file is read before it is looked at. *)
ReadThenLstat(t, n) == Collected(NodeOf(ReadNode(t, n), n))

(* Lstat comes before the file is read. *)
LstatThenRead(t, n) == Collected(NodeOf(t, n))

LooksUp == Compares("links") /\ NodeOf(Here, at.name).kind = "file"

(***************************************************************************)
(* A lookup of the inode (fileIdentityFromPath) that fails is no error:    *)
(* the file is left out of its group.                                      *)
(***************************************************************************)
CollectNode ==
  /\ Walking /\ at.name \in NamesOf(Here)
  /\ ~ Uncollectable(NodeOf(Here, at.name))
  /\ seen' = [seen EXCEPT ![at.side] = Append(@, <<at.name, LstatThenRead(Listed(Here, at.name), at.name)>>)]
  /\ \E identityOK \in {TRUE, ~ diff.failing} :
       /\ groups' = IF LooksUp /\ identityOK
                    THEN [groups EXCEPT ![at.side][Here.inode[at.name]] = @ \cup {at.name}]
                    ELSE groups
       /\ lost' = IF LooksUp /\ ~ identityOK
                  THEN [lost EXCEPT ![at.side] = @ \cup {at.name}] ELSE lost
  /\ disk' = [disk EXCEPT ![at.side] = ReadNode(Listed(Here, at.name), at.name)]
  /\ clock' = clock + 1
  /\ at' = Following(at.side, at.name)
  /\ UNCHANGED <<diff, verdict, before>>

Ends(v) == verdict' = v /\ at' = [side |-> "over", name |-> 0]

(* There is no base, or a node cannot be collected: what it is, or an I/O error. *)
CollectFails ==
  /\ Walking
  /\ \/ diff.base[at.side] = "missing"
     \/ /\ at.name \in NamesOf(Here)
        /\ Uncollectable(NodeOf(Here, at.name)) \/ diff.failing
  /\ Ends("error")
  /\ UNCHANGED <<disk, diff, seen, groups, clock, before, lost>>

-----------------------------------------------------------------------------
(* Comparing *)

(* ensureOwnershipMetadata and the like *)
Unavailable ==
  /\ diff.platform # "linux"
  /\ {"owner", "atime", "dev"} \cap diff.opts # {}
  /\ seen["left"] # <<>> \/ seen["right"] # <<>>

Precise(time) == IF time = None \/ Compares("nsec") THEN time ELSE <<time[1], 0>>

(* projectNodes *)
ProjectNode(v) ==
  [v EXCEPT !.mtime  = Precise(@),
            !.atime  = IF Compares("atime") THEN Precise(@) ELSE None,
            !.owner  = IF Compares("owner") THEN @ ELSE None,
            !.rdev   = IF v.kind \in {"char", "block"} THEN @ ELSE None,
            !.sparse = Compares("sparse") /\ @,
            !.dev    = IF Compares("dev") THEN @ ELSE None]

Projected(side) ==
  [i \in DOMAIN seen[side] |-> <<seen[side][i][1], ProjectNode(seen[side][i][2])>>]

(* buildHardlinkGroups: two names or more, sorted, so a set of sets. *)
HardlinkGroups(side) ==
  {groups[side][k] : k \in {j \in 1 .. Names : Cardinality(groups[side][j]) >= 2}}

(* PathsWithOptions, with both sides collected *)
Compare ==
  /\ at.side = "compare"
  /\ Ends(IF Unavailable THEN "error"
          ELSE IF \/ Projected("left") # Projected("right")
                  \/ HardlinkGroups("left") # HardlinkGroups("right")
          THEN "differs" ELSE "equal")
  /\ UNCHANGED <<disk, diff, seen, groups, clock, before, lost>>

(* Options with an unknown precision are refused. *)
StartDiff(call) ==
  /\ at.side = "idle"
  /\ diff' = call
  /\ before' = disk
  /\ IF "invalid" \in call.opts THEN Ends("error")
     ELSE at' = [side |-> "left", name |-> 1] /\ UNCHANGED verdict
  /\ UNCHANGED <<disk, seen, groups, clock, lost>>

DiffStep == SkipName \/ CollectNode \/ CollectFails \/ Compare

-----------------------------------------------------------------------------
(* Properties *)

(* The same as far as the options go, said of the trees. *)
SameNode(x, y) ==
  /\ x.kind = y.kind /\ x.mode = y.mode
  /\ x.kind = "symlink" => x.target = y.target
  /\ x.kind = "file" => Len(x.file) = Len(y.file)
  /\ x.kind = "file" /\ Compares("hash") => x.file = y.file
  /\ x.kind = "file" /\ Compares("sparse") => (SparseParity(x.file) <=> SparseParity(y.file))
  /\ x.kind \in {"char", "block"} /\ diff.platform = "linux" => x.rdev = y.rdev
  /\ IF Compares("nsec") THEN x.mtime = y.mtime ELSE x.mtime[1] = y.mtime[1]
  /\ Compares("atime") =>
       IF Compares("nsec") THEN x.atime = y.atime ELSE x.atime[1] = y.atime[1]
  /\ Compares("owner") => x.owner = y.owner
  /\ Compares("dev") => x.dev = y.dev
  /\ Compares("xattrs") => XAttrsOf(x) = XAttrsOf(y)
  /\ Compares("acls") => x.access = y.access /\ x.default = y.default

IsFile(t, n) == n \in NamesOf(t) /\ NodeOf(t, n).kind = "file"

(* Two names of one file, as far as that was found out *)
Linked(t, unknown, n, m) ==
  /\ {n, m} \cap unknown = {}
  /\ IsFile(t, n) /\ IsFile(t, m) /\ t.inode[n] = t.inode[m]

SameTree(l, unknownL, r, unknownR) ==
  /\ NamesOf(l) = NamesOf(r)
  /\ \A n \in NamesOf(l) : SameNode(NodeOf(l, n), NodeOf(r, n))
  /\ Compares("links") =>
       \A n, m \in 1 .. Names :
         n # m => (Linked(l, unknownL, n, m) <=> Linked(r, unknownR, n, m))

(* What lay below a base path when the call began *)
Was(side) == Below(before, side)

(***************************************************************************)
(* A directory is listed before it is looked at, and what has two names is *)
(* read before the second is looked at: their access times are the call's  *)
(* ("atime is updated by the diff's own file reads", README.md:231).       *)
(***************************************************************************)
Blurred ==
  /\ Compares("atime") /\ diff.mount = "atime"
  /\ \E s \in Sides : \E n, m \in NamesOf(Was(s)) :
       \/ NodeOf(Was(s), n).kind = "dir"
       \/ n # m /\ Was(s).inode[n] = Was(s).inode[m] /\ IsRead(NodeOf(Was(s), n))

(***************************************************************************)
(* The verdict is about the trees as they were when the call began: equal  *)
(* if and only if what lies below the two base paths is the same in all    *)
(* that was to be compared, names, attributes and the partition into hard  *)
(* links, although the call itself moves access times while it goes.  A    *)
(* base that is a symlink or a file has nothing below it, and a file whose *)
(* inode was not found out counts as linked to nothing, no more and no     *)
(* less.  Exempt are only the access times of directories and of what is   *)
(* read between two looks at it.                                           *)
(***************************************************************************)
VerdictExact ==
  verdict \in {"equal", "differs"} /\ ~ Blurred =>
    (verdict = "equal") = SameTree(Was("left"), lost["left"], Was("right"), lost["right"])

=============================================================================
