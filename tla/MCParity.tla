------------------------------ MODULE MCParity ------------------------------
(***************************************************************************)
(* Jobs for TLC: every content that can be planned around the boundaries   *)
(* of a chunk, ACL texts, and pairs of trees that differ in their links or *)
(* in one attribute, under different options, mounts and platforms; then   *)
(* lookups that fail, and base paths that are no directories.              *)
(***************************************************************************)
EXTENDS Parity

Both(x) == [s \in Sides |-> x]

JobAt(recipe, trees, base, opts, mount, platform, failing) ==
  [recipe |-> recipe, disk |-> trees, failing |-> failing,
   diff |-> [opts |-> opts, mount |-> mount, platform |-> platform, base |-> base, failing |-> failing]]

Job(recipe, trees, opts, mount, platform, failing) ==
  JobAt(recipe, trees, Both("dir"), opts, mount, platform, failing)

LeftRight(x, y) == [s \in Sides |-> IF s = "left" THEN x ELSE y]

Rwx == {"r", "w", "x"}
Mode750 == [u |-> Rwx, g |-> {"r", "x"}, o |-> {}]

All == {"owner", "times", "xattrs", "acl"}
Make(kind, content, acl, link) ==
  [kind |-> kind, content |-> content, mode |-> Mode750, owner |-> <<4, 4>>,
   times |-> <<7, 5>>, xattrs |-> <<"a", "b">>, acl |-> acl, has |-> All, link |-> link]

Strict == {"hash", "nsec", "owner", "atime", "links"}

(* Contents: nothing, below, at and above a chunk, and three chunks. *)
Contents ==
  UNION {PlannedContent(size, data) : size \in {0, 1, 3, 4, 5, 9}, data \in {0, 3, 4, 6}}
  \cup UNION {CoverageContent(size) : size \in {0, 1, 4, 5}}
ContentJobs ==
  {Job(Both(Make("file", c, <<>>, FALSE)), Both(NoTree), Strict \cup {"sparse"},
       "atime", "linux", c.size \in {1, 5} /\ c.pattern # "partial") : c \in Contents}

(* ACL texts, and what is made of them on files and directories. *)
E(default, tag, id, perm, ok) ==
  [default |-> default, key |-> Key(tag, id), perm |-> perm, wellFormed |-> ok]
Texts ==
  {E(FALSE, "user_obj", Undefined, {"r"}, TRUE), E(FALSE, "user", 7, {"w"}, TRUE),
   E(FALSE, "user", 7, {"r", "x"}, TRUE), E(FALSE, "group", 5, {"r"}, TRUE),
   E(FALSE, "mask", Undefined, {"r"}, TRUE), E(FALSE, "user", Undefined, {"r"}, TRUE),
   E(FALSE, "other", Undefined, {}, FALSE),
   E(TRUE, "user", 7, Rwx, TRUE), E(TRUE, "group_obj", Undefined, {"w"}, TRUE)}
Lists == {<<>>} \cup {<<a>> : a \in Texts} \cup {<<a, b>> : a, b \in Texts}
         \cup {<<a, b, c>> : a, b \in {x \in Texts : x.key[1] \in {"user", "mask"}}, c \in Texts}
Some == Planned("repeated", 3, <<>>, 2, 3, FALSE)
AclJobs ==
  {Job(Both(Make(kind, Some, list, TRUE)), Both(NoTree), Strict \cup {"acls", "xattrs"},
       "noatime", "linux", FALSE) : kind \in {"file", "dir"}, list \in Lists}

(* Metadata that is not there, and an owner that cannot be. *)
MetadataJobs ==
  {Job(Both([Make(kind, Some, <<E(FALSE, "user", 7, {"w"}, TRUE)>>, TRUE)
               EXCEPT !.has = has, !.owner = owner]),
       Both(NoTree), Strict \cup {"xattrs"}, mount, "linux", failing) :
     kind \in {"file", "dir"}, has \in SUBSET All, owner \in {<<4, 4>>, <<4, -1>>},
     mount \in {"atime", "noatime"}, failing \in BOOLEAN}

(* Trees that are there. *)
File(c) ==
  [kind |-> "file", file |-> c, target |-> None, mode |-> Mode750, mtime |-> <<7, 5>>,
   atime |-> <<7, 5>>, owner |-> <<0, 0>>, dev |-> <<1>>, rdev |-> <<0>>, xattrs |-> {},
   access |-> <<>>, default |-> <<>>]
Plain == File(<<<<0, 0>>, <<0, 1>>, Hole>>)
TreeOf(inode, x) == [inode |-> inode, node |-> <<x, Plain, Plain>>]

LinkJobs ==
  {Job(<<>>, LeftRight(TreeOf(f, Plain), TreeOf(h, Plain)), opts, "noatime", "linux", FALSE) :
     f, h \in [1 .. 3 -> 0 .. 3], opts \in {{"links"}}}

Variants ==
  {Plain, File(<<<<0, 0>>, <<0, 1>>>>), File(<<<<0, 0>>, Hole, Hole, Hole>>),
   File(<<<<0, 0>>, <<0, 1>>, <<0, 2>>>>)}
  \cup {[Plain EXCEPT !.mode.o = {"r"}], [Plain EXCEPT !.mtime = <<7, 6>>],
        [Plain EXCEPT !.atime = <<7, 6>>], [Plain EXCEPT !.mtime = <<8, 5>>],
        [Plain EXCEPT !.owner = <<0, 4>>], [Plain EXCEPT !.dev = <<2>>], [Plain EXCEPT !.xattrs = {"u"}],
        [Plain EXCEPT !.kind = "fifo"],
        [Plain EXCEPT !.access = Marshal(Resolve(Mode750,
            <<E(FALSE, "user", 7, {"r"}, TRUE)>>, FALSE))]}
  \cup {[Plain EXCEPT !.kind = "dir", !.atime = t] : t \in {<<7, 5>>, <<8, 0>>}}
  \cup {[Plain EXCEPT !.kind = "symlink", !.target = t] : t \in {<<"a">>, <<"b">>}}
  \cup {[Plain EXCEPT !.kind = "char", !.rdev = n] : n \in {<<1>>, <<2>>}}

OptionSets ==
  {{}, {"hash", "links"}, Strict, Strict \cup {"sparse", "dev", "xattrs", "acls"},
   {"sparse"}, {"xattrs"}, {"acls"}, {"atime"}, {"dev"}, {"hash", "atime"}, {"invalid"}}

VariantJobs ==
  {Job(<<>>, LeftRight(TreeOf(f, x), TreeOf(f, y)), opts, mount, platform, FALSE) :
     f \in {<<1, 2, 0>>, <<1, 1, 0>>}, x \in {Plain, CHOOSE v \in Variants : v.kind = "symlink"},
     y \in Variants, opts \in OptionSets, mount \in {"atime", "noatime"},
     platform \in {"linux", "other"}}

(* Links, and lookups that may fail *)
IdentityJobs ==
  {Job(<<>>, LeftRight(TreeOf(f, Plain), TreeOf(h, Plain)), {"links"}, "noatime", platform, TRUE) :
     f, h \in {<<1, 2, 0>>, <<1, 1, 0>>, <<1, 1, 1>>, <<1, 2, 2>>}, platform \in {"linux", "other"}}

(* Trees at base paths of every kind, and a recipe made through symlinks *)
At(base, tree) == IF base \in {"dir", "symlink"} THEN tree ELSE NoTree
BaseJobs ==
  {JobAt(<<>>, LeftRight(At(b, TreeOf(f, Plain)), At(d, TreeOf(<<1, 1, 0>>, x))), LeftRight(b, d), opts,
         "atime", "linux", FALSE) :
     f \in {<<1, 1, 0>>, <<1, 2, 0>>, <<0, 0, 0>>}, x \in {Plain, [Plain EXCEPT !.kind = "fifo"]},
     b, d \in {"dir", "symlink", "file", "missing"}, opts \in {{"links"}, {"atime"}, Strict}}
  \cup {JobAt(Both(Make("file", Some, <<>>, TRUE)), Both(NoTree), LeftRight(b, d), {"hash", "links"},
              "noatime", "linux", FALSE) : b, d \in {"dir", "symlink"}}

MCJobs ==
  ContentJobs \cup AclJobs \cup MetadataJobs \cup LinkJobs \cup VariantJobs \cup IdentityJobs \cup BaseJobs

=============================================================================
