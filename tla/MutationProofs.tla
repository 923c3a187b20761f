--------------------------- MODULE MutationProofs ---------------------------
(***************************************************************************)
(* What the module Mutation promises, for all jobs, names, sizes, retries  *)
(* and numbers of calls.                                                   *)
(*                                                                         *)
(* The first half is about trees.  The invariant is that the disk is a     *)
(* tree of typed nodes on finitely many paths (finitely many, so that a    *)
(* new file finds an inode of its own) and that all that was planned is    *)
(* typed.  A rename is the hard case: no two paths of the subtree it moves *)
(* get the same name, and what was above a path is above its new name.     *)
(*                                                                         *)
(* The second half keeps two trees in step: the one the generator had in   *)
(* mind and the disk.  Names and kinds agree always.  Sizes and attributes *)
(* agree where a file has one name (SoleExact), which is lost once a name  *)
(* of a file with several comes or goes: what was changed under another    *)
(* name then shows under this one.                                         *)
(***************************************************************************)
EXTENDS Mutation, SequenceTheorems, FiniteSetTheorems, TLAPS

-----------------------------------------------------------------------------
(* Paths *)

(* Two paths with the same components are the same. *)
LEMMA SamePath ==
  ASSUME NEW p \in Path, NEW q \in Path, Len(p) = Len(q), \A k \in 1 .. Len(p) : p[k] = q[k]
  PROVE  p = q
BY SeqEqual DEF Path

(* A path has so many components. *)
LEMMA PathLength == ASSUME NEW p \in Path PROVE Len(p) \in Nat
BY DEF Path

(* The first k components of a path. *)
LEMMA PrefixFacts ==
  ASSUME NEW p \in Path, NEW k \in 0 .. Len(p)
  PROVE  /\ SubSeq(p, 1, k) \in Path
         /\ Len(SubSeq(p, 1, k)) = k
         /\ \A j \in 1 .. k : SubSeq(p, 1, k)[j] = p[j]
BY DEF Path

(* p is r or lies below it. *)
Below(p, r) == p = r \/ IsStrictPrefix(r, p)

(* p begins with the components of r. *)
Starts(p, r) == Len(r) <= Len(p) /\ \A k \in 1 .. Len(r) : r[k] = p[k]

(* Lying below a path is beginning with its components. *)
LEMMA BelowStarts ==
  ASSUME NEW p \in Path, NEW r \in Path
  PROVE  Below(p, r) <=> Starts(p, r)
<1>1. /\ SubSeq(r, 1, Len(r)) \in Path /\ Len(SubSeq(r, 1, Len(r))) = Len(r)
      /\ \A k \in 1 .. Len(r) : SubSeq(r, 1, Len(r))[k] = r[k]
  BY PrefixFacts, PathLength
<1>2. ASSUME Len(r) <= Len(p)
      PROVE  /\ SubSeq(p, 1, Len(r)) \in Path /\ Len(SubSeq(p, 1, Len(r))) = Len(r)
             /\ \A k \in 1 .. Len(r) : SubSeq(p, 1, Len(r))[k] = p[k]
  BY <1>2, PrefixFacts, PathLength
<1>3. ASSUME Starts(p, r) PROVE SubSeq(r, 1, Len(r)) = SubSeq(p, 1, Len(r))
  BY <1>1, <1>2, <1>3, SamePath DEF Starts
<1>4. Len(r) \in Nat /\ Len(p) \in Nat
  BY PathLength
<1>5. ASSUME Below(p, r) PROVE Starts(p, r)
  BY <1>1, <1>2, <1>4, <1>5 DEF Below, Starts, IsStrictPrefix, IsPrefix
<1>6. ASSUME Starts(p, r), p # r PROVE IsStrictPrefix(r, p)
  BY <1>3, <1>6 DEF Starts, IsStrictPrefix, IsPrefix
<1> QED BY <1>5, <1>6 DEF Below

(* What a path begins with is one of its prefixes. *)
LEMMA StartsPrefix ==
  ASSUME NEW p \in Path, NEW r \in Path, Starts(p, r)
  PROVE  /\ Len(r) \in 0 .. Len(p)
         /\ SubSeq(p, 1, Len(r)) = r
         /\ r # p => Len(r) \in 0 .. (Len(p) - 1)
<1>1. Len(r) \in Nat /\ Len(p) \in Nat /\ Len(r) <= Len(p)
  BY PathLength DEF Starts
<1>2. Len(r) \in 0 .. Len(p)
  BY <1>1
<1>3. /\ SubSeq(p, 1, Len(r)) \in Path
      /\ Len(SubSeq(p, 1, Len(r))) = Len(r)
      /\ \A j \in 1 .. Len(r) : SubSeq(p, 1, Len(r))[j] = p[j]
  BY <1>2, PrefixFacts
<1>4. \A j \in 1 .. Len(r) : SubSeq(p, 1, Len(r))[j] = r[j]
  BY <1>3 DEF Starts
<1>5. SubSeq(p, 1, Len(r)) = r
  BY <1>3, <1>4, SamePath
<1>6. Len(r) = Len(p) => r = p
  BY SamePath DEF Starts
<1> QED BY <1>1, <1>2, <1>5, <1>6

(* The path r with `to` in place of the prefix `from`. *)
Moved(r, from, to) == to \o SubSeq(r, Len(from) + 1, Len(r))

(* The components of a moved path. *)
LEMMA MovedFacts ==
  ASSUME NEW r \in Path, NEW from \in Path, NEW to \in Path, Len(from) <= Len(r)
  PROVE  /\ Moved(r, from, to) \in Path
         /\ Len(Moved(r, from, to)) = Len(to) + (Len(r) - Len(from))
         /\ \A k \in 1 .. Len(to) : Moved(r, from, to)[k] = to[k]
         /\ \A k \in (Len(to) + 1) .. (Len(to) + (Len(r) - Len(from))) :
              Moved(r, from, to)[k] = r[k - Len(to) + Len(from)]
<1> DEFINE tail == SubSeq(r, Len(from) + 1, Len(r))
<1>1. Len(from) \in Nat /\ Len(to) \in Nat /\ Len(r) \in Nat
  BY PathLength
<1>2. /\ tail \in Path
      /\ Len(tail) = Len(r) - Len(from)
      /\ \A k \in 1 .. (Len(r) - Len(from)) : tail[k] = r[k + Len(from)]
  BY <1>1, SubSeqProperties DEF Path
<1> HIDE DEF tail
<1>3. /\ to \o tail \in Path
      /\ Len(to \o tail) = Len(to) + Len(tail)
      /\ \A k \in 1 .. (Len(to) + Len(tail)) :
           (to \o tail)[k] = IF k <= Len(to) THEN to[k] ELSE tail[k - Len(to)]
  <2>1. to \in Seq(Nat \X Nat) /\ tail \in Seq(Nat \X Nat)
    BY <1>2 DEF Path
  <2> QED BY <2>1, ConcatProperties DEF Path
<1>4. Moved(r, from, to) = to \o tail
  BY DEF Moved, tail
<1>5. ASSUME NEW k \in (Len(to) + 1) .. (Len(to) + (Len(r) - Len(from)))
      PROVE  (to \o tail)[k] = r[k - Len(to) + Len(from)]
  <2>1. (to \o tail)[k] = tail[k - Len(to)]
    BY <1>1, <1>2, <1>3
  <2>2. tail[k - Len(to)] = r[(k - Len(to)) + Len(from)]
    BY <1>1, <1>2
  <2> QED BY <2>1, <2>2
<1>6. ASSUME NEW k \in 1 .. Len(to) PROVE (to \o tail)[k] = to[k]
  BY <1>1, <1>2, <1>3
<1> QED BY <1>1, <1>2, <1>3, <1>4, <1>5, <1>6

(* Moving back. *)
LEMMA MovedBack ==
  ASSUME NEW r \in Path, NEW from \in Path, NEW to \in Path, Starts(r, from)
  PROVE  /\ Starts(Moved(r, from, to), to)
         /\ Moved(Moved(r, from, to), to, from) = r
<1> DEFINE m == Moved(r, from, to)
<1>1. Len(from) \in Nat /\ Len(to) \in Nat /\ Len(r) \in Nat /\ Len(from) <= Len(r)
  BY PathLength DEF Starts
<1>2. /\ m \in Path
      /\ Len(m) = Len(to) + (Len(r) - Len(from))
      /\ \A k \in 1 .. Len(to) : m[k] = to[k]
      /\ \A k \in (Len(to) + 1) .. (Len(to) + (Len(r) - Len(from))) :
           m[k] = r[k - Len(to) + Len(from)]
  BY <1>1, MovedFacts
<1> HIDE DEF m
<1>3. Len(to) <= Len(m)
  BY <1>1, <1>2
<1>4. /\ Moved(m, to, from) \in Path
      /\ Len(Moved(m, to, from)) = Len(from) + (Len(m) - Len(to))
      /\ \A k \in 1 .. Len(from) : Moved(m, to, from)[k] = from[k]
      /\ \A k \in (Len(from) + 1) .. (Len(from) + (Len(m) - Len(to))) :
           Moved(m, to, from)[k] = m[k - Len(from) + Len(to)]
  BY <1>2, <1>3, MovedFacts
<1>5. Len(Moved(m, to, from)) = Len(r)
  BY <1>1, <1>2, <1>4
<1>6. ASSUME NEW k \in 1 .. Len(r) PROVE Moved(m, to, from)[k] = r[k]
  <2>1. CASE k <= Len(from)
    BY <1>1, <1>4, <2>1 DEF Starts
  <2>2. CASE k > Len(from)
    <3>1. Moved(m, to, from)[k] = m[k - Len(from) + Len(to)]
      BY <1>1, <1>2, <1>4, <2>2
    <3>2. m[k - Len(from) + Len(to)] = r[(k - Len(from) + Len(to)) - Len(to) + Len(from)]
      BY <1>1, <1>2, <2>2
    <3>3. (k - Len(from) + Len(to)) - Len(to) + Len(from) = k
      BY <1>1
    <3> QED BY <3>1, <3>2, <3>3
  <2> QED BY <1>1, <2>1, <2>2
<1>7. Moved(m, to, from) = r
  BY <1>4, <1>5, <1>6, SamePath
<1> QED BY <1>2, <1>3, <1>7 DEF Starts, m

(* A prefix of a moved path that is no shorter than `to` is a moved prefix. *)
LEMMA MovedPrefix ==
  ASSUME NEW r \in Path, NEW from \in Path, NEW to \in Path, Starts(r, from),
         NEW k \in Len(to) .. Len(Moved(r, from, to))
  PROVE  LET j == k - Len(to) + Len(from)
         IN  /\ j \in Len(from) .. Len(r)
             /\ SubSeq(Moved(r, from, to), 1, k) = Moved(SubSeq(r, 1, j), from, to)
<1> DEFINE m == Moved(r, from, to)
           j == k - Len(to) + Len(from)
<1>1. Len(from) \in Nat /\ Len(to) \in Nat /\ Len(r) \in Nat /\ Len(from) <= Len(r)
  BY PathLength DEF Starts
<1>2. /\ m \in Path
      /\ Len(m) = Len(to) + (Len(r) - Len(from))
      /\ \A i \in 1 .. Len(to) : m[i] = to[i]
      /\ \A i \in (Len(to) + 1) .. (Len(to) + (Len(r) - Len(from))) :
           m[i] = r[i - Len(to) + Len(from)]
  BY <1>1, MovedFacts
<1>3. k \in 0 .. Len(m) /\ k \in Int /\ k >= Len(to) /\ k <= Len(m)
  BY <1>1, <1>2
<1>4. j \in Len(from) .. Len(r) /\ j \in 0 .. Len(r)
  BY <1>1, <1>2, <1>3
<1> HIDE DEF m
<1>5. /\ SubSeq(m, 1, k) \in Path /\ Len(SubSeq(m, 1, k)) = k
      /\ \A i \in 1 .. k : SubSeq(m, 1, k)[i] = m[i]
  BY <1>2, <1>3, PrefixFacts
<1>6. /\ SubSeq(r, 1, j) \in Path /\ Len(SubSeq(r, 1, j)) = j
      /\ \A i \in 1 .. j : SubSeq(r, 1, j)[i] = r[i]
  BY <1>4, PrefixFacts
<1> DEFINE s == SubSeq(r, 1, j)
<1>7. s \in Path /\ Len(s) = j /\ \A i \in 1 .. j : s[i] = r[i]
  BY <1>6
<1> HIDE DEF s
<1>8. /\ Moved(s, from, to) \in Path
      /\ Len(Moved(s, from, to)) = Len(to) + (Len(s) - Len(from))
      /\ \A i \in 1 .. Len(to) : Moved(s, from, to)[i] = to[i]
      /\ \A i \in (Len(to) + 1) .. (Len(to) + (Len(s) - Len(from))) :
           Moved(s, from, to)[i] = s[i - Len(to) + Len(from)]
  <2>1. Len(from) <= Len(s)
    BY <1>1, <1>4, <1>7
  <2> QED BY <1>7, <2>1, MovedFacts
<1>9. Len(Moved(s, from, to)) = k
  BY <1>1, <1>3, <1>7, <1>8
<1>10. ASSUME NEW i \in 1 .. k PROVE SubSeq(m, 1, k)[i] = Moved(s, from, to)[i]
  <2>1. SubSeq(m, 1, k)[i] = m[i]
    BY <1>5
  <2>2. CASE i <= Len(to)
    BY <1>1, <1>2, <1>8, <2>1, <2>2
  <2>3. CASE i > Len(to)
    <3>1. m[i] = r[i - Len(to) + Len(from)]
      BY <1>1, <1>2, <1>3, <2>3
    <3>2. Moved(s, from, to)[i] = s[i - Len(to) + Len(from)]
      BY <1>1, <1>3, <1>7, <1>8, <2>3
    <3>3. i - Len(to) + Len(from) \in 1 .. j
      BY <1>1, <1>3, <2>3
    <3>4. s[i - Len(to) + Len(from)] = r[i - Len(to) + Len(from)]
      BY <1>7, <3>3
    <3> QED BY <2>1, <3>1, <3>2, <3>4
  <2> QED BY <1>1, <1>3, <2>2, <2>3
<1>11. SubSeq(m, 1, k) = Moved(s, from, to)
  BY <1>5, <1>8, <1>9, <1>10, SamePath
<1> QED BY <1>4, <1>11 DEF m, s

-----------------------------------------------------------------------------
(* The shape of a tree *)

(* The root is there and everything above a path is a directory. *)
Shaped(t) ==
  /\ IsKind(t, Root, "dir")
  /\ \A p \in DOMAIN t : ensureNoSymlinkParents(t, p)

(* The root is the path without components. *)
LEMMA RootPath == Root \in Path /\ Len(Root) = 0
BY DEF Root, Path

(* No other path is without components. *)
LEMMA OnlyRootEmpty == ASSUME NEW p \in Path PROVE p = Root <=> Len(p) = 0
BY RootPath, SamePath, PathLength

(* The subtree of p holds the paths that begin with p. *)
LEMMA SubtreeStarts ==
  ASSUME NEW t, DOMAIN t \subseteq Path, NEW p \in Path
  PROVE  Subtree(t, p) = {q \in DOMAIN t : Starts(q, p)}
<1>1. \A q \in DOMAIN t : (q = p \/ isChildMutationPath(q, p)) <=> Starts(q, p)
  BY BelowStarts DEF Below, isChildMutationPath
<1> QED BY <1>1 DEF Subtree

(* What begins with a path that is there lies below it, and so on upwards. *)
LEMMA StartsMember ==
  ASSUME NEW t, DOMAIN t \subseteq Path, Shaped(t),
         NEW q \in DOMAIN t, NEW p \in Path, Starts(q, p)
  PROVE  p \in DOMAIN t /\ (p # q => t[p].kind = "dir")
<1>1. SubSeq(q, 1, Len(p)) = p /\ (p # q => Len(p) \in 0 .. (Len(q) - 1))
  BY StartsPrefix
<1>2. CASE p # q
  <2>1. IsKind(t, SubSeq(q, 1, Len(p)), "dir")
    BY <1>1, <1>2 DEF Shaped, ensureNoSymlinkParents
  <2> QED BY <1>1, <2>1 DEF IsKind
<1> QED BY <1>2

(* A new path in a directory. *)
LEMMA PutShaped ==
  ASSUME NEW t, Shaped(t), NEW p \in Path, p \notin DOMAIN t,
         ensureNoSymlinkParents(t, p), NEW node
  PROVE  /\ DOMAIN Put(t, p, node) = DOMAIN t \cup {p}
         /\ Put(t, p, node)[p] = node
         /\ \A q \in DOMAIN t : Put(t, p, node)[q] = t[q]
         /\ Shaped(Put(t, p, node))
<1>1. /\ DOMAIN Put(t, p, node) = DOMAIN t \cup {p}
      /\ Put(t, p, node)[p] = node
      /\ \A q \in DOMAIN t : Put(t, p, node)[q] = t[q]
  BY DEF Put
<1>2. ASSUME NEW q, IsKind(t, q, "dir") PROVE IsKind(Put(t, p, node), q, "dir")
  BY <1>1, <1>2 DEF IsKind
<1> QED BY <1>1, <1>2 DEF Shaped, ensureNoSymlinkParents

(* What is removed goes with all that lies below it. *)
LEMMA WithoutShaped ==
  ASSUME NEW t, DOMAIN t \subseteq Path, Shaped(t), NEW S, Root \notin S,
         \A r \in S : r \in Path /\ \A q \in DOMAIN t : Starts(q, r) => q \in S
  PROVE  /\ DOMAIN Without(t, S) = DOMAIN t \ S
         /\ \A q \in DOMAIN t \ S : Without(t, S)[q] = t[q]
         /\ Shaped(Without(t, S))
<1>1. /\ DOMAIN Without(t, S) = DOMAIN t \ S
      /\ \A q \in DOMAIN t \ S : Without(t, S)[q] = t[q]
  BY DEF Without, Restrict
<1>2. IsKind(Without(t, S), Root, "dir")
  BY <1>1 DEF Shaped, IsKind
<1>3. ASSUME NEW q \in DOMAIN t \ S, NEW k \in 0 .. (Len(q) - 1)
      PROVE  IsKind(Without(t, S), SubSeq(q, 1, k), "dir")
  <2>1. Len(q) \in Nat /\ k \in 0 .. Len(q)
    BY PathLength
  <2>2. Starts(q, SubSeq(q, 1, k))
    BY <2>1, PrefixFacts DEF Starts
  <2>3. IsKind(t, SubSeq(q, 1, k), "dir")
    BY DEF Shaped, ensureNoSymlinkParents
  <2>4. SubSeq(q, 1, k) \notin S
    BY <2>2
  <2> QED BY <1>1, <2>3, <2>4 DEF IsKind
<1> QED BY <1>1, <1>2, <1>3 DEF Shaped, ensureNoSymlinkParents

(***************************************************************************)
(* A rename that is accepted: nothing of the tree begins with `to`, and    *)
(* nothing above `to` begins with `from`.                                  *)
(***************************************************************************)
LEMMA RenameApart ==
  ASSUME NEW t, DOMAIN t \subseteq Path, Shaped(t),
         NEW from \in DOMAIN t, NEW to \in Path, to \notin DOMAIN t,
         ensureNoSymlinkParents(t, to),
         t[from].kind = "dir" => ~ isChildMutationPath(to, from)
  PROVE  /\ \A q \in DOMAIN t : ~ Starts(q, to)
         /\ \A k \in 0 .. (Len(to) - 1) : ~ Starts(SubSeq(to, 1, k), from)
         /\ ~ Starts(to, from)
<1>1. \A q \in DOMAIN t : ~ Starts(q, to)
  BY StartsMember
<1>2. ~ Starts(to, from)
  <2> SUFFICES ASSUME Starts(to, from) PROVE FALSE
    OBVIOUS
  <2>1. Len(from) \in Nat /\ Len(to) \in Nat /\ Len(from) <= Len(to)
    BY PathLength DEF Starts
  <2>2. from # to /\ isChildMutationPath(to, from)
    BY BelowStarts DEF Below, isChildMutationPath
  <2>3. SubSeq(to, 1, Len(from)) = from /\ Len(from) \in 0 .. (Len(to) - 1)
    BY <2>2, StartsPrefix
  <2>4. IsKind(t, SubSeq(to, 1, Len(from)), "dir")
    BY <2>3 DEF ensureNoSymlinkParents
  <2> QED BY <2>2, <2>3, <2>4 DEF IsKind
<1>3. ASSUME NEW k \in 0 .. (Len(to) - 1), Starts(SubSeq(to, 1, k), from) PROVE FALSE
  <2>1. Len(from) \in Nat /\ Len(to) \in Nat /\ k \in 0 .. Len(to)
    BY PathLength
  <2>2. Starts(to, from)
    BY <1>3, <2>1, PrefixFacts DEF Starts
  <2> QED BY <1>2, <2>2
<1> QED BY <1>1, <1>2, <1>3

(* The paths that a rename brings into being. *)
Arriving(t, from, to) == {Moved(q, from, to) : q \in Subtree(t, from)}

(* A rename gives every path of the subtree a new name, and no two the same. *)
LEMMA MoveFacts ==
  ASSUME NEW t, DOMAIN t \subseteq Path, Shaped(t),
         NEW from \in DOMAIN t, NEW to \in Path, to \notin DOMAIN t,
         ensureNoSymlinkParents(t, to),
         t[from].kind = "dir" => ~ isChildMutationPath(to, from)
  PROVE  /\ DOMAIN Move(t, from, to)
              = (DOMAIN t \ Subtree(t, from)) \cup Arriving(t, from, to)
         /\ Arriving(t, from, to) \subseteq Path
         /\ \A q \in Arriving(t, from, to) : Starts(q, to) /\ q \notin DOMAIN t
         /\ \A q \in DOMAIN t \ Subtree(t, from) : Move(t, from, to)[q] = t[q]
         /\ \A r \in Subtree(t, from) :
              /\ Move(t, from, to)[Moved(r, from, to)] = t[r]
              /\ Moved(Moved(r, from, to), to, from) = r
<1>1. Subtree(t, from) = {q \in DOMAIN t : Starts(q, from)}
  BY SubtreeStarts
<1>2. \A r \in Subtree(t, from) :
        /\ r \in Path
        /\ Moved(r, from, to) \in Path
        /\ Starts(Moved(r, from, to), to)
        /\ Moved(Moved(r, from, to), to, from) = r
  <2> SUFFICES ASSUME NEW r \in Subtree(t, from)
               PROVE  /\ r \in Path
                      /\ Moved(r, from, to) \in Path
                      /\ Starts(Moved(r, from, to), to)
                      /\ Moved(Moved(r, from, to), to, from) = r
    OBVIOUS
  <2>1. r \in Path /\ Starts(r, from) /\ from \in Path
    BY <1>1
  <2>2. Moved(r, from, to) \in Path
    BY <2>1, MovedFacts DEF Starts
  <2> QED BY <2>1, <2>2, MovedBack
<1>3. \A q \in DOMAIN t : ~ Starts(q, to)
  BY RenameApart
<1>4. /\ Arriving(t, from, to) \subseteq Path
      /\ \A q \in Arriving(t, from, to) : Starts(q, to) /\ q \notin DOMAIN t
  BY <1>2, <1>3 DEF Arriving
<1>5. Move(t, from, to) =
        [q \in (DOMAIN t \ Subtree(t, from)) \cup Arriving(t, from, to) |->
           IF q \in Arriving(t, from, to) THEN t[Moved(q, to, from)] ELSE t[q]]
  BY DEF Move, Arriving, Moved
<1>6. ASSUME NEW r \in Subtree(t, from)
      PROVE  Move(t, from, to)[Moved(r, from, to)] = t[r]
  <2>1. Moved(r, from, to) \in Arriving(t, from, to)
    BY DEF Arriving
  <2> QED BY <1>2, <1>5, <2>1
<1>7. ASSUME NEW q \in DOMAIN t \ Subtree(t, from) PROVE Move(t, from, to)[q] = t[q]
  BY <1>4, <1>5
<1>8. DOMAIN Move(t, from, to) = (DOMAIN t \ Subtree(t, from)) \cup Arriving(t, from, to)
  BY <1>5
<1> QED BY <1>2, <1>4, <1>6, <1>7, <1>8

(* A renamed tree is a tree. *)
LEMMA MoveShaped ==
  ASSUME NEW t, DOMAIN t \subseteq Path, Shaped(t),
         NEW from \in DOMAIN t, from # Root, NEW to \in Path, to \notin DOMAIN t,
         ensureNoSymlinkParents(t, to),
         t[from].kind = "dir" => ~ isChildMutationPath(to, from)
  PROVE  Shaped(Move(t, from, to))
<1> DEFINE m == Move(t, from, to)
           Sub == Subtree(t, from)
<1>1. /\ DOMAIN m = (DOMAIN t \ Sub) \cup Arriving(t, from, to)
      /\ \A q \in DOMAIN t \ Sub : m[q] = t[q]
      /\ \A r \in Sub : m[Moved(r, from, to)] = t[r]
  BY MoveFacts
<1>2. Sub = {q \in DOMAIN t : Starts(q, from)}
  BY SubtreeStarts
<1> HIDE DEF m
<1>3. ASSUME NEW q, IsKind(t, q, "dir"), ~ Starts(q, from) PROVE IsKind(m, q, "dir")
  BY <1>1, <1>2, <1>3 DEF IsKind
<1>4. ASSUME NEW r, IsKind(t, r, "dir"), Starts(r, from)
      PROVE  IsKind(m, Moved(r, from, to), "dir")
  <2>1. r \in Sub /\ Moved(r, from, to) \in Arriving(t, from, to)
    BY <1>2, <1>4 DEF IsKind, Arriving
  <2> QED BY <1>1, <1>4, <2>1 DEF IsKind
<1>5. IsKind(m, Root, "dir")
  <2>1. ~ Starts(Root, from)
    BY RootPath, OnlyRootEmpty, PathLength DEF Starts
  <2> QED BY <1>3, <2>1 DEF Shaped
<1>6. ASSUME NEW q \in DOMAIN t \ Sub, NEW k \in 0 .. (Len(q) - 1)
      PROVE  IsKind(m, SubSeq(q, 1, k), "dir")
  <2>1. Len(q) \in Nat /\ k \in 0 .. Len(q) /\ Len(from) \in Nat
    BY PathLength
  <2>2. ~ Starts(SubSeq(q, 1, k), from)
    <3>1. ~ Starts(q, from)
      BY <1>2
    <3> QED BY <2>1, <3>1, PrefixFacts DEF Starts
  <2>3. IsKind(t, SubSeq(q, 1, k), "dir")
    BY DEF Shaped, ensureNoSymlinkParents
  <2> QED BY <1>3, <2>2, <2>3
<1>7. ASSUME NEW r \in Sub, NEW k \in 0 .. (Len(Moved(r, from, to)) - 1)
      PROVE  IsKind(m, SubSeq(Moved(r, from, to), 1, k), "dir")
  <2>1. r \in Path /\ r \in DOMAIN t /\ Starts(r, from)
    BY <1>2
  <2>2. /\ Len(from) \in Nat /\ Len(to) \in Nat /\ Len(r) \in Nat /\ Len(from) <= Len(r)
        /\ Len(Moved(r, from, to)) = Len(to) + (Len(r) - Len(from))
        /\ Moved(r, from, to) \in Path
        /\ \A j \in 1 .. Len(to) : Moved(r, from, to)[j] = to[j]
    BY <2>1, MovedFacts, PathLength DEF Starts
  <2>3. CASE k < Len(to)
    <3>1. k \in 0 .. (Len(to) - 1) /\ k \in 0 .. Len(to) /\ k \in 0 .. Len(Moved(r, from, to))
      BY <2>2, <2>3
    <3>2. SubSeq(Moved(r, from, to), 1, k) = SubSeq(to, 1, k)
      <4>1. /\ SubSeq(to, 1, k) \in Path /\ Len(SubSeq(to, 1, k)) = k
            /\ \A j \in 1 .. k : SubSeq(to, 1, k)[j] = to[j]
        BY <3>1, PrefixFacts
      <4>2. /\ SubSeq(Moved(r, from, to), 1, k) \in Path
            /\ Len(SubSeq(Moved(r, from, to), 1, k)) = k
            /\ \A j \in 1 .. k : SubSeq(Moved(r, from, to), 1, k)[j] = Moved(r, from, to)[j]
        BY <2>2, <3>1, PrefixFacts
      <4>3. \A j \in 1 .. k : SubSeq(Moved(r, from, to), 1, k)[j] = SubSeq(to, 1, k)[j]
        BY <2>2, <3>1, <4>1, <4>2
      <4> QED BY <4>1, <4>2, <4>3, SamePath
    <3>3. ~ Starts(SubSeq(to, 1, k), from)
      BY <3>1, RenameApart
    <3>4. IsKind(t, SubSeq(to, 1, k), "dir")
      BY <3>1 DEF ensureNoSymlinkParents
    <3> QED BY <1>3, <3>2, <3>3, <3>4
  <2>4. CASE k >= Len(to)
    <3> DEFINE j == k - Len(to) + Len(from)
    <3>1. k \in Len(to) .. Len(Moved(r, from, to))
      BY <2>2, <2>4
    <3>2. SubSeq(Moved(r, from, to), 1, k) = Moved(SubSeq(r, 1, j), from, to)
      BY <2>1, <3>1, MovedPrefix
    <3>3. j \in 0 .. (Len(r) - 1) /\ j \in 0 .. Len(r) /\ j >= Len(from)
      BY <2>2, <2>4
    <3> HIDE DEF j
    <3>4. IsKind(t, SubSeq(r, 1, j), "dir")
      BY <2>1, <3>3 DEF Shaped, ensureNoSymlinkParents
    <3>5. /\ SubSeq(r, 1, j) \in Path /\ Len(SubSeq(r, 1, j)) = j
          /\ \A i \in 1 .. j : SubSeq(r, 1, j)[i] = r[i]
      BY <2>1, <3>3, PrefixFacts
    <3>6. Starts(SubSeq(r, 1, j), from)
      BY <2>1, <2>2, <3>3, <3>5 DEF Starts
    <3> QED BY <1>4, <3>2, <3>4, <3>6
  <2> QED BY <2>2, <2>3, <2>4
<1>8. \A q \in Arriving(t, from, to) : \E r \in Sub : q = Moved(r, from, to)
  BY DEF Arriving
<1> QED BY <1>1, <1>5, <1>6, <1>7, <1>8 DEF Shaped, ensureNoSymlinkParents, m

-----------------------------------------------------------------------------
(* The tree on disk *)

(* Only regular files have several names, which agree. *)
IdsSound(t) ==
  \A p, q \in DOMAIN t : (t[p].id = t[q].id /\ p # q) => t[p] = t[q] /\ t[p].kind = "file"

(* A tree as it can be on disk. *)
IsDisk(t) ==
  /\ t \in [DOMAIN t -> DiskNode]
  /\ DOMAIN t \subseteq Path
  /\ IsFiniteSet(DOMAIN t)
  /\ Shaped(t)
  /\ IdsSound(t)

(* A tree is a shape and sound inodes. *)
LEMMA TreeParts == ASSUME NEW t PROVE IsTree(t) <=> Shaped(t) /\ IdsSound(t)
BY DEF IsTree, Shaped, IdsSound, ensureNoSymlinkParents

(* There are more numbers than inodes, so a fresh one is found. *)
LEMMA FreshIdIsFresh ==
  ASSUME NEW t, t \in [DOMAIN t -> DiskNode], IsFiniteSet(DOMAIN t)
  PROVE  FreshId(t) \in Nat /\ \A q \in DOMAIN t : t[q].id # FreshId(t)
<1> DEFINE ids == {t[q].id : q \in DOMAIN t}
           N == Cardinality(DOMAIN t)
<1>1. IsFiniteSet(ids) /\ Cardinality(ids) <= N
  <2> DEFINE f == [q \in DOMAIN t |-> t[q].id]
  <2>1. f \in Surjection(DOMAIN t, ids)
    BY DEF Surjection
  <2> HIDE DEF f, ids
  <2> QED BY <2>1, FS_Surjection
<1>2. N \in Nat /\ Cardinality(ids) \in Nat
  BY <1>1, FS_CardinalityType
<1>3. IsFiniteSet(1 .. (N + 1)) /\ Cardinality(1 .. (N + 1)) = N + 1
  <2>1. 1 \in Int /\ N + 1 \in Int /\ 1 <= N + 1
    BY <1>2
  <2>2. /\ IsFiniteSet(1 .. (N + 1))
        /\ Cardinality(1 .. (N + 1)) = IF 1 > N + 1 THEN 0 ELSE (N + 1) - 1 + 1
    BY <2>1, FS_Interval
  <2> QED BY <1>2, <2>2
<1> HIDE DEF ids, N
<1>4. ~ (1 .. (N + 1) \subseteq ids)
  <2> SUFFICES ASSUME 1 .. (N + 1) \subseteq ids PROVE FALSE
    OBVIOUS
  <2>1. Cardinality(1 .. (N + 1)) <= Cardinality(ids)
    BY <1>1, FS_Subset
  <2> QED BY <1>1, <1>2, <1>3, <2>1
<1>5. \E n \in 1 .. (N + 1) : \A q \in DOMAIN t : t[q].id # n
  BY <1>4 DEF ids
<1>6. FreshId(t) \in 1 .. (N + 1) /\ \A q \in DOMAIN t : t[q].id # FreshId(t)
  BY <1>5 DEF FreshId, N
<1> QED BY <1>2, <1>6

(* A new name: of a new inode, or of a regular file that is there. *)
LEMMA PutKeepsDisk ==
  ASSUME NEW t, IsDisk(t), NEW p \in Path, p \notin DOMAIN t,
         ensureNoSymlinkParents(t, p), NEW node \in DiskNode,
         \/ \A q \in DOMAIN t : t[q].id # node.id
         \/ \E q \in DOMAIN t : node = t[q] /\ node.kind = "file"
  PROVE  IsDisk(Put(t, p, node))
<1> DEFINE u == Put(t, p, node)
<1>1. /\ DOMAIN u = DOMAIN t \cup {p}
      /\ u[p] = node
      /\ \A q \in DOMAIN t : u[q] = t[q]
      /\ Shaped(u)
  BY PutShaped DEF IsDisk
<1>2. u = [q \in DOMAIN t \cup {p} |-> IF q = p THEN node ELSE t[q]]
  BY DEF Put
<1> HIDE DEF u
<1>3. u \in [DOMAIN u -> DiskNode]
  BY <1>1, <1>2 DEF IsDisk
<1>4. DOMAIN u \subseteq Path /\ IsFiniteSet(DOMAIN u)
  BY <1>1, FS_AddElement DEF IsDisk
<1>5. ASSUME NEW a \in DOMAIN t, node.id = t[a].id PROVE node = t[a] /\ node.kind = "file"
  BY <1>5 DEF IsDisk, IdsSound
<1>6. ASSUME NEW a \in DOMAIN u, NEW b \in DOMAIN u, u[a].id = u[b].id, a # b
      PROVE  u[a] = u[b] /\ u[a].kind = "file"
  <2>1. CASE a \in DOMAIN t /\ b \in DOMAIN t
    BY <1>1, <1>6, <2>1 DEF IsDisk, IdsSound
  <2>2. CASE a = p /\ b \in DOMAIN t
    BY <1>1, <1>5, <1>6, <2>2
  <2>3. CASE a \in DOMAIN t /\ b = p
    BY <1>1, <1>5, <1>6, <2>3
  <2> QED BY <1>1, <1>6, <2>1, <2>2, <2>3
<1> QED BY <1>1, <1>3, <1>4, <1>6 DEF IsDisk, IdsSound, u

(* A subtree, or parts of it from below, are removed. *)
LEMMA WithoutKeepsDisk ==
  ASSUME NEW t, IsDisk(t), NEW S, Root \notin S,
         \A r \in S : r \in Path /\ \A q \in DOMAIN t : Starts(q, r) => q \in S
  PROVE  IsDisk(Without(t, S))
<1> DEFINE u == Without(t, S)
<1>1. /\ DOMAIN u = DOMAIN t \ S
      /\ \A q \in DOMAIN t \ S : u[q] = t[q]
      /\ Shaped(u)
  BY WithoutShaped DEF IsDisk
<1>2. u = [q \in DOMAIN t \ S |-> t[q]]
  BY DEF Without, Restrict
<1> HIDE DEF u
<1>3. u \in [DOMAIN u -> DiskNode]
  BY <1>1, <1>2 DEF IsDisk
<1>4. DOMAIN u \subseteq Path /\ IsFiniteSet(DOMAIN u)
  BY <1>1, FS_Subset DEF IsDisk
<1>5. IdsSound(u)
  BY <1>1 DEF IsDisk, IdsSound
<1> QED BY <1>1, <1>3, <1>4, <1>5 DEF IsDisk, u

(* A rename keeps every inode and its number of names. *)
LEMMA MoveKeepsDisk ==
  ASSUME NEW t, IsDisk(t),
         NEW from \in DOMAIN t, from # Root, NEW to \in Path, to \notin DOMAIN t,
         ensureNoSymlinkParents(t, to),
         t[from].kind = "dir" => ~ isChildMutationPath(to, from)
  PROVE  IsDisk(Move(t, from, to))
<1> DEFINE u == Move(t, from, to)
           Sub == Subtree(t, from)
           old(q) == IF q \in DOMAIN t THEN q ELSE Moved(q, to, from)
<1>1. /\ DOMAIN u = (DOMAIN t \ Sub) \cup Arriving(t, from, to)
      /\ Arriving(t, from, to) \subseteq Path
      /\ \A q \in Arriving(t, from, to) : q \notin DOMAIN t
      /\ \A q \in DOMAIN t \ Sub : u[q] = t[q]
      /\ \A r \in Sub : /\ u[Moved(r, from, to)] = t[r]
                        /\ Moved(Moved(r, from, to), to, from) = r
  <2>1. DOMAIN t \subseteq Path /\ Shaped(t)
    BY DEF IsDisk
  <2>2. /\ DOMAIN Move(t, from, to)
             = (DOMAIN t \ Subtree(t, from)) \cup Arriving(t, from, to)
        /\ Arriving(t, from, to) \subseteq Path
        /\ \A q \in Arriving(t, from, to) : Starts(q, to) /\ q \notin DOMAIN t
        /\ \A q \in DOMAIN t \ Subtree(t, from) : Move(t, from, to)[q] = t[q]
        /\ \A r \in Subtree(t, from) :
             /\ Move(t, from, to)[Moved(r, from, to)] = t[r]
             /\ Moved(Moved(r, from, to), to, from) = r
    BY <2>1, MoveFacts
  <2> QED BY <2>2
<1>2. Shaped(u)
  BY MoveShaped DEF IsDisk
<1>3. Sub \subseteq DOMAIN t
  BY DEF Subtree
<1>4. IsFiniteSet(DOMAIN u)
  <2>1. IsFiniteSet(Sub) /\ IsFiniteSet(DOMAIN t \ Sub)
    BY <1>3, FS_Subset DEF IsDisk
  <2>2. [r \in Sub |-> Moved(r, from, to)] \in Surjection(Sub, Arriving(t, from, to))
    BY DEF Surjection, Arriving
  <2>3. IsFiniteSet(Arriving(t, from, to))
    BY <2>1, <2>2, FS_Surjection
  <2>4. IsFiniteSet((DOMAIN t \ Sub) \cup Arriving(t, from, to))
    BY <2>1, <2>3, FS_Union
  <2> QED BY <1>1, <2>4
<1>5. \A q \in Arriving(t, from, to) : \E r \in Sub : q = Moved(r, from, to)
  BY DEF Arriving
<1>6. u = [q \in DOMAIN u |-> u[q]]
  BY DEF Move
<1> HIDE DEF u, Sub
<1>7. \A q \in DOMAIN u : old(q) \in DOMAIN t /\ u[q] = t[old(q)]
  BY <1>1, <1>3, <1>5
<1>8. \A a, b \in DOMAIN u : old(a) = old(b) => a = b
  BY <1>1, <1>3, <1>5
<1>9. u \in [DOMAIN u -> DiskNode]
  BY <1>6, <1>7 DEF IsDisk
<1>10. DOMAIN u \subseteq Path
  BY <1>1 DEF IsDisk
<1>11. IdsSound(u)
  <2> HIDE DEF old
  <2> QED BY <1>7, <1>8 DEF IsDisk, IdsSound
<1> QED BY <1>2, <1>4, <1>9, <1>10, <1>11 DEF IsDisk, u

(* A change of an inode that keeps its kind. *)
LEMMA PutInodeKeepsDisk ==
  ASSUME NEW t, IsDisk(t), NEW p \in DOMAIN t,
         NEW node \in DiskNode, node.kind = t[p].kind, node.id = t[p].id
  PROVE  /\ IsDisk(PutInode(t, p, node))
         /\ DOMAIN PutInode(t, p, node) = DOMAIN t
         /\ \A q \in DOMAIN t : PutInode(t, p, node)[q].id = t[q].id
<1> DEFINE u == PutInode(t, p, node)
<1>1. u = [q \in DOMAIN t |-> IF t[q].id = t[p].id THEN node ELSE t[q]]
  BY DEF PutInode
<1> HIDE DEF u
<1>2. DOMAIN u = DOMAIN t /\ u \in [DOMAIN u -> DiskNode]
  BY <1>1 DEF IsDisk
<1>3. \A q \in DOMAIN t : u[q].id = t[q].id /\ u[q].kind = t[q].kind
  BY <1>1 DEF IsDisk, IdsSound
<1>4. Shaped(u)
  BY <1>2, <1>3 DEF IsDisk, Shaped, ensureNoSymlinkParents, IsKind
<1>5. IdsSound(u)
  BY <1>1, <1>2, <1>3 DEF IsDisk, IdsSound
<1> QED BY <1>2, <1>3, <1>4, <1>5 DEF IsDisk, u

-----------------------------------------------------------------------------
(* One operation on disk *)

(* A name is made. *)
LEMMA PutOperation ==
  ASSUME NEW t, IsDisk(t), NEW op \in Operation, op.path # Root,
         op.path \notin DOMAIN t, ensureNoSymlinkParents(t, op.path), NEW node \in DiskNode,
         \/ \A q \in DOMAIN t : t[q].id # node.id
         \/ \E q \in DOMAIN t : node = t[q] /\ node.kind = "file"
  PROVE  IsDisk(Put(t, op.path, node))
<1>1. op.path \in Path
  BY DEF Operation
<1> QED BY <1>1, PutKeepsDisk

(* What a creation puts on disk is a node with an inode of its own. *)
LEMMA NewNodeType ==
  ASSUME NEW t, IsDisk(t), NEW op \in Operation, NEW size \in Int
  PROVE  /\ NewNode(t, op, size) \in DiskNode
         /\ \A q \in DOMAIN t : t[q].id # NewNode(t, op, size).id
<1>1. FreshId(t) \in Nat /\ \A q \in DOMAIN t : t[q].id # FreshId(t)
  BY FreshIdIsFresh DEF IsDisk
<1>2. MadeKind(op) \in NodeKinds
  BY DEF MadeKind, NodeKinds
<1> QED BY <1>1, <1>2 DEF NewNode, DiskNode

(* A directory is removed, all or part of it. *)
LEMMA WithoutOperation ==
  ASSUME NEW t, IsDisk(t), NEW op \in Operation, op.path # Root,
         NEW S, S \subseteq Subtree(t, op.path), \A p \in S : Subtree(t, p) \subseteq S
  PROVE  IsDisk(Without(t, S))
<1>1. op.path \in Path /\ DOMAIN t \subseteq Path /\ S \subseteq DOMAIN t
  BY DEF Operation, IsDisk, Subtree
<1>2. Subtree(t, op.path) = {q \in DOMAIN t : Starts(q, op.path)}
  BY <1>1, SubtreeStarts
<1>3. Root \notin S
  BY <1>1, <1>2, RootPath, OnlyRootEmpty, PathLength DEF Starts
<1>4. \A r \in S : r \in Path /\ \A q \in DOMAIN t : Starts(q, r) => q \in S
  <2> SUFFICES ASSUME NEW r \in S, NEW q \in DOMAIN t, Starts(q, r) PROVE q \in S
    BY <1>1
  <2>1. Subtree(t, r) = {x \in DOMAIN t : Starts(x, r)}
    BY <1>1, SubtreeStarts
  <2> QED BY <2>1
<1> QED BY <1>3, <1>4, WithoutKeepsDisk

(* A path and what lies below it get another name. *)
LEMMA MoveOperation ==
  ASSUME NEW t, IsDisk(t), NEW op \in Operation, op.path \in DOMAIN t, op.path # Root,
         op.to # Root, op.to \notin DOMAIN t, ensureNoSymlinkParents(t, op.to),
         t[op.path].kind = "dir" => ~ isChildMutationPath(op.to, op.path)
  PROVE  IsDisk(Move(t, op.path, op.to))
<1>1. op.to \in Path /\ DOMAIN t \subseteq Path /\ Shaped(t)
  BY DEF Operation, IsDisk
<1> QED BY <1>1, MoveKeepsDisk

(* A change of size or attributes. *)
LEMMA ChangedType ==
  ASSUME NEW node \in DiskNode, NEW op \in Operation
  PROVE  /\ Changed(node, op) \in DiskNode
         /\ Changed(node, op).kind = node.kind
         /\ Changed(node, op).id = node.id
<1>1. op.n \in Int /\ op.off \in Int /\ op.name \in AttrName
  BY DEF Operation
<1>2. ASSUME NEW size \in Int
      PROVE  /\ [node EXCEPT !.size = size] \in DiskNode
             /\ [node EXCEPT !.size = size].kind = node.kind
             /\ [node EXCEPT !.size = size].id = node.id
  BY DEF DiskNode
<1>3. ASSUME NEW xattrs \in SUBSET AttrName
      PROVE  /\ [node EXCEPT !.xattrs = xattrs] \in DiskNode
             /\ [node EXCEPT !.xattrs = xattrs].kind = node.kind
             /\ [node EXCEPT !.xattrs = xattrs].id = node.id
  BY DEF DiskNode
<1>4. /\ node.size + op.n \in Int
      /\ MaxOf(node.size, op.off + op.n) \in Int
      /\ node.xattrs \cup {op.name} \in SUBSET AttrName
      /\ node.xattrs \ {op.name} \in SUBSET AttrName
  BY <1>1 DEF DiskNode, MaxOf
<1>5. \/ Changed(node, op) = node
      \/ Changed(node, op) = [node EXCEPT !.size = op.n]
      \/ Changed(node, op) = [node EXCEPT !.size = node.size + op.n]
      \/ Changed(node, op) = [node EXCEPT !.size = MaxOf(node.size, op.off + op.n)]
      \/ Changed(node, op) = [node EXCEPT !.xattrs = node.xattrs \cup {op.name}]
      \/ Changed(node, op) = [node EXCEPT !.xattrs = node.xattrs \ {op.name}]
  BY DEF Changed
<1>6. CASE Changed(node, op) = node
  BY <1>6
<1>7. CASE Changed(node, op) = [node EXCEPT !.size = op.n]
  BY <1>1, <1>2, <1>7
<1>8. CASE Changed(node, op) = [node EXCEPT !.size = node.size + op.n]
  BY <1>2, <1>4, <1>8
<1>9. CASE Changed(node, op) = [node EXCEPT !.size = MaxOf(node.size, op.off + op.n)]
  BY <1>2, <1>4, <1>9
<1>10. CASE Changed(node, op) = [node EXCEPT !.xattrs = node.xattrs \cup {op.name}]
  <2> DEFINE more == node.xattrs \cup {op.name}
  <2>1. more \in SUBSET AttrName /\ Changed(node, op) = [node EXCEPT !.xattrs = more]
    BY <1>4, <1>10
  <2> HIDE DEF more
  <2> QED BY <1>3, <2>1
<1>11. CASE Changed(node, op) = [node EXCEPT !.xattrs = node.xattrs \ {op.name}]
  <2> DEFINE less == node.xattrs \ {op.name}
  <2>1. less \in SUBSET AttrName /\ Changed(node, op) = [node EXCEPT !.xattrs = less]
    BY <1>4, <1>11
  <2> HIDE DEF less
  <2> QED BY <1>3, <2>1
<1> QED BY <1>5, <1>6, <1>7, <1>8, <1>9, <1>10, <1>11

(***************************************************************************)
(* An operation on the content or the attributes of a file (truncate,      *)
(* append, overwrite, set-xattr, remove-xattr) shows under all names of    *)
(* its inode and moves no name.                                            *)
(***************************************************************************)
LEMMA InodeOperation ==
  ASSUME NEW t, IsDisk(t), NEW op \in Operation, op.path \in DOMAIN t,
         NEW change \in Operation
  PROVE  IsDisk(PutInode(t, op.path, Changed(t[op.path], change)))
<1> DEFINE node == Changed(t[op.path], change)
<1>1. t[op.path] \in DiskNode
  BY DEF IsDisk
<1>2. node \in DiskNode /\ node.kind = t[op.path].kind /\ node.id = t[op.path].id
  BY <1>1, ChangedType
<1> HIDE DEF node
<1> QED BY <1>2, PutInodeKeepsDisk DEF node

(* An operation that passes the checks keeps the disk a tree. *)
LEMMA AppliedOperation ==
  ASSUME NEW t, IsDisk(t), NEW op \in Operation, normalizeOperation(op), Accepts(t, op)
  PROVE  IsDisk(applyOperation(t, op))
<1>1. op.kind \in OpKinds /\ op.n \in Int
  BY DEF Operation
<1>2. CASE op.kind = "create-hardlink"
  <2>1. /\ op.path # Root /\ op.path \notin DOMAIN t /\ ensureNoSymlinkParents(t, op.path)
        /\ op.to \in DOMAIN t /\ t[op.to].kind = "file"
    BY <1>2 DEF normalizeOperation, Accepts, Creations, OnAnyPath, IsKind
  <2>2. t[op.to] \in DiskNode
    BY <2>1 DEF IsDisk
  <2>3. applyOperation(t, op) = Put(t, op.path, t[op.to])
    BY <1>2 DEF applyOperation
  <2> QED BY <2>1, <2>2, <2>3, PutOperation
<1>3. CASE op.kind \in Creations \ {"create-hardlink"}
  <2>1. op.path # Root /\ op.path \notin DOMAIN t /\ ensureNoSymlinkParents(t, op.path)
    BY <1>3 DEF normalizeOperation, Accepts, Creations, OnAnyPath
  <2>2. /\ NewNode(t, op, op.n) \in DiskNode
        /\ \A q \in DOMAIN t : t[q].id # NewNode(t, op, op.n).id
    BY <1>1, NewNodeType
  <2>3. applyOperation(t, op) = Put(t, op.path, NewNode(t, op, op.n))
    BY <1>3 DEF applyOperation, Creations
  <2> QED BY <2>1, <2>2, <2>3, PutOperation
<1>4. CASE op.kind = "delete"
  <2>1. op.path # Root
    BY <1>4 DEF normalizeOperation, OnAnyPath
  <2>2. \A p \in Subtree(t, op.path) : Subtree(t, p) \subseteq Subtree(t, op.path)
    <3>1. DOMAIN t \subseteq Path /\ op.path \in Path
      BY DEF IsDisk, Operation
    <3>2. \A p \in Path : Subtree(t, p) = {q \in DOMAIN t : Starts(q, p)}
      BY <3>1, SubtreeStarts
    <3>3. ASSUME NEW p \in Path, NEW q \in Path, Starts(p, op.path), Starts(q, p)
          PROVE  Starts(q, op.path)
      BY <3>1, <3>3, PathLength DEF Starts
    <3> QED BY <3>1, <3>2, <3>3
  <2>3. applyOperation(t, op) = Without(t, Subtree(t, op.path))
    BY <1>4 DEF applyOperation, Creations
  <2> QED BY <2>1, <2>2, <2>3, WithoutOperation
<1>5. CASE op.kind = "rename"
  <2>1. /\ op.path \in DOMAIN t /\ op.path # Root /\ op.to # Root
        /\ op.to \notin DOMAIN t /\ ensureNoSymlinkParents(t, op.to)
        /\ t[op.path].kind = "dir" => ~ isChildMutationPath(op.to, op.path)
    BY <1>5 DEF normalizeOperation, Accepts, Creations, OnAnyPath
  <2>2. applyOperation(t, op) = Move(t, op.path, op.to)
    BY <1>5 DEF applyOperation, Creations
  <2> QED BY <2>1, <2>2, MoveOperation
<1>6. CASE op.kind \in Contents \cup OnAnyPath
  <2>1. op.path \in DOMAIN t
    BY <1>6 DEF Accepts, Creations, Contents, OnAnyPath
  <2>2. applyOperation(t, op) = PutInode(t, op.path, Changed(t[op.path], op))
    BY <1>6 DEF applyOperation, Creations, Contents, OnAnyPath
  <2> QED BY <2>1, <2>2, InodeOperation
<1> QED BY <1>1, <1>2, <1>3, <1>4, <1>5, <1>6 DEF OpKinds

(* So does an operation that a system call ends half way. *)
LEMMA TornOperation ==
  ASSUME NEW t, IsDisk(t), NEW op \in Operation, normalizeOperation(op), Accepts(t, op),
         NEW u \in Torn(t, op)
  PROVE  IsDisk(u)
<1>1. op.n \in Int
  BY DEF Operation
<1>2. CASE u = t
  BY <1>2
<1>3. CASE op.kind = "create-file" /\ u # t
  <2>1. PICK m \in 0 .. op.n : u = Put(t, op.path, NewNode(t, op, m))
    BY <1>3 DEF Torn
  <2>2. op.path # Root /\ op.path \notin DOMAIN t /\ ensureNoSymlinkParents(t, op.path)
    BY <1>3 DEF normalizeOperation, Accepts, Creations, OnAnyPath
  <2>3. /\ NewNode(t, op, m) \in DiskNode
        /\ \A q \in DOMAIN t : t[q].id # NewNode(t, op, m).id
    BY <1>1, NewNodeType
  <2> QED BY <2>1, <2>2, <2>3, PutOperation
<1>4. CASE op.kind \in {"append", "overwrite-range"} /\ u # t
  <2>1. PICK m \in 1 .. op.n : u = PutInode(t, op.path, Changed(t[op.path], [op EXCEPT !.n = m]))
    BY <1>4 DEF Torn
  <2>2. op.path \in DOMAIN t
    BY <1>4 DEF Accepts, Creations
  <2>3. [op EXCEPT !.n = m] \in Operation
    BY <1>1 DEF Operation
  <2> QED BY <2>1, <2>2, <2>3, InodeOperation
<1>5. CASE op.kind = "delete" /\ u # t
  <2>1. PICK S \in SUBSET (Subtree(t, op.path) \ {op.path}) :
          u = Without(t, S) /\ \A p \in S : Subtree(t, p) \subseteq S
    BY <1>5 DEF Torn
  <2>2. op.path # Root
    BY <1>5 DEF normalizeOperation, OnAnyPath
  <2> QED BY <2>1, <2>2, WithoutOperation
<1> QED BY <1>2, <1>3, <1>4, <1>5 DEF Torn

-----------------------------------------------------------------------------
(* The virtual tree *)

(* A node of mutationState: it has no inode. *)
VirtualNode == [kind : NodeKinds, size : Int, xattrs : SUBSET AttrName]

(* A tree as the generator has it in mind, and the set of them. *)
IsVirtual(t) == t \in [DOMAIN t -> VirtualNode] /\ DOMAIN t \subseteq Path /\ Shaped(t)

VirtualTrees == {t \in UNION {[D -> VirtualNode] : D \in SUBSET Path} : Shaped(t)}

(* The set of virtual trees, by what its members are. *)
LEMMA VirtualTreesAre == \A t : t \in VirtualTrees <=> IsVirtual(t)
BY DEF VirtualTrees, IsVirtual

(* A directory of a tree has nothing but directories above it. *)
LEMMA ParentSuffices ==
  ASSUME NEW t, IsVirtual(t), NEW p \in Path, p # Root, hasParentDirectory(t, p)
  PROVE  ensureNoSymlinkParents(t, p)
<1>1. Len(p) \in Nat /\ Len(p) # 0
  BY OnlyRootEmpty, PathLength
<1>2. Len(p) - 1 \in 0 .. Len(p)
  BY <1>1
<1>3. /\ Front(p) \in Path /\ Len(Front(p)) = Len(p) - 1
      /\ \A j \in 1 .. (Len(p) - 1) : Front(p)[j] = p[j]
  BY <1>2, PrefixFacts DEF Front
<1>4. IsKind(t, Front(p), "dir")
  BY DEF hasParentDirectory
<1>5. ASSUME NEW k \in 0 .. (Len(p) - 1) PROVE IsKind(t, SubSeq(p, 1, k), "dir")
  <2>1. CASE k = Len(p) - 1
    BY <1>4, <2>1 DEF Front
  <2>2. CASE k # Len(p) - 1
    <3>1. k \in 0 .. Len(p) /\ k \in 0 .. Len(Front(p)) /\ k \in 0 .. (Len(Front(p)) - 1)
      BY <1>1, <1>3, <2>2
    <3>2. /\ SubSeq(p, 1, k) \in Path /\ Len(SubSeq(p, 1, k)) = k
          /\ \A j \in 1 .. k : SubSeq(p, 1, k)[j] = p[j]
      BY <3>1, PrefixFacts
    <3>3. /\ SubSeq(Front(p), 1, k) \in Path /\ Len(SubSeq(Front(p), 1, k)) = k
          /\ \A j \in 1 .. k : SubSeq(Front(p), 1, k)[j] = Front(p)[j]
      BY <1>3, <3>1, PrefixFacts
    <3>4. \A j \in 1 .. k : SubSeq(p, 1, k)[j] = SubSeq(Front(p), 1, k)[j]
      BY <1>1, <1>3, <3>1, <3>2, <3>3
    <3>5. SubSeq(p, 1, k) = SubSeq(Front(p), 1, k)
      BY <3>2, <3>3, <3>4, SamePath
    <3>6. IsKind(t, SubSeq(Front(p), 1, k), "dir")
      BY <1>4, <3>1 DEF IsVirtual, Shaped, ensureNoSymlinkParents, IsKind
    <3> QED BY <3>5, <3>6
  <2> QED BY <2>1, <2>2
<1> QED BY <1>5 DEF ensureNoSymlinkParents

(* applyVirtualOperation leaves the kind of a node alone. *)
LEMMA VirtualChangedType ==
  ASSUME NEW node \in VirtualNode, NEW op \in Operation
  PROVE  Changed(node, op) \in VirtualNode /\ Changed(node, op).kind = node.kind
<1>1. op.n \in Int /\ op.off \in Int /\ op.name \in AttrName
  BY DEF Operation
<1>2. ASSUME NEW size \in Int
      PROVE  /\ [node EXCEPT !.size = size] \in VirtualNode
             /\ [node EXCEPT !.size = size].kind = node.kind
  BY DEF VirtualNode
<1>3. ASSUME NEW xattrs \in SUBSET AttrName
      PROVE  /\ [node EXCEPT !.xattrs = xattrs] \in VirtualNode
             /\ [node EXCEPT !.xattrs = xattrs].kind = node.kind
  BY DEF VirtualNode
<1>4. /\ node.size + op.n \in Int
      /\ MaxOf(node.size, op.off + op.n) \in Int
      /\ node.xattrs \cup {op.name} \in SUBSET AttrName
      /\ node.xattrs \ {op.name} \in SUBSET AttrName
  BY <1>1 DEF VirtualNode, MaxOf
<1>5. \/ Changed(node, op) = node
      \/ Changed(node, op) = [node EXCEPT !.size = op.n]
      \/ Changed(node, op) = [node EXCEPT !.size = node.size + op.n]
      \/ Changed(node, op) = [node EXCEPT !.size = MaxOf(node.size, op.off + op.n)]
      \/ Changed(node, op) = [node EXCEPT !.xattrs = node.xattrs \cup {op.name}]
      \/ Changed(node, op) = [node EXCEPT !.xattrs = node.xattrs \ {op.name}]
  BY DEF Changed
<1>6. CASE Changed(node, op) = node
  BY <1>6
<1>7. CASE Changed(node, op) = [node EXCEPT !.size = op.n]
  BY <1>1, <1>2, <1>7
<1>8. CASE Changed(node, op) = [node EXCEPT !.size = node.size + op.n]
  BY <1>2, <1>4, <1>8
<1>9. CASE Changed(node, op) = [node EXCEPT !.size = MaxOf(node.size, op.off + op.n)]
  BY <1>2, <1>4, <1>9
<1>10. CASE Changed(node, op) = [node EXCEPT !.xattrs = node.xattrs \cup {op.name}]
  <2> DEFINE more == node.xattrs \cup {op.name}
  <2>1. more \in SUBSET AttrName /\ Changed(node, op) = [node EXCEPT !.xattrs = more]
    BY <1>4, <1>10
  <2> HIDE DEF more
  <2> QED BY <1>3, <2>1
<1>11. CASE Changed(node, op) = [node EXCEPT !.xattrs = node.xattrs \ {op.name}]
  <2> DEFINE less == node.xattrs \ {op.name}
  <2>1. less \in SUBSET AttrName /\ Changed(node, op) = [node EXCEPT !.xattrs = less]
    BY <1>4, <1>11
  <2> HIDE DEF less
  <2> QED BY <1>3, <2>1
<1> QED BY <1>5, <1>6, <1>7, <1>8, <1>9, <1>10, <1>11

(* A name is made in the virtual tree. *)
LEMMA VirtualPut ==
  ASSUME NEW t, IsVirtual(t), NEW p \in Path, p # Root, p \notin DOMAIN t,
         hasParentDirectory(t, p), NEW node \in VirtualNode
  PROVE  IsVirtual(Put(t, p, node))
<1>1. ensureNoSymlinkParents(t, p)
  BY ParentSuffices
<1>2. DOMAIN Put(t, p, node) = DOMAIN t \cup {p} /\ Shaped(Put(t, p, node))
  BY <1>1, PutShaped DEF IsVirtual
<1>3. Put(t, p, node) \in [DOMAIN t \cup {p} -> VirtualNode]
  BY DEF Put, IsVirtual
<1> QED BY <1>2, <1>3 DEF IsVirtual

(* A path and what lies below it are renamed in the virtual tree. *)
LEMMA VirtualMove ==
  ASSUME NEW t, IsVirtual(t), NEW from \in DOMAIN t, from # Root, NEW to \in Path,
         to # Root, to \notin DOMAIN t, hasParentDirectory(t, to),
         t[from].kind = "dir" => ~ isChildMutationPath(to, from)
  PROVE  IsVirtual(Move(t, from, to))
<1> DEFINE u == Move(t, from, to)
<1>1. DOMAIN t \subseteq Path /\ Shaped(t) /\ t \in [DOMAIN t -> VirtualNode]
  BY DEF IsVirtual
<1>2. ensureNoSymlinkParents(t, to)
  BY ParentSuffices
<1>3. Shaped(u)
  BY <1>1, <1>2, MoveShaped
<1>4. /\ DOMAIN Move(t, from, to)
           = (DOMAIN t \ Subtree(t, from)) \cup Arriving(t, from, to)
      /\ Arriving(t, from, to) \subseteq Path
      /\ \A q \in Arriving(t, from, to) : Starts(q, to) /\ q \notin DOMAIN t
      /\ \A q \in DOMAIN t \ Subtree(t, from) : Move(t, from, to)[q] = t[q]
      /\ \A r \in Subtree(t, from) :
           /\ Move(t, from, to)[Moved(r, from, to)] = t[r]
           /\ Moved(Moved(r, from, to), to, from) = r
  BY <1>1, <1>2, MoveFacts
<1>5. u = [q \in DOMAIN u |-> u[q]]
  BY DEF Move
<1>6. \A q \in DOMAIN u : u[q] \in VirtualNode
  BY <1>1, <1>4 DEF Arriving, Subtree
<1>7. DOMAIN u \subseteq Path
  BY <1>1, <1>4
<1> HIDE DEF u
<1>8. IsVirtual(u)
  BY <1>3, <1>5, <1>6, <1>7 DEF IsVirtual
<1> QED BY <1>8 DEF u

(* The virtual tree stays a tree. *)
LEMMA VirtualOperation ==
  ASSUME NEW t, IsVirtual(t), NEW op \in Operation, normalizeOperation(op),
         VirtualAccepts(t, op)
  PROVE  IsVirtual(applyVirtualOperation(t, op))
<1>1. /\ op.kind \in OpKinds /\ op.n \in Int /\ op.path \in Path /\ op.to \in Path
      /\ DOMAIN t \subseteq Path /\ Shaped(t) /\ t \in [DOMAIN t -> VirtualNode]
  BY DEF Operation, IsVirtual
<1>2. CASE op.kind = "create-hardlink"
  <2>1. /\ op.path # Root /\ op.path \notin DOMAIN t /\ hasParentDirectory(t, op.path)
        /\ op.to \in DOMAIN t
    BY <1>2 DEF normalizeOperation, VirtualAccepts, Creations, OnAnyPath, IsKind
  <2>2. t[op.to] \in VirtualNode
    BY <1>1, <2>1
  <2>3. applyVirtualOperation(t, op) = Put(t, op.path, t[op.to])
    BY <1>2 DEF applyVirtualOperation
  <2> QED BY <1>1, <2>1, <2>2, <2>3, VirtualPut
<1>3. CASE op.kind \in Creations \ {"create-hardlink"}
  <2> DEFINE node == [kind |-> MadeKind(op), size |-> op.n, xattrs |-> {}]
  <2>1. op.path # Root /\ op.path \notin DOMAIN t /\ hasParentDirectory(t, op.path)
    BY <1>3 DEF normalizeOperation, VirtualAccepts, Creations, OnAnyPath
  <2>2. node \in VirtualNode
    <3>1. MadeKind(op) \in NodeKinds
      BY DEF MadeKind, NodeKinds
    <3> QED BY <1>1, <3>1 DEF VirtualNode
  <2>3. applyVirtualOperation(t, op) = Put(t, op.path, node)
    BY <1>3 DEF applyVirtualOperation, Creations
  <2> HIDE DEF node
  <2> QED BY <1>1, <2>1, <2>2, <2>3, VirtualPut
<1>4. CASE op.kind = "delete"
  <2> DEFINE S == Subtree(t, op.path)
  <2>1. op.path # Root
    BY <1>4 DEF normalizeOperation, OnAnyPath
  <2>2. S = {q \in DOMAIN t : Starts(q, op.path)}
    BY <1>1, SubtreeStarts
  <2>3. Root \notin S
    BY <1>1, <2>1, <2>2, RootPath, OnlyRootEmpty, PathLength DEF Starts
  <2>4. ASSUME NEW r \in S, NEW q \in DOMAIN t, Starts(q, r) PROVE q \in S
    <3>1. r \in Path /\ q \in Path /\ Starts(r, op.path)
      BY <1>1, <2>2
    <3>2. Starts(q, op.path)
      BY <1>1, <2>4, <3>1, PathLength DEF Starts
    <3> QED BY <2>2, <3>2
  <2>5. \A r \in S : r \in Path /\ \A q \in DOMAIN t : Starts(q, r) => q \in S
    BY <1>1, <2>2, <2>4
  <2> HIDE DEF S
  <2>6. DOMAIN Without(t, S) = DOMAIN t \ S /\ Shaped(Without(t, S))
    BY <1>1, <2>3, <2>5, WithoutShaped
  <2>7. Without(t, S) \in [DOMAIN t \ S -> VirtualNode]
    BY <1>1 DEF Without, Restrict
  <2>8. applyVirtualOperation(t, op) = Without(t, S)
    BY <1>4 DEF applyVirtualOperation, Creations, S
  <2> QED BY <1>1, <2>6, <2>7, <2>8 DEF IsVirtual
<1>5. CASE op.kind = "rename"
  <2>1. /\ op.path \in DOMAIN t /\ op.path # Root /\ op.to # Root
        /\ op.to \notin DOMAIN t /\ hasParentDirectory(t, op.to)
        /\ t[op.path].kind = "dir" => ~ isChildMutationPath(op.to, op.path)
    BY <1>5 DEF normalizeOperation, VirtualAccepts, Creations, OnAnyPath
  <2>2. applyVirtualOperation(t, op) = Move(t, op.path, op.to)
    BY <1>5 DEF applyVirtualOperation, Creations
  <2> QED BY <1>1, <2>1, <2>2, VirtualMove
<1>6. CASE op.kind \in Contents \cup OnAnyPath
  <2> DEFINE node == Changed(t[op.path], op)
  <2>1. op.path \in DOMAIN t
    BY <1>6 DEF VirtualAccepts, Creations, Contents, OnAnyPath
  <2>2. node \in VirtualNode /\ node.kind = t[op.path].kind
    BY <1>1, <2>1, VirtualChangedType
  <2>3. applyVirtualOperation(t, op) = Put(t, op.path, node)
    BY <1>6 DEF applyVirtualOperation, Creations, Contents, OnAnyPath
  <2> HIDE DEF node
  <2>4. /\ DOMAIN Put(t, op.path, node) = DOMAIN t
        /\ Put(t, op.path, node) \in [DOMAIN t -> VirtualNode]
        /\ \A q \in DOMAIN t : Put(t, op.path, node)[q].kind = t[q].kind
    BY <1>1, <2>1, <2>2 DEF Put
  <2>5. Shaped(Put(t, op.path, node))
    BY <1>1, <2>4 DEF Shaped, ensureNoSymlinkParents, IsKind
  <2> QED BY <1>1, <2>3, <2>4, <2>5 DEF IsVirtual
<1> QED BY <1>1, <1>2, <1>3, <1>4, <1>5, <1>6 DEF OpKinds

(* The scan of a tree on disk is a virtual tree. *)
LEMMA ScanIsVirtual ==
  ASSUME NEW t, IsDisk(t)
  PROVE  IsVirtual(scanMutationState(t))
<1> DEFINE u == scanMutationState(t)
           D == {q \in DOMAIN t : t[q].kind \in {"file", "dir", "symlink"}}
<1>1. /\ DOMAIN u = D
      /\ \A p \in D : u[p].kind = t[p].kind
      /\ u \in [D -> VirtualNode]
  BY DEF scanMutationState, IsDisk, DiskNode, VirtualNode
<1>2. ASSUME NEW q, IsKind(t, q, "dir") PROVE IsKind(u, q, "dir")
  BY <1>1, <1>2 DEF IsKind
<1> HIDE DEF u
<1>3. Shaped(u)
  BY <1>1, <1>2 DEF IsDisk, Shaped, ensureNoSymlinkParents
<1> QED BY <1>1, <1>3 DEF IsVirtual, IsDisk, u

-----------------------------------------------------------------------------
(* The invariant *)

MutationInv ==
  /\ job \in Jobs
  /\ IsDisk(tree)
  /\ ops \in Seq(Operation)
  /\ history \in Seq(VirtualTrees)
  /\ nameSeq \in Nat
  /\ next \in Nat \ {0}
  /\ pc = "planning" => Generated
  /\ NeverContradicts

(* A job starts with a tree on disk and the stream it is given. *)
LEMMA MutationInvInit == Init => MutationInv
<1> SUFFICES ASSUME Init PROVE MutationInv
  OBVIOUS
<1>1. job \in Jobs /\ IsJob(job) /\ tree = job.baseline /\ ops = job.stream
  BY MutationAssumption DEF Init
<1>2. IsDisk(tree)
  BY <1>1, TreeParts DEF IsJob, IsDisk
<1>3. scanMutationState(tree) \in VirtualTrees
  BY <1>2, ScanIsVirtual, VirtualTreesAre
<1>4. ops \in Seq(Operation)
  BY <1>1 DEF IsJob
<1>5. history \in Seq(VirtualTrees) /\ (pc = "planning" => Generated)
  <2>1. CASE job.kinds # {}
    <3>1. history = <<scanMutationState(tree)>>
      BY <2>1 DEF Init
    <3> DEFINE scan == scanMutationState(tree)
    <3> HIDE DEF scan
    <3>2. <<scan>> \in Seq(VirtualTrees) /\ <<scan>> # <<>>
      BY <1>3 DEF scan
    <3> QED BY <3>1, <3>2 DEF Generated, scan
  <2>2. CASE job.kinds = {}
    BY <2>2 DEF Init
  <2> QED BY <2>1, <2>2
<1>6. NeverContradicts
  <2>1. CASE job.kinds # {}
    <3>1. ops = <<>> /\ pc = "planning"
      BY <1>1, <2>1 DEF Init, IsJob
    <3> QED BY <3>1 DEF NeverContradicts
  <2>2. CASE job.kinds = {}
    BY <2>2 DEF Init, NeverContradicts, Generated
  <2> QED BY <2>1, <2>2
<1> QED BY <1>1, <1>2, <1>4, <1>5, <1>6 DEF MutationInv, Init

(* The tree GenerateOperations plans against. *)
LEMMA NodesVirtual ==
  ASSUME MutationInv, pc = "planning"
  PROVE  IsVirtual(Nodes)
<1>1. history \in Seq(VirtualTrees) /\ history # <<>>
  BY DEF MutationInv, Generated
<1>2. Len(history) \in DOMAIN history
  BY <1>1
<1>3. Nodes \in VirtualTrees
  BY <1>1, <1>2 DEF Nodes
<1> QED BY <1>3, VirtualTreesAre

(* A planned operation that both checks accept is added to the stream. *)
LEMMA EmitKeeps ==
  ASSUME MutationInv, pc = "planning", NEW op \in Operation, normalizeOperation(op),
         VirtualAccepts(Nodes, op), Emit(op), nameSeq' \in Nat
  PROVE  MutationInv'
<1>1. ops \in Seq(Operation) /\ history \in Seq(VirtualTrees) /\ Generated /\ NeverContradicts
  BY DEF MutationInv
<1>2. applyVirtualOperation(Nodes, op) \in VirtualTrees
  BY NodesVirtual, VirtualOperation, VirtualTreesAre
<1>3. /\ ops' = Append(ops, op)
      /\ history' = Append(history, applyVirtualOperation(Nodes, op))
      /\ pc' \in {"ready", "planning"}
      /\ UNCHANGED <<tree, job, next>>
  BY DEF Emit
<1>4. ops' \in Seq(Operation)
  BY <1>1, <1>3
<1>5. history' \in Seq(VirtualTrees) /\ history' # <<>>
  BY <1>1, <1>2, <1>3
<1>6. \A k \in DOMAIN ops' : normalizeOperation(ops'[k])
  <2> SUFFICES ASSUME NEW k \in DOMAIN ops' PROVE normalizeOperation(ops'[k])
    OBVIOUS
  <2>1. Len(ops) \in Nat /\ DOMAIN ops = 1 .. Len(ops) /\ DOMAIN ops' = 1 .. (Len(ops) + 1)
    BY <1>1, <1>3
  <2>2. CASE k = Len(ops) + 1
    BY <1>1, <1>3, <2>2
  <2>3. CASE k # Len(ops) + 1
    <3>1. k \in DOMAIN ops /\ ops'[k] = ops[k]
      BY <1>1, <1>3, <2>1, <2>3
    <3> QED BY <1>1, <3>1 DEF NeverContradicts
  <2> QED BY <2>2, <2>3
<1>7. NeverContradicts' /\ Generated'
  BY <1>3, <1>5, <1>6 DEF NeverContradicts, Generated
<1> QED BY <1>3, <1>4, <1>5, <1>7 DEF MutationInv

(* What planUniquePath returns is a new path in a directory. *)
LEMMA DrawnFacts ==
  ASSUME MutationInv, pc = "planning", NEW seq \in Nat, NEW d \in planUniquePath(seq)
  PROVE  /\ d.path \in Path /\ d.path # Root /\ d.path \notin DOMAIN Nodes
         /\ hasParentDirectory(Nodes, d.path)
         /\ d.seq \in Nat
<1>1. PICK k \in {n \in 0 .. (Retries - 1) : \A j \in 0 .. (n - 1) : Taken(seq + j)} :
        d \in {Drawn(c, seq + k + 1) : c \in Candidates(seq + k) \ DOMAIN Nodes}
  BY DEF planUniquePath
<1>2. PICK c \in Candidates(seq + k) \ DOMAIN Nodes : d = Drawn(c, seq + k + 1)
  BY <1>1
<1>3. k \in Nat /\ seq + k \in Nat
  BY MutationAssumption
<1>4. PICK dir \in OfKind("dir"), b \in Bytes : c = Append(dir, <<seq + k, b>>)
  BY <1>2 DEF Candidates
<1>5. dir \in Path /\ IsKind(Nodes, dir, "dir")
  BY <1>4, NodesVirtual DEF OfKind, IsVirtual, IsKind
<1>6. b \in Nat
  BY MutationAssumption
<1>7. <<seq + k, b>> \in Nat \X Nat
  BY <1>3, <1>6
<1>8. c \in Path /\ Len(c) = Len(dir) + 1 /\ \A j \in 1 .. Len(dir) : c[j] = dir[j]
  BY <1>4, <1>5, <1>7, AppendProperties DEF Path
<1>9. Len(dir) \in Nat
  BY <1>5, PathLength
<1>10. Front(c) = dir
  <2>1. Front(c) = SubSeq(c, 1, Len(dir)) /\ Len(dir) \in 0 .. Len(c)
    BY <1>8, <1>9 DEF Front
  <2>2. /\ Front(c) \in Path /\ Len(Front(c)) = Len(dir)
        /\ \A j \in 1 .. Len(dir) : Front(c)[j] = c[j]
    BY <1>8, <2>1, PrefixFacts
  <2> QED BY <1>5, <1>8, <2>2, SamePath
<1>11. c # Root
  BY <1>8, <1>9, OnlyRootEmpty
<1>12. hasParentDirectory(Nodes, c)
  BY <1>5, <1>10 DEF hasParentDirectory
<1>13. d.path = c /\ d.seq = seq + k + 1
  BY <1>2 DEF Drawn
<1> QED BY <1>2, <1>3, <1>8, <1>11, <1>12, <1>13

(* A destination for a rename is such a path, and not below its source. *)
LEMMA DestinationFacts ==
  ASSUME MutationInv, pc = "planning", NEW source, NEW d \in Destinations(source)
  PROVE  /\ d.path \in Path /\ d.path # Root /\ d.path \notin DOMAIN Nodes
         /\ hasParentDirectory(Nodes, d.path)
         /\ d.seq \in Nat
         /\ Nodes[source].kind = "dir" => ~ isChildMutationPath(d.path, source)
<1>1. /\ d \in UNION {planUniquePath(q) : q \in UNION {Inward(source, n) : n \in 0 .. (Retries - 1)}}
      /\ Nodes[source].kind = "dir" => ~ isChildMutationPath(d.path, source)
  BY DEF Destinations
<1>2. PICK n \in 0 .. (Retries - 1) : \E q \in Inward(source, n) : d \in planUniquePath(q)
  BY <1>1
<1>3. PICK q \in Inward(source, n) : d \in planUniquePath(q)
  BY <1>2
<1>4. q \in Nat
  <2>1. n \in Nat /\ Retries \in Nat /\ nameSeq \in Nat
    BY MutationAssumption DEF MutationInv
  <2>2. PICK s \in [0 .. n -> nameSeq .. (nameSeq + n * Retries)] : q = s[n]
    BY <1>3 DEF Inward
  <2>3. q \in nameSeq .. (nameSeq + n * Retries)
    BY <2>1, <2>2
  <2> QED BY <2>1, <2>3
<1> QED BY <1>1, <1>3, <1>4, DrawnFacts

(* The names planOperation picks from. *)
LEMMA PickedFacts ==
  ASSUME MutationInv, pc = "planning"
  PROVE  /\ Nodes \in [DOMAIN Nodes -> VirtualNode] /\ DOMAIN Nodes \subseteq Path
         /\ \A p \in sortedPaths : p \in DOMAIN Nodes /\ p # Root
         /\ \A p \in OfKind("file") : p \in DOMAIN Nodes /\ p # Root /\ IsKind(Nodes, p, "file")
         /\ \A p \in DOMAIN Nodes : Nodes[p].size \in Int /\ Nodes[p].xattrs \subseteq AttrName
<1>1. IsVirtual(Nodes)
  BY NodesVirtual
<1>2. Nodes[Root].kind = "dir"
  BY <1>1 DEF IsVirtual, Shaped, IsKind
<1> QED BY <1>1, <1>2 DEF IsVirtual, VirtualNode, sortedPaths, OfKind, IsKind

(* An operation that makes a new name. *)
LEMMA PlanCreateKeeps ==
  ASSUME MutationInv, pc = "planning", NEW d \in planUniquePath(nameSeq), NEW op,
         d.path \in Path => op \in Operation, op.path = d.path,
         op.kind \in Creations \ {"create-hardlink"}, EmitNew(d, op)
  PROVE  MutationInv'
<1>1. nameSeq \in Nat
  BY DEF MutationInv
<1>2. /\ d.path \in Path /\ d.path # Root /\ d.path \notin DOMAIN Nodes
      /\ hasParentDirectory(Nodes, d.path) /\ d.seq \in Nat
  BY <1>1, DrawnFacts
<1>3. Emit(op) /\ nameSeq' \in Nat /\ op \in Operation
  BY <1>2 DEF EmitNew
<1>4. normalizeOperation(op)
  BY <1>2 DEF normalizeOperation, Creations
<1>5. VirtualAccepts(Nodes, op)
  BY <1>2 DEF VirtualAccepts, Creations, Contents
<1> QED BY <1>3, <1>4, <1>5, EmitKeeps

(* A hardlink is planned from a file to a name that is free. *)
LEMMA PlanHardlinkKeeps == ASSUME MutationInv, PlanCreateHardlink PROVE MutationInv'
<1>1. pc = "planning" /\ nameSeq \in Nat
  BY DEF PlanCreateHardlink, Planning, MutationInv
<1>2. PICK source \in OfKind("file"), d \in planUniquePath(nameSeq) :
        EmitNew(d, Op("create-hardlink", d.path, source, 0, 0, ""))
  BY DEF PlanCreateHardlink
<1> DEFINE op == Op("create-hardlink", d.path, source, 0, 0, "")
<1>3. /\ d.path \in Path /\ d.path # Root /\ d.path \notin DOMAIN Nodes
      /\ hasParentDirectory(Nodes, d.path) /\ d.seq \in Nat
  BY <1>1, DrawnFacts
<1>4. source \in Path /\ source \in DOMAIN Nodes /\ source # Root /\ IsKind(Nodes, source, "file")
  BY <1>1, <1>2, PickedFacts
<1>5. op \in Operation /\ op.kind = "create-hardlink" /\ op.path = d.path /\ op.to = source
  BY <1>3, <1>4 DEF Op, Operation, AttrName, OpKinds, Creations
<1>6. Emit(op) /\ nameSeq' \in Nat
  BY <1>2, <1>3 DEF EmitNew
<1> HIDE DEF op
<1>7. normalizeOperation(op)
  BY <1>3, <1>4, <1>5 DEF normalizeOperation
<1>8. VirtualAccepts(Nodes, op)
  BY <1>3, <1>4, <1>5 DEF VirtualAccepts, Creations, Contents
<1> QED BY <1>1, <1>5, <1>6, <1>7, <1>8, EmitKeeps

(* A rename is planned to a free name outside the directory it moves. *)
LEMMA PlanRenameKeeps == ASSUME MutationInv, PlanRename PROVE MutationInv'
<1>1. pc = "planning"
  BY DEF PlanRename, Planning
<1>a. PICK source \in sortedPaths : \E d \in Destinations(source) :
        EmitNew(d, Op("rename", source, d.path, 0, 0, ""))
  BY DEF PlanRename
<1>2. PICK d \in Destinations(source) : EmitNew(d, Op("rename", source, d.path, 0, 0, ""))
  BY <1>a
<1> DEFINE op == Op("rename", source, d.path, 0, 0, "")
<1>3. /\ d.path \in Path /\ d.path # Root /\ d.path \notin DOMAIN Nodes
      /\ hasParentDirectory(Nodes, d.path) /\ d.seq \in Nat
      /\ Nodes[source].kind = "dir" => ~ isChildMutationPath(d.path, source)
  BY <1>1, <1>2, DestinationFacts
<1>4. source \in Path /\ source \in DOMAIN Nodes /\ source # Root
  BY <1>1, <1>2, PickedFacts
<1>5. op \in Operation /\ op.kind = "rename" /\ op.path = source /\ op.to = d.path
  BY <1>3, <1>4 DEF Op, Operation, AttrName, OpKinds
<1>6. Emit(op) /\ nameSeq' \in Nat
  BY <1>2, <1>3 DEF EmitNew
<1> HIDE DEF op
<1>7. normalizeOperation(op)
  BY <1>3, <1>4, <1>5 DEF normalizeOperation
<1>8. VirtualAccepts(Nodes, op)
  BY <1>3, <1>4, <1>5 DEF VirtualAccepts, Creations, Contents
<1> QED BY <1>1, <1>5, <1>6, <1>7, <1>8, EmitKeeps

(* delete, chmod and chown are planned for a path that is there. *)
LEMMA PlanOnPathKeeps == ASSUME MutationInv, PlanOnPath PROVE MutationInv'
<1>1. pc = "planning" /\ nameSeq' \in Nat
  BY DEF PlanOnPath, MutationInv
<1>2. PICK kind \in {"delete", "chmod", "chown"}, p \in sortedPaths :
        Emit(Op(kind, p, Root, 0, 0, ""))
  BY DEF PlanOnPath
<1> DEFINE op == Op(kind, p, Root, 0, 0, "")
<1>3. p \in Path /\ p \in DOMAIN Nodes /\ p # Root
  BY <1>1, <1>2, PickedFacts
<1>4. op \in Operation /\ op.kind = kind /\ op.path = p
  BY <1>3, RootPath DEF Op, Operation, AttrName, OpKinds, OnAnyPath
<1>5. Emit(op)
  BY <1>2
<1> HIDE DEF op
<1>6. normalizeOperation(op)
  BY <1>3, <1>4 DEF normalizeOperation
<1>7. VirtualAccepts(Nodes, op)
  BY <1>3, <1>4 DEF VirtualAccepts, Creations, Contents
<1> QED BY <1>1, <1>4, <1>5, <1>6, <1>7, EmitKeeps

(* An operation on the content of a file. *)
LEMMA PlanContentKeeps ==
  ASSUME MutationInv, pc = "planning", nameSeq' = nameSeq, NEW p \in OfKind("file"), NEW op,
         p \in Path => op \in Operation, op.path = p, op.kind \in Contents, op.n >= 0,
         op.kind # "truncate" => op.n > 0, op.off >= 0, Emit(op)
  PROVE  MutationInv'
<1>1. nameSeq' \in Nat
  BY DEF MutationInv
<1>2. p \in Path /\ p \in DOMAIN Nodes /\ p # Root /\ IsKind(Nodes, p, "file")
  BY PickedFacts
<1>3. normalizeOperation(op)
  BY <1>2 DEF normalizeOperation, Contents
<1>4. VirtualAccepts(Nodes, op)
  BY <1>2 DEF VirtualAccepts, Creations, Contents, IsKind
<1> QED BY <1>1, <1>2, <1>3, <1>4, EmitKeeps

(* Data that is drawn is never empty. *)
LEMMA DataLengthsAre ==
  ASSUME NEW max \in Int, NEW n \in DataLengths(max)
  PROVE  n \in Int /\ n > 0
  BY DEF DataLengths, MaxOf

(* A range is planned within the file, or at its end. *)
LEMMA PlanOverwriteKeeps == ASSUME MutationInv, PlanOverwriteRange PROVE MutationInv'
<1>1. pc = "planning" /\ nameSeq' = nameSeq /\ MaxDataSize \in Nat
  BY MutationAssumption DEF PlanOverwriteRange, Planning
<1>a. PICK p \in OfKind("file") : \E off \in Offsets(Nodes[p].size) :
        LET remaining == Nodes[p].size - off
            maxLen == IF MaxDataSize > remaining THEN remaining ELSE MaxDataSize
        IN  \E n \in DataLengths(maxLen) :
              Emit(Op("overwrite-range", p, Root, n, off, ""))
  BY DEF PlanOverwriteRange
<1>2. PICK off \in Offsets(Nodes[p].size) :
        LET remaining == Nodes[p].size - off
            maxLen == IF MaxDataSize > remaining THEN remaining ELSE MaxDataSize
        IN  \E n \in DataLengths(maxLen) :
              Emit(Op("overwrite-range", p, Root, n, off, ""))
  BY <1>a
<1> DEFINE remaining == Nodes[p].size - off
           maxLen == IF MaxDataSize > remaining THEN remaining ELSE MaxDataSize
<1>3. PICK n \in DataLengths(maxLen) : Emit(Op("overwrite-range", p, Root, n, off, ""))
  BY <1>2
<1>4. Nodes[p].size \in Int
  BY <1>1, <1>2, PickedFacts
<1>b. off \in Offsets(Nodes[p].size)
  BY <1>2
<1>5. off \in Int /\ off >= 0
  BY <1>b, <1>4 DEF Offsets
<1>6. maxLen \in Int
  BY <1>1, <1>4, <1>5
<1> HIDE DEF maxLen
<1>7. n \in Int /\ n > 0
  BY <1>3, <1>6, DataLengthsAre
<1> DEFINE op == Op("overwrite-range", p, Root, n, off, "")
<1>8. /\ p \in Path => op \in Operation
      /\ op.kind = "overwrite-range" /\ op.path = p /\ op.n = n /\ op.off = off
  BY <1>5, <1>7, RootPath DEF Op, Operation, AttrName, OpKinds, Contents
<1>9. Emit(op)
  BY <1>3
<1> HIDE DEF op
<1>10. op.kind \in Contents /\ op.n >= 0 /\ op.n > 0 /\ op.off >= 0
  BY <1>5, <1>7, <1>8 DEF Contents
<1>11. p \in OfKind("file")
  BY <1>a
<1> QED BY <1>1, <1>8, <1>9, <1>10, <1>11, PlanContentKeeps

(* An operation on the attributes of a path. *)
LEMMA PlanXAttrKeeps ==
  ASSUME MutationInv, pc = "planning", nameSeq' = nameSeq, NEW p \in DOMAIN Nodes,
         NEW kind \in {"set-xattr", "remove-xattr"}, NEW name \in AttrName,
         kind = "remove-xattr" => name \in Nodes[p].xattrs,
         Emit(Op(kind, p, Root, 0, 0, name))
  PROVE  MutationInv'
<1> DEFINE op == Op(kind, p, Root, 0, 0, name)
<1>1. nameSeq' \in Nat
  BY DEF MutationInv
<1>2. p \in Path
  BY PickedFacts
<1>3. op \in Operation /\ op.kind = kind /\ op.path = p /\ op.name = name
  BY <1>2, RootPath DEF Op, Operation, OpKinds, OnAnyPath
<1>4. Emit(op)
  OBVIOUS
<1> HIDE DEF op
<1>5. normalizeOperation(op)
  BY <1>3 DEF normalizeOperation, OnAnyPath
<1>6. VirtualAccepts(Nodes, op)
  BY <1>3 DEF VirtualAccepts, Creations, Contents
<1> QED BY <1>1, <1>3, <1>4, <1>5, <1>6, EmitKeeps

(* Every step of GenerateOperations. *)
LEMMA GenerateKeeps == ASSUME MutationInv, Generate PROVE MutationInv'
<1>1. MaxDataSize \in Int
  BY MutationAssumption
<1>10. XAttrNames \subseteq AttrName
  BY MutationAssumption
<1>2. CASE PlanCreateFile
  <2>1. pc = "planning"
    BY <1>2 DEF PlanCreateFile, Planning
  <2>2. PICK d \in planUniquePath(nameSeq), n \in DataLengths(MaxDataSize) :
          EmitNew(d, Op("create-file", d.path, Root, n, 0, ""))
    BY <1>2 DEF PlanCreateFile
  <2>3. n \in Int
    BY <1>1, DataLengthsAre
  <2> DEFINE op == Op("create-file", d.path, Root, n, 0, "")
  <2>4. /\ d.path \in Path => op \in Operation
        /\ op.kind = "create-file" /\ op.path = d.path
    BY <2>3, RootPath DEF Op, Operation, AttrName, OpKinds, Creations
  <2>5. EmitNew(d, op)
    BY <2>2
  <2> HIDE DEF op
  <2>6. op.kind \in Creations \ {"create-hardlink"}
    BY <2>4 DEF Creations
  <2> QED BY <2>1, <2>2, <2>4, <2>5, <2>6, PlanCreateKeeps
<1>3. CASE PlanCreateDir
  <2>1. pc = "planning"
    BY <1>3 DEF PlanCreateDir, Planning
  <2>2. PICK d \in planUniquePath(nameSeq) :
          EmitNew(d, Op("create-dir", d.path, Root, 0, 0, ""))
    BY <1>3 DEF PlanCreateDir
  <2> DEFINE op == Op("create-dir", d.path, Root, 0, 0, "")
  <2>4. /\ d.path \in Path => op \in Operation
        /\ op.kind = "create-dir" /\ op.path = d.path
    BY RootPath DEF Op, Operation, AttrName, OpKinds, Creations
  <2>5. EmitNew(d, op)
    BY <2>2
  <2> HIDE DEF op
  <2>6. op.kind \in Creations \ {"create-hardlink"}
    BY <2>4 DEF Creations
  <2> QED BY <2>1, <2>2, <2>4, <2>5, <2>6, PlanCreateKeeps
<1>4. CASE PlanCreateSymlink
  <2>1. pc = "planning"
    BY <1>4 DEF PlanCreateSymlink, Planning
  <2>2. PICK d \in planUniquePath(nameSeq) :
          EmitNew(d, Op("create-symlink", d.path, Root, 0, 0, ""))
    BY <1>4 DEF PlanCreateSymlink
  <2> DEFINE op == Op("create-symlink", d.path, Root, 0, 0, "")
  <2>4. /\ d.path \in Path => op \in Operation
        /\ op.kind = "create-symlink" /\ op.path = d.path
    BY RootPath DEF Op, Operation, AttrName, OpKinds, Creations
  <2>5. EmitNew(d, op)
    BY <2>2
  <2> HIDE DEF op
  <2>6. op.kind \in Creations \ {"create-hardlink"}
    BY <2>4 DEF Creations
  <2> QED BY <2>1, <2>2, <2>4, <2>5, <2>6, PlanCreateKeeps
<1>5. CASE PlanTruncate
  <2>1. pc = "planning" /\ nameSeq' = nameSeq
    BY <1>5 DEF PlanTruncate, Planning
  <2>a. PICK p \in OfKind("file") : \E n \in 0 .. MaxOf(MaxDataSize, Nodes[p].size) :
          Emit(Op("truncate", p, Root, n, 0, ""))
    BY <1>5 DEF PlanTruncate
  <2>2. PICK n \in 0 .. MaxOf(MaxDataSize, Nodes[p].size) :
          Emit(Op("truncate", p, Root, n, 0, ""))
    BY <2>a
  <2>3. Nodes[p].size \in Int
    BY <2>1, <2>2, PickedFacts
  <2>b. n \in 0 .. MaxOf(MaxDataSize, Nodes[p].size)
    BY <2>2
  <2>4. n \in Int /\ n >= 0
    BY <1>1, <2>b, <2>3 DEF MaxOf
  <2> DEFINE op == Op("truncate", p, Root, n, 0, "")
  <2>5. /\ p \in Path => op \in Operation
        /\ op.kind = "truncate" /\ op.path = p /\ op.n = n /\ op.off = 0
    BY <2>4, RootPath DEF Op, Operation, AttrName, OpKinds, Contents
  <2>6. Emit(op)
    BY <2>2
  <2> HIDE DEF op
  <2>7. op.kind \in Contents /\ op.off >= 0
    BY <2>5 DEF Contents
  <2> QED BY <2>1, <2>a, <2>4, <2>5, <2>6, <2>7, PlanContentKeeps
<1>6. CASE PlanAppend
  <2>1. pc = "planning" /\ nameSeq' = nameSeq
    BY <1>6 DEF PlanAppend, Planning
  <2>2. PICK p \in OfKind("file"), n \in DataLengths(MaxDataSize) :
          Emit(Op("append", p, Root, n, 0, ""))
    BY <1>6 DEF PlanAppend
  <2>3. n \in Int /\ n > 0
    BY <1>1, <2>2, DataLengthsAre
  <2> DEFINE op == Op("append", p, Root, n, 0, "")
  <2>4. /\ p \in Path => op \in Operation
        /\ op.kind = "append" /\ op.path = p /\ op.n = n /\ op.off = 0
    BY <2>3, RootPath DEF Op, Operation, AttrName, OpKinds, Contents
  <2>5. Emit(op)
    BY <2>2
  <2> HIDE DEF op
  <2>6. op.kind \in Contents /\ op.off >= 0 /\ op.n >= 0
    BY <2>3, <2>4 DEF Contents
  <2> QED BY <2>1, <2>2, <2>3, <2>4, <2>5, <2>6, PlanContentKeeps
<1>7. CASE PlanSetXAttr
  <2>1. pc = "planning" /\ nameSeq' = nameSeq
    BY <1>7 DEF PlanSetXAttr, Planning
  <2>2. PICK p \in DOMAIN Nodes, name \in XAttrNames :
          Emit(Op("set-xattr", p, Root, 0, 0, name))
    BY <1>7 DEF PlanSetXAttr
  <2>3. name \in AttrName
    BY <1>10, <2>2
  <2> QED BY <2>1, <2>2, <2>3, PlanXAttrKeeps
<1>8. CASE PlanRemoveXAttr
  <2>1. pc = "planning" /\ nameSeq' = nameSeq
    BY <1>8 DEF PlanRemoveXAttr, Planning
  <2>a. PICK p \in DOMAIN Nodes : \E name \in Nodes[p].xattrs :
          Emit(Op("remove-xattr", p, Root, 0, 0, name))
    BY <1>8 DEF PlanRemoveXAttr
  <2>2. PICK name \in Nodes[p].xattrs : Emit(Op("remove-xattr", p, Root, 0, 0, name))
    BY <2>a
  <2>3. name \in AttrName
    BY <2>1, <2>2, PickedFacts
  <2> QED BY <2>1, <2>2, <2>3, PlanXAttrKeeps
<1>9. CASE PlanFails \/ PathsExhausted
  <2>1. UNCHANGED <<tree, job, ops, history, nameSeq, next>> /\ pc' \in {"unplannable", "exhausted"}
    BY <1>9 DEF PlanFails, PathsExhausted, planVars
  <2> QED BY <2>1 DEF MutationInv, NeverContradicts, Generated
<1> QED BY <1>2, <1>3, <1>4, <1>5, <1>6, <1>7, <1>8, <1>9, PlanHardlinkKeeps,
           PlanRenameKeeps, PlanOnPathKeeps, PlanOverwriteKeeps DEF Generate

-----------------------------------------------------------------------------
(* Applying *)

(* Both endings of an operation that passes its checks. *)
LEMMA DiskStep ==
  ASSUME MutationInv, OpApplied \/ OpFails
  PROVE  /\ ops[next] \in Operation /\ normalizeOperation(ops[next])
         /\ IsDisk(tree')
<1>1. /\ ops \in Seq(Operation) /\ next \in Nat \ {0} /\ IsDisk(tree)
      /\ next <= Len(ops) /\ normalizeOperation(ops[next]) /\ Accepts(tree, ops[next])
  BY DEF MutationInv, OpApplied, OpFails, Breaks, OpPasses, AtOp
<1>2. ops[next] \in Operation
  BY <1>1
<1>3. CASE OpApplied
  <2>1. tree' = applyOperation(tree, ops[next])
    BY <1>3 DEF OpApplied
  <2> QED BY <1>1, <1>2, <2>1, AppliedOperation
<1>4. CASE OpFails
  <2>1. tree' \in Torn(tree, ops[next])
    BY <1>4 DEF OpFails, Breaks
  <2> QED BY <1>1, <1>2, <2>1, TornOperation
<1> QED BY <1>3, <1>4

(***************************************************************************)
(* Every step of GenerateOperations and of ApplyOperationsWithOptions      *)
(* keeps the invariant.                                                    *)
(***************************************************************************)
LEMMA MutationInvStep == MutationInv /\ [Next]_vars => MutationInv'
<1> SUFFICES ASSUME MutationInv, [Next]_vars PROVE MutationInv'
  OBVIOUS
<1>1. CASE Generate
  BY <1>1, GenerateKeeps
<1>2. CASE \E start \in {next, Len(ops) + 2}, rules \in job.profiles : StartApply(start, rules)
  <2>1. PICK start \in {next, Len(ops) + 2}, rules \in job.profiles : StartApply(start, rules)
    BY <1>2
  <2>2. UNCHANGED <<tree, job, ops, history, nameSeq>> /\ pc' \in {"badindex", "ok", "applying"}
    BY <2>1 DEF StartApply, planVars
  <2>3. next' \in Nat \ {0}
    <3>1. next \in Nat \ {0} /\ Len(ops) \in Nat
      BY DEF MutationInv
    <3>2. start \in Nat \ {0}
      BY <2>1, <3>1
    <3> QED BY <2>1, <3>1, <3>2 DEF StartApply
  <2> QED BY <2>2, <2>3 DEF MutationInv, NeverContradicts, Generated
<1>3. CASE OpApplied \/ OpFails
  <2>1. IsDisk(tree')
    BY <1>3, DiskStep
  <2>2. UNCHANGED <<job, ops, history, nameSeq>> /\ next' \in {next, next + 1}
    BY <1>3 DEF OpApplied, OpFails, Breaks, planVars
  <2>3. pc' \in {"applying", "failed"}
    BY <1>3 DEF OpApplied, OpFails, Breaks, OpPasses, AtOp
  <2>4. next' \in Nat \ {0}
    BY <2>2 DEF MutationInv
  <2> HIDE <1>3
  <2> QED BY <2>1, <2>2, <2>3, <2>4 DEF MutationInv, NeverContradicts, Generated, IsDisk
<1>4. CASE OpInvalid \/ OpFault \/ OpRefused \/ StreamDone
  <2>1. UNCHANGED <<tree, job, ops, history, nameSeq, next>> /\ pc' \in {"refused", "injected", "ok"}
    BY <1>4 DEF OpInvalid, OpFault, OpRefused, StreamDone, planVars
  <2> QED BY <2>1 DEF MutationInv, NeverContradicts, Generated
<1>5. CASE UNCHANGED vars
  BY <1>5 DEF MutationInv, NeverContradicts, Generated, vars, planVars
<1> QED BY <1>1, <1>2, <1>3, <1>4, <1>5 DEF Next, ApplyStep

(***************************************************************************)
(* At every moment the disk is a tree of typed nodes and what is planned   *)
(* is typed, whatever the jobs, the names, the retries and the number of   *)
(* calls.                                                                  *)
(***************************************************************************)
THEOREM MutationInvHolds == Spec => []MutationInv
<1> QED BY MutationInvInit, MutationInvStep, PTL DEF Spec

(***************************************************************************)
(* Whatever stream a caller gives or GenerateOperations makes, and         *)
(* wherever a call ends by a fault, a check or an I/O error, the checks of *)
(* applyOperation keep the disk a tree.                                    *)
(***************************************************************************)
THEOREM MutationTreeWellFormed == Spec => []TreeWellFormed
<1>1. MutationInv => TreeWellFormed
  BY TreeParts DEF MutationInv, IsDisk, TreeWellFormed
<1> QED BY <1>1, MutationInvHolds, PTL

(***************************************************************************)
(* planOperation never picks an operation that applyVirtualOperation or    *)
(* normalizeOperation refuses: GenerateOperations has no way to fail with  *)
(* a planned operation.                                                    *)
(***************************************************************************)
THEOREM MutationNeverContradicts == Spec => []NeverContradicts
<1>1. MutationInv => NeverContradicts
  BY DEF MutationInv
<1> QED BY <1>1, MutationInvHolds, PTL

-----------------------------------------------------------------------------
(* The virtual tree and the disk, side by side *)

(* What scanMutationState sees. *)
Seen(t) == {q \in DOMAIN t : t[q].kind \in {"file", "dir", "symlink"}}

(* The virtual tree v has the names and kinds of the disk t. *)
Tracks(v, t) == DOMAIN v = Seen(t) /\ \A p \in DOMAIN v : v[p].kind = t[p].kind

(* p is the only name of its inode. *)
Sole(t, p) == \A q \in DOMAIN t : t[q].id = t[p].id => q = p

(* What has one name only is as the virtual tree predicts. *)
SoleExact(v, t, g) == \A p \in DOMAIN v : Sole(t, p) => Predicts(v[p], t[p], p, g)

(* No file has several names; no symlink is about. *)
AllSole(t) == \A p \in DOMAIN t : Sole(t, p)

NoSymlink(t) == \A p \in DOMAIN t : t[p].kind # "symlink"

(* scanMutationState sees files, directories and symlinks. *)
LEMMA SeenIs == ASSUME NEW t PROVE DOMAIN scanMutationState(t) = Seen(t)
BY DEF scanMutationState, Seen

(* A new name with an inode of its own. *)
LEMMA CreateTracks ==
  ASSUME NEW g, NEW v, NEW t, DOMAIN v \subseteq DOMAIN t, Tracks(v, t), NEW p, p \notin DOMAIN t,
         NEW vnode, NEW node, vnode.kind = node.kind,
         node.kind \in {"file", "dir", "symlink"},
         \A q \in DOMAIN t : t[q].id # node.id, Predicts(vnode, node, p, g)
  PROVE  /\ Tracks(Put(v, p, vnode), Put(t, p, node))
         /\ SoleExact(v, t, g) => SoleExact(Put(v, p, vnode), Put(t, p, node), g)
         /\ AllSole(t) => AllSole(Put(t, p, node))
         /\ NoSymlink(t) /\ node.kind # "symlink" => NoSymlink(Put(t, p, node))
<1> DEFINE w == Put(v, p, vnode)
           u == Put(t, p, node)
<1>1. /\ DOMAIN w = DOMAIN v \cup {p} /\ DOMAIN u = DOMAIN t \cup {p}
      /\ w[p] = vnode /\ u[p] = node
      /\ \A q \in DOMAIN v : w[q] = v[q]
      /\ \A q \in DOMAIN t : u[q] = t[q]
  BY DEF Put
<1> HIDE DEF w, u
<1>2. Tracks(w, u)
  BY <1>1 DEF Tracks, Seen
<1>3. ASSUME NEW q \in DOMAIN t, Sole(u, q) PROVE Sole(t, q)
  BY <1>1, <1>3 DEF Sole
<1>4. SoleExact(v, t, g) => SoleExact(w, u, g)
  BY <1>1, <1>3 DEF SoleExact
<1>5. AllSole(t) => AllSole(u)
  BY <1>1 DEF AllSole, Sole
<1>6. NoSymlink(t) /\ node.kind # "symlink" => NoSymlink(u)
  BY <1>1 DEF NoSymlink
<1> QED BY <1>2, <1>4, <1>5, <1>6 DEF w, u

(* A further name of a file. *)
LEMMA LinkTracks ==
  ASSUME NEW v, NEW t, DOMAIN v \subseteq DOMAIN t, Tracks(v, t), NEW p, p \notin DOMAIN t,
         NEW to \in DOMAIN v
  PROVE  /\ Tracks(Put(v, p, v[to]), Put(t, p, t[to]))
         /\ NoSymlink(t) => NoSymlink(Put(t, p, t[to]))
<1> DEFINE w == Put(v, p, v[to])
           u == Put(t, p, t[to])
<1>1. /\ DOMAIN w = DOMAIN v \cup {p} /\ DOMAIN u = DOMAIN t \cup {p}
      /\ w[p] = v[to] /\ u[p] = t[to]
      /\ \A q \in DOMAIN v : w[q] = v[q]
      /\ \A q \in DOMAIN t : u[q] = t[q]
  BY DEF Put
<1> HIDE DEF w, u
<1>2. Tracks(w, u)
  BY <1>1 DEF Tracks, Seen
<1>3. NoSymlink(t) => NoSymlink(u)
  BY <1>1 DEF NoSymlink
<1> QED BY <1>2, <1>3 DEF w, u

(* Names go. *)
LEMMA DeleteTracks ==
  ASSUME NEW g, NEW v, NEW t, Tracks(v, t), NEW p
  PROVE  /\ Tracks(Without(v, Subtree(v, p)), Without(t, Subtree(t, p)))
         /\ AllSole(t) => AllSole(Without(t, Subtree(t, p)))
         /\ SoleExact(v, t, g) /\ AllSole(t) =>
              SoleExact(Without(v, Subtree(v, p)), Without(t, Subtree(t, p)), g)
         /\ NoSymlink(t) => NoSymlink(Without(t, Subtree(t, p)))
<1> DEFINE w == Without(v, Subtree(v, p))
           u == Without(t, Subtree(t, p))
<1>1. /\ DOMAIN w = DOMAIN v \ Subtree(v, p) /\ DOMAIN u = DOMAIN t \ Subtree(t, p)
      /\ \A q \in DOMAIN w : w[q] = v[q]
      /\ \A q \in DOMAIN u : u[q] = t[q]
  BY DEF Without, Restrict
<1>2. Subtree(v, p) = Subtree(t, p) \cap DOMAIN v
  BY DEF Subtree, Tracks, Seen
<1> HIDE DEF w, u
<1>3. Tracks(w, u)
  BY <1>1, <1>2 DEF Tracks, Seen
<1>4. AllSole(t) => AllSole(u)
  BY <1>1 DEF AllSole, Sole
<1>5. SoleExact(v, t, g) /\ AllSole(t) => SoleExact(w, u, g)
  BY <1>1, <1>2, <1>3 DEF SoleExact, AllSole, Tracks, Seen
<1>6. NoSymlink(t) => NoSymlink(u)
  BY <1>1 DEF NoSymlink
<1> QED BY <1>3, <1>4, <1>5, <1>6 DEF w, u

(* The checks of the virtual tree hold of the disk as well. *)
LEMMA TrackedFacts ==
  ASSUME NEW v, IsVirtual(v), NEW t, IsDisk(t), Tracks(v, t)
  PROVE  /\ DOMAIN v \subseteq DOMAIN t /\ DOMAIN t \subseteq Path
         /\ \A q, kind : IsKind(v, q, kind) => IsKind(t, q, kind)
         /\ \A q : ensureNoSymlinkParents(v, q) => ensureNoSymlinkParents(t, q)
<1>1. DOMAIN v \subseteq DOMAIN t /\ DOMAIN t \subseteq Path
  BY DEF IsDisk, Tracks, Seen
<1>2. ASSUME NEW q, NEW kind, IsKind(v, q, kind) PROVE IsKind(t, q, kind)
  BY <1>1, <1>2 DEF IsKind, Tracks
<1>3. ASSUME NEW q, ensureNoSymlinkParents(v, q) PROVE ensureNoSymlinkParents(t, q)
  BY <1>2, <1>3 DEF ensureNoSymlinkParents
<1> QED BY <1>1, <1>2, <1>3

(* A prediction does not depend on the name, except for the root. *)
LEMMA PredictsMoved ==
  ASSUME NEW g, NEW v, NEW n, NEW p, NEW q, p # Root, q # Root, Predicts(v, n, p, g)
  PROVE  Predicts(v, n, q, g)
BY DEF Predicts

(* u is t with the names of the subtree at `from` moved to `to`. *)
Relocates(t, u, from, to) ==
  /\ DOMAIN u = (DOMAIN t \ Subtree(t, from)) \cup Arriving(t, from, to)
  /\ \A q \in Arriving(t, from, to) : q \notin DOMAIN t
  /\ \A q \in DOMAIN t \ Subtree(t, from) : u[q] = t[q]
  /\ \A r \in Subtree(t, from) :
       /\ u[Moved(r, from, to)] = t[r]
       /\ Moved(Moved(r, from, to), to, from) = r

(* That is what renameVirtualPath and os.Rename do. *)
LEMMA MoveRelocates ==
  ASSUME NEW t, NEW from, NEW to \in Path,
         /\ DOMAIN t \subseteq Path /\ Shaped(t) /\ from \in DOMAIN t /\ to \notin DOMAIN t
         /\ ensureNoSymlinkParents(t, to)
         /\ t[from].kind = "dir" => ~ isChildMutationPath(to, from)
  PROVE  Relocates(t, Move(t, from, to), from, to)
<1>1. /\ DOMAIN Move(t, from, to)
           = (DOMAIN t \ Subtree(t, from)) \cup Arriving(t, from, to)
      /\ Arriving(t, from, to) \subseteq Path
      /\ \A q \in Arriving(t, from, to) : Starts(q, to) /\ q \notin DOMAIN t
      /\ \A q \in DOMAIN t \ Subtree(t, from) : Move(t, from, to)[q] = t[q]
      /\ \A r \in Subtree(t, from) :
           /\ Move(t, from, to)[Moved(r, from, to)] = t[r]
           /\ Moved(Moved(r, from, to), to, from) = r
  BY MoveFacts
<1> QED BY <1>1 DEF Relocates

(* Names change. *)
LEMMA RenameTracks ==
  ASSUME NEW g, NEW v, IsVirtual(v), NEW t, IsDisk(t), Tracks(v, t),
         NEW from \in DOMAIN v, from # Root, NEW to \in Path, to # Root,
         to \notin DOMAIN t,
         ensureNoSymlinkParents(v, to),
         t[from].kind = "dir" => ~ isChildMutationPath(to, from)
  PROVE  /\ Tracks(Move(v, from, to), Move(t, from, to))
         /\ AllSole(t) => AllSole(Move(t, from, to))
         /\ SoleExact(v, t, g) => SoleExact(Move(v, from, to), Move(t, from, to), g)
         /\ NoSymlink(t) => NoSymlink(Move(t, from, to))
<1>1. /\ DOMAIN v \subseteq DOMAIN t /\ DOMAIN t \subseteq Path /\ Shaped(t) /\ Shaped(v)
      /\ ensureNoSymlinkParents(t, to)
      /\ v[from].kind = t[from].kind /\ from \in DOMAIN t /\ to \notin DOMAIN v
  BY TrackedFacts DEF IsDisk, IsVirtual, Tracks
<1>v. /\ DOMAIN v \subseteq Path /\ Shaped(v) /\ from \in DOMAIN v /\ to \notin DOMAIN v
      /\ ensureNoSymlinkParents(v, to)
      /\ v[from].kind = "dir" => ~ isChildMutationPath(to, from)
  BY <1>1
<1>t. /\ DOMAIN t \subseteq Path /\ Shaped(t) /\ from \in DOMAIN t /\ to \notin DOMAIN t
      /\ ensureNoSymlinkParents(t, to)
      /\ t[from].kind = "dir" => ~ isChildMutationPath(to, from)
  BY <1>1
<1>2. Relocates(t, Move(t, from, to), from, to)
  BY <1>t, MoveRelocates
<1>3. Relocates(v, Move(v, from, to), from, to)
  BY <1>v, MoveRelocates
<1> DEFINE w == Move(v, from, to)
           u == Move(t, from, to)
           SV == Subtree(v, from)
           ST == Subtree(t, from)
           new(r) == Moved(r, from, to)
<1>4. /\ \A q \in Arriving(v, from, to) : \E r \in SV : q = new(r)
      /\ \A q \in Arriving(t, from, to) : \E r \in ST : q = new(r)
      /\ \A r \in SV : new(r) \in Arriving(v, from, to)
      /\ \A r \in ST : new(r) \in Arriving(t, from, to)
  BY DEF Arriving
<1>5. SV = ST \cap DOMAIN v /\ ST \subseteq DOMAIN t
  BY DEF Subtree, Tracks, Seen
<1>6. \A q \in Arriving(t, from, to) : q # Root
  BY <1>1, <1>2 DEF Shaped, IsKind, Relocates
<1>7. \A r \in ST : r # Root
  <2>1. ST = {q \in DOMAIN t : Starts(q, from)}
    BY <1>1, SubtreeStarts
  <2> QED BY <1>1, <2>1, RootPath, OnlyRootEmpty, PathLength DEF Starts
<1> HIDE DEF w, u, SV, ST, new
<1>8. /\ DOMAIN u = (DOMAIN t \ ST) \cup {new(r) : r \in ST}
      /\ DOMAIN w = (DOMAIN v \ SV) \cup {new(r) : r \in SV}
      /\ \A r \in ST : new(r) \notin DOMAIN t /\ u[new(r)] = t[r] /\ new(r) # Root
      /\ \A q \in DOMAIN t \ ST : u[q] = t[q]
      /\ \A r \in SV : w[new(r)] = v[r]
      /\ \A q \in DOMAIN v \ SV : w[q] = v[q]
      /\ \A r, s \in ST : new(r) = new(s) => r = s
  BY <1>2, <1>3, <1>4, <1>5, <1>6 DEF w, u, SV, ST, new, Relocates
<1>9. Tracks(w, u)
  <2>1. \A q \in DOMAIN t : q \in DOMAIN v <=> t[q].kind \in {"file", "dir", "symlink"}
    BY DEF Tracks, Seen
  <2>2. \A q \in DOMAIN u : q \in DOMAIN w <=> u[q].kind \in {"file", "dir", "symlink"}
    BY <1>1, <1>5, <1>8, <2>1
  <2>3. DOMAIN w \subseteq DOMAIN u
    BY <1>1, <1>5, <1>8
  <2>4. \A q \in DOMAIN w : w[q].kind = u[q].kind
    BY <1>1, <1>5, <1>8 DEF Tracks
  <2> QED BY <2>2, <2>3, <2>4 DEF Tracks, Seen
<1>10. ASSUME NEW r \in ST, Sole(u, new(r)) PROVE Sole(t, r)
  <2> SUFFICES ASSUME NEW q \in DOMAIN t, t[q].id = t[r].id PROVE q = r
    BY DEF Sole
  <2>1. CASE q \in ST
    BY <1>8, <1>10, <2>1 DEF Sole
  <2>2. CASE q \notin ST
    BY <1>5, <1>8, <1>10, <2>2 DEF Sole
  <2> QED BY <2>1, <2>2
<1>11. ASSUME NEW p \in DOMAIN t \ ST, Sole(u, p) PROVE Sole(t, p)
  <2> SUFFICES ASSUME NEW q \in DOMAIN t, t[q].id = t[p].id PROVE q = p
    BY DEF Sole
  <2>1. CASE q \in ST
    BY <1>8, <1>11, <2>1 DEF Sole
  <2>2. CASE q \notin ST
    BY <1>5, <1>8, <1>11, <2>2 DEF Sole
  <2> QED BY <2>1, <2>2
<1>12. ASSUME AllSole(t) PROVE AllSole(u)
  BY <1>5, <1>8, <1>12 DEF AllSole, Sole
<1>13. ASSUME SoleExact(v, t, g) PROVE SoleExact(w, u, g)
  <2> SUFFICES ASSUME NEW p \in DOMAIN w, Sole(u, p) PROVE Predicts(w[p], u[p], p, g)
    BY DEF SoleExact
  <2>1. CASE p \in DOMAIN v \ SV
    <3>1. p \in DOMAIN t \ ST /\ w[p] = v[p] /\ u[p] = t[p]
      BY <1>1, <1>5, <1>8, <2>1
    <3> QED BY <1>11, <1>13, <2>1, <3>1 DEF SoleExact
  <2>2. ASSUME NEW r \in SV, p = new(r) PROVE Predicts(w[p], u[p], p, g)
    <3>1. r \in ST /\ r \in DOMAIN v /\ w[p] = v[r] /\ u[p] = t[r] /\ p # Root /\ r # Root
      BY <1>5, <1>7, <1>8, <2>2
    <3>2. Predicts(v[r], t[r], r, g)
      BY <1>10, <1>13, <2>2, <3>1 DEF SoleExact
    <3> QED BY <3>1, <3>2, PredictsMoved
  <2> QED BY <1>8, <2>1, <2>2
<1>14. NoSymlink(t) => NoSymlink(u)
  BY <1>5, <1>8 DEF NoSymlink
<1> QED BY <1>9, <1>12, <1>13, <1>14 DEF w, u

(* What an operation makes of a node that is as predicted. *)
LEMMA PredictsChanged ==
  ASSUME NEW g, NEW v \in VirtualNode, NEW n \in DiskNode, NEW p, Predicts(v, n, p, g),
         NEW op \in Operation
  PROVE  Predicts(Changed(v, op), Changed(n, op), p, g)
<1>1. /\ op.n \in Int /\ op.off \in Int /\ v.size \in Int /\ n.size \in Int
      /\ v.size <= n.size /\ (~ g => v.size = n.size)
  BY DEF Operation, VirtualNode, DiskNode, Predicts
<1>2. ASSUME NEW x, NEW y, x <= y, ~ g => x = y
      PROVE  Predicts([v EXCEPT !.size = x], [n EXCEPT !.size = y], p, g)
  BY <1>2 DEF Predicts, VirtualNode, DiskNode
<1>3. ASSUME NEW x, NEW y, x \subseteq y,
             y \subseteq x \cup (IF p = Root THEN job.baseline[Root].xattrs ELSE {})
      PROVE  Predicts([v EXCEPT !.xattrs = x], [n EXCEPT !.xattrs = y], p, g)
  BY <1>3 DEF Predicts, VirtualNode, DiskNode
<1>4. CASE op.kind = "truncate"
  <2>1. /\ Changed(v, op) = [v EXCEPT !.size = op.n]
        /\ Changed(n, op) = [n EXCEPT !.size = op.n]
    BY <1>4 DEF Changed
  <2>2. op.n <= op.n
    BY <1>1
  <2> QED BY <1>2, <2>1, <2>2
<1>5. CASE op.kind = "append"
  <2> DEFINE x == v.size + op.n
             y == n.size + op.n
  <2>1. Changed(v, op) = [v EXCEPT !.size = x] /\ Changed(n, op) = [n EXCEPT !.size = y]
    BY <1>5 DEF Changed
  <2>2. x <= y /\ (~ g => x = y)
    BY <1>1
  <2> HIDE DEF x, y
  <2> QED BY <1>2, <2>1, <2>2
<1>6. CASE op.kind = "overwrite-range"
  <2> DEFINE x == MaxOf(v.size, op.off + op.n)
             y == MaxOf(n.size, op.off + op.n)
  <2>1. Changed(v, op) = [v EXCEPT !.size = x] /\ Changed(n, op) = [n EXCEPT !.size = y]
    BY <1>6 DEF Changed
  <2>2. x <= y /\ (~ g => x = y)
    BY <1>1 DEF MaxOf
  <2> HIDE DEF x, y
  <2> QED BY <1>2, <2>1, <2>2
<1>7. CASE op.kind = "set-xattr"
  <2> DEFINE x == v.xattrs \cup {op.name}
             y == n.xattrs \cup {op.name}
  <2>1. Changed(v, op) = [v EXCEPT !.xattrs = x] /\ Changed(n, op) = [n EXCEPT !.xattrs = y]
    BY <1>7 DEF Changed
  <2>2. x \subseteq y /\ y \subseteq x \cup (IF p = Root THEN job.baseline[Root].xattrs ELSE {})
    BY DEF Predicts
  <2> HIDE DEF x, y
  <2> QED BY <1>3, <2>1, <2>2
<1>8. CASE op.kind = "remove-xattr"
  <2> DEFINE x == v.xattrs \ {op.name}
             y == n.xattrs \ {op.name}
  <2>1. Changed(v, op) = [v EXCEPT !.xattrs = x] /\ Changed(n, op) = [n EXCEPT !.xattrs = y]
    BY <1>8 DEF Changed
  <2>2. x \subseteq y /\ y \subseteq x \cup (IF p = Root THEN job.baseline[Root].xattrs ELSE {})
    BY DEF Predicts
  <2> HIDE DEF x, y
  <2> QED BY <1>3, <2>1, <2>2
<1>9. CASE op.kind \notin {"truncate", "append", "overwrite-range", "set-xattr", "remove-xattr"}
  BY <1>9 DEF Changed
<1> QED BY <1>4, <1>5, <1>6, <1>7, <1>8, <1>9

(* An inode changes. *)
LEMMA ChangeTracks ==
  ASSUME NEW g, NEW v, IsVirtual(v), NEW t, IsDisk(t), Tracks(v, t), NEW p \in DOMAIN v,
         NEW op \in Operation
  PROVE  LET w == Put(v, p, Changed(v[p], op))
             u == PutInode(t, p, Changed(t[p], op))
         IN  /\ Tracks(w, u)
             /\ AllSole(t) => AllSole(u)
             /\ SoleExact(v, t, g) => SoleExact(w, u, g)
             /\ NoSymlink(t) => NoSymlink(u)
<1> DEFINE vnode == Changed(v[p], op)
           node == Changed(t[p], op)
           w == Put(v, p, vnode)
           u == PutInode(t, p, node)
<1>1. p \in DOMAIN t /\ DOMAIN v \subseteq DOMAIN t
  BY TrackedFacts
<1>2. v[p] \in VirtualNode /\ t[p] \in DiskNode
  BY <1>1 DEF IsVirtual, IsDisk
<1>3. vnode.kind = v[p].kind /\ node.kind = t[p].kind /\ node.id = t[p].id
  BY <1>2, ChangedType, VirtualChangedType
<1>4. Predicts(v[p], t[p], p, g) => Predicts(vnode, node, p, g)
  BY <1>2, PredictsChanged
<1> HIDE DEF vnode, node
<1>5. /\ DOMAIN w = DOMAIN v /\ DOMAIN u = DOMAIN t /\ w[p] = vnode /\ u[p] = node
      /\ \A q \in DOMAIN v : q # p => w[q] = v[q]
      /\ \A q \in DOMAIN t : t[q].id # t[p].id => u[q] = t[q]
      /\ \A q \in DOMAIN t : t[q].id = t[p].id => u[q] = node
  BY <1>1 DEF Put, PutInode
<1>6. \A q \in DOMAIN t : t[q].id = t[p].id => t[q].kind = t[p].kind
  BY <1>1 DEF IsDisk, IdsSound
<1> HIDE DEF w, u
<1>7. \A q \in DOMAIN t : u[q].id = t[q].id /\ u[q].kind = t[q].kind
  BY <1>3, <1>5, <1>6
<1>8. Tracks(w, u)
  BY <1>1, <1>3, <1>5, <1>7 DEF Tracks, Seen
<1>9. \A q \in DOMAIN t : Sole(u, q) => Sole(t, q)
  BY <1>5, <1>7 DEF Sole
<1>10. AllSole(t) => AllSole(u)
  BY <1>5, <1>7 DEF AllSole, Sole
<1>11. ASSUME SoleExact(v, t, g) PROVE SoleExact(w, u, g)
  <2> SUFFICES ASSUME NEW q \in DOMAIN w, Sole(u, q) PROVE Predicts(w[q], u[q], q, g)
    BY DEF SoleExact
  <2>1. q \in DOMAIN v /\ q \in DOMAIN t /\ Sole(t, q)
    BY <1>1, <1>5, <1>9
  <2>2. Predicts(v[q], t[q], q, g)
    BY <1>11, <2>1 DEF SoleExact
  <2>3. CASE q = p
    BY <1>4, <1>5, <2>2, <2>3
  <2>4. CASE q # p
    <3>1. t[q].id # t[p].id
      BY <1>1, <2>1, <2>4 DEF Sole
    <3> QED BY <1>5, <2>1, <2>2, <2>4, <3>1
  <2> QED BY <2>3, <2>4
<1>12. NoSymlink(t) => NoSymlink(u)
  BY <1>5, <1>7 DEF NoSymlink
<1> QED BY <1>8, <1>10, <1>11, <1>12 DEF w, u, vnode, node

(* Both trees take an operation that both accept: what they agreed on they *)
(* agree on afterwards.                                                    *)
LEMMA OperationTracks ==
  ASSUME NEW g, NEW v, IsVirtual(v), NEW t, IsDisk(t), Tracks(v, t),
         NEW op \in Operation, normalizeOperation(op), VirtualAccepts(v, op), Accepts(t, op)
  PROVE  LET w == applyVirtualOperation(v, op)
             u == applyOperation(t, op)
         IN  /\ Tracks(w, u)
             /\ AllSole(t) /\ op.kind # "create-hardlink" => AllSole(u)
             /\ SoleExact(v, t, g) /\ op.kind # "create-hardlink"
                  /\ (op.kind = "delete" => AllSole(t)) => SoleExact(w, u, g)
             /\ NoSymlink(t) /\ op.kind # "create-symlink" => NoSymlink(u)
<1>1. /\ op.kind \in OpKinds /\ op.n \in Int /\ op.path \in Path /\ op.to \in Path
      /\ DOMAIN v \subseteq DOMAIN t
  BY TrackedFacts DEF Operation
<1>2. CASE op.kind = "create-hardlink"
  <2>1. /\ applyOperation(t, op) = Put(t, op.path, t[op.to])
        /\ applyVirtualOperation(v, op) = Put(v, op.path, v[op.to])
    BY <1>2 DEF applyOperation, applyVirtualOperation
  <2>2. op.path \notin DOMAIN t /\ op.to \in DOMAIN v
    BY <1>2 DEF Accepts, VirtualAccepts, IsKind, Creations
  <2>3. /\ Tracks(Put(v, op.path, v[op.to]), Put(t, op.path, t[op.to]))
        /\ NoSymlink(t) => NoSymlink(Put(t, op.path, t[op.to]))
    BY <1>1, <2>2, LinkTracks
  <2> QED BY <1>2, <2>1, <2>3
<1>3. CASE op.kind \in Creations \ {"create-hardlink"}
  <2> DEFINE node == NewNode(t, op, op.n)
             vnode == [kind |-> MadeKind(op), size |-> op.n, xattrs |-> {}]
  <2>1. /\ applyOperation(t, op) = Put(t, op.path, node)
        /\ applyVirtualOperation(v, op) = Put(v, op.path, vnode)
    BY <1>3 DEF applyOperation, applyVirtualOperation, Creations
  <2>2. op.path \notin DOMAIN t
    BY <1>3 DEF Accepts
  <2>3. \A q \in DOMAIN t : t[q].id # node.id
    BY <1>1, NewNodeType
  <2>4. /\ vnode.kind = node.kind /\ node.kind \in {"file", "dir", "symlink"}
        /\ op.kind # "create-symlink" => node.kind # "symlink"
    BY DEF NewNode, MadeKind
  <2>5. Predicts(vnode, node, op.path, g)
    BY <1>1 DEF NewNode, Predicts
  <2> HIDE DEF node, vnode
  <2>6. /\ Tracks(Put(v, op.path, vnode), Put(t, op.path, node))
        /\ SoleExact(v, t, g) => SoleExact(Put(v, op.path, vnode), Put(t, op.path, node), g)
        /\ AllSole(t) => AllSole(Put(t, op.path, node))
        /\ NoSymlink(t) /\ node.kind # "symlink" => NoSymlink(Put(t, op.path, node))
    BY <1>1, <2>2, <2>3, <2>4, <2>5, CreateTracks
  <2> QED BY <2>1, <2>4, <2>6
<1>4. CASE op.kind = "delete"
  <2>1. /\ applyOperation(t, op) = Without(t, Subtree(t, op.path))
        /\ applyVirtualOperation(v, op) = Without(v, Subtree(v, op.path))
    BY <1>4 DEF applyOperation, applyVirtualOperation, Creations
  <2> QED BY <1>4, <2>1, DeleteTracks
<1>5. CASE op.kind = "rename"
  <2>1. /\ applyOperation(t, op) = Move(t, op.path, op.to)
        /\ applyVirtualOperation(v, op) = Move(v, op.path, op.to)
    BY <1>5 DEF applyOperation, applyVirtualOperation, Creations
  <2>2. /\ op.path \in DOMAIN v /\ op.path # Root /\ op.to # Root /\ op.to \notin DOMAIN t
        /\ hasParentDirectory(v, op.to)
        /\ t[op.path].kind = "dir" => ~ isChildMutationPath(op.to, op.path)
    BY <1>5 DEF normalizeOperation, Accepts, VirtualAccepts, Creations, OnAnyPath
  <2>3. ensureNoSymlinkParents(v, op.to)
    BY <1>1, <2>2, ParentSuffices
  <2>4. /\ Tracks(Move(v, op.path, op.to), Move(t, op.path, op.to))
        /\ AllSole(t) => AllSole(Move(t, op.path, op.to))
        /\ SoleExact(v, t, g) => SoleExact(Move(v, op.path, op.to), Move(t, op.path, op.to), g)
        /\ NoSymlink(t) => NoSymlink(Move(t, op.path, op.to))
    BY <1>1, <2>2, <2>3, RenameTracks
  <2> QED BY <2>1, <2>4
<1>6. CASE op.kind \in Contents \cup OnAnyPath
  <2>1. /\ applyOperation(t, op) = PutInode(t, op.path, Changed(t[op.path], op))
        /\ applyVirtualOperation(v, op) = Put(v, op.path, Changed(v[op.path], op))
    BY <1>6 DEF applyOperation, applyVirtualOperation, Creations, Contents, OnAnyPath
  <2>2. op.path \in DOMAIN v
    BY <1>6 DEF VirtualAccepts, Creations, Contents, OnAnyPath
  <2> QED BY <2>1, <2>2, ChangeTracks
<1> QED BY <1>1, <1>2, <1>3, <1>4, <1>5, <1>6 DEF OpKinds

-----------------------------------------------------------------------------
(* An operation that is repeated after an I/O error *)

(* What appending some data twice makes of a tree. *)
Longer(t, u) ==
  /\ DOMAIN u = DOMAIN t
  /\ \A p \in DOMAIN t :
       /\ u[p].kind = t[p].kind /\ u[p].id = t[p].id /\ u[p].xattrs = t[p].xattrs
       /\ t[p].size <= u[p].size

(* Part of the data is in the file already. *)
LEMMA DataRepeats ==
  ASSUME NEW t, IsDisk(t), NEW op \in Operation, op.path \in DOMAIN t,
         op.kind \in {"append", "overwrite-range"}, NEW m \in 1 .. op.n
  PROVE  LET part == PutInode(t, op.path, Changed(t[op.path], [op EXCEPT !.n = m]))
             whole(u) == PutInode(u, op.path, Changed(u[op.path], op))
         IN  /\ DOMAIN part = DOMAIN t
             /\ \A q \in DOMAIN t : part[q].kind = t[q].kind
             /\ t[op.path].size <= part[op.path].size
             /\ op.kind = "overwrite-range" => whole(part) = whole(t)
             /\ op.kind = "append" => Longer(whole(t), whole(part))
<1> DEFINE p == op.path
           some == [op EXCEPT !.n = m]
           half == Changed(t[p], some)
           part == PutInode(t, p, half)
           full == Changed(t[p], op)
           again == Changed(half, op)
<1>1. /\ t[p] \in DiskNode /\ op.n \in Int /\ op.off \in Int /\ m \in Int /\ 0 < m /\ m <= op.n
      /\ t[p].size \in Int
  BY DEF IsDisk, Operation, DiskNode
<1>2. /\ some \in Operation /\ some.n = m /\ some.kind = op.kind /\ some.off = op.off
  BY <1>1 DEF Operation
<1> HIDE DEF some
<1>3. /\ half \in DiskNode /\ half.kind = t[p].kind /\ half.id = t[p].id
      /\ full \in DiskNode /\ full.kind = t[p].kind /\ full.id = t[p].id
  BY <1>1, <1>2, ChangedType
<1>4. again \in DiskNode /\ again.kind = half.kind /\ again.id = half.id
  BY <1>3, ChangedType
<1>5. /\ t[p].size <= half.size
      /\ again.xattrs = full.xattrs /\ full.size <= again.size
      /\ op.kind = "overwrite-range" => again = full
  <2> DEFINE node == t[p]
  <2>1. CASE op.kind = "append"
    <3>1. half = [node EXCEPT !.size = node.size + m] /\ full = [node EXCEPT !.size = node.size + op.n]
      BY <1>2, <2>1 DEF Changed
    <3>2. half.size = node.size + m /\ half.xattrs = node.xattrs
          /\ full.size = node.size + op.n /\ full.xattrs = node.xattrs
      BY <1>1, <3>1 DEF DiskNode
    <3>3. again = [half EXCEPT !.size = half.size + op.n]
      BY <2>1 DEF Changed
    <3>4. again.size = half.size + op.n /\ again.xattrs = half.xattrs
      BY <1>3, <3>3 DEF DiskNode
    <3> QED BY <1>1, <2>1, <3>2, <3>4
  <2>2. CASE op.kind = "overwrite-range"
    <3>1. /\ half = [node EXCEPT !.size = MaxOf(node.size, op.off + m)]
          /\ full = [node EXCEPT !.size = MaxOf(node.size, op.off + op.n)]
      BY <1>2, <2>2 DEF Changed
    <3>2. half.size = MaxOf(node.size, op.off + m) /\ half.xattrs = node.xattrs
          /\ full.size = MaxOf(node.size, op.off + op.n) /\ full.xattrs = node.xattrs
      BY <1>1, <3>1 DEF DiskNode
    <3>3. again = [half EXCEPT !.size = MaxOf(half.size, op.off + op.n)]
      BY <2>2 DEF Changed
    <3>4. again.size = MaxOf(half.size, op.off + op.n) /\ again.xattrs = half.xattrs
      BY <1>3, <3>3 DEF DiskNode
    <3>5. node.size <= half.size /\ again.size = full.size
      BY <1>1, <3>2, <3>4 DEF MaxOf
    <3>6. full.size \in Int
      BY <1>3 DEF DiskNode
    <3>7. again = full
      BY <1>3, <1>4, <3>2, <3>4, <3>5 DEF DiskNode
    <3> QED BY <3>5, <3>6, <3>7
  <2> QED BY <2>1, <2>2
<1> HIDE DEF half, full, again
<1>6. part = [q \in DOMAIN t |-> IF t[q].id = t[p].id THEN half ELSE t[q]]
  BY DEF PutInode
<1>7. \A q \in DOMAIN t : t[q].id = t[p].id => t[q].kind = t[p].kind
  BY DEF IsDisk, IdsSound
<1> HIDE DEF part
<1>8. /\ DOMAIN part = DOMAIN t /\ part[p] = half
      /\ \A q \in DOMAIN t : part[q].kind = t[q].kind /\ part[q].id = t[q].id
      /\ \A q \in DOMAIN t : t[q].id # t[p].id => part[q] = t[q]
  BY <1>3, <1>6, <1>7
<1>9. /\ PutInode(t, p, full) = [q \in DOMAIN t |-> IF t[q].id = t[p].id THEN full ELSE t[q]]
      /\ PutInode(part, p, again)
           = [q \in DOMAIN t |-> IF t[q].id = t[p].id THEN again ELSE t[q]]
  BY <1>8 DEF PutInode
<1>10. op.kind = "overwrite-range" => PutInode(part, p, again) = PutInode(t, p, full)
  BY <1>5, <1>9
<1>11. Longer(PutInode(t, p, full), PutInode(part, p, again))
  <2>1. \A q \in DOMAIN t : t[q].size \in Int
    BY DEF IsDisk, DiskNode
  <2> QED BY <1>3, <1>4, <1>5, <1>9, <2>1 DEF Longer
<1> QED BY <1>5, <1>8, <1>10, <1>11 DEF part, half, full, again, some

(***************************************************************************)
(* What an I/O error leaves of an operation lets it pass again, unless it  *)
(* makes a file.  An overwrite or a delete that is repeated ends where it  *)
(* would have ended at once, an append leaves a longer file.               *)
(***************************************************************************)
LEMMA TornRepeats ==
  ASSUME NEW t, IsDisk(t), NEW op \in Operation, normalizeOperation(op), Accepts(t, op),
         NEW u \in Torn(t, op), u # t
  PROVE  /\ op.kind \in {"create-file", "append", "overwrite-range", "delete"}
         /\ op.path \in DOMAIN u
         /\ op.kind # "create-file" => Accepts(u, op)
         /\ op.kind \in {"overwrite-range", "delete"} =>
              applyOperation(u, op) = applyOperation(t, op)
         /\ op.kind = "append" => Longer(applyOperation(t, op), applyOperation(u, op))
<1>2. op.kind \in {"create-file", "append", "overwrite-range", "delete"}
  BY DEF Torn
<1>3. CASE op.kind = "create-file"
  <2>1. PICK m \in 0 .. op.n : u = Put(t, op.path, NewNode(t, op, m))
    BY <1>3 DEF Torn
  <2> QED BY <1>3, <2>1 DEF Put
<1>4. CASE op.kind \in {"append", "overwrite-range"}
  <2>1. PICK m \in 1 .. op.n : u = PutInode(t, op.path, Changed(t[op.path], [op EXCEPT !.n = m]))
    BY <1>4 DEF Torn
  <2>2. /\ op.path \in DOMAIN t /\ t[op.path].kind = "file" /\ ensureNoSymlinkParents(t, op.path)
        /\ op.kind = "overwrite-range" => op.off <= t[op.path].size
    BY <1>4 DEF Accepts, Creations, Contents
  <2> DEFINE whole(x) == PutInode(x, op.path, Changed(x[op.path], op))
  <2>3. /\ DOMAIN u = DOMAIN t
        /\ \A q \in DOMAIN t : u[q].kind = t[q].kind
        /\ t[op.path].size <= u[op.path].size
        /\ op.kind = "overwrite-range" => whole(u) = whole(t)
        /\ op.kind = "append" => Longer(whole(t), whole(u))
    BY <1>4, <2>1, <2>2, DataRepeats
  <2>4. applyOperation(u, op) = whole(u) /\ applyOperation(t, op) = whole(t)
    BY <1>4 DEF applyOperation, Creations
  <2> HIDE DEF whole
  <2>5. ensureNoSymlinkParents(u, op.path)
    BY <2>2, <2>3 DEF ensureNoSymlinkParents, IsKind
  <2>6. op.kind = "overwrite-range" => op.off <= u[op.path].size
    <3>1. op.off \in Int /\ t[op.path].size \in Int /\ u[op.path].size \in Int
      <4>1. IsDisk(u)
        BY TornOperation
      <4> QED BY <2>2, <2>3, <4>1 DEF IsDisk, DiskNode, Operation
    <3> QED BY <2>2, <2>3, <3>1
  <2>7. Accepts(u, op)
    BY <1>4, <2>2, <2>3, <2>5, <2>6 DEF Accepts, Creations, Contents
  <2> QED BY <1>4, <2>2, <2>3, <2>4, <2>7
<1>5. CASE op.kind = "delete"
  <2>1. PICK S \in SUBSET (Subtree(t, op.path) \ {op.path}) : u = Without(t, S)
    BY <1>5 DEF Torn
  <2>2. /\ DOMAIN u = DOMAIN t \ S /\ \A q \in DOMAIN u : u[q] = t[q]
    BY <2>1 DEF Without, Restrict
  <2>3. op.path \in DOMAIN t
    BY <1>5 DEF Accepts, Creations
  <2>4. op.path \in DOMAIN u
    BY <2>1, <2>2, <2>3
  <2>5. IsDisk(u)
    BY TornOperation
  <2>6. Accepts(u, op)
    BY <1>5, <2>4, <2>5 DEF Accepts, Creations, Contents, IsDisk, Shaped
  <2>7. Subtree(u, op.path) = Subtree(t, op.path) \ S /\ S \subseteq Subtree(t, op.path)
    BY <2>1, <2>2 DEF Subtree
  <2>8. Without(u, Subtree(u, op.path)) = Without(t, Subtree(t, op.path))
    <3>1. DOMAIN u \ Subtree(u, op.path) = DOMAIN t \ Subtree(t, op.path)
      BY <2>2, <2>7
    <3>2. \A q \in DOMAIN t \ Subtree(t, op.path) : u[q] = t[q]
      BY <2>2, <2>7
    <3> QED BY <3>1, <3>2 DEF Without, Restrict
  <2> QED BY <1>5, <2>4, <2>6, <2>8 DEF applyOperation, Creations
<1> QED BY <1>2, <1>3, <1>4, <1>5

-----------------------------------------------------------------------------
(* The stream and its trees *)

(* What planOperation saw to when it picked op for the tree v. *)
Fits(v, op) ==
  /\ VirtualAccepts(v, op)
  /\ op.kind \in job.kinds
  /\ op.kind = "overwrite-range" => op.off <= v[op.path].size

(* history is what applyVirtualOperation makes of the scan, step by step. *)
Chain ==
  Generated =>
    /\ Len(history) = Len(ops) + 1
    /\ next \in 1 .. Len(history)
    /\ \A k \in 1 .. Len(ops) :
         /\ Fits(history[k], ops[k])
         /\ history[k + 1] = applyVirtualOperation(history[k], ops[k])

(* The first n - 1 operations took no name of a file away and gave it none. *)
NoLinkOps(n) == \A k \in 1 .. (n - 1) : ops[k].kind \notin {"delete", "create-hardlink"}

(* The disk t is in step with the virtual tree v after n - 1 operations;   *)
(* files may have grown if g.                                              *)
InStep(v, t, n, g) ==
  /\ Tracks(v, t)
  /\ LinkFree \/ NoLinkOps(n) => SoleExact(v, t, g)
  /\ LinkFree => AllSole(t) /\ NoSymlink(t)

(***************************************************************************)
(* The disk is in step with the virtual tree before the next operation;    *)
(* or, if an I/O error left that one half done, it will be with the tree   *)
(* behind it once the operation has been repeated.                         *)
(***************************************************************************)
Synced ==
  Generated =>
    \A v, t, g : (Grown => g) =>
      /\ (next \notin torn /\ v = history[next] /\ t = tree) => InStep(v, t, next, g)
      /\ (/\ next \in torn /\ ops[next].kind # "create-file"
          /\ v = history[next + 1] /\ t = applyOperation(tree, ops[next])) =>
           InStep(v, t, next + 1, g)

(* What an I/O error left half done lies behind, or can be repeated.       *)
Half ==
  /\ \A k \in torn :
       /\ k \in 1 .. Len(ops) /\ k <= next
       /\ k < next => ops[k].kind # "create-file"
  /\ next \in torn =>
       LET op == ops[next]
       IN  /\ normalizeOperation(op)
           /\ op.kind \in {"create-file", "append", "overwrite-range", "delete"}
           /\ IF op.kind = "create-file" THEN op.path \in DOMAIN tree ELSE Accepts(tree, op)

(* Why the last call was refused. *)
Barred ==
  pc = "refused" =>
    /\ next <= Len(ops)
    /\ \/ ~ normalizeOperation(ops[next]) \/ ~ Accepts(tree, ops[next])
       \/ MayDangle(tree, ops[next])

TracksInv == Chain /\ Synced /\ Half /\ Barred

(* To be in step is a matter of the job and of the operations so far. *)
LEMMA StepStable ==
  ASSUME job' = job, Len(ops) \in Nat, \A k \in 1 .. Len(ops) : ops'[k] = ops[k]
  PROVE  \A v, t, g : \A n \in 1 .. (Len(ops) + 1) : InStep(v, t, n, g) => InStep(v, t, n, g)'
<1>1. LinkFree' = LinkFree
  BY DEF LinkFree
<1>2. \A n \in 1 .. (Len(ops) + 1) : NoLinkOps(n)' <=> NoLinkOps(n)
  <2> SUFFICES ASSUME NEW n \in 1 .. (Len(ops) + 1) PROVE NoLinkOps(n)' <=> NoLinkOps(n)
    OBVIOUS
  <2>1. \A k \in 1 .. (n - 1) : ops'[k] = ops[k]
    OBVIOUS
  <2> QED BY <2>1 DEF NoLinkOps
<1>3. \A v, t, g : SoleExact(v, t, g) => SoleExact(v, t, g)'
  BY DEF SoleExact, Predicts
<1> QED BY <1>1, <1>2, <1>3 DEF InStep

(* A tree is in step with its own scan. *)
LEMMA ScanTracks ==
  ASSUME NEW t, IsDisk(t), t = job.baseline, NEW g
  PROVE  Tracks(scanMutationState(t), t) /\ SoleExact(scanMutationState(t), t, g)
<1> DEFINE v == scanMutationState(t)
<1>1. /\ DOMAIN v = Seen(t)
      /\ \A p \in DOMAIN v :
           /\ v[p].kind = t[p].kind /\ v[p].size = t[p].size
           /\ v[p].xattrs = IF p = Root THEN {} ELSE t[p].xattrs
  BY DEF scanMutationState, Seen
<1> HIDE DEF v
<1>2. Tracks(v, t)
  BY <1>1 DEF Tracks
<1>3. SoleExact(v, t, g)
  <2>1. \A p \in DOMAIN v : t[p].size \in Int
    BY <1>1 DEF Seen, IsDisk, DiskNode
  <2> QED BY <1>1, <2>1 DEF SoleExact, Predicts
<1> QED BY <1>2, <1>3 DEF v

(* Before anything is planned there is nothing to keep in step. *)
LEMMA TracksInvInit == Init => TracksInv
<1> SUFFICES ASSUME Init PROVE TracksInv
  OBVIOUS
<1>1. job \in Jobs /\ IsJob(job) /\ tree = job.baseline /\ ops = job.stream /\ next = 1
      /\ torn = {} /\ pc # "refused"
  BY MutationAssumption DEF Init
<1>0. Half /\ Barred
  BY <1>1 DEF Half, Barred
<1>2. CASE job.kinds = {}
  BY <1>0, <1>2 DEF Init, TracksInv, Chain, Synced, Generated
<1>3. CASE job.kinds # {}
  <2>1. history = <<scanMutationState(tree)>> /\ pc = "planning" /\ ops = <<>>
    BY <1>1, <1>3 DEF Init, IsJob
  <2> DEFINE scan == scanMutationState(tree)
  <2>2. IsDisk(tree)
    BY MutationInvInit DEF MutationInv
  <2>3. Tracks(scan, tree) /\ \A g : SoleExact(scan, tree, g)
    BY <1>1, <2>2, ScanTracks
  <2> HIDE DEF scan
  <2>4. history = <<scan>>
    BY <2>1 DEF scan
  <2>5. Len(history) = 1 /\ history[1] = scan /\ Len(ops) = 0
    BY <2>1, <2>4
  <2>6. Chain
    BY <1>1, <2>1, <2>5 DEF Chain
  <2>7. LinkFree => AllSole(tree) /\ NoSymlink(tree)
    BY <1>1 DEF LinkFree, AllSole, Sole, NoSymlink
  <2> QED BY <1>0, <1>1, <2>3, <2>5, <2>6, <2>7 DEF TracksInv, Synced, InStep
<1> QED BY <1>2, <1>3

(* A step of GenerateOperations adds an operation that fits, or ends it. *)
LEMMA GenerateEmits ==
  ASSUME MutationInv, Generate, MutationInv'
  PROVE  \/ PlanFails \/ PathsExhausted
         \/ pc = "planning" /\ \E op : Emit(op) /\ Fits(Nodes, op)
<1>1. ASSUME NEW op, Emit(op) PROVE VirtualAccepts(Nodes, op)
  BY <1>1 DEF Emit, MutationInv, NeverContradicts
<1>2. ASSUME NEW kind, NEW path, NEW to, NEW n, NEW off, NEW name, Planning(kind),
             Emit(Op(kind, path, to, n, off, name)),
             kind = "overwrite-range" => off <= Nodes[path].size
      PROVE  pc = "planning" /\ \E op : Emit(op) /\ Fits(Nodes, op)
  <2> DEFINE op == Op(kind, path, to, n, off, name)
  <2>1. op.kind = kind /\ op.path = path /\ op.off = off
    BY DEF Op
  <2>2. Emit(op) /\ VirtualAccepts(Nodes, op)
    BY <1>1, <1>2
  <2> HIDE DEF op
  <2>3. Fits(Nodes, op)
    BY <1>2, <2>1, <2>2 DEF Fits, Planning
  <2> QED BY <1>2, <2>2, <2>3 DEF Planning
<1>3. CASE PlanCreateFile
  BY <1>2, <1>3 DEF PlanCreateFile, EmitNew
<1>4. CASE PlanCreateDir
  BY <1>2, <1>4 DEF PlanCreateDir, EmitNew
<1>5. CASE PlanCreateSymlink
  BY <1>2, <1>5 DEF PlanCreateSymlink, EmitNew
<1>6. CASE PlanCreateHardlink
  BY <1>2, <1>6 DEF PlanCreateHardlink, EmitNew
<1>7. CASE PlanRename
  BY <1>2, <1>7 DEF PlanRename, EmitNew
<1>8. CASE PlanOnPath
  BY <1>2, <1>8 DEF PlanOnPath
<1>9. CASE PlanTruncate
  BY <1>2, <1>9 DEF PlanTruncate
<1>10. CASE PlanAppend
  BY <1>2, <1>10 DEF PlanAppend
<1>11. CASE PlanOverwriteRange
  <2>1. pc = "planning" /\ Planning("overwrite-range")
    BY <1>11 DEF PlanOverwriteRange, Planning
  <2>2. PICK p \in OfKind("file") : \E off \in Offsets(Nodes[p].size) :
          \E n : Emit(Op("overwrite-range", p, Root, n, off, ""))
    BY <1>11 DEF PlanOverwriteRange
  <2>3. PICK off \in Offsets(Nodes[p].size) : \E n : Emit(Op("overwrite-range", p, Root, n, off, ""))
    BY <2>2
  <2>4. PICK n : Emit(Op("overwrite-range", p, Root, n, off, ""))
    BY <2>3
  <2>5. Nodes[p].size \in Int
    BY <2>1, <2>2, PickedFacts
  <2>6. off \in Offsets(Nodes[p].size)
    BY <2>3
  <2>7. off <= Nodes[p].size
    BY <2>5, <2>6 DEF Offsets
  <2> QED BY <1>2, <2>1, <2>4, <2>7
<1>12. CASE PlanSetXAttr
  BY <1>2, <1>12 DEF PlanSetXAttr
<1>13. CASE PlanRemoveXAttr
  BY <1>2, <1>13 DEF PlanRemoveXAttr
<1> QED BY <1>3, <1>4, <1>5, <1>6, <1>7, <1>8, <1>9, <1>10, <1>11, <1>12, <1>13 DEF Generate

(* The stream grows. *)
LEMMA EmitTracks ==
  ASSUME MutationInv, MutationInv', TracksInv, pc = "planning", NEW op, Emit(op), Fits(Nodes, op)
  PROVE  TracksInv'
<1>1. /\ Generated /\ ops \in Seq(Operation) /\ history \in Seq(VirtualTrees)
      /\ next \in Nat \ {0}
  BY DEF MutationInv
<1>2. /\ ops' = Append(ops, op)
      /\ history' = Append(history, applyVirtualOperation(Nodes, op))
      /\ UNCHANGED <<tree, job, next, torn>> /\ pc' # "refused"
  BY DEF Emit, Fits
<1>3. /\ Len(history) = Len(ops) + 1 /\ next \in 1 .. Len(history) /\ Len(ops) \in Nat
      /\ \A k \in 1 .. Len(ops) :
           /\ Fits(history[k], ops[k])
           /\ history[k + 1] = applyVirtualOperation(history[k], ops[k])
  BY <1>1 DEF TracksInv, Chain
<1>4. /\ Len(ops') = Len(ops) + 1 /\ Len(history') = Len(history) + 1
      /\ \A k \in 1 .. Len(ops) : ops'[k] = ops[k]
      /\ \A k \in 1 .. Len(history) : history'[k] = history[k]
      /\ ops'[Len(ops) + 1] = op
      /\ history'[Len(history) + 1] = applyVirtualOperation(Nodes, op)
  <2> DEFINE after == applyVirtualOperation(Nodes, op)
  <2>1. ops' \in Seq(Operation) /\ history' \in Seq(VirtualTrees)
    BY DEF MutationInv
  <2>2. history' = Append(history, after)
    BY <1>2
  <2> HIDE DEF after
  <2>3. /\ Len(ops') = Len(ops) + 1 /\ \A k \in 1 .. Len(ops) : ops'[k] = ops[k]
        /\ ops'[Len(ops) + 1] = op
    BY <1>1, <1>2
  <2>4. /\ Len(history') = Len(history) + 1
        /\ \A k \in 1 .. Len(history) : history'[k] = history[k]
        /\ history'[Len(history) + 1] = after
    BY <1>1, <2>2
  <2> QED BY <2>3, <2>4 DEF after
<1>5. Chain'
  <2>1. ASSUME NEW k \in 1 .. (Len(ops) + 1)
        PROVE  /\ Fits(history'[k], ops'[k])
               /\ history'[k + 1] = applyVirtualOperation(history'[k], ops'[k])
    <3>1. CASE k = Len(ops) + 1
      <4>1. Nodes = history[k] /\ history'[k] = history[k] /\ ops'[k] = op
        BY <1>3, <1>4, <3>1 DEF Nodes
      <4> QED BY <1>3, <1>4, <3>1, <4>1
    <3>2. CASE k # Len(ops) + 1
      <4>1. /\ k \in 1 .. Len(ops) /\ k \in 1 .. Len(history) /\ k + 1 \in 1 .. Len(history)
        BY <1>3, <3>2
      <4> QED BY <1>3, <1>4, <4>1
    <3> QED BY <3>1, <3>2
  <2>2. Len(history') = Len(ops') + 1 /\ next' \in 1 .. Len(history')
    BY <1>2, <1>3, <1>4
  <2> QED BY <1>2, <1>4, <2>1, <2>2 DEF Chain, Fits
<1>6. \A k \in torn : k \in 1 .. Len(ops) /\ k <= next /\ ops'[k] = ops[k]
  BY <1>4 DEF TracksInv, Half
<1>7. Synced'
  <2> SUFFICES ASSUME NEW v, NEW t, NEW g, Grown' => g
               PROVE  /\ (next \notin torn /\ v = history[next] /\ t = tree) =>
                           InStep(v, t, next, g)'
                      /\ (/\ next \in torn /\ ops[next].kind # "create-file"
                          /\ v = history[next + 1] /\ t = applyOperation(tree, ops[next])) =>
                           InStep(v, t, next + 1, g)'
    <3>1. history'[next'] = history[next]
      BY <1>2, <1>3, <1>4
    <3>2. next \in torn => ops'[next] = ops[next] /\ history'[next + 1] = history[next + 1]
      BY <1>1, <1>3, <1>4, <1>6
    <3> QED BY <1>2, <3>1, <3>2 DEF Synced
  <2>1. Grown => g
    BY <1>2, <1>6 DEF Grown
  <2>2. /\ (next \notin torn /\ v = history[next] /\ t = tree) => InStep(v, t, next, g)
        /\ (/\ next \in torn /\ ops[next].kind # "create-file"
            /\ v = history[next + 1] /\ t = applyOperation(tree, ops[next])) =>
             InStep(v, t, next + 1, g)
    BY <1>1, <2>1 DEF TracksInv, Synced
  <2>3. next \in 1 .. (Len(ops) + 1) /\ (next \in torn => next + 1 \in 1 .. (Len(ops) + 1))
    BY <1>3, <1>6
  <2> QED BY <1>2, <1>3, <1>4, <2>2, <2>3, StepStable
<1>8. Half'
  <2>1. \A k \in torn : k \in 1 .. Len(ops')
    BY <1>3, <1>4, <1>6
  <2> QED BY <1>2, <1>6, <2>1 DEF TracksInv, Half
<1>9. Barred'
  BY <1>2 DEF Barred
<1> QED BY <1>5, <1>7, <1>8, <1>9 DEF TracksInv

(* Nothing of what the invariant is about changes but the caller's place. *)
LEMMA StillTracks ==
  ASSUME MutationInv, TracksInv, UNCHANGED <<tree, job, ops, history, torn, next>>, Barred'
  PROVE  TracksInv'
<1>1. Half' /\ Chain'
  BY DEF TracksInv, Half, Chain, Fits, Generated
<1>2. CASE Generated
  <2>1. /\ Len(ops) \in Nat /\ next \in 1 .. (Len(ops) + 1)
        /\ next \in torn => next + 1 \in 1 .. (Len(ops) + 1)
    BY <1>2 DEF TracksInv, Chain, Half, MutationInv
  <2>2. /\ \A v, t, g : InStep(v, t, next, g) => InStep(v, t, next, g)'
        /\ next \in torn => \A v, t, g : InStep(v, t, next + 1, g) => InStep(v, t, next + 1, g)'
    BY <2>1, StepStable
  <2>3. Grown => Grown'
    BY DEF Grown
  <2> QED BY <1>1, <1>2, <2>2, <2>3 DEF TracksInv, Synced, Generated
<1>3. CASE ~ Generated
  BY <1>1, <1>3 DEF TracksInv, Synced, Generated
<1> QED BY <1>2, <1>3

(* The next operation, if it passes, leads on to the next virtual tree. *)
LEMMA Advances ==
  ASSUME MutationInv, TracksInv, Generated, next <= Len(ops), NEW op, op = ops[next],
         normalizeOperation(op), Accepts(tree, op), NEW g, Grown => g
  PROVE  /\ next \in 1 .. Len(ops) /\ op \in Operation /\ history[next + 1] \in VirtualTrees
         /\ InStep(history[next + 1], applyOperation(tree, op), next + 1, g)
<1> DEFINE v == history[next]
           w == applyVirtualOperation(v, op)
           u == applyOperation(tree, op)
<1>1. /\ ops \in Seq(Operation) /\ history \in Seq(VirtualTrees) /\ next \in Nat \ {0}
      /\ IsDisk(tree)
  BY DEF MutationInv
<1>2. /\ Len(history) = Len(ops) + 1 /\ Len(ops) \in Nat
      /\ \A k \in 1 .. Len(ops) :
           /\ Fits(history[k], ops[k])
           /\ history[k + 1] = applyVirtualOperation(history[k], ops[k])
  BY <1>1 DEF TracksInv, Chain
<1>3. /\ next \in 1 .. Len(ops) /\ next \in DOMAIN ops /\ next \in DOMAIN history
      /\ next + 1 \in DOMAIN history
  BY <1>1, <1>2
<1>4. op \in Operation /\ v \in VirtualTrees /\ history[next + 1] \in VirtualTrees
  BY <1>1, <1>3
<1>5. IsVirtual(v)
  BY <1>4, VirtualTreesAre
<1>6. VirtualAccepts(v, op) /\ op.kind \in job.kinds /\ history[next + 1] = w
  BY <1>2, <1>3 DEF Fits
<1>7. CASE next \in torn
  <2>1. op.kind # "create-file"
    BY <1>7 DEF TracksInv, Half, Accepts, Creations
  <2> QED BY <1>3, <1>4, <1>7, <2>1 DEF TracksInv, Synced
<1>8. CASE next \notin torn
  <2>1. InStep(v, tree, next, g)
    BY <1>8 DEF TracksInv, Synced
  <2>2. /\ Tracks(v, tree)
        /\ LinkFree \/ NoLinkOps(next) => SoleExact(v, tree, g)
        /\ LinkFree => AllSole(tree) /\ NoSymlink(tree)
    BY <2>1 DEF InStep
  <2>3. /\ Tracks(w, u)
        /\ AllSole(tree) /\ op.kind # "create-hardlink" => AllSole(u)
        /\ SoleExact(v, tree, g) /\ op.kind # "create-hardlink"
             /\ (op.kind = "delete" => AllSole(tree)) => SoleExact(w, u, g)
        /\ NoSymlink(tree) /\ op.kind # "create-symlink" => NoSymlink(u)
    BY <1>1, <1>4, <1>5, <1>6, <2>2, OperationTracks
  <2>4. NoLinkOps(next + 1) => NoLinkOps(next) /\ op.kind \notin {"delete", "create-hardlink"}
    BY <1>1 DEF NoLinkOps
  <2>5. LinkFree => op.kind \notin {"create-symlink", "create-hardlink"}
    BY <1>6 DEF LinkFree
  <2> HIDE DEF v, w, u
  <2>6. InStep(w, u, next + 1, g)
    BY <2>2, <2>3, <2>4, <2>5 DEF InStep
  <2> QED BY <1>3, <1>4, <1>6, <2>6 DEF u
<1> QED BY <1>7, <1>8

(* An operation is applied: the next virtual tree is the one to compare.   *)
LEMMA AppliedTracks ==
  ASSUME MutationInv, TracksInv, OpApplied
  PROVE  TracksInv'
<1> DEFINE op == ops[next]
           u == applyOperation(tree, op)
<1>1. /\ tree' = u /\ next' = next + 1 /\ UNCHANGED <<job, ops, history, torn, pc>>
      /\ pc = "applying" /\ next <= Len(ops) /\ normalizeOperation(op) /\ Accepts(tree, op)
  BY DEF OpApplied, OpPasses, AtOp, planVars
<1>2. next \in Nat \ {0} /\ Len(ops) \in Nat
  BY DEF MutationInv
<1>3. next' \notin torn'
  BY <1>1, <1>2 DEF TracksInv, Half
<1>4. Half' /\ Barred'
  <2>1. next \in torn => op.kind # "create-file"
    BY <1>1 DEF TracksInv, Half, Accepts, Creations
  <2>2. \A k \in torn : k \in 1 .. Len(ops) /\ k <= next + 1 /\ (k < next + 1 => ops[k].kind # "create-file")
    BY <1>2, <2>1 DEF TracksInv, Half
  <2> QED BY <1>1, <1>3, <2>2 DEF Half, Barred
<1>5. CASE ~ Generated
  BY <1>1, <1>4, <1>5 DEF TracksInv, Chain, Synced, Generated
<1>6. CASE Generated
  <2>1. \A g : (Grown => g) =>
          /\ next \in 1 .. Len(ops)
          /\ InStep(history[next + 1], u, next + 1, g)
    BY <1>1, <1>6, Advances
  <2>2. next \in 1 .. Len(ops)
    BY <2>1
  <2>3. Chain'
    <3>1. next' \in 1 .. Len(history')
      BY <1>1, <1>2, <1>6, <2>2 DEF TracksInv, Chain
    <3> QED BY <1>1, <3>1 DEF TracksInv, Chain, Fits, Generated
  <2>4. next + 1 \in 1 .. (Len(ops) + 1)
    BY <1>2, <2>2
  <2>5. \A n : n = next + 1 => \A v, t, g : InStep(v, t, n, g) => InStep(v, t, n, g)'
    <3>1. job' = job /\ ops' = ops
      BY <1>1
    <3> QED BY <1>2, <2>4, <3>1, StepStable
  <2>6. Grown => Grown'
    BY <1>1 DEF Grown
  <2> HIDE DEF op, u
  <2>7. Synced'
    BY <1>1, <1>3, <2>1, <2>5, <2>6 DEF Synced
  <2> QED BY <1>4, <2>3, <2>7 DEF TracksInv
<1> QED BY <1>5, <1>6

(* Data that is there twice does no harm but to the length of a file. *)
LEMMA LongerInStep ==
  ASSUME NEW v, IsVirtual(v), NEW t, IsDisk(t), NEW u, IsDisk(u), Longer(t, u),
         NEW n, NEW g, InStep(v, t, n, g), NEW h, h
  PROVE  InStep(v, u, n, h)
<1>1. /\ DOMAIN u = DOMAIN t
      /\ \A p \in DOMAIN t :
           /\ u[p].kind = t[p].kind /\ u[p].id = t[p].id /\ u[p].xattrs = t[p].xattrs
           /\ t[p].size <= u[p].size
  BY DEF Longer
<1>2. Tracks(v, t) => Tracks(v, u)
  BY <1>1 DEF Tracks, Seen
<1>3. (AllSole(t) => AllSole(u)) /\ (NoSymlink(t) => NoSymlink(u))
  BY <1>1 DEF AllSole, Sole, NoSymlink
<1>4. ASSUME Tracks(v, t), SoleExact(v, t, g) PROVE SoleExact(v, u, h)
  <2> SUFFICES ASSUME NEW p \in DOMAIN v, Sole(u, p) PROVE Predicts(v[p], u[p], p, h)
    BY DEF SoleExact
  <2>1. p \in DOMAIN t /\ Sole(t, p)
    BY <1>1, <1>4 DEF Tracks, Seen, Sole
  <2>2. Predicts(v[p], t[p], p, g)
    BY <1>4, <2>1 DEF SoleExact
  <2>3. v[p].size \in Int /\ t[p].size \in Int /\ u[p].size \in Int
    BY <1>1, <2>1 DEF IsVirtual, VirtualNode, IsDisk, DiskNode
  <2> QED BY <1>1, <2>1, <2>2, <2>3 DEF Predicts
<1> QED BY <1>2, <1>3, <1>4 DEF InStep

(* A system call fails: nothing has changed, or the operation is half done *)
(* and will lead to the next virtual tree when it is repeated.             *)
LEMMA FailedTracks ==
  ASSUME MutationInv, TracksInv, OpFails
  PROVE  TracksInv'
<1> DEFINE op == ops[next]
<1>1. /\ UNCHANGED <<job, ops, history, next>> /\ pc' = "failed"
      /\ tree' \in Torn(tree, op)
      /\ torn' = IF tree' # tree THEN torn \cup {next} ELSE torn
      /\ next <= Len(ops) /\ normalizeOperation(op) /\ Accepts(tree, op)
  BY DEF OpFails, Breaks, OpPasses, AtOp, planVars
<1>2. Barred'
  BY <1>1 DEF Barred
<1>3. CASE tree' = tree
  BY <1>1, <1>2, <1>3, StillTracks
<1>4. CASE tree' # tree
  <2>1. /\ ops \in Seq(Operation) /\ next \in Nat \ {0} /\ Len(ops) \in Nat /\ IsDisk(tree)
    BY DEF MutationInv
  <2>2. next \in 1 .. Len(ops) /\ op \in Operation
    BY <1>1, <2>1
  <2>3. torn' = torn \cup {next}
    BY <1>1, <1>4
  <2>4. /\ op.kind \in {"create-file", "append", "overwrite-range", "delete"}
        /\ op.path \in DOMAIN tree'
        /\ op.kind # "create-file" => Accepts(tree', op)
        /\ op.kind \in {"overwrite-range", "delete"} =>
             applyOperation(tree', op) = applyOperation(tree, op)
        /\ op.kind = "append" => Longer(applyOperation(tree, op), applyOperation(tree', op))
    BY <1>1, <1>4, <2>1, <2>2, TornRepeats
  <2>5. IsDisk(tree')
    BY <1>1, <2>1, <2>2, TornOperation
  <2>6. Half'
    BY <1>1, <2>1, <2>2, <2>3, <2>4 DEF TracksInv, Half
  <2>7. Chain'
    BY <1>1 DEF TracksInv, Chain, Fits, Generated
  <2>8. CASE ~ Generated
    BY <1>1, <1>2, <2>6, <2>7, <2>8 DEF TracksInv, Synced, Generated
  <2>9. CASE Generated
    <3> DEFINE u == applyOperation(tree, op)
               x == applyOperation(tree', op)
               w == history[next + 1]
    <3>1. w \in VirtualTrees /\ \A g : (Grown => g) => InStep(w, u, next + 1, g)
      BY <1>1, <2>9, Advances
    <3>2. (Grown => Grown') /\ (op.kind = "append" => Grown')
      BY <1>1, <2>3 DEF Grown
    <3>3. ASSUME NEW g, Grown' => g, op.kind # "create-file" PROVE InStep(w, x, next + 1, g)
      <4>1. CASE op.kind \in {"overwrite-range", "delete"}
        BY <2>4, <3>1, <3>2, <3>3, <4>1
      <4>2. CASE op.kind = "append"
        <5>1. IsVirtual(w) /\ IsDisk(u) /\ IsDisk(x) /\ Longer(u, x)
          BY <1>1, <2>1, <2>2, <2>4, <2>5, <3>1, <4>2, VirtualTreesAre, AppliedOperation
        <5>2. g /\ InStep(w, u, next + 1, g)
          BY <3>1, <3>2, <3>3, <4>2
        <5> HIDE DEF w, u, x
        <5> QED BY <5>1, <5>2, LongerInStep
      <4> QED BY <2>4, <3>3, <4>1, <4>2
    <3>4. next + 1 \in 1 .. (Len(ops) + 1)
      BY <2>1, <2>2
    <3>5. \A n : n = next + 1 => \A v, t, g : InStep(v, t, n, g) => InStep(v, t, n, g)'
      <4>1. job' = job /\ ops' = ops /\ Len(ops) \in Nat
        BY <1>1, <2>1
      <4> QED BY <3>4, <4>1, StepStable
    <3>6. /\ next' = next /\ next \in torn' /\ ops' = ops
          /\ ops[next].kind # "create-file" =>
               \A g : (Grown' => g) => InStep(history'[next + 1], applyOperation(tree', ops[next]), next + 1, g)
      BY <1>1, <2>3, <3>3
    <3> HIDE DEF op, u, x, w
    <3>7. Synced'
      BY <3>5, <3>6 DEF Synced
    <3> QED BY <1>2, <2>6, <2>7, <3>7 DEF TracksInv
  <2> QED BY <2>8, <2>9
<1> QED BY <1>3, <1>4

(* Every step keeps the stream a chain and the disk in step with it. *)
LEMMA TracksInvStep == MutationInv /\ MutationInv' /\ TracksInv /\ [Next]_vars => TracksInv'
<1> SUFFICES ASSUME MutationInv, MutationInv', TracksInv, [Next]_vars PROVE TracksInv'
  OBVIOUS
<1>1. CASE Generate
  <2>1. CASE PlanFails \/ PathsExhausted
    <3>1. UNCHANGED <<tree, job, ops, history, torn, next>> /\ pc' # "refused"
      BY <2>1 DEF PlanFails, PathsExhausted, planVars
    <3> QED BY <3>1, StillTracks DEF Barred
  <2>2. CASE pc = "planning" /\ \E op : Emit(op) /\ Fits(Nodes, op)
    BY <2>2, EmitTracks
  <2> QED BY <1>1, <2>1, <2>2, GenerateEmits
<1>2. CASE \E start \in {next, Len(ops) + 2}, rules \in job.profiles : StartApply(start, rules)
  <2>1. PICK start \in {next, Len(ops) + 2}, rules \in job.profiles : StartApply(start, rules)
    BY <1>2
  <2>2. UNCHANGED <<tree, job, ops, history, torn>> /\ pc' # "refused"
    BY <2>1 DEF StartApply, planVars
  <2>3. Len(ops) \in Nat /\ next \in Nat
    BY DEF MutationInv
  <2>4. next' = next
    BY <2>1, <2>3 DEF StartApply, ValidStart
  <2> QED BY <2>2, <2>4, StillTracks DEF Barred
<1>3. CASE OpInvalid
  <2>1. /\ UNCHANGED <<tree, job, ops, history, torn, next>>
        /\ next <= Len(ops) /\ ~ normalizeOperation(ops[next])
    BY <1>3 DEF OpInvalid, AtOp, planVars
  <2>3. Barred'
    BY <2>1 DEF Barred
  <2> QED BY <2>1, <2>3, StillTracks
<1>4. CASE OpFault \/ StreamDone
  <2>1. UNCHANGED <<tree, job, ops, history, torn, next>> /\ pc' # "refused"
    BY <1>4 DEF OpFault, StreamDone, planVars
  <2> QED BY <2>1, StillTracks DEF Barred
<1>5. CASE OpRefused
  <2>1. /\ UNCHANGED <<tree, job, ops, history, torn, next>> /\ next <= Len(ops)
        /\ ~ Accepts(tree, ops[next]) \/ MayDangle(tree, ops[next])
    BY <1>5 DEF OpRefused, OpPasses, AtOp, planVars
  <2>2. Barred'
    BY <2>1 DEF Barred
  <2> QED BY <2>1, <2>2, StillTracks
<1>6. CASE UNCHANGED vars
  <2>1. UNCHANGED <<tree, job, ops, history, torn, next, pc>>
    BY <1>6 DEF vars, planVars
  <2>2. Barred'
    BY <2>1 DEF TracksInv, Barred
  <2> QED BY <2>1, <2>2, StillTracks
<1> QED BY <1>1, <1>2, <1>3, <1>4, <1>5, <1>6, AppliedTracks, FailedTracks DEF Next, ApplyStep

(***************************************************************************)
(* Over any number of calls the stream is a chain of virtual trees, and    *)
(* the disk is in step with the one before the next operation.             *)
(***************************************************************************)
THEOREM TracksInvHolds == Spec => []TracksInv
<1> QED BY TracksInvInit, TracksInvStep, MutationInvHolds, PTL DEF Spec

(***************************************************************************)
(* After any prefix of a generated stream, whatever faults and I/O errors  *)
(* interrupted it and however it was resumed, the disk has the names and   *)
(* kinds the virtual tree has; without links also its attributes and, but  *)
(* for what a repeated append wrote twice, its sizes                       *)
(* (applyVirtualOperation against applyOperation).                         *)
(***************************************************************************)
THEOREM MutationStreamTracksTree == Spec => []StreamTracksTree
<1>1. MutationInv /\ TracksInv => StreamTracksTree
  <2> SUFFICES ASSUME MutationInv, TracksInv, Generated, next \notin torn
               PROVE  /\ DOMAIN history[next] = DOMAIN scanMutationState(tree)
                      /\ \A p \in DOMAIN history[next] :
                           /\ history[next][p].kind = tree[p].kind
                           /\ LinkFree => Predicts(history[next][p], tree[p], p, Grown)
    BY DEF StreamTracksTree
  <2>1. InStep(history[next], tree, next, Grown)
    BY DEF TracksInv, Synced
  <2>2. /\ Tracks(history[next], tree)
        /\ LinkFree => SoleExact(history[next], tree, Grown) /\ AllSole(tree)
    BY <2>1 DEF InStep
  <2> QED BY <2>2, SeenIs DEF Tracks, Seen, SoleExact, AllSole
<1> QED BY <1>1, MutationInvHolds, TracksInvHolds, PTL

(***************************************************************************)
(* Whatever the stream and whatever applyOperation left of an operation    *)
(* when a system call failed, a call that resumes at this operation has it *)
(* accepted, or it makes a file and is never got past.                     *)
(***************************************************************************)
THEOREM MutationHalfDoneRepeats == Spec => []HalfDoneRepeats
<1>1. TracksInv => HalfDoneRepeats
  <2> SUFFICES ASSUME TracksInv
               PROVE  /\ (pc = "refused" /\ next \in torn) => ops[next].kind = "create-file"
                      /\ \A k \in torn : k < next => ops[k].kind # "create-file"
    BY DEF HalfDoneRepeats
  <2>1. \A k \in torn : k < next => ops[k].kind # "create-file"
    BY DEF TracksInv, Half
  <2>2. ASSUME pc = "refused", next \in torn, ops[next].kind # "create-file" PROVE FALSE
    <3>1. /\ normalizeOperation(ops[next]) /\ Accepts(tree, ops[next])
          /\ ops[next].kind \in {"append", "overwrite-range", "delete"}
      BY <2>2 DEF TracksInv, Half
    <3> QED BY <2>2, <3>1 DEF TracksInv, Barred, MayDangle
  <2> QED BY <2>1, <2>2
<1> QED BY <1>1, TracksInvHolds, PTL

(* Why the disk refuses what the virtual tree accepts. *)
LEMMA RefusedBecause ==
  ASSUME NEW g, NEW v, IsVirtual(v), NEW t, IsDisk(t), Tracks(v, t),
         NEW op \in Operation, normalizeOperation(op), Fits(v, op),
         ~ Accepts(t, op) \/ MayDangle(t, op)
  PROVE  \/ op.kind \in Creations /\ op.path \in DOMAIN t \ Seen(t)
         \/ op.kind = "rename" /\ op.to \in DOMAIN t \ Seen(t)
         \/ op.kind \in {"chmod", "set-xattr"} /\ IsKind(t, op.path, "symlink")
         \/ /\ op.kind \in {"overwrite-range", "remove-xattr"}
            /\ op.path \in DOMAIN v /\ ~ Predicts(v[op.path], t[op.path], op.path, g)
<1>1. /\ op.kind \in OpKinds /\ op.path \in Path /\ op.to \in Path /\ op.off \in Int
      /\ VirtualAccepts(v, op)
  BY DEF Operation, Fits
<1>2. /\ DOMAIN v \subseteq DOMAIN t /\ DOMAIN v = Seen(t) /\ Shaped(t)
      /\ \A q, kind : IsKind(v, q, kind) => IsKind(t, q, kind)
      /\ \A q : ensureNoSymlinkParents(v, q) => ensureNoSymlinkParents(t, q)
  BY TrackedFacts DEF Tracks, IsDisk
<1>3. ASSUME NEW q \in Path, q # Root, hasParentDirectory(v, q) PROVE ensureNoSymlinkParents(t, q)
  BY <1>2, <1>3, ParentSuffices
<1>4. CASE op.kind \in Creations
  <2>1. op.path # Root /\ op.path \notin DOMAIN v /\ hasParentDirectory(v, op.path)
    BY <1>1, <1>4 DEF VirtualAccepts, normalizeOperation, Creations, OnAnyPath
  <2>2. ensureNoSymlinkParents(t, op.path)
    BY <1>1, <1>3, <2>1
  <2>3. op.kind = "create-hardlink" => ensureNoSymlinkParents(t, op.to) /\ IsKind(t, op.to, "file")
    BY <1>1, <1>2 DEF VirtualAccepts, Shaped, IsKind
  <2>4. op.path \in DOMAIN t
    BY <1>4, <2>2, <2>3 DEF Accepts, MayDangle, Creations, Contents
  <2> QED BY <1>2, <1>4, <2>1, <2>4
<1>5. CASE op.kind \notin Creations
  <2>1. op.path \in DOMAIN v /\ op.path \in DOMAIN t
    BY <1>1, <1>2, <1>5 DEF VirtualAccepts
  <2>2. ensureNoSymlinkParents(t, op.path) /\ v[op.path].kind = t[op.path].kind
    BY <1>2, <2>1 DEF Shaped, Tracks
  <2>3. CASE op.kind = "rename"
    <3>1. /\ op.to # Root /\ op.to \notin DOMAIN v /\ hasParentDirectory(v, op.to)
          /\ t[op.path].kind = "dir" => ~ isChildMutationPath(op.to, op.path)
      BY <1>1, <2>2, <2>3 DEF VirtualAccepts, normalizeOperation
    <3>2. ensureNoSymlinkParents(t, op.to)
      BY <1>1, <1>3, <3>1
    <3>3. op.to \in DOMAIN t
      BY <2>1, <2>2, <2>3, <3>1, <3>2 DEF Accepts, MayDangle, Creations, Contents
    <3> QED BY <1>2, <2>3, <3>1, <3>3
  <2>4. CASE op.kind \in {"delete", "chown", "truncate", "append"}
    <3>1. Accepts(t, op) /\ ~ MayDangle(t, op)
      BY <1>1, <2>1, <2>2, <2>4 DEF Accepts, VirtualAccepts, MayDangle, Creations, Contents
    <3> QED BY <3>1
  <2>5. CASE op.kind = "chmod"
    <3>1. Accepts(t, op)
      BY <2>1, <2>2, <2>5 DEF Accepts, Creations, Contents
    <3> QED BY <2>5, <3>1 DEF MayDangle
  <2>6. CASE op.kind = "set-xattr"
    <3>1. t[op.path].kind \notin {"file", "dir"}
      BY <2>1, <2>2, <2>6 DEF Accepts, MayDangle, Creations, Contents
    <3>2. t[op.path].kind \in {"file", "dir", "symlink"}
      BY <1>2, <2>1 DEF Seen
    <3> QED BY <2>1, <2>6, <3>1, <3>2 DEF IsKind
  <2>7. CASE op.kind = "overwrite-range"
    <3>1. ~ (op.off <= t[op.path].size)
      BY <1>1, <2>1, <2>2, <2>7 DEF Accepts, VirtualAccepts, MayDangle, Creations, Contents
    <3>2. op.off <= v[op.path].size
      BY <2>7 DEF Fits
    <3>3. op.off \in Int /\ v[op.path].size \in Int /\ t[op.path].size \in Int
      BY <2>1 DEF Operation, IsVirtual, VirtualNode, IsDisk, DiskNode
    <3> QED BY <2>1, <2>7, <3>1, <3>2, <3>3 DEF Predicts
  <2>8. CASE op.kind = "remove-xattr"
    <3>1. op.name \notin t[op.path].xattrs
      BY <2>1, <2>2, <2>8 DEF Accepts, MayDangle, Creations, Contents
    <3>2. op.name \in v[op.path].xattrs
      BY <1>1, <2>8 DEF VirtualAccepts
    <3> QED BY <2>1, <2>8, <3>1, <3>2 DEF Predicts
  <2> QED BY <1>1, <1>5, <2>3, <2>4, <2>5, <2>6, <2>7, <2>8 DEF OpKinds, Contents, OnAnyPath
<1> QED BY <1>4, <1>5

(***************************************************************************)
(* applyOperation refuses an operation of a generated stream that was not  *)
(* left half done for two reasons only, whatever I/O errors came before:   *)
(* GenerateOperations drew a name that belongs to a special file, which    *)
(* its scan leaves out, or it took no account of links.                    *)
(***************************************************************************)
THEOREM MutationRefusedForLinks == Spec => []RefusedForLinks
<1>1. MutationInv /\ TracksInv => RefusedForLinks
  <2> DEFINE op == ops[next]
             v == history[next]
             Named == {p \in DOMAIN tree : tree[p].id = tree[op.path].id}
             ForLinks ==
               /\ ~ LinkFree
               /\ \/ op.kind \in {"chmod", "set-xattr"} /\ tree[op.path].kind = "symlink"
                  \/ /\ op.kind \in {"overwrite-range", "remove-xattr"}
                     /\ \/ Named # {op.path}
                        \/ \E k \in 1 .. (next - 1) :
                             ops[k].kind \in {"delete", "create-hardlink"}
  <2> SUFFICES ASSUME MutationInv, TracksInv, Generated, next \notin torn, pc = "refused"
               PROVE  \/ op.kind \in Creations /\ Unseen(op.path)
                      \/ op.kind = "rename" /\ Unseen(op.to)
                      \/ ForLinks
    BY DEF RefusedForLinks
  <2>1. /\ Len(ops) \in Nat /\ next \in Nat \ {0} /\ next <= Len(ops)
    BY DEF MutationInv, TracksInv, Barred
  <2>2. next \in 1 .. Len(ops) /\ next \in DOMAIN ops /\ next \in 1 .. Len(history)
    BY <2>1 DEF TracksInv, Chain, MutationInv
  <2>3. op \in Operation /\ v \in VirtualTrees
    BY <2>2 DEF MutationInv
  <2>4. IsVirtual(v) /\ IsDisk(tree) /\ normalizeOperation(op)
    BY <2>2, <2>3, VirtualTreesAre DEF MutationInv, NeverContradicts
  <2>a. ~ Accepts(tree, op) \/ MayDangle(tree, op)
    BY <2>4 DEF TracksInv, Barred
  <2>s. InStep(v, tree, next, Grown)
    BY DEF TracksInv, Synced
  <2>5. Fits(v, op) /\ Tracks(v, tree)
    BY <2>2, <2>s DEF TracksInv, Chain, InStep
  <2>6. /\ LinkFree \/ NoLinkOps(next) => SoleExact(v, tree, Grown)
        /\ LinkFree => AllSole(tree) /\ NoSymlink(tree)
    BY <2>s DEF InStep
  <2>7. \/ op.kind \in Creations /\ op.path \in DOMAIN tree \ Seen(tree)
        \/ op.kind = "rename" /\ op.to \in DOMAIN tree \ Seen(tree)
        \/ op.kind \in {"chmod", "set-xattr"} /\ IsKind(tree, op.path, "symlink")
        \/ /\ op.kind \in {"overwrite-range", "remove-xattr"}
           /\ op.path \in DOMAIN v /\ ~ Predicts(v[op.path], tree[op.path], op.path, Grown)
    BY <2>3, <2>4, <2>5, <2>a, RefusedBecause
  <2>8. Sole(tree, op.path) /\ op.path \in DOMAIN tree => Named = {op.path}
    BY DEF Sole
  <2>9. op.path \in DOMAIN v => op.path \in DOMAIN tree
    BY <2>5 DEF Tracks, Seen
  <2>10. \A p \in DOMAIN tree \ Seen(tree) : Unseen(p)
    BY SeenIs DEF Unseen
  <2>11. CASE op.kind \in {"chmod", "set-xattr"} /\ IsKind(tree, op.path, "symlink")
    BY <2>6, <2>11 DEF NoSymlink, IsKind
  <2>12. CASE /\ op.kind \in {"overwrite-range", "remove-xattr"}
              /\ op.path \in DOMAIN v /\ ~ Predicts(v[op.path], tree[op.path], op.path, Grown)
    <3>1. Sole(tree, op.path) => ~ SoleExact(v, tree, Grown)
      BY <2>12 DEF SoleExact
    <3>2. ~ LinkFree
      BY <2>6, <2>9, <2>12, <3>1 DEF AllSole
    <3>3. Named # {op.path} \/ ~ NoLinkOps(next)
      <4>1. CASE Sole(tree, op.path)
        BY <2>6, <3>1, <4>1
      <4>2. CASE ~ Sole(tree, op.path)
        BY <4>2 DEF Sole
      <4> QED BY <4>1, <4>2
    <3> QED BY <2>12, <3>2, <3>3 DEF NoLinkOps
  <2> QED BY <2>7, <2>10, <2>11, <2>12
<1> QED BY <1>1, MutationInvHolds, TracksInvHolds, PTL

=============================================================================
