---------------------------- MODULE ParityProofs ----------------------------
(***************************************************************************)
(* Proofs about Parity, and with it about Content, Acl and Diff, for every *)
(* set of jobs that JobsAssumption admits, chunk, block and segment sizes  *)
(* of any length, and trees of any number of names.                        *)
(*                                                                         *)
(* Part one, Content: what the planners return has the shape IsPlanned,    *)
(* and the write loops keep Writing: a byte of the file is that of the     *)
(* last call so far that covers its offset, or a hole.  When the calls are *)
(* done, that is what PromisedByte says without a loop.                    *)
(*                                                                         *)
(* Part two, Acl: the rank of a record is the number of records before it, *)
(* ranks are different, so Marshal puts every record in one place and      *)
(* Parse finds it there; a canonical list is determined by its records.    *)
(* Resolving takes the last entry for each key.                            *)
(*                                                                         *)
(* Part three, Diff: the walk keeps SideOk of both sides.  The tree is the *)
(* one the call began with but for access times, what was collected is the *)
(* view of the names passed as they were then, and the groups are their    *)
(* hard links.  Where nothing is Blurred an access time is looked at       *)
(* before it is moved.  At the end equal lists and equal groups mean that  *)
(* the trees are the same.                                                 *)
(*                                                                         *)
(* Part four, the making: Stage says what every attribute is at each step  *)
(* of applyPlannedEntry and applyMetadata.  At the last step a recipe with *)
(* times leaves no choice, so two makings leave the same tree.             *)
(***************************************************************************)
EXTENDS Parity, FiniteSetTheorems, SequenceTheorems, WellFoundedInduction, TLAPS

-----------------------------------------------------------------------------
(* Content: what is planned *)

(* A segment of a file lies in it. *)
LEMMA SegmentsLie ==
  ASSUME NEW size \in Nat, NEW seed \in Nat \ {0}, NEW x \in Segments(size, seed)
  PROVE  IsSegment(x, size)
<1>0. PICK n \in SegmentLengths(size) : x \in {Extent(o, n, seed) : o \in SegmentOffsets(size, n)}
  BY DEF Segments
<1>1. PICK o \in SegmentOffsets(size, n) : x = Extent(o, n, seed)
  BY <1>0
<1>2. n \in Nat /\ n >= 1 /\ n <= size
  BY ContentAssumption DEF SegmentLengths, Least
<1>3. o \in Nat /\ o + n <= size
  BY <1>2 DEF SegmentOffsets
<1>4. x.offset = o /\ x.length = n /\ x.seed = seed
  BY <1>1 DEF Extent
<1> QED BY <1>2, <1>3, <1>4 DEF IsSegment

(* Both updates of a file lie in it. *)
LEMMA UpdatesLie ==
  ASSUME NEW size \in Nat, NEW sorted \in BOOLEAN, NEW u \in Updates(size, sorted)
  PROVE  u = <<u[1], u[2]>> /\ IsSegment(u[1], size) /\ IsSegment(u[2], size)
<1>1. PICK x \in Segments(size, 1), y \in Segments(size, 2) : u = <<x, y>> \/ u = <<y, x>>
  BY DEF Updates
<1>2. IsSegment(x, size) /\ IsSegment(y, size)
  BY SegmentsLie
<1> QED BY <1>1, <1>2

(* Planning a partial write gives the shape. *)
LEMMA PartialShape ==
  ASSUME NEW size \in Nat, NEW sorted \in BOOLEAN, NEW u \in Updates(size, sorted)
  PROVE  IsPlanned(Planned("partial", size, u, 0, size + u[1].length + u[2].length, FALSE))
<1> DEFINE c == Planned("partial", size, u, 0, size + u[1].length + u[2].length, FALSE)
<1>1. u = <<u[1], u[2]>> /\ IsSegment(u[1], size) /\ IsSegment(u[2], size)
  BY UpdatesLie
<1>2. /\ c.pattern = "partial" /\ c.size = size /\ c.extents = u
      /\ c.written = size + u[1].length + u[2].length /\ c.sparse = FALSE
  BY DEF Planned
<1> HIDE DEF c
<1>3. IsPlanned(c)
  BY <1>1, <1>2 DEF IsPlanned
<1> QED BY <1>3 DEF c

(***************************************************************************)
(* Whatever planFileContentPattern plans, for any size and any data of the *)
(* generator, has the shape that the proofs take for granted.              *)
(***************************************************************************)
LEMMA PlannedShape ==
  ASSUME NEW size \in Nat, NEW data \in Nat, NEW c \in PlannedContent(size, data)
  PROVE  IsPlanned(c)
<1>1. CASE c = Planned("dense", size, <<>>, 0, size, FALSE)
  <2>1. /\ c.pattern = "dense" /\ c.size = size /\ c.extents = <<>> /\ c.written = size
        /\ c.sparse = FALSE
    BY <1>1 DEF Planned
  <2> QED BY <2>1 DEF IsPlanned
<1>2. CASE size = 0 /\ c \in {Planned("sparse", 0, <<>>, 0, 0, FALSE), Planned("partial", 0, <<>>, 0, 0, FALSE)}
  <2>1. /\ c.pattern \in {"sparse", "partial"} /\ c.size = 0 /\ c.extents = <<>> /\ c.written = 0
        /\ c.sparse = FALSE
    BY <1>2 DEF Planned
  <2> QED BY <2>1 DEF IsPlanned
<1>3. ASSUME NEW x \in SparseSegments(size),
             c = Planned("sparse", size, <<x>>, 0, x.length, size > x.length)
      PROVE  IsPlanned(c)
  <2> DEFINE more == size > x.length
  <2> HIDE DEF more
  <2>1. /\ c.pattern = "sparse" /\ c.size = size /\ c.extents = <<x>> /\ c.written = x.length
        /\ c.sparse = more
    BY <1>3 DEF Planned, more
  <2>2. IsSegment(x, size)
    BY SegmentsLie DEF SparseSegments
  <2>3. c.extents = <<c.extents[1]>> /\ c.extents[1] = x
    BY <2>1
  <2>4. c.sparse = (c.size > c.written)
    BY <2>1 DEF more
  <2> QED BY <2>1, <2>2, <2>3, <2>4 DEF IsPlanned
<1>4. CASE data # 0 /\ c = Planned("repeated", size, <<>>, Least(data, Chunk), size, FALSE)
  <2>1. /\ c.pattern = "repeated" /\ c.size = size /\ c.extents = <<>> /\ c.written = size
        /\ c.sparse = FALSE /\ c.block = Least(data, Chunk)
    BY <1>4 DEF Planned
  <2>2. Least(data, Chunk) \in 1 .. Chunk
    BY <1>4, ContentAssumption DEF Least
  <2> QED BY <2>1, <2>2 DEF IsPlanned
<1>5. ASSUME NEW u \in Updates(size, TRUE),
             c = Planned("partial", size, u, 0, size + u[1].length + u[2].length, FALSE)
      PROVE  IsPlanned(c)
  BY <1>5, PartialShape
<1> QED BY <1>1, <1>2, <1>3, <1>4, <1>5 DEF PlannedContent

(* So has what coverageContentFor plans. *)
LEMMA CoverageShape ==
  ASSUME NEW size \in Nat, NEW c \in CoverageContent(size)
  PROVE  IsPlanned(c)
<1>1. ASSUME c \in PlannedContent(size, IF size = 0 THEN Chunk ELSE Least(size, Chunk))
      PROVE  IsPlanned(c)
  <2>1. (IF size = 0 THEN Chunk ELSE Least(size, Chunk)) \in Nat
    BY ContentAssumption DEF Least
  <2> QED BY <1>1, <2>1, PlannedShape
<1>2. ASSUME NEW u \in Updates(size, FALSE),
             c = Planned("partial", size, u, 0, size + u[1].length + u[2].length, FALSE)
      PROVE  IsPlanned(c)
  BY <1>2, PartialShape
<1> QED BY <1>1, <1>2 DEF CoverageContent

-----------------------------------------------------------------------------
(* Content: what is written *)

Bytes == Int \X Int

(* The calls so far that wrote the byte at offset o. *)
Wrote(c, m, p, o) ==
  {k \in DOMAIN WriteCalls(c) :
     /\ Covers(WriteCalls(c)[k], o)
     /\ k < m \/ (k = m /\ o < WriteCalls(c)[k].offset + p)}

(* The byte b at offset o is that of the last of the calls in K. *)
LastOf(c, K, o, b) ==
  IF K = {} THEN b = Hole
  ELSE \E k \in K : /\ \A j \in K : j <= k
                    /\ b = ByteAt(c, WriteCalls(c)[k], o - WriteCalls(c)[k].offset)

(* The bytes that the calls before the m-th write. *)
Before3(c, m) ==
  IF m = 1 THEN 0
  ELSE IF m = 2 THEN WriteCalls(c)[1].length
  ELSE IF m = 3 THEN WriteCalls(c)[1].length + WriteCalls(c)[2].length
  ELSE WriteCalls(c)[1].length + WriteCalls(c)[2].length + WriteCalls(c)[3].length

(* The file f, with w bytes written up to position p of the m-th call. *)
Writing(c, f, m, p, w) ==
  /\ f \in Seq(Bytes) /\ Len(f) <= c.size
  /\ m \in 1 .. Len(WriteCalls(c)) + 1
  /\ p \in Nat
  /\ m <= Len(WriteCalls(c)) => p <= WriteCalls(c)[m].length
  /\ m > Len(WriteCalls(c)) => p = 0
  /\ \A o \in 0 .. c.size - 1 : Wrote(c, m, p, o) # {} => o < Len(f)
  /\ \A i \in 1 .. Len(f) : LastOf(c, Wrote(c, m, p, i - 1), i - 1, f[i])
  /\ w = Before3(c, m) + p

(* There are three calls at most, and each lies in the file. *)
LEMMA CallsShape ==
  ASSUME NEW c, IsPlanned(c)
  PROVE  /\ c.size \in Nat
         /\ Len(WriteCalls(c)) \in 0 .. 3
         /\ DOMAIN WriteCalls(c) = 1 .. Len(WriteCalls(c))
         /\ \A k \in DOMAIN WriteCalls(c) :
              /\ WriteCalls(c)[k].offset \in Nat
              /\ WriteCalls(c)[k].length \in Nat
              /\ WriteCalls(c)[k].seed \in Nat
              /\ WriteCalls(c)[k].offset + WriteCalls(c)[k].length <= c.size
<1> DEFINE base == Extent(0, c.size, 0)
<1>0. c.size \in Nat
  BY DEF IsPlanned
<1>1. base.offset = 0 /\ base.length = c.size /\ base.seed = 0
  BY DEF Extent
<1> HIDE DEF base
<1>2. CASE c.pattern \in {"dense", "repeated"}
  <2>1. WriteCalls(c) = <<base>>
    BY <1>2 DEF WriteCalls, base
  <2> HIDE DEF base
  <2> QED BY <1>0, <1>1, <2>1
<1>3. CASE c.pattern \in {"sparse", "partial"} /\ c.size = 0 /\ c.extents = <<>>
  <2>1. WriteCalls(c) = <<>> \/ WriteCalls(c) = <<base>>
    BY <1>3 DEF WriteCalls, base
  <2> QED BY <1>0, <1>1, <2>1
<1>4. CASE c.pattern = "sparse" /\ c.extents = <<c.extents[1]>> /\ IsSegment(c.extents[1], c.size)
  <2> DEFINE x == c.extents[1]
  <2>1. WriteCalls(c) = <<x>>
    BY <1>4 DEF WriteCalls
  <2>2. x.offset \in Nat /\ x.length \in Nat /\ x.seed \in Nat /\ x.offset + x.length <= c.size
    BY <1>4 DEF IsSegment
  <2> HIDE DEF x
  <2> QED BY <1>0, <2>1, <2>2
<1>5. CASE /\ c.pattern = "partial" /\ c.extents = <<c.extents[1], c.extents[2]>>
           /\ IsSegment(c.extents[1], c.size) /\ IsSegment(c.extents[2], c.size)
  <2> DEFINE x == c.extents[1]
             y == c.extents[2]
  <2>1. x.offset \in Nat /\ x.length \in Nat /\ x.seed \in Nat /\ x.offset + x.length <= c.size
    BY <1>5 DEF IsSegment
  <2>2. y.offset \in Nat /\ y.length \in Nat /\ y.seed \in Nat /\ y.offset + y.length <= c.size
    BY <1>5 DEF IsSegment
  <2>3. WriteCalls(c) = <<base>> \o c.extents /\ c.extents = <<x, y>>
    BY <1>5 DEF WriteCalls, base
  <2> HIDE DEF x, y
  <2>4. WriteCalls(c) = <<base>> \o <<x, y>>
    BY <2>3
  <2>5. Len(WriteCalls(c)) = 3 /\ DOMAIN WriteCalls(c) = 1 .. 3
        /\ WriteCalls(c)[1] = base /\ WriteCalls(c)[2] = x /\ WriteCalls(c)[3] = y
    BY <2>4
  <2> QED BY <1>0, <1>1, <2>1, <2>2, <2>5
<1> QED BY <1>2, <1>3, <1>4, <1>5 DEF IsPlanned

(* A byte that a call writes is one. *)
LEMMA ByteAtType ==
  ASSUME NEW c, IsPlanned(c), NEW k \in DOMAIN WriteCalls(c), NEW q \in Nat
  PROVE  ByteAt(c, WriteCalls(c)[k], q) \in Bytes /\ ByteAt(c, WriteCalls(c)[k], q) # Hole
<1>1. WriteCalls(c)[k].seed \in Nat
  BY CallsShape
<1>2. CASE c.pattern # "repeated"
  BY <1>1, <1>2 DEF ByteAt, Bytes, Hole
<1>3. CASE c.pattern = "repeated"
  <2> DEFINE r == q % Chunk
             b == c.block
  <2>1. b \in Nat \ {0}
    BY <1>3, ContentAssumption DEF IsPlanned
  <2>2. r \in Nat
    BY ContentAssumption
  <2> HIDE DEF r, b
  <2>3. r % b \in Nat
    BY <2>1, <2>2
  <2>4. ByteAt(c, WriteCalls(c)[k], q) = <<Block, r % b>>
    BY <1>3 DEF ByteAt, r, b
  <2> QED BY <2>3, <2>4 DEF Bytes, Hole, Block
<1> QED BY <1>2, <1>3

(* Nothing is written when the file is created. *)
LEMMA WritingStarts ==
  ASSUME NEW c, IsPlanned(c)
  PROVE  Writing(c, <<>>, 1, 0, 0)
<1>1. /\ c.size \in Nat /\ Len(WriteCalls(c)) \in 0 .. 3
      /\ \A k \in DOMAIN WriteCalls(c) : WriteCalls(c)[k].offset \in Nat /\ WriteCalls(c)[k].length \in Nat
      /\ DOMAIN WriteCalls(c) = 1 .. Len(WriteCalls(c))
  BY CallsShape
<1>2. \A o \in Nat : Wrote(c, 1, 0, o) = {}
  BY <1>1 DEF Wrote, Covers
<1>3. <<>> \in Seq(Bytes) /\ Len(<<>>) = 0
  OBVIOUS
<1> QED BY <1>1, <1>2, <1>3 DEF Writing, Before3


(***************************************************************************)
(* One turn of the loop keeps what was written, puts its chunk where the   *)
(* call is, and counts it.                                                 *)
(***************************************************************************)
LEMMA WritingChunk ==
  ASSUME NEW c, IsPlanned(c), NEW f, NEW m, NEW p, NEW w, Writing(c, f, m, p, w),
         m <= Len(WriteCalls(c)), p < WriteCalls(c)[m].length
  PROVE  LET x == WriteCalls(c)[m]
             n == ChunkLen(x, p)
         IN  Writing(c, WriteAt(f, c, x, p), m, p + n, w + n)
<1> DEFINE x == WriteCalls(c)[m]
           n == ChunkLen(x, p)
           g == WriteAt(f, c, x, p)
           from == x.offset + p
           to == from + n - 1
<1>1. /\ c.size \in Nat /\ DOMAIN WriteCalls(c) = 1 .. Len(WriteCalls(c))
      /\ Len(WriteCalls(c)) \in Nat
      /\ \A k \in DOMAIN WriteCalls(c) : WriteCalls(c)[k].offset \in Nat /\ WriteCalls(c)[k].length \in Nat
  BY CallsShape
<1>2. m \in DOMAIN WriteCalls(c) /\ p \in Nat /\ m \in Nat
  BY <1>1 DEF Writing
<1>3. x.offset \in Nat /\ x.length \in Nat /\ x.offset + x.length <= c.size
  BY <1>2, CallsShape
<1>4. n \in Nat /\ n >= 1 /\ p + n <= x.length
  BY <1>2, <1>3, ContentAssumption DEF ChunkLen, Least
<1>5. from \in Nat /\ to \in Nat /\ from <= to /\ to + 1 <= c.size /\ to + 1 = x.offset + (p + n)
  <2> DEFINE a == x.offset
             l == x.length
             s == c.size
  <2>1. a \in Nat /\ l \in Nat /\ s \in Nat /\ p \in Nat /\ n \in Nat
        /\ n >= 1 /\ p + n <= l /\ a + l <= s
    BY <1>1, <1>2, <1>3, <1>4
  <2> HIDE DEF a, l, s, n
  <2>2. /\ a + p \in Nat /\ a + p + n - 1 \in Nat /\ a + p <= a + p + n - 1
        /\ a + p + n - 1 + 1 <= s /\ a + p + n - 1 + 1 = a + (p + n)
    BY ONLY <2>1
  <2> QED BY <2>2 DEF a, s
<1>6. f \in Seq(Bytes) /\ Len(f) \in Nat /\ Len(f) <= c.size
      /\ \A i \in 1 .. Len(f) : f[i] \in Bytes
  BY DEF Writing
<1> DEFINE size == IF Len(f) > to THEN Len(f) ELSE to + 1
<1>7. size \in Nat /\ size <= c.size /\ size >= Len(f) /\ size >= to + 1
  BY <1>5, <1>6
<1>8. g = [i \in 1 .. size |->
             IF i - 1 \in from .. to THEN ByteAt(c, x, i - 1 - x.offset)
             ELSE IF i <= Len(f) THEN f[i] ELSE Hole]
  BY DEF WriteAt
<1> HIDE DEF from, to, n, g, size
<1>9. \A i \in 1 .. size : i - 1 \in from .. to => i - 1 - x.offset \in Nat
  BY <1>2, <1>3, <1>5, <1>7 DEF from
<1>10. \A q \in Nat : ByteAt(c, x, q) \in Bytes
  BY <1>2, ByteAtType
<1>11. Hole \in Bytes
  BY DEF Hole, Bytes
<1>12. \A i \in 1 .. size : g[i] \in Bytes
  BY <1>6, <1>8, <1>9, <1>10, <1>11
<1>13. g \in Seq(Bytes) /\ Len(g) = size
  <2>1. g \in [1 .. size -> Bytes]
    BY <1>8, <1>12
  <2> QED BY <2>1, <1>7
<1>14. \A o \in Nat : /\ o \in from .. to => /\ Wrote(c, m, p + n, o) = Wrote(c, m, p, o) \cup {m}
                      /\ o \notin from .. to => Wrote(c, m, p + n, o) = Wrote(c, m, p, o)
  <2> SUFFICES ASSUME NEW o \in Nat
               PROVE  /\ o \in from .. to => /\ Wrote(c, m, p + n, o) = Wrote(c, m, p, o) \cup {m}
                      /\ o \notin from .. to => Wrote(c, m, p + n, o) = Wrote(c, m, p, o)
    OBVIOUS
  <2>1. \A k \in DOMAIN WriteCalls(c) :
          (k < m \/ (k = m /\ o < WriteCalls(c)[k].offset + (p + n)))
          <=> ((k < m \/ (k = m /\ o < WriteCalls(c)[k].offset + p)) \/ (k = m /\ o \in from .. to))
    BY <1>1, <1>2, <1>3, <1>4, <1>5 DEF from
  <2>2. o \in from .. to => Covers(x, o)
    BY <1>2, <1>3, <1>4, <1>5 DEF from, Covers
  <2> QED BY <2>1, <2>2, <1>2 DEF Wrote
<1>15. ASSUME NEW o \in 0 .. c.size - 1, Wrote(c, m, p + n, o) # {}
       PROVE  o < Len(g)
  <2>1. CASE o \in from .. to
    BY <2>1, <1>5, <1>7, <1>13
  <2>2. CASE o \notin from .. to
    <3>1. Wrote(c, m, p, o) # {}
      BY <2>2, <1>1, <1>14, <1>15
    <3>2. o < Len(f)
      BY <3>1 DEF Writing
    <3> QED BY <3>2, <1>1, <1>6, <1>7, <1>13
  <2> QED BY <2>1, <2>2
<1>16. ASSUME NEW i \in 1 .. Len(g)
       PROVE  LastOf(c, Wrote(c, m, p + n, i - 1), i - 1, g[i])
  <2> DEFINE o == i - 1
  <2>0. o \in Nat /\ i \in 1 .. size /\ i = o + 1
    BY <1>7, <1>13
  <2>1. CASE o \in from .. to
    <3>1. Wrote(c, m, p + n, o) = Wrote(c, m, p, o) \cup {m}
      BY <2>0, <2>1, <1>14
    <3>2. \A j \in Wrote(c, m, p + n, o) : j <= m
      BY <3>1, <1>1, <1>2 DEF Wrote
    <3>3. g[i] = ByteAt(c, x, o - x.offset)
      BY <2>0, <2>1, <1>8
    <3> QED BY <3>1, <3>2, <3>3 DEF LastOf
  <2>2. CASE o \notin from .. to
    <3>1. Wrote(c, m, p + n, o) = Wrote(c, m, p, o)
      BY <2>0, <2>2, <1>14
    <3>2. CASE i <= Len(f)
      <4>1. g[i] = f[i]
        BY <2>0, <2>2, <3>2, <1>8
      <4>2. LastOf(c, Wrote(c, m, p, o), o, f[i])
        BY <2>0, <3>2, <1>6 DEF Writing
      <4> QED BY <3>1, <4>1, <4>2
    <3>3. CASE ~ (i <= Len(f))
      <4>1. g[i] = Hole
        BY <2>0, <2>2, <3>3, <1>8
      <4>2. o \in 0 .. c.size - 1 /\ ~ (o < Len(f))
        BY <2>0, <3>3, <1>1, <1>6, <1>7
      <4>3. Wrote(c, m, p, o) = {}
        BY <4>2 DEF Writing
      <4> QED BY <3>1, <4>1, <4>3 DEF LastOf
    <3> QED BY <3>2, <3>3
  <2> QED BY <2>1, <2>2
<1>17. w + n = Before3(c, m) + (p + n)
  <2>1. w = Before3(c, m) + p
    BY DEF Writing
  <2>2. Before3(c, m) \in Int
    <3>1. Len(WriteCalls(c)) \in 0 .. 3
      BY CallsShape
    <3>2. m \in 1 .. 3 /\ m <= Len(WriteCalls(c))
      BY <3>1, <1>1, <1>2
    <3>3. \A k \in 1 .. m : WriteCalls(c)[k].length \in Nat
      BY <3>2, <1>1
    <3> QED BY <3>2, <3>3 DEF Before3
  <2> QED BY <2>1, <2>2, <1>2, <1>4
<1>18. Writing(c, g, m, p + n, w + n)
  <2>1. m \in 1 .. Len(WriteCalls(c)) + 1
    BY DEF Writing
  <2>2. p + n \in Nat
    BY <1>2, <1>4
  <2>3. m <= Len(WriteCalls(c)) => p + n <= WriteCalls(c)[m].length
    BY <1>4
  <2>4. m > Len(WriteCalls(c)) => p + n = 0
    BY <1>1, <1>2
  <2> QED BY <2>1, <2>2, <2>3, <2>4, <1>7, <1>13, <1>15, <1>16, <1>17 DEF Writing
<1> QED BY <1>18 DEF g, n

(* A call that is done makes room for the next. *)
LEMMA WritingNext ==
  ASSUME NEW c, IsPlanned(c), NEW f, NEW m, NEW p, NEW w, Writing(c, f, m, p, w),
         m <= Len(WriteCalls(c)), p >= WriteCalls(c)[m].length
  PROVE  Writing(c, f, m + 1, 0, w)
<1>1. /\ c.size \in Nat /\ DOMAIN WriteCalls(c) = 1 .. Len(WriteCalls(c))
      /\ Len(WriteCalls(c)) \in 0 .. 3
      /\ \A k \in DOMAIN WriteCalls(c) : WriteCalls(c)[k].offset \in Nat /\ WriteCalls(c)[k].length \in Nat
  BY CallsShape
<1>2. m \in DOMAIN WriteCalls(c) /\ p \in Nat /\ m \in Nat
  BY <1>1 DEF Writing
<1>3. p = WriteCalls(c)[m].length
  BY <1>1, <1>2 DEF Writing
<1>4. ASSUME NEW o \in Nat
      PROVE  Wrote(c, m + 1, 0, o) = Wrote(c, m, p, o)
  <2>1. \A k \in DOMAIN WriteCalls(c) : Covers(WriteCalls(c)[k], o) =>
          ((k < m + 1 \/ (k = m + 1 /\ o < WriteCalls(c)[k].offset + 0))
           <=> (k < m \/ (k = m /\ o < WriteCalls(c)[k].offset + p)))
    BY <1>1, <1>2, <1>3 DEF Covers
  <2> QED BY <2>1 DEF Wrote
<1>5. Before3(c, m + 1) + 0 = Before3(c, m) + p
  <2>1. m \in 1 .. 3 /\ m <= Len(WriteCalls(c))
    BY <1>1, <1>2
  <2>2. CASE m = 1
    BY <2>1, <2>2, <1>1, <1>3 DEF Before3
  <2>3. CASE m = 2
    BY <2>1, <2>3, <1>1, <1>3 DEF Before3
  <2>4. CASE m = 3
    BY <2>1, <2>4, <1>1, <1>3 DEF Before3
  <2> QED BY <2>1, <2>2, <2>3, <2>4
<1>6. \A i \in 1 .. Len(f) : i - 1 \in Nat
  BY DEF Writing
<1>7. m + 1 <= Len(WriteCalls(c)) => 0 <= WriteCalls(c)[m + 1].length
  BY <1>1, <1>2
<1>8. m + 1 \in 1 .. Len(WriteCalls(c)) + 1
  BY <1>1, <1>2
<1>9. \A o \in 0 .. c.size - 1 : Wrote(c, m + 1, 0, o) # {} => o < Len(f)
  BY <1>1, <1>4 DEF Writing
<1>10. \A i \in 1 .. Len(f) : LastOf(c, Wrote(c, m + 1, 0, i - 1), i - 1, f[i])
  BY <1>4, <1>6 DEF Writing
<1>11. f \in Seq(Bytes) /\ Len(f) <= c.size /\ w = Before3(c, m + 1) + 0
  BY <1>5 DEF Writing
<1> QED BY <1>7, <1>8, <1>9, <1>10, <1>11 DEF Writing


(* What is promised of a byte, with the calls instead of the extents. *)
LEMMA PromisedLast ==
  ASSUME NEW c, IsPlanned(c), NEW o \in 0 .. c.size - 1, NEW b,
         LastOf(c, {k \in DOMAIN WriteCalls(c) : Covers(WriteCalls(c)[k], o)}, o, b)
  PROVE  b = PromisedByte(c, o)
<1> DEFINE K == {k \in DOMAIN WriteCalls(c) : Covers(WriteCalls(c)[k], o)}
           over == {k \in DOMAIN c.extents : Covers(c.extents[k], o)}
           base == Extent(0, c.size, 0)
<1>0. c.size \in Nat /\ o \in Nat /\ o < c.size
  BY CallsShape
<1>1. base.offset = 0 /\ base.length = c.size /\ base.seed = 0 /\ Covers(base, o)
  BY <1>0 DEF Extent, Covers
<1>2. CASE c.pattern \in {"dense", "repeated"} /\ c.extents = <<>>
  <2>1. WriteCalls(c) = <<base>>
    BY <1>2 DEF WriteCalls
  <2>2. K = {1} /\ WriteCalls(c)[1] = base
    <3> HIDE DEF base
    <3> QED BY <2>1, <1>1
  <2>3. b = ByteAt(c, base, o - base.offset)
    BY <2>2 DEF LastOf
  <2>4. b = ByteAt(c, base, o)
    BY <2>3, <1>0, <1>1
  <2>5. over = {}
    BY <1>2
  <2> QED BY <1>1, <1>2, <2>4, <2>5 DEF ByteAt, PromisedByte
<1>3. CASE c.pattern = "sparse" /\ c.extents = <<c.extents[1]>>
  <2>1. WriteCalls(c) = c.extents
    BY <1>3 DEF WriteCalls
  <2>2. K = over /\ DOMAIN c.extents = {1}
    BY <1>3, <2>1
  <2>3. CASE over = {}
    BY <1>3, <2>2, <2>3 DEF LastOf, PromisedByte
  <2>4. CASE over # {}
    <3>1. over = {1}
      BY <2>2, <2>4
    <3>2. (CHOOSE k \in over : \A j \in over : j <= k) = 1
      BY <3>1
    <3>3. b = ByteAt(c, c.extents[1], o - c.extents[1].offset)
      BY <3>1, <2>1, <2>2 DEF LastOf
    <3> QED BY <1>3, <2>4, <3>2, <3>3 DEF ByteAt, PromisedByte
  <2> QED BY <2>3, <2>4
<1>4. CASE /\ c.pattern = "partial" /\ c.extents = <<c.extents[1], c.extents[2]>>
  <2> DEFINE x == c.extents[1]
             y == c.extents[2]
  <2>1. WriteCalls(c) = <<base>> \o c.extents /\ c.extents = <<x, y>>
    BY <1>4 DEF WriteCalls
  <2> HIDE DEF x, y, base
  <2>2. WriteCalls(c) = <<base>> \o <<x, y>>
    BY <2>1
  <2>3. /\ DOMAIN WriteCalls(c) = 1 .. 3 /\ WriteCalls(c)[1] = base
        /\ WriteCalls(c)[2] = x /\ WriteCalls(c)[3] = y
        /\ DOMAIN c.extents = 1 .. 2 /\ c.extents[1] = x /\ c.extents[2] = y
    BY <2>1, <2>2
  <2>4. /\ 1 \in K /\ K \subseteq 1 .. 3
        /\ 2 \in K <=> Covers(x, o)
        /\ 3 \in K <=> Covers(y, o)
        /\ over \subseteq {1, 2}
        /\ 1 \in over <=> Covers(x, o)
        /\ 2 \in over <=> Covers(y, o)
    BY <2>3, <1>1
  <2> HIDE DEF K, over
  <2>5. PICK k \in K : /\ \A j \in K : j <= k
                       /\ b = ByteAt(c, WriteCalls(c)[k], o - WriteCalls(c)[k].offset)
    BY <2>4 DEF LastOf, K
  <2>6. PromisedByte(c, o) = LET last == c.extents[CHOOSE i \in over : \A j \in over : j <= i]
                             IN  IF over # {} THEN <<last.seed, o - last.offset>> ELSE <<0, o>>
    BY <1>4 DEF PromisedByte, over
  <2>7. CASE k = 1
    <3>1. over = {}
      BY <2>4, <2>5, <2>7
    <3>2. b = <<0, o>>
      BY <1>0, <1>1, <1>4, <2>3, <2>5, <2>7 DEF ByteAt
    <3> QED BY <2>6, <3>1, <3>2
  <2>8. CASE k = 2
    <3>0. 3 \notin K /\ 2 \in K
      BY <2>5, <2>8
    <3>1. over = {1}
      BY <3>0, <2>4
    <3>2. (CHOOSE i \in over : \A j \in over : j <= i) = 1
      BY <3>1
    <3>3. b = <<x.seed, o - x.offset>>
      BY <1>4, <2>3, <2>5, <2>8 DEF ByteAt
    <3> QED BY <2>3, <2>6, <3>1, <3>2, <3>3
  <2>9. CASE k = 3
    <3>0. 3 \in K
      BY <2>5, <2>9
    <3>1. over = {1, 2} \/ over = {2}
      BY <3>0, <2>4
    <3>2. (CHOOSE i \in over : \A j \in over : j <= i) = 2
      BY <3>1
    <3>3. b = <<y.seed, o - y.offset>>
      BY <1>4, <2>3, <2>5, <2>9 DEF ByteAt
    <3> QED BY <2>3, <2>6, <3>1, <3>2, <3>3
  <2> QED BY <2>4, <2>7, <2>8, <2>9
<1> QED BY <1>0, <1>2, <1>3, <1>4 DEF IsPlanned

(* All that the calls write is what is planned to be written. *)
LEMMA WrittenInAll ==
  ASSUME NEW c, IsPlanned(c)
  PROVE  Before3(c, Len(WriteCalls(c)) + 1) = c.written
<1> DEFINE base == Extent(0, c.size, 0)
<1>0. c.size \in Nat
  BY DEF IsPlanned
<1>1. base.length = c.size
  BY DEF Extent
<1>2. CASE c.pattern \in {"dense", "repeated"} /\ c.written = c.size
  <2>1. WriteCalls(c) = <<base>>
    BY <1>2 DEF WriteCalls
  <2>2. Len(WriteCalls(c)) = 1 /\ WriteCalls(c)[1] = base
    <3> HIDE DEF base
    <3> QED BY <2>1
  <2> QED BY <1>1, <1>2, <2>2 DEF Before3
<1>3. CASE c.pattern \in {"sparse", "partial"} /\ c.size = 0 /\ c.extents = <<>> /\ c.written = 0
  <2>1. WriteCalls(c) = <<>> \/ WriteCalls(c) = <<base>>
    BY <1>3 DEF WriteCalls
  <2>2. Len(WriteCalls(c)) = 0 \/ (Len(WriteCalls(c)) = 1 /\ WriteCalls(c)[1] = base)
    <3> HIDE DEF base
    <3> QED BY <2>1
  <2>3. CASE Len(WriteCalls(c)) = 0
    BY <1>3, <2>3 DEF Before3
  <2>4. CASE Len(WriteCalls(c)) = 1 /\ WriteCalls(c)[1] = base
    BY <1>1, <1>3, <2>4 DEF Before3
  <2> QED BY <2>2, <2>3, <2>4
<1>4. CASE /\ c.pattern = "sparse" /\ c.extents = <<c.extents[1]>> /\ c.written = c.extents[1].length
  <2>1. WriteCalls(c) = c.extents
    BY <1>4 DEF WriteCalls
  <2>2. Len(WriteCalls(c)) = 1 /\ WriteCalls(c)[1] = c.extents[1]
    BY <1>4, <2>1
  <2> QED BY <1>4, <2>2 DEF Before3
<1>5. CASE /\ c.pattern = "partial" /\ c.extents = <<c.extents[1], c.extents[2]>>
           /\ c.written = c.size + c.extents[1].length + c.extents[2].length
  <2> DEFINE x == c.extents[1]
             y == c.extents[2]
  <2>1. WriteCalls(c) = <<base>> \o c.extents /\ c.extents = <<x, y>>
    BY <1>5 DEF WriteCalls
  <2> HIDE DEF x, y, base
  <2>2. WriteCalls(c) = <<base>> \o <<x, y>>
    BY <2>1
  <2>3. /\ Len(WriteCalls(c)) = 3 /\ WriteCalls(c)[1] = base
        /\ WriteCalls(c)[2] = x /\ WriteCalls(c)[3] = y
    BY <2>2
  <2>4. c.written = c.size + x.length + y.length
    BY <1>5 DEF x, y
  <2> QED BY <1>1, <2>3, <2>4 DEF Before3
<1> QED BY <1>2, <1>3, <1>4, <1>5 DEF IsPlanned

(***************************************************************************)
(* When all calls are done, Truncate leaves the promised file, the bytes   *)
(* are counted, and a byte is a hole only where the plan has one.          *)
(***************************************************************************)
LEMMA WritingEnds ==
  ASSUME NEW c, IsPlanned(c), NEW f, NEW m, NEW p, NEW w, Writing(c, f, m, p, w),
         m > Len(WriteCalls(c))
  PROVE  /\ Truncated(f, c.size) = [i \in 1 .. c.size |-> PromisedByte(c, i - 1)]
         /\ w = c.written
<1>1. /\ c.size \in Nat /\ DOMAIN WriteCalls(c) = 1 .. Len(WriteCalls(c))
      /\ Len(WriteCalls(c)) \in 0 .. 3
  BY CallsShape
<1>2. m = Len(WriteCalls(c)) + 1 /\ p = 0
  BY <1>1 DEF Writing
<1>3. \A o \in Nat : Wrote(c, m, p, o) = {k \in DOMAIN WriteCalls(c) : Covers(WriteCalls(c)[k], o)}
  BY <1>1, <1>2 DEF Wrote
<1>4. ASSUME NEW i \in 1 .. c.size
      PROVE  Truncated(f, c.size)[i] = PromisedByte(c, i - 1)
  <2> DEFINE o == i - 1
             b == Truncated(f, c.size)[i]
  <2>1. o \in 0 .. c.size - 1 /\ o \in Nat
    BY <1>1
  <2>2. LastOf(c, Wrote(c, m, p, o), o, b)
    <3>1. CASE i <= Len(f)
      <4>1. b = f[i]
        BY <3>1, <1>1 DEF Truncated
      <4>2. i \in 1 .. Len(f)
        BY <3>1, <1>1 DEF Writing
      <4> QED BY <4>1, <4>2 DEF Writing
    <3>2. CASE ~ (i <= Len(f))
      <4>1. b = Hole
        BY <3>2, <1>1 DEF Truncated
      <4>2. ~ (o < Len(f))
        <5>1. Len(f) \in Nat
          BY DEF Writing
        <5> QED BY <5>1, <3>2, <1>1
      <4>3. Wrote(c, m, p, o) = {}
        BY <4>2, <2>1 DEF Writing
      <4> QED BY <4>1, <4>3 DEF LastOf
    <3> QED BY <3>1, <3>2
  <2>3. LastOf(c, {k \in DOMAIN WriteCalls(c) : Covers(WriteCalls(c)[k], o)}, o, b)
    BY <2>1, <2>2, <1>3
  <2> HIDE DEF b, o
  <2>4. b = PromisedByte(c, o)
    BY ONLY <2>1, <2>3, PromisedLast, IsPlanned(c)
  <2> QED BY <2>4 DEF b, o
<1>5. Truncated(f, c.size) = [i \in 1 .. c.size |-> PromisedByte(c, i - 1)]
  BY <1>4 DEF Truncated
<1>6. w = Before3(c, m) + 0
  BY <1>2 DEF Writing
<1>7. w = c.written
  <2>1. Before3(c, m) = c.written
    BY <1>2, WrittenInAll
  <2>2. c.written \in Int
    BY DEF IsPlanned, IsSegment
  <2> QED BY <1>6, <2>1, <2>2
<1> QED BY <1>5, <1>7

(* A plan has a hole if and only if it expects one. *)
LEMMA HolesPlanned ==
  ASSUME NEW c, IsPlanned(c)
  PROVE  c.sparse <=> \E i \in 1 .. c.size : PromisedByte(c, i - 1) = Hole
<1>0. c.size \in Nat
  BY DEF IsPlanned
<1>1. CASE c.size = 0
  <2>1. ~ c.sparse
    BY <1>1 DEF IsPlanned, IsSegment
  <2> QED BY <2>1, <1>1
<1>2. CASE c.pattern # "sparse"
  <2>1. c.sparse = FALSE
    BY <1>2 DEF IsPlanned
  <2>2. \A o \in Nat : PromisedByte(c, o) # Hole
    <3> SUFFICES ASSUME NEW o \in Nat PROVE PromisedByte(c, o) # Hole
      OBVIOUS
    <3> DEFINE over == {k \in DOMAIN c.extents : Covers(c.extents[k], o)}
               k0 == CHOOSE k \in over : \A j \in over : j <= k
    <3>1. CASE c.pattern = "repeated"
      BY <3>1 DEF PromisedByte, Hole, Block
    <3>2. CASE c.pattern # "repeated" /\ over = {}
      BY <3>2, <1>2 DEF PromisedByte, Hole
    <3>3. CASE c.pattern = "partial" /\ over # {}
      <4>1. /\ c.extents = <<c.extents[1], c.extents[2]>>
            /\ c.extents[1].seed \in Nat /\ c.extents[2].seed \in Nat
        BY <3>3 DEF IsPlanned, IsSegment
      <4>2. over \subseteq {1, 2}
        BY <4>1
      <4> HIDE DEF over
      <4>3. over \in {{1}, {2}, {1, 2}}
        BY <3>3, <4>2
      <4>4. k0 \in over
        <5>1. \E k \in over : \A j \in over : j <= k
          BY <4>3
        <5> QED BY <5>1
      <4>5. c.extents[k0].seed \in Nat
        BY <4>1, <4>2, <4>4
      <4>6. PromisedByte(c, o) = <<c.extents[k0].seed, o - c.extents[k0].offset>>
        BY <3>3 DEF PromisedByte, over
      <4> QED BY <4>5, <4>6 DEF Hole
    <3>4. c.pattern \in {"dense", "repeated"} \/ c.pattern = "partial"
      BY <1>2 DEF IsPlanned
    <3>5. c.pattern = "dense" => over = {}
      BY DEF IsPlanned
    <3> QED BY <3>1, <3>2, <3>3, <3>4, <3>5
  <2>3. \A i \in 1 .. c.size : i - 1 \in Nat
    BY <1>0
  <2> QED BY <2>1, <2>2, <2>3
<1>3. CASE c.pattern = "sparse" /\ c.size # 0
  <2> DEFINE x == c.extents[1]
  <2>1. /\ c.extents = <<x>> /\ x.offset \in Nat /\ x.length \in Nat \ {0} /\ x.seed \in Nat
        /\ x.offset + x.length <= c.size /\ c.sparse = (c.size > x.length)
    BY <1>3 DEF IsPlanned, IsSegment
  <2>2. \A o \in Nat : PromisedByte(c, o) = IF Covers(x, o) THEN <<x.seed, o - x.offset>> ELSE Hole
    <3> SUFFICES ASSUME NEW o \in Nat
                 PROVE  PromisedByte(c, o) = IF Covers(x, o) THEN <<x.seed, o - x.offset>> ELSE Hole
      OBVIOUS
    <3> DEFINE over == {k \in DOMAIN c.extents : Covers(c.extents[k], o)}
    <3>1. DOMAIN c.extents = {1}
      BY <2>1
    <3>2. CASE Covers(x, o)
      <4>1. over = {1}
        BY <3>1, <3>2
      <4>2. (CHOOSE k \in over : \A j \in over : j <= k) = 1
        BY <4>1
      <4> QED BY <1>3, <3>2, <4>1, <4>2 DEF PromisedByte
    <3>3. CASE ~ Covers(x, o)
      <4>1. over = {}
        BY <3>1, <3>3
      <4> QED BY <1>3, <3>3, <4>1 DEF PromisedByte
    <3> QED BY <3>2, <3>3
  <2> HIDE DEF x
  <2>3. \A o \in Nat : PromisedByte(c, o) = Hole <=> ~ Covers(x, o)
    BY <2>1, <2>2 DEF Hole
  <2>4. CASE c.size > x.length
    <3> DEFINE i == IF x.offset > 0 THEN 1 ELSE x.length + 1
    <3>1. i \in 1 .. c.size /\ i - 1 \in Nat
      BY <2>1, <2>4, <1>0
    <3>2. ~ Covers(x, i - 1)
      BY <2>1 DEF Covers
    <3> HIDE DEF i
    <3>3. \E j \in 1 .. c.size : PromisedByte(c, j - 1) = Hole
      BY <3>1, <3>2, <2>3
    <3> QED BY <3>3, <2>1, <2>4
  <2>5. CASE ~ (c.size > x.length)
    <3>1. x.offset = 0 /\ x.length = c.size
      BY <2>1, <2>5, <1>0
    <3>2. \A j \in 1 .. c.size : j - 1 \in Nat /\ Covers(x, j - 1)
      BY <3>1, <1>0 DEF Covers
    <3>3. ~ c.sparse
      BY <2>1, <2>5
    <3> QED BY <3>2, <3>3, <2>3
  <2> QED BY <2>4, <2>5
<1> QED BY <1>1, <1>2, <1>3

-----------------------------------------------------------------------------
(* Least and greatest numbers *)

(* A set of naturals that is not empty has a least element. *)
LEMMA LeastNat ==
  ASSUME NEW S \in SUBSET Nat, S # {}
  PROVE  \E m \in S : \A n \in S : m <= n
<1>1. PICK m \in S : \A n \in S : ~ (<<n, m>> \in OpToRel(<, Nat))
  BY NatLessThanWellFounded, WFMin, Zenon
<1>2. \A n \in S : ~ (n < m)
  BY <1>1 DEF OpToRel
<1> QED
  BY <1>2

(* A bounded one has a greatest. *)
LEMMA GreatestNat ==
  ASSUME NEW b \in Nat, NEW S \in SUBSET (1 .. b), S # {}
  PROVE  \E m \in S : \A n \in S : n <= m
<1> DEFINE D == {d \in Nat : \E n \in S : d = b - n}
<1>1. D # {}
  <2>1. PICK n \in S : TRUE
    OBVIOUS
  <2>2. b - n \in Nat
    OBVIOUS
  <2> DEFINE d == b - n
  <2>3. d \in D
    BY <2>2
  <2> QED BY <2>3
<1>2. PICK d \in D : \A e \in D : d <= e
  <2> HIDE DEF D
  <2>1. D \subseteq Nat
    BY DEF D
  <2> QED BY <2>1, <1>1, LeastNat
<1>3. PICK m \in S : d = b - m
  BY <1>2
<1>4. ASSUME NEW n \in S PROVE n <= m
  <2> DEFINE e == b - n
  <2>1. e \in Nat /\ e \in D
    OBVIOUS
  <2>2. d <= e
    BY <2>1, <1>2
  <2> QED BY <2>2, <1>3
<1> QED BY <1>4

-----------------------------------------------------------------------------
(* ACLs: canonical order *)

(* The six ranks tell the tags apart. *)
LEMMA RankOfTag ==
  ASSUME NEW k, IsKey(k)
  PROVE  tagSortRank(k[1]) \in 1 .. 6 /\ Ranks[tagSortRank(k[1])] = k[1]
<1>1. DOMAIN Ranks = 1 .. 6
  BY DEF Ranks
<1>2. \E n \in DOMAIN Ranks : Ranks[n] = k[1]
  BY DEF IsKey
<1> QED BY <1>1, <1>2 DEF tagSortRank

(* Before is an order, and total on records with different keys. *)
LEMMA BeforeOrder ==
  ASSUME NEW a, NEW b, IsKey(a[1]), IsKey(b[1])
  PROVE  /\ ~ Before(a, a)
         /\ Before(a, b) => ~ Before(b, a)
         /\ a[1] # b[1] => Before(a, b) \/ Before(b, a)
         /\ \A c : IsKey(c[1]) /\ Before(a, b) /\ Before(b, c) => Before(a, c)
<1> DEFINE T(r) == tagSortRank(r[1][1])
<1>1. \A r : IsKey(r[1]) => T(r) \in 1 .. 6 /\ Ranks[T(r)] = r[1][1] /\ r[1][2] \in Int /\ r[1] = <<r[1][1], r[1][2]>>
  BY RankOfTag DEF IsKey, Key
<1>2. \A r, q : Before(r, q) <=> (T(r) < T(q) \/ (r[1][1] = q[1][1] /\ r[1][2] < q[1][2]))
  BY DEF Before
<1>3. \A r, q : r[1][1] = q[1][1] => T(r) = T(q)
  OBVIOUS
<1> HIDE DEF T
<1>4. ~ Before(a, a) /\ (Before(a, b) => ~ Before(b, a))
  BY <1>1, <1>2, <1>3
<1>5. ASSUME a[1] # b[1] PROVE Before(a, b) \/ Before(b, a)
  <2>1. a[1][1] # b[1][1] \/ a[1][2] # b[1][2]
    BY <1>1, <1>5
  <2>2. a[1][1] # b[1][1] => T(a) # T(b)
    BY <1>1
  <2> QED BY <2>1, <2>2, <1>1, <1>2
<1>6. ASSUME NEW c, IsKey(c[1]), Before(a, b), Before(b, c) PROVE Before(a, c)
  BY <1>1, <1>2, <1>3, <1>6
<1> QED BY <1>4, <1>5, <1>6

IsAcl(acl) ==
  /\ acl = [k \in DOMAIN acl |-> acl[k]]
  /\ IsFiniteSet(DOMAIN acl)
  /\ \A k \in DOMAIN acl : IsKey(k)

RecordsOf(acl) == {<<k, acl[k]>> : k \in DOMAIN acl}
RankIn(R, r) == Cardinality({q \in R : Before(q, r)})

(* A list holds n different records in canonical order. *)
Lists(M, R) ==
  /\ M \in Seq(R)
  /\ \A i, j \in DOMAIN M : i < j => Before(M[i], M[j])
  /\ \A r \in R : \E i \in DOMAIN M : M[i] = r

(***************************************************************************)
(* Marshal lists every record of an ACL once and in canonical order: their *)
(* ranks are different, so each place is taken by one of them.             *)
(***************************************************************************)
LEMMA MarshalLists ==
  ASSUME NEW acl, IsAcl(acl)
  PROVE  Lists(Marshal(acl), RecordsOf(acl))
<1> DEFINE R == RecordsOf(acl)
           n == Cardinality(R)
           M == Marshal(acl)
<1>1. IsFiniteSet(R)
  <2> DEFINE f == [k \in DOMAIN acl |-> <<k, acl[k]>>]
  <2>1. f \in Surjection(DOMAIN acl, R)
    BY DEF Surjection, RecordsOf
  <2> HIDE DEF f, R
  <2> QED BY <2>1, FS_Surjection DEF IsAcl
<1>2. n \in Nat
  BY <1>1, FS_CardinalityType
<1>3. \A r \in R : IsKey(r[1])
  BY DEF RecordsOf, IsAcl
<1>4. \A r, q \in R : r # q => r[1] # q[1]
  BY DEF RecordsOf
<1>5. M = [i \in 1 .. n |-> CHOOSE r \in R : RankIn(R, r) = i - 1]
  BY DEF Marshal, RecordsOf, RankIn
<1> HIDE DEF R, M
<1>6. ASSUME NEW r \in R, NEW q \in R, Before(q, r)
      PROVE  RankIn(R, q) < RankIn(R, r)
  <2> DEFINE Q == {x \in R : Before(x, q)}
             P == {x \in R : Before(x, r)}
  <2>1. Q \in SUBSET P
    <3> SUFFICES ASSUME NEW x \in R, Before(x, q) PROVE Before(x, r)
      OBVIOUS
    <3>1. IsKey(x[1]) /\ IsKey(q[1]) /\ IsKey(r[1])
      BY <1>3
    <3> QED BY ONLY <3>1, <1>6, BeforeOrder, Before(x, q)
  <2>2. q \in P /\ q \notin Q
    <3>1. ~ Before(q, q)
      BY <1>3, BeforeOrder
    <3> QED BY <3>1, <1>6
  <2>3. IsFiniteSet(P)
    <3>1. P \in SUBSET R
      OBVIOUS
    <3> HIDE DEF P
    <3> QED BY <3>1, <1>1, FS_Subset
  <2> HIDE DEF P, Q
  <2>4. Cardinality(Q) <= Cardinality(P) /\ (Cardinality(P) = Cardinality(Q) => P = Q) /\ IsFiniteSet(Q)
    BY <2>1, <2>3, FS_Subset
  <2>5. Cardinality(P) \in Nat /\ Cardinality(Q) \in Nat
    BY <2>3, <2>4, FS_CardinalityType
  <2>6. Cardinality(Q) < Cardinality(P)
    BY <2>2, <2>4, <2>5
  <2> QED BY <2>6 DEF P, Q, RankIn
<1>7. ASSUME NEW r \in R PROVE RankIn(R, r) \in 0 .. n - 1
  <2> DEFINE P == {x \in R : Before(x, r)}
  <2>1. P \in SUBSET R /\ r \notin P
    <3>1. ~ Before(r, r)
      BY <1>3, BeforeOrder
    <3> QED BY <3>1
  <2> HIDE DEF P
  <2>2. IsFiniteSet(P) /\ Cardinality(P) <= n /\ (n = Cardinality(P) => R = P)
    BY <2>1, <1>1, FS_Subset
  <2>3. Cardinality(P) \in Nat
    BY <2>2, FS_CardinalityType
  <2>4. Cardinality(P) \in 0 .. n - 1
    BY <2>1, <2>2, <2>3, <1>2
  <2> QED BY <2>4 DEF P, RankIn
<1>8. \A r, q \in R : RankIn(R, r) = RankIn(R, q) => r = q
  <2> SUFFICES ASSUME NEW r \in R, NEW q \in R, RankIn(R, r) = RankIn(R, q), r # q PROVE FALSE
    OBVIOUS
  <2>1. Before(r, q) \/ Before(q, r)
    BY <1>3, <1>4, BeforeOrder
  <2>2. RankIn(R, r) \in Int /\ RankIn(R, q) \in Int
    BY <1>7
  <2> QED BY <2>1, <2>2, <1>6
<1>9. \A i \in 1 .. n : \E r \in R : RankIn(R, r) = i - 1
  <2> DEFINE f == [r \in R |-> RankIn(R, r)]
  <2>1. f \in Injection(R, 0 .. n - 1)
    BY <1>7, <1>8 DEF Injection, IsInjective
  <2>2. IsFiniteSet(0 .. n - 1) /\ Cardinality(0 .. n - 1) = n
    <3>1. IsFiniteSet(0 .. n - 1) /\ Cardinality(0 .. n - 1) = IF 0 > n - 1 THEN 0 ELSE n - 1 - 0 + 1
      BY <1>2, FS_Interval
    <3> QED BY <3>1, <1>2
  <2> HIDE DEF f
  <2>3. f \in Surjection(R, 0 .. n - 1)
    BY <2>1, <2>2, FS_Injection
  <2>4. \A t \in 0 .. n - 1 : \E r \in R : f[r] = t
    BY <2>3 DEF Surjection
  <2>5. \A i \in 1 .. n : i - 1 \in 0 .. n - 1
    BY <1>2
  <2> QED BY <2>4, <2>5 DEF f
<1>10. \A i \in 1 .. n : M[i] \in R /\ RankIn(R, M[i]) = i - 1
  BY <1>5, <1>9
<1>11. M \in Seq(R) /\ Len(M) = n /\ DOMAIN M = 1 .. n
  <2>1. M \in [1 .. n -> R]
    BY <1>5, <1>10
  <2> QED BY <2>1, <1>2
<1>12. ASSUME NEW i \in DOMAIN M, NEW j \in DOMAIN M, i < j
       PROVE  Before(M[i], M[j])
  <2>1. RankIn(R, M[i]) = i - 1 /\ RankIn(R, M[j]) = j - 1 /\ M[i] \in R /\ M[j] \in R
    BY <1>10, <1>11
  <2>2. i \in Int /\ j \in Int
    BY <1>2, <1>11
  <2>3. M[i] # M[j]
    BY <2>1, <2>2, <1>12
  <2>4. Before(M[i], M[j]) \/ Before(M[j], M[i])
    BY <2>1, <2>3, <1>3, <1>4, BeforeOrder
  <2>5. ~ Before(M[j], M[i])
    BY <2>1, <2>2, <1>6, <1>12
  <2> QED BY <2>4, <2>5
<1>13. ASSUME NEW r \in R PROVE \E i \in DOMAIN M : M[i] = r
  <2> DEFINE i == RankIn(R, r) + 1
  <2>1. i \in 1 .. n /\ i - 1 = RankIn(R, r)
    BY <1>2, <1>7
  <2> HIDE DEF i
  <2>2. RankIn(R, M[i]) = RankIn(R, r) /\ M[i] \in R
    BY <2>1, <1>10
  <2> QED BY <2>1, <2>2, <1>8, <1>11
<1> QED BY <1>11, <1>12, <1>13 DEF Lists, R, M

(* What is encoded is decoded. *)
LEMMA ParseMarshal ==
  ASSUME NEW acl, IsAcl(acl)
  PROVE  Parse(Marshal(acl)) = acl /\ IsCanonical(Marshal(acl))
<1> DEFINE R == RecordsOf(acl)
           M == Marshal(acl)
<1>1. /\ M \in Seq(R)
      /\ \A i, j \in DOMAIN M : i < j => Before(M[i], M[j])
      /\ \A r \in R : \E i \in DOMAIN M : M[i] = r
  BY MarshalLists DEF Lists
<1>2. /\ DOMAIN M = 1 .. Len(M) /\ Len(M) \in Nat
      /\ \A i \in DOMAIN M : M[i] \in R
      /\ M = [i \in 1 .. Len(M) |-> M[i]]
  <2> HIDE DEF M, R
  <2> QED BY <1>1
<1>3. \A r \in R : r = <<r[1], r[2]>> /\ r[1] \in DOMAIN acl /\ r[2] = acl[r[1]] /\ IsKey(r[1])
  BY DEF RecordsOf, IsAcl
<1>4. ASSUME NEW k \in DOMAIN acl
      PROVE  \E r \in R : r[1] = k
  <2> DEFINE r == <<k, acl[k]>>
  <2>1. r \in R /\ r[1] = k
    BY DEF RecordsOf
  <2> HIDE DEF r, R
  <2> QED BY <2>1
<1> HIDE DEF M, R
<1>5. {M[i][1] : i \in DOMAIN M} = DOMAIN acl
  <2>1. \A i \in DOMAIN M : M[i][1] \in DOMAIN acl
    BY <1>2, <1>3
  <2>2. ASSUME NEW k \in DOMAIN acl
        PROVE  \E i \in DOMAIN M : M[i][1] = k
    <3>1. PICK r \in R : r[1] = k
      BY <1>4
    <3>2. PICK i \in DOMAIN M : M[i] = r
      BY <1>1
    <3> QED BY <3>1, <3>2
  <2> QED BY <2>1, <2>2
<1>6. ASSUME NEW k \in DOMAIN acl
      PROVE  M[CHOOSE i \in DOMAIN M : M[i][1] = k][2] = acl[k]
  <2>1. \E i \in DOMAIN M : M[i][1] = k
    BY <1>5
  <2> DEFINE i == CHOOSE i \in DOMAIN M : M[i][1] = k
  <2>2. i \in DOMAIN M /\ M[i][1] = k
    BY <2>1
  <2> HIDE DEF i
  <2>3. M[i][2] = acl[k]
    BY <2>2, <1>2, <1>3
  <2> QED BY <2>3 DEF i
<1>7. Parse(M) = [k \in DOMAIN acl |-> acl[k]]
  BY <1>5, <1>6 DEF Parse
<1>8. Parse(M) = acl
  BY <1>7 DEF IsAcl
<1>9. IsCanonical(M)
  <2>1. M = [i \in 1 .. Len(M) |-> <<M[i][1], M[i][2]>>]
    <3>1. \A i \in 1 .. Len(M) : M[i] = <<M[i][1], M[i][2]>>
      BY <1>2, <1>3
    <3> QED BY <3>1, <1>2
  <2>2. \A i \in DOMAIN M : IsKey(M[i][1])
    BY <1>2, <1>3
  <2> QED BY <2>1, <2>2, <1>1, <1>2 DEF IsCanonical
<1> QED BY <1>8, <1>9 DEF M


(* An order on S, lists in it, and lists that hold all of another. *)
Asymmetric(S, R) == \A x, y \in S : <<x, y>> \in R => <<y, x>> \notin R
Sorted(a, S, R) == a \in Seq(S) /\ \A i, j \in DOMAIN a : i < j => <<a[i], a[j]>> \in R
AllIn(a, b) == \A i \in DOMAIN a : \E j \in DOMAIN b : b[j] = a[i]

(* Two lists in one order that hold the same are the same. *)
LEMMA SortedEqual ==
  ASSUME NEW S, NEW R, Asymmetric(S, R), NEW a, NEW b, Sorted(a, S, R), Sorted(b, S, R),
         AllIn(a, b), AllIn(b, a)
  PROVE  a = b
<1> USE DEF Asymmetric, Sorted, AllIn
<1>1. /\ Len(a) \in Nat /\ DOMAIN a = 1 .. Len(a) /\ (\A i \in DOMAIN a : a[i] \in S)
      /\ Len(b) \in Nat /\ DOMAIN b = 1 .. Len(b) /\ (\A i \in DOMAIN b : b[i] \in S)
  OBVIOUS
<1> DEFINE Bad == {k \in Nat : /\ k \in DOMAIN a \cup DOMAIN b
                               /\ ~ (k \in DOMAIN a /\ k \in DOMAIN b /\ a[k] = b[k])}
<1>2. Bad = {}
  <2> SUFFICES ASSUME Bad # {} PROVE FALSE
    OBVIOUS
  <2>1. PICK k \in Bad : \A n \in Bad : k <= n
    <3>1. Bad \in SUBSET Nat
      OBVIOUS
    <3> HIDE DEF Bad
    <3> QED BY <3>1, LeastNat
  <2>2. k \in Nat /\ k >= 1
    BY <2>1, <1>1
  <2>3. \A i \in Nat : i < k /\ i \in DOMAIN a \cup DOMAIN b => i \in DOMAIN a /\ i \in DOMAIN b /\ a[i] = b[i]
    <3> SUFFICES ASSUME NEW i \in Nat, i < k, i \in DOMAIN a \cup DOMAIN b
                 PROVE  i \in DOMAIN a /\ i \in DOMAIN b /\ a[i] = b[i]
      OBVIOUS
    <3>1. i \notin Bad
      <4> HIDE DEF Bad
      <4> QED BY <2>1, <2>2
    <3> QED BY <3>1
  <2>4. ~ (k \in DOMAIN a /\ k \in DOMAIN b /\ a[k] = b[k])
    BY <2>1
  <2>5. \A x \in S : <<x, x>> \notin R
    OBVIOUS
  <2>6. ASSUME k \in DOMAIN a
        PROVE  \E j \in DOMAIN b : j > k /\ b[j] = a[k]
    <3>1. PICK j \in DOMAIN b : b[j] = a[k]
      BY <2>6
    <3>2. j # k
      BY <3>1, <2>4, <2>6
    <3>3. ~ (j < k)
      <4> SUFFICES ASSUME j < k PROVE FALSE
        OBVIOUS
      <4>1. j \in DOMAIN a /\ a[j] = b[j]
        BY <2>3, <1>1
      <4>2. <<a[j], a[k]>> \in R
        BY <4>1, <2>6
      <4>3. a[j] = a[k] /\ a[k] \in S
        BY <4>1, <3>1, <1>1, <2>6
      <4> QED BY <4>2, <4>3, <2>5
    <3>4. j > k
      BY <3>2, <3>3, <2>2, <1>1
    <3> QED BY <3>1, <3>4
  <2>7. ASSUME k \in DOMAIN b
        PROVE  \E j \in DOMAIN a : j > k /\ a[j] = b[k]
    <3>1. PICK j \in DOMAIN a : a[j] = b[k]
      BY <2>7
    <3>2. j # k
      BY <3>1, <2>4, <2>7
    <3>3. ~ (j < k)
      <4> SUFFICES ASSUME j < k PROVE FALSE
        OBVIOUS
      <4>1. j \in DOMAIN b /\ a[j] = b[j]
        BY <2>3, <1>1
      <4>2. <<b[j], b[k]>> \in R
        BY <4>1, <2>7
      <4>3. b[j] = b[k] /\ b[k] \in S
        BY <4>1, <3>1, <1>1, <2>7
      <4> QED BY <4>2, <4>3, <2>5
    <3>4. j > k
      BY <3>2, <3>3, <2>2, <1>1
    <3> QED BY <3>1, <3>4
  <2>8. k \in DOMAIN a /\ k \in DOMAIN b
    <3>1. k \in DOMAIN a \/ k \in DOMAIN b
      BY <2>1
    <3>2. k \in DOMAIN a => k \in DOMAIN b
      BY <2>2, <2>6, <1>1
    <3>3. k \in DOMAIN b => k \in DOMAIN a
      BY <2>2, <2>7, <1>1
    <3> QED BY <3>1, <3>2, <3>3
  <2>9. PICK j \in DOMAIN b : j > k /\ b[j] = a[k]
    BY <2>6, <2>8
  <2>10. PICK i \in DOMAIN a : i > k /\ a[i] = b[k]
    BY <2>7, <2>8
  <2>11. <<b[k], a[k]>> \in R
    <3>1. k < j
      BY <2>2, <2>9, <1>1
    <3> QED BY <3>1, <2>8, <2>9
  <2>12. <<a[k], b[k]>> \in R
    <3>1. k < i
      BY <2>2, <2>10, <1>1
    <3> QED BY <3>1, <2>8, <2>10
  <2> QED BY <2>8, <2>11, <2>12, <1>1
<1>3. ASSUME NEW k \in 1 .. Len(a)
      PROVE  k \in 1 .. Len(b) /\ a[k] = b[k]
  <2>1. k \in Nat /\ k \in DOMAIN a
    BY <1>1
  <2>2. k \in DOMAIN b /\ a[k] = b[k]
    BY <2>1, <1>2
  <2> QED BY <2>2, <1>1
<1>4. ASSUME NEW k \in 1 .. Len(b)
      PROVE  k \in 1 .. Len(a)
  <2>1. k \in Nat /\ k \in DOMAIN b
    BY <1>1
  <2>2. k \in DOMAIN a
    BY <2>1, <1>2
  <2> QED BY <2>2, <1>1
<1>5. Len(a) = Len(b)
  <2> DEFINE n == Len(a)
             m == Len(b)
  <2>1. n \in Nat /\ m \in Nat /\ (\A k \in 1 .. n : k \in 1 .. m) /\ (\A k \in 1 .. m : k \in 1 .. n)
    BY <1>1, <1>3, <1>4
  <2> HIDE DEF n, m
  <2>2. n <= m
    <3>1. CASE n = 0
      BY <2>1, <3>1
    <3>2. CASE n # 0
      <4>1. n \in 1 .. n
        BY <2>1, <3>2
      <4>2. n \in 1 .. m
        BY <2>1, <4>1
      <4> QED BY <2>1, <4>2
    <3> QED BY <3>1, <3>2
  <2>3. m <= n
    <3>1. CASE m = 0
      BY <2>1, <3>1
    <3>2. CASE m # 0
      <4>1. m \in 1 .. m
        BY <2>1, <3>2
      <4>2. m \in 1 .. n
        BY <2>1, <4>1
      <4> QED BY <2>1, <4>2
    <3> QED BY <3>1, <3>2
  <2>4. n = m
    BY <2>1, <2>2, <2>3
  <2> QED BY <2>4 DEF n, m
<1> QED BY <1>1, <1>3, <1>5, SeqEqual

(* ACLs in canonical order that hold the same records are the same. *)
LEMMA CanonicalEqual ==
  ASSUME NEW a, NEW b, IsCanonical(a), IsCanonical(b), AllIn(a, b), AllIn(b, a)
  PROVE  a = b
<1> DEFINE S == {a[i] : i \in DOMAIN a} \cup {b[i] : i \in DOMAIN b}
           R == {p \in S \X S : Before(p[1], p[2])}
<1>1. /\ DOMAIN a = 1 .. Len(a) /\ Len(a) \in Nat /\ a = [i \in 1 .. Len(a) |-> a[i]]
      /\ DOMAIN b = 1 .. Len(b) /\ Len(b) \in Nat /\ b = [i \in 1 .. Len(b) |-> b[i]]
  BY DEF IsCanonical
<1>2. (\A i \in DOMAIN a : a[i] \in S) /\ (\A i \in DOMAIN b : b[i] \in S)
  OBVIOUS
<1>3. \A x \in S : IsKey(x[1])
  BY DEF IsCanonical
<1> HIDE DEF S
<1>4. a \in Seq(S) /\ b \in Seq(S)
  <2> DEFINE n == Len(a)
             m == Len(b)
  <2>1. a \in [1 .. n -> S] /\ b \in [1 .. m -> S] /\ n \in Nat /\ m \in Nat
    BY <1>1, <1>2
  <2> HIDE DEF n, m
  <2> QED BY <2>1
<1>5. \A x, y \in S : <<x, y>> \in R => <<y, x>> \notin R
  <2> SUFFICES ASSUME NEW x \in S, NEW y \in S, <<x, y>> \in R PROVE <<y, x>> \notin R
    OBVIOUS
  <2>1. Before(x, y)
    OBVIOUS
  <2>2. ~ Before(y, x)
    BY <2>1, <1>3, BeforeOrder
  <2> QED BY <2>2
<1>6. \A i, j \in DOMAIN a : i < j => <<a[i], a[j]>> \in R
  BY <1>2 DEF IsCanonical
<1>7. \A i, j \in DOMAIN b : i < j => <<b[i], b[j]>> \in R
  BY <1>2 DEF IsCanonical
<1> HIDE DEF R
<1>9. Asymmetric(S, R) /\ Sorted(a, S, R) /\ Sorted(b, S, R) /\ AllIn(a, b) /\ AllIn(b, a)
  BY <1>4, <1>5, <1>6, <1>7 DEF Asymmetric, Sorted
<1> QED BY ONLY <1>9, SortedEqual

-----------------------------------------------------------------------------
(* ACLs: what is asked for is in force *)

IsText(raw) ==
  /\ DOMAIN raw = 1 .. Len(raw) /\ Len(raw) \in Nat
  /\ \A i \in DOMAIN raw : IsKey(raw[i].key)

BaseKeys == {UserObj, GroupObj, OtherKey}

(* The base entries and the mask have keys, all of them different. *)
LEMMA BaseIsKeys ==
  /\ IsKey(UserObj) /\ IsKey(GroupObj) /\ IsKey(OtherKey) /\ IsKey(MaskKey)
  /\ MaskKey \notin BaseKeys
  /\ UserObj # GroupObj /\ UserObj # OtherKey /\ GroupObj # OtherKey
  /\ ~ Named(MaskKey)
<1>1. /\ Ranks[1] = "user_obj" /\ Ranks[3] = "group_obj" /\ Ranks[5] = "mask" /\ Ranks[6] = "other"
      /\ DOMAIN Ranks = 1 .. 6
  BY DEF Ranks
<1>2. /\ UserObj[1] = "user_obj" /\ GroupObj[1] = "group_obj" /\ OtherKey[1] = "other"
      /\ MaskKey[1] = "mask"
      /\ \A k \in {UserObj, GroupObj, OtherKey, MaskKey} : k[2] = -1 /\ k = <<k[1], k[2]>>
  BY DEF UserObj, GroupObj, OtherKey, MaskKey, Key, Undefined
<1>3. \E n \in DOMAIN Ranks : UserObj[1] = Ranks[n]
  BY <1>1, <1>2
<1>4. \E n \in DOMAIN Ranks : GroupObj[1] = Ranks[n]
  BY <1>1, <1>2
<1>5. \E n \in DOMAIN Ranks : OtherKey[1] = Ranks[n]
  BY <1>1, <1>2
<1>6. \E n \in DOMAIN Ranks : MaskKey[1] = Ranks[n]
  BY <1>1, <1>2
<1>7. IsKey(UserObj) /\ IsKey(GroupObj) /\ IsKey(OtherKey) /\ IsKey(MaskKey)
  BY <1>2, <1>3, <1>4, <1>5, <1>6 DEF IsKey, Key
<1> QED BY <1>2, <1>7 DEF BaseKeys, Named

(* The mode gives the three base entries. *)
LEMMA FromModeBase ==
  ASSUME NEW mode
  PROVE  /\ DOMAIN FromMode(mode) = BaseKeys
         /\ FromMode(mode) = [k \in BaseKeys |-> FromMode(mode)[k]]
BY DEF FromMode, BaseKeys

(* Overriding keeps the base and makes an ACL. *)
LEMMA OverriddenIsAcl ==
  ASSUME NEW mode, NEW raw, IsText(raw), NEW default
  PROVE  /\ IsAcl(Overridden(mode, raw, default))
         /\ DOMAIN Overridden(mode, raw, default)
              = BaseKeys \cup {raw[i].key : i \in For(raw, default)}
<1> DEFINE F == For(raw, default)
           A == Overridden(mode, raw, default)
           K == {raw[i].key : i \in F}
<1>1. F \in SUBSET (1 .. Len(raw)) /\ Len(raw) \in Nat
  BY DEF For, IsText
<1>2. DOMAIN A = BaseKeys \cup K /\ A = [k \in DOMAIN A |-> A[k]]
  BY FromModeBase DEF Overridden
<1>3. IsFiniteSet(F)
  <2>1. IsFiniteSet(1 .. Len(raw))
    BY <1>1, FS_Interval
  <2> HIDE DEF F
  <2> QED BY <1>1, <2>1, FS_Subset
<1>4. IsFiniteSet(K)
  <2> DEFINE f == [i \in F |-> raw[i].key]
  <2>1. f \in Surjection(F, K)
    BY DEF Surjection
  <2> HIDE DEF f, F, K
  <2> QED BY <2>1, <1>3, FS_Surjection
<1>5. IsFiniteSet(BaseKeys)
  <2>1. IsFiniteSet({}) 
    BY FS_EmptySet
  <2>2. IsFiniteSet({} \cup {UserObj})
    BY <2>1, FS_AddElement
  <2>3. IsFiniteSet({} \cup {UserObj} \cup {GroupObj})
    BY <2>2, FS_AddElement
  <2>4. IsFiniteSet({} \cup {UserObj} \cup {GroupObj} \cup {OtherKey})
    BY <2>3, FS_AddElement
  <2>5. BaseKeys = {} \cup {UserObj} \cup {GroupObj} \cup {OtherKey}
    BY DEF BaseKeys
  <2> QED BY <2>4, <2>5
<1>6. \A k \in BaseKeys \cup K : IsKey(k)
  BY BaseIsKeys, <1>1 DEF BaseKeys, IsText
<1> HIDE DEF K, A, F
<1>7. IsFiniteSet(BaseKeys \cup K)
  BY <1>4, <1>5, FS_Union
<1>8. IsAcl(A)
  BY <1>2, <1>6, <1>7 DEF IsAcl
<1> QED BY <1>2, <1>8 DEF A, K, F

(* Masking keeps all entries and may add the mask. *)
LEMMA MaskedIsAcl ==
  ASSUME NEW acl, IsAcl(acl)
  PROVE  /\ IsAcl(Masked(acl))
         /\ DOMAIN acl \subseteq DOMAIN Masked(acl)
         /\ DOMAIN Masked(acl) \subseteq DOMAIN acl \cup {MaskKey}
         /\ \A k \in DOMAIN acl : Masked(acl)[k] = acl[k]
         /\ MaskKey \in DOMAIN Masked(acl) /\ MaskKey \notin DOMAIN acl =>
              Masked(acl)[MaskKey] = deriveACLMask(acl)
<1>1. CASE MaskKey \notin DOMAIN acl /\ \E k \in DOMAIN acl : Named(k)
  <2> DEFINE D == DOMAIN acl \cup {MaskKey}
             M == Masked(acl)
  <2>1. M = [k \in D |-> IF k = MaskKey THEN deriveACLMask(acl) ELSE acl[k]]
    BY <1>1 DEF Masked
  <2>2. IsFiniteSet(D)
    BY FS_AddElement DEF IsAcl
  <2> HIDE DEF M
  <2>3. DOMAIN M = D /\ M = [k \in DOMAIN M |-> M[k]]
    BY <2>1
  <2>4. \A k \in D : IsKey(k)
    BY BaseIsKeys DEF IsAcl
  <2>5. IsAcl(M)
    BY <2>2, <2>3, <2>4 DEF IsAcl
  <2>6. M[MaskKey] = deriveACLMask(acl) /\ \A k \in DOMAIN acl : M[k] = acl[k]
    BY <2>1, <1>1
  <2> QED BY <2>3, <2>5, <2>6 DEF M
<1>2. CASE ~ (MaskKey \notin DOMAIN acl /\ \E k \in DOMAIN acl : Named(k))
  <2>1. Masked(acl) = acl
    BY <1>2 DEF Masked
  <2> QED BY <2>1
<1> QED BY <1>1, <1>2

(* Resolving an ACL text makes an ACL with the base entries. *)
LEMMA ResolveIsAcl ==
  ASSUME NEW mode, NEW raw, IsText(raw), NEW default
  PROVE  /\ IsAcl(Resolve(mode, raw, default))
         /\ BaseKeys \subseteq DOMAIN Resolve(mode, raw, default)
<1> DEFINE O == Overridden(mode, raw, default)
<1>1. IsAcl(O) /\ BaseKeys \subseteq DOMAIN O
  BY OverriddenIsAcl
<1> HIDE DEF O
<1>2. IsAcl(Masked(O)) /\ DOMAIN O \subseteq DOMAIN Masked(O)
  BY <1>1, MaskedIsAcl
<1> QED BY <1>1, <1>2 DEF Resolve, O

(***************************************************************************)
(* Every last entry for a key has its way, and a mask that is derived is   *)
(* wide enough for all that it masks.                                      *)
(***************************************************************************)
LEMMA ResolveAsAsked ==
  ASSUME NEW mode, NEW raw, IsText(raw), NEW default
  PROVE  AsAsked(Resolve(mode, raw, default), raw, default)
<1> DEFINE F == For(raw, default)
           O == Overridden(mode, raw, default)
           A == Resolve(mode, raw, default)
           At(k) == {i \in F : raw[i].key = k}
<1>1. F \in SUBSET (1 .. Len(raw)) /\ Len(raw) \in Nat
  BY DEF For, IsText
<1>2. IsAcl(O) /\ DOMAIN O = BaseKeys \cup {raw[i].key : i \in F}
  BY OverriddenIsAcl
<1>3. /\ DOMAIN O \subseteq DOMAIN A
      /\ DOMAIN A \subseteq DOMAIN O \cup {MaskKey}
      /\ \A k \in DOMAIN O : A[k] = O[k]
      /\ MaskKey \in DOMAIN A /\ MaskKey \notin DOMAIN O => A[MaskKey] = deriveACLMask(O)
  BY <1>2, MaskedIsAcl DEF Resolve
<1>4. \A k \in DOMAIN O : At(k) # {} => O[k] = raw[CHOOSE i \in At(k) : \A j \in At(k) : j <= i].perm
  BY <1>2, FromModeBase DEF Overridden
<1> HIDE DEF F, O, A
<1>5. ASSUME NEW e \in Asked(raw, default)
      PROVE  e.key \in DOMAIN A /\ A[e.key] = e.perm /\ e.key \in DOMAIN O
  <2>1. PICK n \in F : e = raw[n] /\ \A j \in F : raw[j].key = raw[n].key => j <= n
    BY DEF Asked, F
  <2> DEFINE k == e.key
             a == CHOOSE i \in At(k) : \A j \in At(k) : j <= i
  <2>2. n \in At(k) /\ \A j \in At(k) : j <= n
    BY <2>1
  <2>3. k \in DOMAIN O
    BY <1>2, <2>1
  <2>4. a \in At(k) /\ \A j \in At(k) : j <= a
    BY <2>2
  <2>5. a = n
    <3>1. a <= n /\ n <= a
      BY <2>2, <2>4
    <3>2. a \in Nat /\ n \in Nat
      <4>1. a \in F /\ n \in F
        BY <2>2, <2>4
      <4> HIDE DEF a
      <4> QED BY <4>1, <1>1
    <3> HIDE DEF a
    <3> QED BY <3>1, <3>2
  <2>6. O[k] = raw[a].perm
    BY <1>4, <2>2, <2>3
  <2> QED BY <1>3, <2>1, <2>3, <2>5, <2>6
<1>6. ASSUME MaskKey \in DOMAIN A, \A e \in Asked(raw, default) : e.key # MaskKey
      PROVE  \A k \in DOMAIN A : Named(k) \/ k = GroupObj => A[k] \subseteq A[MaskKey]
  <2>1. MaskKey \notin DOMAIN O
    <3> SUFFICES ASSUME MaskKey \in DOMAIN O PROVE FALSE
      OBVIOUS
    <3>1. At(MaskKey) # {}
      BY <1>2, BaseIsKeys
    <3>2. At(MaskKey) \in SUBSET (1 .. Len(raw))
      BY <1>1
    <3> HIDE DEF At
    <3>3. PICK n \in At(MaskKey) : \A j \in At(MaskKey) : j <= n
      BY <3>1, <3>2, <1>1, GreatestNat
    <3>4. n \in F /\ raw[n].key = MaskKey /\ \A j \in F : raw[j].key = raw[n].key => j <= n
      BY <3>3 DEF At
    <3>5. raw[n] \in Asked(raw, default)
      BY <3>4 DEF Asked, F
    <3> QED BY <3>4, <3>5, <1>6
  <2>2. A[MaskKey] = deriveACLMask(O)
    BY <2>1, <1>3, <1>6
  <2> SUFFICES ASSUME NEW k \in DOMAIN A, Named(k) \/ k = GroupObj
               PROVE  A[k] \subseteq A[MaskKey]
    OBVIOUS
  <2>3. k # MaskKey
    BY BaseIsKeys DEF BaseKeys
  <2>4. k \in DOMAIN O /\ A[k] = O[k]
    BY <2>3, <1>3
  <2>5. O[k] \subseteq deriveACLMask(O)
    BY <2>4 DEF deriveACLMask
  <2> QED BY <2>2, <2>4, <2>5
<1>7. AsAsked(A, raw, default)
  BY <1>5, <1>6 DEF AsAsked
<1> QED BY <1>7 DEF A

(***************************************************************************)
(* What is set is in force: kept as an ACL it is decoded, and what is not  *)
(* kept is in the mode.                                                    *)
(***************************************************************************)
LEMMA KeptInForce ==
  ASSUME NEW acl, IsAcl(acl), BaseKeys \subseteq DOMAIN acl
  PROVE  InForce(ModeOf(acl), Kept(Marshal(acl))) = acl /\ IsCanonical(Kept(Marshal(acl)))
<1> DEFINE M == Marshal(acl)
<1>1. Parse(M) = acl /\ IsCanonical(M)
  BY ParseMarshal
<1>2. IsCanonical(<<>>)
  BY DEF IsCanonical
<1>3. CASE Minimal(acl)
  <2>1. Kept(M) = <<>>
    BY <1>1, <1>3 DEF Kept
  <2>2. DOMAIN acl = BaseKeys
    BY <1>3 DEF Minimal, BaseKeys
  <2> DEFINE mode == ModeOf(acl)
  <2>3. mode.u = acl[UserObj] /\ mode.g = acl[GroupObj] /\ mode.o = acl[OtherKey]
    BY <1>3 DEF ModeOf
  <2> HIDE DEF mode
  <2>4. \A k \in BaseKeys : FromMode(mode)[k] = acl[k]
    BY <2>3, BaseIsKeys DEF FromMode, BaseKeys
  <2>5. FromMode(mode) = [k \in BaseKeys |-> acl[k]]
    BY <2>4, FromModeBase
  <2>6. FromMode(mode) = acl
    BY <2>2, <2>5 DEF IsAcl
  <2> QED BY <2>1, <2>6, <1>2 DEF InForce, mode
<1>4. CASE ~ Minimal(acl)
  <2>1. Kept(M) = M
    BY <1>1, <1>4 DEF Kept
  <2>2. M # <<>>
    <3> SUFFICES ASSUME M = <<>> PROVE FALSE
      OBVIOUS
    <3>1. DOMAIN Parse(M) = {}
      <4> HIDE DEF M
      <4> QED BY DEF Parse
    <3> QED BY <3>1, <1>1 DEF BaseKeys
  <2> QED BY <1>1, <2>1, <2>2 DEF InForce
<1> QED BY <1>3, <1>4

-----------------------------------------------------------------------------
(* Diff: what is compared of a node *)

(* The fields of a projected node *)
ViewMtime(x)  == Precise(x.mtime)
ViewTarget(x) == IF x.kind = "symlink" THEN x.target ELSE None
ViewSize(x)   == IF x.kind = "file" THEN Len(x.file) ELSE 0
ViewHash(x)   == IF x.kind = "file" /\ Compares("hash") THEN x.file ELSE None
SparseFile(x) == x.kind = "file" /\ diff.platform = "linux" /\ SparseParity(x.file)
ViewSparse(x) == Compares("sparse") /\ SparseFile(x)
OnLinux(v)    == IF diff.platform = "linux" THEN v ELSE None
ViewOwner(x)  == IF Compares("owner") THEN OnLinux(x.owner) ELSE None
ViewAtime(x)  == IF Compares("atime") THEN Precise(OnLinux(x.atime)) ELSE None
ViewDev(x)    == IF Compares("dev") THEN OnLinux(x.dev) ELSE None
ViewRdev(x)   == IF x.kind \in {"char", "block"} THEN OnLinux(x.rdev) ELSE None
ViewXAttrs(x) == IF Compares("xattrs") THEN XAttrsOf(x) ELSE None
ViewAcl(x)    == IF Compares("acls") THEN Format(x.access, x.default) ELSE {}

NodeRecord(kind, mode, mtime, target, size, hash, sparse, owner, atime, dev, rdev, xattrs, acl) ==
  [kind |-> kind, mode |-> mode, mtime |-> mtime, target |-> target, size |-> size,
   hash |-> hash, sparse |-> sparse, owner |-> owner, atime |-> atime, dev |-> dev,
   rdev |-> rdev, xattrs |-> xattrs, acl |-> acl]

View(x) ==
  NodeRecord(x.kind, x.mode, ViewMtime(x), ViewTarget(x), ViewSize(x), ViewHash(x), ViewSparse(x),
             ViewOwner(x), ViewAtime(x), ViewDev(x), ViewRdev(x), ViewXAttrs(x), ViewAcl(x))

(* Six fields are replaced. *)
Replaced(r, mtime, atime, owner, rdev, sparse, dev) ==
  [r EXCEPT !.mtime = mtime, !.atime = atime, !.owner = owner, !.rdev = rdev, !.sparse = sparse,
            !.dev = dev]

(* The six are, and no others. *)
LEMMA RecordExcept ==
  ASSUME NEW a, NEW b, NEW c, NEW d, NEW e, NEW f, NEW g, NEW h, NEW i, NEW j, NEW k, NEW l, NEW m,
         NEW c1, NEW g1, NEW h1, NEW i1, NEW j1, NEW k1
  PROVE  Replaced(NodeRecord(a, b, c, d, e, f, g, h, i, j, k, l, m), c1, i1, h1, k1, g1, j1)
         = NodeRecord(a, b, c1, d, e, f, g1, h1, i1, j1, k1, l, m)
<1> DEFINE D == {"kind", "mode", "mtime", "target", "size", "hash", "sparse", "owner", "atime",
                 "dev", "rdev", "xattrs", "acl"}
           r == NodeRecord(a, b, c, d, e, f, g, h, i, j, k, l, m)
           p == NodeRecord(a, b, c1, d, e, f, g1, h1, i1, j1, k1, l, m)
           q == [r EXCEPT !.mtime = c1, !.atime = i1, !.owner = h1, !.rdev = k1, !.sparse = g1,
                          !.dev = j1]
<1>1. DOMAIN r = D /\ DOMAIN p = D
  BY DEF NodeRecord
<1>2. /\ r.kind = a /\ r.mode = b /\ r.target = d /\ r.size = e /\ r.hash = f /\ r.xattrs = l /\ r.acl = m
      /\ p.kind = a /\ p.mode = b /\ p.target = d /\ p.size = e /\ p.hash = f /\ p.xattrs = l /\ p.acl = m
      /\ p.mtime = c1 /\ p.sparse = g1 /\ p.owner = h1 /\ p.atime = i1 /\ p.dev = j1 /\ p.rdev = k1
  BY DEF NodeRecord
<1>3. p = [z \in D |-> p[z]]
  BY DEF NodeRecord
<1> HIDE DEF r, p
<1>4. \A z \in DOMAIN r : q[z] = IF z = "dev" THEN j1 ELSE IF z = "sparse" THEN g1
                                 ELSE IF z = "rdev" THEN k1 ELSE IF z = "owner" THEN h1
                                 ELSE IF z = "atime" THEN i1 ELSE IF z = "mtime" THEN c1 ELSE r[z]
  BY <1>1
<1>5. q = [z \in D |-> q[z]]
  BY <1>1
<1> HIDE DEF q
<1>6. \A z \in D : q[z] = p[z]
  BY <1>1, <1>2, <1>4
<1>7. q = p
  <2> HIDE DEF D
  <2> QED BY <1>3, <1>5, <1>6
<1> QED BY <1>7 DEF q, p, r, Replaced

(* Records are the same if their fields are. *)
LEMMA RecordEqual ==
  ASSUME NEW a, NEW b, NEW c, NEW d, NEW e, NEW f, NEW g, NEW h, NEW i, NEW j, NEW k, NEW l, NEW m,
         NEW a1, NEW b1, NEW c1, NEW d1, NEW e1, NEW f1, NEW g1, NEW h1, NEW i1, NEW j1, NEW k1,
         NEW l1, NEW m1
  PROVE  NodeRecord(a, b, c, d, e, f, g, h, i, j, k, l, m)
           = NodeRecord(a1, b1, c1, d1, e1, f1, g1, h1, i1, j1, k1, l1, m1)
         <=> /\ a = a1 /\ b = b1 /\ c = c1 /\ d = d1 /\ e = e1 /\ f = f1 /\ g = g1 /\ h = h1
             /\ i = i1 /\ j = j1 /\ k = k1 /\ l = l1 /\ m = m1
BY DEF NodeRecord

(* The fields of such a record. *)
LEMMA RecordFields ==
  ASSUME NEW a, NEW b, NEW c, NEW d, NEW e, NEW f, NEW g, NEW h, NEW i, NEW j, NEW k, NEW l, NEW m
  PROVE  LET r == NodeRecord(a, b, c, d, e, f, g, h, i, j, k, l, m)
         IN  /\ r.kind = a /\ r.mtime = c /\ r.sparse = g /\ r.owner = h /\ r.atime = i
             /\ r.dev = j /\ r.rdev = k
BY DEF NodeRecord

(* What projectNodes leaves of what was collected. *)
LEMMA ProjectedView ==
  ASSUME NEW x
  PROVE  ProjectNode(Collected(x)) = View(x)
<1> DEFINE v == Collected(x)
           o == OnLinux(x.owner)
           t == OnLinux(x.atime)
           d == OnLinux(x.dev)
           r == OnLinux(x.rdev)
           s == SparseFile(x)
<1>1. v = NodeRecord(x.kind, x.mode, x.mtime, ViewTarget(x), ViewSize(x), ViewHash(x), s, o, t, d, r,
                     ViewXAttrs(x), ViewAcl(x))
  BY DEF Collected, NodeRecord, ViewTarget, ViewSize, ViewHash, SparseFile, OnLinux, ViewXAttrs, ViewAcl
<1> HIDE DEF v, o, t, d, r, s
<1>2. /\ v.kind = x.kind /\ v.mtime = x.mtime /\ v.sparse = s /\ v.owner = o /\ v.atime = t
      /\ v.dev = d /\ v.rdev = r
  BY <1>1, RecordFields
<1> DEFINE mtime  == Precise(v.mtime)
           atime  == IF Compares("atime") THEN Precise(v.atime) ELSE None
           owner  == IF Compares("owner") THEN v.owner ELSE None
           rdev   == IF v.kind \in {"char", "block"} THEN v.rdev ELSE None
           sparse == Compares("sparse") /\ v.sparse
           dev    == IF Compares("dev") THEN v.dev ELSE None
<1>3. ProjectNode(v) = Replaced(v, mtime, atime, owner, rdev, sparse, dev)
  BY DEF ProjectNode, Replaced
<1>4. /\ mtime = ViewMtime(x) /\ atime = ViewAtime(x) /\ owner = ViewOwner(x)
      /\ rdev = ViewRdev(x) /\ dev = ViewDev(x)
  BY <1>2 DEF ViewMtime, ViewAtime, ViewOwner, ViewRdev, ViewDev, o, t, d, r
<1>5. sparse = ViewSparse(x)
  BY <1>2 DEF ViewSparse, s
<1> HIDE DEF mtime, atime, owner, rdev, sparse, dev
<1>6. ProjectNode(v) = NodeRecord(x.kind, x.mode, mtime, ViewTarget(x), ViewSize(x), ViewHash(x),
                                  sparse, owner, atime, dev, rdev, ViewXAttrs(x), ViewAcl(x))
  <2> DEFINE ta == ViewTarget(x)
             si == ViewSize(x)
             ha == ViewHash(x)
             xa == ViewXAttrs(x)
             ac == ViewAcl(x)
  <2> HIDE DEF ta, si, ha, xa, ac
  <2>1. v = NodeRecord(x.kind, x.mode, x.mtime, ta, si, ha, s, o, t, d, r, xa, ac)
    BY <1>1 DEF ta, si, ha, xa, ac
  <2>2. ProjectNode(v) = NodeRecord(x.kind, x.mode, mtime, ta, si, ha, sparse, owner, atime, dev, rdev, xa, ac)
    <3> DEFINE ki == x.kind
               mo == x.mode
               mt == x.mtime
    <3> HIDE DEF ki, mo, mt
    <3>1. Replaced(NodeRecord(ki, mo, mt, ta, si, ha, s, o, t, d, r, xa, ac),
                   mtime, atime, owner, rdev, sparse, dev)
          = NodeRecord(ki, mo, mtime, ta, si, ha, sparse, owner, atime, dev, rdev, xa, ac)
      BY ONLY RecordExcept
    <3> QED BY <2>1, <1>3, <3>1 DEF ki, mo, mt
  <2> QED BY <2>2 DEF ta, si, ha, xa, ac
<1>7. ProjectNode(v) = View(x)
  BY <1>4, <1>5, <1>6 DEF View
<1> QED BY <1>7 DEF v


InAccess(a, d, v) == <<FALSE, v>> \in Format(a, d)
InDefault(a, d, v) == <<TRUE, v>> \in Format(a, d)

(* The texts of an access ACL and those of a default ACL are told apart. *)
LEMMA FormatHolds ==
  ASSUME NEW a, NEW d
  PROVE  /\ \A i \in DOMAIN a : InAccess(a, d, a[i])
         /\ \A i \in DOMAIN d : InDefault(a, d, d[i])
BY DEF Format, InAccess, InDefault

(* What is among the texts of the access ACL is in it. *)
LEMMA AccessHolds ==
  ASSUME NEW a, NEW d, NEW v, InAccess(a, d, v)
  PROVE  \E i \in DOMAIN a : a[i] = v
BY DEF Format, InAccess

(* The same for the default ACL. *)
LEMMA DefaultHolds ==
  ASSUME NEW a, NEW d, NEW v, InDefault(a, d, v)
  PROVE  \E i \in DOMAIN d : d[i] = v
BY DEF Format, InDefault

(* Texts that are the same come from the same records. *)
LEMMA FormatEqual ==
  ASSUME NEW a, NEW d, NEW b, NEW e, Format(a, d) = Format(b, e)
  PROVE  AllIn(a, b) /\ AllIn(d, e)
<1>2. ASSUME NEW i \in DOMAIN a PROVE \E j \in DOMAIN b : b[j] = a[i]
  <2> DEFINE v == a[i]
  <2>1. InAccess(a, d, v)
    BY FormatHolds
  <2> HIDE DEF v
  <2>2. InAccess(b, e, v)
    BY <2>1 DEF InAccess
  <2>3. \E j \in DOMAIN b : b[j] = v
    BY ONLY <2>2, AccessHolds
  <2> QED BY <2>3 DEF v
<1>3. ASSUME NEW i \in DOMAIN d PROVE \E j \in DOMAIN e : e[j] = d[i]
  <2> DEFINE v == d[i]
  <2>1. InDefault(a, d, v)
    BY FormatHolds
  <2> HIDE DEF v
  <2>2. InDefault(b, e, v)
    BY <2>1 DEF InDefault
  <2>3. \E j \in DOMAIN e : e[j] = v
    BY ONLY <2>2, DefaultHolds
  <2> QED BY <2>3 DEF v
<1> QED BY <1>2, <1>3 DEF AllIn

(***************************************************************************)
(* What projectNodes leaves of two nodes is the same if and only if they   *)
(* are the same as far as the options go and the platform can tell.        *)
(***************************************************************************)
LEMMA SameView ==
  ASSUME NEW x, NEW y, IsNode(x), IsNode(y), ~ Uncollectable(x), ~ Uncollectable(y),
         diff.platform # "linux" => {"owner", "atime", "dev"} \cap diff.opts = {}
  PROVE  View(x) = View(y) <=> SameNode(x, y)
<1>1. View(x) = View(y) <=>
        /\ x.kind = y.kind /\ x.mode = y.mode /\ ViewMtime(x) = ViewMtime(y)
        /\ ViewTarget(x) = ViewTarget(y) /\ ViewSize(x) = ViewSize(y) /\ ViewHash(x) = ViewHash(y)
        /\ ViewSparse(x) = ViewSparse(y) /\ ViewOwner(x) = ViewOwner(y) /\ ViewAtime(x) = ViewAtime(y)
        /\ ViewDev(x) = ViewDev(y) /\ ViewRdev(x) = ViewRdev(y) /\ ViewXAttrs(x) = ViewXAttrs(y)
        /\ ViewAcl(x) = ViewAcl(y)
  BY RecordEqual DEF View
<1>2. CASE x.kind # y.kind
  BY <1>1, <1>2 DEF SameNode
<1>3. CASE x.kind = y.kind
  <2>0. diff.platform # "linux" =>
          /\ ~ Compares("sparse") /\ ~ Compares("xattrs") /\ ~ Compares("acls")
          /\ ~ Compares("owner") /\ ~ Compares("atime") /\ ~ Compares("dev")
    BY DEF Uncollectable, Compares
  <2>t. /\ x.mtime = <<x.mtime[1], x.mtime[2]>> /\ x.atime = <<x.atime[1], x.atime[2]>>
        /\ y.mtime = <<y.mtime[1], y.mtime[2]>> /\ y.atime = <<y.atime[1], y.atime[2]>>
    BY DEF IsNode
  <2>1. ViewMtime(x) = ViewMtime(y) <=>
          IF Compares("nsec") THEN x.mtime = y.mtime ELSE x.mtime[1] = y.mtime[1]
    BY <2>t DEF ViewMtime, Precise, None
  <2>2. ViewTarget(x) = ViewTarget(y) <=> (x.kind = "symlink" => x.target = y.target)
    BY <1>3 DEF ViewTarget
  <2>3. ViewSize(x) = ViewSize(y) <=> (x.kind = "file" => Len(x.file) = Len(y.file))
    BY <1>3 DEF ViewSize
  <2>4. ViewHash(x) = ViewHash(y) <=> (x.kind = "file" /\ Compares("hash") => x.file = y.file)
    BY <1>3 DEF ViewHash
  <2>5. (ViewSparse(x) = ViewSparse(y)) <=>
          (x.kind = "file" /\ Compares("sparse") => (SparseParity(x.file) <=> SparseParity(y.file)))
    <3>1. SparseParity(x.file) \in BOOLEAN /\ SparseParity(y.file) \in BOOLEAN
      BY DEF SparseParity
    <3> QED BY <3>1, <1>3, <2>0 DEF ViewSparse, SparseFile
  <2>6. ViewOwner(x) = ViewOwner(y) <=> (Compares("owner") => x.owner = y.owner)
    BY <2>0 DEF ViewOwner, OnLinux
  <2>7. ViewAtime(x) = ViewAtime(y) <=>
          (Compares("atime") => IF Compares("nsec") THEN x.atime = y.atime ELSE x.atime[1] = y.atime[1])
    BY <2>0, <2>t DEF ViewAtime, OnLinux, Precise, None
  <2>8. ViewDev(x) = ViewDev(y) <=> (Compares("dev") => x.dev = y.dev)
    BY <2>0 DEF ViewDev, OnLinux
  <2>9. ViewRdev(x) = ViewRdev(y) <=>
          (x.kind \in {"char", "block"} /\ diff.platform = "linux" => x.rdev = y.rdev)
    BY <1>3 DEF ViewRdev, OnLinux
  <2>10. ViewXAttrs(x) = ViewXAttrs(y) <=> (Compares("xattrs") => XAttrsOf(x) = XAttrsOf(y))
    BY DEF ViewXAttrs
  <2>11. ViewAcl(x) = ViewAcl(y) <=> (Compares("acls") => x.access = y.access /\ x.default = y.default)
    <3>1. ASSUME Format(x.access, x.default) = Format(y.access, y.default)
          PROVE  x.access = y.access /\ x.default = y.default
      <4>1. IsCanonical(x.access) /\ IsCanonical(x.default) /\ IsCanonical(y.access) /\ IsCanonical(y.default)
        BY DEF IsNode
      <4>2. /\ AllIn(x.access, y.access) /\ AllIn(x.default, y.default)
            /\ AllIn(y.access, x.access) /\ AllIn(y.default, x.default)
        BY <3>1, FormatEqual
      <4>5. x.access = y.access
        BY ONLY <4>1, <4>2, CanonicalEqual
      <4>6. x.default = y.default
        BY ONLY <4>1, <4>2, CanonicalEqual
      <4> QED BY <4>5, <4>6
    <3> QED BY <3>1 DEF ViewAcl
  <2> QED BY <1>1, <1>3, <2>1, <2>2, <2>3, <2>4, <2>5, <2>6, <2>7, <2>8, <2>9, <2>10, <2>11 DEF SameNode
<1> QED BY <1>2, <1>3

-----------------------------------------------------------------------------
(* Diff: the walk *)

IsList(q) == q = [i \in 1 .. Len(q) |-> q[i]] /\ Len(q) \in Nat

(* A list grows at its end. *)
LEMMA AppendList ==
  ASSUME NEW q, IsList(q), NEW e
  PROVE  /\ IsList(Append(q, e)) /\ Len(Append(q, e)) = Len(q) + 1
         /\ DOMAIN q = 1 .. Len(q) /\ DOMAIN Append(q, e) = 1 .. Len(q) + 1
         /\ Append(q, e)[Len(q) + 1] = e
         /\ \A i \in 1 .. Len(q) : Append(q, e)[i] = q[i]
<1> DEFINE S == {q[i] : i \in 1 .. Len(q)} \cup {e}
           n == Len(q)
           r == Append(q, e)
<1>1. n \in Nat /\ q \in [1 .. n -> S] /\ e \in S /\ DOMAIN q = 1 .. n
  BY DEF IsList
<1> HIDE DEF S
<1>2. q \in Seq(S)
  <2> HIDE DEF n
  <2> QED BY <1>1
<1>3. /\ r \in Seq(S) /\ Len(r) = n + 1 /\ r[n + 1] = e
      /\ \A i \in 1 .. n : r[i] = q[i]
  BY <1>1, <1>2
<1> HIDE DEF r
<1>4. DOMAIN r = 1 .. n + 1 /\ r = [i \in 1 .. n + 1 |-> r[i]]
  BY <1>3
<1>5. IsList(r)
  BY <1>1, <1>3, <1>4 DEF IsList
<1> QED BY <1>1, <1>3, <1>4, <1>5 DEF r

(* The same but for the access time *)
Alike(x, y) ==
  /\ x.kind = y.kind /\ x.file = y.file /\ x.target = y.target /\ x.mode = y.mode
  /\ x.mtime = y.mtime /\ x.owner = y.owner /\ x.dev = y.dev /\ x.rdev = y.rdev
  /\ x.xattrs = y.xattrs /\ x.access = y.access /\ x.default = y.default

TreesAlike(d, b) ==
  /\ IsTree(d) /\ IsTree(b)
  /\ d.inode = b.inode /\ DOMAIN d.node = DOMAIN b.node
  /\ \A k \in DOMAIN b.node : Alike(d.node[k], b.node[k])

(* Nodes that are alike look alike, but for the access time. *)
LEMMA AlikeView ==
  ASSUME NEW x, NEW y, Alike(x, y), Compares("atime") => x.atime = y.atime
  PROVE  View(x) = View(y)
<1>1. /\ x.kind = y.kind /\ x.mode = y.mode /\ ViewMtime(x) = ViewMtime(y)
      /\ ViewTarget(x) = ViewTarget(y) /\ ViewSize(x) = ViewSize(y) /\ ViewHash(x) = ViewHash(y)
  BY DEF Alike, ViewMtime, ViewTarget, ViewSize, ViewHash
<1>2. /\ ViewOwner(x) = ViewOwner(y) /\ ViewAtime(x) = ViewAtime(y) /\ ViewDev(x) = ViewDev(y)
      /\ ViewRdev(x) = ViewRdev(y)
  BY DEF Alike, ViewOwner, ViewAtime, ViewDev, ViewRdev
<1>3. ViewXAttrs(x) = ViewXAttrs(y) /\ ViewAcl(x) = ViewAcl(y)
  BY DEF Alike, ViewXAttrs, ViewAcl, XAttrsOf
<1>4. ViewSparse(x) = ViewSparse(y)
  BY DEF Alike, ViewSparse, SparseFile
<1> QED BY <1>1, <1>2, <1>3, <1>4 DEF View

(* The node of a name is there. *)
LEMMA NameHasNode ==
  ASSUME NEW t, IsTree(t), NEW n \in NamesOf(t)
  PROVE  /\ n \in 1 .. Names /\ t.inode[n] \in DOMAIN t.node /\ t.inode[n] \in 1 .. Names
         /\ IsNode(NodeOf(t, n))
<1>1. n \in 1 .. Names /\ t.inode[n] # 0 /\ t.inode \in [1 .. Names -> 0 .. Names]
  BY DEF IsTree, NamesOf
<1>2. t.inode[n] \in DOMAIN t.node
  BY DEF IsTree
<1>3. t.inode[n] \in 1 .. Names
  BY <1>1, DiffAssumption
<1> QED BY <1>1, <1>2, <1>3 DEF IsTree, NodeOf

(* Trees that are alike have the same names, with nodes that are alike. *)
LEMMA AlikeNames ==
  ASSUME NEW d, NEW b, TreesAlike(d, b)
  PROVE  /\ NamesOf(d) = NamesOf(b)
         /\ \A n \in NamesOf(b) : Alike(NodeOf(d, n), NodeOf(b, n))
<1>1. NamesOf(d) = NamesOf(b)
  BY DEF TreesAlike, NamesOf
<1>2. ASSUME NEW n \in NamesOf(b) PROVE Alike(NodeOf(d, n), NodeOf(b, n))
  <2>1. IsTree(b) /\ d.inode = b.inode /\ \A k \in DOMAIN b.node : Alike(d.node[k], b.node[k])
    BY DEF TreesAlike
  <2>2. b.inode[n] \in DOMAIN b.node
    BY <2>1, NameHasNode
  <2> QED BY <2>1, <2>2 DEF NodeOf
<1> QED BY <1>1, <1>2

(* A node whose access time moved is one, and like the one before. *)
LEMMA MovedNode ==
  ASSUME NEW x, IsNode(x), NEW t
  PROVE  LET y == [x EXCEPT !.atime = <<t, 0>>]
         IN  IsNode(y) /\ Alike(y, x) /\ y.atime = <<t, 0>>
<1> DEFINE y == [x EXCEPT !.atime = <<t, 0>>]
<1>1. x = [kind |-> x.kind, file |-> x.file, target |-> x.target, mode |-> x.mode,
          mtime |-> <<x.mtime[1], x.mtime[2]>>, atime |-> <<x.atime[1], x.atime[2]>>,
          owner |-> x.owner, dev |-> x.dev, rdev |-> x.rdev, xattrs |-> x.xattrs,
          access |-> x.access, default |-> x.default]
  BY DEF IsNode
<1>2. Alike(y, x) /\ y.atime = <<t, 0>>
  BY <1>1 DEF Alike
<1>3. y = [kind |-> x.kind, file |-> x.file, target |-> x.target, mode |-> x.mode,
           mtime |-> <<x.mtime[1], x.mtime[2]>>, atime |-> <<t, 0>>,
           owner |-> x.owner, dev |-> x.dev, rdev |-> x.rdev, xattrs |-> x.xattrs,
           access |-> x.access, default |-> x.default]
  BY <1>1
<1> HIDE DEF y
<1>4. y.atime = <<y.atime[1], y.atime[2]>>
  BY <1>2
<1>5. IsNode(y)
  BY <1>2, <1>3, <1>4 DEF IsNode, Alike
<1> QED BY <1>2, <1>5 DEF y

Moved(d, n, t) == [d EXCEPT !.node[d.inode[n]].atime = <<t, 0>>]

(* A read moves one access time in a tree, and nothing else. *)
LEMMA MovedAlike ==
  ASSUME NEW d, NEW b, TreesAlike(d, b), NEW n \in NamesOf(b), NEW t
  PROVE  /\ TreesAlike(Moved(d, n, t), b)
         /\ \A m \in NamesOf(b) : b.inode[m] # b.inode[n] => NodeOf(Moved(d, n, t), m) = NodeOf(d, m)
<1> DEFINE e == Moved(d, n, t)
           k0 == d.inode[n]
           y == [d.node[k0] EXCEPT !.atime = <<t, 0>>]
<1>1. /\ IsTree(d) /\ IsTree(b) /\ d.inode = b.inode /\ DOMAIN d.node = DOMAIN b.node
      /\ \A k \in DOMAIN b.node : Alike(d.node[k], b.node[k])
  BY DEF TreesAlike
<1>2. k0 \in DOMAIN d.node /\ IsNode(d.node[k0])
  <2>1. n \in NamesOf(d)
    BY AlikeNames
  <2> QED BY <2>1, <1>1, NameHasNode DEF NodeOf
<1>3. IsNode(y) /\ Alike(y, d.node[k0])
  BY <1>2, MovedNode
<1>4. /\ d = [inode |-> d.inode, node |-> [k \in DOMAIN d.node |-> d.node[k]]]
      /\ \A k \in DOMAIN d.node : IsNode(d.node[k])
      /\ d.inode \in [1 .. Names -> 0 .. Names]
      /\ \A m \in NamesOf(d) : d.inode[m] \in DOMAIN d.node
  BY <1>1 DEF IsTree
<1>5. e = [d EXCEPT !.node = [d.node EXCEPT ![k0] = y]]
  BY DEF Moved
<1> HIDE DEF y, k0
<1>6. e.inode = d.inode /\ e.node = [d.node EXCEPT ![k0] = y]
      /\ e = [inode |-> d.inode, node |-> [d.node EXCEPT ![k0] = y]]
  BY <1>4, <1>5
<1> HIDE DEF e
<1>7. /\ DOMAIN e.node = DOMAIN d.node
      /\ \A k \in DOMAIN d.node : e.node[k] = IF k = k0 THEN y ELSE d.node[k]
      /\ e.node = [k \in DOMAIN e.node |-> e.node[k]]
  BY <1>6, <1>2
<1>8. IsTree(e)
  <2>1. \A k \in DOMAIN e.node : IsNode(e.node[k])
    BY <1>3, <1>4, <1>7
  <2>2. e = [inode |-> e.inode, node |-> [k \in DOMAIN e.node |-> e.node[k]]]
    BY <1>6, <1>7
  <2>3. NamesOf(e) = NamesOf(d)
    BY <1>6 DEF NamesOf
  <2> QED BY <2>1, <2>2, <2>3, <1>4, <1>6, <1>7 DEF IsTree
<1>9. \A k \in DOMAIN b.node : Alike(e.node[k], b.node[k])
  <2> SUFFICES ASSUME NEW k \in DOMAIN b.node PROVE Alike(e.node[k], b.node[k])
    OBVIOUS
  <2>1. Alike(d.node[k], b.node[k])
    BY <1>1
  <2>2. CASE k = k0
    BY <2>1, <2>2, <1>1, <1>3, <1>7 DEF Alike
  <2>3. CASE k # k0
    BY <2>1, <2>3, <1>1, <1>7
  <2> QED BY <2>2, <2>3
<1>10. TreesAlike(e, b)
  BY <1>1, <1>6, <1>7, <1>8, <1>9 DEF TreesAlike
<1>11. ASSUME NEW m \in NamesOf(b), b.inode[m] # b.inode[n]
       PROVE  NodeOf(e, m) = NodeOf(d, m)
  <2>1. b.inode[m] \in DOMAIN b.node
    BY <1>1, NameHasNode
  <2> QED BY <2>1, <1>1, <1>6, <1>7, <1>11 DEF NodeOf, k0
<1> QED BY <1>10, <1>11 DEF e


(* The access times of the names that are still to come are as they were. *)
Fresh(d, b, P) == \A n \in NamesOf(b) \ P : NodeOf(d, n).atime = NodeOf(b, n).atime

(* The names seen so far are those passed, in order. *)
NamesSeen(q, b, P) ==
  /\ IsList(q)
  /\ \A i \in DOMAIN q : q[i][1] \in NamesOf(b) \cap P
  /\ \A i, j \in DOMAIN q : i < j => q[i][1] < q[j][1]
  /\ \A n \in NamesOf(b) \cap P : \E i \in DOMAIN q : q[i][1] = n

(* What was collected is what was there. *)
Exact(q, b) == \A i \in DOMAIN q : ProjectNode(q[i][2]) = View(NodeOf(b, q[i][1]))

Collectable(b, P) == \A n \in NamesOf(b) \cap P : ~ Uncollectable(NodeOf(b, n))

(* The names of each inode among those passed *)
GroupsOf(b, P) ==
  [k \in 1 .. Names |-> {n \in P : /\ Compares("links")
                                   /\ b.inode[n] = k /\ NodeOf(b, n).kind = "file"}]

(* A touch moves an access time, or nothing if the mount keeps none. *)
LEMMA TouchedIsMoved ==
  ASSUME NEW d, NEW n
  PROVE  Touched(d, n) = IF diff.mount = "atime" THEN Moved(d, n, clock) ELSE d
BY DEF Touched, Moved

(***************************************************************************)
(* A name is visited: the tree stays alike, and unless the comparison is   *)
(* blurred, what is collected and what is still to come are as they were.  *)
(***************************************************************************)
LEMMA VisitedAlike ==
  ASSUME NEW s \in Sides, NEW d, TreesAlike(d, Was(s)), NEW n \in NamesOf(Was(s)), NEW P,
         n \notin P, ~ Blurred /\ Compares("atime") => Fresh(d, Was(s), P)
  PROVE  LET e == ReadNode(Listed(d, n), n)
             x == NodeOf(Listed(d, n), n)
         IN  /\ TreesAlike(e, Was(s))
             /\ ~ Blurred => View(x) = View(NodeOf(Was(s), n))
             /\ ~ Blurred /\ Compares("atime") => Fresh(e, Was(s), P \cup {n})
<1> DEFINE b == Was(s)
           c == Listed(d, n)
           e == ReadNode(c, n)
           x == NodeOf(c, n)
           y == NodeOf(b, n)
<1>1. NodeOf(d, n).kind = y.kind
  BY AlikeNames DEF Alike
<1>2. c = d \/ (c = Moved(d, n, clock) /\ diff.mount = "atime" /\ y.kind = "dir")
  BY <1>1, TouchedIsMoved DEF Listed
<1>3. TreesAlike(c, b)
  BY <1>2, MovedAlike
<1>4. Alike(x, y)
  BY <1>3, AlikeNames
<1>5. IsRead(x) <=> IsRead(y)
  BY <1>4 DEF IsRead, Alike
<1>6. e = c \/ (e = Moved(c, n, clock) /\ diff.mount = "atime" /\ IsRead(y))
  <2>1. CASE IsRead(x)
    BY <2>1, <1>5, TouchedIsMoved DEF ReadNode
  <2>2. CASE ~ IsRead(x)
    BY <2>2 DEF ReadNode
  <2> QED BY <2>1, <2>2
<1>7. TreesAlike(e, b)
  <2> HIDE DEF c, e, b
  <2>1. n \in NamesOf(b)
    BY DEF b
  <2> QED BY <2>1, <1>3, <1>6, MovedAlike
<1>8. ASSUME ~ Blurred, Compares("atime")
      PROVE  x.atime = y.atime /\ Fresh(e, b, P \cup {n})
  <2>1. diff.mount = "atime" => y.kind # "dir"
    BY <1>8 DEF Blurred
  <2>2. c = d
    BY <2>1, <1>2
  <2>3. Fresh(d, b, P)
    BY <1>8
  <2>4. x.atime = y.atime
    BY <2>2, <2>3 DEF Fresh
  <2>5. ASSUME NEW m \in NamesOf(b) \ (P \cup {n})
        PROVE  NodeOf(e, m).atime = NodeOf(b, m).atime
    <3>1. NodeOf(d, m).atime = NodeOf(b, m).atime
      BY <2>3 DEF Fresh
    <3>2. CASE e = c
      BY <3>1, <3>2, <2>2
    <3>3. CASE e = Moved(c, n, clock) /\ diff.mount = "atime" /\ IsRead(y)
      <4>1. b.inode[m] # b.inode[n]
        BY <3>3, <1>8 DEF Blurred
      <4>2. NodeOf(e, m) = NodeOf(d, m)
        <5> HIDE DEF e, c, b
        <5>1. n \in NamesOf(b) /\ m \in NamesOf(b) /\ e = Moved(d, n, clock) /\ TreesAlike(d, b)
          BY <2>2, <3>3, <1>3 DEF b
        <5> QED BY <4>1, <5>1, MovedAlike
      <4> QED BY <3>1, <4>2
    <3> QED BY <3>2, <3>3, <1>6
  <2> QED BY <2>4, <2>5 DEF Fresh
<1>9. ~ Blurred => View(x) = View(y)
  BY <1>4, <1>8, AlikeView
<1> QED BY <1>7, <1>8, <1>9

(* A name is added to those seen. *)
LEMMA NameAdded ==
  ASSUME NEW q, NEW b, NEW n \in NamesOf(b), NEW P \in SUBSET (1 .. Names), NamesSeen(q, b, P),
         \A m \in P : m < n, NEW v
  PROVE  NamesSeen(Append(q, <<n, v>>), b, P \cup {n})
<1> DEFINE e == <<n, v>>
           r == Append(q, e)
<1>1. IsList(q)
  BY DEF NamesSeen
<1>2. /\ IsList(r) /\ Len(q) \in Nat /\ DOMAIN q = 1 .. Len(q) /\ DOMAIN r = 1 .. Len(q) + 1
      /\ r[Len(q) + 1] = e
      /\ \A i \in 1 .. Len(q) : r[i] = q[i]
  <2> HIDE DEF e
  <2> QED BY <1>1, AppendList DEF IsList
<1>3. e[1] = n
  OBVIOUS
<1> HIDE DEF r, e
<1>4. \A i \in DOMAIN r : r[i][1] = (IF i = Len(q) + 1 THEN n ELSE q[i][1]) /\ (i # Len(q) + 1 => i \in DOMAIN q)
  BY <1>2, <1>3
<1>5. \A i \in DOMAIN r : r[i][1] \in NamesOf(b) \cap (P \cup {n})
  BY <1>4 DEF NamesSeen
<1>6. ASSUME NEW i \in DOMAIN r, NEW j \in DOMAIN r, i < j
      PROVE  r[i][1] < r[j][1]
  <2>1. i # Len(q) + 1 /\ i \in DOMAIN q
    BY <1>2, <1>4, <1>6
  <2>2. CASE j = Len(q) + 1
    BY <2>1, <2>2, <1>4 DEF NamesSeen
  <2>3. CASE j # Len(q) + 1
    BY <2>1, <2>3, <1>4, <1>6 DEF NamesSeen
  <2> QED BY <2>2, <2>3
<1>7. ASSUME NEW m \in NamesOf(b) \cap (P \cup {n})
      PROVE  \E i \in DOMAIN r : r[i][1] = m
  <2>1. CASE m = n
    <3> DEFINE i == Len(q) + 1
    <3>1. i \in DOMAIN r /\ r[i][1] = m
      BY <1>2, <1>3, <2>1
    <3> HIDE DEF i
    <3> QED BY <3>1
  <2>2. CASE m # n
    <3>1. PICK i \in DOMAIN q : q[i][1] = m
      BY <2>2 DEF NamesSeen
    <3>2. i \in DOMAIN r /\ r[i] = q[i]
      BY <1>2
    <3> QED BY <3>1, <3>2
  <2> QED BY <2>1, <2>2
<1>8. NamesSeen(r, b, P \cup {n})
  BY <1>2, <1>5, <1>6, <1>7 DEF NamesSeen
<1> QED BY <1>8 DEF r, e

(* A view is added to those that are exact. *)
LEMMA ViewAdded ==
  ASSUME NEW q, IsList(q), NEW b, Exact(q, b), NEW n, NEW v, ProjectNode(v) = View(NodeOf(b, n))
  PROVE  Exact(Append(q, <<n, v>>), b)
<1> DEFINE e == <<n, v>>
           r == Append(q, e)
<1>1. /\ Len(q) \in Nat /\ DOMAIN q = 1 .. Len(q) /\ DOMAIN r = 1 .. Len(q) + 1
      /\ r[Len(q) + 1] = e
      /\ \A i \in 1 .. Len(q) : r[i] = q[i]
  <2> HIDE DEF e
  <2> QED BY AppendList DEF IsList
<1>2. e[1] = n /\ e[2] = v
  OBVIOUS
<1> HIDE DEF r, e
<1>3. ASSUME NEW i \in DOMAIN r PROVE ProjectNode(r[i][2]) = View(NodeOf(b, r[i][1]))
  <2>1. CASE i = Len(q) + 1
    BY <1>1, <1>2, <2>1
  <2>2. CASE i # Len(q) + 1
    <3>1. i \in DOMAIN q /\ r[i] = q[i]
      BY <1>1, <2>2
    <3> QED BY <3>1 DEF Exact
  <2> QED BY <2>1, <2>2
<1>4. Exact(r, b)
  BY <1>3 DEF Exact
<1> QED BY <1>4 DEF r, e

(* A file is added to the names of its inode. *)
LEMMA GroupAdded ==
  ASSUME NEW b, IsTree(b), NEW n \in NamesOf(b), NEW P
  PROVE  GroupsOf(b, P \cup {n})
         = IF Compares("links") /\ NodeOf(b, n).kind = "file"
           THEN [GroupsOf(b, P) EXCEPT ![b.inode[n]] = @ \cup {n}] ELSE GroupsOf(b, P)
<1>1. b.inode[n] \in 1 .. Names
  BY NameHasNode
<1>2. CASE Compares("links") /\ NodeOf(b, n).kind = "file"
  <2> DEFINE g == GroupsOf(b, P)
             h == [g EXCEPT ![b.inode[n]] = @ \cup {n}]
  <2>1. DOMAIN g = 1 .. Names
    BY DEF GroupsOf
  <2>2. \A k \in 1 .. Names : h[k] = IF k = b.inode[n] THEN g[k] \cup {n} ELSE g[k]
    <3> HIDE DEF g
    <3> QED BY <2>1, <1>1
  <2>3. \A k \in 1 .. Names : GroupsOf(b, P \cup {n})[k] = IF k = b.inode[n] THEN g[k] \cup {n} ELSE g[k]
    BY <1>2 DEF GroupsOf
  <2>4. h = [k \in 1 .. Names |-> h[k]]
    <3> HIDE DEF g
    <3> QED BY <2>1
  <2>5. GroupsOf(b, P \cup {n}) = [k \in 1 .. Names |-> GroupsOf(b, P \cup {n})[k]]
    BY DEF GroupsOf
  <2> DEFINE G == GroupsOf(b, P \cup {n})
  <2> HIDE DEF g, h, G
  <2>6. \A k \in 1 .. Names : G[k] = h[k]
    BY <2>2, <2>3 DEF G
  <2>7. G = [k \in 1 .. Names |-> G[k]]
    BY <2>5 DEF G
  <2>8. G = h
    BY ONLY <2>4, <2>6, <2>7
  <2> QED BY <2>8, <1>2 DEF g, h, G
<1>3. CASE ~ (Compares("links") /\ NodeOf(b, n).kind = "file")
  <2>1. \A k \in 1 .. Names : GroupsOf(b, P \cup {n})[k] = GroupsOf(b, P)[k]
    BY <1>3 DEF GroupsOf
  <2>2. /\ GroupsOf(b, P) = [k \in 1 .. Names |-> GroupsOf(b, P)[k]]
        /\ GroupsOf(b, P \cup {n}) = [k \in 1 .. Names |-> GroupsOf(b, P \cup {n})[k]]
    BY DEF GroupsOf
  <2> QED BY <2>1, <2>2, <1>3
<1> QED BY <1>2, <1>3

(* A name that is not there is in no group. *)
LEMMA GroupSkipped ==
  ASSUME NEW b, IsTree(b), NEW n \in 1 .. Names, n \notin NamesOf(b), NEW P
  PROVE  GroupsOf(b, P \cup {n}) = GroupsOf(b, P)
<1>1. b.inode[n] = 0
  BY DEF NamesOf
<1>2. \A k \in 1 .. Names : GroupsOf(b, P \cup {n})[k] = GroupsOf(b, P)[k]
  BY <1>1, DiffAssumption DEF GroupsOf
<1>3. /\ GroupsOf(b, P) = [k \in 1 .. Names |-> GroupsOf(b, P)[k]]
      /\ GroupsOf(b, P \cup {n}) = [k \in 1 .. Names |-> GroupsOf(b, P \cup {n})[k]]
  BY DEF GroupsOf
<1> QED BY <1>2, <1>3

-----------------------------------------------------------------------------
(* Diff: the comparison *)

(* Two lists of the same names are the same list of names. *)
LEMMA SameNamesSeen ==
  ASSUME NEW q, NEW r, NEW b, NEW d, NEW P, NamesSeen(q, b, P), NamesSeen(r, d, P), NamesOf(b) = NamesOf(d)
  PROVE  Len(q) = Len(r) /\ DOMAIN q = DOMAIN r /\ \A i \in DOMAIN q : q[i][1] = r[i][1]
<1> DEFINE S == 1 .. Names
           R == {p \in S \X S : p[1] < p[2]}
           f == [i \in 1 .. Len(q) |-> q[i][1]]
           g == [i \in 1 .. Len(r) |-> r[i][1]]
<1>1. /\ DOMAIN q = 1 .. Len(q) /\ Len(q) \in Nat /\ DOMAIN r = 1 .. Len(r) /\ Len(r) \in Nat
  BY DEF NamesSeen, IsList
<1>2. (\A i \in DOMAIN q : q[i][1] \in S) /\ (\A i \in DOMAIN r : r[i][1] \in S)
  BY DEF NamesSeen, NamesOf
<1>3. Asymmetric(S, R)
  BY DiffAssumption DEF Asymmetric
<1>4. f \in Seq(S) /\ DOMAIN f = 1 .. Len(q)
  <2> DEFINE n == Len(q)
  <2>1. f \in [1 .. n -> S] /\ n \in Nat
    BY <1>1, <1>2
  <2>2. DOMAIN f = 1 .. Len(q)
    OBVIOUS
  <2> HIDE DEF n, f, S
  <2>3. f \in Seq(S)
    BY <2>1
  <2> QED BY <2>2, <2>3
<1>5. g \in Seq(S) /\ DOMAIN g = 1 .. Len(r)
  <2> DEFINE n == Len(r)
  <2>1. g \in [1 .. n -> S] /\ n \in Nat
    BY <1>1, <1>2
  <2>2. DOMAIN g = 1 .. Len(r)
    OBVIOUS
  <2> HIDE DEF n, g, S
  <2>3. g \in Seq(S)
    BY <2>1
  <2> QED BY <2>2, <2>3
<1>6. Sorted(f, S, R)
  <2>1. \A i, j \in DOMAIN f : i < j => f[i] < f[j] /\ f[i] \in S /\ f[j] \in S
    BY <1>1, <1>2 DEF NamesSeen
  <2> HIDE DEF f, S
  <2> QED BY <2>1, <1>4 DEF Sorted
<1>7. Sorted(g, S, R)
  <2>1. \A i, j \in DOMAIN g : i < j => g[i] < g[j] /\ g[i] \in S /\ g[j] \in S
    BY <1>1, <1>2 DEF NamesSeen
  <2> HIDE DEF g, S
  <2> QED BY <2>1, <1>5 DEF Sorted
<1>8. AllIn(f, g)
  <2> SUFFICES ASSUME NEW i \in DOMAIN f PROVE \E j \in DOMAIN g : g[j] = f[i]
    BY DEF AllIn
  <2>1. q[i][1] \in NamesOf(d) \cap P
    BY <1>1 DEF NamesSeen
  <2>2. PICK j \in DOMAIN r : r[j][1] = q[i][1]
    BY <2>1 DEF NamesSeen
  <2> QED BY <2>2, <1>1
<1>9. AllIn(g, f)
  <2> SUFFICES ASSUME NEW i \in DOMAIN g PROVE \E j \in DOMAIN f : f[j] = g[i]
    BY DEF AllIn
  <2>1. r[i][1] \in NamesOf(b) \cap P
    BY <1>1 DEF NamesSeen
  <2>2. PICK j \in DOMAIN q : q[j][1] = r[i][1]
    BY <2>1 DEF NamesSeen
  <2> QED BY <2>2, <1>1
<1>10. f = g
  <2> HIDE DEF f, g, S, R
  <2> QED BY ONLY <1>3, <1>6, <1>7, <1>8, <1>9, SortedEqual
<1>11. DOMAIN f = DOMAIN g /\ \A i \in DOMAIN q : f[i] = q[i][1] /\ g[i] = r[i][1]
  <2>1. 1 .. Len(q) = 1 .. Len(r)
    BY <1>4, <1>5, <1>10
  <2> QED BY <2>1, <1>1
<1>12. Len(q) = Len(r)
  <2>1. Len(f) = Len(q) /\ Len(g) = Len(r)
    BY <1>1, <1>4, <1>5
  <2> QED BY <2>1, <1>10
<1> QED BY <1>1, <1>10, <1>11, <1>12

(* What the walk of a side leaves, when it is over *)
Walked(s) ==
  /\ IsTree(Was(s))
  /\ NamesSeen(seen[s], Was(s), 1 .. Names)
  /\ Exact(seen[s], Was(s))
  /\ Collectable(Was(s), 1 .. Names)
  /\ groups[s] = GroupsOf(Was(s), (1 .. Names) \ lost[s])

(* The names of a tree are among all names. *)
LEMMA NamesAreAll ==
  ASSUME NEW t
  PROVE  NamesOf(t) \cap (1 .. Names) = NamesOf(t)
BY DEF NamesOf

(* The projections are the same if and only if all nodes are. *)
LEMMA ProjectionExact ==
  ASSUME Walked("left"), Walked("right"), ~ Unavailable
  PROVE  Projected("left") = Projected("right") <=>
           /\ NamesOf(Was("left")) = NamesOf(Was("right"))
           /\ \A n \in NamesOf(Was("left")) :
                SameNode(NodeOf(Was("left"), n), NodeOf(Was("right"), n))
<1> DEFINE l == Was("left")
           r == Was("right")
           p == seen["left"]
           q == seen["right"]
           f == Projected("left")
           g == Projected("right")
<1>1. /\ IsTree(l) /\ IsTree(r) /\ NamesSeen(p, l, 1 .. Names) /\ NamesSeen(q, r, 1 .. Names)
      /\ Exact(p, l) /\ Exact(q, r) /\ Collectable(l, 1 .. Names) /\ Collectable(r, 1 .. Names)
  BY DEF Walked
<1>2. /\ f = [i \in DOMAIN p |-> <<p[i][1], View(NodeOf(l, p[i][1]))>>]
      /\ g = [i \in DOMAIN q |-> <<q[i][1], View(NodeOf(r, q[i][1]))>>]
  <2>1. f = [i \in DOMAIN p |-> <<p[i][1], ProjectNode(p[i][2])>>]
    BY DEF Projected
  <2>2. g = [i \in DOMAIN q |-> <<q[i][1], ProjectNode(q[i][2])>>]
    BY DEF Projected
  <2>3. \A i \in DOMAIN p : ProjectNode(p[i][2]) = View(NodeOf(l, p[i][1]))
    BY <1>1 DEF Exact
  <2>4. \A i \in DOMAIN q : ProjectNode(q[i][2]) = View(NodeOf(r, q[i][1]))
    BY <1>1 DEF Exact
  <2> HIDE DEF f, g, l, r, p, q
  <2> QED BY <2>1, <2>2, <2>3, <2>4
<1>3. ASSUME NEW n \in NamesOf(l), n \in NamesOf(r)
      PROVE  View(NodeOf(l, n)) = View(NodeOf(r, n)) <=> SameNode(NodeOf(l, n), NodeOf(r, n))
  <2> DEFINE x == NodeOf(l, n)
             y == NodeOf(r, n)
  <2>1. IsNode(x) /\ IsNode(y)
    BY <1>1, <1>3, NameHasNode
  <2>2. ~ Uncollectable(x) /\ ~ Uncollectable(y)
    BY <1>1, <1>3, NamesAreAll DEF Collectable
  <2>3. diff.platform # "linux" => {"owner", "atime", "dev"} \cap diff.opts = {}
    <3>1. \E i \in DOMAIN p : p[i][1] = n
      BY <1>1, <1>3, NamesAreAll DEF NamesSeen
    <3>2. p # <<>>
      BY <3>1
    <3> QED BY <3>2 DEF Unavailable
  <2> HIDE DEF x, y
  <2>4. View(x) = View(y) <=> SameNode(x, y)
    BY <2>1, <2>2, <2>3, SameView
  <2> QED BY <2>4 DEF x, y
<1> HIDE DEF f, g, p, q, l, r
<1>4. ASSUME f = g
      PROVE  /\ NamesOf(l) = NamesOf(r)
             /\ \A n \in NamesOf(l) : SameNode(NodeOf(l, n), NodeOf(r, n))
  <2>1. DOMAIN p = DOMAIN q /\ \A i \in DOMAIN p : f[i] = g[i]
    BY <1>2, <1>4
  <2>2. ASSUME NEW i \in DOMAIN p
        PROVE  p[i][1] = q[i][1] /\ View(NodeOf(l, p[i][1])) = View(NodeOf(r, q[i][1]))
    <3>1. <<p[i][1], View(NodeOf(l, p[i][1]))>> = <<q[i][1], View(NodeOf(r, q[i][1]))>>
      BY <2>1, <1>2
    <3> QED BY <3>1
  <2>3. ASSUME NEW n \in NamesOf(l) PROVE n \in NamesOf(r) /\ View(NodeOf(l, n)) = View(NodeOf(r, n))
    <3>1. PICK i \in DOMAIN p : p[i][1] = n
      BY <1>1, NamesAreAll DEF NamesSeen
    <3>2. q[i][1] \in NamesOf(r)
      BY <1>1, <2>1 DEF NamesSeen
    <3> QED BY <3>1, <3>2, <2>2
  <2>4. ASSUME NEW n \in NamesOf(r) PROVE n \in NamesOf(l)
    <3>1. PICK i \in DOMAIN q : q[i][1] = n
      BY <1>1, NamesAreAll DEF NamesSeen
    <3>2. p[i][1] \in NamesOf(l)
      BY <1>1, <2>1 DEF NamesSeen
    <3> QED BY <3>1, <3>2, <2>1, <2>2
  <2> QED BY <2>3, <2>4, <1>3
<1>5. ASSUME NamesOf(l) = NamesOf(r), \A n \in NamesOf(l) : SameNode(NodeOf(l, n), NodeOf(r, n))
      PROVE  f = g
  <2>1. DOMAIN p = DOMAIN q /\ \A i \in DOMAIN p : p[i][1] = q[i][1]
    BY ONLY <1>1, <1>5, SameNamesSeen
  <2>2. \A i \in DOMAIN p : p[i][1] \in NamesOf(l)
    BY <1>1 DEF NamesSeen
  <2>3. \A i \in DOMAIN p : View(NodeOf(l, p[i][1])) = View(NodeOf(r, q[i][1]))
    BY <2>1, <2>2, <1>3, <1>5
  <2> QED BY <2>1, <2>3, <1>2
<1> QED BY <1>4, <1>5 DEF f, g, l, r


(* A set with two elements has two, and the other way round. *)
LEMMA TwoInSet ==
  ASSUME NEW S, IsFiniteSet(S)
  PROVE  Cardinality(S) >= 2 <=> \E n, m \in S : n # m
<1>0. Cardinality(S) \in Nat
  BY FS_CardinalityType
<1>1. ASSUME NEW n \in S, NEW m \in S, n # m
      PROVE  Cardinality(S) >= 2
  <2>1. IsFiniteSet({n}) /\ Cardinality({n}) = 1
    BY FS_Singleton
  <2>2. Cardinality({n}) <= Cardinality(S) /\ (Cardinality(S) = Cardinality({n}) => S = {n})
    <3>1. {n} \in SUBSET S
      OBVIOUS
    <3> QED BY <3>1, FS_Subset
  <2>3. S # {n}
    BY <1>1
  <2> QED BY <1>0, <2>1, <2>2, <2>3
<1>2. ASSUME Cardinality(S) >= 2, ~ \E n, m \in S : n # m
      PROVE  FALSE
  <2>1. S # {}
    BY <1>2, FS_EmptySet
  <2>2. PICK n \in S : TRUE
    BY <2>1
  <2>3. S = {n}
    BY <1>2, <2>2
  <2> QED BY <1>2, <2>3, FS_Singleton
<1> QED BY <1>1, <1>2

(* The names of one inode, without the names L *)
LinksOf(t, L, k) == {n \in 1 .. Names : n \notin L /\ IsFile(t, n) /\ t.inode[n] = k}

(* The groups of a side are the names of its inodes. *)
LEMMA GroupsAreLinks ==
  ASSUME NEW s, Walked(s)
  PROVE  /\ Compares("links") => \A k \in 1 .. Names : groups[s][k] = LinksOf(Was(s), lost[s], k)
         /\ ~ Compares("links") => HardlinkGroups(s) = {}
         /\ \A k \in 1 .. Names : IsFiniteSet(groups[s][k])
<1>1. groups[s] = GroupsOf(Was(s), (1 .. Names) \ lost[s])
  BY DEF Walked
<1>2. ASSUME Compares("links"), NEW k \in 1 .. Names
      PROVE  groups[s][k] = LinksOf(Was(s), lost[s], k)
  <2>1. groups[s][k] = {n \in (1 .. Names) \ lost[s] : Was(s).inode[n] = k /\ NodeOf(Was(s), n).kind = "file"}
    BY <1>1, <1>2 DEF GroupsOf
  <2>2. \A n \in 1 .. Names : Was(s).inode[n] = k => n \in NamesOf(Was(s))
    BY DiffAssumption DEF NamesOf
  <2> QED BY <2>1, <2>2 DEF LinksOf, IsFile
<1>3. ASSUME ~ Compares("links")
      PROVE  HardlinkGroups(s) = {}
  <2>1. \A k \in 1 .. Names : groups[s][k] = {}
    BY <1>1, <1>3 DEF GroupsOf
  <2>2. \A k \in 1 .. Names : ~ (Cardinality(groups[s][k]) >= 2)
    BY <2>1, FS_EmptySet
  <2> QED BY <2>2 DEF HardlinkGroups
<1>4. ASSUME NEW k \in 1 .. Names PROVE IsFiniteSet(groups[s][k])
  <2>1. groups[s][k] \in SUBSET (1 .. Names)
    BY <1>1 DEF GroupsOf
  <2>2. IsFiniteSet(1 .. Names)
    BY DiffAssumption, FS_Interval
  <2> QED BY <2>1, <2>2, FS_Subset
<1> QED BY <1>2, <1>3, <1>4

LinkedOn(s, n, m) == Linked(Was(s), lost[s], n, m)

(* What one side has as a group the other has, if it has the same links. *)
LEMMA GroupsInclude ==
  ASSUME NEW s \in Sides, NEW u \in Sides, Walked(s), Walked(u), Compares("links"),
         \A n, m \in 1 .. Names : n # m => (LinkedOn(s, n, m) <=> LinkedOn(u, n, m))
  PROVE  HardlinkGroups(s) \subseteq HardlinkGroups(u)
<1> DEFINE b == Was(s)
           d == Was(u)
<1> SUFFICES ASSUME NEW k \in 1 .. Names, Cardinality(groups[s][k]) >= 2
             PROVE  groups[s][k] \in HardlinkGroups(u)
  BY DEF HardlinkGroups
<1>1. \A i \in 1 .. Names : groups[s][i] = LinksOf(b, lost[s], i) /\ groups[u][i] = LinksOf(d, lost[u], i)
                            /\ IsFiniteSet(groups[s][i])
  BY GroupsAreLinks
<1>2. PICK n, o \in groups[s][k] : n # o
  <2>1. IsFiniteSet(groups[s][k])
    BY <1>1
  <2> QED BY <2>1, TwoInSet
<1>3. /\ n \in 1 .. Names /\ n \notin lost[s] /\ IsFile(b, n) /\ b.inode[n] = k
      /\ o \in 1 .. Names /\ o \notin lost[s] /\ IsFile(b, o) /\ b.inode[o] = k
  BY <1>1, <1>2 DEF LinksOf
<1>4. LinkedOn(u, n, o)
  BY <1>2, <1>3 DEF LinkedOn, Linked
<1>5. IsFile(d, n) /\ n \notin lost[u]
  BY <1>4 DEF LinkedOn, Linked
<1> DEFINE j == d.inode[n]
<1>6. j \in 1 .. Names
  <2>1. n \in NamesOf(d) /\ IsTree(d)
    BY <1>5 DEF IsFile, Walked
  <2> QED BY <2>1, NameHasNode
<1>7. LinksOf(b, lost[s], k) = {m \in 1 .. Names : m = n \/ (n # m /\ LinkedOn(s, n, m))}
  BY <1>3 DEF LinksOf, LinkedOn, Linked
<1>8. LinksOf(d, lost[u], j) = {m \in 1 .. Names : m = n \/ (n # m /\ LinkedOn(u, n, m))}
  BY <1>5 DEF LinksOf, LinkedOn, Linked
<1>9. groups[s][k] = groups[u][j]
  BY <1>1, <1>3, <1>6, <1>7, <1>8
<1> HIDE DEF j
<1> QED BY <1>6, <1>9 DEF HardlinkGroups

(* What one side has linked the other has, if it has the same groups. *)
LEMMA LinksInclude ==
  ASSUME NEW s \in Sides, NEW u \in Sides, Walked(s), Walked(u), Compares("links"),
         HardlinkGroups(s) = HardlinkGroups(u),
         NEW n \in 1 .. Names, NEW m \in 1 .. Names, n # m, LinkedOn(s, n, m)
  PROVE  LinkedOn(u, n, m)
<1> DEFINE b == Was(s)
           d == Was(u)
           k == b.inode[n]
<1>1. \A i \in 1 .. Names : groups[s][i] = LinksOf(b, lost[s], i) /\ groups[u][i] = LinksOf(d, lost[u], i)
                            /\ IsFiniteSet(groups[s][i])
  BY GroupsAreLinks
<1>2. k \in 1 .. Names
  <2>1. n \in NamesOf(b) /\ IsTree(b)
    BY DEF LinkedOn, Linked, IsFile, Walked
  <2> QED BY <2>1, NameHasNode
<1>3. n \in LinksOf(b, lost[s], k) /\ m \in LinksOf(b, lost[s], k)
  BY DEF LinksOf, LinkedOn, Linked
<1> DEFINE g == groups[s][k]
<1>4. n \in g /\ m \in g /\ IsFiniteSet(g)
  BY <1>1, <1>2, <1>3
<1>5. Cardinality(g) >= 2
  <2> HIDE DEF g
  <2> QED BY <1>4, TwoInSet
<1>6. g \in HardlinkGroups(u)
  BY <1>2, <1>5 DEF HardlinkGroups
<1>7. PICK j \in 1 .. Names : g = groups[u][j]
  BY <1>6 DEF HardlinkGroups
<1>8. n \in LinksOf(d, lost[u], j) /\ m \in LinksOf(d, lost[u], j)
  BY <1>1, <1>4, <1>7
<1> QED BY <1>8 DEF LinksOf, LinkedOn, Linked

(***************************************************************************)
(* With both sides walked, the comparison says equal if and only if the    *)
(* trees are the same as far as the options go, and as far as the inodes   *)
(* were found out.                                                         *)
(***************************************************************************)
VerdictTree == SameTree(Was("left"), lost["left"], Was("right"), lost["right"])

LEMMA ComparisonExact ==
  ASSUME Walked("left"), Walked("right"), ~ Unavailable
  PROVE  (Projected("left") = Projected("right") /\ HardlinkGroups("left") = HardlinkGroups("right"))
         <=> VerdictTree
<1> DEFINE l == Was("left")
           r == Was("right")
<1>1. Projected("left") = Projected("right") <=>
        NamesOf(l) = NamesOf(r) /\ \A n \in NamesOf(l) : SameNode(NodeOf(l, n), NodeOf(r, n))
  BY ProjectionExact
<1>2. VerdictTree <=>
        /\ NamesOf(l) = NamesOf(r) /\ \A n \in NamesOf(l) : SameNode(NodeOf(l, n), NodeOf(r, n))
        /\ Compares("links") =>
             \A n, m \in 1 .. Names : n # m => (LinkedOn("left", n, m) <=> LinkedOn("right", n, m))
  BY DEF VerdictTree, SameTree, LinkedOn
<1>3. "left" \in Sides /\ "right" \in Sides
  BY DEF Sides
<1>4. CASE ~ Compares("links")
  BY <1>1, <1>2, <1>4, GroupsAreLinks
<1>5. CASE Compares("links")
  <2>1. ASSUME \A n, m \in 1 .. Names : n # m => (LinkedOn("left", n, m) <=> LinkedOn("right", n, m))
        PROVE  HardlinkGroups("left") = HardlinkGroups("right")
    BY <1>3, <1>5, <2>1, GroupsInclude
  <2>2. ASSUME HardlinkGroups("left") = HardlinkGroups("right"),
               NEW n \in 1 .. Names, NEW m \in 1 .. Names, n # m
        PROVE  LinkedOn("left", n, m) <=> LinkedOn("right", n, m)
    BY <1>3, <1>5, <2>2, LinksInclude
  <2> QED BY <1>1, <1>2, <1>5, <2>1, <2>2
<1> QED BY <1>4, <1>5

-----------------------------------------------------------------------------
(* Diff: the invariant of the walk *)

(***************************************************************************)
(* A side that has passed the names P: its tree d is like the tree b when  *)
(* the call began, and q and g hold what there is of these names, g        *)
(* without the names L whose inodes were not found out.                    *)
(***************************************************************************)
SideOk(d, b, q, g, P, L) ==
  /\ TreesAlike(d, b)
  /\ ~ Blurred /\ Compares("atime") => Fresh(d, b, P)
  /\ NamesSeen(q, b, P)
  /\ ~ Blurred => Exact(q, b)
  /\ Collectable(b, P)
  /\ L \subseteq P
  /\ g = GroupsOf(b, P \ L)

(* The names of side s that are passed when the walk is at side and name. *)
PassedAt(s, side, name) ==
  IF side = "compare" \/ (s = "left" /\ side = "right") THEN 1 .. Names
  ELSE IF s = side THEN 1 .. name - 1 ELSE {}

SideInv(s) ==
  \A d, b, q, g, P, L :
    /\ d = Below(disk, s) /\ b = Was(s) /\ q = seen[s] /\ g = groups[s] /\ L = lost[s]
    /\ P = PassedAt(s, at.side, at.name)
    => SideOk(d, b, q, g, P, L)

(* What is compared of a node depends on the call alone. *)
LEMMA ViewStable ==
  ASSUME diff' = diff
  PROVE  /\ \A w : Compares(w)' <=> Compares(w)
         /\ \A x : View(x)' = View(x)
         /\ \A x : ProjectNode(x)' = ProjectNode(x)
         /\ \A x : Uncollectable(x)' <=> Uncollectable(x)
         /\ \A x : IsRead(x)' <=> IsRead(x)
<1>1. \A w : Compares(w)' <=> Compares(w)
  BY DEF Compares
<1>2. \A x : Precise(x)' = Precise(x)
  BY DEF Precise, Compares
<1>3. \A x : ViewMtime(x)' = ViewMtime(x) /\ ViewTarget(x)' = ViewTarget(x) /\ ViewSize(x)' = ViewSize(x)
             /\ ViewHash(x)' = ViewHash(x)
  BY DEF Precise, Compares, ViewMtime, ViewTarget, ViewSize, ViewHash
<1>4. \A x : ViewOwner(x)' = ViewOwner(x) /\ ViewAtime(x)' = ViewAtime(x) /\ ViewDev(x)' = ViewDev(x)
             /\ ViewRdev(x)' = ViewRdev(x)
  BY DEF Precise, Compares, ViewOwner, ViewAtime, ViewDev, ViewRdev, OnLinux
<1>5. \A x : ViewXAttrs(x)' = ViewXAttrs(x) /\ ViewAcl(x)' = ViewAcl(x)
  BY DEF Compares, ViewXAttrs, ViewAcl
<1>6. \A x : ViewSparse(x)' = ViewSparse(x)
  BY DEF Compares, ViewSparse, SparseFile
<1>7. \A x : View(x)' = View(x)
  BY <1>3, <1>4, <1>5, <1>6 DEF View
<1>8. \A x : ProjectNode(x)' = ProjectNode(x)
  BY DEF ProjectNode, Precise, Compares
<1>9. \A x : (Uncollectable(x)' <=> Uncollectable(x)) /\ (IsRead(x)' <=> IsRead(x))
  BY DEF Uncollectable, IsRead, Compares
<1> QED BY <1>1, <1>7, <1>8, <1>9

(* What is known of a side depends on the call and its beginning alone. *)
LEMMA SideStable ==
  ASSUME diff' = diff, before' = before
  PROVE  /\ Blurred' <=> Blurred
         /\ \A d, b, q, g, P, L : SideOk(d, b, q, g, P, L)' <=> SideOk(d, b, q, g, P, L)
<1>1. /\ \A w : Compares(w)' <=> Compares(w)
      /\ \A x : View(x)' = View(x)
      /\ \A x : ProjectNode(x)' = ProjectNode(x)
      /\ \A x : Uncollectable(x)' <=> Uncollectable(x)
      /\ \A x : IsRead(x)' <=> IsRead(x)
  BY ViewStable
<1>2. Blurred' <=> Blurred
  BY DEF Blurred, Was, Below, Compares, IsRead
<1>3. \A q, b : Exact(q, b)' <=> Exact(q, b)
  BY <1>1 DEF Exact
<1>4. \A b, P : Collectable(b, P)' <=> Collectable(b, P)
  BY <1>1 DEF Collectable
<1>5. \A b, P : GroupsOf(b, P)' = GroupsOf(b, P)
  BY DEF GroupsOf, Compares
<1>6. \A d, b, q, g, P, L : SideOk(d, b, q, g, P, L)' <=> SideOk(d, b, q, g, P, L)
  BY <1>1, <1>2, <1>3, <1>4, <1>5 DEF SideOk
<1> QED BY <1>2, <1>6

(* Nothing is passed when a call begins. *)
LEMMA SideStarts ==
  ASSUME NEW t, IsTree(t)
  PROVE  SideOk(t, t, <<>>, [k \in 1 .. Names |-> {}], {}, {})'
<1>1. TreesAlike(t, t)
  BY DEF TreesAlike, Alike
<1>2. Fresh(t, t, {})
  BY DEF Fresh
<1>3. NamesSeen(<<>>, t, {})
  BY DEF NamesSeen, IsList
<1>4. Exact(<<>>, t)'
  BY DEF Exact
<1>5. Collectable(t, {})'
  BY DEF Collectable
<1>6. ([k \in 1 .. Names |-> {}] = GroupsOf(t, {} \ {}))'
  BY DEF GroupsOf
<1> QED BY <1>1, <1>2, <1>3, <1>4, <1>5, <1>6 DEF SideOk

(* A name that is not there is passed. *)
LEMMA SideSkips ==
  ASSUME NEW d, NEW b, NEW q, NEW g, NEW P, NEW L, SideOk(d, b, q, g, P, L), NEW n \in 1 .. Names,
         n \notin NamesOf(b)
  PROVE  SideOk(d, b, q, g, P \cup {n}, L)
<1>1. NamesOf(b) \cap (P \cup {n}) = NamesOf(b) \cap P /\ NamesOf(b) \ (P \cup {n}) = NamesOf(b) \ P
  OBVIOUS
<1>2. NamesSeen(q, b, P \cup {n})
  BY <1>1 DEF SideOk, NamesSeen
<1>3. Fresh(d, b, P) => Fresh(d, b, P \cup {n})
  BY <1>1 DEF Fresh
<1>4. Collectable(b, P \cup {n})
  BY <1>1 DEF SideOk, Collectable
<1>5. GroupsOf(b, (P \cup {n}) \ L) = GroupsOf(b, P \ L)
  <2>1. GroupsOf(b, (P \ L) \cup {n}) = GroupsOf(b, P \ L)
    BY GroupSkipped DEF SideOk, TreesAlike
  <2>2. (P \cup {n}) \ L = (P \ L) \cup {n} \/ (P \cup {n}) \ L = P \ L
    OBVIOUS
  <2> QED BY <2>1, <2>2
<1> QED BY <1>2, <1>3, <1>4, <1>5 DEF SideOk

(* The inode of the name is looked up. *)
Looked(d, n) == Compares("links") /\ NodeOf(d, n).kind = "file"

(* A node is collected, and its inode found out or not. *)
LEMMA SideCollects ==
  ASSUME NEW s \in Sides, NEW d, NEW q, NEW g, NEW P \in SUBSET (1 .. Names),
         NEW L, SideOk(d, Was(s), q, g, P, L), NEW n \in NamesOf(Was(s)), \A m \in P : m < n,
         ~ Uncollectable(NodeOf(d, n)), NEW ok \in BOOLEAN
  PROVE  SideOk(ReadNode(Listed(d, n), n), Was(s),
                Append(q, <<n, LstatThenRead(Listed(d, n), n)>>),
                IF Looked(d, n) /\ ok THEN [g EXCEPT ![d.inode[n]] = @ \cup {n}] ELSE g,
                P \cup {n},
                IF Looked(d, n) /\ ~ ok THEN L \cup {n} ELSE L)
<1> DEFINE b == Was(s)
           e == ReadNode(Listed(d, n), n)
           x == NodeOf(Listed(d, n), n)
           v == LstatThenRead(Listed(d, n), n)
<1>1. /\ TreesAlike(d, b) /\ NamesSeen(q, b, P) /\ (~ Blurred => Exact(q, b)) /\ Collectable(b, P)
      /\ L \subseteq P /\ g = GroupsOf(b, P \ L) /\ (~ Blurred /\ Compares("atime") => Fresh(d, b, P))
  BY DEF SideOk
<1>2. n \notin P
  <2>1. n \in 1 .. Names
    BY DEF NamesOf
  <2> QED BY <2>1, DiffAssumption
<1>3. /\ TreesAlike(e, b)
      /\ ~ Blurred => View(x) = View(NodeOf(b, n))
      /\ ~ Blurred /\ Compares("atime") => Fresh(e, b, P \cup {n})
  BY <1>1, <1>2, VisitedAlike
<1>4. ProjectNode(v) = View(x)
  BY ProjectedView DEF LstatThenRead
<1>5. Alike(NodeOf(d, n), NodeOf(b, n)) /\ d.inode = b.inode /\ IsTree(b)
  BY <1>1, AlikeNames DEF TreesAlike
<1>6. Collectable(b, P \cup {n})
  <2>1. ~ Uncollectable(NodeOf(b, n))
    BY <1>5 DEF Uncollectable, Alike
  <2> QED BY <2>1, <1>1 DEF Collectable
<1> DEFINE h == IF Looked(d, n) /\ ok THEN [g EXCEPT ![d.inode[n]] = @ \cup {n}] ELSE g
           M == IF Looked(d, n) /\ ~ ok THEN L \cup {n} ELSE L
<1>7. h = GroupsOf(b, (P \cup {n}) \ M) /\ M \subseteq P \cup {n}
  <2>1. GroupsOf(b, (P \ L) \cup {n})
          = IF Looked(d, n) THEN [g EXCEPT ![d.inode[n]] = @ \cup {n}] ELSE g
    BY <1>1, <1>5, GroupAdded DEF Alike, Looked
  <2>2. CASE Looked(d, n) /\ ~ ok
    <3>1. (P \cup {n}) \ M = P \ L /\ h = g
      BY <1>1, <1>2, <2>2
    <3> QED BY <1>1, <2>2, <3>1
  <2>3. CASE ~ (Looked(d, n) /\ ~ ok)
    <3>1. (P \cup {n}) \ M = (P \ L) \cup {n} /\ M = L
      BY <1>1, <1>2, <2>3
    <3>2. h = IF Looked(d, n) THEN [g EXCEPT ![d.inode[n]] = @ \cup {n}] ELSE g
      BY <2>3
    <3> HIDE DEF h, M
    <3> QED BY <1>1, <2>1, <3>1, <3>2
  <2> QED BY <2>2, <2>3
<1> HIDE DEF h, M
<1> HIDE DEF v, e, x, b
<1>8. n \in NamesOf(b)
  BY DEF b
<1>9. NamesSeen(Append(q, <<n, v>>), b, P \cup {n})
  BY <1>1, <1>8, NameAdded
<1>10. ~ Blurred => Exact(Append(q, <<n, v>>), b)
  <2>1. IsList(q)
    BY <1>1 DEF NamesSeen
  <2> QED BY <2>1, <1>1, <1>3, <1>4, ViewAdded
<1>11. SideOk(e, b, Append(q, <<n, v>>), h, P \cup {n}, M)
  BY <1>3, <1>6, <1>7, <1>9, <1>10 DEF SideOk
<1> QED BY <1>11 DEF e, b, v, h, M

(* What is passed grows by the name that was at hand. *)
LEMMA PassedGrows ==
  ASSUME NEW side \in Sides, NEW name \in 1 .. Names, NEW s \in Sides
  PROVE  LET next == Following(side, name)
         IN  /\ PassedAt(s, next.side, next.name)
                  = IF s = side THEN PassedAt(s, side, name) \cup {name} ELSE PassedAt(s, side, name)
             /\ PassedAt(side, side, name) \in SUBSET (1 .. Names)
             /\ \A m \in PassedAt(side, side, name) : m < name
             /\ next = [side |-> next.side, name |-> next.name]
             /\ next.side \in Sides \cup {"compare"}
             /\ next.side \in Sides => next.name \in 1 .. Names
<1> DEFINE next == Following(side, name)
<1>0. Names \in Nat \ {0} /\ Sides = {"left", "right"} /\ name \in Nat
  BY DiffAssumption DEF Sides
<1>1. side # "compare" /\ PassedAt(side, side, name) = 1 .. name - 1
  BY <1>0 DEF PassedAt
<1>2. 1 .. name - 1 \in SUBSET (1 .. Names) /\ \A m \in 1 .. name - 1 : m < name
  BY <1>0
<1>3. CASE name < Names
  <2>1. next = [side |-> side, name |-> name + 1]
    BY <1>3 DEF Following
  <2>2. next.side = side /\ next.name = name + 1 /\ name + 1 \in 1 .. Names
    BY <1>0, <1>3, <2>1
  <2>3. (1 .. name - 1) \cup {name} = 1 .. name + 1 - 1
    BY <1>0
  <2>4. PassedAt(s, side, name + 1)
          = IF s = side THEN PassedAt(s, side, name) \cup {name} ELSE PassedAt(s, side, name)
    <3>1. CASE s = side
      BY <1>1, <2>3, <3>1 DEF PassedAt
    <3>2. CASE s # side
      BY <3>2 DEF PassedAt
    <3> QED BY <3>1, <3>2
  <2> HIDE DEF next
  <2> QED BY <1>1, <1>2, <2>1, <2>2, <2>4 DEF next
<1>4. CASE ~ (name < Names)
  <2>0. name = Names /\ (1 .. name - 1) \cup {name} = 1 .. Names
    BY <1>0, <1>4
  <2>1. CASE side = "left"
    <3>1. next = [side |-> "right", name |-> 1]
      BY <1>4, <2>1 DEF Following
    <3>2. next.side = "right" /\ next.name = 1 /\ 1 \in 1 .. Names
      BY <1>0, <3>1
    <3>3. PassedAt(s, "right", 1)
            = IF s = side THEN PassedAt(s, side, name) \cup {name} ELSE PassedAt(s, side, name)
      <4>1. CASE s = side
        BY <1>1, <2>0, <2>1, <4>1 DEF PassedAt
      <4>2. CASE s # side
        <5>1. s = "right" /\ 1 .. 1 - 1 = {}
          BY <1>0, <2>1, <4>2
        <5> QED BY <2>1, <5>1 DEF PassedAt
      <4> QED BY <4>1, <4>2
    <3> HIDE DEF next
    <3> QED BY <1>0, <1>1, <1>2, <3>1, <3>2, <3>3 DEF next
  <2>2. CASE side = "right"
    <3>1. next = [side |-> "compare", name |-> 0]
      BY <1>4, <2>2 DEF Following
    <3>2. next.side = "compare" /\ next.name = 0
      BY <3>1
    <3>3. PassedAt(s, "compare", 0)
            = IF s = side THEN PassedAt(s, side, name) \cup {name} ELSE PassedAt(s, side, name)
      <4>1. CASE s = side
        BY <1>1, <2>0, <2>2, <4>1 DEF PassedAt
      <4>2. CASE s # side
        <5>1. s = "left"
          BY <1>0, <2>2, <4>2
        <5> QED BY <2>2, <5>1 DEF PassedAt
      <4> QED BY <4>1, <4>2
    <3> HIDE DEF next
    <3> QED BY <1>0, <1>1, <1>2, <3>1, <3>2, <3>3 DEF next
  <2> QED BY <1>0, <2>1, <2>2
<1> QED BY <1>3, <1>4

Walks == at.side \in {"left", "right", "compare"}

WalkInv ==
  /\ disk = [s \in Sides |-> disk[s]]
  /\ seen = [s \in Sides |-> seen[s]]
  /\ groups = [s \in Sides |-> groups[s]]
  /\ lost = [s \in Sides |-> lost[s]]
  /\ verdict = "none"
  /\ \A s \in Sides : SideInv(s)

DiffInv ==
  /\ at.side \in {"idle", "left", "right", "compare", "over"}
  /\ at.side \in Sides => at.name \in 1 .. Names
  /\ at.side = "idle" =>
       /\ verdict = "none"
       /\ seen = [s \in Sides |-> <<>>]
       /\ groups = [s \in Sides |-> [k \in 1 .. Names |-> {}]]
       /\ lost = [s \in Sides |-> {}]
  /\ at.side # "idle" => making.side = "none"
  /\ Walks => WalkInv
  /\ VerdictExact

(* The trees before the call, or while they are made *)
TreeInv ==
  /\ disk = [s \in Sides |-> disk[s]]
  /\ \A s \in Sides : IsTree(disk[s])

(* A side that is left alone stays as it is known. *)
LEMMA SideKept ==
  ASSUME NEW s \in Sides, SideInv(s), diff' = diff, before' = before,
         disk'[s] = disk[s], seen'[s] = seen[s], groups'[s] = groups[s], lost'[s] = lost[s],
         PassedAt(s, at.side, at.name)' = PassedAt(s, at.side, at.name)
  PROVE  SideInv(s)'
<1> SUFFICES ASSUME NEW d, NEW b, NEW q, NEW g, NEW P, NEW L,
                    d = Below(disk, s)', b = Was(s)', q = seen'[s], g = groups'[s], L = lost'[s],
                    P = PassedAt(s, at.side, at.name)'
             PROVE  SideOk(d, b, q, g, P, L)'
  BY DEF SideInv
<1>1. d = Below(disk, s) /\ b = Was(s)
  BY DEF Below, Was
<1>2. SideOk(d, b, q, g, P, L)
  BY <1>1 DEF SideInv
<1> QED BY <1>2, SideStable

(* A side that is known is walked when all its names are passed. *)
LEMMA SideWalked ==
  ASSUME NEW s \in Sides, SideInv(s), at.side = "compare", ~ Blurred
  PROVE  Walked(s)
<1>1. PassedAt(s, at.side, at.name) = 1 .. Names
  BY DEF PassedAt
<1>2. SideOk(Below(disk, s), Was(s), seen[s], groups[s], 1 .. Names, lost[s])
  BY <1>1 DEF SideInv
<1> QED BY <1>2 DEF SideOk, Walked, TreesAlike

(* A name that the tree does not have is skipped. *)
LEMMA SkipKeeps ==
  ASSUME DiffInv, SkipName, UNCHANGED makeVars
  PROVE  DiffInv'
<1> DEFINE c == at.side
           n == at.name
           next == Following(c, n)
<1>1. c \in Sides /\ n \in 1 .. Names /\ n \notin NamesOf(Below(disk, c)) /\ at' = next
  BY DEF SkipName, Walking, Here, DiffInv
<1>2. WalkInv
  BY <1>1 DEF DiffInv, Walks, Sides
<1>3. diff' = diff /\ before' = before /\ disk' = disk /\ seen' = seen /\ groups' = groups /\ verdict' = verdict
      /\ lost' = lost
  BY DEF SkipName
<1>4. \A s \in Sides : PassedAt(s, next.side, next.name)
                         = IF s = c THEN PassedAt(s, c, n) \cup {n} ELSE PassedAt(s, c, n)
  BY <1>1, PassedGrows, ZenonT(60)
<1>5. next.side \in Sides \cup {"compare"} /\ (next.side \in Sides => next.name \in 1 .. Names)
  BY <1>1, PassedGrows
<1>6. ASSUME NEW s \in Sides PROVE SideInv(s)'
  <2>0. SideInv(s)
    BY <1>2 DEF WalkInv
  <2>1. CASE s # c
    <3>1. PassedAt(s, at.side, at.name)' = PassedAt(s, at.side, at.name)
      BY <1>1, <1>4, <2>1
    <3> QED BY <2>0, <3>1, <1>3, SideKept
  <2>2. CASE s = c
    <3> SUFFICES ASSUME NEW d, NEW b, NEW q, NEW g, NEW P, NEW L,
                        d = Below(disk, s)', b = Was(s)', q = seen'[s], g = groups'[s], L = lost'[s],
                        P = PassedAt(s, at.side, at.name)'
                 PROVE  SideOk(d, b, q, g, P, L)'
      BY DEF SideInv
    <3> DEFINE Q == PassedAt(s, at.side, at.name)
    <3>0. d = Below(disk, s) /\ b = Was(s)
      BY <1>3 DEF Below, Was
    <3>1. SideOk(d, b, q, g, Q, L)
      BY <2>0, <1>3, <3>0 DEF SideInv
    <3>2. P = Q \cup {n}
      BY <1>1, <1>4, <2>2
    <3>3. n \notin NamesOf(b)
      <4>1. NamesOf(d) = NamesOf(b)
        BY <3>1, AlikeNames DEF SideOk
      <4> QED BY <4>1, <1>1, <2>2, <3>0
    <3> HIDE DEF Q
    <3>4. SideOk(d, b, q, g, P, L)
      BY <1>1, <3>1, <3>2, <3>3, SideSkips
    <3> QED BY <3>4, <1>3, SideStable
  <2> QED BY <2>1, <2>2
<1>7. WalkInv'
  BY <1>2, <1>3, <1>6 DEF WalkInv
<1>8. (verdict = "none")'
  BY <1>2, <1>3 DEF WalkInv
<1>9. VerdictExact'
  BY <1>8 DEF VerdictExact
<1>10. making'.side = "none"
  BY <1>1 DEF DiffInv, Sides, makeVars
<1> HIDE DEF next
<1> QED BY <1>1, <1>5, <1>7, <1>9, <1>10 DEF DiffInv, Sides

(* A node is collected: its names grow, and only access times move. *)
LEMMA CollectKeeps ==
  ASSUME DiffInv, CollectNode, UNCHANGED makeVars
  PROVE  DiffInv'
<1> DEFINE c == at.side
           n == at.name
           next == Following(c, n)
           D == Below(disk, c)
           e == ReadNode(Listed(D, n), n)
           v == LstatThenRead(Listed(D, n), n)
<1>1. /\ c \in Sides /\ n \in 1 .. Names /\ n \in NamesOf(D) /\ ~ Uncollectable(NodeOf(D, n))
      /\ at' = next
  BY DEF CollectNode, Walking, Here, DiffInv
<1>2. WalkInv
  BY <1>1 DEF DiffInv, Walks, Sides
<1>0. diff.base[c] = "dir"
  <2>1. NamesOf(NoTree) = {}
    BY DEF NamesOf, NoTree
  <2> QED BY <1>1, <2>1 DEF Below
<1>3. /\ diff' = diff /\ before' = before /\ verdict' = verdict
      /\ disk' = [disk EXCEPT ![c] = e]
      /\ seen' = [seen EXCEPT ![c] = Append(@, <<n, v>>)]
  BY DEF CollectNode, Here
<1> PICK ok \in BOOLEAN :
      /\ groups' = IF Looked(D, n) /\ ok
                   THEN [groups EXCEPT ![c][D.inode[n]] = @ \cup {n}] ELSE groups
      /\ lost' = IF Looked(D, n) /\ ~ ok THEN [lost EXCEPT ![c] = @ \cup {n}] ELSE lost
  <2>1. (~ diff.failing) \in BOOLEAN
    OBVIOUS
  <2> QED BY <2>1 DEF CollectNode, Here, LooksUp, Looked
<1> DEFINE h == IF Looked(D, n) /\ ok THEN [groups[c] EXCEPT ![D.inode[n]] = @ \cup {n}] ELSE groups[c]
           M == IF Looked(D, n) /\ ~ ok THEN lost[c] \cup {n} ELSE lost[c]
<1>4. \A s \in Sides : PassedAt(s, next.side, next.name)
                         = IF s = c THEN PassedAt(s, c, n) \cup {n} ELSE PassedAt(s, c, n)
  BY <1>1, PassedGrows, ZenonT(60)
<1>5. next.side \in Sides \cup {"compare"} /\ (next.side \in Sides => next.name \in 1 .. Names)
      /\ PassedAt(c, c, n) \in SUBSET (1 .. Names) /\ \A m \in PassedAt(c, c, n) : m < n
  BY <1>1, PassedGrows
<1>6. /\ disk'[c] = e /\ \A s \in Sides : s # c => disk'[s] = disk[s]
      /\ disk' = [s \in Sides |-> disk'[s]]
  <2> HIDE DEF e
  <2>1. disk = [s \in Sides |-> disk[s]]
    BY <1>2 DEF WalkInv
  <2> QED BY <1>1, <1>3, <2>1
<1>7. /\ seen'[c] = Append(seen[c], <<n, v>>) /\ \A s \in Sides : s # c => seen'[s] = seen[s]
      /\ seen' = [s \in Sides |-> seen'[s]]
  <2> HIDE DEF v
  <2>1. seen = [s \in Sides |-> seen[s]]
    BY <1>2 DEF WalkInv
  <2> QED BY <1>1, <1>3, <2>1
<1>8. /\ groups'[c] = h /\ \A s \in Sides : s # c => groups'[s] = groups[s]
      /\ groups' = [s \in Sides |-> groups'[s]]
  <2>1. groups = [s \in Sides |-> groups[s]]
    BY <1>2 DEF WalkInv
  <2>2. CASE Looked(D, n) /\ ok
    <3> DEFINE k == D.inode[n]
    <3>1. groups' = [groups EXCEPT ![c] = [groups[c] EXCEPT ![k] = groups[c][k] \cup {n}]]
      BY <2>2
    <3>2. h = [groups[c] EXCEPT ![k] = groups[c][k] \cup {n}]
      BY <2>2
    <3> HIDE DEF h, k
    <3> QED BY <1>1, <2>1, <3>1, <3>2
  <2>3. CASE ~ (Looked(D, n) /\ ok)
    <3>1. groups' = groups /\ h = groups[c]
      BY <2>3
    <3> HIDE DEF h
    <3> QED BY <2>1, <3>1
  <2> QED BY <2>2, <2>3
<1>14. /\ lost'[c] = M /\ \A s \in Sides : s # c => lost'[s] = lost[s]
       /\ lost' = [s \in Sides |-> lost'[s]]
  <2>1. lost = [s \in Sides |-> lost[s]]
    BY <1>2 DEF WalkInv
  <2> QED BY <1>1, <2>1
<1>9. ASSUME NEW s \in Sides PROVE SideInv(s)'
  <2>0. SideInv(s)
    BY <1>2 DEF WalkInv
  <2>1. CASE s # c
    <3>1. PassedAt(s, at.side, at.name)' = PassedAt(s, at.side, at.name)
      BY <1>1, <1>4, <2>1
    <3> QED BY <2>0, <2>1, <3>1, <1>3, <1>6, <1>7, <1>8, <1>14, SideKept
  <2>2. CASE s = c
    <3> SUFFICES ASSUME NEW d, NEW b, NEW q, NEW g, NEW P, NEW L,
                        d = Below(disk, s)', b = Was(s)', q = seen'[s], g = groups'[s], L = lost'[s],
                        P = PassedAt(s, at.side, at.name)'
                 PROVE  SideOk(d, b, q, g, P, L)'
      BY DEF SideInv
    <3> DEFINE Q == PassedAt(c, c, n)
    <3>0. d = e /\ b = Was(c)
      <4> HIDE DEF e
      <4>1. d = disk'[c] /\ b = Was(c)
        BY <2>2, <1>0, <1>3 DEF Below, Was
      <4> QED BY <4>1, <1>6
    <3>1. SideOk(D, Was(c), seen[c], groups[c], Q, lost[c])
      BY <2>0, <2>2 DEF SideInv
    <3>2. P = Q \cup {n}
      BY <1>1, <1>4, <2>2
    <3>3. n \in NamesOf(Was(c))
      <4>1. NamesOf(D) = NamesOf(Was(c))
        BY <3>1, AlikeNames DEF SideOk
      <4> QED BY <4>1, <1>1
    <3>4. Q \in SUBSET (1 .. Names) /\ \A m \in Q : m < n
      BY <1>5
    <3> HIDE DEF Q
    <3>5. SideOk(e, Was(c), Append(seen[c], <<n, v>>), h, Q \cup {n}, M)
      BY <1>1, <3>1, <3>3, <3>4, SideCollects, ZenonT(60)
    <3> HIDE DEF e, v, h, M
    <3>6. SideOk(d, b, q, g, P, L)
      BY <2>2, <3>0, <3>2, <3>5, <1>7, <1>8, <1>14
    <3> QED BY <3>6, <1>3, SideStable
  <2> QED BY <2>1, <2>2
<1> HIDE DEF e, v, h, M, next
<1>10. WalkInv'
  BY <1>2, <1>3, <1>6, <1>7, <1>8, <1>9, <1>14 DEF WalkInv
<1>11. (verdict = "none")'
  BY <1>2, <1>3 DEF WalkInv
<1>12. VerdictExact'
  BY <1>11 DEF VerdictExact
<1>13. making'.side = "none"
  BY <1>1 DEF DiffInv, Sides, makeVars
<1> QED BY <1>1, <1>5, <1>10, <1>12, <1>13 DEF DiffInv, Sides

(* A node cannot be collected: there is no verdict about the trees. *)
LEMMA CollectFailsKeeps ==
  ASSUME DiffInv, CollectFails, UNCHANGED makeVars
  PROVE  DiffInv'
<1>1. at.side \in Sides /\ verdict' = "error" /\ at' = [side |-> "over", name |-> 0]
  BY DEF CollectFails, Walking, Ends
<1>2. at'.side = "over"
  BY <1>1
<1>3. VerdictExact'
  BY <1>1 DEF VerdictExact
<1>4. making'.side = "none"
  BY <1>1 DEF DiffInv, Sides, makeVars
<1> QED BY <1>2, <1>3, <1>4 DEF DiffInv, Walks, Sides

(* What the verdict is about depends on the call and its beginning, and on what was found out. *)
LEMMA VerdictStable ==
  ASSUME diff' = diff, before' = before, lost' = lost
  PROVE  VerdictTree' <=> VerdictTree
<1>1. Was("left")' = Was("left") /\ Was("right")' = Was("right")
  BY DEF Was, Below
<1>2. \A l, L, r, R : SameTree(l, L, r, R)' <=> SameTree(l, L, r, R)
  BY DEF SameTree, SameNode, Compares
<1> QED BY <1>1, <1>2 DEF VerdictTree

(* The comparison: what was collected is what the trees were. *)
LEMMA CompareKeeps ==
  ASSUME DiffInv, Compare, UNCHANGED makeVars
  PROVE  DiffInv'
<1>1. /\ at.side = "compare" /\ at' = [side |-> "over", name |-> 0]
      /\ diff' = diff /\ before' = before /\ lost' = lost
      /\ verdict' = IF Unavailable THEN "error"
                    ELSE IF \/ Projected("left") # Projected("right")
                            \/ HardlinkGroups("left") # HardlinkGroups("right")
                    THEN "differs" ELSE "equal"
  BY DEF Compare, Ends
<1>2. at'.side = "over"
  BY <1>1
<1>3. making'.side = "none"
  BY <1>1 DEF DiffInv, makeVars
<1>4. ASSUME verdict' \in {"equal", "differs"}, ~ Blurred
      PROVE  (verdict' = "equal") <=> VerdictTree
  <2>1. ~ Unavailable
    BY <1>1, <1>4
  <2>2. SideInv("left") /\ SideInv("right")
    BY <1>1 DEF DiffInv, Walks, WalkInv, Sides
  <2>3. Walked("left") /\ Walked("right")
    BY <1>1, <1>4, <2>2, SideWalked DEF Sides
  <2>4. (Projected("left") = Projected("right") /\ HardlinkGroups("left") = HardlinkGroups("right"))
        <=> VerdictTree
    BY <2>1, <2>3, ComparisonExact
  <2> QED BY <1>1, <2>1, <2>4
<1>5. Blurred' <=> Blurred
  BY <1>1, SideStable
<1>6. VerdictTree' <=> VerdictTree
  BY <1>1, VerdictStable
<1>7. VerdictExact'
  <2> SUFFICES ASSUME verdict' \in {"equal", "differs"}, ~ Blurred'
               PROVE  (verdict' = "equal") = VerdictTree'
    BY DEF VerdictExact, VerdictTree
  <2>1. (verdict' = "equal") <=> VerdictTree'
    BY <1>4, <1>5, <1>6
  <2>2. VerdictTree' \in BOOLEAN
    BY DEF VerdictTree, SameTree
  <2> QED BY ONLY <2>1, <2>2
<1> QED BY <1>2, <1>3, <1>7 DEF DiffInv, Walks, Sides

(* A tree with nothing in it is a tree. *)
LEMMA NoTreeIsTree == IsTree(NoTree)
<1> DEFINE f == [n \in 1 .. Names |-> 0]
<1>1. NoTree = [inode |-> f, node |-> <<>>]
  BY DEF NoTree
<1>2. f \in [1 .. Names -> 0 .. Names]
  BY DiffAssumption
<1>3. NamesOf(NoTree) = {}
  BY DEF NamesOf, NoTree
<1>4. DOMAIN NoTree.node = {} /\ NoTree.node = [k \in DOMAIN NoTree.node |-> NoTree.node[k]]
  BY <1>1
<1>5. NoTree.inode = f /\ NoTree = [inode |-> f, node |-> NoTree.node]
  BY <1>1
<1> HIDE DEF f
<1> QED BY <1>2, <1>3, <1>4, <1>5 DEF IsTree

(* The call begins: nothing is passed, and the trees are those of the history. *)
LEMMA StartKeeps ==
  ASSUME DiffInv, TreeInv, making.side = "none", NEW c, StartDiff(c), UNCHANGED makeVars
  PROVE  DiffInv'
<1>1. /\ at.side = "idle" /\ disk' = disk /\ seen' = seen /\ groups' = groups /\ before' = disk
      /\ verdict = "none" /\ seen = [s \in Sides |-> <<>>]
      /\ groups = [s \in Sides |-> [k \in 1 .. Names |-> {}]]
      /\ lost' = lost /\ lost = [s \in Sides |-> {}]
  BY DEF StartDiff, DiffInv
<1>2. making'.side = "none"
  BY DEF makeVars
<1>3. CASE "invalid" \in c.opts
  <2>1. verdict' = "error" /\ at'.side = "over"
    BY <1>3 DEF StartDiff, Ends
  <2>2. VerdictExact'
    BY <2>1 DEF VerdictExact
  <2> QED BY <1>2, <2>1, <2>2 DEF DiffInv, Walks, Sides
<1>4. CASE "invalid" \notin c.opts
  <2>1. verdict' = "none" /\ at' = [side |-> "left", name |-> 1]
    BY <1>1, <1>4 DEF StartDiff
  <2>2. at'.side = "left" /\ at'.name = 1 /\ 1 \in 1 .. Names
    BY <2>1, DiffAssumption
  <2>3. ASSUME NEW s \in Sides PROVE SideInv(s)'
    <3> SUFFICES ASSUME NEW d, NEW b, NEW q, NEW g, NEW P, NEW L,
                        d = Below(disk, s)', b = Was(s)', q = seen'[s], g = groups'[s], L = lost'[s],
                        P = PassedAt(s, at.side, at.name)'
                 PROVE  SideOk(d, b, q, g, P, L)'
      BY DEF SideInv
    <3>1. P = {}
      <4>1. P = PassedAt(s, "left", 1)
        BY <2>2
      <4>2. 1 .. 1 - 1 = {}
        OBVIOUS
      <4> QED BY <4>1, <4>2 DEF PassedAt, Sides
    <3>2. b = d /\ q = <<>> /\ g = [k \in 1 .. Names |-> {}] /\ L = {}
      BY <1>1 DEF Was, Below
    <3>4. IsTree(d)
      <4>1. d = disk[s] \/ d = NoTree
        BY <1>1 DEF Below
      <4> QED BY <4>1, NoTreeIsTree DEF TreeInv
    <3>3. SideOk(d, d, <<>>, [k \in 1 .. Names |-> {}], {}, {})'
      BY <3>4, SideStarts
    <3> QED BY <3>1, <3>2, <3>3
  <2>4. WalkInv'
    BY <1>1, <2>1, <2>3 DEF WalkInv, TreeInv
  <2>5. VerdictExact'
    BY <2>1 DEF VerdictExact
  <2> QED BY <1>2, <2>2, <2>4, <2>5 DEF DiffInv, Walks, Sides
<1> QED BY <1>3, <1>4

-----------------------------------------------------------------------------
(* Parity: the making of one side *)

(* A node as the making leaves it *)
Inode(kind, file, mode, mtime, atime, owner, xattrs, access, default) ==
  [kind |-> kind, file |-> file, target |-> None, mode |-> mode, mtime |-> mtime, atime |-> atime,
   owner |-> owner, dev |-> <<1>>, rdev |-> <<0>>, xattrs |-> xattrs, access |-> access,
   default |-> default]

InodeFields == {"kind", "file", "target", "mode", "mtime", "atime", "owner", "dev", "rdev", "xattrs",
                "access", "default"}

(* Its fields are what it was given. *)
LEMMA InodeHas ==
  ASSUME NEW a, NEW b, NEW c, NEW d, NEW e, NEW f, NEW g, NEW h, NEW i
  PROVE  LET x == Inode(a, b, c, d, e, f, g, h, i)
         IN  /\ DOMAIN x = InodeFields
             /\ x = [z \in InodeFields |-> x[z]]
             /\ x.kind = a /\ x.file = b /\ x.mode = c /\ x.mtime = d /\ x.atime = e /\ x.owner = f
             /\ x.xattrs = g /\ x.access = h /\ x.default = i
             /\ x.target = None /\ x.dev = <<1>> /\ x.rdev = <<0>>
  BY DEF Inode, InodeFields

(* Nodes with the same fields are the same. *)
LEMMA InodeEqual ==
  ASSUME NEW a, NEW b, NEW c, NEW d, NEW e, NEW f, NEW g, NEW h, NEW i,
         NEW y, y = [z \in InodeFields |-> y[z]],
         y.kind = a, y.file = b, y.mode = c, y.mtime = d, y.atime = e, y.owner = f,
         y.xattrs = g, y.access = h, y.default = i,
         y.target = None, y.dev = << 1 >>, y.rdev = << 0 >>
  PROVE  y = Inode(a, b, c, d, e, f, g, h, i)
<1> DEFINE x == Inode(a, b, c, d, e, f, g, h, i)
<1>1. /\ x = [z \in InodeFields |-> x[z]]
      /\ x.kind = a /\ x.file = b /\ x.mode = c /\ x.mtime = d /\ x.atime = e /\ x.owner = f
      /\ x.xattrs = g /\ x.access = h /\ x.default = i
      /\ x.target = None /\ x.dev = <<1>> /\ x.rdev = <<0>>
  BY InodeHas
<1> HIDE DEF x
<1>2. \A z \in InodeFields : x[z] = y[z]
  BY <1>1 DEF InodeFields
<1>3. [z \in InodeFields |-> x[z]] = [z \in InodeFields |-> y[z]]
  BY <1>2
<1> QED BY <1>1, <1>3 DEF x

(* One attribute is replaced. *)
LEMMA SetOne ==
  ASSUME NEW x, NEW a, NEW b, NEW c, NEW d, NEW e, NEW f, NEW g, NEW h, NEW i,
         x = Inode(a, b, c, d, e, f, g, h, i)
  PROVE  /\ \A v : [x EXCEPT !.file = v] = Inode(a, v, c, d, e, f, g, h, i)
         /\ \A v : [x EXCEPT !.mode = v] = Inode(a, b, v, d, e, f, g, h, i)
         /\ \A v : [x EXCEPT !.mtime = v] = Inode(a, b, c, v, e, f, g, h, i)
         /\ \A v : [x EXCEPT !.atime = v] = Inode(a, b, c, d, v, f, g, h, i)
         /\ \A v : [x EXCEPT !.owner = v] = Inode(a, b, c, d, e, v, g, h, i)
         /\ \A v : [x EXCEPT !.xattrs = v] = Inode(a, b, c, d, e, f, v, h, i)
         /\ \A v : [x EXCEPT !.access = v] = Inode(a, b, c, d, e, f, g, v, i)
         /\ \A v : [x EXCEPT !.default = v] = Inode(a, b, c, d, e, f, g, h, v)
<1>1. \A v : [x EXCEPT !.file = v] = Inode(a, v, c, d, e, f, g, h, i)
  BY DEF Inode
<1>2. \A v : [x EXCEPT !.mode = v] = Inode(a, b, v, d, e, f, g, h, i)
  BY DEF Inode
<1>3. \A v : [x EXCEPT !.mtime = v] = Inode(a, b, c, v, e, f, g, h, i)
  BY DEF Inode
<1>4. \A v : [x EXCEPT !.atime = v] = Inode(a, b, c, d, v, f, g, h, i)
  BY DEF Inode
<1>5. \A v : [x EXCEPT !.owner = v] = Inode(a, b, c, d, e, v, g, h, i)
  BY DEF Inode
<1>6. \A v : [x EXCEPT !.xattrs = v] = Inode(a, b, c, d, e, f, v, h, i)
  BY DEF Inode
<1>7. \A v : [x EXCEPT !.access = v] = Inode(a, b, c, d, e, f, g, v, i)
  BY DEF Inode
<1>8. \A v : [x EXCEPT !.default = v] = Inode(a, b, c, d, e, f, g, h, v)
  BY DEF Inode
<1> QED BY <1>1, <1>2, <1>3, <1>4, <1>5, <1>6, <1>7, <1>8

(* Two attributes are replaced. *)
WithFile(x, v, w) == [x EXCEPT !.file = v, !.mtime = w]
WithTimes(x, v, w) == [x EXCEPT !.atime = v, !.mtime = w]
WithAcls(x, v, w) == [x EXCEPT !.access = v, !.default = w]
WithAccess(x, v, w) == [x EXCEPT !.access = v, !.mode = w]

(* Two are. *)
LEMMA SetTwo ==
  ASSUME NEW x, NEW a, NEW b, NEW c, NEW d, NEW e, NEW f, NEW g, NEW h, NEW i,
         x = Inode(a, b, c, d, e, f, g, h, i), NEW v, NEW w
  PROVE  /\ WithFile(x, v, w) = Inode(a, v, c, w, e, f, g, h, i)
         /\ WithTimes(x, v, w) = Inode(a, b, c, w, v, f, g, h, i)
         /\ WithAcls(x, v, w) = Inode(a, b, c, d, e, f, g, v, w)
         /\ WithAccess(x, v, w) = Inode(a, b, w, d, e, f, g, v, i)
<1>1. WithFile(x, v, w) = Inode(a, v, c, w, e, f, g, h, i)
  <2> DEFINE y == [x EXCEPT !.file = v]
  <2>1. y = Inode(a, v, c, d, e, f, g, h, i)
    BY SetOne
  <2>2. WithFile(x, v, w) = [y EXCEPT !.mtime = w]
    BY DEF WithFile
  <2> HIDE DEF y
  <2>3. [y EXCEPT !.mtime = w] = Inode(a, v, c, w, e, f, g, h, i)
    BY <2>1, SetOne
  <2> QED BY <2>2, <2>3
<1>2. WithTimes(x, v, w) = Inode(a, b, c, w, v, f, g, h, i)
  <2> DEFINE y == [x EXCEPT !.atime = v]
  <2>1. y = Inode(a, b, c, d, v, f, g, h, i)
    BY SetOne
  <2>2. WithTimes(x, v, w) = [y EXCEPT !.mtime = w]
    BY DEF WithTimes
  <2> HIDE DEF y
  <2>3. [y EXCEPT !.mtime = w] = Inode(a, b, c, w, v, f, g, h, i)
    BY <2>1, SetOne
  <2> QED BY <2>2, <2>3
<1>3. WithAcls(x, v, w) = Inode(a, b, c, d, e, f, g, v, w)
  <2> DEFINE y == [x EXCEPT !.access = v]
  <2>1. y = Inode(a, b, c, d, e, f, g, v, i)
    BY SetOne
  <2>2. WithAcls(x, v, w) = [y EXCEPT !.default = w]
    BY DEF WithAcls
  <2> HIDE DEF y
  <2>3. [y EXCEPT !.default = w] = Inode(a, b, c, d, e, f, g, v, w)
    BY <2>1, SetOne
  <2> QED BY <2>2, <2>3
<1>4. WithAccess(x, v, w) = Inode(a, b, w, d, e, f, g, v, i)
  <2> DEFINE y == [x EXCEPT !.access = v]
  <2>1. y = Inode(a, b, c, d, e, f, g, v, i)
    BY SetOne
  <2>2. WithAccess(x, v, w) = [y EXCEPT !.mode = w]
    BY DEF WithAccess
  <2> HIDE DEF y
  <2>3. [y EXCEPT !.mode = w] = Inode(a, b, w, d, e, f, g, v, i)
    BY <2>1, SetOne
  <2> QED BY <2>2, <2>3
<1> QED BY <1>1, <1>2, <1>3, <1>4

(* What a recipe comes to *)
PromisedFile(c) == [i \in 1 .. c.size |-> PromisedByte(c, i - 1)]
XAttrsAll(r) == {r.xattrs[i] : i \in DOMAIN r.xattrs}
Acled(r) == "acl" \in r.has /\ r.acl # <<>>
AccessAcl(r) == Resolve(r.mode, r.acl, FALSE)
DefaultAcl(r) == Resolve(r.mode, r.acl, TRUE)

(***************************************************************************)
(* What the node of recipe r is like when the making is at a step, after   *)
(* the creation: the last to touch an attribute decides.                   *)
(***************************************************************************)
StageFile(r, step, file, n, p, w) ==
  IF r.kind # "file" THEN file = <<>> /\ step # "write"
  ELSE IF step = "write" THEN Writing(r.content, file, n, p, w)
  ELSE file = PromisedFile(r.content) /\ w = r.content.written

StageOwner(r, step) ==
  IF step \in {"write", "chown"} \/ "owner" \notin r.has THEN <<0, 0>> ELSE r.owner

StageTime(r, step, t) ==
  /\ t = <<t[1], t[2]>>
  /\ step \notin {"write", "chown", "chmod", "utimes"} /\ "times" \in r.has => t = r.times

StageXAttrs(r, step, X) ==
  IF step \in {"write", "chown", "chmod", "utimes"} \/ "xattrs" \notin r.has THEN X = {}
  ELSE IF step = "xattrs" THEN X \subseteq XAttrsAll(r)
  ELSE X = XAttrsAll(r)

StageMode(r, step) ==
  IF step \in {"default", "link"} /\ Acled(r) THEN ModeOf(AccessAcl(r)) ELSE r.mode

StageAccess(r, step) ==
  IF step \in {"default", "link"} /\ Acled(r) THEN Kept(Marshal(AccessAcl(r))) ELSE <<>>

StageDefault(r, step) ==
  IF step = "link" /\ Acled(r) /\ HasDefault(r.acl) THEN Marshal(DefaultAcl(r)) ELSE <<>>

StageNode(r, step, file, mtime, atime, X) ==
  Inode(r.kind, file, StageMode(r, step), mtime, atime, StageOwner(r, step), X,
        StageAccess(r, step), StageDefault(r, step))

StageHas(r, step) ==
  /\ step \in {"write", "chown", "chmod", "utimes", "xattrs", "acl", "access", "default", "link"}
  /\ step = "acl" => "acl" \in r.has
  /\ step \in {"access", "default"} => Acled(r)
  /\ step = "default" => HasDefault(r.acl)

Stage(r, step, x, n, p, w) ==
  /\ StageHas(r, step)
  /\ \E file, mtime, atime, X :
       /\ x = StageNode(r, step, file, mtime, atime, X)
       /\ StageFile(r, step, file, n, p, w)
       /\ StageTime(r, step, mtime) /\ StageTime(r, step, atime)
       /\ StageXAttrs(r, step, X)

(* The creation *)
LEMMA StageCreated ==
  ASSUME NEW r, IsRecipe(r), NEW t
  PROVE  Stage(r, IF r.kind = "file" THEN "write" ELSE "chown",
               Inode(r.kind, <<>>, r.mode, <<t, 0>>, <<t, 0>>, <<0, 0>>, {}, <<>>, <<>>), 1, 0, 0)
<1> DEFINE step == IF r.kind = "file" THEN "write" ELSE "chown"
           m == <<t, 0>>
<1>1. StageHas(r, step)
  BY DEF StageHas
<1>2. StageFile(r, step, <<>>, 1, 0, 0)
  BY WritingStarts DEF StageFile, IsRecipe
<1>3. StageTime(r, step, m) /\ StageXAttrs(r, step, {})
  BY DEF StageTime, StageXAttrs
<1>4. Inode(r.kind, <<>>, r.mode, m, m, <<0, 0>>, {}, <<>>, <<>>) = StageNode(r, step, <<>>, m, m, {})
  BY DEF StageNode, StageMode, StageOwner, StageAccess, StageDefault
<1> HIDE DEF step, m
<1>5. Stage(r, step, Inode(r.kind, <<>>, r.mode, m, m, <<0, 0>>, {}, <<>>, <<>>), 1, 0, 0)
  BY <1>1, <1>2, <1>3, <1>4 DEF Stage
<1> QED BY <1>5 DEF step, m

(* A turn of the write loop *)
LEMMA StageChunk ==
  ASSUME NEW r, IsRecipe(r), NEW x, NEW n, NEW p, NEW w, NEW t, Stage(r, "write", x, n, p, w),
         n <= Len(WriteCalls(r.content)), p < WriteCalls(r.content)[n].length
  PROVE  LET q == WriteCalls(r.content)[n]
         IN  Stage(r, "write",
                   [x EXCEPT !.file = WriteAt(x.file, r.content, q, p), !.mtime = <<t, 0>>],
                   n, p + ChunkLen(q, p), w + ChunkLen(q, p))
<1> DEFINE q == WriteCalls(r.content)[n]
           l == ChunkLen(q, p)
           m == <<t, 0>>
<1>1. PICK file, mtime, atime, X :
        /\ x = StageNode(r, "write", file, mtime, atime, X)
        /\ StageFile(r, "write", file, n, p, w)
        /\ StageTime(r, "write", atime)
        /\ StageXAttrs(r, "write", X)
  BY DEF Stage
<1> DEFINE f == WriteAt(file, r.content, q, p)
<1>2. r.kind = "file" /\ Writing(r.content, file, n, p, w)
  BY <1>1 DEF StageFile
<1>3. Writing(r.content, f, n, p + l, w + l)
  BY <1>2, WritingChunk DEF IsRecipe
<1>4. StageFile(r, "write", f, n, p + l, w + l)
  BY <1>2, <1>3 DEF StageFile
<1>5. x.file = file
  BY <1>1, InodeHas DEF StageNode
<1>6. StageTime(r, "write", m) /\ StageHas(r, "write")
  BY DEF StageTime, StageHas
<1> HIDE DEF f, l, m
<1>7. [x EXCEPT !.file = f, !.mtime = m] = StageNode(r, "write", f, m, atime, X)
  <2>1. x = Inode(r.kind, file, StageMode(r, "write"), mtime, atime, StageOwner(r, "write"), X,
                  StageAccess(r, "write"), StageDefault(r, "write"))
    BY <1>1 DEF StageNode
  <2>2. WithFile(x, f, m)
          = Inode(r.kind, f, StageMode(r, "write"), m, atime, StageOwner(r, "write"), X,
                  StageAccess(r, "write"), StageDefault(r, "write"))
    BY ONLY <2>1, SetTwo
  <2> QED BY <2>2 DEF StageNode, WithFile
<1>8. Stage(r, "write", [x EXCEPT !.file = f, !.mtime = m], n, p + l, w + l)
  BY <1>1, <1>4, <1>6, <1>7 DEF Stage
<1> QED BY <1>5, <1>8 DEF f, l, m

(* The next write call *)
LEMMA StageNextCall ==
  ASSUME NEW r, IsRecipe(r), NEW x, NEW n, NEW p, NEW w, Stage(r, "write", x, n, p, w),
         n <= Len(WriteCalls(r.content)), p >= WriteCalls(r.content)[n].length
  PROVE  Stage(r, "write", x, n + 1, 0, w)
<1>1. PICK file, mtime, atime, X :
        /\ x = StageNode(r, "write", file, mtime, atime, X)
        /\ StageFile(r, "write", file, n, p, w)
        /\ StageTime(r, "write", mtime) /\ StageTime(r, "write", atime)
        /\ StageXAttrs(r, "write", X)
  BY DEF Stage
<1>2. r.kind = "file" /\ Writing(r.content, file, n, p, w)
  BY <1>1 DEF StageFile
<1>3. Writing(r.content, file, n + 1, 0, w)
  BY <1>2, WritingNext DEF IsRecipe
<1>4. StageFile(r, "write", file, n + 1, 0, w)
  BY <1>2, <1>3 DEF StageFile
<1> QED BY <1>1, <1>4 DEF Stage

(* Truncate *)
LEMMA StageTruncated ==
  ASSUME NEW r, IsRecipe(r), NEW x, NEW n, NEW p, NEW w, NEW t, Stage(r, "write", x, n, p, w),
         n > Len(WriteCalls(r.content))
  PROVE  Stage(r, "chown", [x EXCEPT !.file = Truncated(x.file, r.content.size), !.mtime = <<t, 0>>],
               n, p, w)
<1> DEFINE m == <<t, 0>>
<1>1. PICK file, mtime, atime, X :
        /\ x = StageNode(r, "write", file, mtime, atime, X)
        /\ StageFile(r, "write", file, n, p, w)
        /\ StageTime(r, "write", atime)
        /\ StageXAttrs(r, "write", X)
  BY DEF Stage
<1> DEFINE f == Truncated(file, r.content.size)
<1>2. r.kind = "file" /\ Writing(r.content, file, n, p, w)
  BY <1>1 DEF StageFile
<1>3. f = PromisedFile(r.content) /\ w = r.content.written
  BY <1>2, WritingEnds DEF IsRecipe, PromisedFile
<1>4. StageFile(r, "chown", f, n, p, w)
  BY <1>2, <1>3 DEF StageFile
<1>5. x.file = file
  BY <1>1, InodeHas DEF StageNode
<1>6. StageTime(r, "chown", m) /\ StageHas(r, "chown") /\ StageTime(r, "chown", atime)
      /\ StageXAttrs(r, "chown", X)
  BY <1>1 DEF StageTime, StageHas, StageXAttrs
<1> HIDE DEF f, m
<1>7. [x EXCEPT !.file = f, !.mtime = m] = StageNode(r, "chown", f, m, atime, X)
  <2>1. StageNode(r, "chown", f, m, atime, X) = StageNode(r, "write", f, m, atime, X)
    BY DEF StageNode, StageMode, StageOwner, StageAccess, StageDefault
  <2>2. x = Inode(r.kind, file, StageMode(r, "write"), mtime, atime, StageOwner(r, "write"), X,
                  StageAccess(r, "write"), StageDefault(r, "write"))
    BY <1>1 DEF StageNode
  <2>3. WithFile(x, f, m)
          = Inode(r.kind, f, StageMode(r, "write"), m, atime, StageOwner(r, "write"), X,
                  StageAccess(r, "write"), StageDefault(r, "write"))
    BY ONLY <2>2, SetTwo
  <2> QED BY <2>1, <2>3 DEF StageNode, WithFile
<1>8. Stage(r, "chown", [x EXCEPT !.file = f, !.mtime = m], n, p, w)
  BY <1>1, <1>4, <1>6, <1>7 DEF Stage
<1> QED BY <1>5, <1>8 DEF f, m

(* The lchown *)
LEMMA StageChown ==
  ASSUME NEW r, IsRecipe(r), NEW x, NEW n, NEW p, NEW w, Stage(r, "chown", x, n, p, w)
  PROVE  Stage(r, "chmod", [x EXCEPT !.owner = IF "owner" \in r.has THEN r.owner ELSE x.owner], n, p, w)
<1>1. PICK file, mtime, atime, X :
        /\ x = StageNode(r, "chown", file, mtime, atime, X)
        /\ StageFile(r, "chown", file, n, p, w)
        /\ StageTime(r, "chown", mtime) /\ StageTime(r, "chown", atime)
        /\ StageXAttrs(r, "chown", X)
  BY DEF Stage
<1> DEFINE o == IF "owner" \in r.has THEN r.owner ELSE x.owner
<1>2. o = StageOwner(r, "chmod")
  <2>1. x.owner = StageOwner(r, "chown")
    BY <1>1, InodeHas DEF StageNode
  <2> QED BY <2>1 DEF StageOwner
<1>3. /\ StageHas(r, "chmod") /\ StageFile(r, "chmod", file, n, p, w)
      /\ StageTime(r, "chmod", mtime) /\ StageTime(r, "chmod", atime) /\ StageXAttrs(r, "chmod", X)
  BY <1>1 DEF StageFile, StageTime, StageXAttrs, StageHas
<1> HIDE DEF o
<1>4. [x EXCEPT !.owner = o] = StageNode(r, "chmod", file, mtime, atime, X)
  <2>1. /\ StageMode(r, "chmod") = StageMode(r, "chown") /\ StageAccess(r, "chmod") = StageAccess(r, "chown")
        /\ StageDefault(r, "chmod") = StageDefault(r, "chown")
    BY DEF StageMode, StageAccess, StageDefault
  <2> QED BY <1>1, <1>2, <2>1, SetOne DEF StageNode
<1>5. Stage(r, "chmod", [x EXCEPT !.owner = o], n, p, w)
  BY <1>3, <1>4 DEF Stage
<1> QED BY <1>5 DEF o

(* The chmod *)
LEMMA StageChmod ==
  ASSUME NEW r, IsRecipe(r), NEW x, NEW n, NEW p, NEW w, Stage(r, "chmod", x, n, p, w)
  PROVE  Stage(r, "utimes", [x EXCEPT !.mode = r.mode], n, p, w)
<1>1. PICK file, mtime, atime, X :
        /\ x = StageNode(r, "chmod", file, mtime, atime, X)
        /\ StageFile(r, "chmod", file, n, p, w)
        /\ StageTime(r, "chmod", mtime) /\ StageTime(r, "chmod", atime)
        /\ StageXAttrs(r, "chmod", X)
  BY DEF Stage
<1>3. /\ StageHas(r, "utimes") /\ StageFile(r, "utimes", file, n, p, w)
      /\ StageTime(r, "utimes", mtime) /\ StageTime(r, "utimes", atime) /\ StageXAttrs(r, "utimes", X)
  BY <1>1 DEF StageFile, StageTime, StageXAttrs, StageHas
<1>4. [x EXCEPT !.mode = r.mode] = StageNode(r, "utimes", file, mtime, atime, X)
  <2>1. /\ StageMode(r, "utimes") = r.mode /\ StageAccess(r, "utimes") = StageAccess(r, "chmod")
        /\ StageDefault(r, "utimes") = StageDefault(r, "chmod")
        /\ StageOwner(r, "utimes") = StageOwner(r, "chmod")
    BY DEF StageMode, StageAccess, StageDefault, StageOwner
  <2> QED BY <1>1, <2>1, SetOne DEF StageNode
<1> QED BY <1>3, <1>4 DEF Stage

(* The utimes *)
LEMMA StageUtimes ==
  ASSUME NEW r, IsRecipe(r), NEW x, NEW n, NEW p, NEW w, Stage(r, "utimes", x, n, p, w)
  PROVE  Stage(r, "xattrs",
               [x EXCEPT !.atime = IF "times" \in r.has THEN r.times ELSE x.atime,
                         !.mtime = IF "times" \in r.has THEN r.times ELSE x.mtime], n, p, w)
<1>1. PICK file, mtime, atime, X :
        /\ x = StageNode(r, "utimes", file, mtime, atime, X)
        /\ StageFile(r, "utimes", file, n, p, w)
        /\ StageTime(r, "utimes", mtime) /\ StageTime(r, "utimes", atime)
        /\ StageXAttrs(r, "utimes", X)
  BY DEF Stage
<1> DEFINE a == IF "times" \in r.has THEN r.times ELSE x.atime
           m == IF "times" \in r.has THEN r.times ELSE x.mtime
<1>2. x.atime = atime /\ x.mtime = mtime
  BY <1>1, InodeHas DEF StageNode
<1>3. r.times = <<r.times[1], r.times[2]>>
  BY DEF IsRecipe
<1>4. StageTime(r, "xattrs", m) /\ StageTime(r, "xattrs", a)
  <2>1. mtime = <<mtime[1], mtime[2]>> /\ atime = <<atime[1], atime[2]>>
    BY <1>1 DEF StageTime
  <2>2. CASE "times" \in r.has
    <3>1. a = r.times /\ m = r.times
      BY <2>2
    <3> HIDE DEF a, m
    <3> QED BY <1>3, <3>1 DEF StageTime
  <2>3. CASE "times" \notin r.has
    <3>1. a = atime /\ m = mtime
      BY <1>2, <2>3
    <3> HIDE DEF a, m
    <3> QED BY <2>1, <2>3, <3>1 DEF StageTime
  <2> QED BY <2>2, <2>3
<1>5. /\ StageHas(r, "xattrs") /\ StageFile(r, "xattrs", file, n, p, w) /\ StageXAttrs(r, "xattrs", X)
  BY <1>1 DEF StageFile, StageXAttrs, StageHas
<1> HIDE DEF a, m
<1>6. WithTimes(x, a, m) = StageNode(r, "xattrs", file, m, a, X)
  <2>1. /\ StageMode(r, "xattrs") = StageMode(r, "utimes") /\ StageAccess(r, "xattrs") = StageAccess(r, "utimes")
        /\ StageDefault(r, "xattrs") = StageDefault(r, "utimes")
        /\ StageOwner(r, "xattrs") = StageOwner(r, "utimes")
    BY DEF StageMode, StageAccess, StageDefault, StageOwner
  <2> QED BY <1>1, <2>1, SetTwo DEF StageNode
<1>7. Stage(r, "xattrs", [x EXCEPT !.atime = a, !.mtime = m], n, p, w)
  BY <1>4, <1>5, <1>6 DEF Stage, WithTimes
<1> QED BY <1>7 DEF a, m

(* There are no more attributes than the recipe lists. *)
LEMMA AllXAttrs ==
  ASSUME NEW r, IsRecipe(r)
  PROVE  IsFiniteSet(XAttrsAll(r)) /\ Cardinality(XAttrsAll(r)) <= Len(r.xattrs)
<1> DEFINE n == Len(r.xattrs)
           f == [i \in 1 .. n |-> r.xattrs[i]]
           S == XAttrsAll(r)
<1>1. n \in Nat /\ DOMAIN r.xattrs = 1 .. n
  BY DEF IsRecipe
<1>2. IsFiniteSet(1 .. n) /\ Cardinality(1 .. n) = n
  BY <1>1, FS_Interval
<1>3. S = {r.xattrs[i] : i \in 1 .. n}
  BY <1>1 DEF XAttrsAll
<1> HIDE DEF n, S
<1>4. f \in Surjection(1 .. n, S)
  BY <1>3 DEF Surjection
<1> QED BY <1>2, <1>4, FS_Surjection DEF S, n

(* One setxattr, or the end of them *)
LEMMA StageXAttr ==
  ASSUME NEW r, IsRecipe(r), NEW x, NEW n, NEW p, NEW w, Stage(r, "xattrs", x, n, p, w)
  PROVE  LET next == Cardinality(x.xattrs) + 1
             some == "xattrs" \in r.has /\ next <= Len(r.xattrs)
         IN  /\ some => Stage(r, "xattrs", [x EXCEPT !.xattrs = x.xattrs \cup {r.xattrs[next]}], n, p, w)
             /\ ~ some => Stage(r, IF "acl" \in r.has THEN "acl" ELSE "link", x, n, p, w)
<1> DEFINE next == Cardinality(x.xattrs) + 1
           some == "xattrs" \in r.has /\ next <= Len(r.xattrs)
<1>1. PICK file, mtime, atime, X :
        /\ x = StageNode(r, "xattrs", file, mtime, atime, X)
        /\ StageFile(r, "xattrs", file, n, p, w)
        /\ StageTime(r, "xattrs", mtime) /\ StageTime(r, "xattrs", atime)
        /\ StageXAttrs(r, "xattrs", X)
  BY DEF Stage
<1>2. x.xattrs = X
  BY <1>1, InodeHas DEF StageNode
<1>3. X \subseteq XAttrsAll(r)
  BY <1>1 DEF StageXAttrs
<1>4. /\ IsFiniteSet(XAttrsAll(r)) /\ Cardinality(XAttrsAll(r)) <= Len(r.xattrs)
      /\ Len(r.xattrs) \in Nat /\ DOMAIN r.xattrs = 1 .. Len(r.xattrs)
  BY AllXAttrs DEF IsRecipe
<1>5. IsFiniteSet(X) /\ (Cardinality(X) = Cardinality(XAttrsAll(r)) => X = XAttrsAll(r))
      /\ Cardinality(X) <= Cardinality(XAttrsAll(r)) /\ Cardinality(X) \in Nat
      /\ Cardinality(XAttrsAll(r)) \in Nat
  BY <1>3, <1>4, FS_Subset, FS_CardinalityType
<1>6. ASSUME some
      PROVE  Stage(r, "xattrs", [x EXCEPT !.xattrs = x.xattrs \cup {r.xattrs[next]}], n, p, w)
  <2> DEFINE Y == X \cup {r.xattrs[next]}
  <2>1. next \in DOMAIN r.xattrs
    BY <1>2, <1>4, <1>5, <1>6
  <2>2. StageXAttrs(r, "xattrs", Y)
    BY <1>3, <1>6, <2>1 DEF StageXAttrs, XAttrsAll
  <2> HIDE DEF Y, next
  <2>3. [x EXCEPT !.xattrs = Y] = StageNode(r, "xattrs", file, mtime, atime, Y)
    BY <1>1, SetOne DEF StageNode
  <2>4. Stage(r, "xattrs", [x EXCEPT !.xattrs = Y], n, p, w)
    BY <1>1, <2>2, <2>3 DEF Stage
  <2> QED BY <1>2, <2>4 DEF Y
<1>7. ASSUME ~ some
      PROVE  Stage(r, IF "acl" \in r.has THEN "acl" ELSE "link", x, n, p, w)
  <2> DEFINE step == IF "acl" \in r.has THEN "acl" ELSE "link"
  <2>1. StageXAttrs(r, step, X)
    <3>1. CASE "xattrs" \in r.has
      <4>1. X = XAttrsAll(r)
        BY <1>2, <1>4, <1>5, <1>7, <3>1
      <4> QED BY <3>1, <4>1 DEF StageXAttrs
    <3>2. CASE "xattrs" \notin r.has
      BY <1>1, <3>2 DEF StageXAttrs
    <3> QED BY <3>1, <3>2
  <2>2. /\ StageHas(r, step) /\ StageFile(r, step, file, n, p, w)
        /\ StageTime(r, step, mtime) /\ StageTime(r, step, atime)
    BY <1>1 DEF StageHas, StageFile, StageTime
  <2>3. /\ StageMode(r, step) = StageMode(r, "xattrs") /\ StageAccess(r, step) = StageAccess(r, "xattrs")
        /\ StageDefault(r, step) = StageDefault(r, "xattrs")
        /\ StageOwner(r, step) = StageOwner(r, "xattrs")
    BY DEF StageMode, StageAccess, StageDefault, StageOwner, Acled
  <2> HIDE DEF step
  <2>4. x = StageNode(r, step, file, mtime, atime, X)
    BY <1>1, <2>3 DEF StageNode
  <2>5. Stage(r, step, x, n, p, w)
    BY <2>1, <2>2, <2>4 DEF Stage
  <2> QED BY <2>5 DEF step
<1> QED BY <1>6, <1>7

(* The ACLs are cleared. *)
LEMMA StageClear ==
  ASSUME NEW r, IsRecipe(r), NEW x, NEW n, NEW p, NEW w, Stage(r, "acl", x, n, p, w)
  PROVE  Stage(r, IF r.acl = <<>> THEN "link" ELSE "access",
               [x EXCEPT !.access = <<>>, !.default = <<>>], n, p, w)
<1> DEFINE step == IF r.acl = <<>> THEN "link" ELSE "access"
<1>1. PICK file, mtime, atime, X :
        /\ x = StageNode(r, "acl", file, mtime, atime, X)
        /\ StageFile(r, "acl", file, n, p, w)
        /\ StageTime(r, "acl", mtime) /\ StageTime(r, "acl", atime)
        /\ StageXAttrs(r, "acl", X)
  BY DEF Stage
<1>2. "acl" \in r.has
  BY DEF Stage, StageHas
<1>3. /\ StageHas(r, step) /\ StageFile(r, step, file, n, p, w)
      /\ StageTime(r, step, mtime) /\ StageTime(r, step, atime) /\ StageXAttrs(r, step, X)
  BY <1>1, <1>2 DEF StageHas, StageFile, StageTime, StageXAttrs, Acled
<1>4. /\ StageMode(r, step) = StageMode(r, "acl") /\ StageAccess(r, step) = <<>>
      /\ StageDefault(r, step) = <<>> /\ StageOwner(r, step) = StageOwner(r, "acl")
  BY DEF StageMode, StageAccess, StageDefault, StageOwner, Acled
<1> HIDE DEF step
<1>5. WithAcls(x, <<>>, <<>>) = StageNode(r, step, file, mtime, atime, X)
  BY <1>1, <1>4, SetTwo DEF StageNode
<1>6. Stage(r, step, [x EXCEPT !.access = <<>>, !.default = <<>>], n, p, w)
  BY <1>3, <1>5 DEF Stage, WithAcls
<1> QED BY <1>6 DEF step

(* The access ACL is set, and the mode follows. *)
LEMMA StageSetAccess ==
  ASSUME NEW r, IsRecipe(r), NEW x, NEW n, NEW p, NEW w, Stage(r, "access", x, n, p, w)
  PROVE  Stage(r, IF HasDefault(r.acl) THEN "default" ELSE "link",
               [x EXCEPT !.access = Kept(Marshal(AccessAcl(r))), !.mode = ModeOf(AccessAcl(r))], n, p, w)
<1> DEFINE step == IF HasDefault(r.acl) THEN "default" ELSE "link"
           k == Kept(Marshal(AccessAcl(r)))
           m == ModeOf(AccessAcl(r))
<1>1. PICK file, mtime, atime, X :
        /\ x = StageNode(r, "access", file, mtime, atime, X)
        /\ StageFile(r, "access", file, n, p, w)
        /\ StageTime(r, "access", mtime) /\ StageTime(r, "access", atime)
        /\ StageXAttrs(r, "access", X)
  BY DEF Stage
<1>2. Acled(r)
  BY DEF Stage, StageHas
<1>3. /\ StageHas(r, step) /\ StageFile(r, step, file, n, p, w)
      /\ StageTime(r, step, mtime) /\ StageTime(r, step, atime) /\ StageXAttrs(r, step, X)
  BY <1>1, <1>2 DEF StageHas, StageFile, StageTime, StageXAttrs
<1>4. /\ StageMode(r, step) = m /\ StageAccess(r, step) = k
      /\ StageDefault(r, step) = StageDefault(r, "access") /\ StageOwner(r, step) = StageOwner(r, "access")
  BY <1>2 DEF StageMode, StageAccess, StageDefault, StageOwner
<1> HIDE DEF step, k, m
<1>5. WithAccess(x, k, m) = StageNode(r, step, file, mtime, atime, X)
  BY <1>1, <1>4, SetTwo DEF StageNode
<1>6. Stage(r, step, [x EXCEPT !.access = k, !.mode = m], n, p, w)
  BY <1>3, <1>5 DEF Stage, WithAccess
<1> QED BY <1>6 DEF step, k, m

(* The default ACL is set. *)
LEMMA StageSetDefault ==
  ASSUME NEW r, IsRecipe(r), NEW x, NEW n, NEW p, NEW w, Stage(r, "default", x, n, p, w)
  PROVE  Stage(r, "link", [x EXCEPT !.default = Marshal(DefaultAcl(r))], n, p, w)
<1> DEFINE k == Marshal(DefaultAcl(r))
<1>1. PICK file, mtime, atime, X :
        /\ x = StageNode(r, "default", file, mtime, atime, X)
        /\ StageFile(r, "default", file, n, p, w)
        /\ StageTime(r, "default", mtime) /\ StageTime(r, "default", atime)
        /\ StageXAttrs(r, "default", X)
  BY DEF Stage
<1>2. Acled(r) /\ HasDefault(r.acl)
  BY DEF Stage, StageHas
<1>3. /\ StageHas(r, "link") /\ StageFile(r, "link", file, n, p, w)
      /\ StageTime(r, "link", mtime) /\ StageTime(r, "link", atime) /\ StageXAttrs(r, "link", X)
  BY <1>1, <1>2 DEF StageHas, StageFile, StageTime, StageXAttrs
<1>4. /\ StageMode(r, "link") = StageMode(r, "default") /\ StageAccess(r, "link") = StageAccess(r, "default")
      /\ StageDefault(r, "link") = k /\ StageOwner(r, "link") = StageOwner(r, "default")
  BY <1>2 DEF StageMode, StageAccess, StageDefault, StageOwner
<1> HIDE DEF k
<1>5. [x EXCEPT !.default = k] = StageNode(r, "link", file, mtime, atime, X)
  BY <1>1, <1>4, SetOne DEF StageNode
<1>6. Stage(r, "link", [x EXCEPT !.default = k], n, p, w)
  BY <1>3, <1>5 DEF Stage
<1> QED BY <1>6 DEF k

(* The ACLs of a recipe *)
LEMMA RecipeAcls ==
  ASSUME NEW r, IsRecipe(r)
  PROVE  /\ IsText(r.acl)
         /\ IsAcl(AccessAcl(r)) /\ BaseKeys \subseteq DOMAIN AccessAcl(r)
         /\ IsAcl(DefaultAcl(r))
         /\ IsCanonical(Kept(Marshal(AccessAcl(r)))) /\ IsCanonical(Marshal(DefaultAcl(r)))
<1>1. IsText(r.acl)
  BY DEF IsRecipe, IsText
<1>2. IsAcl(AccessAcl(r)) /\ BaseKeys \subseteq DOMAIN AccessAcl(r) /\ IsAcl(DefaultAcl(r))
  BY <1>1, ResolveIsAcl DEF AccessAcl, DefaultAcl
<1> QED BY <1>1, <1>2, KeptInForce, ParseMarshal

(* A node is one at every step. *)
LEMMA StageIsNode ==
  ASSUME NEW r, IsRecipe(r), NEW step, NEW x, NEW n, NEW p, NEW w, Stage(r, step, x, n, p, w)
  PROVE  IsNode(x) /\ x.kind = r.kind
<1>1. PICK file, mtime, atime, X :
        /\ x = StageNode(r, step, file, mtime, atime, X)
        /\ StageTime(r, step, mtime) /\ StageTime(r, step, atime)
  BY DEF Stage
<1>2. mtime = <<mtime[1], mtime[2]>> /\ atime = <<atime[1], atime[2]>>
  BY <1>1 DEF StageTime
<1>3. IsCanonical(<<>>)
  BY DEF IsCanonical
<1>4. IsCanonical(StageAccess(r, step)) /\ IsCanonical(StageDefault(r, step))
  BY <1>3, RecipeAcls DEF StageAccess, StageDefault
<1> DEFINE mo == StageMode(r, step)
           ow == StageOwner(r, step)
           ac == StageAccess(r, step)
           de == StageDefault(r, step)
<1> HIDE DEF mo, ow, ac, de
<1>5. x = Inode(r.kind, file, mo, mtime, atime, ow, X, ac, de)
  BY <1>1 DEF StageNode, mo, ow, ac, de
<1>6. /\ x.kind = r.kind /\ x.file = file /\ x.mode = mo /\ x.mtime = mtime /\ x.atime = atime
      /\ x.owner = ow /\ x.xattrs = X /\ x.access = ac /\ x.default = de
      /\ x.target = None /\ x.dev = <<1>> /\ x.rdev = <<0>>
  BY <1>5, InodeHas
<1>7. x = [kind |-> x.kind, file |-> x.file, target |-> x.target, mode |-> x.mode,
           mtime |-> x.mtime, atime |-> x.atime,
           owner |-> x.owner, dev |-> x.dev, rdev |-> x.rdev, xattrs |-> x.xattrs,
           access |-> x.access, default |-> x.default]
  BY <1>5, <1>6 DEF Inode
<1>8. x.mtime = <<x.mtime[1], x.mtime[2]>> /\ x.atime = <<x.atime[1], x.atime[2]>>
  BY <1>2, <1>6
<1> QED BY <1>4, <1>6, <1>7, <1>8 DEF IsNode, ac, de

(* At the end a recipe with times leaves no choice. *)
MadeNode(r) ==
  StageNode(r, "link", IF r.kind = "file" THEN PromisedFile(r.content) ELSE <<>>, r.times, r.times,
            IF "xattrs" \in r.has THEN XAttrsAll(r) ELSE {})

(* Whatever the writing left behind, it is overwritten. *)
LEMMA StageLast ==
  ASSUME NEW r, NEW x, NEW n, NEW p, NEW w, Stage(r, "link", x, n, p, w), "times" \in r.has
  PROVE  x = MadeNode(r)
<1>1. PICK file, mtime, atime, X :
        /\ x = StageNode(r, "link", file, mtime, atime, X)
        /\ StageFile(r, "link", file, n, p, w)
        /\ StageTime(r, "link", mtime) /\ StageTime(r, "link", atime)
        /\ StageXAttrs(r, "link", X)
  BY DEF Stage
<1>2. file = IF r.kind = "file" THEN PromisedFile(r.content) ELSE <<>>
  BY <1>1 DEF StageFile
<1>3. mtime = r.times /\ atime = r.times
  BY <1>1 DEF StageTime
<1>4. X = IF "xattrs" \in r.has THEN XAttrsAll(r) ELSE {}
  BY <1>1 DEF StageXAttrs
<1> QED BY <1>1, <1>2, <1>3, <1>4 DEF MadeNode

(* When the writes are done the file is the promised one. *)
LEMMA StageWritten ==
  ASSUME NEW r, IsRecipe(r), r.kind = "file", NEW x, NEW n, NEW p, NEW w, Stage(r, "chown", x, n, p, w)
  PROVE  /\ x.file = PromisedFile(r.content) /\ w = r.content.written
         /\ r.content.sparse <=> \E i \in DOMAIN x.file : x.file[i] = Hole
<1>1. PICK file, mtime, atime, X :
        /\ x = StageNode(r, "chown", file, mtime, atime, X)
        /\ StageFile(r, "chown", file, n, p, w)
  BY DEF Stage
<1>2. x.file = file
  BY <1>1, InodeHas DEF StageNode
<1>3. x.file = PromisedFile(r.content) /\ w = r.content.written
  BY <1>1, <1>2 DEF StageFile
<1>4. r.content.sparse <=> \E i \in 1 .. r.content.size : PromisedByte(r.content, i - 1) = Hole
  BY HolesPlanned DEF IsRecipe
<1>5. (\E i \in DOMAIN x.file : x.file[i] = Hole)
       <=> \E i \in 1 .. r.content.size : PromisedByte(r.content, i - 1) = Hole
  <2>1. DOMAIN x.file = 1 .. r.content.size /\ \A i \in 1 .. r.content.size : x.file[i] = PromisedByte(r.content, i - 1)
    BY <1>3 DEF PromisedFile
  <2> QED BY <2>1
<1> QED BY <1>3, <1>4, <1>5

(* When the ACLs are set they are in force. *)
LEMMA StageInForce ==
  ASSUME NEW r, IsRecipe(r), Acled(r), NEW x, NEW n, NEW p, NEW w, Stage(r, "link", x, n, p, w)
  PROVE  /\ AsAsked(InForce(x.mode, x.access), r.acl, FALSE)
         /\ HasDefault(r.acl) => AsAsked(Parse(x.default), r.acl, TRUE)
<1>1. PICK file, mtime, atime, X : x = StageNode(r, "link", file, mtime, atime, X)
  BY DEF Stage
<1>2. /\ x.mode = StageMode(r, "link") /\ x.access = StageAccess(r, "link")
      /\ x.default = StageDefault(r, "link")
  BY <1>1, InodeHas DEF StageNode
<1>3. /\ x.mode = ModeOf(AccessAcl(r)) /\ x.access = Kept(Marshal(AccessAcl(r)))
      /\ HasDefault(r.acl) => x.default = Marshal(DefaultAcl(r))
  BY <1>2 DEF StageMode, StageAccess, StageDefault
<1>4. InForce(x.mode, x.access) = AccessAcl(r)
  BY <1>3, RecipeAcls, KeptInForce
<1>5. HasDefault(r.acl) => Parse(x.default) = DefaultAcl(r)
  BY <1>3, RecipeAcls, ParseMarshal
<1>6. AsAsked(AccessAcl(r), r.acl, FALSE) /\ AsAsked(DefaultAcl(r), r.acl, TRUE)
  BY RecipeAcls, ResolveAsAsked DEF AccessAcl, DefaultAcl
<1> QED BY <1>4, <1>5, <1>6

-----------------------------------------------------------------------------
(* Parity: the whole *)

(* A tree in which one node has the names S *)
HeldTree(x, S) == [inode |-> [n \in 1 .. Names |-> IF n \in S THEN 1 ELSE 0], node |-> <<x>>]

LinkNames(r) == IF r.kind = "file" /\ r.link THEN {1, 2} ELSE {1}
MadeTree(r) == HeldTree(MadeNode(r), LinkNames(r))

(* The making, before and between its steps *)
MakingInv ==
  /\ at.side = "idle" /\ job.recipe # <<>>
  /\ made[making.side] # "ok"
  /\ making.side = "left" => made["right"] # "ok"
  /\ making.step # "create" =>
       /\ disk[making.side] = HeldTree(Node, {1})
       /\ Stage(Recipe, making.step, Node, call.number, call.position, written)

(* What was made of a recipe with times *)
AsMade(trees) ==
  \A s \in Sides : made[s] = "ok" /\ "times" \in job.recipe[s].has => trees[s] = MadeTree(job.recipe[s])

MakeInv ==
  /\ job \in Jobs
  /\ making = [side |-> making.side, step |-> making.step]
  /\ making.side \in {"left", "right", "none"}
  /\ call = [number |-> call.number, position |-> call.position]
  /\ made = [s \in Sides |-> made[s]]
  /\ making.side \in Sides => MakingInv
  /\ at.side = "idle" => TreeInv /\ AsMade(disk)
  /\ at.side # "idle" => AsMade(before)

(* A tree with one node is a tree. *)
LEMMA HeldIsTree ==
  ASSUME NEW x, IsNode(x), NEW S
  PROVE  IsTree(HeldTree(x, S))
<1> DEFINE t == HeldTree(x, S)
           f == [n \in 1 .. Names |-> IF n \in S THEN 1 ELSE 0]
<1>1. t.inode = f /\ t.node = <<x>>
  BY DEF HeldTree
<1>2. t = [inode |-> t.inode, node |-> t.node]
  BY DEF HeldTree
<1>3. DOMAIN t.node = {1} /\ t.node[1] = x /\ t.node = [k \in DOMAIN t.node |-> t.node[k]]
  BY <1>1
<1>4. t.inode \in [1 .. Names -> 0 .. Names]
  BY <1>1, DiffAssumption
<1>5. \A n \in NamesOf(t) : t.inode[n] \in DOMAIN t.node
  BY <1>1, <1>3 DEF NamesOf
<1> HIDE DEF t
<1>6. t = [inode |-> t.inode, node |-> [k \in DOMAIN t.node |-> t.node[k]]]
  BY <1>2, <1>3
<1>7. \A k \in DOMAIN t.node : IsNode(t.node[k])
  BY <1>3
<1>8. IsTree(t)
  BY <1>4, <1>5, <1>6, <1>7 DEF IsTree
<1> QED BY <1>8 DEF t

(* The node of such a tree is replaced. *)
LEMMA NodeSet ==
  ASSUME NEW t, NEW x, NEW S, t = HeldTree(x, S), NEW y
  PROVE  [t EXCEPT !.node = [t.node EXCEPT ![1] = y]] = HeldTree(y, S)
<1>1. t.node = <<x>>
  BY DEF HeldTree
<1>2. [t.node EXCEPT ![1] = y] = <<y>>
  BY <1>1
<1> DEFINE z == <<y>>
           f == [n \in 1 .. Names |-> IF n \in S THEN 1 ELSE 0]
<1>3. t = [inode |-> f, node |-> <<x>>] /\ HeldTree(y, S) = [inode |-> f, node |-> z]
  BY DEF HeldTree
<1> HIDE DEF z, f
<1>4. [t EXCEPT !.node = z] = [inode |-> f, node |-> z]
  BY <1>3
<1> QED BY <1>2, <1>3, <1>4 DEF z

(* A name is added to such a tree. *)
LEMMA NameSet ==
  ASSUME NEW t, NEW x, t = HeldTree(x, {1})
  PROVE  [t EXCEPT !.inode = [t.inode EXCEPT ![2] = 1]] = HeldTree(x, {1, 2})
<1> DEFINE f == [n \in 1 .. Names |-> IF n \in {1} THEN 1 ELSE 0]
           g == [n \in 1 .. Names |-> IF n \in {1, 2} THEN 1 ELSE 0]
<1>1. t.inode = f
  BY DEF HeldTree
<1>2. [f EXCEPT ![2] = 1] = g
  OBVIOUS
<1> HIDE DEF f, g
<1>3. [t EXCEPT !.inode = g] = [inode |-> g, node |-> <<x>>]
  BY DEF HeldTree
<1> QED BY <1>1, <1>2, <1>3 DEF HeldTree, g

(* The recipes of the job *)
LEMMA JobRecipe ==
  ASSUME MakeInv, making.side \in Sides
  PROVE  IsRecipe(Recipe) /\ Recipe = job.recipe[making.side]
  BY JobsAssumption DEF MakeInv, MakingInv, Recipe

(* A step of the making leaves the comparison to come as it is. *)
LEMMA IdleKeeps ==
  ASSUME DiffInv, at.side = "idle", at' = at, seen' = seen, groups' = groups, verdict' = verdict, lost' = lost
  PROVE  DiffInv'
<1>1. /\ verdict' = "none" /\ at'.side = "idle" /\ lost' = [s \in Sides |-> {}]
      /\ seen' = [s \in Sides |-> <<>>] /\ groups' = [s \in Sides |-> [k \in 1 .. Names |-> {}]]
  BY DEF DiffInv
<1>2. VerdictExact'
  BY <1>1 DEF VerdictExact
<1> QED BY <1>1, <1>2 DEF DiffInv, Walks, Sides

(* A step of the making that leads to a stage keeps the invariant. *)
LEMMA StageReached ==
  ASSUME MakeInv, making.side \in Sides, NEW x, NEW step,
         disk' = [disk EXCEPT ![making.side] = HeldTree(x, {1})],
         making' = [making EXCEPT !.step = step], MakeUnchanged,
         call' = [number |-> call'.number, position |-> call'.position],
         Stage(Recipe, step, x, call'.number, call'.position, written')
  PROVE  MakeInv'
<1> DEFINE c == making.side
           t == HeldTree(x, {1})
           r == job.recipe[c]
<1>1. IsRecipe(r) /\ Recipe = r
  BY JobRecipe
<1>2. IsNode(x)
  BY <1>1, StageIsNode
<1>3. IsTree(t) /\ t.node[1] = x
  BY <1>2, HeldIsTree DEF HeldTree
<1>4. /\ making = [side |-> c, step |-> making.step]
      /\ at.side = "idle" /\ TreeInv /\ AsMade(disk) /\ MakingInv
  BY DEF MakeInv, MakingInv
<1>5. making'.side = c /\ making'.step = step /\ making' = [side |-> making'.side, step |-> making'.step]
  BY <1>4
<1>6. job' = job /\ made' = made /\ at' = at
  BY DEF MakeUnchanged
<1> HIDE DEF t
<1>7. disk'[c] = t /\ (\A s \in Sides : s # c => disk'[s] = disk[s]) /\ disk' = [s \in Sides |-> disk'[s]]
  <2>1. disk = [s \in Sides |-> disk[s]]
    BY <1>4 DEF TreeInv
  <2>2. disk' = [disk EXCEPT ![c] = t]
    BY DEF t
  <2> QED BY <2>1, <2>2
<1>8. TreeInv'
  BY <1>3, <1>4, <1>7 DEF TreeInv
<1>9. AsMade(disk)'
  BY <1>4, <1>6, <1>7 DEF AsMade, MakingInv
<1>10. Node' = x /\ Recipe' = r
  BY <1>3, <1>5, <1>6, <1>7 DEF Node, Recipe
<1>11. MakingInv'
  BY <1>1, <1>4, <1>5, <1>6, <1>7, <1>10 DEF MakingInv, t
<1> QED BY <1>4, <1>5, <1>6, <1>8, <1>9, <1>11 DEF MakeInv

(* SetNode, in a tree with one node *)
LEMMA SetNodeTree ==
  ASSUME MakeInv, making.side \in Sides, making.step # "create", NEW y, SetNode(y)
  PROVE  disk' = [disk EXCEPT ![making.side] = HeldTree(y, {1})]
<1> DEFINE t == disk[making.side]
<1>1. t = HeldTree(Node, {1})
  BY DEF MakeInv, MakingInv
<1>2. disk' = [disk EXCEPT ![making.side] = [t EXCEPT !.node = [t.node EXCEPT ![1] = y]]]
  BY DEF SetNode
<1> HIDE DEF t
<1>3. [t EXCEPT !.node = [t.node EXCEPT ![1] = y]] = HeldTree(y, {1})
  BY <1>1, NodeSet
<1> QED BY <1>2, <1>3

(* A side that ends *)
LEMMA SideEnds ==
  ASSUME MakeInv, making.side \in Sides, NEW o, EndSide(o),
         disk' = [s \in Sides |-> disk'[s]], \A s \in Sides : s # making.side => disk'[s] = disk[s],
         IsTree(disk'[making.side]),
         o = "ok" /\ "times" \in Recipe.has => disk'[making.side] = MadeTree(Recipe)
  PROVE  MakeInv'
<1> DEFINE c == making.side
<1>1. /\ at.side = "idle" /\ TreeInv /\ AsMade(disk) /\ MakingInv
      /\ made = [s \in Sides |-> made[s]]
      /\ call = [number |-> call.number, position |-> call.position]
  BY DEF MakeInv, MakingInv
<1>2. /\ job' = job /\ at' = at /\ call' = call
      /\ made' = [made EXCEPT ![c] = o]
      /\ making' = [side |-> IF c = "left" THEN "right" ELSE "none", step |-> "create"]
  BY DEF EndSide
<1>3. made' = [s \in Sides |-> made'[s]] /\ made'[c] = o /\ \A s \in Sides : s # c => made'[s] = made[s]
  BY <1>1, <1>2
<1>4. TreeInv'
  BY <1>1 DEF TreeInv
<1>5. AsMade(disk)'
  BY <1>1, <1>2, <1>3 DEF AsMade, Recipe
<1>6. /\ making'.side = (IF c = "left" THEN "right" ELSE "none") /\ making'.step = "create"
      /\ making' = [side |-> making'.side, step |-> making'.step]
  BY <1>2
<1>7. ASSUME making'.side \in Sides PROVE MakingInv'
  <2>1. c = "left" /\ making'.side = "right"
    BY <1>6, <1>7 DEF Sides
  <2> QED BY <1>1, <1>2, <1>3, <1>6, <2>1 DEF MakingInv, Sides
<1> QED BY <1>1, <1>2, <1>3, <1>4, <1>5, <1>6, <1>7 DEF MakeInv, Sides

(* What holds at a step after the creation *)
LEMMA AtStage ==
  ASSUME MakeInv, NEW step, Making(step), step # "create"
  PROVE  /\ making.side \in Sides /\ making.step = step /\ making.step # "create"
         /\ IsRecipe(Recipe)
         /\ Stage(Recipe, step, Node, call.number, call.position, written)
         /\ call = [number |-> call.number, position |-> call.position]
  BY JobRecipe DEF MakeInv, MakingInv, Making

(* The next stage of a step that sets the node and no more *)
LEMMA StageSet ==
  ASSUME MakeInv, making.side \in Sides, making.step # "create", NEW y, NEW step, SetNode(y), Then(step),
         call = [number |-> call.number, position |-> call.position],
         call' = call, written' = written, MakeUnchanged,
         Stage(Recipe, step, y, call.number, call.position, written)
  PROVE  MakeInv'
<1>1. disk' = [disk EXCEPT ![making.side] = HeldTree(y, {1})]
  BY SetNodeTree
<1>2. making' = [making EXCEPT !.step = step]
  BY DEF Then
<1>3. /\ call' = [number |-> call'.number, position |-> call'.position]
      /\ Stage(Recipe, step, y, call'.number, call'.position, written')
  OBVIOUS
<1> QED BY <1>1, <1>2, <1>3, StageReached

(* The actions of the making, one by one *)
LEMMA CreateKeeps ==
  ASSUME MakeInv, Create
  PROVE  MakeInv'
<1> DEFINE x == NewNode(Recipe.kind)
           step == IF Recipe.kind = "file" THEN "write" ELSE "chown"
<1>1. making.side \in Sides /\ IsRecipe(Recipe)
  BY JobRecipe DEF Create, Making
<1>2. /\ disk' = [disk EXCEPT ![making.side] = HeldTree(x, {1})]
  <2>1. HeldTree(x, {1}) = [inode |-> [n \in 1 .. Names |-> IF n = 1 THEN 1 ELSE 0], node |-> <<x>>]
    BY DEF HeldTree
  <2> QED BY <2>1 DEF Create
<1>3. x = Inode(Recipe.kind, <<>>, Recipe.mode, <<clock, 0>>, <<clock, 0>>, <<0, 0>>, {}, <<>>, <<>>)
  BY DEF NewNode, Inode
<1>4. Stage(Recipe, step, x, 1, 0, 0)
  BY <1>1, <1>3, StageCreated
<1>5. /\ making' = [making EXCEPT !.step = step] /\ MakeUnchanged
      /\ call' = [number |-> 1, position |-> 0] /\ written' = 0
  BY DEF Create, Then
<1>6. call'.number = 1 /\ call'.position = 0 /\ call' = [number |-> call'.number, position |-> call'.position]
  BY <1>5
<1> HIDE DEF x, step
<1>7. Stage(Recipe, step, x, call'.number, call'.position, written')
  BY <1>4, <1>5, <1>6
<1> QED BY <1>1, <1>2, <1>5, <1>6, <1>7, StageReached

(* WriteChunk *)
LEMMA ChunkKeeps ==
  ASSUME MakeInv, WriteChunk
  PROVE  MakeInv'
<1> DEFINE q == WriteCalls(Recipe.content)[call.number]
           l == ChunkLen(q, call.position)
           y == [Node EXCEPT !.file = WriteAt(Node.file, Recipe.content, q, call.position), !.mtime = <<clock, 0>>]
<1>1. /\ making.side \in Sides /\ making.step = "write"
      /\ IsRecipe(Recipe) /\ Stage(Recipe, "write", Node, call.number, call.position, written)
      /\ call = [number |-> call.number, position |-> call.position]
  BY AtStage DEF WriteChunk
<1>2. /\ call.number <= Len(WriteCalls(Recipe.content)) /\ call.position < q.length
      /\ SetNode(y) /\ written' = written + l
      /\ call' = [call EXCEPT !.position = call.position + l]
      /\ making' = making /\ MakeUnchanged
  BY DEF WriteChunk, Calls, Current
<1>3. Stage(Recipe, "write", y, call.number, call.position + l, written + l)
  BY <1>1, <1>2, StageChunk
<1> HIDE DEF q, l, y
<1>4. call'.number = call.number /\ call'.position = call.position + l
      /\ call' = [number |-> call'.number, position |-> call'.position]
  BY <1>1, <1>2
<1>5. disk' = [disk EXCEPT ![making.side] = HeldTree(y, {1})]
  BY <1>1, <1>2, SetNodeTree
<1>6. making' = [making EXCEPT !.step = "write"]
  BY <1>1, <1>2 DEF MakeInv
<1>7. Stage(Recipe, "write", y, call'.number, call'.position, written')
  BY <1>2, <1>3, <1>4
<1> QED BY <1>1, <1>2, <1>4, <1>5, <1>6, <1>7, StageReached

(* NextCall *)
LEMMA NextCallKeeps ==
  ASSUME MakeInv, NextCall
  PROVE  MakeInv'
<1>1. /\ making.side \in Sides /\ making.step = "write"
      /\ IsRecipe(Recipe) /\ Stage(Recipe, "write", Node, call.number, call.position, written)
  BY AtStage DEF NextCall
<1>2. /\ call.number <= Len(WriteCalls(Recipe.content))
      /\ call.position >= WriteCalls(Recipe.content)[call.number].length
      /\ call' = [number |-> call.number + 1, position |-> 0]
      /\ disk' = disk /\ written' = written /\ making' = making /\ MakeUnchanged
  BY DEF NextCall, Calls, Current
<1>3. Stage(Recipe, "write", Node, call.number + 1, 0, written)
  BY <1>1, <1>2, StageNextCall
<1>4. /\ call'.number = call.number + 1 /\ call'.position = 0
      /\ call' = [number |-> call'.number, position |-> call'.position]
  BY <1>2
<1>5. disk' = [disk EXCEPT ![making.side] = HeldTree(Node, {1})]
  <2>1. disk[making.side] = HeldTree(Node, {1}) /\ disk = [s \in Sides |-> disk[s]]
    BY <1>1 DEF MakeInv, MakingInv, TreeInv
  <2> QED BY <1>1, <1>2, <2>1
<1>6. making' = [making EXCEPT !.step = "write"]
  BY <1>1, <1>2 DEF MakeInv
<1>7. Stage(Recipe, "write", Node, call'.number, call'.position, written')
  BY <1>2, <1>3, <1>4
<1> QED BY <1>1, <1>2, <1>4, <1>5, <1>6, <1>7, StageReached

(* Truncate *)
LEMMA TruncateKeeps ==
  ASSUME MakeInv, Truncate
  PROVE  MakeInv'
<1> DEFINE y == [Node EXCEPT !.file = Truncated(Node.file, Recipe.content.size), !.mtime = <<clock, 0>>]
<1>1. /\ making.side \in Sides /\ making.step = "write" /\ making.step # "create"
      /\ IsRecipe(Recipe) /\ Stage(Recipe, "write", Node, call.number, call.position, written)
      /\ call = [number |-> call.number, position |-> call.position]
  BY AtStage DEF Truncate
<1>2. /\ call.number > Len(WriteCalls(Recipe.content)) /\ SetNode(y) /\ Then("chown")
      /\ call' = call /\ written' = written /\ MakeUnchanged
  BY DEF Truncate, Calls
<1>3. Stage(Recipe, "chown", y, call.number, call.position, written)
  BY <1>1, <1>2, StageTruncated
<1> HIDE DEF y
<1> QED BY <1>1, <1>2, <1>3, StageSet

(* Chown *)
LEMMA ChownKeeps ==
  ASSUME MakeInv, Chown
  PROVE  MakeInv'
<1> DEFINE y == [Node EXCEPT !.owner = IF "owner" \in Recipe.has THEN Recipe.owner ELSE Node.owner]
<1>1. /\ making.side \in Sides /\ making.step = "chown" /\ making.step # "create"
      /\ IsRecipe(Recipe) /\ Stage(Recipe, "chown", Node, call.number, call.position, written)
      /\ call = [number |-> call.number, position |-> call.position]
  BY AtStage DEF Chown
<1>2. SetNode(y) /\ Then("chmod") /\ call' = call /\ written' = written /\ MakeUnchanged
  BY DEF Chown, Has
<1>3. Stage(Recipe, "chmod", y, call.number, call.position, written)
  BY <1>1, StageChown
<1> HIDE DEF y
<1> QED BY <1>1, <1>2, <1>3, StageSet

(* Chmod *)
LEMMA ChmodKeeps ==
  ASSUME MakeInv, Chmod
  PROVE  MakeInv'
<1> DEFINE y == [Node EXCEPT !.mode = Recipe.mode]
<1>1. /\ making.side \in Sides /\ making.step = "chmod" /\ making.step # "create"
      /\ IsRecipe(Recipe) /\ Stage(Recipe, "chmod", Node, call.number, call.position, written)
      /\ call = [number |-> call.number, position |-> call.position]
  BY AtStage DEF Chmod
<1>2. SetNode(y) /\ Then("utimes") /\ call' = call /\ written' = written /\ MakeUnchanged
  BY DEF Chmod
<1>3. Stage(Recipe, "utimes", y, call.number, call.position, written)
  BY <1>1, StageChmod
<1> HIDE DEF y
<1> QED BY <1>1, <1>2, <1>3, StageSet

(* Utimes *)
LEMMA UtimesKeeps ==
  ASSUME MakeInv, Utimes
  PROVE  MakeInv'
<1> DEFINE y == [Node EXCEPT !.atime = IF "times" \in Recipe.has THEN Recipe.times ELSE Node.atime,
                             !.mtime = IF "times" \in Recipe.has THEN Recipe.times ELSE Node.mtime]
<1>1. /\ making.side \in Sides /\ making.step = "utimes" /\ making.step # "create"
      /\ IsRecipe(Recipe) /\ Stage(Recipe, "utimes", Node, call.number, call.position, written)
      /\ call = [number |-> call.number, position |-> call.position]
  BY AtStage DEF Utimes
<1>2. SetNode(y) /\ Then("xattrs") /\ call' = call /\ written' = written /\ MakeUnchanged
  BY DEF Utimes, Has
<1>3. Stage(Recipe, "xattrs", y, call.number, call.position, written)
  BY <1>1, StageUtimes
<1> HIDE DEF y
<1> QED BY <1>1, <1>2, <1>3, StageSet

(* SetXAttr *)
LEMMA XAttrKeeps ==
  ASSUME MakeInv, SetXAttr
  PROVE  MakeInv'
<1> DEFINE next == Cardinality(Node.xattrs) + 1
           some == "xattrs" \in Recipe.has /\ next <= Len(Recipe.xattrs)
           y == [Node EXCEPT !.xattrs = Node.xattrs \cup {Recipe.xattrs[next]}]
           last == IF "acl" \in Recipe.has THEN "acl" ELSE "link"
<1>1. /\ making.side \in Sides /\ making.step = "xattrs" /\ making.step # "create"
      /\ IsRecipe(Recipe) /\ Stage(Recipe, "xattrs", Node, call.number, call.position, written)
      /\ call = [number |-> call.number, position |-> call.position]
  BY AtStage DEF SetXAttr
<1>2. /\ SetNode(IF some THEN y ELSE Node) /\ Then(IF some THEN "xattrs" ELSE last)
      /\ call' = call /\ written' = written /\ MakeUnchanged
  BY DEF SetXAttr, Has
<1>3. /\ some => Stage(Recipe, "xattrs", y, call.number, call.position, written)
      /\ ~ some => Stage(Recipe, last, Node, call.number, call.position, written)
  BY <1>1, StageXAttr
<1> HIDE DEF y, last
<1>4. CASE some
  <2>1. SetNode(y) /\ Then("xattrs") /\ Stage(Recipe, "xattrs", y, call.number, call.position, written)
    BY <1>2, <1>3, <1>4
  <2> QED BY <1>1, <1>2, <2>1, StageSet
<1>5. CASE ~ some
  <2>1. SetNode(Node) /\ Then(last) /\ Stage(Recipe, last, Node, call.number, call.position, written)
    BY <1>2, <1>3, <1>5
  <2> QED BY <1>1, <1>2, <2>1, StageSet
<1> QED BY <1>4, <1>5

(* ClearACL *)
LEMMA ClearKeeps ==
  ASSUME MakeInv, ClearACL
  PROVE  MakeInv'
<1> DEFINE y == [Node EXCEPT !.access = <<>>, !.default = <<>>]
           step == IF Recipe.acl = <<>> THEN "link" ELSE "access"
<1>1. /\ making.side \in Sides /\ making.step = "acl" /\ making.step # "create"
      /\ IsRecipe(Recipe) /\ Stage(Recipe, "acl", Node, call.number, call.position, written)
      /\ call = [number |-> call.number, position |-> call.position]
  BY AtStage DEF ClearACL
<1>2. SetNode(y) /\ Then(step) /\ call' = call /\ written' = written /\ MakeUnchanged
  BY DEF ClearACL
<1>3. Stage(Recipe, step, y, call.number, call.position, written)
  BY <1>1, StageClear
<1> HIDE DEF y, step
<1> QED BY <1>1, <1>2, <1>3, StageSet

(* SetAccess *)
LEMMA AccessKeeps ==
  ASSUME MakeInv, SetAccess
  PROVE  MakeInv'
<1> DEFINE y == [Node EXCEPT !.access = Kept(Marshal(AccessAcl(Recipe))), !.mode = ModeOf(AccessAcl(Recipe))]
           step == IF HasDefault(Recipe.acl) THEN "default" ELSE "link"
<1>1. /\ making.side \in Sides /\ making.step = "access" /\ making.step # "create"
      /\ IsRecipe(Recipe) /\ Stage(Recipe, "access", Node, call.number, call.position, written)
      /\ call = [number |-> call.number, position |-> call.position]
  BY AtStage DEF SetAccess
<1>2. SetNode(y) /\ Then(step) /\ call' = call /\ written' = written /\ MakeUnchanged
  BY DEF SetAccess, AccessAcl
<1>3. Stage(Recipe, step, y, call.number, call.position, written)
  BY <1>1, StageSetAccess
<1> HIDE DEF y, step
<1> QED BY <1>1, <1>2, <1>3, StageSet

(* SetDefault *)
LEMMA DefaultKeeps ==
  ASSUME MakeInv, SetDefault
  PROVE  MakeInv'
<1> DEFINE y == [Node EXCEPT !.default = Marshal(DefaultAcl(Recipe))]
<1>1. /\ making.side \in Sides /\ making.step = "default" /\ making.step # "create"
      /\ IsRecipe(Recipe) /\ Stage(Recipe, "default", Node, call.number, call.position, written)
      /\ call = [number |-> call.number, position |-> call.position]
  BY AtStage DEF SetDefault
<1>2. SetNode(y) /\ Then("link") /\ call' = call /\ written' = written /\ MakeUnchanged
  BY DEF SetDefault, DefaultAcl
<1>3. Stage(Recipe, "link", y, call.number, call.position, written)
  BY <1>1, StageSetDefault
<1> HIDE DEF y
<1> QED BY <1>1, <1>2, <1>3, StageSet

(* The link is made and the side ends. *)
LEMMA LinkKeeps ==
  ASSUME MakeInv, LinkAndEnd
  PROVE  MakeInv'
<1> DEFINE c == making.side
           t == disk[c]
           S == LinkNames(Recipe)
<1>1. /\ c \in Sides /\ making.step = "link" /\ making.step # "create"
      /\ IsRecipe(Recipe) /\ Stage(Recipe, "link", Node, call.number, call.position, written)
  BY AtStage DEF LinkAndEnd
<1>2. t = HeldTree(Node, {1}) /\ disk = [s \in Sides |-> disk[s]]
  BY <1>1 DEF MakeInv, MakingInv, TreeInv
<1>3. disk' = [disk EXCEPT ![c] = HeldTree(Node, S)]
  <2>1. CASE Recipe.kind = "file" /\ Recipe.link
    <3>1. disk' = [disk EXCEPT ![c] = [t EXCEPT !.inode = [t.inode EXCEPT ![2] = 1]]]
      BY <2>1 DEF LinkAndEnd
    <3>2. S = {1, 2}
      BY <2>1 DEF LinkNames
    <3> HIDE DEF t
    <3>3. [t EXCEPT !.inode = [t.inode EXCEPT ![2] = 1]] = HeldTree(Node, {1, 2})
      BY <1>2, NameSet
    <3> QED BY <3>1, <3>2, <3>3
  <2>2. CASE ~ (Recipe.kind = "file" /\ Recipe.link)
    <3>1. disk' = disk /\ S = {1}
      BY <2>2 DEF LinkAndEnd, LinkNames
    <3> HIDE DEF S
    <3> QED BY <1>1, <1>2, <3>1
  <2> QED BY <2>1, <2>2
<1> HIDE DEF S
<1>4. /\ disk'[c] = HeldTree(Node, S) /\ \A s \in Sides : s # c => disk'[s] = disk[s]
      /\ disk' = [s \in Sides |-> disk'[s]]
  <2> DEFINE h == HeldTree(Node, S)
  <2> HIDE DEF h
  <2>1. disk' = [disk EXCEPT ![c] = h]
    BY <1>3 DEF h
  <2>2. disk'[c] = h /\ (\A s \in Sides : s # c => disk'[s] = disk[s]) /\ disk' = [s \in Sides |-> disk'[s]]
    BY <1>1, <1>2, <2>1
  <2> QED BY <2>2 DEF h
<1>5. IsTree(disk'[c])
  BY <1>1, <1>4, StageIsNode, HeldIsTree
<1>6. "times" \in Recipe.has => disk'[c] = MadeTree(Recipe)
  BY <1>1, <1>4, StageLast DEF MadeTree, S
<1>7. EndSide("ok")
  BY DEF LinkAndEnd
<1> QED BY <1>1, <1>4, <1>5, <1>6, <1>7, SideEnds

(* A failure leaves the tree as it is. *)
LEMMA FailsKeeps ==
  ASSUME MakeInv, MakeFails
  PROVE  MakeInv'
<1>1. making.side \in Sides /\ disk' = disk /\ EndSide("failed")
  BY DEF MakeFails
<1>2. disk = [s \in Sides |-> disk[s]] /\ IsTree(disk[making.side])
  BY <1>1 DEF MakeInv, MakingInv, TreeInv
<1> QED BY <1>1, <1>2, SideEnds

(* The making leaves the comparison alone. *)
LEMMA MakeStepIdle ==
  ASSUME MakeInv, MakeStep
  PROVE  at.side = "idle" /\ at' = at /\ seen' = seen /\ groups' = groups /\ verdict' = verdict
         /\ lost' = lost
<1>1. making.side \in Sides
  BY DEF MakeStep, Create, WriteChunk, NextCall, Truncate, Chown, Chmod, Utimes, SetXAttr, ClearACL,
         SetAccess, SetDefault, LinkAndEnd, MakeFails, Making
<1>2. at.side = "idle"
  BY <1>1 DEF MakeInv, MakingInv
<1>3. at' = at /\ seen' = seen /\ groups' = groups /\ verdict' = verdict /\ lost' = lost
  BY DEF MakeStep, Create, WriteChunk, NextCall, Truncate, Chown, Chmod, Utimes, SetXAttr, ClearACL,
         SetAccess, SetDefault, LinkAndEnd, MakeFails, EndSide, MakeUnchanged
<1> QED BY <1>2, <1>3

(* The invariant of the whole: the making and the comparison *)
ParityInv == MakeInv /\ DiffInv

(* It holds when nothing is made yet. *)
LEMMA ParityStarts ==
  ASSUME Init
  PROVE  ParityInv
<1>1. /\ job \in Jobs /\ disk = job.disk /\ at.side = "idle" /\ verdict = "none"
      /\ seen = [s \in Sides |-> <<>>] /\ groups = [s \in Sides |-> [k \in 1 .. Names |-> {}]]
      /\ lost = [s \in Sides |-> {}]
      /\ making = [side |-> IF job.recipe = <<>> THEN "none" ELSE "left", step |-> "create"]
      /\ call = [number |-> 1, position |-> 0]
      /\ made = [s \in Sides |-> "todo"]
  BY DEF Init
<1>2. TreeInv
  BY <1>1, JobsAssumption DEF TreeInv
<1>3. \A s \in Sides : made[s] = "todo"
  BY <1>1
<1>4. AsMade(disk)
  BY <1>3 DEF AsMade
<1>5. /\ making.side \in {"left", "right", "none"} /\ making.step = "create"
      /\ making = [side |-> making.side, step |-> making.step]
      /\ making.side \in Sides => job.recipe # <<>>
      /\ call = [number |-> call.number, position |-> call.position]
  BY <1>1 DEF Sides
<1>6. making.side \in Sides => MakingInv
  BY <1>1, <1>3, <1>5 DEF MakingInv, Sides
<1>7. made = [s \in Sides |-> made[s]]
  BY <1>1
<1>8. MakeInv
  BY <1>1, <1>2, <1>4, <1>5, <1>6, <1>7 DEF MakeInv
<1>9. VerdictExact
  BY <1>1 DEF VerdictExact
<1>10. DiffInv
  BY <1>1, <1>9 DEF DiffInv, Walks, Sides
<1> QED BY <1>8, <1>10 DEF ParityInv

(* A step of the making *)
LEMMA MakeStepKeeps ==
  ASSUME ParityInv, MakeStep
  PROVE  ParityInv'
<1>0. MakeInv /\ DiffInv
  BY DEF ParityInv
<1>1. DiffInv'
  BY <1>0, MakeStepIdle, IdleKeeps
<1>2. MakeInv'
  BY <1>0, CreateKeeps, ChunkKeeps, NextCallKeeps, TruncateKeeps, ChownKeeps, ChmodKeeps, UtimesKeeps,
     XAttrKeeps, ClearKeeps, AccessKeeps, DefaultKeeps, LinkKeeps, FailsKeeps DEF MakeStep
<1> QED BY <1>1, <1>2 DEF ParityInv

(* The beginning of the comparison *)
LEMMA StartStepKeeps ==
  ASSUME ParityInv, making.side = "none", StartDiff(job.diff), UNCHANGED makeVars
  PROVE  ParityInv'
<1>0. MakeInv /\ DiffInv
  BY DEF ParityInv
<1>1. at.side = "idle" /\ before' = disk
  BY DEF StartDiff
<1>2. TreeInv /\ AsMade(disk)
  BY <1>0, <1>1 DEF MakeInv
<1>3. DiffInv'
  BY <1>0, <1>2, StartKeeps
<1>4. at'.side # "idle"
  BY DEF StartDiff, Ends
<1>5. job' = job /\ making' = making /\ call' = call /\ made' = made
  BY DEF makeVars
<1>6. AsMade(before)'
  BY <1>1, <1>2, <1>5 DEF AsMade
<1>7. making'.side \notin Sides
  BY <1>5 DEF Sides
<1>8. MakeInv'
  BY <1>0, <1>4, <1>5, <1>6, <1>7 DEF MakeInv
<1> QED BY <1>3, <1>8 DEF ParityInv

(* A step of the comparison *)
LEMMA DiffStepKeeps ==
  ASSUME ParityInv, DiffStep, UNCHANGED makeVars
  PROVE  ParityInv'
<1>0. MakeInv /\ DiffInv
  BY DEF ParityInv
<1>1. DiffInv'
  BY <1>0, SkipKeeps, CollectKeeps, CollectFailsKeeps, CompareKeeps DEF DiffStep
<1>2. at.side # "idle" /\ before' = before
  BY DEF DiffStep, SkipName, CollectNode, CollectFails, Compare, Walking, Sides
<1>3. at'.side # "idle"
  BY DEF DiffStep, SkipName, CollectNode, CollectFails, Compare, Ends, Walking, Following, Sides
<1>4. job' = job /\ making' = making /\ call' = call /\ made' = made
  BY DEF makeVars
<1>5. making.side = "none"
  BY <1>0, <1>2 DEF DiffInv
<1>6. AsMade(before)'
  BY <1>0, <1>2, <1>4 DEF AsMade, MakeInv
<1>7. making'.side \notin Sides
  BY <1>4, <1>5 DEF Sides
<1>8. MakeInv'
  BY <1>0, <1>3, <1>4, <1>6, <1>7 DEF MakeInv
<1> QED BY <1>1, <1>8 DEF ParityInv

(* Nothing happens. *)
LEMMA ParityStutters ==
  ASSUME ParityInv, UNCHANGED vars
  PROVE  ParityInv'
<1>0. MakeInv /\ DiffInv
  BY DEF ParityInv
<1>1. /\ disk' = disk /\ diff' = diff /\ at' = at /\ seen' = seen /\ groups' = groups
      /\ verdict' = verdict /\ before' = before /\ lost' = lost
      /\ job' = job /\ making' = making /\ call' = call /\ written' = written /\ made' = made
  BY DEF vars, diffVars, makeVars
<1>2. MakeInv'
  <2>1. TreeInv' <=> TreeInv
    BY <1>1 DEF TreeInv
  <2>2. (AsMade(disk)' <=> AsMade(disk)) /\ (AsMade(before)' <=> AsMade(before))
    BY <1>1 DEF AsMade
  <2>3. Node' = Node /\ Recipe' = Recipe
    BY <1>1 DEF Node, Recipe
  <2>4. MakingInv' <=> MakingInv
    BY <1>1, <2>3 DEF MakingInv
  <2> QED BY <1>0, <1>1, <2>1, <2>2, <2>4 DEF MakeInv
<1>3. Walks' => WalkInv'
  <2> SUFFICES ASSUME Walks' PROVE WalkInv'
    OBVIOUS
  <2>1. WalkInv
    BY <1>0, <1>1 DEF DiffInv, Walks
  <2>2. ASSUME NEW s \in Sides PROVE SideInv(s)'
    <3>1. SideInv(s)
      BY <2>1 DEF WalkInv
    <3>2. PassedAt(s, at.side, at.name)' = PassedAt(s, at.side, at.name)
      BY <1>1
    <3> QED BY <1>1, <3>1, <3>2, SideKept
  <2> QED BY <1>1, <2>1, <2>2 DEF WalkInv
<1>4. VerdictExact'
  <2>1. Blurred' <=> Blurred
    BY <1>1, SideStable
  <2>2. VerdictTree' <=> VerdictTree
    BY <1>1, VerdictStable
  <2> SUFFICES ASSUME verdict' \in {"equal", "differs"}, ~ Blurred'
               PROVE  (verdict' = "equal") = VerdictTree'
    BY DEF VerdictExact, VerdictTree
  <2>3. (verdict = "equal") = VerdictTree
    BY <1>0, <1>1, <2>1 DEF DiffInv, VerdictExact, VerdictTree
  <2>4. (verdict' = "equal") <=> VerdictTree'
    BY <1>1, <2>2, <2>3
  <2>5. VerdictTree' \in BOOLEAN
    BY DEF VerdictTree, SameTree
  <2> QED BY ONLY <2>4, <2>5
<1>5. DiffInv'
  BY <1>0, <1>1, <1>3, <1>4 DEF DiffInv
<1> QED BY <1>2, <1>5 DEF ParityInv

(* It always holds. *)
LEMMA ParityInvariant == Spec => []ParityInv
<1>1. Init => ParityInv
  BY ParityStarts
<1>2. ParityInv /\ [Next]_vars => ParityInv'
  BY MakeStepKeeps, StartStepKeeps, DiffStepKeeps, ParityStutters DEF Next
<1> QED BY <1>1, <1>2, PTL DEF Spec

(***************************************************************************)
(* The loops of writePlannedFileContent write what was planned: for every  *)
(* size, chunk, block and pattern the file has the planned bytes, as many  *)
(* were written as the plan counts, and it has a hole exactly if expected. *)
(***************************************************************************)
THEOREM ParityWrittenAsPlanned == Spec => []WrittenAsPlanned
<1>1. ParityInv => WrittenAsPlanned
  <2> SUFFICES ASSUME ParityInv, Making("chown"), Recipe.kind = "file"
               PROVE  LET c == Recipe.content
                      IN  /\ Node.file = [i \in 1 .. c.size |-> PromisedByte(c, i - 1)]
                          /\ written = c.written
                          /\ c.sparse <=> \E i \in DOMAIN Node.file : Node.file[i] = Hole
    BY DEF WrittenAsPlanned
  <2>1. IsRecipe(Recipe) /\ Stage(Recipe, "chown", Node, call.number, call.position, written)
    BY AtStage DEF ParityInv
  <2> QED BY <2>1, StageWritten DEF PromisedFile
<1> QED BY <1>1, ParityInvariant, PTL

(***************************************************************************)
(* applyACL puts every entry of the text in force, whatever the text and   *)
(* the mode: what reads back is the last entry for each key, and a mask    *)
(* that was derived takes nothing away.                                    *)
(***************************************************************************)
THEOREM ParityAclInForce == Spec => []AclInForce
<1>1. ParityInv => AclInForce
  <2> SUFFICES ASSUME ParityInv, Making("link"), Has("acl"), Recipe.acl # <<>>
               PROVE  /\ AsAsked(InForce(Node.mode, Node.access), Recipe.acl, FALSE)
                      /\ HasDefault(Recipe.acl) => AsAsked(Parse(Node.default), Recipe.acl, TRUE)
    BY DEF AclInForce
  <2>1. IsRecipe(Recipe) /\ Stage(Recipe, "link", Node, call.number, call.position, written)
    BY AtStage DEF ParityInv
  <2>2. Acled(Recipe)
    BY DEF Acled, Has
  <2> QED BY <2>1, <2>2, StageInForce
<1> QED BY <1>1, ParityInvariant, PTL

(***************************************************************************)
(* The verdict of PathsWithOptions is exact for any two trees and options: *)
(* equal if and only if what lay below the base paths was the same in what *)
(* is compared when the call began, although the walk moves access times.  *)
(* A file whose inode was not found out counts as linked to nothing.       *)
(***************************************************************************)
THEOREM ParityVerdictExact == Spec => []VerdictExact
<1>1. ParityInv => VerdictExact
  BY DEF ParityInv, DiffInv
<1> QED BY <1>1, ParityInvariant, PTL

(* A tree is the same as itself. *)
LEMMA SameAsItself ==
  ASSUME NEW t, NEW L
  PROVE  SameTree(t, L, t, L)
  BY DEF SameTree, SameNode

(***************************************************************************)
(* What applyPlannedEntry makes twice of an entry with planned times never *)
(* compares as different, under any options outside the exemption.         *)
(***************************************************************************)
THEOREM ParityMadeTwiceIsEqual == Spec => []MadeTwiceIsEqual
<1>1. ParityInv => MadeTwiceIsEqual
  <2> SUFFICES ASSUME ParityInv, job.recipe["left"] = job.recipe["right"],
                      "times" \in job.recipe["left"].has,
                      made = [s \in Sides |-> "ok"], ~ Blurred, verdict = "differs",
                      diff.base["left"] = diff.base["right"], lost["left"] = lost["right"]
               PROVE  FALSE
    BY DEF MadeTwiceIsEqual
  <2>1. at.side # "idle"
    BY DEF ParityInv, DiffInv
  <2>2. AsMade(before)
    BY <2>1 DEF ParityInv, MakeInv
  <2>3. before["left"] = before["right"]
    BY <2>2 DEF AsMade, Sides
  <2>4. SameTree(Was("left"), lost["left"], Was("right"), lost["right"])
    <3>1. Was("left") = Was("right")
      BY <2>3 DEF Was, Below
    <3> QED BY <3>1, SameAsItself
  <2>5. (verdict = "equal") = SameTree(Was("left"), lost["left"], Was("right"), lost["right"])
    BY DEF ParityInv, DiffInv, VerdictExact
  <2> QED BY <2>4, <2>5
<1> QED BY <1>1, ParityInvariant, PTL

=============================================================================
