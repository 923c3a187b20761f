------------------------------ MODULE Content ------------------------------
(***************************************************************************)
(* Content patterns (content_patterns.go, coverage_content.go): what is    *)
(* planned for a file and what the writes of writePlannedFileContent leave *)
(* in it, byte by byte and chunk by chunk.                                 *)
(*                                                                         *)
(* Abstractions.  A byte is known by where it comes from: position k of    *)
(* the stream of seed s is <<s, k>>, and the repeated block is seed -2.  A *)
(* seed that is drawn, or derived from the cell, is its number in the      *)
(* plan; lengths and offsets are any the arithmetic of the code can give.  *)
(***************************************************************************)
EXTENDS Integers, Sequences, FiniteSets

CONSTANTS
  Chunk,        \* defaultContentWriteChunkSize
  MaxSegment    \* defaultPatternSegmentMaxLength

ASSUME ContentAssumption == Chunk \in Nat \ {0} /\ MaxSegment \in Nat \ {0}

Least(a, b) == IF a < b THEN a ELSE b

Hole == <<-1, 0>>
Block == -2
Extent(offset, length, seed) == [offset |-> offset, length |-> length, seed |-> seed]

Planned(pattern, size, extents, block, written, sparse) ==
  [pattern |-> pattern, size |-> size, extents |-> extents, block |-> block,
   written |-> written, sparse |-> sparse]

-----------------------------------------------------------------------------
(* Planning *)

(* randomizedSegmentLength, coveragePartialSegmentLength *)
SegmentLengths(size) == 1 .. Least(size, MaxSegment)

(* randomizedOffset, coverageDeterministicOffset: both ends are included. *)
SegmentOffsets(size, length) == 0 .. (size - length)

Segments(size, seed) ==
  UNION {{Extent(o, n, seed) : o \in SegmentOffsets(size, n)} : n \in SegmentLengths(size)}

(* A segment for a sparse file leaves room for a hole if there is any. *)
SparseSegments(size) ==
  {x \in Segments(size, 1) : size > 1 => x.length < size}

(* The updates are sorted by offset and length; coverage leaves them. *)
Updates(size, sorted) ==
  {<<x, y>> : x \in Segments(size, 1), y \in Segments(size, 2)}
  \cup (IF sorted THEN {<<y, x>> : x \in Segments(size, 1), y \in Segments(size, 2)} ELSE {})

InOrder(u) ==
  \/ u[1].offset < u[2].offset
  \/ u[1].offset = u[2].offset /\ u[1].length <= u[2].length

(***************************************************************************)
(* planFileContentPattern, for a given size and, for repeated blocks, the  *)
(* length of what the data generator returned (0 is refused, and more than *)
(* a chunk is cut).                                                        *)
(***************************************************************************)
PlannedContent(size, data) ==
  {Planned("dense", size, <<>>, 0, size, FALSE)}
  \cup (IF size = 0 THEN {Planned("sparse", 0, <<>>, 0, 0, FALSE)}
        ELSE {Planned("sparse", size, <<x>>, 0, x.length, size > x.length) :
                x \in SparseSegments(size)})
  \cup (IF data = 0 THEN {}
        ELSE {Planned("repeated", size, <<>>, Least(data, Chunk), size, FALSE)})
  \cup (IF size = 0 THEN {Planned("partial", 0, <<>>, 0, 0, FALSE)}
        ELSE {Planned("partial", size, u, 0, size + u[1].length + u[2].length, FALSE) :
                u \in {v \in Updates(size, TRUE) : InOrder(v)}})

(* coverageContentFor: its block fills the file or a chunk. *)
CoverageContent(size) ==
  {c \in PlannedContent(size, IF size = 0 THEN Chunk ELSE Least(size, Chunk)) :
     c.pattern # "partial" \/ size = 0}
  \cup (IF size = 0 THEN {}
        ELSE {Planned("partial", size, u, 0, size + u[1].length + u[2].length, FALSE) :
                u \in Updates(size, FALSE)})

(* A segment that lies in a file of this size *)
IsSegment(x, size) ==
  /\ x.offset \in Nat /\ x.length \in Nat \ {0} /\ x.seed \in Nat \ {0}
  /\ x.offset + x.length <= size

(* What the writer is given: the shape of all that can be planned *)
IsPlanned(c) ==
  /\ c.size \in Nat
  /\ \/ /\ c.pattern \in {"dense", "repeated"}
        /\ c.extents = <<>> /\ c.written = c.size /\ c.sparse = FALSE
        /\ c.pattern = "repeated" => c.block \in 1 .. Chunk
     \/ /\ c.pattern \in {"sparse", "partial"}
        /\ c.size = 0 /\ c.extents = <<>> /\ c.written = 0 /\ c.sparse = FALSE
     \/ /\ c.pattern = "sparse"
        /\ c.extents = <<c.extents[1]>> /\ IsSegment(c.extents[1], c.size)
        /\ c.written = c.extents[1].length /\ c.sparse = (c.size > c.written)
     \/ /\ c.pattern = "partial"
        /\ c.extents = <<c.extents[1], c.extents[2]>>
        /\ IsSegment(c.extents[1], c.size) /\ IsSegment(c.extents[2], c.size)
        /\ c.written = c.size + c.extents[1].length + c.extents[2].length
        /\ c.sparse = FALSE

-----------------------------------------------------------------------------
(* Writing *)

(* The calls of writeRandomContentAt and writeRepeatedContent, in order. *)
WriteCalls(c) ==
  CASE c.pattern = "sparse"   -> c.extents
    [] c.pattern = "partial"  -> <<Extent(0, c.size, 0)>> \o c.extents
    [] OTHER                  -> <<Extent(0, c.size, 0)>>

(* Mutant: every chunk is written whole. *)
ChunkLenWhole(x, position) == Chunk

(* How much one turn of the loop writes. *)
ChunkLen(x, position) == Least(x.length - position, Chunk)

(* The byte a call puts at its position k; a chunk starts the block anew. *)
ByteAt(c, x, k) ==
  IF c.pattern = "repeated" THEN <<Block, (k % Chunk) % c.block>> ELSE <<x.seed, k>>

(* f.WriteAt: a gap behind the end is a hole. *)
WriteAt(file, c, x, position) ==
  LET from == x.offset + position
      to   == from + ChunkLen(x, position) - 1
      size == IF Len(file) > to THEN Len(file) ELSE to + 1
  IN  [i \in 1 .. size |->
         IF i - 1 \in from .. to THEN ByteAt(c, x, i - 1 - x.offset)
         ELSE IF i <= Len(file) THEN file[i]
         ELSE Hole]

(* f.Truncate *)
Truncated(file, size) ==
  [i \in 1 .. size |-> IF i <= Len(file) THEN file[i] ELSE Hole]

-----------------------------------------------------------------------------
(* What a plan promises of the file, without any loop *)

Covers(x, o) == x.offset <= o /\ o < x.offset + x.length

(* The byte at offset o: the last extent over it counts. *)
PromisedByte(c, o) ==
  LET over == {k \in DOMAIN c.extents : Covers(c.extents[k], o)}
      last == c.extents[CHOOSE k \in over : \A j \in over : j <= k]
  IN  IF c.pattern = "repeated" THEN <<Block, (o % Chunk) % c.block>>
      ELSE IF over # {} THEN <<last.seed, o - last.offset>>
      ELSE IF c.pattern = "sparse" THEN Hole
      ELSE <<0, o>>

=============================================================================
