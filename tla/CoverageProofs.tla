--------------------------- MODULE CoverageProofs ---------------------------
(***************************************************************************)
(* Proofs about Pairwise and Coverage.                                     *)
(*                                                                         *)
(* Part one, Pairwise, for dimensions of every number and size: the cases  *)
(* coveragePairwise returns cover every pair, and each of them was needed  *)
(* when it was made.  The inductive invariant says what the two variables  *)
(* of the loop mean: uncovered is the set of pairs no case holds, and the  *)
(* case being built holds one of them, whatever the greedy choice puts in  *)
(* the other slots.  That the three choices (the first pair, the best      *)
(* value, the next slot) have something to choose from rests on least      *)
(* elements of sets of naturals and on the finiteness of the set of pairs. *)
(*                                                                         *)
(* Part two, the configuration of a generator, for every host, every       *)
(* options and every number of calls: Configure is atomic, a run gives     *)
(* back what it changed, and no run calls a generator function that is     *)
(* nil.  Atomicity is about shared state: the copy that Configure works on *)
(* points to the random source and the attribute list of the generator.    *)
(* It rests on the addresses of both being below the end of the heap,      *)
(* which only grows while options run.  That a run gives the configuration *)
(* back needs to be known while it is under way: what `kept` would restore *)
(* is the configuration.                                                   *)
(*                                                                         *)
(* Part three, the two together, for every scale of the dimensions that    *)
(* CoverageAssumption admits: the enumerators use coveragePairwise as its  *)
(* specification allows, so what part one proves holds of a coverage call. *)
(*                                                                         *)
(* Part four: a plan asks for nothing that was not resolved.  Every value  *)
(* a dimension offers is backed by an enabled capability, and so is every  *)
(* entry made of a case whose values are indices into the dimensions,      *)
(* which is where part three is needed.                                    *)
(*                                                                         *)
(* Part five: a plan is well-formed and never runs into a path twice.      *)
(* Whatever the enumerators append at once is a block, an entry with       *)
(* entries in it, and the numbers in the names only grow, so every path    *)
(* that is planned lies behind the block that is next.                     *)
(*                                                                         *)
(* Part six: a plan covers.  The cells that repeat a case follow each      *)
(* other, so while a subtree is enumerated the cases gone through are      *)
(* repeated as often as the effort asks and the one under way as far as it *)
(* is; when it ends, part one says that the cases cover.                   *)
(*                                                                         *)
(* Part seven: the same options give the same plan.  The enumeration is    *)
(* written once more as a function of its state (Succ); every plan that a  *)
(* call has made, and the one under way, lies on the way that this         *)
(* function takes from the start that host and options determine, and such *)
(* a way has one end.  What could come between is in that start: the       *)
(* probes of a call must find the same as those of the one before.         *)
(***************************************************************************)
EXTENDS Coverage, FiniteSetTheorems, SequenceTheorems, WellFoundedInduction, TLAPS

-----------------------------------------------------------------------------
(* Part one: the pairwise cases *)

(* A case under construction: what is set is in range. *)
CaseOver(sizes, case) ==
  /\ case \in [DOMAIN sizes -> Int]
  /\ \A d \in DOMAIN sizes : case[d] = Unset \/ case[d] \in 0 .. (sizes[d] - 1)

SearchInv ==
  /\ Len(dimSizes) > 1
  /\ \A d \in DOMAIN dimSizes : dimSizes[d] > 0
  /\ IsFiniteSet(uncovered)
  /\ uncovered = {p \in OrderedPairs(dimSizes) : \A k \in DOMAIN cases : ~ Holds(cases[k], p)}

FillInv ==
  /\ CaseOver(dimSizes, tc)
  /\ \E p \in uncovered : Holds(tc, p)

DoneInv ==
  /\ Coverable(dimSizes) /\ Len(dimSizes) > 1 =>
       \A p \in OrderedPairs(dimSizes) : \E k \in DOMAIN cases : Holds(cases[k], p)
  /\ Coverable(dimSizes) /\ Len(dimSizes) = 1 =>
       cases = [k \in 1 .. dimSizes[1] |-> <<k - 1>>]

PairInv ==
  /\ at \in {"idle", "seed", "fill", "done"}
  /\ dimSizes \in Seq(Int)
  /\ cases \in Seq([DOMAIN dimSizes -> Int])
  /\ CasesEarnTheirPlace
  /\ at \in {"seed", "fill"} => SearchInv
  /\ at = "fill" => FillInv
  /\ at = "done" => DoneInv

-----------------------------------------------------------------------------
(* Choices that exist *)

(* A set of naturals that is not empty has a least element. *)
LEMMA LeastNat ==
  ASSUME NEW S \in SUBSET Nat, S # {}
  PROVE  \E m \in S : \A n \in S : m <= n
<1>1. PICK m \in S : \A n \in S : ~ (<<n, m>> \in OpToRel(<, Nat))
  BY NatLessThanWellFounded, WFMin, Zenon
<1>2. \A n \in S : ~ (n < m)
  BY <1>1 DEF OpToRel
<1> QED
  BY <1>2

(* What is in a pair. *)
LEMMA PairType ==
  ASSUME NEW sizes \in Seq(Int), NEW p \in Pairs(sizes)
  PROVE  /\ p.d1 \in DOMAIN sizes /\ p.d2 \in DOMAIN sizes
         /\ p.v1 \in 0 .. (sizes[p.d1] - 1) /\ p.v2 \in 0 .. (sizes[p.d2] - 1)
         /\ p.d1 \in Nat /\ p.d2 \in Nat /\ p.v1 \in Nat /\ p.v2 \in Nat
         /\ p = [d1 |-> p.d1, d2 |-> p.d2, v1 |-> p.v1, v2 |-> p.v2]
<1>0. PICK d \in DOMAIN sizes : p \in UNION {PairsOf(sizes, d, e) : e \in DOMAIN sizes}
  BY DEF Pairs
<1>1. PICK e \in DOMAIN sizes : p \in PairsOf(sizes, d, e)
  BY <1>0
<1>2. p.d1 = d /\ p.d2 = e
  BY <1>1 DEF PairsOf
<1>3. p.v1 \in 0 .. (sizes[d] - 1) /\ p.v2 \in 0 .. (sizes[e] - 1)
  BY <1>1 DEF PairsOf
<1>4. p = [d1 |-> p.d1, d2 |-> p.d2, v1 |-> p.v1, v2 |-> p.v2]
  BY <1>1 DEF PairsOf
<1>5. d \in Nat /\ e \in Nat /\ sizes[d] \in Int /\ sizes[e] \in Int
  OBVIOUS
<1> QED BY <1>2, <1>3, <1>4, <1>5

(* The pairs in a set of pairs have a first one. *)
LEMMA FirstExists ==
  ASSUME NEW sizes \in Seq(Int), NEW U \in SUBSET OrderedPairs(sizes), U # {}
  PROVE  \E p \in U : \A q \in U : p = q \/ Before(p, q)
<1>0. \A p \in U : p.d1 \in Nat /\ p.d2 \in Nat /\ p.v1 \in Nat /\ p.v2 \in Nat
  BY PairType DEF OrderedPairs
<1>1. PICK a \in {p.d1 : p \in U} : \A x \in {p.d1 : p \in U} : a <= x
  <2>1. {p.d1 : p \in U} # {}
    OBVIOUS
  <2>2. {p.d1 : p \in U} \in SUBSET Nat
    BY <1>0
  <2> QED BY <2>1, <2>2, LeastNat
<1>2. PICK b \in {p.d2 : p \in {q \in U : q.d1 = a}} :
        \A x \in {p.d2 : p \in {q \in U : q.d1 = a}} : b <= x
  <2>1. {p.d2 : p \in {q \in U : q.d1 = a}} # {}
    BY <1>1
  <2>2. {p.d2 : p \in {q \in U : q.d1 = a}} \in SUBSET Nat
    BY <1>0
  <2> QED BY <2>1, <2>2, LeastNat
<1>3. PICK c \in {p.v1 : p \in {q \in U : q.d1 = a /\ q.d2 = b}} :
        \A x \in {p.v1 : p \in {q \in U : q.d1 = a /\ q.d2 = b}} : c <= x
  <2>1. {p.v1 : p \in {q \in U : q.d1 = a /\ q.d2 = b}} # {}
    BY <1>2
  <2>2. {p.v1 : p \in {q \in U : q.d1 = a /\ q.d2 = b}} \in SUBSET Nat
    BY <1>0
  <2> QED BY <2>1, <2>2, LeastNat
<1>4. PICK d \in {p.v2 : p \in {q \in U : q.d1 = a /\ q.d2 = b /\ q.v1 = c}} :
        \A x \in {p.v2 : p \in {q \in U : q.d1 = a /\ q.d2 = b /\ q.v1 = c}} : d <= x
  <2>1. {p.v2 : p \in {q \in U : q.d1 = a /\ q.d2 = b /\ q.v1 = c}} # {}
    BY <1>3
  <2>2. {p.v2 : p \in {q \in U : q.d1 = a /\ q.d2 = b /\ q.v1 = c}} \in SUBSET Nat
    BY <1>0
  <2> QED BY <2>1, <2>2, LeastNat
<1>5. PICK p \in U : p.d1 = a /\ p.d2 = b /\ p.v1 = c /\ p.v2 = d
  BY <1>4
<1>6. ASSUME NEW q \in U
      PROVE  p = q \/ Before(p, q)
  <2>1. p.d1 <= q.d1
    BY <1>1, <1>5
  <2>2. p.d1 = q.d1 => p.d2 <= q.d2
    BY <1>2, <1>5
  <2>3. p.d1 = q.d1 /\ p.d2 = q.d2 => p.v1 <= q.v1
    BY <1>3, <1>5
  <2>4. p.d1 = q.d1 /\ p.d2 = q.d2 /\ p.v1 = q.v1 => p.v2 <= q.v2
    BY <1>4, <1>5
  <2>5. p.d1 = q.d1 /\ p.d2 = q.d2 /\ p.v1 = q.v1 /\ p.v2 = q.v2 => p = q
    BY PairType DEF OrderedPairs
  <2> QED BY <1>0, <2>1, <2>2, <2>3, <2>4, <2>5 DEF Before
<1> QED BY <1>6

(* There are finitely many pairs. *)
LEMMA PairsFinite ==
  ASSUME NEW sizes \in Seq(Int)
  PROVE  IsFiniteSet(OrderedPairs(sizes))
<1> DEFINE D == DOMAIN sizes
           Row(d) == {PairsOf(sizes, d, e) : e \in D}
           Rows == {UNION Row(d) : d \in D}
<1>1. ASSUME NEW d \in D, NEW e \in D
      PROVE  IsFiniteSet(PairsOf(sizes, d, e))
  <2> DEFINE P == (0 .. (sizes[d] - 1)) \X (0 .. (sizes[e] - 1))
             R == PairsOf(sizes, d, e)
             f == [p \in R |-> <<p.v1, p.v2>>]
  <2>1. IsFiniteSet(0 .. (sizes[d] - 1)) /\ IsFiniteSet(0 .. (sizes[e] - 1))
    BY FS_Interval
  <2>2. IsFiniteSet(P)
    BY <2>1, FS_Product
  <2>3. \A p \in R : p.v1 \in 0 .. (sizes[d] - 1) /\ p.v2 \in 0 .. (sizes[e] - 1)
    BY DEF PairsOf
  <2>4. f \in [R -> P]
    BY <2>3
  <2>5. ASSUME NEW p \in R, NEW q \in R, f[p] = f[q]
        PROVE  p = q
    <3>1. p.v1 = q.v1 /\ p.v2 = q.v2
      BY <2>5
    <3> QED BY <3>1 DEF PairsOf
  <2>6. f \in Injection(R, P)
    <3> HIDE DEF f
    <3>1. DOMAIN f = R
      BY <2>4
    <3> QED BY <2>4, <2>5, <3>1 DEF Injection, IsInjective
  <2> QED BY <2>2, <2>6, FS_Injection
<1>2. IsFiniteSet(D)
  <2>1. D = 1 .. Len(sizes) /\ Len(sizes) \in Int
    OBVIOUS
  <2> QED BY <2>1, FS_Interval
<1>3. ASSUME NEW d \in D
      PROVE  IsFiniteSet(UNION Row(d))
  <2> DEFINE rows == [e \in D |-> PairsOf(sizes, d, e)]
  <2>1. rows \in Surjection(D, Row(d))
    BY Zenon DEF Surjection
  <2>2. IsFiniteSet(Row(d))
    BY <1>2, <2>1, FS_Surjection
  <2>3. \A T \in Row(d) : IsFiniteSet(T)
    BY <1>1
  <2> HIDE DEF Row
  <2> QED BY <2>2, <2>3, FS_UNION
<1>4. IsFiniteSet(Rows)
  <2> DEFINE h == [d \in D |-> UNION Row(d)]
  <2>1. h \in Surjection(D, Rows)
    <3> HIDE DEF Row
    <3> QED BY Zenon DEF Surjection
  <2> QED BY <1>2, <2>1, FS_Surjection
<1>5. IsFiniteSet(UNION Rows)
  <2>1. \A T \in Rows : IsFiniteSet(T)
    <3> HIDE DEF Row
    <3> QED BY <1>3
  <2> HIDE DEF Rows
  <2> QED BY <1>4, <2>1, FS_UNION
<1>6. OrderedPairs(sizes) \subseteq UNION Rows
  BY DEF OrderedPairs, Pairs
<1> QED BY <1>5, <1>6, FS_Subset

(* The first uncovered pair is one of them. *)
LEMMA FirstIsUncovered ==
  ASSUME dimSizes \in Seq(Int), uncovered \subseteq OrderedPairs(dimSizes), uncovered # {}
  PROVE  First \in uncovered
<1>1. \E p \in uncovered : \A q \in uncovered : p = q \/ Before(p, q)
  BY FirstExists
<1> QED BY <1>1 DEF First

(* Some slot that is unset comes first. *)
LEMMA NextSlotIsUnset ==
  ASSUME dimSizes \in Seq(Int), tc \in [DOMAIN dimSizes -> Int],
         \E d \in DOMAIN tc : tc[d] = Unset
  PROVE  NextSlot \in DOMAIN dimSizes /\ tc[NextSlot] = Unset
<1> DEFINE S == {d \in DOMAIN tc : tc[d] = Unset}
<1>0. DOMAIN tc = 1 .. Len(dimSizes) /\ Len(dimSizes) \in Nat
  OBVIOUS
<1>1. S \in SUBSET Nat /\ S # {}
  BY <1>0
<1>2. PICK m \in S : \A n \in S : m <= n
  BY <1>1, LeastNat
<1>3. \A e \in 1 .. (m - 1) : tc[e] # Unset
  BY <1>0, <1>2
<1>4. \E d \in DOMAIN tc : tc[d] = Unset /\ \A e \in 1 .. (d - 1) : tc[e] # Unset
  BY <1>2, <1>3
<1> QED BY <1>4 DEF NextSlot

(* Some value of a dimension gains most. *)
LEMMA BestValueInRange ==
  ASSUME dimSizes \in Seq(Int), IsFiniteSet(uncovered),
         NEW d \in DOMAIN dimSizes, dimSizes[d] > 0
  PROVE  BestValue(d) \in Values(d)
<1> DEFINE N == Cardinality(uncovered)
           G(v) == Cardinality(Gain(d, v))
           Lost == {N - G(v) : v \in Values(d)}
<1>0. dimSizes[d] \in Int /\ 0 \in Values(d) /\ Values(d) \in SUBSET Nat
  BY DEF Values
<1>1. ASSUME NEW v \in Values(d)
      PROVE  G(v) \in Nat /\ G(v) <= N
  <2>1. Gain(d, v) \in SUBSET uncovered
    BY DEF Gain
  <2> QED BY <2>1, FS_Subset, FS_CardinalityType
<1>2. N \in Nat
  BY FS_CardinalityType
<1> HIDE DEF N, G
<1>3. Lost \in SUBSET Nat /\ Lost # {}
  BY <1>0, <1>1, <1>2
<1>4. PICK l \in Lost : \A x \in Lost : l <= x
  BY <1>3, LeastNat
<1>5. PICK w \in Values(d) : l = N - G(w)
  BY <1>4
<1>6. ASSUME NEW v \in Values(d)
      PROVE  G(v) <= G(w)
  <2>1. N - G(v) \in Lost
    OBVIOUS
  <2>2. N - G(w) <= N - G(v)
    BY <1>4, <1>5, <2>1
  <2>3. G(v) \in Nat /\ G(w) \in Nat
    BY <1>1
  <2> QED BY <1>2, <2>2, <2>3
<1> DEFINE Best == {v \in Values(d) : G(v) = G(w)}
<1>7. PICK b \in Best : \A v \in Best : b <= v
  <2>1. Best \in SUBSET Nat /\ Best # {}
    BY <1>0, <1>5
  <2> QED BY <2>1, LeastNat
<1>8. \A v \in Values(d) : G(b) > G(v) \/ (G(b) = G(v) /\ b <= v)
  BY <1>1, <1>6, <1>7
<1>9. \E v \in Values(d) : \A u \in Values(d) : G(v) > G(u) \/ (G(v) = G(u) /\ v <= u)
  BY <1>7, <1>8
<1> QED BY <1>9 DEF BestValue, G

-----------------------------------------------------------------------------
(* The invariant *)

(* The invariant holds before the first row is chosen. *)
LEMMA PairInitInv ==
  ASSUME PairInit
  PROVE  PairInv
  BY DEF PairInit, PairInv, CasesEarnTheirPlace

(* A call begins. *)
LEMMA BeginInv ==
  ASSUME NEW sizes \in Seq(Int), Begin(sizes)
  PROVE  PairInv'
<1>1. CASE Len(sizes) < 2 \/ \E d \in DOMAIN sizes : sizes[d] <= 0
  <2>1. dimSizes' = sizes /\ at' = "done"
    BY <1>1 DEF Begin
  <2>2. CASE Len(sizes) = 1
    <3>1. cases' = [k \in 1 .. sizes[1] |-> <<k - 1>>] /\ DOMAIN sizes = {1} /\ sizes[1] \in Int
      BY <1>1, <2>2 DEF Begin
    <3>2. \A k \in 1 .. sizes[1] : cases'[k] = <<k - 1>>
      BY <3>1
    <3>3. \A k \in 1 .. sizes[1] : <<k - 1>> \in [{1} -> Int] /\ <<k - 1>>[1] = k - 1
      BY <3>1
    <3>4. cases' \in Seq([DOMAIN dimSizes' -> Int])
      <4>1. CASE sizes[1] >= 0
        BY <2>1, <3>1, <3>3, <4>1
      <4>2. CASE sizes[1] < 0
        <5>1. cases' = <<>>
          BY <3>1, <4>2
        <5> QED BY <5>1
      <4> QED BY <3>1, <4>1, <4>2
    <3>5. DOMAIN cases' = 1 .. sizes[1]
      BY <3>1
    <3>6. CasesEarnTheirPlace'
      BY <2>1, <2>2, <3>1, <3>2, <3>3, <3>5 DEF CasesEarnTheirPlace, Values
    <3>7. DoneInv'
      BY <2>1, <2>2, <3>1 DEF DoneInv
    <3> QED BY <2>1, <3>4, <3>6, <3>7 DEF PairInv
  <2>3. CASE Len(sizes) # 1
    <3>1. cases' = <<>>
      BY <1>1, <2>3 DEF Begin
    <3>2. ~ Coverable(sizes)
      <4>1. CASE Len(sizes) = 0
        BY <4>1 DEF Coverable
      <4>2. CASE Len(sizes) # 0
        <5>0. \A n \in Nat : n # 0 /\ n # 1 => ~ (n < 2)
          OBVIOUS
        <5>1. ~ (Len(sizes) < 2)
          <6>1. Len(sizes) \in Nat
            OBVIOUS
          <6> QED BY <2>3, <4>2, <5>0, <6>1, Zenon
        <5>2. PICK d \in DOMAIN sizes : sizes[d] <= 0
          BY <1>1, <5>1
        <5> QED BY <5>2 DEF Coverable
      <4> QED BY <4>1, <4>2
    <3> QED BY <2>1, <3>1, <3>2 DEF PairInv, DoneInv, CasesEarnTheirPlace, Coverable
  <2> QED BY <2>2, <2>3
<1>2. CASE ~ (Len(sizes) < 2 \/ \E d \in DOMAIN sizes : sizes[d] <= 0)
  <2>1. /\ dimSizes' = sizes /\ at' = "seed" /\ cases' = <<>>
        /\ uncovered' = OrderedPairs(sizes)
    BY <1>2 DEF Begin
  <2>2. Len(sizes) > 1 /\ \A d \in DOMAIN sizes : sizes[d] > 0
    BY <1>2
  <2>3. IsFiniteSet(uncovered')
    BY <2>1, PairsFinite
  <2>4. SearchInv'
    BY <2>1, <2>2, <2>3 DEF SearchInv
  <2> QED BY <2>1, <2>4 DEF PairInv, CasesEarnTheirPlace
<1> QED BY <1>1, <1>2

(* A case is seeded with the first uncovered pair, which it then holds. *)
LEMMA SeedCaseInv ==
  ASSUME PairInv, SeedCase
  PROVE  PairInv'
<1>1. /\ dimSizes' = dimSizes /\ uncovered' = uncovered /\ cases' = cases /\ at' = "fill"
      /\ at = "seed"
  BY DEF SeedCase
<1>2. SearchInv /\ dimSizes \in Seq(Int)
  BY <1>1 DEF PairInv
<1>3. First \in uncovered
  BY <1>2, FirstIsUncovered DEF SeedCase, SearchInv
<1>4. First \in Pairs(dimSizes) /\ First.d1 < First.d2
  BY <1>2, <1>3 DEF SearchInv, OrderedPairs
<1>5. /\ First.d1 \in DOMAIN dimSizes /\ First.d2 \in DOMAIN dimSizes
      /\ First.v1 \in 0 .. (dimSizes[First.d1] - 1)
      /\ First.v2 \in 0 .. (dimSizes[First.d2] - 1)
      /\ First.d1 \in Nat /\ First.d2 \in Nat
  BY <1>2, <1>4, PairType
<1> DEFINE f == First
<1> HIDE DEF f
<1>6. tc' = [d \in DOMAIN dimSizes |->
               CASE d = f.d1 -> f.v1 [] d = f.d2 -> f.v2 [] OTHER -> Unset]
  BY DEF SeedCase, f
<1>7. tc'[f.d1] = f.v1 /\ tc'[f.d2] = f.v2
  BY <1>4, <1>5, <1>6 DEF f
<1>8. CaseOver(dimSizes, tc')
  <2>1. ASSUME NEW d \in DOMAIN dimSizes
        PROVE  tc'[d] \in Int /\ (tc'[d] = Unset \/ tc'[d] \in 0 .. (dimSizes[d] - 1))
    <3>0. dimSizes[d] \in Int
      BY <1>2
    <3>1. CASE d = f.d1
      BY <1>5, <1>7, <3>0, <3>1 DEF f
    <3>2. CASE d = f.d2
      BY <1>5, <1>7, <3>0, <3>2 DEF f
    <3>3. CASE d # f.d1 /\ d # f.d2
      BY <1>6, <3>3 DEF Unset
    <3> QED BY <3>1, <3>2, <3>3
  <2>2. tc' \in [DOMAIN dimSizes -> Int]
    BY <1>6, <2>1
  <2> QED BY <2>1, <2>2 DEF CaseOver
<1>9. FillInv'
  BY <1>1, <1>3, <1>7, <1>8 DEF FillInv, Holds, f, CaseOver
<1> QED BY <1>1, <1>2, <1>9 DEF PairInv, SearchInv, CasesEarnTheirPlace, Values, Holds, OrderedPairs

(* A slot is filled: the pair the case holds has none of the unset slots. *)
LEMMA FillSlotInv ==
  ASSUME PairInv, FillSlot
  PROVE  PairInv'
<1>1. /\ dimSizes' = dimSizes /\ uncovered' = uncovered /\ cases' = cases /\ at' = at
      /\ at = "fill" /\ tc' = [tc EXCEPT ![NextSlot] = BestValue(NextSlot)]
  BY DEF FillSlot
<1>2. SearchInv /\ FillInv /\ dimSizes \in Seq(Int)
  BY <1>1 DEF PairInv
<1>3. tc \in [DOMAIN dimSizes -> Int]
  BY <1>2 DEF FillInv, CaseOver
<1>4. NextSlot \in DOMAIN dimSizes /\ tc[NextSlot] = Unset
  BY <1>2, <1>3, NextSlotIsUnset DEF FillSlot
<1>5. BestValue(NextSlot) \in 0 .. (dimSizes[NextSlot] - 1)
  BY <1>2, <1>4, BestValueInRange DEF SearchInv, Values
<1> DEFINE s == NextSlot
           b == BestValue(s)
<1> HIDE DEF s, b
<1>6. tc' = [tc EXCEPT ![s] = b] /\ s \in DOMAIN dimSizes /\ tc[s] = Unset
      /\ b \in 0 .. (dimSizes[s] - 1)
  BY <1>1, <1>4, <1>5 DEF s, b
<1>7. CaseOver(dimSizes, tc')
  <2>1. dimSizes[s] \in Int
    BY <1>2, <1>6
  <2>2. b \in Int
    BY <1>6, <2>1
  <2> QED BY <1>2, <1>3, <1>6, <2>2 DEF CaseOver, FillInv
<1>8. PICK p \in uncovered : Holds(tc, p)
  BY <1>2 DEF FillInv
<1>9. Holds(tc', p)
  <2>1. p \in Pairs(dimSizes)
    BY <1>2 DEF SearchInv, OrderedPairs
  <2>2. p.v1 \in Nat /\ p.v2 \in Nat
    BY <1>2, <2>1, PairType
  <2>3. p.d1 # s /\ p.d2 # s
    BY <1>6, <1>8, <2>2 DEF Holds, Unset
  <2> QED BY <1>3, <1>6, <1>8, <2>1, <2>3, <1>2, PairType DEF Holds
<1>10. FillInv'
  BY <1>1, <1>7, <1>8, <1>9 DEF FillInv, Holds, CaseOver
<1> QED BY <1>1, <1>2, <1>10 DEF PairInv, SearchInv, CasesEarnTheirPlace, Values, Holds, OrderedPairs

(* A case is finished: it holds a pair that was uncovered until now. *)
LEMMA FinishCaseInv ==
  ASSUME PairInv, FinishCase
  PROVE  PairInv'
<1>1. /\ dimSizes' = dimSizes /\ cases' = Append(cases, tc) /\ at' = "seed" /\ at = "fill"
      /\ uncovered' = {p \in uncovered : ~ Holds(tc, p)}
      /\ \A d \in DOMAIN tc : tc[d] # Unset
  BY DEF FinishCase, StillUncovered
<1>2. /\ SearchInv /\ FillInv /\ dimSizes \in Seq(Int) /\ CasesEarnTheirPlace
      /\ cases \in Seq([DOMAIN dimSizes -> Int])
  BY <1>1 DEF PairInv
<1>3. tc \in [DOMAIN dimSizes -> Int]
  BY <1>2 DEF FillInv, CaseOver
<1>4. /\ cases' \in Seq([DOMAIN dimSizes -> Int])
      /\ DOMAIN cases' = 1 .. (Len(cases) + 1)
      /\ DOMAIN cases = 1 .. Len(cases) /\ Len(cases) \in Nat
      /\ \A k \in 1 .. Len(cases) : cases'[k] = cases[k]
      /\ cases'[Len(cases) + 1] = tc
  BY <1>1, <1>2, <1>3
<1>5. \A d \in DOMAIN dimSizes : tc[d] \in Values(d)
  BY <1>1, <1>2, <1>3 DEF FillInv, CaseOver, Values
<1>6. PICK p \in uncovered : Holds(tc, p)
  BY <1>2 DEF FillInv
<1>7. /\ p \in OrderedPairs(dimSizes)
      /\ \A j \in 1 .. Len(cases) : ~ Holds(cases[j], p)
  BY <1>2, <1>4 DEF SearchInv
<1>8. CasesEarnTheirPlace'
  <2>1. ASSUME NEW k \in 1 .. (Len(cases) + 1)
        PROVE  /\ DOMAIN cases'[k] = DOMAIN dimSizes
               /\ \A d \in DOMAIN dimSizes : cases'[k][d] \in Values(d)
               /\ Len(dimSizes) > 1 =>
                    \E q \in OrderedPairs(dimSizes) :
                      Holds(cases'[k], q) /\ \A j \in 1 .. (k - 1) : ~ Holds(cases'[j], q)
    <3>1. CASE k = Len(cases) + 1
      <4>1. cases'[k] = tc /\ \A j \in 1 .. (k - 1) : cases'[j] = cases[j]
        <5>1. \A j \in 1 .. (k - 1) : j \in 1 .. Len(cases)
          BY <1>4, <3>1
        <5> QED BY <1>4, <3>1, <5>1, Zenon
      <4>2. \A j \in 1 .. (k - 1) : ~ Holds(cases'[j], p)
        BY <1>4, <1>7, <3>1, <4>1
      <4>3. DOMAIN tc = DOMAIN dimSizes
        BY <1>3
      <4> QED BY <1>5, <1>6, <1>7, <4>1, <4>2, <4>3
    <3>2. CASE k \in 1 .. Len(cases)
      <4>1. cases'[k] = cases[k] /\ \A j \in 1 .. (k - 1) : cases'[j] = cases[j]
        <5>1. \A j \in 1 .. (k - 1) : j \in 1 .. Len(cases)
          BY <1>4, <3>2
        <5> QED BY <1>4, <3>2, <5>1, Zenon
      <4>2. /\ DOMAIN cases[k] = DOMAIN dimSizes
            /\ \A d \in DOMAIN dimSizes : cases[k][d] \in Values(d)
            /\ Len(dimSizes) > 1 =>
                 \E q \in OrderedPairs(dimSizes) :
                   Holds(cases[k], q) /\ \A j \in 1 .. (k - 1) : ~ Holds(cases[j], q)
        BY <1>2, <1>4, <3>2 DEF CasesEarnTheirPlace
      <4> QED BY <4>1, <4>2
    <3> QED BY <1>4, <3>1, <3>2
  <2> QED BY <1>1, <1>4, <2>1 DEF CasesEarnTheirPlace, Values, Holds, OrderedPairs
<1>9. SearchInv'
  <2>1. IsFiniteSet(uncovered')
    <3>1. uncovered' \in SUBSET uncovered
      BY <1>1
    <3> QED BY <1>2, <3>1, FS_Subset DEF SearchInv
  <2>2. ASSUME NEW q \in OrderedPairs(dimSizes)
        PROVE  q \in uncovered' <=> \A k \in DOMAIN cases' : ~ Holds(cases'[k], q)
    <3>1. q \in uncovered <=> \A k \in 1 .. Len(cases) : ~ Holds(cases[k], q)
      BY <1>2, <1>4 DEF SearchInv
    <3>2. q \in uncovered' <=> q \in uncovered /\ ~ Holds(tc, q)
      BY <1>1
    <3>3. (\A k \in DOMAIN cases' : ~ Holds(cases'[k], q))
          <=> (\A k \in 1 .. Len(cases) : ~ Holds(cases[k], q)) /\ ~ Holds(tc, q)
      <4>1. \A k \in 1 .. (Len(cases) + 1) : k \in 1 .. Len(cases) \/ k = Len(cases) + 1
        BY <1>4
      <4>2. 1 .. Len(cases) \subseteq DOMAIN cases' /\ Len(cases) + 1 \in DOMAIN cases'
        BY <1>4
      <4> QED BY <1>4, <4>1, <4>2
    <3> QED BY <3>1, <3>2, <3>3
  <2>3. uncovered' \subseteq OrderedPairs(dimSizes)
    BY <1>1, <1>2 DEF SearchInv
  <2>4. uncovered' = {q \in OrderedPairs(dimSizes) :
                        \A k \in DOMAIN cases' : ~ Holds(cases'[k], q)}
    BY <2>2, <2>3
  <2> QED BY <1>1, <1>2, <2>1, <2>4 DEF SearchInv, Holds, OrderedPairs
<1> QED BY <1>1, <1>2, <1>4, <1>8, <1>9 DEF PairInv

(* The search ends when nothing is uncovered. *)
LEMMA ReturnCasesInv ==
  ASSUME PairInv, ReturnCases
  PROVE  PairInv'
<1>1. /\ UNCHANGED <<dimSizes, uncovered, tc, cases>>
      /\ at = "seed" /\ at' = "done" /\ uncovered = {}
  BY DEF ReturnCases
<1>2. SearchInv
  BY <1>1 DEF PairInv
<1>3. \A p \in OrderedPairs(dimSizes) : \E k \in DOMAIN cases : Holds(cases[k], p)
  BY <1>1, <1>2 DEF SearchInv
<1>4. DoneInv'
  <2>1. Len(dimSizes) # 1
    <3>1. \A n \in Nat : n > 1 => n # 1
      OBVIOUS
    <3>2. Len(dimSizes) \in Nat
      BY DEF PairInv
    <3> QED BY <1>2, <3>1, <3>2, Zenon DEF SearchInv
  <2> QED BY <1>1, <1>3, <2>1 DEF DoneInv, Holds, OrderedPairs, Coverable
<1> QED BY <1>1, <1>4 DEF PairInv, CasesEarnTheirPlace, Values, Holds, OrderedPairs

(* Every step of the search keeps the invariant. *)
LEMMA PairStepInv ==
  ASSUME PairInv, [PairNext]_pairVars
  PROVE  PairInv'
<1>1. CASE \E sizes \in Seq(Int) : Begin(sizes)
  BY <1>1, BeginInv
<1>2. CASE SeedCase
  BY <1>2, SeedCaseInv
<1>3. CASE FillSlot
  BY <1>3, FillSlotInv
<1>4. CASE FinishCase
  BY <1>4, FinishCaseInv
<1>5. CASE ReturnCases
  BY <1>5, ReturnCasesInv
<1>6. CASE UNCHANGED pairVars
  BY <1>6 DEF pairVars, PairInv, SearchInv, FillInv, DoneInv, CaseOver, CasesEarnTheirPlace,
              Values, Holds, OrderedPairs, Coverable
<1> QED BY <1>1, <1>2, <1>3, <1>4, <1>5, <1>6 DEF PairNext, PairStep

(* A single value, and a pair in either order, reduce to an ordered pair. *)
LEMMA InvImpliesCovered ==
  ASSUME PairInv
  PROVE  PairsCovered
<1> SUFFICES ASSUME at = "done", Coverable(dimSizes),
                    NEW p \in Pairs(dimSizes), p.d1 = p.d2 => p.v1 = p.v2
             PROVE  \E k \in DOMAIN cases : Holds(cases[k], p)
  BY DEF PairsCovered
<1>1. DoneInv /\ dimSizes \in Seq(Int) /\ Len(dimSizes) \in Nat
  BY DEF PairInv
<1>2. /\ p.d1 \in DOMAIN dimSizes /\ p.d2 \in DOMAIN dimSizes
      /\ p.v1 \in 0 .. (dimSizes[p.d1] - 1) /\ p.v2 \in 0 .. (dimSizes[p.d2] - 1)
      /\ p.d1 \in Nat /\ p.d2 \in Nat
  BY <1>1, PairType
<1>3. Len(dimSizes) # 0 /\ DOMAIN dimSizes = 1 .. Len(dimSizes)
  BY <1>1 DEF Coverable
<1>4. CASE Len(dimSizes) = 1
  <2>1. cases = [k \in 1 .. dimSizes[1] |-> <<k - 1>>] /\ dimSizes[1] \in Int
    <3>1. 1 \in DOMAIN dimSizes
      BY <1>3, <1>4
    <3>2. dimSizes[1] \in Int
      BY <1>1, <3>1
    <3> QED BY <1>1, <1>4, <3>2, Zenon DEF DoneInv
  <2>2. p.d1 = 1 /\ p.d2 = 1 /\ p.v2 = p.v1 /\ p.v1 \in 0 .. (dimSizes[1] - 1)
    BY <1>2, <1>3, <1>4
  <2>3. p.v1 + 1 \in DOMAIN cases /\ cases[p.v1 + 1] = <<p.v1>>
    BY <2>1, <2>2
  <2>4. Holds(cases[p.v1 + 1], p)
    BY <2>2, <2>3 DEF Holds
  <2> QED BY <2>3, <2>4
<1>5. CASE Len(dimSizes) > 1
  <2>1. \A q \in OrderedPairs(dimSizes) : \E k \in DOMAIN cases : Holds(cases[k], q)
    BY <1>1, <1>5 DEF DoneInv
  <2>2. ASSUME NEW d \in DOMAIN dimSizes, NEW e \in DOMAIN dimSizes, d < e,
               NEW v \in 0 .. (dimSizes[d] - 1), NEW w \in 0 .. (dimSizes[e] - 1)
        PROVE  \E k \in DOMAIN cases : cases[k][d] = v /\ cases[k][e] = w
    <3> DEFINE q == [d1 |-> d, d2 |-> e, v1 |-> v, v2 |-> w]
    <3>1. q \in PairsOf(dimSizes, d, e)
      BY DEF PairsOf
    <3>2. q \in UNION {PairsOf(dimSizes, d, x) : x \in DOMAIN dimSizes}
      BY <3>1
    <3>3. q \in OrderedPairs(dimSizes)
      BY <2>2, <3>2 DEF OrderedPairs, Pairs
    <3>4. PICK k \in DOMAIN cases : Holds(cases[k], q)
      BY <2>1, <3>3
    <3> QED BY <3>4 DEF Holds
  <2>3. CASE p.d1 < p.d2
    BY <1>2, <2>2, <2>3 DEF Holds
  <2>4. CASE p.d2 < p.d1
    BY <1>2, <2>2, <2>4 DEF Holds
  <2>5. CASE p.d1 = p.d2
    <3>1. p.v1 = p.v2
      BY <2>5
    <3>2. \A e \in DOMAIN dimSizes : 0 \in 0 .. (dimSizes[e] - 1)
      BY <1>1 DEF Coverable
    <3>3. CASE p.d1 = 1
      <4>1. 2 \in DOMAIN dimSizes /\ p.d1 < 2
        BY <1>3, <1>5, <3>3
      <4>2. PICK k \in DOMAIN cases : cases[k][p.d1] = p.v1 /\ cases[k][2] = 0
        BY <1>2, <2>2, <3>2, <4>1
      <4> QED BY <2>5, <3>1, <4>2 DEF Holds
    <3>4. CASE p.d1 # 1
      <4>1. 1 \in DOMAIN dimSizes /\ 1 < p.d1
        BY <1>2, <1>3, <1>5, <3>4
      <4>2. PICK k \in DOMAIN cases : cases[k][1] = 0 /\ cases[k][p.d1] = p.v1
        BY <1>2, <2>2, <3>2, <4>1
      <4> QED BY <2>5, <3>1, <4>2 DEF Holds
    <3> QED BY <3>3, <3>4
  <2> QED BY <1>2, <2>3, <2>4, <2>5
<1> QED BY <1>1, <1>3, <1>4, <1>5

-----------------------------------------------------------------------------

(* The invariant holds throughout the search. *)
LEMMA PairInvariant == PairSpec => []PairInv
<1>1. PairInit => PairInv
  BY PairInitInv
<1>2. PairInv /\ [PairNext]_pairVars => PairInv'
  BY PairStepInv
<1> QED BY <1>1, <1>2, PTL DEF PairSpec

(***************************************************************************)
(* The array coveragePairwise returns covers every value and every pair of *)
(* values, for every list of dimension sizes.                              *)
(***************************************************************************)
THEOREM PairsCoveredTheorem == PairSpec => []PairsCovered
<1>1. PairInv => PairsCovered
  BY InvImpliesCovered
<1> QED BY <1>1, PairInvariant, PTL

(***************************************************************************)
(* Every case coveragePairwise makes is complete, in range and holds a     *)
(* pair that no earlier case holds, which bounds the number of cases.      *)
(***************************************************************************)
THEOREM CasesEarnTheirPlaceTheorem == PairSpec => []CasesEarnTheirPlace
<1>1. PairInv => CasesEarnTheirPlace
  BY DEF PairInv
<1> QED BY <1>1, PairInvariant, PTL

-----------------------------------------------------------------------------
(* Part two: the configuration of a generator *)

(* x has the fields of a Generator. *)
IsGenerator(x) ==
  x = [rnd |-> x.rnd, runMode |-> x.runMode, limit |-> x.limit, set |-> x.set,
       xattrs |-> x.xattrs, allowed |-> x.allowed, coverage |-> x.coverage]

(* What x points to is there. *)
PointsInto(x, h) == x.rnd \in 1 .. Len(h) /\ x.xattrs \in 0 .. Len(h)

(* h is a list of objects, of whatever kind. *)
IsHeap(h) == \E S : h \in Seq(S)

GeneratorsSound ==
  /\ IsGenerator(g) /\ IsGenerator(copy)
  /\ IsHeap(heap)
  /\ PointsInto(g, heap) /\ PointsInto(copy, heap)

(* Configure and a call exclude each other. *)
OneAtATime == config = "applying" => phase \in {"returned", "failed"}

(* The configuration is in the generator, or what is kept gives it back. *)
Recoverable ==
  config = "done" => copy = IF phase = "applying" THEN Restored ELSE g

CoverageInv ==
  GeneratorsSound /\ OneAtATime /\ Recoverable /\ NoNilCall

-----------------------------------------------------------------------------

(* Assigning one field of a generator. *)
LEMMA FieldSet ==
  ASSUME NEW x, IsGenerator(x), NEW v
  PROVE  /\ IsGenerator([x EXCEPT !.set = v])
         /\ [x EXCEPT !.set = v].rnd = x.rnd /\ [x EXCEPT !.set = v].xattrs = x.xattrs
         /\ IsGenerator([x EXCEPT !.runMode = v])
         /\ [x EXCEPT !.runMode = v].rnd = x.rnd /\ [x EXCEPT !.runMode = v].xattrs = x.xattrs
         /\ IsGenerator([x EXCEPT !.limit = v])
         /\ [x EXCEPT !.limit = v].rnd = x.rnd /\ [x EXCEPT !.limit = v].xattrs = x.xattrs
         /\ IsGenerator([x EXCEPT !.allowed = v])
         /\ [x EXCEPT !.allowed = v].rnd = x.rnd /\ [x EXCEPT !.allowed = v].xattrs = x.xattrs
         /\ IsGenerator([x EXCEPT !.coverage = v])
         /\ [x EXCEPT !.coverage = v].rnd = x.rnd /\ [x EXCEPT !.coverage = v].xattrs = x.xattrs
         /\ IsGenerator([x EXCEPT !.rnd = v])
         /\ [x EXCEPT !.rnd = v].rnd = v /\ [x EXCEPT !.rnd = v].xattrs = x.xattrs
         /\ IsGenerator([x EXCEPT !.xattrs = v])
         /\ [x EXCEPT !.xattrs = v].rnd = x.rnd /\ [x EXCEPT !.xattrs = v].xattrs = v
BY DEF IsGenerator

(* The two fields runCoverage replaces, and puts back. *)
Swap(x, m, n) == [x EXCEPT !.runMode = m, !.limit = n]

(* The others stay, and putting back what was there gives what was there. *)
LEMMA ModeAndLimit ==
  ASSUME NEW x, IsGenerator(x), NEW m, NEW n
  PROVE  /\ IsGenerator(Swap(x, m, n))
         /\ Swap(x, m, n).rnd = x.rnd /\ Swap(x, m, n).xattrs = x.xattrs
         /\ Swap(Swap(x, m, n), x.runMode, x.limit) = x
<1> DEFINE With(a, b) ==
             [rnd |-> x.rnd, runMode |-> a, limit |-> b, set |-> x.set,
              xattrs |-> x.xattrs, allowed |-> x.allowed, coverage |-> x.coverage]
           y == [x EXCEPT !.runMode = m, !.limit = n]
<1>1. x = With(x.runMode, x.limit)
  BY DEF IsGenerator
<1>2. IsGenerator(With(m, n)) /\ With(m, n).rnd = x.rnd /\ With(m, n).xattrs = x.xattrs
  BY DEF IsGenerator
<1>3. y = With(m, n)
  <2> DEFINE z == [x EXCEPT !.runMode = m]
  <2>1. z = With(m, x.limit)
    BY <1>1
  <2>2. y = [z EXCEPT !.limit = n]
    <3> HIDE DEF With
    <3> QED OBVIOUS
  <2> HIDE DEF y, z
  <2> QED BY <2>1, <2>2
<1> HIDE DEF y
<1>4. [y EXCEPT !.runMode = x.runMode, !.limit = x.limit] = x
  <2> DEFINE z == [y EXCEPT !.runMode = x.runMode]
             u == [y EXCEPT !.runMode = x.runMode, !.limit = x.limit]
  <2>1. z = With(x.runMode, n)
    BY <1>3
  <2>2. u = [z EXCEPT !.limit = x.limit]
    <3> HIDE DEF With
    <3> QED OBVIOUS
  <2> HIDE DEF u, z
  <2>3. u = x
    BY <1>1, <2>1, <2>2
  <2> QED BY <2>3 DEF u
<1> HIDE DEF With
<1>5. y = Swap(x, m, n) /\ Swap(y, x.runMode, x.limit) = x
  BY <1>4 DEF y, Swap
<1> QED BY <1>2, <1>3, <1>5

(* A new object at the end of the heap leaves the others where they are. *)
LEMMA HeapGrows ==
  ASSUME NEW h, IsHeap(h), NEW obj
  PROVE  /\ IsHeap(Append(h, obj)) /\ Len(h) \in Nat /\ Len(Append(h, obj)) = Len(h) + 1
         /\ \A a \in 1 .. Len(h) : Append(h, obj)[a] = h[a]
<1>1. PICK S : h \in Seq(S)
  BY DEF IsHeap
<1>2. h \in Seq(S \cup {obj}) /\ Append(h, obj) \in Seq(S \cup {obj})
  BY <1>1
<1> QED BY <1>1, <1>2 DEF IsHeap

(* New makes a generator with a random source and no attributes. *)
LEMMA CoverageInvInit == CoverageInit => CoverageInv
<1> SUFFICES ASSUME CoverageInit PROVE CoverageInv
  OBVIOUS
<1>1. /\ g = NewGenerator /\ copy = NewGenerator /\ heap = <<Source(DefaultSeed)>>
      /\ config = "new" /\ phase = "returned"
  BY DEF CoverageInit, OptionsInit
<1>2. IsGenerator(NewGenerator) /\ NewGenerator.rnd = 1 /\ NewGenerator.xattrs = 0
  BY DEF NewGenerator, IsGenerator
<1>3. IsHeap(heap) /\ Len(heap) = 1
  <2> DEFINE first == Source(DefaultSeed)
  <2> HIDE DEF first
  <2>1. <<first>> \in Seq({first}) /\ Len(<<first>>) = 1
    OBVIOUS
  <2> QED BY <1>1, <2>1 DEF IsHeap, first
<1>4. PointsInto(NewGenerator, heap)
  BY <1>2, <1>3 DEF PointsInto
<1>5. GeneratorsSound
  BY <1>1, <1>2, <1>3, <1>4 DEF GeneratorsSound
<1> QED BY <1>1, <1>5 DEF CoverageInv, OneAtATime, Recoverable, NoNilCall

(* What one option does: the generator and all it points to stay. *)
LEMMA EffectFacts ==
  ASSUME GeneratorsSound, NEW o, Effect(o)
  PROVE  /\ IsGenerator(copy') /\ IsHeap(heap') /\ PointsInto(copy', heap')
         /\ Len(heap) \in Nat /\ Len(heap') >= Len(heap) /\ Len(heap') \in Nat
         /\ \A a \in 1 .. Len(heap) : heap'[a] = heap[a]
<1>1. IsGenerator(copy) /\ IsHeap(heap) /\ PointsInto(copy, heap) /\ Len(heap) \in Nat
  BY HeapGrows DEF GeneratorsSound
<1>2. ASSUME UNCHANGED heap, IsGenerator(copy'), copy'.rnd = copy.rnd,
             copy'.xattrs \in {0, copy.xattrs}
      PROVE  /\ IsGenerator(copy') /\ IsHeap(heap') /\ PointsInto(copy', heap')
             /\ Len(heap) \in Nat /\ Len(heap') >= Len(heap) /\ Len(heap') \in Nat
             /\ \A a \in 1 .. Len(heap) : heap'[a] = heap[a]
  BY <1>1, <1>2 DEF PointsInto
<1>3. ASSUME NEW obj, heap' = Append(heap, obj), IsGenerator(copy'),
             copy'.rnd \in {copy.rnd, Len(heap) + 1},
             copy'.xattrs \in {copy.xattrs, Len(heap) + 1}
      PROVE  /\ IsGenerator(copy') /\ IsHeap(heap') /\ PointsInto(copy', heap')
             /\ Len(heap) \in Nat /\ Len(heap') >= Len(heap) /\ Len(heap') \in Nat
             /\ \A a \in 1 .. Len(heap) : heap'[a] = heap[a]
  <2>1. /\ IsHeap(heap') /\ Len(heap') = Len(heap) + 1
        /\ \A a \in 1 .. Len(heap) : heap'[a] = heap[a]
    BY <1>1, <1>3, HeapGrows
  <2> QED BY <1>1, <1>3, <2>1 DEF PointsInto
<1>4. ASSUME NEW names, WithNames(names)
      PROVE  /\ IsGenerator(copy') /\ IsHeap(heap') /\ PointsInto(copy', heap')
             /\ Len(heap) \in Nat /\ Len(heap') >= Len(heap) /\ Len(heap') \in Nat
             /\ \A a \in 1 .. Len(heap) : heap'[a] = heap[a]
  <2>1. CASE names = {}
    <3>1. copy' = [copy EXCEPT !.xattrs = 0] /\ UNCHANGED heap
      BY <1>4, <2>1 DEF WithNames
    <3>2. IsGenerator(copy') /\ copy'.rnd = copy.rnd /\ copy'.xattrs = 0
      BY <1>1, <3>1, FieldSet
    <3> QED BY <1>2, <3>1, <3>2
  <2>2. CASE names # {}
    <3>1. copy' = [copy EXCEPT !.xattrs = Len(heap) + 1] /\ heap' = Append(heap, names)
      BY <1>4, <2>2 DEF WithNames
    <3>2. IsGenerator(copy') /\ copy'.rnd = copy.rnd /\ copy'.xattrs = Len(heap) + 1
      BY <1>1, <3>1, FieldSet
    <3> QED BY <1>3, <3>1, <3>2
  <2> QED BY <2>1, <2>2
<1>5. CASE o.kind = "seed"
  <2>1. heap' = Append(heap, Source(o.seed)) /\ copy' = [copy EXCEPT !.rnd = Len(heap) + 1]
    BY <1>5 DEF Effect, WithSeed
  <2>2. IsGenerator(copy') /\ copy'.rnd = Len(heap) + 1 /\ copy'.xattrs = copy.xattrs
    BY <1>1, <2>1, FieldSet
  <2> QED BY <1>3, <2>1, <2>2
<1>6. CASE o.kind \in {"xattr", "xattrs"}
  BY <1>4, <1>6 DEF Effect
<1>7. CASE o.kind \notin {"seed", "xattr", "xattrs"}
  <2>1. /\ UNCHANGED heap
        /\ \/ \E v : copy' = [copy EXCEPT !.set = v]
           \/ \E v : copy' = [copy EXCEPT !.runMode = v]
           \/ \E v : copy' = [copy EXCEPT !.limit = v]
           \/ \E v : copy' = [copy EXCEPT !.allowed = v]
           \/ \E v : copy' = [copy EXCEPT !.coverage = v]
    BY <1>7 DEF Effect, Set
  <2>2. IsGenerator(copy') /\ copy'.rnd = copy.rnd /\ copy'.xattrs = copy.xattrs
    <3>1. ASSUME NEW v, copy' = [copy EXCEPT !.set = v]
          PROVE  IsGenerator(copy') /\ copy'.rnd = copy.rnd /\ copy'.xattrs = copy.xattrs
      BY <1>1, <3>1, FieldSet
    <3>2. ASSUME NEW v, copy' = [copy EXCEPT !.runMode = v]
          PROVE  IsGenerator(copy') /\ copy'.rnd = copy.rnd /\ copy'.xattrs = copy.xattrs
      BY <1>1, <3>2, FieldSet
    <3>3. ASSUME NEW v, copy' = [copy EXCEPT !.limit = v]
          PROVE  IsGenerator(copy') /\ copy'.rnd = copy.rnd /\ copy'.xattrs = copy.xattrs
      BY <1>1, <3>3, FieldSet
    <3>4. ASSUME NEW v, copy' = [copy EXCEPT !.allowed = v]
          PROVE  IsGenerator(copy') /\ copy'.rnd = copy.rnd /\ copy'.xattrs = copy.xattrs
      BY <1>1, <3>4, FieldSet
    <3>5. ASSUME NEW v, copy' = [copy EXCEPT !.coverage = v]
          PROVE  IsGenerator(copy') /\ copy'.rnd = copy.rnd /\ copy'.xattrs = copy.xattrs
      BY <1>1, <3>5, FieldSet
    <3> QED BY <2>1, <3>1, <3>2, <3>3, <3>4, <3>5
  <2> QED BY <1>2, <2>1, <2>2
<1> QED BY <1>5, <1>6, <1>7

-----------------------------------------------------------------------------
(* Configure *)

(* A step of Configure works on the copy, or assigns it at the end. *)
LEMMA ConfigureKeeps ==
  ASSUME CoverageInv, Configuring
  PROVE  CoverageInv'
<1>1. GeneratorsSound /\ config = "applying" /\ phase \in {"returned", "failed"} /\ phase' = phase
  BY DEF CoverageInv, OneAtATime, Configuring, ConfigureStep, ApplyOption, RefuseOption,
         CommitOptions
<1>2. CASE ApplyOption
  <2>1. UNCHANGED <<g, config>> /\ Effect(Head(todo))
    BY <1>2 DEF ApplyOption
  <2>2. /\ IsGenerator(copy') /\ IsHeap(heap') /\ PointsInto(copy', heap')
        /\ Len(heap) \in Nat /\ Len(heap') >= Len(heap) /\ Len(heap') \in Nat
    BY <1>1, <2>1, EffectFacts
  <2>3. PointsInto(g, heap')
    BY <1>1, <2>2 DEF GeneratorsSound, PointsInto
  <2>4. GeneratorsSound'
    BY <1>1, <2>1, <2>2, <2>3 DEF GeneratorsSound, PointsInto
  <2> QED BY <1>1, <2>1, <2>4 DEF CoverageInv, OneAtATime, Recoverable, NoNilCall
<1>3. CASE RefuseOption
  <2>1. UNCHANGED <<g, heap, copy>> /\ config' = "refused"
    BY <1>3 DEF RefuseOption
  <2> QED BY <1>1, <2>1 DEF CoverageInv, GeneratorsSound, PointsInto, OneAtATime, Recoverable,
                            NoNilCall
<1>4. CASE CommitOptions
  <2>1. g' = copy /\ config' = "done" /\ UNCHANGED <<heap, copy>>
    BY <1>4 DEF CommitOptions
  <2> QED BY <1>1, <2>1 DEF CoverageInv, GeneratorsSound, PointsInto, OneAtATime, Recoverable,
                            NoNilCall
<1> QED BY <1>2, <1>3, <1>4 DEF Configuring, ConfigureStep

(* Configure starts from a copy of the generator. *)
LEMMA StartConfigureKeeps ==
  ASSUME CoverageInv, NEW options, CallConfigure(options)
  PROVE  CoverageInv'
<1>1. /\ UNCHANGED <<g, heap, phase>> /\ copy' = g /\ config' = "applying"
      /\ phase \in {"returned", "failed"}
  BY DEF CallConfigure, StartConfigure, Idle
<1> QED BY <1>1 DEF CoverageInv, GeneratorsSound, PointsInto, OneAtATime, Recoverable, NoNilCall

(* A run that passed its checks has every generator the planner calls. *)
LEMMA ChecksSuffice == validateRunConfiguration => Called \subseteq g.set
<1> SUFFICES ASSUME validateRunConfiguration PROVE Called \subseteq g.set
  OBVIOUS
<1>1. Required \subseteq g.set
  BY DEF validateRunConfiguration
<1>2. /\ {"dirName", "byteDirName"} \cap g.set # {}
      /\ {"fileName", "byteFileName"} \cap g.set # {}
      /\ {"data", "contentPattern"} \cap g.set # {}
  BY DEF validateRunConfiguration, OneOf
<1>3. \/ {"contentPattern", "contentSize"} \subseteq g.set
      \/ {"contentPattern", "contentSize"} \cap g.set = {}
  BY DEF validateRunConfiguration, Together
<1>4. {IF "byteDirName" \in g.set THEN "byteDirName" ELSE "dirName"} \subseteq g.set
  BY <1>2
<1>5. {IF "byteFileName" \in g.set THEN "byteFileName" ELSE "fileName"} \subseteq g.set
  BY <1>2
<1>6. (IF {"contentPattern", "contentSize"} \subseteq g.set THEN {} ELSE {"data"}) \subseteq g.set
  BY <1>2, <1>3
<1> QED BY <1>1, <1>4, <1>5, <1>6 DEF Called

-----------------------------------------------------------------------------
(* Calls *)

(* A step that leaves the generators alone and starts no application. *)
LEMMA CallLeaves ==
  ASSUME CoverageInv, UNCHANGED <<g, heap, copy, config, kept>>, phase # "applying",
         phase' # "applying", phase' # "planning",
         config = "applying" => phase' = phase
  PROVE  CoverageInv'
BY DEF CoverageInv, GeneratorsSound, PointsInto, OneAtATime, Recoverable, NoNilCall

(* runCoverage keeps what it replaces, so it can be given back. *)
LEMMA StartApplyKeeps == ASSUME CoverageInv, StartApply PROVE CoverageInv'
<1>1. /\ phase = "planned" /\ phase' = "applying" /\ UNCHANGED <<heap, copy, config>>
      /\ kept' = [mode |-> g.runMode, limit |-> g.limit]
      /\ g' = g \/ g' = [g EXCEPT !.runMode = call.opts.mode, !.limit = PlanLimit]
  BY DEF StartApply
<1>2. GeneratorsSound /\ config # "applying" /\ (config = "done" => copy = g)
  BY <1>1 DEF CoverageInv, OneAtATime, Recoverable
<1>3. IsGenerator(g)
  BY <1>2 DEF GeneratorsSound
<1>4. /\ IsGenerator(g') /\ g'.rnd = g.rnd /\ g'.xattrs = g.xattrs
      /\ Swap(g', g.runMode, g.limit) = g
  <2>1. CASE g' = g
    <3>1. g = [k \in DOMAIN g |-> g[k]]
      BY <1>3 DEF IsGenerator
    <3>2. Swap(g, g.runMode, g.limit) = g
      BY <3>1 DEF Swap
    <3> QED BY <1>3, <2>1, <3>2
  <2>2. CASE g' = [g EXCEPT !.runMode = call.opts.mode, !.limit = PlanLimit]
    <3>1. g' = Swap(g, call.opts.mode, PlanLimit)
      BY <2>2 DEF Swap
    <3> QED BY <1>3, <3>1, ModeAndLimit
  <2> QED BY <1>1, <2>1, <2>2
<1>5. GeneratorsSound'
  BY <1>1, <1>2, <1>4 DEF GeneratorsSound, PointsInto
<1>6. kept'.mode = g.runMode /\ kept'.limit = g.limit
  BY <1>1
<1>7. Restored' = g
  BY <1>4, <1>6 DEF Restored, Swap
<1> QED BY <1>1, <1>2, <1>5, <1>7 DEF CoverageInv, OneAtATime, Recoverable, NoNilCall

(* The deferred function of runCoverage gives it back. *)
LEMMA ApplyEndsKeeps == ASSUME CoverageInv, ApplyEnds PROVE CoverageInv'
<1>1. /\ phase = "applying" /\ phase' \in {"returned", "failed"}
      /\ UNCHANGED <<heap, copy, config>> /\ g' = Restored
  BY DEF ApplyEnds, ApplyTo
<1>2. GeneratorsSound /\ config # "applying" /\ (config = "done" => copy = Restored)
  BY <1>1 DEF CoverageInv, OneAtATime, Recoverable
<1>3. IsGenerator(g') /\ g'.rnd = g.rnd /\ g'.xattrs = g.xattrs
  <2>1. IsGenerator(g)
    BY <1>2 DEF GeneratorsSound
  <2>2. g' = Swap(g, kept.mode, kept.limit)
    BY <1>1 DEF Restored, Swap
  <2> QED BY <2>1, <2>2, ModeAndLimit
<1>4. GeneratorsSound'
  BY <1>1, <1>2, <1>3 DEF GeneratorsSound, PointsInto
<1> QED BY <1>1, <1>2, <1>4 DEF CoverageInv, OneAtATime, Recoverable, NoNilCall

(* Drawing from the random source leaves it where it is. *)
LEMMA PlanAtRandomKeeps == ASSUME CoverageInv, PlanAtRandom PROVE CoverageInv'
<1>1. /\ phase = "planning" /\ phase' \in {"returned", "failed"}
      /\ UNCHANGED <<g, copy, config, kept>>
      /\ heap' = [heap EXCEPT ![g.rnd].drawn = @ + 1]
  BY DEF PlanAtRandom, ApplyTo
<1>2. PICK S : heap \in Seq(S)
  BY DEF CoverageInv, GeneratorsSound, IsHeap
<1>3. \E T : heap' \in Seq(T) /\ Len(heap') = Len(heap)
  <2> DEFINE source == [heap[g.rnd] EXCEPT !.drawn = @ + 1]
  <2>1. heap' = [heap EXCEPT ![g.rnd] = source]
    BY <1>1
  <2> HIDE DEF source
  <2>2. heap \in Seq(S \cup {source})
    BY <1>2
  <2>3. g.rnd \in 1 .. Len(heap)
    BY DEF CoverageInv, GeneratorsSound, PointsInto
  <2>4. heap' \in Seq(S \cup {source}) /\ Len(heap') = Len(heap)
    BY <2>1, <2>2, <2>3
  <2> QED BY <2>4
<1>4. GeneratorsSound'
  BY <1>1, <1>3 DEF CoverageInv, GeneratorsSound, PointsInto, IsHeap
<1> QED BY <1>1, <1>4 DEF CoverageInv, OneAtATime, Recoverable, NoNilCall

(* Generator.Run plans only what validateRunConfiguration let through. *)
LEMMA RunRandomKeeps == ASSUME CoverageInv, RunRandom PROVE CoverageInv'
<1>1. /\ phase \in {"returned", "failed"} /\ config # "applying"
      /\ UNCHANGED <<g, heap, copy, config, kept>> /\ phase' \in {"returned", "planning", "failed"}
      /\ phase' = "planning" => validateRunConfiguration
  BY DEF RunRandom, Idle, genVars, optionVars
<1>2. phase' = "planning" => Called \subseteq g.set
  BY <1>1, ChecksSuffice
<1>3. NoNilCall'
  BY <1>1, <1>2 DEF NoNilCall, Called
<1> QED BY <1>1, <1>3 DEF CoverageInv, GeneratorsSound, PointsInto, OneAtATime, Recoverable

(* A coverage call starts without touching the generator. *)
LEMMA StartCallKeeps == ASSUME CoverageInv, NEW kind, NEW o, StartCall(kind, o) PROVE CoverageInv'
<1>1. /\ phase \in {"returned", "failed"} /\ config # "applying"
      /\ UNCHANGED <<g, heap, copy, config, kept>>
      /\ phase' \in {"failed", "probe-xattr", "resolve"}
  BY DEF StartCall, Idle, genVars, optionVars
<1> QED BY <1>1, CallLeaves

(* Probing, enumerating and reporting. *)
LEMMA EnumerationKeeps ==
  ASSUME CoverageInv,
         \/ ProbeXAttrSupport \/ ProbeACLSupport \/ ResolveCapabilities
         \/ SkipSubTree \/ StartSubTree \/ SearchCases \/ EmitCell \/ EndSubTree
         \/ Planned \/ ReportSpec \/ OverLimit
  PROVE  CoverageInv'
<1>1. /\ phase \in {"probe-xattr", "probe-acl", "resolve", "subtree", "cells", "planned"}
      /\ UNCHANGED <<g, heap, copy, config, kept>>
      /\ phase' \in {"probe-acl", "resolve", "subtree", "cells", "planned", "returned", "failed"}
  <2>1. CASE ProbeXAttrSupport \/ ProbeACLSupport
    BY <2>1 DEF ProbeXAttrSupport, ProbeACLSupport, Probe, genVars, optionVars
  <2>2. CASE ResolveCapabilities
    BY <2>2 DEF ResolveCapabilities, genVars, optionVars
  <2>3. CASE SkipSubTree
    BY <2>3 DEF SkipSubTree, AppendEntries, genVars, optionVars
  <2>4. CASE StartSubTree
    BY <2>4 DEF StartSubTree, AppendEntries, genVars, optionVars
  <2>5. CASE SearchCases
    BY <2>5 DEF SearchCases, genVars, optionVars
  <2>6. CASE EmitCell
    BY <2>6 DEF EmitCell, AppendEntries, genVars, optionVars
  <2>7. CASE EndSubTree
    BY <2>7 DEF EndSubTree, genVars, optionVars
  <2>8. CASE Planned
    BY <2>8 DEF Planned, genVars, optionVars
  <2>9. CASE ReportSpec
    BY <2>9 DEF ReportSpec, genVars, optionVars
  <2>10. CASE OverLimit
    BY <2>10 DEF OverLimit, genVars, optionVars
  <2> QED BY <2>1, <2>2, <2>3, <2>4, <2>5, <2>6, <2>7, <2>8, <2>9, <2>10
<1>2. config # "applying"
  BY <1>1 DEF CoverageInv, OneAtATime
<1> QED BY <1>1, <1>2, CallLeaves

(* Every step keeps the invariant. *)
LEMMA CoverageInvStep == CoverageInv /\ [CoverageNext]_coverageVars => CoverageInv'
<1> SUFFICES ASSUME CoverageInv, [CoverageNext]_coverageVars PROVE CoverageInv'
  OBVIOUS
<1>1. CASE CallStep
  BY <1>1, EnumerationKeeps, StartApplyKeeps, ApplyEndsKeeps, PlanAtRandomKeeps, ConfigureKeeps
     DEF CallStep
<1>2. CASE \E c \in env.calls : StartCall(c.kind, c.opts)
  BY <1>2, StartCallKeeps
<1>3. CASE \E options \in env.options : CallConfigure(options)
  BY <1>3, StartConfigureKeeps
<1>4. CASE RunCoverage \/ RunRandom
  BY <1>4, StartCallKeeps, RunRandomKeeps DEF RunCoverage
<1>5. CASE UNCHANGED coverageVars
  <2>1. UNCHANGED <<g, heap, copy, config, kept, phase>>
    BY <1>5 DEF coverageVars, genVars, optionVars
  <2> QED BY <2>1 DEF CoverageInv, GeneratorsSound, PointsInto, OneAtATime, Recoverable, Restored,
                      NoNilCall, Called
<1> QED BY <1>1, <1>2, <1>3, <1>4, <1>5 DEF CoverageNext

(***************************************************************************)
(* At every moment the generator points into the heap, and its             *)
(* configuration is there or can be given back.                            *)
(***************************************************************************)
THEOREM CoverageInvHolds == CoverageSpec => []CoverageInv
<1> QED BY CoverageInvInit, CoverageInvStep, PTL DEF CoverageSpec

(***************************************************************************)
(* Between calls the generator has the configuration its last successful   *)
(* Configure gave it, however the runs since then ended (the deferred      *)
(* function of runCoverage in coverage.go).                                *)
(***************************************************************************)
THEOREM CoverageConfigurationKept == CoverageSpec => []ConfigurationKept
<1>1. CoverageInv => ConfigurationKept
  BY DEF CoverageInv, Recoverable, ConfigurationKept, Idle
<1> QED BY <1>1, CoverageInvHolds, PTL

(***************************************************************************)
(* No run that validateRunConfiguration let through calls a generator      *)
(* function that was never set, whatever options were applied              *)
(* (generator.go).                                                         *)
(***************************************************************************)
THEOREM CoverageNoNilCall == CoverageSpec => []NoNilCall
<1>1. CoverageInv => NoNilCall
  BY DEF CoverageInv
<1> QED BY <1>1, CoverageInvHolds, PTL

(* While Configure runs, nothing else touches the generator. *)
LEMMA OnlyConfigures ==
  ASSUME CoverageInv, [CoverageNext]_coverageVars, config = "applying", config' # "done"
  PROVE  UNCHANGED <<g, heap>> \/ (Effect(Head(todo)) /\ UNCHANGED g)
<1>1. phase \in {"returned", "failed"} /\ ~ Idle
  BY DEF CoverageInv, OneAtATime, Idle
<1>2. CASE Configuring
  BY <1>2 DEF Configuring, ConfigureStep, ApplyOption, RefuseOption, CommitOptions
<1>3. CASE UNCHANGED coverageVars
  BY <1>3 DEF coverageVars, genVars, optionVars
<1>4. ~ (\/ ProbeXAttrSupport \/ ProbeACLSupport \/ ResolveCapabilities
         \/ SkipSubTree \/ StartSubTree \/ SearchCases \/ EmitCell \/ EndSubTree
         \/ Planned \/ ReportSpec \/ OverLimit \/ StartApply \/ ApplyEnds \/ PlanAtRandom)
  BY <1>1 DEF ProbeXAttrSupport, ProbeACLSupport, ResolveCapabilities, SkipSubTree,
              StartSubTree, SearchCases, EmitCell, EndSubTree, Planned, ReportSpec, OverLimit,
              StartApply, ApplyEnds, PlanAtRandom
<1>5. \A kind, o : ~ StartCall(kind, o)
  BY <1>1 DEF StartCall
<1>6. \A options : ~ CallConfigure(options)
  BY <1>1 DEF CallConfigure
<1>7. ~ RunCoverage /\ ~ RunRandom
  BY <1>1, <1>5 DEF RunCoverage, RunRandom
<1> QED BY <1>2, <1>3, <1>4, <1>5, <1>6, <1>7 DEF CoverageNext, CallStep

(***************************************************************************)
(* Configure is atomic (options.go): an option that made the copy point to *)
(* a new random source or a new list of attributes has left those of the   *)
(* generator where and as they were.                                       *)
(***************************************************************************)
THEOREM CoverageConfigureAtomic == CoverageSpec => ConfigureAtomic
<1>1. ASSUME CoverageInv, [CoverageNext]_coverageVars
      PROVE  [config = "applying" /\ config' # "done" => Meaning' = Meaning]_optionVars
  <2> SUFFICES ASSUME config = "applying", config' # "done"
               PROVE  Meaning' = Meaning
    OBVIOUS
  <2>1. UNCHANGED <<g, heap>> \/ (Effect(Head(todo)) /\ UNCHANGED g)
    BY <1>1, OnlyConfigures
  <2>2. GeneratorsSound
    BY <1>1 DEF CoverageInv
  <2>3. CASE UNCHANGED <<g, heap>>
    BY <2>3 DEF Meaning, NamesAt
  <2>4. CASE Effect(Head(todo)) /\ UNCHANGED g
    <3>1. \A a \in 1 .. Len(heap) : heap'[a] = heap[a]
      BY <2>2, <2>4, EffectFacts
    <3>2. g.rnd \in 1 .. Len(heap) /\ g.xattrs \in 0 .. Len(heap) /\ Len(heap) \in Nat
      BY <2>2, HeapGrows DEF GeneratorsSound, PointsInto
    <3>3. heap'[g'.rnd] = heap[g.rnd]
      BY <2>4, <3>1, <3>2
    <3>4. NamesAt(g.xattrs)' = NamesAt(g.xattrs)
      BY <2>4, <3>1, <3>2 DEF NamesAt
    <3> QED BY <2>4, <3>3, <3>4 DEF Meaning
  <2> QED BY <2>1, <2>3, <2>4
<1> QED BY <1>1, CoverageInvHolds, PTL DEF CoverageSpec, ConfigureAtomic

-----------------------------------------------------------------------------
(* Part three: the search of the pairwise cases, as the enumerators use it *)

(* The scale of the dimensions is one of the settings. *)
Scaled == \E s \in Settings : env = s.env

(* A list is a sequence over whatever its elements are in. *)
LEMMA ListIsSeq ==
  ASSUME NEW l, IsList(l), NEW S, \A k \in DOMAIN l : l[k] \in S
  PROVE  l \in Seq(S)
<1>1. Len(l) \in Nat /\ l = [k \in 1 .. Len(l) |-> l[k]]
  BY DEF IsList
<1>2. DOMAIN l = 1 .. Len(l)
  BY <1>1
<1>3. l \in [1 .. Len(l) -> S]
  BY <1>1, <1>2
<1> QED BY <1>1, <1>3

(* A list is a sequence over its elements. *)
LEMMA ListHasLength ==
  ASSUME NEW l, IsList(l)
  PROVE  \E S : l \in Seq(S)
<1>1. \A k \in DOMAIN l : l[k] \in {l[j] : j \in DOMAIN l}
  OBVIOUS
<1> QED BY <1>1, ListIsSeq

(* What is known of the scale. *)
LEMMA ScaleFacts ==
  ASSUME Scaled
  PROVE  /\ \E S : env.modes \in Seq(S)
         /\ \E S : env.contents \in Seq(S)
         /\ \E S : env.sizes \in Seq(S)
         /\ \E S : env.names \in Seq(S)
         /\ \E S : env.strategies \in Seq(S)
         /\ \E S : env.timeVariants \in Seq(S)
         /\ env.groupSizes \in Seq(Nat \ {0, 1})
         /\ \A l \in {env.modes, env.contents, env.sizes, env.names, env.strategies,
                      env.userXAttrs, env.timeVariants, env.groupSizes} : l # <<>>
         /\ \E S : env.userXAttrs \in Seq(S) /\ "xattr-trusted" \notin S /\ "xattr-security" \notin S
         /\ \A c \in env.calls : IsRequest(c.opts)
         /\ \A options \in env.options :
              IsList(options) /\ \A k \in DOMAIN options : IsOption(options[k])
<1>1. PICK s \in Settings : env = s.env
  BY DEF Scaled
<1>2. /\ \A l \in {env.modes, env.contents, env.sizes, env.names, env.strategies,
                    env.userXAttrs, env.timeVariants} : IsList(l) /\ l # <<>>
      /\ IsList(env.groupSizes) /\ env.groupSizes # <<>>
      /\ \A k \in DOMAIN env.groupSizes : env.groupSizes[k] \in Nat \ {0, 1}
      /\ \A k \in DOMAIN env.userXAttrs :
           env.userXAttrs[k] \notin {"xattr-trusted", "xattr-security"}
      /\ \A c \in env.calls : IsRequest(c.opts)
      /\ \A options \in env.options :
           IsList(options) /\ \A k \in DOMAIN options : IsOption(options[k])
  BY <1>1, CoverageAssumption
<1>3. env.groupSizes \in Seq(Nat \ {0, 1})
  BY <1>2, ListIsSeq
<1>4. \E S : env.userXAttrs \in Seq(S) /\ "xattr-trusted" \notin S /\ "xattr-security" \notin S
  <2> DEFINE S == {env.userXAttrs[k] : k \in DOMAIN env.userXAttrs}
  <2>1. \A k \in DOMAIN env.userXAttrs : env.userXAttrs[k] \in S
    OBVIOUS
  <2>2. "xattr-trusted" \notin S /\ "xattr-security" \notin S
    BY <1>2
  <2>3. env.userXAttrs \in Seq(S)
    <3> HIDE DEF S
    <3> QED BY <1>2, <2>1, ListIsSeq
  <2> QED BY <2>2, <2>3
<1>5. /\ \E S : env.modes \in Seq(S)
      /\ \E S : env.contents \in Seq(S)
      /\ \E S : env.sizes \in Seq(S)
      /\ \E S : env.names \in Seq(S)
      /\ \E S : env.strategies \in Seq(S)
      /\ \E S : env.timeVariants \in Seq(S)
  BY <1>2, ListHasLength
<1> QED BY <1>2, <1>3, <1>4, <1>5

(* Lists that are written out. *)
LEMMA ShortSeqs ==
  ASSUME NEW S
  PROVE  <<>> \in Seq(S) /\ \A x \in S : <<x>> \in Seq(S)
OBVIOUS

(* What a value of the dimension of metadata classes stands for is there. *)
MetaBacked(c) ==
  /\ c \in {"ownership", "full"} => "ownership" \in caps
  /\ c = "full" => {"xattr-user", "acl"} \subseteq caps

MetaClasses == {c \in {"none", "ownership", "timestamps", "full"} : MetaBacked(c)}

(* coverageEnabledMetadataValues offers what is enabled. *)
LEMMA MetaValuesBacked == MetaValues \in Seq(MetaClasses)
<1>1. <<"none">> \in Seq(MetaClasses)
  BY ShortSeqs DEF MetaClasses, MetaBacked
<1>2. (IF "ownership" \in caps THEN <<"ownership">> ELSE <<>>) \in Seq(MetaClasses)
  <2>1. "ownership" \in caps => "ownership" \in MetaClasses
    BY DEF MetaClasses, MetaBacked
  <2> QED BY <2>1, ShortSeqs
<1>3. (IF "timestamps" \in caps THEN <<"timestamps">> ELSE <<>>) \in Seq(MetaClasses)
  <2>1. "timestamps" \in MetaClasses
    BY DEF MetaClasses, MetaBacked
  <2> QED BY <2>1, ShortSeqs
<1>4. (IF {"ownership", "timestamps", "xattr-user", "acl"} \subseteq caps
       THEN <<"full">> ELSE <<>>) \in Seq(MetaClasses)
  <2>1. {"ownership", "timestamps", "xattr-user", "acl"} \subseteq caps => "full" \in MetaClasses
    BY DEF MetaClasses, MetaBacked
  <2> QED BY <2>1, ShortSeqs
<1> HIDE DEF MetaClasses
<1> QED BY <1>1, <1>2, <1>3, <1>4 DEF MetaValues

(* A gated value is there only if it is enabled. *)
LEMMA IfEnabledSeq ==
  ASSUME NEW S, NEW id, id \in caps => id \in S
  PROVE  IfEnabled(id) \in Seq(S)
BY ShortSeqs DEF IfEnabled

(* The special types of the plan are enabled ones. *)
LEMMA SpecialTypesBacked == SpecialTypes \in Seq(SpecialKinds \cap caps)
<1>1. ASSUME NEW id \in SpecialKinds PROVE IfEnabled(id) \in Seq(SpecialKinds \cap caps)
  <2>1. id \in caps => id \in SpecialKinds \cap caps
    OBVIOUS
  <2> QED BY <2>1, IfEnabledSeq
<1>2. /\ IfEnabled("fifo") \in Seq(SpecialKinds \cap caps)
      /\ IfEnabled("socket") \in Seq(SpecialKinds \cap caps)
      /\ IfEnabled("char") \in Seq(SpecialKinds \cap caps)
      /\ IfEnabled("block") \in Seq(SpecialKinds \cap caps)
  BY <1>1 DEF SpecialKinds
<1> QED BY <1>2 DEF SpecialTypes

(* A variant in another namespace than the user's is enabled. *)
XAttrBacked(v) == v \in {"xattr-trusted", "xattr-security"} => v \in caps

(* So are the namespaces of extended attributes beyond that of the user. *)
LEMMA XAttrVariantsBacked ==
  ASSUME Scaled
  PROVE  \E S : XAttrVariants \in Seq(S) /\ \A v \in S : XAttrBacked(v)
<1>1. PICK S : env.userXAttrs \in Seq(S) /\ "xattr-trusted" \notin S /\ "xattr-security" \notin S
  BY ScaleFacts
<1> DEFINE T == S \cup ({"xattr-trusted", "xattr-security"} \cap caps)
<1>2. IfEnabled("xattr-trusted") \in Seq(T) /\ IfEnabled("xattr-security") \in Seq(T)
  <2>1. "xattr-trusted" \in caps => "xattr-trusted" \in T
    OBVIOUS
  <2>2. "xattr-security" \in caps => "xattr-security" \in T
    OBVIOUS
  <2> HIDE DEF T
  <2> QED BY <2>1, <2>2, IfEnabledSeq
<1>3. \A v \in T : XAttrBacked(v)
  BY <1>1 DEF XAttrBacked
<1>4. env.userXAttrs \in Seq(T)
  BY <1>1
<1> HIDE DEF T
<1>5. XAttrVariants \in Seq(T)
  BY <1>2, <1>4 DEF XAttrVariants
<1> QED BY <1>3, <1>5

(* The variants of every subtree are listed. *)
LEMMA VariantsListed ==
  ASSUME Scaled, NEW s
  PROVE  \E T : Variants(s) \in Seq(T)
<1>1. \E T : XAttrVariants \in Seq(T)
  BY XAttrVariantsBacked
<1>2. \E T : SpecialTypes \in Seq(T)
  BY SpecialTypesBacked
<1>3. \E T : <<"base", "named-mask", "default-on-dir">> \in Seq(T)
  <2>1. <<"base", "named-mask", "default-on-dir">> \in Seq({"base", "named-mask", "default-on-dir"})
    OBVIOUS
  <2> QED BY <2>1
<1>4. /\ \E T : env.strategies \in Seq(T)
      /\ \E T : env.groupSizes \in Seq(T)
      /\ \E T : env.timeVariants \in Seq(T)
  BY ScaleFacts
<1> QED BY <1>1, <1>2, <1>3, <1>4 DEF Variants

(* So are the values of every dimension. *)
LEMMA AxisValuesListed ==
  ASSUME Scaled, NEW s, NEW axis
  PROVE  \E T : AxisValues(s, axis) \in Seq(T)
<1>1. \E T : MetaValues \in Seq(T)
  BY MetaValuesBacked
<1>2. \E T : Variants(s) \in Seq(T)
  BY VariantsListed
<1>3. \E T : <<"regular", "exec">> \in Seq(T)
  <2>1. <<"regular", "exec">> \in Seq({"regular", "exec"})
    OBVIOUS
  <2> QED BY <2>1
<1>4. /\ \E T : env.modes \in Seq(T)
      /\ \E T : env.contents \in Seq(T)
      /\ \E T : env.sizes \in Seq(T)
      /\ \E T : env.names \in Seq(T)
  BY ScaleFacts
<1> QED BY <1>1, <1>2, <1>3, <1>4 DEF AxisValues

(* The enumerators search over as many dimensions as they have axes. *)
LEMMA DimSizesListed ==
  ASSUME Scaled, NEW s
  PROVE  DimSizes(s) \in Seq(Int)
<1>1. DOMAIN Axes(s) = 1 .. Len(Axes(s)) /\ Len(Axes(s)) \in Nat
  <2>1. CASE s = "dirs"
    BY <2>1 DEF Axes
  <2>2. CASE s = "files"
    <3>1. Axes(s) = <<"mode", "content", "size", "name", "meta">>
      BY <2>2 DEF Axes
    <3>2. <<"mode", "content", "size", "name", "meta">>
            \in Seq({"mode", "content", "size", "name", "meta"})
      OBVIOUS
    <3> QED BY <3>1, <3>2
  <2>3. CASE s = "special"
    BY <2>3 DEF Axes
  <2>4. CASE s # "dirs" /\ s # "files" /\ s # "special"
    <3>1. Axes(s) = <<"variant", "name">>
      BY <2>4 DEF Axes
    <3> QED BY <3>1
  <2> QED BY <2>1, <2>2, <2>3, <2>4
<1>2. ASSUME NEW axis PROVE Len(AxisValues(s, axis)) \in Nat
  <2>1. PICK T : AxisValues(s, axis) \in Seq(T)
    BY AxisValuesListed
  <2> QED BY <2>1
<1>3. DimSizes(s) \in [1 .. Len(Axes(s)) -> Int]
  BY <1>1, <1>2 DEF DimSizes
<1> QED BY <1>1, <1>3

(* Every step of a coverage call is a step of the search or leaves it alone. *)
LEMMA CoveragePairStep ==
  ASSUME Scaled, [CoverageNext]_coverageVars
  PROVE  [PairNext]_pairVars /\ Scaled'
<1>1. UNCHANGED env
  <2>1. CASE CallStep
    BY <2>1 DEF CallStep, ProbeXAttrSupport, ProbeACLSupport, Probe, ResolveCapabilities,
                SkipSubTree, StartSubTree, SearchCases, EmitCell, EndSubTree, Planned, ReportSpec,
                OverLimit, StartApply, ApplyEnds, PlanAtRandom, Configuring, callVars
  <2>2. CASE ~ CallStep
    BY <2>2 DEF CoverageNext, StartCall, CallConfigure, RunCoverage, RunRandom, callVars,
                coverageVars
  <2> QED BY <2>1, <2>2
<1>2. Scaled'
  BY <1>1 DEF Scaled
<1>3. CASE StartSubTree
  <2>1. Begin(DimSizes(SubTree)) /\ DimSizes(SubTree) \in Seq(Int)
    BY <1>3, DimSizesListed DEF StartSubTree
  <2> QED BY <1>2, <2>1 DEF PairNext
<1>4. CASE SearchCases
  BY <1>2, <1>4 DEF SearchCases, PairNext
<1>5. CASE ~ StartSubTree /\ ~ SearchCases
  <2>1. UNCHANGED pairVars
    <3>1. CASE CallStep
      BY <1>5, <3>1 DEF CallStep, ProbeXAttrSupport, ProbeACLSupport, Probe, ResolveCapabilities,
                SkipSubTree, EmitCell, EndSubTree, Planned, ReportSpec,
                OverLimit, StartApply, ApplyEnds, PlanAtRandom, Configuring
    <3>2. CASE ~ CallStep
      BY <3>2 DEF CoverageNext, StartCall, CallConfigure, RunCoverage, RunRandom, coverageVars
    <3> QED BY <3>1, <3>2
  <2> QED BY <1>2, <2>1
<1> QED BY <1>3, <1>4, <1>5

(***************************************************************************)
(* The enumerators use the search as it is meant to be used: the calls of  *)
(* coveragePairwise in a behaviour of Coverage are a behaviour of          *)
(* Pairwise, with lists of sizes and one call at a time.                   *)
(***************************************************************************)
THEOREM CoverageImplementsPairwise == CoverageSpec => PairSpec
<1>1. CoverageInit => PairInit /\ Scaled
  BY DEF CoverageInit, Scaled
<1>2. Scaled /\ [CoverageNext]_coverageVars => [PairNext]_pairVars /\ Scaled'
  BY CoveragePairStep
<1> QED BY <1>1, <1>2, PTL DEF CoverageSpec, PairSpec

(***************************************************************************)
(* Whatever was asked and whatever the host has, the cases from which a    *)
(* subtree is enumerated hold every pair of values of its dimensions       *)
(* (coverage_enumerator.go).                                               *)
(***************************************************************************)
THEOREM CoveragePairsCovered == CoverageSpec => []PairsCovered
BY CoverageImplementsPairwise, PairsCoveredTheorem, PTL

(***************************************************************************)
(* Each case from which a subtree is enumerated holds a pair no earlier    *)
(* one holds, and its values are indices of the lists of values.           *)
(***************************************************************************)
THEOREM CoverageCasesEarnTheirPlace == CoverageSpec => []CasesEarnTheirPlace
BY CoverageImplementsPairwise, CasesEarnTheirPlaceTheorem, PTL

-----------------------------------------------------------------------------
(* Part four: what a coverage plan asks for *)

(* The namespace an entry with extended attributes needs. *)
XAttrNeed(t) ==
  IF "variant" \in DOMAIN t /\ t.variant \in {"xattr-trusted", "xattr-security"}
  THEN t.variant ELSE "xattr-user"

(* The capabilities behind a kind and behind attributes are enabled. *)
KindBacked(kind) ==
  /\ kind \in SpecialKinds => kind \in caps
  /\ kind = "symlink" => "symlinks" \in caps
  /\ kind = "hardlink" => "hardlinks" \in caps

AttrsBacked(attrs, t) ==
  /\ "times" \in attrs => "timestamps" \in caps
  /\ "owner" \in attrs => "ownership" \in caps
  /\ "acl" \in attrs => "acl" \in caps
  /\ "xattrs" \in attrs => XAttrNeed(t) \in caps

(* A list of entries that need enabled capabilities only. *)
BackedBy(es, cs) == \E S : es \in Seq(S) /\ \A e \in S : Needs(e) \subseteq cs

(* An entry needs what its kind and its attributes need. *)
LEMMA EntryBacked ==
  ASSUME NEW kind, NEW path, NEW target, NEW attrs, NEW via, NEW t,
         KindBacked(kind), AttrsBacked(attrs, t)
  PROVE  Needs(CoverageEntry(kind, path, target, attrs, via, t)) \subseteq caps
<1> DEFINE e == CoverageEntry(kind, path, target, attrs, via, t)
<1>1. e.kind = kind /\ e.attrs = attrs /\ e.traits = t
  BY DEF CoverageEntry
<1> HIDE DEF e
<1>2. Needs(e) \subseteq caps
  BY <1>1 DEF Needs, KindBacked, AttrsBacked, XAttrNeed
<1> QED BY <1>2 DEF e

(* ensureDeterministicTimestamps stamps only where timestamps are enabled. *)
LEMMA StampedBacked ==
  ASSUME NEW attrs, NEW t, AttrsBacked(attrs, t)
  PROVE  AttrsBacked(Stamped(attrs), t)
BY DEF AttrsBacked, Stamped

(* Modes need nothing. *)
LEMMA PlainBacked ==
  ASSUME NEW t, NEW class
  PROVE  AttrsBacked({}, t) /\ AttrsBacked({"mode"}, t) /\ AttrsBacked(ModeAttrs(class), t)
BY DEF AttrsBacked, ModeAttrs

(* coverageMetadataFor needs what its class is gated by. *)
LEMMA MetadataBacked ==
  ASSUME NEW t, NEW class, NEW m, MetaBacked(class), "variant" \notin DOMAIN t
  PROVE  AttrsBacked(ModeAttrs(m) \cup MetadataFor(class), t)
BY DEF AttrsBacked, ModeAttrs, MetadataFor, Stamped, MetaBacked, XAttrNeed

(* Directories and files need what their attributes need. *)
LEMMA DirBacked ==
  ASSUME NEW path, NEW attrs, NEW t, AttrsBacked(attrs, t)
  PROVE  /\ Needs(DirEntry(path, attrs, t)) \subseteq caps
         /\ Needs(FileEntry(path, attrs, t)) \subseteq caps
<1>1. KindBacked("dir") /\ KindBacked("file")
  BY DEF KindBacked, SpecialKinds
<1> QED BY <1>1, StampedBacked, EntryBacked DEF DirEntry, FileEntry

(* A symlink needs symlinks. *)
LEMMA LinkBacked ==
  ASSUME NEW path, NEW target, NEW via, NEW t, "symlinks" \in caps
  PROVE  Needs(LinkEntry(path, target, via, t)) \subseteq caps
<1>1. KindBacked("symlink")
  BY DEF KindBacked, SpecialKinds
<1> QED BY <1>1, PlainBacked, StampedBacked, EntryBacked DEF LinkEntry

(* The plan of one or two entries, and of none. *)
LEMMA ListsBacked ==
  /\ BackedBy(<<>>, caps)
  /\ \A e : Needs(e) \subseteq caps => BackedBy(<<e>>, caps)
  /\ \A d, e : Needs(d) \subseteq caps /\ Needs(e) \subseteq caps => BackedBy(<<d, e>>, caps)
<1>1. ASSUME NEW es, NEW S, es \in Seq(S), \A e \in S : Needs(e) \subseteq caps
      PROVE  BackedBy(es, caps)
  BY <1>1 DEF BackedBy
<1>2. BackedBy(<<>>, caps)
  <2> DEFINE es == <<>>
             S == {}
  <2>1. es \in Seq(S) /\ \A x \in S : Needs(x) \subseteq caps
    BY ShortSeqs
  <2> HIDE DEF es, S
  <2>2. BackedBy(es, caps)
    BY <1>1, <2>1
  <2> QED BY <2>2 DEF es
<1>3. ASSUME NEW e, Needs(e) \subseteq caps PROVE BackedBy(<<e>>, caps)
  <2> DEFINE es == <<e>>
             S == {e}
  <2>1. es \in Seq(S) /\ \A x \in S : Needs(x) \subseteq caps
    BY <1>3, ShortSeqs
  <2> HIDE DEF es, S
  <2>2. BackedBy(es, caps)
    BY <1>1, <2>1
  <2> QED BY <2>2 DEF es
<1>4. ASSUME NEW d, NEW e, Needs(d) \subseteq caps, Needs(e) \subseteq caps
      PROVE  BackedBy(<<d, e>>, caps)
  <2> DEFINE es == <<d, e>>
             S == {d, e}
  <2>1. es \in Seq(S) /\ \A x \in S : Needs(x) \subseteq caps
    BY <1>4
  <2> HIDE DEF es, S
  <2>2. BackedBy(es, caps)
    BY <1>1, <2>1
  <2> QED BY <2>2 DEF es
<1> QED BY <1>2, <1>3, <1>4

(* Two plans one after the other. *)
LEMMA JoinedBacked ==
  ASSUME NEW a, NEW b, NEW cs, BackedBy(a, cs), BackedBy(b, cs)
  PROVE  BackedBy(a \o b, cs)
<1>1. PICK S : a \in Seq(S) /\ \A e \in S : Needs(e) \subseteq cs
  BY DEF BackedBy
<1>2. PICK T : b \in Seq(T) /\ \A e \in T : Needs(e) \subseteq cs
  BY DEF BackedBy
<1>3. a \in Seq(S \cup T) /\ b \in Seq(S \cup T)
  BY <1>1, <1>2
<1>4. a \o b \in Seq(S \cup T)
  BY <1>3
<1> QED BY <1>1, <1>2, <1>4 DEF BackedBy

(* The values a case selects are values of their dimensions. *)
LEMMA TraitIs ==
  ASSUME NEW s, NEW case,
         \A d \in DOMAIN Axes(s) : case[d] \in 0 .. (Len(AxisValues(s, Axes(s)[d])) - 1),
         NEW c \in DOMAIN Axes(s), NEW T, AxisValues(s, Axes(s)[c]) \in Seq(T)
  PROVE  Traits(s, case)[Axes(s)[c]] \in T
<1> DEFINE axis == Axes(s)[c]
           d == CHOOSE d \in DOMAIN Axes(s) : Axes(s)[d] = axis
<1>1. d \in DOMAIN Axes(s) /\ Axes(s)[d] = axis
  OBVIOUS
<1>2. Traits(s, case)[axis] = AxisValues(s, axis)[case[d] + 1]
  BY DEF Traits
<1> HIDE DEF d
<1>3. case[d] \in 0 .. (Len(AxisValues(s, axis)) - 1)
  BY <1>1
<1>4. Len(AxisValues(s, axis)) \in Nat
  OBVIOUS
<1>5. case[d] + 1 \in 1 .. Len(AxisValues(s, axis))
  BY <1>3, <1>4
<1> QED BY <1>2, <1>5

(* emitCoverageSymlinkCell needs symlinks, whatever the strategy. *)
LEMMA SymlinkCellBacked ==
  ASSUME NEW w, NEW t, "symlinks" \in caps
  PROVE  BackedBy(SymlinkCell(w, t), caps)
<1>1. ASSUME NEW path, NEW target, NEW via
      PROVE  BackedBy(<<LinkEntry(path, target, via, t)>>, caps)
  BY LinkBacked, ListsBacked
<1>2. ASSUME NEW p, NEW q
      PROVE  BackedBy(<<LinkEntry(p, q, "cycle", t), LinkEntry(q, p, "cycle", t)>>, caps)
  BY LinkBacked, ListsBacked
<1> QED BY <1>1, <1>2 DEF SymlinkCell

(* A hard-link group needs hard links, whatever its size. *)
LEMMA HardlinkCellBacked ==
  ASSUME NEW w, NEW t, t.variant \in Nat \ {0, 1}, "hardlinks" \in caps
  PROVE  BackedBy(HardlinkCell(w, t), caps)
<1> DEFINE Link(m) == CoverageEntry("hardlink", w \o <<m>>, w \o <<0>>, {}, "none", t)
           n == t.variant - 1
           links == [m \in 1 .. n |-> Link(m)]
           S == {Link(m) : m \in 1 .. n}
<1>1. KindBacked("hardlink")
  BY DEF KindBacked, SpecialKinds
<1>2. \A m : Needs(Link(m)) \subseteq caps
  BY <1>1, PlainBacked, EntryBacked
<1>3. \A e \in S : Needs(e) \subseteq caps
  BY <1>2
<1>4. n \in Nat
  OBVIOUS
<1> HIDE DEF Link
<1>5. links \in [1 .. n -> S]
  OBVIOUS
<1>6. links \in Seq(S)
  <2> HIDE DEF links, S, n
  <2> QED BY <1>4, <1>5
<1>7. BackedBy(links, caps)
  <2> HIDE DEF links, S, n
  <2> QED BY <1>3, <1>6 DEF BackedBy
<1>8. BackedBy(<<FileEntry(w \o <<0>>, {"mode"}, t)>>, caps)
  BY PlainBacked, DirBacked, ListsBacked
<1>9. HardlinkCell(w, t) = <<FileEntry(w \o <<0>>, {"mode"}, t)>> \o links
  BY DEF HardlinkCell, Link
<1> HIDE DEF links
<1> QED BY <1>7, <1>8, <1>9, JoinedBacked

SubTreeNames ==
  {"dirs", "files", "symlinks", "hardlinks", "special",
   "xattr-variants", "acl-variants", "timestamp-variants"}

(* A cell of an enumerated subtree needs what is enabled. *)
LEMMA CellBacked ==
  ASSUME Scaled, NEW s \in SubTreeNames, Enumerated(s), NEW case, NEW n,
         \A d \in DOMAIN Axes(s) : case[d] \in 0 .. (Len(AxisValues(s, Axes(s)[d])) - 1)
  PROVE  BackedBy(CellEntries(s, Traits(s, case), n), caps)
<1> DEFINE t == Traits(s, case)
           w == RootOf(s) \o <<nextCell>>
           leaf == w \o <<0>>
<1>1. ASSUME NEW c \in DOMAIN Axes(s), NEW T, AxisValues(s, Axes(s)[c]) \in Seq(T)
      PROVE  t[Axes(s)[c]] \in T
  BY <1>1, TraitIs
<1>2. DOMAIN t = {Axes(s)[d] : d \in DOMAIN Axes(s)}
  BY DEF Traits
<1> HIDE DEF t, w
<1>3. CASE s = "special"
  <2>1. Axes(s) = <<"variant", "mode">>
    BY <1>3 DEF Axes
  <2>2. AxisValues(s, "variant") = SpecialTypes
    BY <1>3 DEF AxisValues, Variants
  <2>3. t.variant \in SpecialKinds \cap caps
    <3>1. 1 \in DOMAIN Axes(s) /\ Axes(s)[1] = "variant"
      BY <2>1
    <3> QED BY <1>1, <2>2, <3>1, SpecialTypesBacked
  <2>4. KindBacked(t.variant)
    BY <2>3 DEF KindBacked, SpecialKinds
  <2>5. AttrsBacked(Stamped(ModeAttrs(t.mode)), t)
    BY PlainBacked, StampedBacked
  <2>6. CellEntries(s, t, n) =
          <<CoverageEntry(t.variant, RootOf(s) \o <<n>>, NoPath,
                          Stamped(ModeAttrs(t.mode)), "none", t)>>
    BY <1>3 DEF CellEntries
  <2>7. BackedBy(CellEntries(s, t, n), caps)
    BY <2>4, <2>5, <2>6, EntryBacked, ListsBacked
  <2> QED BY <2>7 DEF t
<1>4. CASE s # "special"
  <2>1. BackedBy(<<DirEntry(w, {"mode"}, NoTraits)>>, caps)
    BY PlainBacked, DirBacked, ListsBacked
  <2>2. CellEntries(s, t, n) = <<DirEntry(w, {"mode"}, NoTraits)>> \o CellContent(s, w, t)
    BY <1>4 DEF CellEntries, w
  <2>3. BackedBy(CellContent(s, w, t), caps)
    <3>1. CASE s = "dirs" \/ s = "files"
      <4>1. \E c \in DOMAIN Axes(s) : Axes(s)[c] = "meta"
        <5>1. CASE s = "dirs"
          <6>1. Axes(s) = <<"mode", "name", "meta">>
            BY <5>1 DEF Axes
          <6>2. 3 \in DOMAIN Axes(s) /\ Axes(s)[3] = "meta"
            BY <6>1
          <6> QED BY <6>2
        <5>2. CASE s = "files"
          <6>1. Axes(s) = <<"mode", "content", "size", "name", "meta">>
            BY <5>2 DEF Axes
          <6>2. 5 \in DOMAIN Axes(s) /\ Axes(s)[5] = "meta"
            BY <6>1
          <6> QED BY <6>2
        <5> QED BY <3>1, <5>1, <5>2
      <4>2. AxisValues(s, "meta") = MetaValues
        BY DEF AxisValues
      <4>3. t.meta \in MetaClasses
        BY <1>1, <4>1, <4>2, MetaValuesBacked
      <4>4. "variant" \notin DOMAIN t
        <5>1. CASE s = "dirs"
          <6>1. Axes(s) = <<"mode", "name", "meta">>
            BY <5>1 DEF Axes
          <6> QED BY <1>2, <6>1
        <5>2. CASE s = "files"
          <6>1. Axes(s) = <<"mode", "content", "size", "name", "meta">>
            BY <5>2 DEF Axes
          <6> QED BY <1>2, <6>1
        <5> QED BY <3>1, <5>1, <5>2
      <4>5. AttrsBacked(ModeAttrs(t.mode) \cup MetadataFor(t.meta), t)
        BY <4>3, <4>4, MetadataBacked DEF MetaClasses
      <4>6. \/ CellContent(s, w, t) = <<DirEntry(leaf, ModeAttrs(t.mode) \cup MetadataFor(t.meta), t)>>
            \/ CellContent(s, w, t) = <<FileEntry(leaf, ModeAttrs(t.mode) \cup MetadataFor(t.meta), t)>>
        BY <3>1 DEF CellContent
      <4> QED BY <4>5, <4>6, DirBacked, ListsBacked
    <3>2. ASSUME s \notin {"dirs", "files", "special"}, NEW T, Variants(s) \in Seq(T)
          PROVE  t.variant \in T
      <4>1. Axes(s) = <<"variant", "name">>
        BY <3>2 DEF Axes
      <4>2. AxisValues(s, "variant") = Variants(s)
        BY DEF AxisValues
      <4>3. 1 \in DOMAIN Axes(s) /\ Axes(s)[1] = "variant"
        BY <4>1
      <4> QED BY <1>1, <3>2, <4>2, <4>3
    <3>3. CASE s = "symlinks"
      <4>1. CellContent(s, w, t) = SymlinkCell(w, t) /\ "symlinks" \in caps
        BY <3>3 DEF CellContent, Enumerated
      <4> QED BY <4>1, SymlinkCellBacked
    <3>4. CASE s = "hardlinks"
      <4>1. CellContent(s, w, t) = HardlinkCell(w, t) /\ "hardlinks" \in caps
        BY <3>4 DEF CellContent, Enumerated
      <4>2. Variants(s) \in Seq(Nat \ {0, 1})
        BY <3>4, ScaleFacts DEF Variants
      <4>3. t.variant \in Nat \ {0, 1}
        BY <3>2, <3>4, <4>2
      <4> QED BY <4>1, <4>3, HardlinkCellBacked
    <3>5. CASE s = "xattr-variants"
      <4>1. CellContent(s, w, t) = <<FileEntry(leaf, {"mode", "xattrs"}, t)>> /\ "xattr-user" \in caps
        BY <3>5 DEF CellContent, Enumerated
      <4>2. PICK T : XAttrVariants \in Seq(T) /\ \A v \in T : XAttrBacked(v)
        BY XAttrVariantsBacked
      <4>3. Variants(s) = XAttrVariants
        BY <3>5 DEF Variants
      <4>4. XAttrBacked(t.variant)
        BY <3>2, <3>5, <4>2, <4>3
      <4>5. AttrsBacked({"mode", "xattrs"}, t)
        BY <4>1, <4>4 DEF AttrsBacked, XAttrNeed, XAttrBacked
      <4> QED BY <4>1, <4>5, DirBacked, ListsBacked
    <3>6. CASE s = "acl-variants"
      <4>1. /\ \/ CellContent(s, w, t) = <<FileEntry(leaf, {"mode", "acl"}, t)>>
               \/ CellContent(s, w, t) = <<DirEntry(leaf, {"mode", "acl"}, t)>>
            /\ "acl" \in caps
        BY <3>6 DEF CellContent, Enumerated
      <4>2. AttrsBacked({"mode", "acl"}, t)
        BY <4>1 DEF AttrsBacked
      <4> QED BY <4>1, <4>2, DirBacked, ListsBacked
    <3>7. CASE s = "timestamp-variants"
      <4>1. CellContent(s, w, t) = <<FileEntry(leaf, {"mode", "times"}, t)>> /\ "timestamps" \in caps
        BY <3>7 DEF CellContent, Enumerated
      <4>2. AttrsBacked({"mode", "times"}, t)
        BY <4>1 DEF AttrsBacked
      <4> QED BY <4>1, <4>2, DirBacked, ListsBacked
    <3> QED BY <1>4, <3>1, <3>3, <3>4, <3>5, <3>6, <3>7 DEF SubTreeNames
  <2>4. BackedBy(CellEntries(s, t, n), caps)
    BY <2>1, <2>2, <2>3, JoinedBacked
  <2> QED BY <2>4 DEF t
<1> QED BY <1>3, <1>4

-----------------------------------------------------------------------------
(* What is asked for *)

(* What the generator, its copy and the options to come ask for is typed. *)
AskedInv ==
  /\ IsRequest(g.coverage) /\ IsRequest(copy.coverage)
  /\ \E S : todo \in Seq(S) /\ \A o \in S : IsOption(o)

(* The call under way has the flags it was asked for. *)
FlagsInv ==
  phase \in {"probe-xattr", "probe-acl", "resolve", "subtree", "cells", "planned"} =>
    /\ IsRequest(call.asked)
    /\ call.opts.linux = normalize(call.asked).linux
    /\ call.opts.priv = normalize(call.asked).priv

(* The plan so far needs what was resolved. *)
PlanInv ==
  phase \in {"subtree", "cells", "planned"} =>
    caps = Resolved /\ BackedBy(entries, caps) /\ sub \in Nat \ {0}

(* The cells are those of a subtree that is not gated out. *)
CellsInv ==
  /\ cell = [case |-> cell.case, rep |-> cell.rep] /\ cell.case \in Nat \ {0}
  /\ phase = "cells" => sub <= 8 /\ Enumerated(SubTree) /\ dimSizes = DimSizes(SubTree)

NeedsInv == Scaled /\ AskedInv /\ FlagsInv /\ PlanInv /\ CellsInv

(* The coverage field of a generator in which another field is assigned. *)
LEMMA CoverageField ==
  ASSUME NEW x, IsGenerator(x), NEW v
  PROVE  /\ [x EXCEPT !.set = v].coverage = x.coverage
         /\ [x EXCEPT !.runMode = v].coverage = x.coverage
         /\ [x EXCEPT !.limit = v].coverage = x.coverage
         /\ [x EXCEPT !.allowed = v].coverage = x.coverage
         /\ [x EXCEPT !.rnd = v].coverage = x.coverage
         /\ [x EXCEPT !.xattrs = v].coverage = x.coverage
         /\ [x EXCEPT !.coverage = v].coverage = v
BY DEF IsGenerator

(* The two fields runCoverage replaces are no part of the request. *)
LEMMA SwapCoverage ==
  ASSUME NEW x, IsGenerator(x), NEW m, NEW n
  PROVE  Swap(x, m, n).coverage = x.coverage
<1> DEFINE z == [x EXCEPT !.runMode = m]
<1>1. IsGenerator(z) /\ z.coverage = x.coverage
  BY FieldSet, CoverageField
<1>2. Swap(x, m, n) = [z EXCEPT !.limit = n]
  BY DEF Swap, IsGenerator
<1> HIDE DEF z
<1> QED BY <1>1, <1>2, CoverageField

(* An option that is accepted leaves a typed request in the copy. *)
LEMMA OptionAsks ==
  ASSUME IsGenerator(copy), IsRequest(copy.coverage), NEW o, IsOption(o), Accepted(o), Effect(o)
  PROVE  IsRequest(copy'.coverage)
<1>1. CASE o.kind = "coverage"
  <2>1. copy' = [copy EXCEPT !.coverage = o.opts] /\ IsRequest(o.opts)
    BY <1>1 DEF Effect, IsOption
  <2> QED BY <2>1, CoverageField
<1>2. CASE o.kind # "coverage"
  <2>1. o.kind \in {"set", "seed", "mode", "limit", "xattr", "xattrs", "allow"}
    BY <1>2 DEF IsOption, Accepted
  <2>2. \/ \E v : copy' = [copy EXCEPT !.set = v]
        \/ \E v : copy' = [copy EXCEPT !.runMode = v]
        \/ \E v : copy' = [copy EXCEPT !.limit = v]
        \/ \E v : copy' = [copy EXCEPT !.allowed = v]
        \/ \E v : copy' = [copy EXCEPT !.rnd = v]
        \/ \E v : copy' = [copy EXCEPT !.xattrs = v]
    BY <2>1 DEF Effect, Set, WithSeed, WithNames
  <2>3. copy'.coverage = copy.coverage
    <3>1. ASSUME NEW v, copy' = [copy EXCEPT !.set = v] PROVE copy'.coverage = copy.coverage
      BY <3>1, CoverageField
    <3>2. ASSUME NEW v, copy' = [copy EXCEPT !.runMode = v] PROVE copy'.coverage = copy.coverage
      BY <3>2, CoverageField
    <3>3. ASSUME NEW v, copy' = [copy EXCEPT !.limit = v] PROVE copy'.coverage = copy.coverage
      BY <3>3, CoverageField
    <3>4. ASSUME NEW v, copy' = [copy EXCEPT !.allowed = v] PROVE copy'.coverage = copy.coverage
      BY <3>4, CoverageField
    <3>5. ASSUME NEW v, copy' = [copy EXCEPT !.rnd = v] PROVE copy'.coverage = copy.coverage
      BY <3>5, CoverageField
    <3>6. ASSUME NEW v, copy' = [copy EXCEPT !.xattrs = v] PROVE copy'.coverage = copy.coverage
      BY <3>6, CoverageField
    <3> QED BY <2>2, <3>1, <3>2, <3>3, <3>4, <3>5, <3>6
  <2> QED BY <2>3
<1> QED BY <1>1, <1>2

(* Configure keeps the requests typed. *)
LEMMA ConfigureAsks ==
  ASSUME CoverageInv, AskedInv, Configuring
  PROVE  AskedInv'
<1>1. IsGenerator(copy) /\ IsGenerator(g)
  BY DEF CoverageInv, GeneratorsSound
<1>2. PICK S : todo \in Seq(S) /\ \A o \in S : IsOption(o)
  BY DEF AskedInv
<1>3. CASE ApplyOption
  <2>1. todo # <<>> /\ Accepted(Head(todo)) /\ Effect(Head(todo)) /\ todo' = Tail(todo) /\ g' = g
    BY <1>3 DEF ApplyOption
  <2>2. Head(todo) \in S /\ Tail(todo) \in Seq(S)
    BY <1>2, <2>1
  <2>3. IsOption(Head(todo))
    BY <1>2, <2>2
  <2>4. IsRequest(copy'.coverage)
    BY <1>1, <2>1, <2>3, OptionAsks DEF AskedInv
  <2>5. \E R : todo' \in Seq(R) /\ \A o \in R : IsOption(o)
    BY <1>2, <2>1, <2>2
  <2> QED BY <2>1, <2>4, <2>5 DEF AskedInv
<1>4. CASE RefuseOption
  BY <1>4 DEF RefuseOption, AskedInv
<1>5. CASE CommitOptions
  BY <1>5 DEF CommitOptions, AskedInv
<1> QED BY <1>3, <1>4, <1>5 DEF Configuring, ConfigureStep

(* A request in which one of its flags is assigned. *)
LEMMA RequestFlag ==
  ASSUME NEW o, IsRequest(o), NEW v
  PROVE  /\ IsRequest([o EXCEPT !.linux = v]) /\ IsRequest([o EXCEPT !.priv = v])
         /\ [o EXCEPT !.linux = v].linux = v
         /\ [o EXCEPT !.priv = v].linux = o.linux
         /\ [o EXCEPT !.linux = v, !.priv = v] = [[o EXCEPT !.linux = v] EXCEPT !.priv = v]
<1>1. o = [effort |-> o.effort, linux |-> o.linux, priv |-> o.priv, limit |-> o.limit,
           mode |-> o.mode]
  BY DEF IsRequest
<1>2. [o EXCEPT !.linux = v] =
        [effort |-> o.effort, linux |-> v, priv |-> o.priv, limit |-> o.limit, mode |-> o.mode]
  BY <1>1
<1>3. [o EXCEPT !.priv = v] =
        [effort |-> o.effort, linux |-> o.linux, priv |-> v, limit |-> o.limit, mode |-> o.mode]
  BY <1>1
<1>4. \A a, b : IsRequest([effort |-> o.effort, linux |-> a, priv |-> b, limit |-> o.limit,
                           mode |-> o.mode])
  BY DEF IsRequest
<1>5. [o EXCEPT !.linux = v, !.priv = v] = [[o EXCEPT !.linux = v] EXCEPT !.priv = v]
  OBVIOUS
<1> QED BY <1>2, <1>3, <1>4, <1>5

(* On another host nothing that is Linux only is admitted. *)
LEMMA NormalizeFacts ==
  ASSUME NEW o, IsRequest(o)
  PROVE  IsRequest(normalize(o)) /\ (env.host # "linux" => ~ normalize(o).linux)
<1> DEFINE no == FALSE
           yes == TRUE
           z == [o EXCEPT !.linux = no]
<1>1. ~ no
  OBVIOUS
<1>2. normalize(o) \in {[o EXCEPT !.linux = no, !.priv = no], [o EXCEPT !.linux = yes], o}
      /\ (env.host # "linux" => normalize(o) = [o EXCEPT !.linux = no, !.priv = no])
  BY DEF normalize
<1> HIDE DEF no, yes
<1>3. IsRequest(z) /\ z.linux = no /\ [o EXCEPT !.linux = no, !.priv = no] = [z EXCEPT !.priv = no]
  BY RequestFlag
<1>4. IsRequest([o EXCEPT !.linux = yes])
  BY RequestFlag
<1> HIDE DEF z
<1>5. IsRequest([z EXCEPT !.priv = no]) /\ [z EXCEPT !.priv = no].linux = z.linux
  BY <1>3, RequestFlag
<1> QED BY <1>1, <1>2, <1>3, <1>4, <1>5

(* runCoverage fills in the mode and the limit, not the flags. *)
LEMMA InheritFlags ==
  ASSUME NEW o, IsRequest(o)
  PROVE  Inherit(o).linux = o.linux /\ Inherit(o).priv = o.priv
<1>1. o = [effort |-> o.effort, linux |-> o.linux, priv |-> o.priv, limit |-> o.limit,
           mode |-> o.mode]
  BY DEF IsRequest
<1> QED BY <1>1 DEF Inherit

(* A call starts with its flags normalised. *)
LEMMA StartCallNeeds ==
  ASSUME NeedsInv, NEW kind, NEW o, IsRequest(o), StartCall(kind, o)
  PROVE  NeedsInv'
<1>1. /\ UNCHANGED <<env, g, copy, todo, cell>>
      /\ call'.asked = o
      /\ call'.opts = IF kind = "generator" THEN Inherit(normalize(o)) ELSE normalize(o)
      /\ phase' \in {"failed", "probe-xattr", "resolve"}
  BY DEF StartCall, genVars, optionVars, planVars
<1>2. normalize(o)' = normalize(o)
  BY <1>1 DEF normalize
<1>3. call'.opts.linux = normalize(o).linux /\ call'.opts.priv = normalize(o).priv
  BY <1>1, NormalizeFacts, InheritFlags
<1>4. FlagsInv'
  <2>1. normalize(call.asked)' = normalize(o)
    BY <1>1 DEF normalize
  <2> QED BY <1>1, <1>3, <2>1 DEF FlagsInv
<1>5. Scaled' /\ AskedInv'
  BY <1>1 DEF NeedsInv, Scaled, AskedInv
<1>6. PlanInv' /\ CellsInv'
  BY <1>1 DEF NeedsInv, PlanInv, CellsInv
<1> QED BY <1>4, <1>5, <1>6 DEF NeedsInv

(* Outside the enumeration there is nothing to be known of the plan. *)
LEMMA ElsewhereNeeds ==
  ASSUME NeedsInv, UNCHANGED <<env, cell>>, AskedInv',
         phase' \notin {"probe-xattr", "probe-acl", "resolve", "subtree", "cells", "planned"}
  PROVE  NeedsInv'
BY DEF NeedsInv, Scaled, FlagsInv, PlanInv, CellsInv

(* During the enumeration what was asked stays. *)
LEMMA FlagsStay ==
  ASSUME NeedsInv, UNCHANGED <<env, call, g, copy, todo>>,
         phase \in {"probe-xattr", "probe-acl", "resolve", "subtree", "cells", "planned"}
  PROVE  Scaled' /\ AskedInv' /\ FlagsInv'
<1>1. Scaled' /\ AskedInv'
  BY DEF NeedsInv, Scaled, AskedInv
<1>2. normalize(call.asked)' = normalize(call.asked)
  BY DEF normalize
<1> QED BY <1>1, <1>2 DEF NeedsInv, FlagsInv

(* What is enabled and what a subtree offers stay too. *)
LEMMA GatesStay ==
  ASSUME UNCHANGED <<env, call, probes, caps>>
  PROVE  /\ Resolved' = Resolved
         /\ \A s : Enumerated(s)' = Enumerated(s) /\ DimSizes(s)' = DimSizes(s)
         /\ \A s, axis : AxisValues(s, axis)' = AxisValues(s, axis)
         /\ \A e : Needs(e)' = Needs(e)
<1>1. Resolved' = Resolved
  BY DEF Resolved, Admitted, ProbeOk
<1>2. SpecialTypes' = SpecialTypes /\ XAttrVariants' = XAttrVariants /\ MetaValues' = MetaValues
  BY DEF SpecialTypes, XAttrVariants, MetaValues, IfEnabled
<1>3. \A s : Enumerated(s)' = Enumerated(s)
  BY <1>2 DEF Enumerated
<1>4. \A s : Variants(s)' = Variants(s)
  BY <1>2 DEF Variants
<1>5. \A s, axis : AxisValues(s, axis)' = AxisValues(s, axis)
  BY <1>2, <1>4 DEF AxisValues
<1>6. \A s : DimSizes(s)' = DimSizes(s)
  BY <1>5 DEF DimSizes, Axes
<1> QED BY <1>1, <1>3, <1>5, <1>6 DEF Needs

(* A collision fails the call; otherwise the plan grows by what is appended. *)
LEMMA AppendBacked ==
  ASSUME NEW es, NEW next, AppendEntries(es, next), BackedBy(entries, caps), BackedBy(es, caps)
  PROVE  phase' = "failed" \/ (phase' = next /\ BackedBy(entries', caps))
<1>1. CASE phase' = "failed"
  BY <1>1
<1>2. CASE phase' # "failed"
  <2>1. phase' = next /\ entries' = entries \o es
    BY <1>2 DEF AppendEntries
  <2> QED BY <2>1, JoinedBacked
<1> QED BY <1>1, <1>2

(* The builder starts from what the probes found. *)
LEMMA ResolveNeeds ==
  ASSUME NeedsInv, ResolveCapabilities
  PROVE  NeedsInv'
<1>1. /\ UNCHANGED <<env, call, g, copy, todo, probes>> /\ phase = "resolve" /\ phase' = "subtree"
      /\ caps' = Resolved /\ sub' = 1 /\ cell' = [case |-> 1, rep |-> 0]
  BY DEF ResolveCapabilities, callVars, genVars, optionVars
<1>2. Resolved' = Resolved
  BY <1>1 DEF Resolved, Admitted, ProbeOk
<1> DEFINE attrs == {"mode"} \cup (IF "timestamps" \in Resolved THEN {"times"} ELSE {})
           first == CoverageEntry("dir", Base, NoPath, attrs, "none", NoTraits)
           es == <<first>>
           S == {first}
<1>3. entries' = es
  BY DEF ResolveCapabilities
<1>4. Needs(first) \subseteq Resolved
  <2>1. first.kind = "dir" /\ first.attrs = attrs
    BY DEF CoverageEntry
  <2> HIDE DEF first
  <2> QED BY <2>1 DEF Needs, SpecialKinds
<1>5. es \in Seq(S) /\ \A e \in S : Needs(e) \subseteq Resolved
  <2> HIDE DEF first
  <2> QED BY <1>4, ShortSeqs
<1> HIDE DEF es, S
<1>6. BackedBy(es, Resolved)
  BY <1>5 DEF BackedBy
<1>7. BackedBy(entries, caps)'
  BY <1>1, <1>3, <1>6 DEF BackedBy
<1>8. PlanInv' /\ CellsInv'
  BY <1>1, <1>2, <1>7 DEF PlanInv, CellsInv
<1> QED BY <1>1, <1>8, FlagsStay DEF NeedsInv

(* The subtree whose turn it is. *)
LEMMA SubTreeNamed ==
  ASSUME sub \in Nat \ {0}, sub <= 8
  PROVE  SubTree \in SubTreeNames
BY DEF SubTree, SubTrees, SubTreeNames

(* The enumeration of the subtrees keeps to what is enabled. *)
LEMMA SubTreeNeeds ==
  ASSUME NeedsInv, SkipSubTree \/ StartSubTree
  PROVE  NeedsInv'
<1>1. /\ UNCHANGED <<env, call, g, copy, todo, probes, caps>> /\ phase = "subtree"
      /\ sub <= Len(SubTrees)
  BY DEF SkipSubTree, StartSubTree, callVars, genVars, optionVars
<1>2. caps = Resolved /\ BackedBy(entries, caps) /\ sub \in Nat \ {0} /\ sub <= 8
  BY <1>1 DEF NeedsInv, PlanInv, SubTrees
<1>3. Scaled' /\ AskedInv' /\ FlagsInv'
  BY <1>1, FlagsStay
<1>4. caps' = caps /\ Resolved' = Resolved
  BY <1>1, GatesStay
<1>5. BackedBy(<<DirEntry(RootOf(SubTree), {"mode"}, NoTraits)>>, caps)
  BY PlainBacked, DirBacked, ListsBacked
<1>6. CASE SkipSubTree
  <2>1. AppendEntries(<<DirEntry(RootOf(SubTree), {"mode"}, NoTraits)>>, "subtree")
        /\ sub' = sub + 1 /\ cell' = cell
    BY <1>6 DEF SkipSubTree
  <2>2. phase' = "failed" \/ (phase' = "subtree" /\ BackedBy(entries', caps))
    BY <1>2, <1>5, <2>1, AppendBacked
  <2>3. BackedBy(entries', caps) => BackedBy(entries, caps)'
    BY <1>4 DEF BackedBy, Needs
  <2>4. PlanInv' /\ CellsInv'
    BY <1>2, <1>4, <2>1, <2>2, <2>3 DEF PlanInv, CellsInv, NeedsInv
  <2> QED BY <1>3, <2>4 DEF NeedsInv
<1>7. CASE StartSubTree
  <2>1. /\ AppendEntries(<<DirEntry(RootOf(SubTree), {"mode"}, NoTraits)>> \o Anchors, "cells")
        /\ Enumerated(SubTree) /\ Begin(DimSizes(SubTree))
        /\ sub' = sub /\ cell' = [case |-> 1, rep |-> 0]
    BY <1>7 DEF StartSubTree
  <2>2. BackedBy(Anchors, caps)
    <3>1. CASE SubTree = "symlinks"
      <4>1. "symlinks" \in caps
        BY <2>1, <3>1 DEF Enumerated
      <4>2. /\ Needs(FileEntry(AnchorFile, {"mode"}, NoTraits)) \subseteq caps
            /\ Needs(LinkEntry(AnchorLink, AnchorFile, "relative", NoTraits)) \subseteq caps
        BY <4>1, PlainBacked, DirBacked, LinkBacked
      <4>3. Anchors = <<FileEntry(AnchorFile, {"mode"}, NoTraits),
                        LinkEntry(AnchorLink, AnchorFile, "relative", NoTraits)>>
        BY <3>1 DEF Anchors
      <4> QED BY <4>2, <4>3, ListsBacked
    <3>2. CASE SubTree # "symlinks"
      BY <3>2, ListsBacked DEF Anchors
    <3> QED BY <3>1, <3>2
  <2>3. phase' = "failed" \/ (phase' = "cells" /\ BackedBy(entries', caps))
    BY <1>2, <1>5, <2>1, <2>2, JoinedBacked, AppendBacked
  <2>4. BackedBy(entries', caps) => BackedBy(entries, caps)'
    BY <1>4 DEF BackedBy, Needs
  <2>5. Enumerated(SubTree)' /\ (dimSizes = DimSizes(SubTree))'
    <3>1. SubTree' = SubTree /\ dimSizes' = DimSizes(SubTree)
      BY <2>1 DEF SubTree, Begin
    <3> QED BY <1>1, <2>1, <3>1, GatesStay
  <2>6. PlanInv' /\ CellsInv'
    BY <1>2, <1>4, <2>1, <2>3, <2>4, <2>5 DEF PlanInv, CellsInv
  <2> QED BY <1>3, <2>6 DEF NeedsInv
<1> QED BY <1>6, <1>7

(* The cells of a subtree keep to what is enabled: the cases are in range. *)
LEMMA CellsNeeds ==
  ASSUME NeedsInv, PairInv, SearchCases \/ EmitCell \/ EndSubTree
  PROVE  NeedsInv'
<1>1. UNCHANGED <<env, call, g, copy, todo, probes, caps>> /\ phase = "cells"
  BY DEF SearchCases, EmitCell, EndSubTree, callVars, genVars, optionVars, planVars
<1>2. /\ caps = Resolved /\ BackedBy(entries, caps) /\ sub \in Nat \ {0} /\ sub <= 8
      /\ Enumerated(SubTree) /\ dimSizes = DimSizes(SubTree)
      /\ cell = [case |-> cell.case, rep |-> cell.rep] /\ cell.case \in Nat \ {0}
  BY <1>1 DEF NeedsInv, PlanInv, CellsInv
<1>3. Scaled' /\ AskedInv' /\ FlagsInv'
  BY <1>1, FlagsStay
<1>4. caps' = caps /\ Resolved' = Resolved
  BY <1>1, GatesStay
<1>5. BackedBy(entries', caps) => BackedBy(entries, caps)'
  BY <1>4 DEF BackedBy, Needs
<1>6. ASSUME sub' = sub, dimSizes' = dimSizes
      PROVE  Enumerated(SubTree)' /\ (dimSizes = DimSizes(SubTree))'
  <2>1. SubTree' = SubTree
    BY <1>6 DEF SubTree
  <2> QED BY <1>1, <1>2, <1>6, <2>1, GatesStay
<1>7. CASE SearchCases
  <2>1. UNCHANGED <<phase, entries, sub, cell>> /\ dimSizes' = dimSizes
    BY <1>7 DEF SearchCases, planVars, PairStep, SeedCase, FillSlot, FinishCase, ReturnCases
  <2>2. PlanInv' /\ CellsInv'
    BY <1>1, <1>2, <1>4, <1>5, <1>6, <2>1 DEF PlanInv, CellsInv
  <2> QED BY <1>3, <2>2 DEF NeedsInv
<1>8. CASE EndSubTree
  <2>1. UNCHANGED <<entries, cell>> /\ phase' = "subtree" /\ sub' = sub + 1
    BY <1>8 DEF EndSubTree
  <2>2. PlanInv' /\ CellsInv'
    BY <1>2, <1>4, <1>5, <2>1 DEF PlanInv, CellsInv
  <2> QED BY <1>3, <2>2 DEF NeedsInv
<1>9. CASE EmitCell
  <2> DEFINE case == cases[cell.case]
             n == (cell.case - 1) * Multiplier(call.opts.effort) + cell.rep
             es == CellEntries(SubTree, Traits(SubTree, case), n)
  <2>1. /\ AppendEntries(es, "cells") /\ cell.case <= Len(cases) /\ sub' = sub
        /\ dimSizes' = dimSizes
        /\ \/ cell' = [cell EXCEPT !.rep = cell.rep + 1]
           \/ cell' = [case |-> cell.case + 1, rep |-> 0]
    BY <1>9 DEF EmitCell, pairVars
  <2>2. cell.case \in DOMAIN cases
    BY <1>2, <2>1 DEF PairInv
  <2>3. /\ DOMAIN case = DOMAIN dimSizes
        /\ \A d \in DOMAIN dimSizes : case[d] \in 0 .. (dimSizes[d] - 1)
    BY <2>2 DEF PairInv, CasesEarnTheirPlace, Values
  <2> HIDE DEF case, n
  <2>4. ASSUME NEW d \in DOMAIN Axes(SubTree)
        PROVE  case[d] \in 0 .. (Len(AxisValues(SubTree, Axes(SubTree)[d])) - 1)
    <3>1. d \in DOMAIN dimSizes /\ dimSizes[d] = Len(AxisValues(SubTree, Axes(SubTree)[d]))
      BY <1>2 DEF DimSizes
    <3> QED BY <2>3, <3>1
  <2>5. BackedBy(es, caps)
    BY <1>2, <2>4, SubTreeNamed, CellBacked DEF NeedsInv
  <2> HIDE DEF es
  <2>6. phase' = "failed" \/ (phase' = "cells" /\ BackedBy(entries', caps))
    BY <1>2, <2>1, <2>5, AppendBacked
  <2>7. cell' = [case |-> cell'.case, rep |-> cell'.rep] /\ cell'.case \in Nat \ {0}
    BY <1>2, <2>1
  <2>8. PlanInv' /\ CellsInv'
    BY <1>2, <1>4, <1>5, <1>6, <2>1, <2>6, <2>7 DEF PlanInv, CellsInv
  <2> QED BY <1>3, <2>8 DEF NeedsInv
<1> QED BY <1>7, <1>8, <1>9

(* A probe and the return of the enumerator change neither plan nor request. *)
LEMMA AroundNeeds ==
  ASSUME NeedsInv, ProbeXAttrSupport \/ ProbeACLSupport \/ Planned
  PROVE  NeedsInv'
<1>1. /\ UNCHANGED <<env, call, g, copy, todo, caps, entries, sub, cell>>
      /\ phase \in {"probe-xattr", "probe-acl", "subtree"}
  BY DEF ProbeXAttrSupport, ProbeACLSupport, Planned, Probe, callVars, genVars, optionVars, planVars
<1>2. Scaled' /\ AskedInv' /\ FlagsInv'
  BY <1>1, FlagsStay
<1>3. phase' # "cells" /\ CellsInv'
  BY <1>1 DEF ProbeXAttrSupport, ProbeACLSupport, Planned, NeedsInv, CellsInv
<1>4. PlanInv'
  <2>1. CASE ProbeXAttrSupport \/ ProbeACLSupport
    BY <2>1 DEF ProbeXAttrSupport, ProbeACLSupport, PlanInv
  <2>2. CASE Planned
    <3>1. phase = "subtree" /\ probes' = probes
      BY <2>2 DEF Planned
    <3>2. caps = Resolved /\ BackedBy(entries, caps) /\ sub \in Nat \ {0}
      BY <3>1 DEF NeedsInv, PlanInv
    <3>3. Resolved' = Resolved /\ (BackedBy(entries, caps) => BackedBy(entries, caps)')
      BY <1>1, <3>1, GatesStay DEF BackedBy, Needs
    <3> QED BY <1>1, <3>2, <3>3 DEF PlanInv
  <2> QED BY <2>1, <2>2
<1> QED BY <1>2, <1>3, <1>4 DEF NeedsInv

(* So do the end of a call and a run at random. *)
LEMMA EndNeeds ==
  ASSUME NeedsInv, ReportSpec \/ OverLimit \/ PlanAtRandom \/ RunRandom
  PROVE  NeedsInv'
<1>1. UNCHANGED <<env, cell, g, copy, todo>>
  BY DEF ReportSpec, OverLimit, PlanAtRandom, RunRandom, callVars, genVars, optionVars, planVars
<1>2. phase' \in {"returned", "failed", "planning"}
  BY DEF ReportSpec, OverLimit, PlanAtRandom, RunRandom, ApplyTo
<1>3. AskedInv'
  BY <1>1 DEF NeedsInv, AskedInv
<1> QED BY <1>1, <1>2, <1>3, ElsewhereNeeds

(* The mode and the limit of a run are no part of the request. *)
LEMMA ApplyNeeds ==
  ASSUME CoverageInv, NeedsInv, StartApply \/ ApplyEnds
  PROVE  NeedsInv'
<1>1. IsGenerator(g)
  BY DEF CoverageInv, GeneratorsSound
<1>2. /\ UNCHANGED <<env, cell, copy, todo>> /\ phase' \in {"applying", "returned", "failed"}
      /\ g' = g \/ \E m, n : g' = Swap(g, m, n)
  BY DEF StartApply, ApplyEnds, ApplyTo, Restored, Swap, callVars, planVars
<1>3. g'.coverage = g.coverage
  BY <1>1, <1>2, SwapCoverage
<1>4. AskedInv'
  BY <1>2, <1>3 DEF NeedsInv, AskedInv
<1> QED BY <1>2, <1>4, ElsewhereNeeds

(* Configure runs between calls. *)
LEMMA ConfigureNeeds ==
  ASSUME CoverageInv, NeedsInv, Configuring
  PROVE  NeedsInv'
<1>1. UNCHANGED <<env, cell, phase>> /\ config = "applying"
  BY DEF Configuring, ConfigureStep, ApplyOption, RefuseOption, CommitOptions, callVars, planVars
<1>2. phase \in {"returned", "failed"}
  BY <1>1 DEF CoverageInv, OneAtATime
<1>3. AskedInv'
  BY ConfigureAsks DEF NeedsInv
<1> QED BY <1>1, <1>2, <1>3, ElsewhereNeeds

(* Configure is called with options that are typed. *)
LEMMA CallConfigureNeeds ==
  ASSUME NeedsInv, NEW options \in env.options, CallConfigure(options)
  PROVE  NeedsInv'
<1>1. /\ UNCHANGED <<env, cell, phase, g>> /\ phase \in {"returned", "failed"}
      /\ copy' = g /\ todo' = options
  BY DEF CallConfigure, StartConfigure, Idle, callVars, planVars
<1>2. IsList(options) /\ \A k \in DOMAIN options : IsOption(options[k])
  BY ScaleFacts DEF NeedsInv
<1> DEFINE S == {options[k] : k \in DOMAIN options}
<1>3. (\A k \in DOMAIN options : options[k] \in S) /\ \A o \in S : IsOption(o)
  BY <1>2
<1>4. options \in Seq(S)
  <2> HIDE DEF S
  <2> QED BY <1>2, <1>3, ListIsSeq
<1>5. \E R : todo' \in Seq(R) /\ \A o \in R : IsOption(o)
  BY <1>1, <1>3, <1>4
<1>6. AskedInv'
  BY <1>1, <1>5 DEF NeedsInv, AskedInv
<1> QED BY <1>1, <1>6, ElsewhereNeeds

(* Nothing is planned and nothing is asked at first. *)
LEMMA NeedsInvInit == CoverageInit => NeedsInv
<1> SUFFICES ASSUME CoverageInit PROVE NeedsInv
  OBVIOUS
<1>1. /\ Scaled /\ phase = "returned" /\ cell = [case |-> 1, rep |-> 0]
      /\ g = NewGenerator /\ copy = NewGenerator /\ todo = <<>>
  BY DEF CoverageInit, OptionsInit, Scaled
<1>2. IsRequest(NoCoverage) /\ NewGenerator.coverage = NoCoverage
  BY DEF IsRequest, NoCoverage, NewGenerator
<1>3. \E S : todo \in Seq(S) /\ \A o \in S : IsOption(o)
  <2>1. todo \in Seq({}) /\ \A o \in {} : IsOption(o)
    BY <1>1
  <2> QED BY <2>1
<1>4. AskedInv
  BY <1>1, <1>2, <1>3 DEF AskedInv
<1>5. FlagsInv /\ PlanInv /\ CellsInv
  BY <1>1 DEF FlagsInv, PlanInv, CellsInv
<1> QED BY <1>1, <1>4, <1>5 DEF NeedsInv

(* Every step keeps the plan within what was resolved. *)
LEMMA NeedsInvStep ==
  ASSUME NeedsInv, CoverageInv, PairInv, [CoverageNext]_coverageVars
  PROVE  NeedsInv'
<1>1. CASE CallStep
  BY <1>1, AroundNeeds, ResolveNeeds, SubTreeNeeds, CellsNeeds, EndNeeds, ApplyNeeds,
     ConfigureNeeds DEF CallStep
<1>2. CASE \E c \in env.calls : StartCall(c.kind, c.opts)
  <2>1. PICK c \in env.calls : StartCall(c.kind, c.opts)
    BY <1>2
  <2>2. IsRequest(c.opts)
    BY ScaleFacts DEF NeedsInv
  <2> QED BY <2>1, <2>2, StartCallNeeds
<1>3. CASE \E options \in env.options : CallConfigure(options)
  BY <1>3, CallConfigureNeeds
<1>4. CASE RunCoverage
  BY <1>4, StartCallNeeds DEF RunCoverage, NeedsInv, AskedInv
<1>5. CASE RunRandom
  BY <1>5, EndNeeds
<1>6. CASE UNCHANGED coverageVars
  <2>1. UNCHANGED <<env, call, g, copy, todo, probes, caps, entries, sub, cell, phase, dimSizes>>
    BY <1>6 DEF coverageVars, callVars, genVars, optionVars, planVars, pairVars
  <2>2. normalize(call.asked)' = normalize(call.asked)
    BY <2>1 DEF normalize
  <2>3. Scaled' /\ AskedInv' /\ FlagsInv'
    BY <2>1, <2>2 DEF NeedsInv, Scaled, AskedInv, FlagsInv
  <2>4. Resolved' = Resolved /\ (BackedBy(entries, caps) => BackedBy(entries, caps)')
    BY <2>1, GatesStay DEF BackedBy, Needs
  <2>5. SubTree' = SubTree
    BY <2>1 DEF SubTree
  <2>6. Enumerated(SubTree)' = Enumerated(SubTree) /\ DimSizes(SubTree)' = DimSizes(SubTree)
    BY <2>1, <2>5, GatesStay
  <2>7. PlanInv' /\ CellsInv'
    BY <2>1, <2>4, <2>6 DEF NeedsInv, PlanInv, CellsInv
  <2> QED BY <2>3, <2>7 DEF NeedsInv
<1> QED BY <1>1, <1>2, <1>3, <1>4, <1>5, <1>6 DEF CoverageNext

(* What was resolved was admitted, and a probe found it. *)
LEMMA ResolvedSuffices == NeedsInv => NeedsOnlyResolved
<1> SUFFICES ASSUME NeedsInv, phase = "planned", NEW k \in DOMAIN entries,
                    NEW id \in Needs(entries[k])
             PROVE  /\ Admitted(id, normalize(call.asked))
                    /\ id \in LinuxOnly => env.host = "linux"
                    /\ ProbeOk(id)
  BY DEF NeedsOnlyResolved
<1>1. caps = Resolved /\ BackedBy(entries, caps)
  BY DEF NeedsInv, PlanInv
<1>2. id \in Resolved
  <2>1. PICK S : entries \in Seq(S) /\ \A e \in S : Needs(e) \subseteq caps
    BY <1>1 DEF BackedBy
  <2>2. entries[k] \in S
    BY <2>1
  <2> QED BY <1>1, <2>1, <2>2
<1>3. Admitted(id, call.opts) /\ ProbeOk(id)
  BY <1>2 DEF Resolved
<1>4. /\ IsRequest(call.asked)
      /\ call.opts.linux = normalize(call.asked).linux
      /\ call.opts.priv = normalize(call.asked).priv
  BY DEF NeedsInv, FlagsInv
<1>5. Admitted(id, normalize(call.asked))
  BY <1>3, <1>4 DEF Admitted
<1>6. id \in LinuxOnly => env.host = "linux"
  BY <1>4, <1>5, NormalizeFacts DEF Admitted
<1> QED BY <1>3, <1>5, <1>6

(* The plan keeps within what was resolved while it grows. *)
LEMMA NeedsInvHolds == CoverageSpec => []NeedsInv /\ []PairInv
<1>1. CoverageSpec => []PairInv
  BY CoverageImplementsPairwise, PairInvariant, PTL
<1>2. NeedsInv /\ CoverageInv /\ PairInv /\ [CoverageNext]_coverageVars => NeedsInv'
  BY NeedsInvStep
<1> QED BY <1>1, <1>2, NeedsInvInit, CoverageInvHolds, PTL DEF CoverageSpec

(***************************************************************************)
(* A finished coverage plan asks for nothing the options do not admit, the *)
(* host does not have or a probe did not find, at any scale and whatever   *)
(* calls and configurations came before (coverage_capabilities.go, the     *)
(* gates of coverage_enumerator.go).                                       *)
(***************************************************************************)
THEOREM CoverageNeedsOnlyResolved == CoverageSpec => []NeedsOnlyResolved
  BY NeedsInvHolds, ResolvedSuffices, PTL

-----------------------------------------------------------------------------
(* Part five: the plan is one the apply pipeline takes *)

(* An entry that the apply pipeline takes. *)
IsEntry(e) ==
  /\ e.kind \in EntryKinds /\ e.path \in Paths /\ e.target \in Paths \cup {NoPath}
  /\ e.attrs \in SUBSET Attrs /\ e.via \in Origins

(* A list of them. *)
Listed(pl) == \E S : pl \in Seq(S) /\ \A e \in S : IsEntry(e)

(* The plan made so far. *)
Sound(pl) ==
  /\ Listed(pl) /\ pl # <<>>
  /\ RootFirst(pl) /\ PathsDistinct(pl) /\ ParentsFirst(pl) /\ LinksBackward(pl)

(* The names a path has by hard links, and the groups of hard links. *)
LinksTo(pl, p) ==
  {pl[k].path : k \in {j \in DOMAIN pl : pl[j].kind = "hardlink" /\ pl[j].target = p}}
GroupsOf(pl) == {{p} \cup LinksTo(pl, p) : p \in {q \in PathsOf(pl) : LinksTo(pl, q) # {}}}

(***************************************************************************)
(* What the enumerators append at once: an entry and, if it is a           *)
(* directory, entries in it, whose hard links stay among themselves.       *)
(***************************************************************************)
Block(w, es) ==
  /\ Listed(es) /\ es # <<>>
  /\ es[1].path = w /\ es[1].kind # "hardlink"
  /\ \A k \in 2 .. Len(es) : es[1].kind = "dir" /\ \E m \in Int : es[k].path = w \o <<m>>
  /\ PathsDistinct(es) /\ LinksBackward(es)

(* Nothing is planned at a path or in it. *)
Unused(pl, w) == \A p \in PathsOf(pl) : p # w /\ \A m \in Int : p # w \o <<m>>

(* There is a directory at a path. *)
HasDir(pl, w) == \E k \in DOMAIN pl : pl[k].kind = "dir" /\ pl[k].path = w

-----------------------------------------------------------------------------
(* Paths and joined lists *)

(* A path below another one. *)
LEMMA Below ==
  ASSUME NEW w \in Paths, NEW m \in Int
  PROVE  /\ w \o <<m>> \in Paths /\ w \o <<m>> # Base /\ w \o <<m>> # w
         /\ Dir[w \o <<m>>] = w
         /\ Len(w \o <<m>>) = Len(w) + 1 /\ (w \o <<m>>)[Len(w) + 1] = m
         /\ \A i \in 1 .. Len(w) : (w \o <<m>>)[i] = w[i]
<1> DEFINE q == w \o <<m>>
<1>1. /\ q \in Seq(Int) /\ Len(q) = Len(w) + 1 /\ q[Len(w) + 1] = m
      /\ \A i \in 1 .. Len(w) : q[i] = w[i]
      /\ Len(w) \in Nat /\ w \in Seq(Int)
  BY DEF Paths
<1> HIDE DEF q
<1>2. q # Base /\ q # w
  BY <1>1 DEF Base
<1>3. Dir[q] = SubSeq(q, 1, Len(w))
  <2>1. Len(q) - 1 = Len(w)
    BY <1>1
  <2> QED BY <1>1, <1>2, <2>1 DEF Dir, Paths
<1>4. SubSeq(q, 1, Len(w)) = w
  <2> DEFINE r == SubSeq(q, 1, Len(w))
  <2>1. /\ r \in Seq(Int) /\ Len(r) = Len(w)
        /\ \A i \in 1 .. Len(w) : r[i] = q[i]
    BY <1>1
  <2> HIDE DEF r
  <2>2. \A i \in 1 .. Len(r) : r[i] = w[i]
    BY <1>1, <2>1
  <2>3. r = w
    BY <1>1, <2>1, <2>2, SeqEqual
  <2> QED BY <2>3 DEF r
<1> QED BY <1>1, <1>2, <1>3, <1>4 DEF q, Paths

(* Two lists that are joined. *)
LEMMA Joined ==
  ASSUME NEW a, NEW b, Listed(a), Listed(b)
  PROVE  /\ Listed(a \o b)
         /\ Len(a) \in Nat /\ Len(b) \in Nat /\ DOMAIN a = 1 .. Len(a) /\ DOMAIN b = 1 .. Len(b)
         /\ Len(a \o b) = Len(a) + Len(b) /\ DOMAIN (a \o b) = 1 .. (Len(a) + Len(b))
         /\ \A k \in 1 .. Len(a) : (a \o b)[k] = a[k]
         /\ \A k \in 1 .. Len(b) : (a \o b)[Len(a) + k] = b[k]
         /\ \A k \in 1 .. (Len(a) + Len(b)) :
              k \in 1 .. Len(a) \/ \E j \in 1 .. Len(b) : k = Len(a) + j
<1>1. PICK S : a \in Seq(S) /\ \A e \in S : IsEntry(e)
  BY DEF Listed
<1>2. PICK T : b \in Seq(T) /\ \A e \in T : IsEntry(e)
  BY DEF Listed
<1>3. a \in Seq(S \cup T) /\ b \in Seq(S \cup T)
  BY <1>1, <1>2
<1>4. a \o b \in Seq(S \cup T)
  BY <1>3
<1>5. Listed(a \o b)
  BY <1>1, <1>2, <1>4 DEF Listed
<1>6. /\ Len(a) \in Nat /\ Len(b) \in Nat /\ DOMAIN a = 1 .. Len(a) /\ DOMAIN b = 1 .. Len(b)
      /\ Len(a \o b) = Len(a) + Len(b) /\ DOMAIN (a \o b) = 1 .. (Len(a) + Len(b))
      /\ \A k \in 1 .. Len(a) : (a \o b)[k] = a[k]
      /\ \A k \in 1 .. Len(b) : (a \o b)[Len(a) + k] = b[k]
  BY <1>3
<1>7. ASSUME NEW k \in 1 .. (Len(a) + Len(b)), k \notin 1 .. Len(a)
      PROVE  \E j \in 1 .. Len(b) : k = Len(a) + j
  <2>1. k - Len(a) \in 1 .. Len(b) /\ k = Len(a) + (k - Len(a))
    BY <1>6, <1>7
  <2> QED BY <2>1
<1> QED BY <1>5, <1>6, <1>7

(* What is in a list. *)
LEMMA InList ==
  ASSUME NEW pl, Listed(pl)
  PROVE  /\ Len(pl) \in Nat /\ DOMAIN pl = 1 .. Len(pl)
         /\ \A k \in DOMAIN pl : IsEntry(pl[k])
<1>1. PICK S : pl \in Seq(S) /\ \A e \in S : IsEntry(e)
  BY DEF Listed
<1> QED BY <1>1

(* The paths of joined lists. *)
LEMMA JoinedPaths ==
  ASSUME NEW a, NEW b, Listed(a), Listed(b)
  PROVE  PathsOf(a \o b) = PathsOf(a) \cup PathsOf(b)
<1> DEFINE c == a \o b
<1>1. /\ Len(a) \in Nat /\ Len(b) \in Nat /\ DOMAIN a = 1 .. Len(a) /\ DOMAIN b = 1 .. Len(b)
      /\ DOMAIN c = 1 .. (Len(a) + Len(b))
      /\ \A k \in 1 .. Len(a) : c[k] = a[k]
      /\ \A k \in 1 .. Len(b) : c[Len(a) + k] = b[k]
      /\ \A k \in 1 .. (Len(a) + Len(b)) :
           k \in 1 .. Len(a) \/ \E j \in 1 .. Len(b) : k = Len(a) + j
  BY Joined
<1> HIDE DEF c
<1>2. ASSUME NEW k \in DOMAIN c PROVE c[k].path \in PathsOf(a) \cup PathsOf(b)
  <2>1. CASE k \in 1 .. Len(a)
    BY <1>1, <2>1 DEF PathsOf
  <2>2. CASE \E j \in 1 .. Len(b) : k = Len(a) + j
    BY <1>1, <2>2 DEF PathsOf
  <2> QED BY <1>1, <1>2, <2>1, <2>2
<1>3. ASSUME NEW k \in DOMAIN a PROVE a[k].path \in PathsOf(c)
  <2>1. k \in DOMAIN c /\ c[k] = a[k]
    BY <1>1
  <2> QED BY <2>1 DEF PathsOf
<1>4. ASSUME NEW k \in DOMAIN b PROVE b[k].path \in PathsOf(c)
  <2>1. Len(a) + k \in DOMAIN c /\ c[Len(a) + k] = b[k]
    BY <1>1
  <2> QED BY <2>1 DEF PathsOf
<1>5. PathsOf(c) \subseteq PathsOf(a) \cup PathsOf(b)
  BY <1>2 DEF PathsOf
<1>6. PathsOf(a) \subseteq PathsOf(c) /\ PathsOf(b) \subseteq PathsOf(c)
  BY <1>3, <1>4 DEF PathsOf
<1> QED BY <1>5, <1>6 DEF c

(* The hard links in joined lists. *)
LEMMA JoinedLinks ==
  ASSUME NEW a, NEW b, Listed(a), Listed(b), NEW p
  PROVE  LinksTo(a \o b, p) = LinksTo(a, p) \cup LinksTo(b, p)
<1> DEFINE c == a \o b
           Is(e) == e.kind = "hardlink" /\ e.target = p
<1>0. \A pl : LinksTo(pl, p) = {pl[k].path : k \in {j \in DOMAIN pl : Is(pl[j])}}
  BY DEF LinksTo
<1>1. /\ Len(a) \in Nat /\ Len(b) \in Nat /\ DOMAIN a = 1 .. Len(a) /\ DOMAIN b = 1 .. Len(b)
      /\ DOMAIN c = 1 .. (Len(a) + Len(b))
      /\ \A k \in 1 .. Len(a) : c[k] = a[k]
      /\ \A k \in 1 .. Len(b) : c[Len(a) + k] = b[k]
      /\ \A k \in 1 .. (Len(a) + Len(b)) :
           k \in 1 .. Len(a) \/ \E j \in 1 .. Len(b) : k = Len(a) + j
  BY Joined
<1> HIDE DEF c, Is
<1>2. ASSUME NEW k \in DOMAIN c, Is(c[k]) PROVE c[k].path \in LinksTo(a, p) \cup LinksTo(b, p)
  <2>1. CASE k \in 1 .. Len(a)
    <3>1. k \in DOMAIN a /\ c[k] = a[k]
      BY <1>1, <2>1
    <3>2. Is(a[k])
      BY <1>2, <3>1
    <3> QED BY <1>0, <3>1, <3>2
  <2>2. CASE \E j \in 1 .. Len(b) : k = Len(a) + j
    <3>1. PICK j \in DOMAIN b : c[k] = b[j]
      BY <1>1, <2>2
    <3>2. Is(b[j])
      BY <1>2, <3>1
    <3> QED BY <1>0, <3>1, <3>2
  <2> QED BY <1>1, <1>2, <2>1, <2>2
<1>3. ASSUME NEW k \in DOMAIN a, Is(a[k]) PROVE a[k].path \in LinksTo(c, p)
  <2>1. k \in DOMAIN c /\ c[k] = a[k]
    BY <1>1
  <2> QED BY <1>0, <1>3, <2>1
<1>4. ASSUME NEW k \in DOMAIN b, Is(b[k]) PROVE b[k].path \in LinksTo(c, p)
  <2>1. Len(a) + k \in DOMAIN c /\ c[Len(a) + k] = b[k]
    BY <1>1
  <2> QED BY <1>0, <1>4, <2>1
<1>5. LinksTo(c, p) \subseteq LinksTo(a, p) \cup LinksTo(b, p)
  BY <1>0, <1>2
<1>6. LinksTo(a, p) \subseteq LinksTo(c, p) /\ LinksTo(b, p) \subseteq LinksTo(c, p)
  BY <1>0, <1>3, <1>4
<1> QED BY <1>5, <1>6 DEF c

(* The hard links of a list whose links stay in it. *)
LEMMA LinksInside ==
  ASSUME NEW pl, Listed(pl), LinksBackward(pl), NEW p, LinksTo(pl, p) # {}
  PROVE  p \in PathsOf(pl)
<1>1. PICK j \in DOMAIN pl : pl[j].kind = "hardlink" /\ pl[j].target = p
  BY DEF LinksTo
<1>2. PICK k \in 1 .. (j - 1) : pl[k].path = p
  BY <1>1 DEF LinksBackward
<1>3. k \in DOMAIN pl
  BY <1>1, <1>2, InList
<1> QED BY <1>2, <1>3 DEF PathsOf

(* The groups of joined lists. *)
LEMMA JoinedGroups ==
  ASSUME NEW a, NEW b, Listed(a), Listed(b), LinksBackward(a), LinksBackward(b),
         \A p \in PathsOf(a) : p \notin PathsOf(b)
  PROVE  GroupsOf(a \o b) = GroupsOf(a) \cup GroupsOf(b)
<1> DEFINE c == a \o b
           A == PathsOf(a)
           B == PathsOf(b)
           X(p) == LinksTo(a, p)
           Y(p) == LinksTo(b, p)
           Z(p) == LinksTo(c, p)
<1>1. PathsOf(c) = A \cup B /\ \A p : Z(p) = X(p) \cup Y(p)
  BY JoinedPaths, JoinedLinks
<1>2. (\A p : X(p) # {} => p \in A) /\ \A p : Y(p) # {} => p \in B
  BY LinksInside
<1>3. \A p \in A : p \notin B
  OBVIOUS
<1>4. /\ GroupsOf(c) = {{p} \cup Z(p) : p \in {q \in PathsOf(c) : Z(q) # {}}}
      /\ GroupsOf(a) = {{p} \cup X(p) : p \in {q \in A : X(q) # {}}}
      /\ GroupsOf(b) = {{p} \cup Y(p) : p \in {q \in B : Y(q) # {}}}
  BY DEF GroupsOf
<1> HIDE DEF c, A, B, X, Y, Z
<1>5. ASSUME NEW p \in A PROVE Z(p) = X(p)
  BY <1>1, <1>2, <1>3
<1>6. ASSUME NEW p \in B PROVE Z(p) = Y(p)
  BY <1>1, <1>2, <1>3
<1>7. GroupsOf(c) \subseteq GroupsOf(a) \cup GroupsOf(b)
  BY <1>1, <1>4, <1>5, <1>6
<1>8. GroupsOf(a) \subseteq GroupsOf(c)
  BY <1>1, <1>4, <1>5
<1>9. GroupsOf(b) \subseteq GroupsOf(c)
  BY <1>1, <1>4, <1>6
<1> QED BY <1>7, <1>8, <1>9 DEF c

(* A block that is appended where nothing is leaves a plan that is sound. *)
LEMMA BlockJoins ==
  ASSUME NEW pl, NEW es, NEW w \in Paths, Sound(pl), Block(w, es), Unused(pl, w),
         w # Base, HasDir(pl, Dir[w])
  PROVE  /\ \A k \in DOMAIN es : es[k].path \notin PathsOf(pl)
         /\ Sound(pl \o es)
         /\ PathsOf(pl \o es) = PathsOf(pl) \cup PathsOf(es)
         /\ GroupsOf(pl \o es) = GroupsOf(pl) \cup GroupsOf(es)
<1> DEFINE c == pl \o es
<1>0. Listed(pl) /\ Listed(es)
  BY DEF Sound, Block
<1>1. /\ Listed(c)
      /\ Len(pl) \in Nat /\ Len(es) \in Nat /\ DOMAIN pl = 1 .. Len(pl) /\ DOMAIN es = 1 .. Len(es)
      /\ Len(c) = Len(pl) + Len(es) /\ DOMAIN c = 1 .. (Len(pl) + Len(es))
      /\ \A k \in 1 .. Len(pl) : c[k] = pl[k]
      /\ \A k \in 1 .. Len(es) : c[Len(pl) + k] = es[k]
      /\ \A k \in 1 .. (Len(pl) + Len(es)) :
           k \in 1 .. Len(pl) \/ \E j \in 1 .. Len(es) : k = Len(pl) + j
  BY <1>0, Joined
<1>2. Len(pl) # 0 /\ Len(es) # 0
  <2>1. PICK S : pl \in Seq(S)
    BY <1>0 DEF Listed
  <2>2. PICK T : es \in Seq(T)
    BY <1>0 DEF Listed
  <2> QED BY <2>1, <2>2 DEF Sound, Block
<1>3. PathsOf(c) = PathsOf(pl) \cup PathsOf(es)
  BY <1>0, JoinedPaths
<1> HIDE DEF c
<1>4. ASSUME NEW k \in DOMAIN es
      PROVE  es[k].path \notin PathsOf(pl)
  <2>1. CASE k = 1
    BY <2>1 DEF Block, Unused
  <2>2. CASE k # 1
    <3>1. k \in 2 .. Len(es)
      BY <1>1, <2>2
    <3>2. PICK m \in Int : es[k].path = w \o <<m>>
      BY <3>1 DEF Block
    <3> QED BY <3>2 DEF Unused
  <2> QED BY <2>1, <2>2
<1>5. GroupsOf(c) = GroupsOf(pl) \cup GroupsOf(es)
  <2>1. \A p \in PathsOf(pl) : p \notin PathsOf(es)
    BY <1>4 DEF PathsOf
  <2> QED BY <1>0, <2>1, JoinedGroups DEF Sound, Block, c
<1>6. RootFirst(c)
  <2>1. 1 \in 1 .. Len(pl) /\ c[1] = pl[1]
    BY <1>1, <1>2
  <2> QED BY <2>1 DEF RootFirst, Sound
<1>7. PathsDistinct(c)
  <2>1. ASSUME NEW j \in 1 .. Len(pl), NEW k \in 1 .. Len(es)
        PROVE  c[j].path # c[Len(pl) + k].path
    <3>1. c[j] = pl[j] /\ c[Len(pl) + k] = es[k] /\ j \in DOMAIN pl /\ k \in DOMAIN es
      BY <1>1
    <3>2. pl[j].path \in PathsOf(pl)
      BY <3>1 DEF PathsOf
    <3> QED BY <1>4, <3>1, <3>2
  <2>2. ASSUME NEW j \in 1 .. Len(pl), NEW k \in 1 .. Len(pl), c[j].path = c[k].path
        PROVE  j = k
    BY <1>1, <2>2 DEF Sound, PathsDistinct
  <2>3. ASSUME NEW j \in 1 .. Len(es), NEW k \in 1 .. Len(es),
               c[Len(pl) + j].path = c[Len(pl) + k].path
        PROVE  j = k
    <3>1. /\ c[Len(pl) + j] = es[j] /\ c[Len(pl) + k] = es[k]
          /\ j \in DOMAIN es /\ k \in DOMAIN es
      BY <1>1
    <3>2. es[j].path = es[k].path
      BY <2>3, <3>1
    <3> QED BY <3>1, <3>2 DEF Block, PathsDistinct
  <2>4. ASSUME NEW j \in DOMAIN c, NEW k \in DOMAIN c, c[j].path = c[k].path
        PROVE  j = k
    <3>1. CASE j \in 1 .. Len(pl) /\ k \in 1 .. Len(pl)
      BY <2>2, <2>4, <3>1
    <3>2. CASE j \in 1 .. Len(pl) /\ \E i \in 1 .. Len(es) : k = Len(pl) + i
      BY <2>1, <2>4, <3>2
    <3>3. CASE k \in 1 .. Len(pl) /\ \E i \in 1 .. Len(es) : j = Len(pl) + i
      BY <2>1, <2>4, <3>3
    <3>4. ASSUME NEW i \in 1 .. Len(es), NEW h \in 1 .. Len(es), j = Len(pl) + i, k = Len(pl) + h
          PROVE  j = k
      BY <2>3, <2>4, <3>4
    <3> QED BY <1>1, <3>1, <3>2, <3>3, <3>4, ZenonT(60)
  <2> QED BY <2>4 DEF PathsDistinct
<1>8. ParentsFirst(c)
  <2>1. ASSUME NEW j \in 1 .. Len(pl), c[j].path # Base
        PROVE  \E k \in 1 .. (j - 1) : c[k].kind = "dir" /\ c[k].path = Dir[c[j].path]
    <3>1. PICK k \in 1 .. (j - 1) : pl[k].kind = "dir" /\ pl[k].path = Dir[pl[j].path]
      BY <1>1, <2>1 DEF Sound, ParentsFirst
    <3>2. c[k] = pl[k] /\ c[j] = pl[j]
      BY <1>1
    <3> QED BY <3>1, <3>2
  <2>2. ASSUME NEW i \in 1 .. Len(es)
        PROVE  \E k \in 1 .. (Len(pl) + i - 1) :
                 c[k].kind = "dir" /\ c[k].path = Dir[c[Len(pl) + i].path]
    <3>1. c[Len(pl) + i] = es[i]
      BY <1>1
    <3>2. CASE i = 1
      <4>1. PICK k \in DOMAIN pl : pl[k].kind = "dir" /\ pl[k].path = Dir[w]
        BY DEF HasDir
      <4>2. k \in 1 .. (Len(pl) + i - 1) /\ c[k] = pl[k] /\ es[i].path = w
        BY <1>1, <3>2 DEF Block
      <4> QED BY <3>1, <4>1, <4>2
    <3>3. CASE i # 1
      <4>1. i \in 2 .. Len(es)
        BY <1>1, <3>3
      <4>2. PICK m \in Int : es[i].path = w \o <<m>>
        BY <4>1 DEF Block
      <4>3. Dir[es[i].path] = w
        BY <4>2, Below
      <4>4. es[1].kind = "dir" /\ es[1].path = w
        BY <4>1 DEF Block
      <4>5. 1 \in 1 .. Len(es) /\ Len(pl) + 1 \in 1 .. (Len(pl) + i - 1)
        BY <1>1, <4>1
      <4>6. c[Len(pl) + 1] = es[1]
        BY <1>1, <4>5
      <4> QED BY <3>1, <4>3, <4>4, <4>5, <4>6
    <3> QED BY <3>2, <3>3
  <2>3. ASSUME NEW j \in DOMAIN c, c[j].path # Base
        PROVE  \E k \in 1 .. (j - 1) : c[k].kind = "dir" /\ c[k].path = Dir[c[j].path]
    <3>1. CASE j \in 1 .. Len(pl)
      BY <2>1, <2>3, <3>1
    <3>2. CASE \E i \in 1 .. Len(es) : j = Len(pl) + i
      BY <2>2, <3>2
    <3> QED BY <1>1, <3>1, <3>2
  <2> QED BY <2>3 DEF ParentsFirst
<1>9. LinksBackward(c)
  <2>1. ASSUME NEW j \in 1 .. Len(pl), c[j].kind = "hardlink"
        PROVE  \E k \in 1 .. (j - 1) :
                 c[k].kind \in {"file", "hardlink"} /\ c[k].path = c[j].target
    <3>1. PICK k \in 1 .. (j - 1) :
            pl[k].kind \in {"file", "hardlink"} /\ pl[k].path = pl[j].target
      BY <1>1, <2>1 DEF Sound, LinksBackward
    <3>2. c[k] = pl[k] /\ c[j] = pl[j]
      BY <1>1
    <3> QED BY <3>1, <3>2
  <2>2. ASSUME NEW i \in 1 .. Len(es), c[Len(pl) + i].kind = "hardlink"
        PROVE  \E k \in 1 .. (Len(pl) + i - 1) :
                 c[k].kind \in {"file", "hardlink"} /\ c[k].path = c[Len(pl) + i].target
    <3>1. c[Len(pl) + i] = es[i]
      BY <1>1
    <3>2. PICK k \in 1 .. (i - 1) :
            es[k].kind \in {"file", "hardlink"} /\ es[k].path = es[i].target
      BY <1>1, <2>2, <3>1 DEF Block, LinksBackward
    <3>3. k \in 1 .. Len(es) /\ Len(pl) + k \in 1 .. (Len(pl) + i - 1)
      BY <1>1
    <3>4. c[Len(pl) + k] = es[k]
      BY <1>1, <3>3
    <3> QED BY <3>1, <3>2, <3>3, <3>4
  <2>3. ASSUME NEW j \in DOMAIN c, c[j].kind = "hardlink"
        PROVE  \E k \in 1 .. (j - 1) :
                 c[k].kind \in {"file", "hardlink"} /\ c[k].path = c[j].target
    <3>1. CASE j \in 1 .. Len(pl)
      BY <2>1, <2>3, <3>1
    <3>2. CASE \E i \in 1 .. Len(es) : j = Len(pl) + i
      BY <2>2, <2>3, <3>2
    <3> QED BY <1>1, <3>1, <3>2
  <2> QED BY <2>3 DEF LinksBackward
<1>10. c # <<>>
  BY <1>1, <1>2
<1>11. Sound(c)
  BY <1>1, <1>6, <1>7, <1>8, <1>9, <1>10 DEF Sound
<1> QED BY <1>3, <1>4, <1>5, <1>11 DEF c

-----------------------------------------------------------------------------
(* The entries of the enumerators *)

(* What stands below the entry of a block. *)
Content(w, c) ==
  /\ Listed(c)
  /\ \A k \in DOMAIN c : \E m \in Int : c[k].path = w \o <<m>>
  /\ PathsDistinct(c) /\ LinksBackward(c)

(* No entry is a hard link. *)
NoLinks(c) == \A k \in DOMAIN c : c[k].kind # "hardlink"

(* A list without hard links has no groups. *)
LEMMA NoGroups ==
  ASSUME NEW c, NoLinks(c)
  PROVE  GroupsOf(c) = {} /\ LinksBackward(c)
<1>1. \A p : LinksTo(c, p) = {}
  BY DEF LinksTo, NoLinks
<1>2. GroupsOf(c) = {}
  BY <1>1 DEF GroupsOf
<1> QED BY <1>2 DEF NoLinks, LinksBackward

(* Lists of no, one and two entries. *)
LEMMA ShortLists ==
  /\ Listed(<<>>)
  /\ \A e : IsEntry(e) => Listed(<<e>>)
  /\ \A e, f : IsEntry(e) /\ IsEntry(f) => Listed(<<e, f>>)
<1>1. Listed(<<>>)
  <2> DEFINE S == {}
             a == <<>>
  <2>1. a \in Seq(S) /\ \A e \in S : IsEntry(e)
    OBVIOUS
  <2> HIDE DEF S, a
  <2>2. Listed(a)
    BY <2>1 DEF Listed
  <2> QED BY <2>2 DEF a
<1>2. ASSUME NEW e, NEW f, IsEntry(e), IsEntry(f)
      PROVE  Listed(<<e>>) /\ Listed(<<e, f>>)
  <2> DEFINE S == {e, f}
             a == <<e>>
             b == <<e, f>>
  <2>1. a \in Seq(S) /\ b \in Seq(S) /\ \A x \in S : IsEntry(x)
    BY <1>2
  <2> HIDE DEF S, a, b
  <2>2. Listed(a) /\ Listed(b)
    BY <2>1 DEF Listed
  <2> QED BY <2>2 DEF a, b
<1> QED BY <1>1, <1>2

(* A lone entry. *)
LEMMA LoneBlock ==
  ASSUME NEW w, NEW e, IsEntry(e), e.path = w, e.kind # "hardlink"
  PROVE  Block(w, <<e>>) /\ NoLinks(<<e>>)
<1> DEFINE es == <<e>>
<1>1. Listed(es)
  BY ShortLists
<1>2. Len(es) = 1 /\ es[1] = e /\ DOMAIN es = {1} /\ es # <<>>
  OBVIOUS
<1> HIDE DEF es
<1>3. NoLinks(es)
  BY <1>2 DEF NoLinks
<1>4. PathsDistinct(es) /\ LinksBackward(es)
  BY <1>2, <1>3, NoGroups DEF PathsDistinct
<1>5. \A k \in 2 .. Len(es) : FALSE
  BY <1>2
<1>6. Block(w, es)
  BY <1>1, <1>2, <1>4, <1>5 DEF Block
<1> QED BY <1>3, <1>6 DEF es

(* A directory with what is in it. *)
LEMMA HeadedBlock ==
  ASSUME NEW w \in Paths, NEW e, IsEntry(e), e.path = w, e.kind = "dir", NEW c, Content(w, c)
  PROVE  Block(w, <<e>> \o c) /\ GroupsOf(<<e>> \o c) = GroupsOf(c)
<1> DEFINE h == <<e>>
           es == h \o c
<1>1. Block(w, h) /\ NoLinks(h)
  BY LoneBlock
<1>2. Listed(h) /\ Listed(c)
  BY <1>1 DEF Block, Content
<1>3. Len(h) = 1 /\ h[1] = e /\ DOMAIN h = {1}
  OBVIOUS
<1> HIDE DEF h
<1>4. /\ Listed(es) /\ Len(c) \in Nat /\ DOMAIN c = 1 .. Len(c)
      /\ Len(es) = 1 + Len(c) /\ DOMAIN es = 1 .. (1 + Len(c))
      /\ es[1] = e
      /\ \A k \in 1 .. Len(c) : es[1 + k] = c[k]
      /\ \A k \in 1 .. (1 + Len(c)) : k = 1 \/ \E j \in 1 .. Len(c) : k = 1 + j
  <2>1. /\ Listed(es) /\ Len(c) \in Nat /\ DOMAIN c = 1 .. Len(c)
        /\ Len(es) = Len(h) + Len(c) /\ DOMAIN es = 1 .. (Len(h) + Len(c))
        /\ \A k \in 1 .. Len(h) : es[k] = h[k]
        /\ \A k \in 1 .. Len(c) : es[Len(h) + k] = c[k]
        /\ \A k \in 1 .. (Len(h) + Len(c)) :
             k \in 1 .. Len(h) \/ \E j \in 1 .. Len(c) : k = Len(h) + j
    BY <1>2, Joined
  <2> HIDE DEF es
  <2>2. es[1] = e
    BY <1>3, <2>1
  <2>3. \A k \in 1 .. Len(h) : k = 1
    BY <1>3
  <2> QED BY <1>3, <2>1, <2>2, <2>3
<1>5. PathsOf(h) = {w}
  BY <1>3 DEF PathsOf
<1>6. \A p \in PathsOf(h) : p \notin PathsOf(c)
  <2>1. ASSUME NEW k \in DOMAIN c PROVE c[k].path # w
    <3>1. PICK m \in Int : c[k].path = w \o <<m>>
      BY DEF Content
    <3> QED BY <3>1, Below
  <2> QED BY <1>5, <2>1 DEF PathsOf
<1>7. GroupsOf(es) = GroupsOf(c)
  <2>1. LinksBackward(h) /\ LinksBackward(c) /\ GroupsOf(h) = {}
    BY <1>1, NoGroups DEF Content
  <2>2. GroupsOf(es) = GroupsOf(h) \cup GroupsOf(c)
    BY <1>2, <1>6, <2>1, JoinedGroups
  <2> QED BY <2>1, <2>2
<1> HIDE DEF es
<1>8. es[1] = e /\ es # <<>>
  BY <1>4
<1>9. ASSUME NEW k \in 2 .. Len(es)
      PROVE  es[1].kind = "dir" /\ \E m \in Int : es[k].path = w \o <<m>>
  <2>1. PICK j \in 1 .. Len(c) : k = 1 + j
    BY <1>4
  <2>2. es[k] = c[j] /\ j \in DOMAIN c
    BY <1>4, <2>1
  <2> QED BY <1>8, <2>2 DEF Content
<1>10. PathsDistinct(es)
  <2>1. ASSUME NEW j \in 1 .. Len(c) PROVE es[1 + j].path # es[1].path
    <3>1. es[1 + j] = c[j] /\ c[j].path \in PathsOf(c)
      BY <1>4 DEF PathsOf
    <3> QED BY <1>5, <1>6, <1>8, <3>1
  <2>2. ASSUME NEW j \in 1 .. Len(c), NEW k \in 1 .. Len(c), es[1 + j].path = es[1 + k].path
        PROVE  j = k
    <3>1. c[j].path = c[k].path /\ j \in DOMAIN c /\ k \in DOMAIN c
      BY <1>4, <2>2
    <3> QED BY <3>1 DEF Content, PathsDistinct
  <2>3. ASSUME NEW j \in DOMAIN es, NEW k \in DOMAIN es, es[j].path = es[k].path
        PROVE  j = k
    <3>1. /\ j = 1 \/ \E i \in 1 .. Len(c) : j = 1 + i
          /\ k = 1 \/ \E i \in 1 .. Len(c) : k = 1 + i
      BY <1>4
    <3> QED BY <2>1, <2>2, <2>3, <3>1
  <2> QED BY <2>3 DEF PathsDistinct
<1>11. LinksBackward(es)
  <2>1. ASSUME NEW j \in DOMAIN es, es[j].kind = "hardlink"
        PROVE  \E k \in 1 .. (j - 1) :
                 es[k].kind \in {"file", "hardlink"} /\ es[k].path = es[j].target
    <3>1. PICK i \in 1 .. Len(c) : j = 1 + i
      BY <1>4, <1>8, <2>1
    <3>2. es[j] = c[i] /\ i \in DOMAIN c
      BY <1>4, <3>1
    <3>3. PICK k \in 1 .. (i - 1) : c[k].kind \in {"file", "hardlink"} /\ c[k].path = c[i].target
      BY <2>1, <3>2 DEF Content, LinksBackward
    <3>4. k \in 1 .. Len(c) /\ 1 + k \in 1 .. (j - 1)
      BY <1>4, <3>1
    <3>5. es[1 + k] = c[k]
      BY <1>4, <3>4
    <3> QED BY <3>2, <3>3, <3>4, <3>5
  <2> QED BY <2>1 DEF LinksBackward
<1>12. Block(w, es)
  BY <1>4, <1>8, <1>9, <1>10, <1>11 DEF Block
<1> QED BY <1>7, <1>12 DEF es, h

(* One entry in a directory, and two. *)
LEMMA ShortContent ==
  ASSUME NEW w \in Paths
  PROVE  /\ Content(w, <<>>) /\ NoLinks(<<>>)
         /\ \A e : (/\ IsEntry(e) /\ e.kind # "hardlink" /\ \E m \in Int : e.path = w \o <<m>>)
              => Content(w, <<e>>) /\ NoLinks(<<e>>)
         /\ \A e, f : (/\ IsEntry(e) /\ e.kind # "hardlink"
                       /\ IsEntry(f) /\ f.kind # "hardlink" /\ e.path # f.path
                       /\ \E m \in Int : e.path = w \o <<m>>
                       /\ \E m \in Int : f.path = w \o <<m>>)
              => Content(w, <<e, f>>) /\ NoLinks(<<e, f>>)
<1>1. Content(w, <<>>) /\ NoLinks(<<>>)
  BY ShortLists DEF Content, NoLinks, PathsDistinct, LinksBackward
<1>2. ASSUME NEW e, IsEntry(e), e.kind # "hardlink", \E m \in Int : e.path = w \o <<m>>
      PROVE  Content(w, <<e>>) /\ NoLinks(<<e>>)
  <2> DEFINE c == <<e>>
  <2>1. Listed(c) /\ DOMAIN c = {1} /\ c[1] = e
    BY <1>2, ShortLists
  <2> HIDE DEF c
  <2>2. NoLinks(c)
    BY <1>2, <2>1 DEF NoLinks
  <2>3. Content(w, c)
    BY <1>2, <2>1, <2>2, NoGroups DEF Content, PathsDistinct
  <2> QED BY <2>2, <2>3 DEF c
<1>3. ASSUME NEW e, NEW f, IsEntry(e), e.kind # "hardlink", IsEntry(f), f.kind # "hardlink",
             e.path # f.path,
             \E m \in Int : e.path = w \o <<m>>, \E m \in Int : f.path = w \o <<m>>
      PROVE  Content(w, <<e, f>>) /\ NoLinks(<<e, f>>)
  <2> DEFINE c == <<e, f>>
  <2>1. Listed(c) /\ DOMAIN c = {1, 2} /\ c[1] = e /\ c[2] = f
    BY <1>3, ShortLists
  <2> HIDE DEF c
  <2>2. NoLinks(c)
    BY <1>3, <2>1 DEF NoLinks
  <2>3. Content(w, c)
    BY <1>3, <2>1, <2>2, NoGroups DEF Content, PathsDistinct
  <2> QED BY <2>2, <2>3 DEF c
<1> QED BY <1>1, <1>2, <1>3

(* What an entry asks for is metadata. *)
LEMMA AttrsTyped ==
  /\ \A a \in SUBSET Attrs : Stamped(a) \in SUBSET Attrs
  /\ \A class : ModeAttrs(class) \in SUBSET Attrs /\ MetadataFor(class) \in SUBSET Attrs
BY DEF Stamped, ModeAttrs, MetadataFor, Attrs

(* The entries of the enumerators are typed. *)
LEMMA EntriesTyped ==
  ASSUME NEW path \in Paths
  PROVE  /\ \A a \in SUBSET Attrs : \A t :
              /\ IsEntry(DirEntry(path, a, t)) /\ DirEntry(path, a, t).kind = "dir"
              /\ DirEntry(path, a, t).path = path
              /\ IsEntry(FileEntry(path, a, t)) /\ FileEntry(path, a, t).kind = "file"
              /\ FileEntry(path, a, t).path = path
         /\ \A target \in Paths, via \in Origins : \A t :
              /\ IsEntry(LinkEntry(path, target, via, t))
              /\ LinkEntry(path, target, via, t).kind = "symlink"
              /\ LinkEntry(path, target, via, t).path = path
         /\ \A kind \in EntryKinds, a \in SUBSET Attrs, target \in Paths \cup {NoPath} : \A t :
              IsEntry(CoverageEntry(kind, path, target, a, "none", t))
<1>1. ASSUME NEW kind \in EntryKinds, NEW a \in SUBSET Attrs, NEW via \in Origins,
             NEW target \in Paths \cup {NoPath}, NEW t
      PROVE  /\ IsEntry(CoverageEntry(kind, path, target, a, via, t))
             /\ CoverageEntry(kind, path, target, a, via, t).kind = kind
             /\ CoverageEntry(kind, path, target, a, via, t).path = path
  BY DEF CoverageEntry, IsEntry
<1>2. {"dir", "file", "symlink"} \subseteq EntryKinds /\ "none" \in Origins
      /\ {} \in SUBSET Attrs
  BY DEF EntryKinds, Origins
<1>3. \A a \in SUBSET Attrs : Stamped(a) \in SUBSET Attrs
  BY AttrsTyped
<1> QED BY <1>1, <1>2, <1>3 DEF DirEntry, FileEntry, LinkEntry

-----------------------------------------------------------------------------
(* The cells of the enumerators *)

(* The root of a subtree is named by its number. *)
LEMMA RootIs ==
  ASSUME NEW n \in 1 .. 8
  PROVE  RootOf(SubTrees[n]) = <<n>> /\ <<n>> \in Paths /\ <<n>> # Base /\ Dir[<<n>>] = Base
<1>1. DOMAIN SubTrees = 1 .. 8
  BY DEF SubTrees
<1>2. \A j \in 1 .. 8 : SubTrees[j] = SubTrees[n] => j = n
  <2>1. ASSUME NEW j \in 1 .. 8, SubTrees[j] = SubTrees[n] PROVE j = n
    <3>1. j \in {1, 2, 3, 4, 5, 6, 7, 8} /\ n \in {1, 2, 3, 4, 5, 6, 7, 8}
      OBVIOUS
    <3> QED BY <2>1, <3>1 DEF SubTrees
  <2> QED BY <2>1
<1> DEFINE c == CHOOSE j \in DOMAIN SubTrees : SubTrees[j] = SubTrees[n]
<1>3. c \in 1 .. 8 /\ SubTrees[c] = SubTrees[n]
  BY <1>1
<1>4. RootOf(SubTrees[n]) = <<c>>
  BY DEF RootOf
<1> HIDE DEF c
<1>5. c = n
  BY <1>2, <1>3
<1>6. Base \in Paths /\ Base \o <<n>> = <<n>>
  BY DEF Base, Paths
<1>7. /\ Base \o <<n>> \in Paths /\ Base \o <<n>> # Base /\ Dir[Base \o <<n>>] = Base
  BY <1>6, Below
<1> QED BY <1>4, <1>5, <1>6, <1>7

(* The anchors of symlinks. *)
LEMMA AnchorsIn ==
  /\ RootOf("symlinks") = <<3>> /\ RootOf("symlinks") \in Paths
  /\ AnchorFile \in Paths /\ AnchorLink \in Paths /\ AnchorFile # AnchorLink
<1>1. SubTrees[3] = "symlinks" /\ 3 \in 1 .. 8
  BY DEF SubTrees
<1>2. RootOf("symlinks") = <<3>> /\ RootOf("symlinks") \in Paths
  BY <1>1, RootIs
<1> DEFINE w == RootOf("symlinks")
<1> HIDE DEF w
<1>3. /\ w \o <<-1>> \in Paths /\ w \o <<-2>> \in Paths
      /\ (w \o <<-1>>)[Len(w) + 1] = -1 /\ (w \o <<-2>>)[Len(w) + 1] = -2
  BY <1>2, Below DEF w
<1>4. w \o <<-1>> # w \o <<-2>>
  BY <1>3
<1> QED BY <1>2, <1>3, <1>4 DEF AnchorFile, AnchorLink, w

(* Names of a cell with different salts are different paths. *)
LEMMA SaltsApart ==
  ASSUME NEW w \in Paths, NEW m \in Int, NEW n \in Int, w \o <<m>> = w \o <<n>>
  PROVE  m = n
<1>1. (w \o <<m>>)[Len(w) + 1] = m /\ (w \o <<n>>)[Len(w) + 1] = n
  BY Below
<1> QED BY <1>1

(* emitCoverageSymlinkCell *)
LEMMA SymlinkContent ==
  ASSUME NEW w \in Paths, NEW t
  PROVE  Content(w, SymlinkCell(w, t)) /\ NoLinks(SymlinkCell(w, t))
<1> DEFINE p == w \o <<0>>
           q == w \o <<1>>
           r == w \o <<9>>
<1>1. p \in Paths /\ q \in Paths /\ r \in Paths
  BY Below
<1>2. p # q
  BY SaltsApart
<1>3. (\E m \in Int : p = w \o <<m>>) /\ (\E m \in Int : q = w \o <<m>>)
  OBVIOUS
<1> HIDE DEF p, q, r
<1>4. ASSUME NEW target \in Paths, NEW via \in Origins
      PROVE  Content(w, <<LinkEntry(p, target, via, t)>>) /\ NoLinks(<<LinkEntry(p, target, via, t)>>)
  <2> DEFINE e == LinkEntry(p, target, via, t)
  <2>1. IsEntry(e) /\ e.kind # "hardlink" /\ e.path = p
    BY <1>1, EntriesTyped
  <2> HIDE DEF e
  <2>2. Content(w, <<e>>) /\ NoLinks(<<e>>)
    BY <1>3, <2>1, ShortContent
  <2> QED BY <2>2 DEF e
<1>5. Content(w, <<LinkEntry(p, q, "cycle", t), LinkEntry(q, p, "cycle", t)>>)
      /\ NoLinks(<<LinkEntry(p, q, "cycle", t), LinkEntry(q, p, "cycle", t)>>)
  <2> DEFINE e == LinkEntry(p, q, "cycle", t)
             f == LinkEntry(q, p, "cycle", t)
  <2>0. "cycle" \in Origins
    BY DEF Origins, Strategies
  <2>1. /\ IsEntry(e) /\ e.kind # "hardlink" /\ e.path = p
        /\ IsEntry(f) /\ f.kind # "hardlink" /\ f.path = q
    BY <1>1, <2>0, EntriesTyped
  <2> HIDE DEF e, f
  <2>2. Content(w, <<e, f>>) /\ NoLinks(<<e, f>>)
    BY <1>2, <1>3, <2>1, ShortContent
  <2> QED BY <2>2 DEF e, f
<1>6. {"absolute", "relative", "dangling", "self", "chained"} \subseteq Origins
  BY DEF Origins, Strategies
<1>7. \/ /\ t.variant \in {"absolute", "relative"}
         /\ SymlinkCell(w, t) = <<LinkEntry(p, AnchorFile, t.variant, t)>>
      \/ SymlinkCell(w, t) = <<LinkEntry(p, r, "dangling", t)>>
      \/ SymlinkCell(w, t) = <<LinkEntry(p, p, "self", t)>>
      \/ SymlinkCell(w, t) = <<LinkEntry(p, AnchorLink, "chained", t)>>
      \/ SymlinkCell(w, t) = <<LinkEntry(p, q, "cycle", t), LinkEntry(q, p, "cycle", t)>>
  BY DEF SymlinkCell, p, q, r
<1>8. CASE /\ t.variant \in {"absolute", "relative"}
           /\ SymlinkCell(w, t) = <<LinkEntry(p, AnchorFile, t.variant, t)>>
  <2>1. t.variant \in Origins
    BY <1>6, <1>8
  <2> QED BY <1>4, <1>8, <2>1, AnchorsIn
<1> QED BY <1>1, <1>4, <1>5, <1>6, <1>7, <1>8, AnchorsIn

(* The origin of a group of hard links and its mirrors. *)
LEMMA HardlinkContent ==
  ASSUME NEW w \in Paths, NEW t, t.variant \in Nat \ {0, 1}
  PROVE  /\ Content(w, HardlinkCell(w, t))
         /\ GroupsOf(HardlinkCell(w, t)) = {PathsOf(HardlinkCell(w, t))}
         /\ \A k \in DOMAIN HardlinkCell(w, t) : HardlinkCell(w, t)[k].kind # "dir"
<1> DEFINE Link(m) == CoverageEntry("hardlink", w \o <<m>>, w \o <<0>>, {}, "none", t)
           n == t.variant - 1
           o == FileEntry(w \o <<0>>, {"mode"}, t)
           h == <<o>>
           links == [m \in 1 .. n |-> Link(m)]
           c == h \o links
<1>1. HardlinkCell(w, t) = c
  BY DEF HardlinkCell
<1>2. n \in Nat \ {0}
  OBVIOUS
<1>3. w \o <<0>> \in Paths /\ \A m \in 1 .. n : w \o <<m>> \in Paths
  BY Below
<1>4. IsEntry(o) /\ o.kind = "file" /\ o.path = w \o <<0>>
  <2> DEFINE a == {"mode"}
             z == w \o <<0>>
  <2>1. a \in SUBSET Attrs /\ z \in Paths
    BY <1>3 DEF Attrs
  <2> HIDE DEF a, z
  <2>2. /\ IsEntry(FileEntry(z, a, t)) /\ FileEntry(z, a, t).kind = "file"
        /\ FileEntry(z, a, t).path = z
    BY <2>1, EntriesTyped
  <2> QED BY <2>2 DEF a, z
<1>5. \A m \in 1 .. n : /\ IsEntry(Link(m)) /\ Link(m).kind = "hardlink"
                        /\ Link(m).path = w \o <<m>> /\ Link(m).target = w \o <<0>>
  <2>1. "hardlink" \in EntryKinds /\ {} \in SUBSET Attrs
    BY DEF EntryKinds
  <2>2. \A m \in 1 .. n : IsEntry(Link(m))
    BY <1>3, <2>1, EntriesTyped
  <2> QED BY <2>2 DEF CoverageEntry
<1> HIDE DEF Link, o, n
<1>6. Listed(links) /\ Len(links) = n
  <2> DEFINE S == {Link(m) : m \in 1 .. n}
  <2>1. links \in [1 .. n -> S] /\ \A e \in S : IsEntry(e)
    BY <1>5
  <2> HIDE DEF links, S
  <2>2. links \in Seq(S) /\ Len(links) = n
    BY <1>2, <2>1
  <2> QED BY <2>1, <2>2 DEF Listed
<1>7. \A m \in 1 .. n : links[m] = Link(m)
  OBVIOUS
<1>8. Listed(h) /\ Len(h) = 1 /\ h[1] = o
  BY <1>4, ShortLists
<1> HIDE DEF h, links
<1>9. /\ Listed(c) /\ DOMAIN c = 1 .. (1 + n) /\ c[1] = o
      /\ \A m \in 1 .. n : c[1 + m] = Link(m)
      /\ \A k \in 1 .. (1 + n) : k = 1 \/ \E m \in 1 .. n : k = 1 + m
  <2>1. /\ Listed(c) /\ DOMAIN c = 1 .. (Len(h) + Len(links))
        /\ \A k \in 1 .. Len(h) : c[k] = h[k]
        /\ \A k \in 1 .. Len(links) : c[Len(h) + k] = links[k]
        /\ \A k \in 1 .. (Len(h) + Len(links)) :
             k \in 1 .. Len(h) \/ \E j \in 1 .. Len(links) : k = Len(h) + j
    BY <1>6, <1>8, Joined, ZenonT(60)
  <2> HIDE DEF c
  <2>2. c[1] = o
    BY <1>8, <2>1
  <2>3. \A k \in 1 .. Len(h) : k = 1
    BY <1>8
  <2> QED BY <1>2, <1>6, <1>7, <1>8, <2>1, <2>2, <2>3
<1> HIDE DEF c
<1>10. /\ \A k \in DOMAIN c : c[k].path = w \o <<k - 1>>
       /\ \A k \in DOMAIN c : c[k].kind # "dir"
       /\ \A k \in DOMAIN c : k # 1 => c[k].kind = "hardlink" /\ c[k].target = w \o <<0>>
  <2>1. ASSUME NEW k \in DOMAIN c
        PROVE  /\ c[k].path = w \o <<k - 1>> /\ c[k].kind # "dir"
               /\ k # 1 => c[k].kind = "hardlink" /\ c[k].target = w \o <<0>>
    <3>1. CASE k = 1
      <4>1. k - 1 = 0
        BY <3>1
      <4> QED BY <1>4, <1>9, <3>1, <4>1
    <3>2. CASE \E m \in 1 .. n : k = 1 + m
      <4>1. PICK m \in 1 .. n : k = 1 + m
        BY <3>2
      <4>2. k - 1 = m /\ c[k] = Link(m)
        BY <1>2, <1>9, <4>1
      <4> QED BY <1>5, <4>1, <4>2
    <3> QED BY <1>9, <3>1, <3>2
  <2> QED BY <2>1
<1>11. c[1].kind = "file" /\ c[1].path = w \o <<0>> /\ 1 \in DOMAIN c /\ DOMAIN c \subseteq Int
  BY <1>2, <1>4, <1>9
<1>12. Content(w, c)
  <2>1. ASSUME NEW k \in DOMAIN c PROVE \E m \in Int : c[k].path = w \o <<m>>
    <3> DEFINE i == k - 1
    <3>1. i \in Int /\ c[k].path = w \o <<i>>
      BY <1>10, <1>11
    <3> HIDE DEF i
    <3> QED BY <3>1
  <2>2. ASSUME NEW j \in DOMAIN c, NEW k \in DOMAIN c, c[j].path = c[k].path PROVE j = k
    <3>1. j - 1 \in Int /\ k - 1 \in Int /\ w \o <<j - 1>> = w \o <<k - 1>>
      BY <1>10, <1>11, <2>2
    <3>2. j - 1 = k - 1
      BY <3>1, SaltsApart
    <3> QED BY <1>11, <3>2
  <2>3. ASSUME NEW j \in DOMAIN c, c[j].kind = "hardlink"
        PROVE  \E k \in 1 .. (j - 1) :
                 c[k].kind \in {"file", "hardlink"} /\ c[k].path = c[j].target
    <3>1. j # 1
      BY <1>11, <2>3
    <3>2. 1 \in 1 .. (j - 1) /\ c[j].target = w \o <<0>>
      BY <1>9, <1>10, <3>1
    <3> QED BY <1>11, <3>2
  <2> QED BY <1>9, <2>1, <2>2, <2>3 DEF Content, PathsDistinct, LinksBackward
<1>13. GroupsOf(c) = {PathsOf(c)}
  <2> DEFINE z == w \o <<0>>
  <2>1. \A p : p # z => LinksTo(c, p) = {}
    BY <1>10, <1>11 DEF LinksTo
  <2>2. LinksTo(c, z) = {c[k].path : k \in DOMAIN c \ {1}}
    BY <1>10, <1>11 DEF LinksTo
  <2>3. 2 \in DOMAIN c \ {1}
    BY <1>2, <1>9
  <2>0. c[1].path = z
    BY <1>11
  <2> HIDE DEF z
  <2>4. z \in PathsOf(c) /\ LinksTo(c, z) # {}
    <3>1. z \in PathsOf(c)
      BY <1>11, <2>0 DEF PathsOf
    <3>2. c[2].path \in LinksTo(c, z)
      BY <2>2, <2>3
    <3> QED BY <3>1, <3>2
  <2>5. {z} \cup LinksTo(c, z) = PathsOf(c)
    BY <1>11, <2>2, <2>0 DEF PathsOf
  <2>6. {q \in PathsOf(c) : LinksTo(c, q) # {}} = {z}
    BY <2>1, <2>4
  <2> QED BY <2>5, <2>6 DEF GroupsOf
<1> QED BY <1>1, <1>10, <1>12, <1>13

(* The group that is registered is the paths below the wrapper. *)
LEMMA GroupBelow ==
  ASSUME NEW e, IsEntry(e), e.kind = "dir", NEW c, Listed(c), \A k \in DOMAIN c : c[k].kind # "dir"
  PROVE  GroupOf(<<e>> \o c) = PathsOf(c)
<1> DEFINE h == <<e>>
           es == h \o c
<1>1. Listed(h) /\ Len(h) = 1 /\ h[1] = e
  BY ShortLists
<1> HIDE DEF h
<1>2. /\ Len(c) \in Nat /\ DOMAIN c = 1 .. Len(c)
      /\ Len(es) = Len(h) + Len(c) /\ DOMAIN es = 1 .. (Len(h) + Len(c))
      /\ \A k \in 1 .. Len(h) : es[k] = h[k]
      /\ \A k \in 1 .. Len(c) : es[Len(h) + k] = c[k]
      /\ \A k \in 1 .. (Len(h) + Len(c)) :
           k \in 1 .. Len(h) \/ \E j \in 1 .. Len(c) : k = Len(h) + j
  <2>1. Listed(c) /\ Listed(h)
    BY <1>1
  <2> QED BY ONLY <2>1, Joined
<1> HIDE DEF es
<1>3. es[1] = e
  BY <1>1, <1>2
<1>4. \A k \in 1 .. Len(c) : es[1 + k] = c[k] /\ 1 + k \in DOMAIN es
  BY <1>1, <1>2
<1>5. \A k \in DOMAIN es : k = 1 \/ \E j \in 1 .. Len(c) : k = 1 + j
  <2>1. \A k \in 1 .. Len(h) : k = 1
    BY <1>1
  <2> QED BY <1>1, <1>2, <2>1
<1>6. GroupOf(es) \subseteq PathsOf(c)
  <2>1. ASSUME NEW k \in DOMAIN es, es[k].kind # "dir" PROVE es[k].path \in PathsOf(c)
    <3>1. PICK j \in 1 .. Len(c) : k = 1 + j
      BY <1>3, <1>5, <2>1
    <3>2. es[k] = c[j] /\ j \in DOMAIN c
      BY <1>2, <1>4, <3>1
    <3> QED BY <3>2 DEF PathsOf
  <2> QED BY <2>1 DEF GroupOf
<1>7. PathsOf(c) \subseteq GroupOf(es)
  <2>1. ASSUME NEW k \in DOMAIN c PROVE c[k].path \in GroupOf(es)
    <3>1. es[1 + k] = c[k] /\ 1 + k \in DOMAIN es /\ es[1 + k].kind # "dir"
      BY <1>2, <1>4
    <3> QED BY <3>1 DEF GroupOf
  <2> QED BY <2>1 DEF PathsOf
<1> QED BY <1>6, <1>7 DEF es, h

(* A file or a directory in its wrapper. *)
LEMMA LeafContent ==
  ASSUME NEW w \in Paths, NEW a \in SUBSET Attrs, NEW t, NEW c,
         \/ c = <<DirEntry(w \o << 0 >>, a, t)>> \/ c = <<FileEntry(w \o << 0 >>, a, t)>>
  PROVE  Content(w, c) /\ NoLinks(c)
<1> DEFINE leaf == w \o <<0>>
<1>1. leaf \in Paths /\ \E m \in Int : leaf = w \o <<m>>
  <2>1. 0 \in Int
    OBVIOUS
  <2> QED BY ONLY <2>1, Below, w \in Paths DEF leaf
<1> HIDE DEF leaf
<1> DEFINE d == DirEntry(leaf, a, t)
           f == FileEntry(leaf, a, t)
<1>2. /\ IsEntry(d) /\ d.kind # "hardlink" /\ d.path = leaf
      /\ IsEntry(f) /\ f.kind # "hardlink" /\ f.path = leaf
  <2>1. /\ IsEntry(d) /\ d.kind = "dir" /\ d.path = leaf
        /\ IsEntry(f) /\ f.kind = "file" /\ f.path = leaf
    <3>1. leaf \in Paths /\ a \in SUBSET Attrs
      BY <1>1
    <3> QED BY ONLY <3>1, EntriesTyped
  <2> HIDE DEF d, f
  <2> QED BY <2>1
<1>3. c = <<d>> \/ c = <<f>>
  BY DEF leaf
<1> HIDE DEF d, f
<1> QED BY <1>1, <1>2, <1>3, ShortContent

(* What the name of a block ends in. *)
BlockNumber(s, n) == IF s = "special" THEN n ELSE nextCell

(* Every cell is a block, whatever case it is made of. *)
LEMMA CellBlock ==
  ASSUME Scaled, NEW s \in SubTreeNames, NEW case, NEW n \in Int, nextCell \in Nat,
         RootOf(s) \in Paths,
         \A d \in DOMAIN Axes(s) : case[d] \in 0 .. (Len(AxisValues(s, Axes(s)[d])) - 1)
  PROVE  LET es == CellEntries(s, Traits(s, case), n)
         IN  /\ Block(RootOf(s) \o <<BlockNumber(s, n)>>, es)
             /\ GroupsOf(es) = IF s = "hardlinks" THEN {GroupOf(es)} ELSE {}
<1> DEFINE t == Traits(s, case)
           w == RootOf(s) \o <<nextCell>>
           es == CellEntries(s, t, n)
<1>1. ASSUME NEW c \in DOMAIN Axes(s), NEW T, AxisValues(s, Axes(s)[c]) \in Seq(T)
      PROVE  t[Axes(s)[c]] \in T
  BY <1>1, TraitIs
<1>2. w \in Paths
  BY Below
<1> HIDE DEF t, w
<1>3. CASE s = "special"
  <2>1. t.variant \in SpecialKinds
    <3>1. Axes(s) = <<"variant", "mode">>
      BY <1>3 DEF Axes
    <3>2. 1 \in DOMAIN Axes(s) /\ Axes(s)[1] = "variant"
      BY <3>1
    <3>3. AxisValues(s, "variant") = SpecialTypes
      BY <1>3 DEF AxisValues, Variants
    <3>4. t.variant \in SpecialKinds \cap caps
      BY <1>1, <3>2, <3>3, SpecialTypesBacked
    <3> QED BY <3>4
  <2> DEFINE p == RootOf(s) \o <<n>>
             a == Stamped(ModeAttrs(t.mode))
             e == CoverageEntry(t.variant, p, NoPath, a, "none", t)
  <2>2. p \in Paths /\ a \in SUBSET Attrs /\ t.variant \in EntryKinds
    BY <2>1, Below, AttrsTyped DEF EntryKinds
  <2>3. es = <<e>> /\ p = RootOf(s) \o <<BlockNumber(s, n)>>
    BY <1>3 DEF CellEntries, BlockNumber
  <2> HIDE DEF p, a, es
  <2>4. IsEntry(e)
    BY <2>2, EntriesTyped
  <2>5. e.path = p /\ e.kind # "hardlink"
    BY <2>1 DEF CoverageEntry, SpecialKinds
  <2> HIDE DEF e
  <2>6. Block(p, es) /\ NoLinks(es)
    BY <2>3, <2>4, <2>5, LoneBlock
  <2>7. GroupsOf(es) = {}
    BY <2>6, NoGroups
  <2> QED BY <1>3, <2>3, <2>6, <2>7 DEF es, t
<1>4. CASE s # "special"
  <2> DEFINE a == {"mode"}
             e == DirEntry(w, a, NoTraits)
             c == CellContent(s, w, t)
  <2>1. es = <<e>> \o c /\ w = RootOf(s) \o <<BlockNumber(s, n)>>
    BY <1>4 DEF CellEntries, BlockNumber, w
  <2>2. a \in SUBSET Attrs
    BY DEF Attrs
  <2> HIDE DEF a
  <2>3. IsEntry(e) /\ e.path = w /\ e.kind = "dir"
    BY <1>2, <2>2, EntriesTyped
  <2> HIDE DEF e, c, es
  <2>4. ASSUME NEW b \in SUBSET Attrs,
               \/ c = <<DirEntry(w \o << 0 >>, b, t)>> \/ c = <<FileEntry(w \o << 0 >>, b, t)>>
        PROVE  Content(w, c) /\ NoLinks(c)
    BY <1>2, <2>4, LeafContent
  <2>5. ASSUME Content(w, c), NoLinks(c)
        PROVE  Block(w, es) /\ GroupsOf(es) = {}
    <3>1. Block(w, es) /\ GroupsOf(es) = GroupsOf(c)
      <4>1. Content(w, c)
        BY <2>5
      <4> QED BY ONLY <1>2, <2>1, <2>3, <4>1, HeadedBlock, ZenonT(60)
    <3> QED BY <2>5, <3>1, NoGroups
  <2>6. CASE s = "hardlinks"
    <3>1. c = HardlinkCell(w, t)
      BY <2>6 DEF CellContent, c
    <3>2. t.variant \in Nat \ {0, 1}
      <4>1. Axes(s) = <<"variant", "name">>
        BY <2>6 DEF Axes
      <4>2. AxisValues(s, "variant") = env.groupSizes
        BY <2>6 DEF AxisValues, Variants
      <4>3. 1 \in DOMAIN Axes(s) /\ Axes(s)[1] = "variant"
        BY <4>1
      <4> QED BY <1>1, <4>2, <4>3, ScaleFacts
    <3>3. Content(w, c) /\ GroupsOf(c) = {PathsOf(c)} /\ \A k \in DOMAIN c : c[k].kind # "dir"
      BY <1>2, <3>1, <3>2, HardlinkContent
    <3>4. Block(w, es) /\ GroupsOf(es) = GroupsOf(c)
      BY <1>2, <2>1, <2>3, <3>3, HeadedBlock, ZenonT(60)
    <3>5. GroupOf(es) = PathsOf(c)
      BY <2>1, <2>3, <3>3, GroupBelow DEF Content
    <3> QED BY <2>1, <2>6, <3>3, <3>4, <3>5 DEF es, t
  <2>7. CASE s # "hardlinks"
    <3>1. Content(w, c) /\ NoLinks(c)
      <4>1. CASE s = "symlinks"
        <5>1. c = SymlinkCell(w, t)
          BY <4>1 DEF CellContent, c
        <5> QED BY <1>2, <5>1, SymlinkContent
      <4>2. CASE s = "dirs" \/ s = "files"
        <5> DEFINE b == ModeAttrs(t.mode) \cup MetadataFor(t.meta)
        <5>1. \/ c = <<DirEntry(w \o <<0>>, b, t)>> \/ c = <<FileEntry(w \o <<0>>, b, t)>>
          BY <4>2 DEF CellContent, c
        <5>2. b \in SUBSET Attrs
          BY AttrsTyped
        <5> HIDE DEF b
        <5> QED BY <2>4, <5>1, <5>2
      <4>3. CASE s \in {"xattr-variants", "acl-variants", "timestamp-variants"}
        <5> DEFINE b == {"mode", "xattrs"}
                   f == {"mode", "acl"}
                   g1 == {"mode", "times"}
        <5>1. \/ c = <<FileEntry(w \o <<0>>, b, t)>>
              \/ c = <<DirEntry(w \o <<0>>, f, t)>> \/ c = <<FileEntry(w \o <<0>>, f, t)>>
              \/ c = <<FileEntry(w \o <<0>>, g1, t)>>
          BY <4>3 DEF CellContent, c
        <5>2. b \in SUBSET Attrs /\ f \in SUBSET Attrs /\ g1 \in SUBSET Attrs
          BY DEF Attrs
        <5> HIDE DEF b, f, g1
        <5> QED BY <2>4, <5>1, <5>2
      <4> QED BY <1>4, <2>7, <4>1, <4>2, <4>3 DEF SubTreeNames
    <3>2. Block(w, es) /\ GroupsOf(es) = {}
      BY <2>5, <3>1
    <3> QED BY <2>1, <2>7, <3>2 DEF es, t
  <2> QED BY <2>6, <2>7
<1> QED BY <1>3, <1>4

(* The anchors are entries. *)
LEMMA AnchorsListed == Listed(Anchors)
<1> DEFINE a == {"mode"}
           x == FileEntry(AnchorFile, a, NoTraits)
           y == LinkEntry(AnchorLink, AnchorFile, "relative", NoTraits)
<1>1. Anchors = <<>> \/ Anchors = <<x, y>>
  BY DEF Anchors
<1>2. a \in SUBSET Attrs /\ "relative" \in Origins
  BY DEF Attrs, Origins, Strategies
<1> HIDE DEF a
<1>3. IsEntry(x) /\ IsEntry(y)
  BY ONLY <1>2, AnchorsIn, EntriesTyped
<1> HIDE DEF x, y
<1> QED BY <1>1, <1>3, ShortLists

(* The root of a subtree is a block, with the anchors of symlinks in it. *)
LEMMA RootBlock ==
  ASSUME NEW n \in 1 .. 8, sub = n
  PROVE  LET root == <<DirEntry(RootOf(SubTree), {"mode"}, NoTraits)>>
         IN  /\ Block(<<n>>, root) /\ GroupsOf(root) = {}
             /\ Block(<<n>>, root \o Anchors) /\ GroupsOf(root \o Anchors) = {}
             /\ root[1].kind = "dir" /\ (root \o Anchors)[1].kind = "dir"
<1> DEFINE a == {"mode"}
           w == <<n>>
           e == DirEntry(w, a, NoTraits)
           c == Anchors
<1>1. RootOf(SubTree) = w /\ w \in Paths
  BY RootIs DEF SubTree
<1>2. a \in SUBSET Attrs
  BY DEF Attrs
<1>3. SubTree = "symlinks" => w = RootOf("symlinks")
  BY <1>1
<1> HIDE DEF a, w
<1>4. IsEntry(e) /\ e.path = w /\ e.kind = "dir"
  BY <1>1, <1>2, EntriesTyped
<1> HIDE DEF e
<1>5. Content(w, c) /\ NoLinks(c)
  <2>1. CASE SubTree # "symlinks"
    <3>1. c = <<>>
      BY <2>1 DEF Anchors
    <3> QED BY <1>1, <3>1, ShortContent
  <2>2. CASE SubTree = "symlinks"
    <3> DEFINE x == FileEntry(AnchorFile, a, NoTraits)
               y == LinkEntry(AnchorLink, AnchorFile, "relative", NoTraits)
    <3>1. c = <<x, y>>
      BY <2>2 DEF Anchors, a
    <3>2. "relative" \in Origins
      BY DEF Origins, Strategies
    <3>3. /\ IsEntry(x) /\ x.kind # "hardlink" /\ x.path = AnchorFile
          /\ IsEntry(y) /\ y.kind # "hardlink" /\ y.path = AnchorLink
      BY <1>2, <3>2, AnchorsIn, EntriesTyped
    <3>4. /\ \E m \in Int : AnchorFile = w \o <<m>>
          /\ \E m \in Int : AnchorLink = w \o <<m>>
      <4>1. AnchorFile = w \o <<-1>> /\ AnchorLink = w \o <<-2>>
        BY <1>3, <2>2 DEF AnchorFile, AnchorLink
      <4>2. -1 \in Int /\ -2 \in Int
        OBVIOUS
      <4> QED BY <4>1, <4>2
    <3> HIDE DEF x, y
    <3> QED BY <1>1, <3>1, <3>3, <3>4, AnchorsIn, ShortContent
  <2> QED BY <2>1, <2>2
<1>6. Block(w, <<e>> \o c) /\ GroupsOf(<<e>> \o c) = {}
  BY <1>1, <1>4, <1>5, HeadedBlock, NoGroups
<1>7. Block(w, <<e>>) /\ GroupsOf(<<e>>) = {}
  BY <1>4, LoneBlock, NoGroups
<1>8. <<e>>[1] = e /\ (<<e>> \o c)[1] = e
  <2> DEFINE h == <<e>>
  <2>1. Listed(h) /\ Listed(c) /\ Len(h) = 1 /\ h[1] = e
    BY <1>5, <1>7 DEF Block, Content
  <2> HIDE DEF h
  <2>2. \A k \in 1 .. Len(h) : (h \o c)[k] = h[k]
    BY <2>1, Joined
  <2>3. 1 \in 1 .. Len(h)
    BY <2>1
  <2> QED BY <2>1, <2>2, <2>3 DEF h
<1> QED BY <1>1, <1>4, <1>6, <1>7, <1>8 DEF e, a, w

-----------------------------------------------------------------------------
(* The plan as it grows *)

(* The number of the block that is next. *)
NextSpecial == (cell.case - 1) * Multiplier(call.opts.effort) + cell.rep
NextBlock == BlockNumber(SubTree, NextSpecial)

(* A path lies in an earlier subtree or in an earlier block of this one. *)
Behind(p, s, n) ==
  \/ p = Base
  \/ p[1] < s
  \/ p[1] = s /\ (Len(p) > 1 => p[2] < n)

(* The plan, the paths met and the groups belong together. *)
GrownInv ==
  phase \in {"subtree", "cells", "planned"} =>
    Sound(entries) /\ used = PathsOf(entries) /\ groups = GroupsOf(entries) /\ nextCell \in Nat

(* What is planned is behind. *)
BehindInv ==
  /\ phase = "subtree" => \A p \in PathsOf(entries) : p = Base \/ p[1] < sub
  /\ phase = "cells" =>
       /\ cell.rep \in 0 .. (Multiplier(call.opts.effort) - 1)
       /\ HasDir(entries, <<sub>>)
       /\ \A p \in PathsOf(entries) : Behind(p, sub, NextBlock)

(* A call fails at its checks or after the last subtree. *)
EndInv ==
  /\ phase \in {"planned", "applying"} => sub > 8
  /\ phase = "planning" => Refuses(call.kind, call.asked)
  /\ phase = "failed" /\ ~ Refuses(call.kind, call.asked) => sub > 8

PlanShapeInv == GrownInv /\ BehindInv /\ EndInv

(* A block that is appended meets no path twice. *)
LEMMA AppendBlock ==
  ASSUME Sound(entries), used = PathsOf(entries), NEW es, NEW next, NEW w, w \in Paths, w # Base,
         Block(w, es), Unused(entries, w), HasDir(entries, Dir[w]), AppendEntries(es, next)
  PROVE  /\ phase' = next /\ entries' = entries \o es
         /\ Sound(entries') /\ used' = PathsOf(entries')
         /\ PathsOf(entries') = PathsOf(entries) \cup PathsOf(es)
         /\ GroupsOf(entries') = GroupsOf(entries) \cup GroupsOf(es)
<1>1. /\ \A k \in DOMAIN es : es[k].path \notin PathsOf(entries)
      /\ Sound(entries \o es)
      /\ PathsOf(entries \o es) = PathsOf(entries) \cup PathsOf(es)
      /\ GroupsOf(entries \o es) = GroupsOf(entries) \cup GroupsOf(es)
  BY BlockJoins
<1>2. PathsDistinct(es) /\ Len(es) \in Nat /\ DOMAIN es = 1 .. Len(es)
  BY InList DEF Block
<1> DEFINE ps == [k \in DOMAIN es |-> es[k].path]
<1>3. \A k \in DOMAIN es : ps[k] = es[k].path
  OBVIOUS
<1>4. ~ \E k \in DOMAIN es : ps[k] \in used \/ \E j \in 1 .. (k - 1) : ps[j] = ps[k]
  <2> HIDE DEF ps
  <2>1. ASSUME NEW k \in DOMAIN es, NEW j \in 1 .. (k - 1) PROVE ps[j] # ps[k]
    <3>1. j \in DOMAIN es /\ j # k
      BY <1>2
    <3> QED BY <1>2, <1>3, <3>1 DEF PathsDistinct
  <2> QED BY <1>1, <1>3, <2>1
<1>5. /\ entries' = entries \o es /\ phase' = next
      /\ used' = used \cup {ps[k] : k \in DOMAIN es}
  BY <1>4 DEF AppendEntries
<1>6. {ps[k] : k \in DOMAIN es} = PathsOf(es)
  BY <1>3 DEF PathsOf
<1> HIDE DEF ps
<1> QED BY <1>1, <1>5, <1>6

(* The paths of a block. *)
LEMMA BlockPaths ==
  ASSUME NEW w, NEW es, Block(w, es), NEW p \in PathsOf(es)
  PROVE  p = w \/ \E m \in Int : p = w \o <<m>>
<1>1. PICK k \in DOMAIN es : p = es[k].path
  BY DEF PathsOf
<1>2. Len(es) \in Nat /\ DOMAIN es = 1 .. Len(es)
  BY InList DEF Block
<1>3. CASE k = 1
  BY <1>1, <1>3 DEF Block
<1>4. CASE k # 1
  <2>1. k \in 2 .. Len(es)
    BY <1>2, <1>4
  <2> QED BY <1>1, <2>1 DEF Block
<1> QED BY <1>3, <1>4

(* The paths of a plan are paths. *)
LEMMA PathsTyped ==
  ASSUME NEW pl, Sound(pl), NEW p \in PathsOf(pl)
  PROVE  p \in Paths
<1>1. PICK k \in DOMAIN pl : p = pl[k].path
  BY DEF PathsOf
<1>2. IsEntry(pl[k])
  BY <1>1, InList DEF Sound
<1> QED BY <1>1, <1>2 DEF IsEntry

(* A directory stays in a plan that grows, and the first of a block is new. *)
LEMMA DirsStay ==
  ASSUME NEW pl, NEW es, NEW w, Sound(pl), Block(w, es)
  PROVE  /\ \A d : HasDir(pl, d) => HasDir(pl \o es, d)
         /\ es[1].kind = "dir" => HasDir(pl \o es, w)
         /\ HasDir(pl, Base)
<1> DEFINE c == pl \o es
<1>1. Listed(pl) /\ Listed(es) /\ pl # <<>> /\ es # <<>>
  BY DEF Sound, Block
<1>2. /\ Len(pl) \in Nat /\ Len(es) \in Nat /\ DOMAIN pl = 1 .. Len(pl) /\ DOMAIN es = 1 .. Len(es)
      /\ DOMAIN c = 1 .. (Len(pl) + Len(es))
      /\ \A k \in 1 .. Len(pl) : c[k] = pl[k]
      /\ \A k \in 1 .. Len(es) : c[Len(pl) + k] = es[k]
  <2>1. Listed(pl) /\ Listed(es)
    BY <1>1
  <2> QED BY ONLY <2>1, Joined
<1>3. Len(pl) # 0 /\ Len(es) # 0
  <2>1. PICK S : pl \in Seq(S)
    BY <1>1 DEF Listed
  <2>2. PICK T : es \in Seq(T)
    BY <1>1 DEF Listed
  <2> QED BY <1>1, <2>1, <2>2
<1> HIDE DEF c
<1>4. ASSUME NEW d, HasDir(pl, d) PROVE HasDir(c, d)
  <2>1. PICK k \in DOMAIN pl : pl[k].kind = "dir" /\ pl[k].path = d
    BY <1>4 DEF HasDir
  <2>2. k \in DOMAIN c /\ c[k] = pl[k]
    BY <1>2
  <2> QED BY <2>1, <2>2 DEF HasDir
<1>5. ASSUME es[1].kind = "dir" PROVE HasDir(c, w)
  <2>1. Len(pl) + 1 \in DOMAIN c /\ c[Len(pl) + 1] = es[1]
    BY <1>2, <1>3
  <2>2. es[1].path = w
    BY DEF Block
  <2> QED BY <1>5, <2>1, <2>2 DEF HasDir
<1>6. HasDir(pl, Base)
  <2>1. 1 \in DOMAIN pl
    BY <1>2, <1>3
  <2> QED BY <1>1, <2>1 DEF HasDir, Sound, RootFirst
<1> QED BY <1>4, <1>5, <1>6 DEF c

(* How often a case is repeated. *)
LEMMA MultiplierIs == \A effort : Multiplier(effort) \in {1, 3, 10, 50}
BY DEF Multiplier

(* The builder starts with the base path. *)
LEMMA ResolveShape ==
  ASSUME ResolveCapabilities
  PROVE  PlanShapeInv'
<1>1. phase' = "subtree" /\ groups' = {} /\ used' = {Base} /\ nextCell' = 0 /\ sub' = 1
  BY DEF ResolveCapabilities
<1> DEFINE a == {"mode"} \cup (IF "timestamps" \in Resolved THEN {"times"} ELSE {})
           e == CoverageEntry("dir", Base, NoPath, a, "none", NoTraits)
           pl == <<e>>
<1>2. entries' = pl
  BY DEF ResolveCapabilities
<1>3. Base \in Paths /\ a \in SUBSET Attrs /\ "dir" \in EntryKinds /\ NoPath \in Paths \cup {NoPath}
  BY DEF Base, Paths, Attrs, EntryKinds
<1> HIDE DEF a
<1>4. IsEntry(e)
  BY ONLY <1>3, EntriesTyped
<1>5. e.kind = "dir" /\ e.path = Base
  BY DEF CoverageEntry
<1> HIDE DEF e
<1>6. Block(Base, pl) /\ NoLinks(pl)
  BY <1>4, <1>5, LoneBlock
<1>7. pl[1] = e /\ DOMAIN pl = {1}
  OBVIOUS
<1> HIDE DEF pl
<1>8. Sound(pl)
  BY <1>5, <1>6, <1>7 DEF Block, Sound, RootFirst, ParentsFirst
<1>9. PathsOf(pl) = {Base} /\ GroupsOf(pl) = {}
  BY <1>5, <1>6, <1>7, NoGroups DEF PathsOf
<1>10. GrownInv'
  BY <1>1, <1>2, <1>8, <1>9 DEF GrownInv
<1>11. BehindInv'
  BY <1>1, <1>2, <1>9 DEF BehindInv
<1> QED BY <1>1, <1>10, <1>11 DEF PlanShapeInv, EndInv

(* The anchors come before the first block. *)
LEMMA AnchorsBehind ==
  ASSUME NEW p \in PathsOf(Anchors)
  PROVE  p \in Paths /\ p # Base /\ p[1] = 3 /\ SubTree = "symlinks" /\ p[2] < 0
<1> DEFINE w == RootOf("symlinks")
<1>1. w \in Paths /\ Len(w) = 1 /\ w[1] = 3
  BY AnchorsIn
<1>2. AnchorFile = w \o <<-1>> /\ AnchorLink = w \o <<-2>>
  BY DEF AnchorFile, AnchorLink
<1>3. SubTree = "symlinks"
  <2>1. CASE SubTree # "symlinks"
    <3>1. Anchors = <<>>
      BY <2>1 DEF Anchors
    <3> QED BY <3>1 DEF PathsOf
  <2> QED BY <2>1
<1>4. p \in {AnchorFile, AnchorLink}
  <2> DEFINE x == FileEntry(AnchorFile, {"mode"}, NoTraits)
             y == LinkEntry(AnchorLink, AnchorFile, "relative", NoTraits)
  <2>1. x.path = AnchorFile /\ y.path = AnchorLink
    BY DEF FileEntry, LinkEntry, CoverageEntry
  <2>2. Anchors = <<x, y>>
    BY <1>3 DEF Anchors
  <2> HIDE DEF x, y
  <2>3. PathsOf(Anchors) = {x.path, y.path}
    BY <2>2 DEF PathsOf
  <2> QED BY <2>1, <2>3
<1> HIDE DEF w
<1>5. ASSUME NEW m \in Int
      PROVE  /\ w \o <<m>> \in Paths /\ w \o <<m>> # Base
             /\ (w \o <<m>>)[1] = 3 /\ (w \o <<m>>)[2] = m
  <2>1. /\ w \o <<m>> \in Paths /\ w \o <<m>> # Base
        /\ (w \o <<m>>)[Len(w) + 1] = m
        /\ \A i \in 1 .. Len(w) : (w \o <<m>>)[i] = w[i]
    <3>1. w \in Paths /\ m \in Int
      BY <1>1
    <3> QED BY ONLY <3>1, Below, ZenonT(60)
  <2>2. Len(w) + 1 = 2 /\ 1 \in 1 .. Len(w)
    BY <1>1
  <2> QED BY <1>1, <2>1, <2>2
<1>6. -1 \in Int /\ -2 \in Int /\ -1 < 0 /\ -2 < 0
  OBVIOUS
<1> QED BY <1>2, <1>3, <1>4, <1>5, <1>6

(* The root of a subtree is new. *)
LEMMA SubTreeShape ==
  ASSUME NeedsInv, PlanShapeInv, SkipSubTree \/ StartSubTree
  PROVE  /\ PlanShapeInv' /\ phase' \in {"subtree", "cells"}
         /\ \E es : Listed(es) /\ entries' = entries \o es
<1> DEFINE w == <<sub>>
           root == <<DirEntry(RootOf(SubTree), {"mode"}, NoTraits)>>
<1>1. phase = "subtree" /\ sub <= 8 /\ nextCell' = nextCell /\ groups' = groups
  BY DEF SkipSubTree, StartSubTree, SubTrees
<1>2. /\ Sound(entries) /\ used = PathsOf(entries) /\ groups = GroupsOf(entries)
      /\ nextCell \in Nat /\ sub \in 1 .. 8
      /\ \A p \in PathsOf(entries) : p = Base \/ p[1] < sub
  BY <1>1 DEF PlanShapeInv, GrownInv, BehindInv, NeedsInv, PlanInv
<1>3. w \in Paths /\ w # Base /\ Dir[w] = Base /\ Len(w) = 1 /\ w[1] = sub
  BY <1>2, RootIs
<1>4. /\ Block(w, root) /\ GroupsOf(root) = {}
      /\ Block(w, root \o Anchors) /\ GroupsOf(root \o Anchors) = {}
      /\ (root \o Anchors)[1].kind = "dir"
  BY <1>2, RootBlock
<1>5. PathsOf(root) = {w}
  <2> DEFINE e == DirEntry(RootOf(SubTree), {"mode"}, NoTraits)
  <2>1. e.path = w
    BY <1>2, RootIs DEF SubTree, DirEntry, CoverageEntry
  <2>2. root = <<e>>
    OBVIOUS
  <2> HIDE DEF e, root
  <2> QED BY <2>1, <2>2 DEF PathsOf
<1> HIDE DEF w, root
<1>6. ASSUME NEW m \in Int PROVE w \o <<m>> # Base /\ (w \o <<m>>)[1] = sub
  <2>1. w \o <<m>> # Base /\ \A i \in 1 .. Len(w) : (w \o <<m>>)[i] = w[i]
    BY <1>3, Below, ZenonT(60)
  <2>2. 1 \in 1 .. Len(w)
    BY <1>3
  <2> QED BY <1>3, <2>1, <2>2
<1>7. Unused(entries, w)
  <2>1. ASSUME NEW p \in PathsOf(entries) PROVE p # w /\ \A m \in Int : p # w \o <<m>>
    BY <1>2, <1>3, <1>6
  <2> QED BY <2>1 DEF Unused
<1>8. HasDir(entries, Dir[w])
  BY <1>2, <1>3, <1>4, DirsStay
<1>9. CASE SkipSubTree
  <2>1. AppendEntries(root, "subtree") /\ sub' = sub + 1
    BY <1>9 DEF SkipSubTree, root
  <2>2. /\ phase' = "subtree" /\ Sound(entries') /\ used' = PathsOf(entries')
        /\ PathsOf(entries') = PathsOf(entries) \cup PathsOf(root)
        /\ GroupsOf(entries') = GroupsOf(entries) \cup GroupsOf(root)
        /\ entries' = entries \o root
    BY <1>2, <1>3, <1>4, <1>7, <1>8, <2>1, AppendBlock
  <2>3. GrownInv'
    BY <1>1, <1>2, <1>4, <2>2 DEF GrownInv
  <2>4. ASSUME NEW p \in PathsOf(entries') PROVE p = Base \/ p[1] < sub'
    <3>1. CASE p \in PathsOf(entries) /\ p # Base
      <4>1. p \in Paths /\ p[1] < sub
        BY <1>2, <3>1, PathsTyped
      <4>2. p[1] \in Int
        BY <3>1, <4>1 DEF Paths, Base
      <4> QED BY <1>2, <2>1, <4>1, <4>2
    <3>2. CASE p = w
      BY <1>2, <1>3, <2>1, <3>2
    <3> QED BY <1>5, <2>2, <3>1, <3>2
  <2>5. BehindInv'
    BY <2>2, <2>4 DEF BehindInv
  <2>6. PlanShapeInv'
    BY <2>2, <2>3, <2>5 DEF PlanShapeInv, EndInv
  <2> QED BY <1>4, <2>2, <2>6 DEF Block
<1>10. CASE StartSubTree
  <2> DEFINE es == root \o Anchors
  <2>1. /\ AppendEntries(es, "cells") /\ sub' = sub /\ cell' = [case |-> 1, rep |-> 0]
        /\ call' = call
    BY <1>10 DEF StartSubTree, root, callVars
  <2> HIDE DEF es
  <2>2. /\ phase' = "cells" /\ Sound(entries') /\ used' = PathsOf(entries')
        /\ PathsOf(entries') = PathsOf(entries) \cup PathsOf(es)
        /\ GroupsOf(entries') = GroupsOf(entries) \cup GroupsOf(es)
        /\ entries' = entries \o es
    BY <1>2, <1>3, <1>4, <1>7, <1>8, <2>1, AppendBlock DEF es
  <2>3. GrownInv'
    BY <1>1, <1>2, <1>4, <2>2 DEF GrownInv, es
  <2>4. HasDir(entries, <<sub>>)'
    <3>1. HasDir(entries \o es, w)
      BY <1>2, <1>4, DirsStay DEF es
    <3>2. HasDir(entries', w)
      BY <2>2, <3>1
    <3> QED BY <2>1, <3>2 DEF w, HasDir
  <2>5. cell'.rep = 0 /\ cell'.case = 1
    BY <2>1
  <2>6. (NextBlock \in Nat)'
    <3>1. NextBlock' = IF SubTree' = "special"
                       THEN (cell'.case - 1) * Multiplier(call'.opts.effort) + cell'.rep ELSE nextCell'
      BY DEF NextBlock, NextSpecial, BlockNumber, Multiplier
    <3>2. (1 - 1) * Multiplier(call'.opts.effort) + 0 = 0
      BY MultiplierIs
    <3> QED BY <1>1, <1>2, <2>5, <3>1, <3>2
  <2>7. ASSUME NEW p \in PathsOf(entries') PROVE Behind(p, sub', NextBlock')
    <3>1. CASE p \in PathsOf(entries)
      BY <1>2, <2>1, <3>1 DEF Behind
    <3>2. CASE p = w
      <4>1. sub' = sub /\ ~ (1 > 1)
        BY <2>1
      <4>2. w[1] = sub /\ Len(w) = 1
        BY <1>3
      <4>3. p[1] = sub' /\ ~ (Len(p) > 1)
        BY ONLY <3>2, <4>1, <4>2
      <4> QED BY <4>3 DEF Behind
    <3>3. CASE p \in PathsOf(Anchors)
      <4>1. p[1] = 3 /\ SubTree = "symlinks" /\ p[2] < 0 /\ p \in Paths
        BY <3>3, AnchorsBehind
      <4>2. sub = 3
        <5>1. RootOf(SubTree) = <<sub>>
          BY <1>2, RootIs DEF SubTree
        <5> QED BY <4>1, <5>1, AnchorsIn
      <4>3. Len(p) > 1 => p[2] < NextBlock'
        <5>1. Len(p) > 1 => p[2] \in Int
          BY <4>1 DEF Paths
        <5> HIDE DEF NextBlock
        <5> QED BY <2>6, <4>1, <5>1
      <4> QED BY <2>1, <4>1, <4>2, <4>3 DEF Behind
    <3>4. PathsOf(es) = PathsOf(root) \cup PathsOf(Anchors)
      <4>1. Listed(root) /\ Listed(Anchors)
        <5>1. Listed(root)
          BY <1>4 DEF Block
        <5>2. Listed(Anchors)
          BY AnchorsListed
        <5> QED BY <5>1, <5>2
      <4> QED BY <4>1, JoinedPaths DEF es
    <3> QED BY <1>5, <2>2, <3>1, <3>2, <3>3, <3>4
  <2>8. cell'.rep \in 0 .. (Multiplier(call.opts.effort)' - 1)
    <3>1. Multiplier(call.opts.effort)' = Multiplier(call'.opts.effort)
      BY DEF Multiplier
    <3> QED BY <2>5, <3>1, MultiplierIs
  <2>9. BehindInv'
    BY <2>2, <2>4, <2>7, <2>8 DEF BehindInv, Behind
  <2>10. PlanShapeInv'
    BY <2>2, <2>3, <2>9 DEF PlanShapeInv, EndInv
  <2>11. Listed(es)
    BY <1>4 DEF Block, es
  <2> QED BY <2>2, <2>10, <2>11
<1> QED BY <1>9, <1>10

(* The repetitions of the cases are numbered one after the other. *)
LEMMA SpecialNumbers ==
  ASSUME NEW m \in {1, 3, 10, 50}, NEW i \in Nat \ {0}, NEW r \in 0 .. (m - 1)
  PROVE  /\ (i - 1) * m + r \in Nat
         /\ (i - 1) * m + (r + 1) = (i - 1) * m + r + 1
         /\ ~ (r + 1 < m) =>
              \A j, q : j = i + 1 /\ q = 0 => (j - 1) * m + q = (i - 1) * m + r + 1
         /\ r + 1 < m => r + 1 \in 0 .. (m - 1)
         /\ 0 \in 0 .. (m - 1)
<1>1. CASE m = 1
  BY <1>1
<1>2. CASE m = 3
  BY <1>2
<1>3. CASE m = 10
  BY <1>3
<1>4. CASE m = 50
  BY <1>4
<1> QED BY <1>1, <1>2, <1>3, <1>4

(* Every cell is a new block. *)
LEMMA EmitShape ==
  ASSUME NeedsInv, PairInv, PlanShapeInv, EmitCell
  PROVE  /\ PlanShapeInv' /\ phase' = "cells"
         /\ NextBlock \in Nat /\ NextBlock' = NextBlock + 1
         /\ LET es == CellEntries(SubTree, Traits(SubTree, cases[cell.case]), NextSpecial)
            IN  Listed(es) /\ entries' = entries \o es
         /\ \A d \in DOMAIN Axes(SubTree) :
              cases[cell.case][d] \in 0 .. (Len(AxisValues(SubTree, Axes(SubTree)[d])) - 1)
<1> DEFINE m == Multiplier(call.opts.effort)
           case == cases[cell.case]
           es == CellEntries(SubTree, Traits(SubTree, case), NextSpecial)
           r == <<sub>>
           n == NextBlock
           w == r \o <<n>>
<1>1. /\ phase = "cells" /\ AppendEntries(es, "cells") /\ cell.case <= Len(cases)
      /\ groups' = groups \cup (IF SubTree = "hardlinks" THEN {GroupOf(es)} ELSE {})
      /\ cell' = IF cell.rep + 1 < m THEN [cell EXCEPT !.rep = cell.rep + 1]
                 ELSE [case |-> cell.case + 1, rep |-> 0]
      /\ nextCell' = AdvanceCell(SubTree)
      /\ sub' = sub /\ call' = call
  BY DEF EmitCell, NextSpecial, callVars
<1>2. /\ Sound(entries) /\ used = PathsOf(entries) /\ groups = GroupsOf(entries)
      /\ nextCell \in Nat /\ cell.rep \in 0 .. (m - 1) /\ HasDir(entries, r)
      /\ \A p \in PathsOf(entries) : Behind(p, sub, n)
  BY <1>1 DEF PlanShapeInv, GrownInv, BehindInv
<1>3. /\ sub \in 1 .. 8 /\ Scaled /\ dimSizes = DimSizes(SubTree)
      /\ cell = [case |-> cell.case, rep |-> cell.rep] /\ cell.case \in Nat \ {0}
  BY <1>1 DEF NeedsInv, PlanInv, CellsInv
<1>4. /\ RootOf(SubTree) = r /\ r \in Paths /\ Len(r) = 1 /\ r[1] = sub
      /\ SubTree \in SubTreeNames
  BY <1>3, RootIs, SubTreeNamed DEF SubTree
<1>5. m \in {1, 3, 10, 50}
  BY MultiplierIs
<1>6. NextSpecial \in Nat /\ n \in Nat
  <2>1. NextSpecial \in Nat
    BY <1>2, <1>3, <1>5, SpecialNumbers DEF NextSpecial
  <2> QED BY <1>2, <2>1 DEF NextBlock, BlockNumber
<1>7. ASSUME NEW d \in DOMAIN Axes(SubTree)
      PROVE  case[d] \in 0 .. (Len(AxisValues(SubTree, Axes(SubTree)[d])) - 1)
  <2>1. cell.case \in DOMAIN cases
    BY <1>1, <1>3 DEF PairInv
  <2>2. \A c \in DOMAIN dimSizes : case[c] \in 0 .. (dimSizes[c] - 1)
    BY <2>1 DEF PairInv, CasesEarnTheirPlace, Values
  <2>3. d \in DOMAIN dimSizes /\ dimSizes[d] = Len(AxisValues(SubTree, Axes(SubTree)[d]))
    BY <1>3 DEF DimSizes
  <2> HIDE DEF case
  <2> QED BY <2>2, <2>3
<1>8. /\ Block(w, es)
      /\ GroupsOf(es) = IF SubTree = "hardlinks" THEN {GroupOf(es)} ELSE {}
  <2> HIDE DEF case
  <2>1. n = BlockNumber(SubTree, NextSpecial)
    BY DEF NextBlock
  <2>2. NextSpecial \in Int /\ RootOf(SubTree) \in Paths
    BY <1>4, <1>6
  <2>3. /\ Block(RootOf(SubTree) \o <<BlockNumber(SubTree, NextSpecial)>>, es)
        /\ GroupsOf(es) = IF SubTree = "hardlinks" THEN {GroupOf(es)} ELSE {}
    <3>1. Scaled /\ SubTree \in SubTreeNames /\ nextCell \in Nat
      BY <1>2, <1>3, <1>4
    <3>2. \A d \in DOMAIN Axes(SubTree) :
            case[d] \in 0 .. (Len(AxisValues(SubTree, Axes(SubTree)[d])) - 1)
      BY <1>7
    <3> QED BY ONLY <2>2, <3>1, <3>2, CellBlock
  <2> HIDE DEF es, r, n
  <2> QED BY <1>4, <2>1, <2>3
<1> HIDE DEF es, r, n, m
<1>9. /\ w \in Paths /\ w # Base /\ Dir[w] = r /\ Len(w) = 2 /\ w[1] = sub /\ w[2] = n
  <2>1. /\ w \in Paths /\ w # Base /\ Dir[w] = r
        /\ Len(w) = Len(r) + 1 /\ w[Len(r) + 1] = n
        /\ \A i \in 1 .. Len(r) : w[i] = r[i]
    <3>1. r \in Paths /\ n \in Int
      BY <1>4, <1>6
    <3> QED BY ONLY <3>1, Below, ZenonT(60) DEF w
  <2>2. Len(r) + 1 = 2 /\ 1 \in 1 .. Len(r)
    BY <1>4
  <2> QED BY <1>4, <2>1, <2>2
<1> HIDE DEF w
<1>10. ASSUME NEW k \in Int
       PROVE  /\ w \o <<k>> \in Paths /\ w \o <<k>> # Base
              /\ Len(w \o <<k>>) = 3 /\ (w \o <<k>>)[1] = sub /\ (w \o <<k>>)[2] = n
  <2>1. /\ w \o <<k>> \in Paths /\ w \o <<k>> # Base
        /\ Len(w \o <<k>>) = Len(w) + 1
        /\ \A i \in 1 .. Len(w) : (w \o <<k>>)[i] = w[i]
    <3>1. w \in Paths /\ k \in Int
      BY <1>9
    <3> QED BY ONLY <3>1, Below, ZenonT(60)
  <2>2. Len(w) + 1 = 3 /\ 1 \in 1 .. Len(w) /\ 2 \in 1 .. Len(w)
    BY <1>9
  <2> QED BY <1>9, <2>1, <2>2
<1>11. ASSUME NEW p, p # Base, p[1] = sub, Len(p) > 1, p[2] = n
       PROVE  p \notin PathsOf(entries)
  <2>1. ~ Behind(p, sub, n)
    BY <1>3, <1>6, <1>11 DEF Behind
  <2> QED BY <1>2, <2>1
<1>12. Unused(entries, w)
  <2>0. 2 > 1 /\ 3 > 1
    OBVIOUS
  <2>1. w \notin PathsOf(entries)
    BY <1>9, <1>11, <2>0
  <2>2. ASSUME NEW k \in Int PROVE w \o <<k>> \notin PathsOf(entries)
    BY <1>10, <1>11, <2>0
  <2> QED BY <2>1, <2>2 DEF Unused
<1>13. /\ phase' = "cells" /\ Sound(entries') /\ used' = PathsOf(entries')
       /\ PathsOf(entries') = PathsOf(entries) \cup PathsOf(es)
       /\ GroupsOf(entries') = GroupsOf(entries) \cup GroupsOf(es)
       /\ entries' = entries \o es
  <2>1. HasDir(entries, Dir[w])
    BY <1>2, <1>9
  <2> QED BY <1>1, <1>2, <1>8, <1>9, <1>12, <2>1, AppendBlock
<1>14. GrownInv'
  <2>1. nextCell' \in Nat
    BY <1>1, <1>2 DEF AdvanceCell
  <2> QED BY <1>1, <1>2, <1>8, <1>13, <2>1 DEF GrownInv
<1>15. HasDir(entries, <<sub>>)'
  <2>1. HasDir(entries', r)
    BY <1>2, <1>8, <1>13, DirsStay
  <2> QED BY <1>1, <2>1 DEF HasDir, r
<1>16. cell'.rep \in 0 .. (m - 1) /\ NextSpecial' = NextSpecial + 1
  <2>1. NextSpecial' = (cell'.case - 1) * m + cell'.rep
    BY <1>1 DEF NextSpecial, m, Multiplier
  <2>2. NextSpecial = (cell.case - 1) * m + cell.rep
    BY DEF NextSpecial, m
  <2> DEFINE i == cell.case
             q == cell.rep
  <2>3. m \in {1, 3, 10, 50} /\ i \in Nat \ {0} /\ q \in 0 .. (m - 1)
    BY <1>2, <1>3, <1>5
  <2>4. /\ (i - 1) * m + (q + 1) = (i - 1) * m + q + 1
        /\ ~ (q + 1 < m) =>
             \A x, y : x = i + 1 /\ y = 0 => (x - 1) * m + y = (i - 1) * m + q + 1
        /\ q + 1 < m => q + 1 \in 0 .. (m - 1)
        /\ 0 \in 0 .. (m - 1)
    <3> HIDE DEF i, q
    <3> QED BY ONLY <2>3, SpecialNumbers
  <2>5. CASE cell.rep + 1 < m
    <3>1. cell'.case = cell.case /\ cell'.rep = cell.rep + 1
      BY <1>1, <1>3, <2>5
    <3> QED BY <2>1, <2>2, <2>5, <2>4, <3>1
  <2>6. CASE ~ (cell.rep + 1 < m)
    <3>1. cell'.case = cell.case + 1 /\ cell'.rep = 0
      BY <1>1, <2>6
    <3>2. (cell'.case - 1) * m + cell'.rep = (i - 1) * m + q + 1
      BY <2>4, <2>6, <3>1
    <3> QED BY <2>1, <2>2, <2>4, <3>1, <3>2
  <2> QED BY <2>5, <2>6
<1>17. NextBlock' = n + 1
  <2>1. SubTree' = SubTree
    BY <1>1 DEF SubTree
  <2>2. NextBlock' = IF SubTree' = "special" THEN NextSpecial' ELSE nextCell'
    BY DEF NextBlock, BlockNumber
  <2>3. n = IF SubTree = "special" THEN NextSpecial ELSE nextCell
    BY DEF NextBlock, BlockNumber, n
  <2>4. nextCell' = IF SubTree = "special" THEN nextCell ELSE nextCell + 1
    BY <1>1 DEF AdvanceCell
  <2> QED BY <1>16, <2>1, <2>2, <2>3, <2>4
<1>18. ASSUME NEW p \in PathsOf(entries') PROVE Behind(p, sub', NextBlock')
  <2>1. n < n + 1 /\ n + 1 = NextBlock' /\ sub' = sub
    BY <1>1, <1>6, <1>17
  <2>2. CASE p \in PathsOf(entries)
    <3>1. Behind(p, sub, n)
      BY <1>2, <2>2
    <3>2. Len(p) > 1 => p[2] \in Int
      BY <1>2, <2>2, PathsTyped DEF Paths
    <3>3. Len(p) > 1 /\ p[2] < n => p[2] < n + 1
      BY <1>6, <3>2
    <3> HIDE DEF NextBlock
    <3> QED BY <2>1, <3>1, <3>3 DEF Behind
  <2>3. CASE p \in PathsOf(es)
    <3>1. p = w \/ \E k \in Int : p = w \o <<k>>
      BY <1>8, <2>3, BlockPaths
    <3>2. p[1] = sub /\ p[2] = n
      <4>1. CASE p = w
        BY <1>9, <4>1
      <4>2. CASE \E k \in Int : p = w \o <<k>>
        <5>1. PICK k \in Int : p = w \o <<k>>
          BY <4>2
        <5>2. (w \o <<k>>)[1] = sub /\ (w \o <<k>>)[2] = n
          BY <1>10
        <5> QED BY ONLY <5>1, <5>2
      <4> QED BY <3>1, <4>1, <4>2
    <3> HIDE DEF NextBlock
    <3> QED BY <2>1, <3>2 DEF Behind
  <2> QED BY <1>13, <2>2, <2>3
<1>19. Multiplier(call.opts.effort)' = m
  BY <1>1 DEF Multiplier, m
<1>20. BehindInv'
  <2> HIDE DEF NextBlock
  <2> QED BY <1>13, <1>15, <1>16, <1>18, <1>19 DEF BehindInv, Behind
<1>21. PlanShapeInv'
  BY <1>13, <1>14, <1>20 DEF PlanShapeInv, EndInv
<1>22. Listed(es)
  BY <1>8 DEF Block
<1> QED BY <1>6, <1>7, <1>13, <1>17, <1>21, <1>22 DEF es, n

(* What the invariant speaks of may stay as it is. *)
LEMMA ShapeStays ==
  ASSUME PlanShapeInv, UNCHANGED <<entries, used, groups, nextCell, sub, cell, call, phase>>
  PROVE  PlanShapeInv'
<1>1. /\ NextBlock' = NextBlock /\ Multiplier(call.opts.effort)' = Multiplier(call.opts.effort)
  BY DEF NextBlock, BlockNumber, NextSpecial, SubTree, Multiplier
<1>2. GrownInv'
  BY DEF PlanShapeInv, GrownInv
<1>3. BehindInv'
  <2> HIDE DEF NextBlock
  <2>1. HasDir(entries, <<sub>>) => HasDir(entries, <<sub>>)'
    BY DEF HasDir
  <2>2. \A p : Behind(p, sub, NextBlock)' = Behind(p, sub, NextBlock)
    BY <1>1 DEF Behind
  <2>3. PathsOf(entries)' = PathsOf(entries)
    BY DEF PathsOf
  <2> QED BY <1>1, <2>1, <2>2, <2>3 DEF PlanShapeInv, BehindInv
<1>4. EndInv'
  BY DEF PlanShapeInv, EndInv, Refuses
<1> QED BY <1>2, <1>3, <1>4 DEF PlanShapeInv

(* Outside the enumeration there is nothing to be known of the plan. *)
LEMMA ElsewhereShape ==
  ASSUME EndInv', phase' \notin {"subtree", "cells", "planned"}
  PROVE  PlanShapeInv'
BY DEF PlanShapeInv, GrownInv, BehindInv

(* A subtree ends, and so does the enumeration. *)
LEMMA LeaveShape ==
  ASSUME NeedsInv, PlanShapeInv, EndSubTree \/ Planned
  PROVE  PlanShapeInv'
<1>1. UNCHANGED <<entries, used, groups, nextCell>>
  BY DEF EndSubTree, Planned, planVars
<1>2. phase \in {"subtree", "cells"} /\ sub \in Nat
  BY DEF EndSubTree, Planned, NeedsInv, PlanInv
<1>3. Sound(entries) /\ used = PathsOf(entries) /\ groups = GroupsOf(entries) /\ nextCell \in Nat
  BY <1>2 DEF PlanShapeInv, GrownInv
<1>4. GrownInv'
  BY <1>1, <1>3 DEF GrownInv
<1>5. CASE EndSubTree
  <2>1. phase = "cells" /\ phase' = "subtree" /\ sub' = sub + 1
    BY <1>5 DEF EndSubTree
  <2>2. ASSUME NEW p \in PathsOf(entries) PROVE p = Base \/ p[1] < sub'
    <3>1. Behind(p, sub, NextBlock)
      BY <2>1 DEF PlanShapeInv, BehindInv
    <3>2. p = Base \/ p[1] < sub \/ p[1] = sub
      BY <3>1 DEF Behind
    <3>3. p # Base => p[1] \in Int
      BY <1>3, PathsTyped DEF Paths, Base
    <3> QED BY <1>2, <2>1, <3>2, <3>3
  <2>3. BehindInv'
    BY <1>1, <2>1, <2>2 DEF BehindInv, PathsOf
  <2> QED BY <1>4, <2>1, <2>3 DEF PlanShapeInv, EndInv
<1>6. CASE Planned
  <2>1. phase' = "planned" /\ sub' = sub /\ sub > 8
    BY <1>6 DEF Planned, planVars, SubTrees
  <2> QED BY <1>4, <2>1 DEF PlanShapeInv, BehindInv, EndInv
<1> QED BY <1>5, <1>6

(* What follows the plan fails after the last subtree; a run at random *)
(* has no effort.                                                      *)
LEMMA EndShape ==
  ASSUME PlanShapeInv, ReportSpec \/ OverLimit \/ StartApply \/ ApplyEnds \/ PlanAtRandom
  PROVE  PlanShapeInv'
<1>1. UNCHANGED <<sub, call>> /\ phase \in {"planned", "applying", "planning"}
  BY DEF ReportSpec, OverLimit, StartApply, ApplyEnds, PlanAtRandom, callVars, planVars
<1>2. /\ phase' \in {"returned", "failed", "applying"}
      /\ phase = "planning" => phase' \in {"returned", "failed"}
  BY DEF ReportSpec, OverLimit, StartApply, ApplyEnds, PlanAtRandom, ApplyTo
<1>3. sub > 8 \/ (phase = "planning" /\ Refuses(call.kind, call.asked))
  BY <1>1 DEF PlanShapeInv, EndInv
<1>4. Refuses(call.kind, call.asked)' = Refuses(call.kind, call.asked)
  BY <1>1 DEF Refuses
<1>5. EndInv'
  BY <1>1, <1>2, <1>3, <1>4 DEF EndInv
<1> QED BY <1>2, <1>5, ElsewhereShape

(* A call that starts is refused, or goes on to be planned. *)
LEMMA StartShape ==
  ASSUME NEW kind, NEW o, StartCall(kind, o)
  PROVE  PlanShapeInv'
<1>1. call'.kind = kind /\ call'.asked = o
  BY DEF StartCall
<1>2. /\ phase' \in {"failed", "probe-xattr", "resolve"}
      /\ phase' = "failed" => Refuses(kind, o)
  BY DEF StartCall
<1>3. Refuses(call.kind, call.asked)' = Refuses(kind, o)
  BY <1>1 DEF Refuses
<1>4. EndInv'
  BY <1>2, <1>3 DEF EndInv
<1> QED BY <1>2, <1>4, ElsewhereShape

(* A run at random names no effort. *)
LEMMA RandomShape ==
  ASSUME RunRandom
  PROVE  PlanShapeInv'
<1>1. call'.asked = NoCoverage /\ phase' \in {"returned", "planning", "failed"}
  BY DEF RunRandom, NoCall
<1>2. Refuses(call.kind, call.asked)'
  BY <1>1 DEF Refuses, NoCoverage, Efforts
<1>3. EndInv'
  BY <1>1, <1>2 DEF EndInv
<1> QED BY <1>1, <1>3, ElsewhereShape

(* A probe settles nothing. *)
LEMMA ProbeShape ==
  ASSUME ProbeXAttrSupport \/ ProbeACLSupport
  PROVE  PlanShapeInv'
<1>1. phase' \in {"probe-acl", "resolve"}
  BY DEF ProbeXAttrSupport, ProbeACLSupport
<1>2. EndInv'
  BY <1>1 DEF EndInv
<1> QED BY <1>1, <1>2, ElsewhereShape

LEMMA PlanShapeInit == CoverageInit => PlanShapeInv
BY DEF CoverageInit, PlanShapeInv, GrownInv, BehindInv, EndInv

(* Every step keeps the plan sound. *)
LEMMA PlanShapeStep ==
  ASSUME PlanShapeInv, NeedsInv, PairInv, [CoverageNext]_coverageVars
  PROVE  PlanShapeInv'
<1>1. CASE CallStep
  <2>1. CASE SearchCases
    <3>1. UNCHANGED <<entries, used, groups, nextCell, sub, cell, call, phase>>
      BY <2>1 DEF SearchCases, callVars, planVars
    <3> QED BY <3>1, ShapeStays
  <2>2. CASE Configuring
    <3>1. UNCHANGED <<entries, used, groups, nextCell, sub, cell, call, phase>>
      BY <2>2 DEF Configuring, callVars, planVars
    <3> QED BY <3>1, ShapeStays
  <2> QED BY <1>1, <2>1, <2>2, ProbeShape, ResolveShape, SubTreeShape, EmitShape, LeaveShape,
             EndShape DEF CallStep
<1>2. CASE \E c \in env.calls : StartCall(c.kind, c.opts)
  BY <1>2, StartShape
<1>3. CASE \E options \in env.options : CallConfigure(options)
  <2>1. UNCHANGED <<entries, used, groups, nextCell, sub, cell, call, phase>>
    BY <1>3 DEF CallConfigure, callVars, planVars
  <2> QED BY <2>1, ShapeStays
<1>4. CASE RunCoverage
  BY <1>4, StartShape DEF RunCoverage
<1>5. CASE RunRandom
  BY <1>5, RandomShape
<1>6. CASE UNCHANGED coverageVars
  <2>1. UNCHANGED <<entries, used, groups, nextCell, sub, cell, call, phase>>
    BY <1>6 DEF coverageVars, callVars, planVars
  <2> QED BY <2>1, ShapeStays
<1> QED BY <1>1, <1>2, <1>3, <1>4, <1>5, <1>6 DEF CoverageNext

(* The plan is sound throughout. *)
LEMMA PlanShapeHolds == CoverageSpec => []PlanShapeInv
<1>1. PlanShapeInv /\ NeedsInv /\ PairInv /\ [CoverageNext]_coverageVars => PlanShapeInv'
  BY PlanShapeStep
<1> QED BY <1>1, NeedsInvHolds, PlanShapeInit, PTL DEF CoverageSpec

(* A sound plan is one the apply pipeline takes. *)
LEMMA SoundSuffices == PlanShapeInv => CoverageWellFormed
<1> SUFFICES ASSUME PlanShapeInv PROVE CoverageWellFormed
  OBVIOUS
<1>1. ASSUME phase = "planned"
      PROVE  /\ WellFormedPlan(RunPlan)
             /\ groups = {{entries[o].path} \cup
                            {entries[k].path : k \in {j \in DOMAIN entries :
                                                        entries[j].kind = "hardlink"
                                                        /\ entries[j].target = entries[o].path}} :
                          o \in {j \in DOMAIN entries : \E k \in DOMAIN entries :
                                   /\ entries[k].kind = "hardlink"
                                   /\ entries[k].target = entries[j].path}}
  <2>1. Sound(entries) /\ groups = GroupsOf(entries)
    BY <1>1 DEF PlanShapeInv, GrownInv
  <2>2. Len(entries) \in Nat /\ DOMAIN entries = 1 .. Len(entries) /\ entries # <<>>
        /\ \A k \in DOMAIN entries : IsEntry(entries[k])
    BY <2>1, InList DEF Sound
  <2> DEFINE pl == RunPlan
  <2>3. /\ DOMAIN pl = DOMAIN entries
        /\ \A k \in DOMAIN entries :
             /\ pl[k] \in Entry
             /\ pl[k].kind = entries[k].kind /\ pl[k].path = entries[k].path
             /\ pl[k].target = entries[k].target
    BY <2>2 DEF RunPlan, Entry, IsEntry
  <2>4. pl \in Seq(Entry)
    <3>1. pl = [k \in 1 .. Len(entries) |-> pl[k]]
      BY <2>2 DEF RunPlan
    <3> HIDE DEF pl
    <3>2. pl \in [1 .. Len(entries) -> Entry]
      BY <2>2, <2>3, <3>1
    <3> QED BY <2>2, <3>2
  <2> HIDE DEF pl
  <2>5. RootFirst(pl)
    <3>1. 1 \in DOMAIN entries
      <4>1. PICK S : entries \in Seq(S)
        BY <2>1 DEF Sound, Listed
      <4> QED BY <2>2, <4>1
    <3> QED BY <2>1, <2>2, <2>3, <3>1 DEF Sound, RootFirst
  <2>6. PathsDistinct(pl)
    BY <2>1, <2>3 DEF Sound, PathsDistinct
  <2>7. ParentsFirst(pl)
    <3>1. ASSUME NEW j \in DOMAIN pl, pl[j].path # Base
          PROVE  \E k \in 1 .. (j - 1) : pl[k].kind = "dir" /\ pl[k].path = Dir[pl[j].path]
      <4>1. PICK k \in 1 .. (j - 1) :
              entries[k].kind = "dir" /\ entries[k].path = Dir[entries[j].path]
        BY <2>1, <2>3, <3>1 DEF Sound, ParentsFirst
      <4>2. k \in DOMAIN entries
        BY <2>2, <2>3
      <4> QED BY <2>3, <4>1, <4>2
    <3> QED BY <3>1 DEF ParentsFirst
  <2>8. LinksBackward(pl)
    <3>1. ASSUME NEW j \in DOMAIN pl, pl[j].kind = "hardlink"
          PROVE  \E k \in 1 .. (j - 1) :
                   pl[k].kind \in {"file", "hardlink"} /\ pl[k].path = pl[j].target
      <4>1. PICK k \in 1 .. (j - 1) :
              entries[k].kind \in {"file", "hardlink"} /\ entries[k].path = entries[j].target
        BY <2>1, <2>3, <3>1 DEF Sound, LinksBackward
      <4>2. k \in DOMAIN entries
        BY <2>2, <2>3
      <4> QED BY <2>3, <4>1, <4>2
    <3> QED BY <3>1 DEF LinksBackward
  <2>9. WellFormedPlan(pl)
    BY <2>4, <2>5, <2>6, <2>7, <2>8 DEF WellFormedPlan
  <2> DEFINE Links(p) == {entries[k].path : k \in {j \in DOMAIN entries :
                                                     entries[j].kind = "hardlink"
                                                     /\ entries[j].target = p}}
             Group(p) == {p} \cup Links(p)
             Origin == {j \in DOMAIN entries : \E k \in DOMAIN entries :
                          entries[k].kind = "hardlink" /\ entries[k].target = entries[j].path}
             P == {q \in PathsOf(entries) : Links(q) # {}}
  <2>10. GroupsOf(entries) = {Group(p) : p \in P}
    BY DEF GroupsOf, LinksTo
  <2>11. P = {entries[j].path : j \in Origin}
    BY DEF PathsOf
  <2> HIDE DEF Group, P, Origin
  <2>12. GroupsOf(entries) = {Group(entries[j].path) : j \in Origin}
    BY <2>10, <2>11
  <2> QED BY <2>1, <2>9, <2>12 DEF Group, Origin, pl
<1>2. phase = "failed" /\ ~ Refuses(call.kind, call.asked) => sub > Len(SubTrees)
  BY DEF PlanShapeInv, EndInv, SubTrees
<1> QED BY <1>1, <1>2 DEF CoverageWellFormed

(***************************************************************************)
(* The coverage plan is one the apply pipeline takes, for every scale of   *)
(* the dimensions, every effort and every host: base first, directories    *)
(* before what they hold, origins before their links, no path twice.  The  *)
(* enumeration never ends in a path collision (registerPath), and the      *)
(* registered groups are the origins with their links                      *)
(* (coverage_enumerator.go, registerHardlinkGroup).                        *)
(***************************************************************************)
THEOREM CoverageWellFormedHolds == CoverageSpec => []CoverageWellFormed
BY PlanShapeHolds, SoundSuffices, PTL

-----------------------------------------------------------------------------
(* Part six: the plan covers *)

(* A cell shows the values t. *)
CellShows(pl, n, c, t) ==
  \E k \in DOMAIN pl :
    /\ pl[k].traits = t
    /\ pl[k].path = <<n>> \o <<c>> \/ pl[k].path = (<<n>> \o <<c>>) \o <<0>>

(* So do m cells that follow each other. *)
Repeated(pl, n, t, b, m) == \A r \in 0 .. (m - 1) : CellShows(pl, n, b + r, t)

(* Two values of two dimensions. *)
BothOf(s, t, d, x, e, y) ==
  /\ {Axes(s)[d], Axes(s)[e]} \subseteq DOMAIN t
  /\ t[Axes(s)[d]] = AxisValues(s, Axes(s)[d])[x]
  /\ t[Axes(s)[e]] = AxisValues(s, Axes(s)[e])[y]

(* Every two values meet in m cells of the subtree. *)
PairsShown(pl, n, m) ==
  \A d \in DOMAIN Axes(SubTrees[n]), e \in DOMAIN Axes(SubTrees[n]) :
    d < e =>
      \A x \in DOMAIN AxisValues(SubTrees[n], Axes(SubTrees[n])[d]),
         y \in DOMAIN AxisValues(SubTrees[n], Axes(SubTrees[n])[e]) :
        \E t : \E b \in Int : BothOf(SubTrees[n], t, d, x, e, y) /\ Repeated(pl, n, t, b, m)

Times == Multiplier(call.opts.effort)

(* The subtrees enumerated so far show all their pairs. *)
ShownInv ==
  phase \in {"subtree", "cells", "planned"} =>
    \A n \in 1 .. 8 : n < sub /\ Enumerated(SubTrees[n]) => PairsShown(entries, n, Times)

(* The cases gone through are repeated, the one under way as far as it is. *)
RepeatedInv ==
  phase = "cells" =>
    /\ at # "done" => cell.case = 1 /\ cell.rep = 0
    /\ \A i \in DOMAIN cases : i < cell.case =>
         \E b \in Int : Repeated(entries, sub, Traits(SubTree, cases[i]), b, Times)
    /\ cell.rep # 0 =>
         Repeated(entries, sub, Traits(SubTree, cases[cell.case]), NextBlock - cell.rep, cell.rep)

CellsShownInv == ShownInv /\ RepeatedInv

-----------------------------------------------------------------------------

(* What a cell shows, it shows in a plan that has grown. *)
LEMMA ShowsStay ==
  ASSUME NEW a, NEW b, Listed(a), Listed(b), NEW n, NEW c, NEW t, CellShows(a, n, c, t)
  PROVE  CellShows(a \o b, n, c, t)
<1> DEFINE pl == a \o b
<1>1. /\ Len(a) \in Nat /\ Len(b) \in Nat /\ DOMAIN a = 1 .. Len(a)
      /\ DOMAIN pl = 1 .. (Len(a) + Len(b))
      /\ \A k \in 1 .. Len(a) : pl[k] = a[k]
  <2>1. Listed(a) /\ Listed(b)
    OBVIOUS
  <2> QED BY ONLY <2>1, Joined
<1> HIDE DEF pl
<1>2. \A k \in DOMAIN a : k \in DOMAIN pl /\ pl[k] = a[k]
  BY <1>1
<1>3. CellShows(pl, n, c, t)
  BY <1>2 DEF CellShows
<1> QED BY <1>3 DEF pl

(* So do the cells of a case. *)
LEMMA RepeatedStay ==
  ASSUME NEW a, NEW b, Listed(a), Listed(b), NEW n, NEW t, NEW c, NEW m, Repeated(a, n, t, c, m)
  PROVE  Repeated(a \o b, n, t, c, m)
BY ShowsStay DEF Repeated

(* And the pairs of a subtree. *)
LEMMA PairsStay ==
  ASSUME NEW a, NEW b, Listed(a), Listed(b), NEW n, NEW m, PairsShown(a, n, m)
  PROVE  PairsShown(a \o b, n, m)
BY RepeatedStay DEF PairsShown

(* The dimensions of a subtree have different names. *)
LEMMA AxesApart ==
  ASSUME NEW s, NEW d \in DOMAIN Axes(s), NEW e \in DOMAIN Axes(s), Axes(s)[d] = Axes(s)[e]
  PROVE  d = e
<1>1. Axes(s) \in {<<"mode", "name", "meta">>, <<"mode", "content", "size", "name", "meta">>,
                   <<"variant", "mode">>, <<"variant", "name">>}
  BY DEF Axes
<1>2. CASE Axes(s) = <<"mode", "name", "meta">>
  <2>1. d \in {1, 2, 3} /\ e \in {1, 2, 3}
    BY <1>2
  <2> QED BY <1>2, <2>1
<1>3. CASE Axes(s) = <<"mode", "content", "size", "name", "meta">>
  <2>1. d \in {1, 2, 3, 4, 5} /\ e \in {1, 2, 3, 4, 5}
    BY <1>3
  <2> QED BY <1>3, <2>1
<1>4. CASE Axes(s) = <<"variant", "mode">>
  <2>1. d \in {1, 2} /\ e \in {1, 2}
    BY <1>4
  <2> QED BY <1>4, <2>1
<1>5. CASE Axes(s) = <<"variant", "name">>
  <2>1. d \in {1, 2} /\ e \in {1, 2}
    BY <1>5
  <2> QED BY <1>5, <2>1
<1> QED BY <1>1, <1>2, <1>3, <1>4, <1>5

(* What a case selects in a dimension. *)
LEMMA TraitOf ==
  ASSUME NEW s, NEW case, NEW d \in DOMAIN Axes(s)
  PROVE  /\ Axes(s)[d] \in DOMAIN Traits(s, case)
         /\ Traits(s, case)[Axes(s)[d]] = AxisValues(s, Axes(s)[d])[case[d] + 1]
<1> DEFINE axis == Axes(s)[d]
           c == CHOOSE c \in DOMAIN Axes(s) : Axes(s)[c] = axis
<1>1. c \in DOMAIN Axes(s) /\ Axes(s)[c] = axis
  OBVIOUS
<1>2. Traits(s, case)[axis] = AxisValues(s, axis)[case[c] + 1] /\ axis \in DOMAIN Traits(s, case)
  BY DEF Traits
<1> HIDE DEF c
<1>3. c = d
  BY <1>1, AxesApart
<1> QED BY <1>2, <1>3

(* A list that begins with another one is no shorter. *)
LEMMA JoinThere ==
  ASSUME NEW S, NEW a \in Seq(S), NEW b \in Seq(S), a # <<>>
  PROVE  a \o b \in Seq(S) /\ a \o b # <<>>
<1>1. a \o b \in Seq(S) /\ Len(a \o b) = Len(a) + Len(b) /\ Len(a) # 0
  OBVIOUS
<1>2. Len(a \o b) # 0
  BY <1>1
<1> QED BY <1>1, <1>2

(* The lists that a subtree has for its dimensions are not empty. *)
LEMMA ValuesThere ==
  ASSUME Scaled, NEW s \in SubTreeNames, Enumerated(s), NEW d \in DOMAIN Axes(s)
  PROVE  \E S : AxisValues(s, Axes(s)[d]) \in Seq(S) /\ AxisValues(s, Axes(s)[d]) # <<>>
<1>1. /\ \E S : env.modes \in Seq(S) /\ env.modes # <<>>
      /\ \E S : env.names \in Seq(S) /\ env.names # <<>>
      /\ \E S : env.contents \in Seq(S) /\ env.contents # <<>>
      /\ \E S : env.sizes \in Seq(S) /\ env.sizes # <<>>
      /\ \E S : env.strategies \in Seq(S) /\ env.strategies # <<>>
      /\ \E S : env.timeVariants \in Seq(S) /\ env.timeVariants # <<>>
      /\ \E S : env.groupSizes \in Seq(S) /\ env.groupSizes # <<>>
  BY ScaleFacts
<1>2. \E S : MetaValues \in Seq(S) /\ MetaValues # <<>>
  <2>1. MetaValues \in Seq(MetaClasses)
    BY MetaValuesBacked
  <2>2. MetaValues # <<>>
    <3> DEFINE Str == {"none", "ownership", "timestamps", "full"}
               a == <<"none">>
               b == IF "ownership" \in caps THEN <<"ownership">> ELSE <<>>
               c == IF "timestamps" \in caps THEN <<"timestamps">> ELSE <<>>
               f == IF {"ownership", "timestamps", "xattr-user", "acl"} \subseteq caps
                    THEN <<"full">> ELSE <<>>
    <3>1. a \in Seq(Str) /\ b \in Seq(Str) /\ c \in Seq(Str) /\ f \in Seq(Str) /\ a # <<>>
      <4>1. "none" \in Str /\ "ownership" \in Str /\ "timestamps" \in Str /\ "full" \in Str
        OBVIOUS
      <4> HIDE DEF Str
      <4> QED BY <4>1, ShortSeqs
    <3>2. MetaValues = a \o b \o c \o f
      BY DEF MetaValues
    <3> HIDE DEF a, b, c, f, Str
    <3>3. a \o b \in Seq(Str) /\ a \o b # <<>>
      BY <3>1, JoinThere
    <3>4. a \o b \o c \in Seq(Str) /\ a \o b \o c # <<>>
      BY <3>1, <3>3, JoinThere
    <3>5. a \o b \o c \o f # <<>>
      BY <3>1, <3>4, JoinThere
    <3> QED BY <3>2, <3>5
  <2> QED BY <2>1, <2>2
<1>3. s = "special" => \E S : SpecialTypes \in Seq(S) /\ SpecialTypes # <<>>
  BY SpecialTypesBacked DEF Enumerated
<1>4. \E S : XAttrVariants \in Seq(S) /\ XAttrVariants # <<>>
  <2>1. PICK S : XAttrVariants \in Seq(S)
    BY XAttrVariantsBacked
  <2>2. PICK T : env.userXAttrs \in Seq(T) /\ env.userXAttrs # <<>>
    BY ScaleFacts
  <2> DEFINE R == T \cup {"xattr-trusted", "xattr-security"}
             b == IfEnabled("xattr-trusted")
             c == IfEnabled("xattr-security")
  <2>3. b \in Seq(R) /\ c \in Seq(R) /\ env.userXAttrs \in Seq(R)
    BY <2>2, IfEnabledSeq
  <2>4. XAttrVariants = env.userXAttrs \o b \o c
    BY DEF XAttrVariants
  <2> HIDE DEF R, b, c
  <2>5. env.userXAttrs \o b \in Seq(R) /\ env.userXAttrs \o b # <<>>
    BY <2>2, <2>3, JoinThere
  <2>6. env.userXAttrs \o b \o c # <<>>
    BY <2>3, <2>5, JoinThere
  <2> QED BY <2>1, <2>4, <2>6
<1>5. \E S : <<"regular", "exec">> \in Seq(S) /\ <<"regular", "exec">> # <<>>
  <2> DEFINE S == {"regular", "exec"}
  <2>1. <<"regular", "exec">> \in Seq(S) /\ <<"regular", "exec">> # <<>>
    OBVIOUS
  <2> HIDE DEF S
  <2> QED BY <2>1
<1>6. \E S : <<"base", "named-mask", "default-on-dir">> \in Seq(S)
             /\ <<"base", "named-mask", "default-on-dir">> # <<>>
  <2> DEFINE S == {"base", "named-mask", "default-on-dir"}
  <2>1. <<"base", "named-mask", "default-on-dir">> \in Seq(S)
        /\ <<"base", "named-mask", "default-on-dir">> # <<>>
    OBVIOUS
  <2> HIDE DEF S
  <2> QED BY <2>1
<1>7. \E S : Variants(s) \in Seq(S) /\ Variants(s) # <<>>
  BY <1>1, <1>3, <1>4, <1>6 DEF Variants
<1> QED BY <1>1, <1>2, <1>5, <1>7 DEF AxisValues

(* The first two elements of a list that one element begins. *)
LEMMA FirstOfJoin ==
  ASSUME NEW S, NEW h \in Seq(S), NEW c \in Seq(S), Len(h) = 1
  PROVE  /\ h \o c \in Seq(S) /\ (h \o c)[1] = h[1] /\ h \o c # <<>>
         /\ c # <<>> => 2 \in DOMAIN (h \o c) /\ (h \o c)[2] = c[1]
<1> DEFINE j == h \o c
<1>1. /\ j \in Seq(S) /\ Len(c) \in Nat /\ Len(j) = Len(h) + Len(c)
      /\ DOMAIN j = 1 .. (Len(h) + Len(c))
      /\ \A k \in 1 .. Len(h) : j[k] = h[k]
      /\ \A k \in 1 .. Len(c) : j[Len(h) + k] = c[k]
  <2>1. h \in Seq(S) /\ c \in Seq(S)
    OBVIOUS
  <2> QED BY ONLY <2>1
<1> HIDE DEF j
<1>2. j # <<>> /\ j[1] = h[1]
  <2>1. Len(j) # 0 /\ 1 \in 1 .. Len(h)
    BY <1>1
  <2> QED BY <1>1, <2>1
<1>3. ASSUME c # <<>>
      PROVE  2 \in DOMAIN j /\ j[2] = c[1]
  <2>1. Len(c) # 0
    BY <1>3
  <2>2. 1 \in 1 .. Len(c) /\ Len(h) + 1 = 2 /\ 2 \in 1 .. (Len(h) + Len(c))
    BY <1>1, <2>1
  <2> QED BY <1>1, <2>2
<1> QED BY <1>1, <1>2, <1>3 DEF j

(* The first entry in a cell shows the case it is made of. *)
LEMMA CellShowsCase ==
  ASSUME Scaled, NEW s \in SubTreeNames, NEW t, NEW n \in Int,
         NEW j, RootOf(s) = <<j>>, Listed(CellEntries(s, t, n)),
         s = "hardlinks" => t.variant \in Nat \ {0, 1}
  PROVE  CellShows(CellEntries(s, t, n), j, BlockNumber(s, n), t)
<1> DEFINE es == CellEntries(s, t, n)
           w == <<j>> \o <<BlockNumber(s, n)>>
<1>1. CASE s = "special"
  <2> DEFINE e == CoverageEntry(t.variant, w, NoPath, Stamped(ModeAttrs(t.mode)), "none", t)
  <2>1. es = <<e>>
    BY <1>1 DEF CellEntries, BlockNumber
  <2>2. e.traits = t /\ e.path = w
    BY DEF CoverageEntry
  <2> HIDE DEF e, es, w
  <2>3. 1 \in DOMAIN es /\ es[1] = e
    BY <2>1
  <2> QED BY <2>2, <2>3 DEF CellShows, w, es
<1>2. CASE s # "special"
  <2> DEFINE e == DirEntry(w, {"mode"}, NoTraits)
             h == <<e>>
             c == CellContent(s, w, t)
             leaf == w \o <<0>>
  <2>1. es = h \o c
    BY <1>2 DEF CellEntries, BlockNumber
  <2>2. c[1].traits = t /\ c[1].path = leaf /\ \E S : c \in Seq(S) /\ c # <<>>
    <3> HIDE DEF w, leaf
    <3>1. ASSUME NEW x, c = <<x>>, x.traits = t, x.path = leaf
          PROVE  c[1].traits = t /\ c[1].path = leaf /\ \E S : c \in Seq(S) /\ c # <<>>
      <4> HIDE DEF c
      <4>1. c \in Seq({x}) /\ c # <<>> /\ c[1] = x
        BY <3>1
      <4> QED BY <3>1, <4>1
    <3>2. \A a, v : /\ DirEntry(leaf, a, v).traits = v /\ DirEntry(leaf, a, v).path = leaf
                   /\ FileEntry(leaf, a, v).traits = v /\ FileEntry(leaf, a, v).path = leaf
      BY DEF DirEntry, FileEntry, CoverageEntry
    <3>3. \A p, q, v : LinkEntry(p, q, v, t).traits = t /\ LinkEntry(p, q, v, t).path = p
      BY DEF LinkEntry, CoverageEntry
    <3>4. CASE s = "symlinks"
      <4>1. \/ \E q, v : c = <<LinkEntry(leaf, q, v, t)>>
            \/ c = <<LinkEntry(leaf, w \o <<1>>, "cycle", t), LinkEntry(w \o <<1>>, leaf, "cycle", t)>>
        BY <3>4 DEF CellContent, SymlinkCell, leaf
      <4>2. CASE \E q, v : c = <<LinkEntry(leaf, q, v, t)>>
        BY <3>1, <3>3, <4>2
      <4>3. CASE c = <<LinkEntry(leaf, w \o <<1>>, "cycle", t), LinkEntry(w \o <<1>>, leaf, "cycle", t)>>
        <5> DEFINE x == LinkEntry(leaf, w \o <<1>>, "cycle", t)
                   y == LinkEntry(w \o <<1>>, leaf, "cycle", t)
        <5>1. x.traits = t /\ x.path = leaf /\ c = <<x, y>>
          BY <3>3, <4>3
        <5> HIDE DEF x, y, c
        <5>2. c \in Seq({x, y}) /\ c # <<>> /\ c[1] = x
          BY <5>1
        <5> QED BY <5>1, <5>2
      <4> QED BY <4>1, <4>2, <4>3
    <3>5. CASE s = "hardlinks"
      <4> DEFINE x == FileEntry(leaf, {"mode"}, t)
                 Link(m) == CoverageEntry("hardlink", w \o <<m>>, leaf, {}, "none", t)
                 k == t.variant - 1
                 links == [m \in 1 .. k |-> Link(m)]
                 S == {x} \cup {Link(m) : m \in 1 .. k}
                 f == <<x>>
      <4>1. c = f \o links
        BY <3>5 DEF CellContent, HardlinkCell, leaf
      <4>2. x.traits = t /\ x.path = leaf /\ k \in Nat
        BY <3>2, <3>5
      <4> HIDE DEF x, Link, k, c
      <4>3. links \in [1 .. k -> S]
        OBVIOUS
      <4>4. f \in Seq(S) /\ f[1] = x /\ Len(f) = 1
        OBVIOUS
      <4> HIDE DEF links, S, f
      <4>5. links \in Seq(S)
        BY <4>2, <4>3
      <4>6. f \o links \in Seq(S) /\ (f \o links)[1] = f[1] /\ f \o links # <<>>
        <5>1. f \in Seq(S) /\ links \in Seq(S) /\ Len(f) = 1
          BY <4>4, <4>5
        <5> QED BY ONLY <5>1, FirstOfJoin
      <4>7. c \in Seq(S) /\ c[1] = x /\ c # <<>>
        BY <4>1, <4>4, <4>6
      <4> QED BY <4>2, <4>7
    <3>6. CASE s \notin {"special", "symlinks", "hardlinks"}
      <4>1. \E a : c = <<DirEntry(leaf, a, t)>> \/ c = <<FileEntry(leaf, a, t)>>
        BY <3>6 DEF CellContent, SubTreeNames, leaf
      <4> QED BY <3>1, <3>2, <4>1
    <3> QED BY <1>2, <3>4, <3>5, <3>6
  <2>3. PICK S : c \in Seq(S) /\ c # <<>>
    BY <2>2
  <2> DEFINE R == S \cup {e}
  <2>4. h \in Seq(R) /\ Len(h) = 1 /\ c \in Seq(R)
    BY <2>3
  <2> HIDE DEF R, h, c, w, leaf, es
  <2>5. 2 \in DOMAIN (h \o c) /\ (h \o c)[2] = c[1]
    <3>1. h \in Seq(R) /\ c \in Seq(R) /\ Len(h) = 1 /\ c # <<>>
      BY <2>3, <2>4
    <3> QED BY ONLY <3>1, FirstOfJoin
  <2> QED BY <2>1, <2>2, <2>5 DEF CellShows, w, leaf, es
<1> QED BY <1>1, <1>2

(* A group of hard links has two names or more. *)
LEMMA GroupVariant ==
  ASSUME Scaled, NEW case,
         \A d \in DOMAIN Axes("hardlinks") :
           case[d] \in 0 .. (Len(AxisValues("hardlinks", Axes("hardlinks")[d])) - 1)
  PROVE  Traits("hardlinks", case).variant \in Nat \ {0, 1}
<1> DEFINE s == "hardlinks"
<1>1. Axes(s) = <<"variant", "name">>
  BY DEF Axes
<1>2. AxisValues(s, "variant") = env.groupSizes
  BY DEF AxisValues, Variants
<1>3. 1 \in DOMAIN Axes(s) /\ Axes(s)[1] = "variant"
  BY <1>1
<1>4. env.groupSizes \in Seq(Nat \ {0, 1})
  BY ScaleFacts
<1> QED BY <1>2, <1>3, <1>4, TraitIs

(* What a cell shows when it is appended, it shows in the plan. *)
LEMMA AppendedShows ==
  ASSUME NEW a, NEW b, Listed(a), Listed(b), NEW n, NEW c, NEW t, CellShows(b, n, c, t)
  PROVE  CellShows(a \o b, n, c, t)
<1> DEFINE pl == a \o b
<1>1. /\ Len(a) \in Nat /\ Len(b) \in Nat /\ DOMAIN b = 1 .. Len(b)
      /\ DOMAIN pl = 1 .. (Len(a) + Len(b))
      /\ \A k \in 1 .. Len(b) : pl[Len(a) + k] = b[k]
  <2>1. Listed(a) /\ Listed(b)
    OBVIOUS
  <2> QED BY ONLY <2>1, Joined
<1> HIDE DEF pl
<1>2. PICK k \in DOMAIN b :
        /\ b[k].traits = t
        /\ b[k].path = <<n>> \o <<c>> \/ b[k].path = (<<n>> \o <<c>>) \o <<0>>
  BY DEF CellShows
<1> DEFINE j == Len(a) + k
<1>3. j \in DOMAIN pl /\ pl[j] = b[k]
  BY <1>1
<1> HIDE DEF j
<1>4. CellShows(pl, n, c, t)
  BY <1>2, <1>3 DEF CellShows
<1> QED BY <1>4 DEF pl

(* A repetition more. *)
LEMMA RepeatedMore ==
  ASSUME NEW pl, NEW n, NEW t, NEW b \in Int, NEW m \in Nat, NEW c,
         m # 0 => Repeated(pl, n, t, b, m), c = b + m, CellShows(pl, n, c, t)
  PROVE  Repeated(pl, n, t, b, m + 1)
<1>1. ASSUME NEW r \in 0 .. ((m + 1) - 1) PROVE CellShows(pl, n, b + r, t)
  <2>1. CASE r = m
    BY <2>1
  <2>2. CASE r # m
    <3>1. m # 0 /\ r \in 0 .. (m - 1)
      BY <2>2
    <3> QED BY <3>1 DEF Repeated
  <2> QED BY <2>1, <2>2
<1> QED BY <1>1 DEF Repeated

-----------------------------------------------------------------------------

(* What the enumeration stands on stays. *)
LEMMA ValuesStay ==
  ASSUME UNCHANGED <<env, call, probes, caps>>
  PROVE  /\ \A s, case : Traits(s, case)' = Traits(s, case)
         /\ \A s, t, d, x, e, y : BothOf(s, t, d, x, e, y)' = BothOf(s, t, d, x, e, y)
         /\ Times' = Times /\ \A s : Enumerated(s)' = Enumerated(s)
<1>1. \A s, axis : AxisValues(s, axis)' = AxisValues(s, axis)
  BY GatesStay
<1>2. \A s, case : Traits(s, case)' = Traits(s, case)
  BY <1>1 DEF Traits, Axes
<1>3. \A s, t, d, x, e, y : BothOf(s, t, d, x, e, y)' = BothOf(s, t, d, x, e, y)
  BY <1>1 DEF BothOf, Axes
<1>4. Times' = Times
  BY DEF Times, Multiplier
<1> QED BY <1>2, <1>3, <1>4, GatesStay

(* The plan stays or grows. *)
Grows == entries' = entries \/ \E es : Listed(es) /\ entries' = entries \o es

(* The pairs of a subtree stay in it. *)
LEMMA PairsKept ==
  ASSUME UNCHANGED <<env, call, probes, caps>>, Listed(entries), Grows,
         NEW n, PairsShown(entries, n, Times)
  PROVE  PairsShown(entries, n, Times)'
<1>1. PairsShown(entries', n, Times)
  BY PairsStay DEF Grows
<1>2. \A s, axis : AxisValues(s, axis)' = AxisValues(s, axis)
  BY GatesStay
<1>3. \A s, t, d, x, e, y : BothOf(s, t, d, x, e, y)' = BothOf(s, t, d, x, e, y)
  BY ValuesStay
<1>4. Times' = Times
  BY ValuesStay
<1> DEFINE pl == entries'
           m == Times
<1> HIDE DEF pl, m
<1>5. PairsShown(pl, n, m)
  BY <1>1 DEF pl, m
<1> DEFINE s == SubTrees[n]
           ax == Axes(s)
<1>6. ASSUME NEW d \in DOMAIN ax, NEW e \in DOMAIN ax, d < e,
             NEW x \in DOMAIN AxisValues(s, ax[d])', NEW y \in DOMAIN AxisValues(s, ax[e])'
      PROVE  \E t : \E b \in Int : BothOf(s, t, d, x, e, y)' /\ Repeated(pl, n, t, b, m)
  BY <1>2, <1>3, <1>5, <1>6 DEF PairsShown
<1>7. PairsShown(entries, n, Times)' =
        \A d \in DOMAIN ax, e \in DOMAIN ax :
          d < e =>
            \A x \in DOMAIN AxisValues(s, ax[d])', y \in DOMAIN AxisValues(s, ax[e])' :
              \E t : \E b \in Int : BothOf(s, t, d, x, e, y)' /\ Repeated(pl, n, t, b, m)
  BY <1>4 DEF pl, m, PairsShown
<1> QED BY <1>6, <1>7

(* So do those of all the subtrees before. *)
LEMMA ShownKept ==
  ASSUME UNCHANGED <<env, call, probes, caps>>, ShownInv, Listed(entries), Grows,
         phase \in {"subtree", "cells", "planned"}, NEW n \in 1 .. 8, n < sub,
         Enumerated(SubTrees[n])'
  PROVE  PairsShown(entries, n, Times)'
<1>1. Enumerated(SubTrees[n])
  <2>1. SubTrees' = SubTrees
    BY DEF SubTrees
  <2> QED BY <2>1, ValuesStay
<1>2. PairsShown(entries, n, Times)
  BY <1>1 DEF ShownInv
<1> QED BY <1>2, PairsKept

-----------------------------------------------------------------------------

(* A cell that is emitted repeats its case once more. *)
LEMMA EmitShown ==
  ASSUME NeedsInv, PairInv, PlanShapeInv, CellsShownInv, EmitCell
  PROVE  CellsShownInv'
<1> DEFINE c == cell.case
           t == Traits(SubTree, cases[c])
           es == CellEntries(SubTree, t, NextSpecial)
<1>1. /\ phase = "cells" /\ at = "done" /\ c <= Len(cases)
      /\ UNCHANGED <<env, call, probes, caps, sub, cases, at>>
      /\ cell' = IF cell.rep + 1 < Times THEN [cell EXCEPT !.rep = cell.rep + 1]
                 ELSE [case |-> c + 1, rep |-> 0]
  BY DEF EmitCell, callVars, pairVars, Times
<1>2. /\ phase' = "cells" /\ NextBlock \in Nat /\ NextBlock' = NextBlock + 1
      /\ Listed(es) /\ entries' = entries \o es
      /\ \A d \in DOMAIN Axes(SubTree) :
           cases[c][d] \in 0 .. (Len(AxisValues(SubTree, Axes(SubTree)[d])) - 1)
  BY EmitShape
<1>3. /\ Listed(entries) /\ cell.rep \in 0 .. (Times - 1) /\ sub \in 1 .. 8 /\ Scaled
      /\ cell = [case |-> c, rep |-> cell.rep] /\ c \in Nat \ {0}
  BY <1>1 DEF PlanShapeInv, GrownInv, BehindInv, Sound, Times, NeedsInv, PlanInv, CellsInv
<1>4. Times \in {1, 3, 10, 50}
  BY MultiplierIs DEF Times
<1>5. /\ \A i \in DOMAIN cases : i < c =>
            \E b \in Int : Repeated(entries, sub, Traits(SubTree, cases[i]), b, Times)
      /\ cell.rep # 0 => Repeated(entries, sub, t, NextBlock - cell.rep, cell.rep)
  BY <1>1 DEF CellsShownInv, RepeatedInv
<1>6. c \in DOMAIN cases /\ DOMAIN cases = 1 .. Len(cases) /\ Len(cases) \in Nat
  BY <1>1, <1>3 DEF PairInv
<1>7. CellShows(entries', sub, NextBlock, t)
  <2>1. RootOf(SubTree) = <<sub>> /\ SubTree \in SubTreeNames
    BY <1>3, RootIs, SubTreeNamed DEF SubTree
  <2>2. NextSpecial \in Int
    <3>1. Times \in {1, 3, 10, 50} /\ c \in Nat \ {0} /\ cell.rep \in 0 .. (Times - 1)
      BY <1>3, <1>4
    <3>2. (c - 1) * Times + cell.rep \in Nat
      BY ONLY <3>1, SpecialNumbers
    <3> QED BY <3>2 DEF NextSpecial, Times
  <2>3. SubTree = "hardlinks" => t.variant \in Nat \ {0, 1}
    BY <1>2, <1>3, GroupVariant
  <2> DEFINE k == NextSpecial
  <2>4. CellShows(es, sub, BlockNumber(SubTree, k), t)
    <3> HIDE DEF t, k
    <3>1. /\ Scaled /\ SubTree \in SubTreeNames /\ k \in Int /\ RootOf(SubTree) = <<sub>>
          /\ Listed(CellEntries(SubTree, t, k))
          /\ SubTree = "hardlinks" => t.variant \in Nat \ {0, 1}
      BY <1>2, <1>3, <2>1, <2>2, <2>3 DEF k
    <3>2. CellShows(CellEntries(SubTree, t, k), sub, BlockNumber(SubTree, k), t)
      BY ONLY <3>1, CellShowsCase
    <3> QED BY <3>2 DEF k
  <2>5. CellShows(es, sub, NextBlock, t)
    BY <2>4 DEF NextBlock
  <2> HIDE DEF es, t, NextBlock
  <2> QED BY <1>2, <1>3, <2>5, AppendedShows
<1>8. /\ SubTree' = SubTree /\ Times' = Times
      /\ \A i : Traits(SubTree, cases[i])' = Traits(SubTree, cases[i])
  <2>1. SubTree' = SubTree
    BY <1>1 DEF SubTree
  <2>2. \A x, case : Traits(x, case)' = Traits(x, case)
    BY <1>1, ValuesStay
  <2> QED BY <1>1, <2>1, <2>2, ValuesStay
<1> DEFINE b == NextBlock - cell.rep
<1>9. b \in Int /\ b = NextBlock' - (cell.rep + 1) /\ Repeated(entries', sub, t, b, cell.rep + 1)
  <2>1. b \in Int /\ cell.rep \in Nat /\ NextBlock = b + cell.rep
    BY <1>2, <1>3, <1>4
  <2>2. cell.rep # 0 => Repeated(entries', sub, t, b, cell.rep)
    BY <1>2, <1>3, <1>5, RepeatedStay
  <2>3. Repeated(entries', sub, t, b, cell.rep + 1)
    <3> HIDE DEF t, b, NextBlock
    <3> QED BY <1>7, <2>1, <2>2, RepeatedMore
  <2>4. b = NextBlock' - (cell.rep + 1)
    <3> HIDE DEF NextBlock
    <3> QED BY <1>2, <2>1
  <2> QED BY <2>1, <2>3, <2>4
<1>10. \A i \in DOMAIN cases : i < c =>
         \E a \in Int : Repeated(entries', sub, Traits(SubTree, cases[i]), a, Times)
  BY <1>2, <1>3, <1>5, RepeatedStay
<1> HIDE DEF t, es, b
<1>11. RepeatedInv'
  <2>1. ASSUME NEW i \in DOMAIN cases, i < cell'.case
        PROVE  \E a \in Int : Repeated(entries', sub, Traits(SubTree, cases[i]), a, Times)
    <3>1. CASE i < c
      BY <1>10, <3>1
    <3>2. CASE ~ (i < c)
      <4>1. ~ (cell.rep + 1 < Times)
        BY <1>1, <1>3, <2>1, <3>2
      <4>2. cell'.case = c + 1 /\ cell.rep + 1 = Times
        BY <1>1, <1>3, <1>4, <4>1
      <4>3. i = c
        BY <1>3, <1>6, <2>1, <3>2, <4>2
      <4> QED BY <1>9, <4>2, <4>3 DEF t
    <3> QED BY <3>1, <3>2
  <2>2. ASSUME cell'.rep # 0
        PROVE  Repeated(entries', sub, Traits(SubTree, cases[cell'.case]), NextBlock' - cell'.rep,
                        cell'.rep)
    <3>1. cell.rep + 1 < Times
      BY <1>1, <2>2
    <3>2. cell'.case = c /\ cell'.rep = cell.rep + 1
      BY <1>1, <1>3, <3>1
    <3> HIDE DEF NextBlock
    <3> QED BY <1>9, <3>2 DEF t
  <2>3. RepeatedInv' =
          (phase' = "cells" =>
             /\ at' # "done" => cell'.case = 1 /\ cell'.rep = 0
             /\ \A i \in DOMAIN cases' : i < cell'.case =>
                  \E a \in Int : Repeated(entries', sub', Traits(SubTree, cases[i])', a, Times')
             /\ cell'.rep # 0 =>
                  Repeated(entries', sub', Traits(SubTree, cases[cell.case])',
                           NextBlock' - cell'.rep, cell'.rep))
    BY DEF RepeatedInv
  <2>4. Traits(SubTree, cases[cell.case])' = Traits(SubTree, cases[cell'.case])
    <3>1. \A x, case : Traits(x, case)' = Traits(x, case)
      BY <1>1, ValuesStay
    <3> QED BY <1>1, <1>8, <3>1
  <2> HIDE DEF NextBlock
  <2> QED BY <1>1, <1>8, <2>1, <2>2, <2>3, <2>4
<1>12. ShownInv'
  <2>1. Grows
    BY <1>2 DEF Grows
  <2>2. ASSUME NEW n \in 1 .. 8, n < sub', Enumerated(SubTrees[n])'
        PROVE  PairsShown(entries, n, Times)'
    BY <1>1, <1>3, <2>1, <2>2, ShownKept DEF CellsShownInv
  <2> QED BY <2>2 DEF ShownInv
<1> QED BY <1>11, <1>12 DEF CellsShownInv

(* When a subtree ends all its pairs are shown. *)
LEMMA SubTreeShown ==
  ASSUME NeedsInv, PairInv, CellsShownInv, EndSubTree
  PROVE  PairsShown(entries, sub, Times)
<1> DEFINE s == SubTrees[sub]
           ax == Axes(s)
<1>1. /\ phase = "cells" /\ at = "done" /\ cell.case > Len(cases)
      /\ sub \in 1 .. 8 /\ Enumerated(s) /\ dimSizes = DimSizes(s) /\ Scaled
      /\ cell.case \in Nat
  BY DEF EndSubTree, NeedsInv, PlanInv, CellsInv, SubTree
<1>2. s \in SubTreeNames
  BY <1>1, SubTreeNamed DEF SubTree
<1>3. \A d \in DOMAIN ax : \E S : AxisValues(s, ax[d]) \in Seq(S) /\ AxisValues(s, ax[d]) # <<>>
  BY <1>1, <1>2, ValuesThere
<1>4. DOMAIN dimSizes = DOMAIN ax /\ \A d \in DOMAIN ax : dimSizes[d] = Len(AxisValues(s, ax[d]))
  BY <1>1 DEF DimSizes
<1>5. DOMAIN ax \in {1 .. 3, 1 .. 5, 1 .. 2}
  BY DEF Axes
<1>6. \A i \in DOMAIN cases :
        \E b \in Int : Repeated(entries, sub, Traits(s, cases[i]), b, Times)
  <2>1. \A i \in DOMAIN cases : i < cell.case
    BY <1>1 DEF PairInv
  <2> QED BY <1>1, <2>1 DEF CellsShownInv, RepeatedInv, SubTree
<1> HIDE DEF s, ax
<1>7. \A d \in DOMAIN ax : dimSizes[d] \in Nat \ {0} /\ DOMAIN AxisValues(s, ax[d]) = 1 .. dimSizes[d]
  <2>1. ASSUME NEW d \in DOMAIN ax
        PROVE  dimSizes[d] \in Nat \ {0} /\ DOMAIN AxisValues(s, ax[d]) = 1 .. dimSizes[d]
    <3>1. PICK S : AxisValues(s, ax[d]) \in Seq(S) /\ AxisValues(s, ax[d]) # <<>>
      BY <1>3, <2>1
    <3>2. dimSizes[d] = Len(AxisValues(s, ax[d]))
      BY <1>4, <2>1
    <3> QED BY ONLY <3>1, <3>2
  <2> QED BY <2>1
<1>8. dimSizes # <<>> /\ Len(dimSizes) > 1
  <2>1. dimSizes \in Seq(Int)
    BY DEF PairInv
  <2>2. Len(dimSizes) \in Nat /\ DOMAIN dimSizes = 1 .. Len(dimSizes)
    BY <2>1
  <2>3. 2 \in DOMAIN dimSizes
    BY <1>4, <1>5
  <2>4. Len(dimSizes) > 1
    BY <2>2, <2>3
  <2> QED BY <2>1, <2>4
<1>9. Coverable(dimSizes)
  BY <1>4, <1>7, <1>8 DEF Coverable
<1>10. \A p \in OrderedPairs(dimSizes) : \E k \in DOMAIN cases : Holds(cases[k], p)
  BY <1>1, <1>8, <1>9 DEF PairInv, DoneInv
<1>11. ASSUME NEW d \in DOMAIN ax, NEW e \in DOMAIN ax, d < e,
              NEW x \in DOMAIN AxisValues(s, ax[d]), NEW y \in DOMAIN AxisValues(s, ax[e])
       PROVE  \E t : \E b \in Int :
                BothOf(s, t, d, x, e, y) /\ Repeated(entries, sub, t, b, Times)
  <2> DEFINE v == x - 1
             w == y - 1
             q == [d1 |-> d, d2 |-> e, v1 |-> v, v2 |-> w]
  <2>1. /\ v \in 0 .. (dimSizes[d] - 1) /\ w \in 0 .. (dimSizes[e] - 1)
        /\ v + 1 = x /\ w + 1 = y
    BY <1>7, <1>11
  <2> HIDE DEF v, w
  <2>2. q \in PairsOf(dimSizes, d, e)
    BY <2>1 DEF PairsOf
  <2>3. q \in UNION {PairsOf(dimSizes, d, z) : z \in DOMAIN dimSizes}
    BY <1>4, <2>2
  <2>4. q \in OrderedPairs(dimSizes)
    BY <1>4, <1>11, <2>3 DEF OrderedPairs, Pairs
  <2>5. PICK k \in DOMAIN cases : Holds(cases[k], q)
    BY <1>10, <2>4
  <2>6. cases[k][d] = v /\ cases[k][e] = w
    BY <2>5 DEF Holds
  <2> DEFINE t == Traits(s, cases[k])
  <2>7. \A z \in DOMAIN ax : ax[z] \in DOMAIN t /\ t[ax[z]] = AxisValues(s, ax[z])[cases[k][z] + 1]
    BY TraitOf DEF ax
  <2>8. PICK b \in Int : Repeated(entries, sub, t, b, Times)
    BY <1>6
  <2> HIDE DEF t
  <2>9. BothOf(s, t, d, x, e, y)
    <3>1. /\ ax[d] \in DOMAIN t /\ t[ax[d]] = AxisValues(s, ax[d])[x]
          /\ ax[e] \in DOMAIN t /\ t[ax[e]] = AxisValues(s, ax[e])[y]
      BY <1>11, <2>1, <2>6, <2>7
    <3> QED BY <3>1 DEF BothOf, ax
  <2> QED BY <2>8, <2>9
<1> QED BY <1>11 DEF PairsShown, ax, s

LEMMA EndShown ==
  ASSUME NeedsInv, PairInv, PlanShapeInv, CellsShownInv, EndSubTree
  PROVE  CellsShownInv'
<1>1. /\ phase = "cells" /\ phase' = "subtree" /\ sub' = sub + 1
      /\ UNCHANGED <<env, call, probes, caps, entries>>
  BY DEF EndSubTree, callVars
<1>2. Grows /\ Listed(entries) /\ sub \in Nat
  BY <1>1 DEF Grows, PlanShapeInv, GrownInv, Sound, NeedsInv, PlanInv
<1>3. ASSUME NEW n \in 1 .. 8, n < sub', Enumerated(SubTrees[n])'
      PROVE  PairsShown(entries, n, Times)'
  <2>1. CASE n < sub
    BY <1>1, <1>2, <1>3, <2>1, ShownKept DEF CellsShownInv
  <2>2. CASE n = sub
    <3>1. PairsShown(entries, n, Times)
      BY <2>2, SubTreeShown
    <3> QED BY <1>1, <1>2, <3>1, PairsKept
  <2> QED BY <1>1, <1>2, <1>3, <2>1, <2>2
<1> QED BY <1>1, <1>3 DEF CellsShownInv, ShownInv, RepeatedInv

(* At the first case nothing is repeated yet. *)
LEMMA NoneRepeated ==
  ASSUME PairInv', cell'.case = 1, cell'.rep = 0
  PROVE  RepeatedInv'
<1>1. \A i \in DOMAIN cases' : ~ (i < 1)
  <2>1. PICK S : cases' \in Seq(S)
    BY DEF PairInv
  <2> QED BY <2>1
<1> QED BY <1>1 DEF RepeatedInv

(* A subtree begins, or is gated out. *)
LEMMA StartShown ==
  ASSUME NeedsInv, PlanShapeInv, CellsShownInv, PairInv', SkipSubTree \/ StartSubTree
  PROVE  CellsShownInv'
<1>1. /\ phase = "subtree" /\ UNCHANGED <<env, call, probes, caps>>
      /\ phase' \in {"subtree", "cells"}
  BY SubTreeShape DEF SkipSubTree, StartSubTree, callVars
<1>2. Grows /\ Listed(entries) /\ sub \in Nat
  <2>1. Listed(entries) /\ sub \in Nat
    BY <1>1 DEF PlanShapeInv, GrownInv, Sound, NeedsInv, PlanInv
  <2> QED BY <2>1, SubTreeShape DEF Grows
<1>3. /\ SkipSubTree => sub' = sub + 1 /\ ~ Enumerated(SubTrees[sub])
      /\ StartSubTree => sub' = sub
  BY DEF SkipSubTree, StartSubTree, SubTree
<1>4. ASSUME NEW n \in 1 .. 8, n < sub', Enumerated(SubTrees[n])'
      PROVE  PairsShown(entries, n, Times)'
  <2>1. n < sub
    <3>1. Enumerated(SubTrees[n])
      <4>1. SubTrees' = SubTrees
        BY DEF SubTrees
      <4> QED BY <1>1, <1>4, <4>1, ValuesStay
    <3>2. n < sub \/ (n = sub /\ SkipSubTree)
      BY <1>2, <1>3, <1>4
    <3> QED BY <1>3, <3>1, <3>2
  <2> QED BY <1>1, <1>2, <1>4, <2>1, ShownKept DEF CellsShownInv
<1>5. RepeatedInv'
  <2>1. CASE StartSubTree
    <3>1. cell'.case = 1 /\ cell'.rep = 0
      BY <2>1 DEF StartSubTree
    <3> QED BY <3>1, NoneRepeated
  <2>2. CASE SkipSubTree
    <3>1. phase' # "cells"
      BY <2>2 DEF SkipSubTree, AppendEntries
    <3> QED BY <3>1 DEF RepeatedInv
  <2> QED BY <2>1, <2>2
<1> QED BY <1>1, <1>4, <1>5 DEF CellsShownInv, ShownInv

(* What the invariant speaks of may stay as it is, but for the search. *)
LEMMA ShownStays ==
  ASSUME CellsShownInv, PlanShapeInv, PairInv',
         UNCHANGED <<env, call, probes, caps, entries, sub, phase, cell, nextCell>>,
         UNCHANGED <<cases, at>> \/ at # "done"
  PROVE  CellsShownInv'
<1>1. ShownInv'
  <2>1. ASSUME phase \in {"subtree", "cells", "planned"}, NEW n \in 1 .. 8, n < sub,
               Enumerated(SubTrees[n])'
        PROVE  PairsShown(entries, n, Times)'
    <3>1. Grows /\ Listed(entries)
      BY <2>1 DEF Grows, PlanShapeInv, GrownInv, Sound
    <3> QED BY <2>1, <3>1, ShownKept DEF CellsShownInv
  <2> QED BY <2>1 DEF ShownInv
<1>2. CASE UNCHANGED <<cases, at>>
  <2>1. /\ SubTree' = SubTree /\ NextBlock' = NextBlock
    BY DEF SubTree, NextBlock, BlockNumber, NextSpecial, Multiplier
  <2>2. Times' = Times /\ \A x, case : Traits(x, case)' = Traits(x, case)
    BY ValuesStay
  <2>3. \A i : Traits(SubTree, cases[i])' = Traits(SubTree, cases[i])
    BY <1>2, <2>1, <2>2
  <2>4. Traits(SubTree, cases[cell.case])' = Traits(SubTree, cases[cell.case])
    BY <1>2, <2>1, <2>2
  <2>5. RepeatedInv' =
          (phase' = "cells" =>
             /\ at' # "done" => cell'.case = 1 /\ cell'.rep = 0
             /\ \A i \in DOMAIN cases' : i < cell'.case =>
                  \E a \in Int : Repeated(entries', sub', Traits(SubTree, cases[i])', a, Times')
             /\ cell'.rep # 0 =>
                  Repeated(entries', sub', Traits(SubTree, cases[cell.case])',
                           NextBlock' - cell'.rep, cell'.rep))
    BY DEF RepeatedInv
  <2>6. RepeatedInv
    BY DEF CellsShownInv
  <2> HIDE DEF NextBlock, SubTree
  <2>7. RepeatedInv'
    BY <1>2, <2>1, <2>2, <2>3, <2>4, <2>5, <2>6 DEF RepeatedInv
  <2> QED BY <1>1, <2>7 DEF CellsShownInv
<1>3. CASE at # "done" /\ phase = "cells"
  <2>1. cell.case = 1 /\ cell.rep = 0
    BY <1>3 DEF CellsShownInv, RepeatedInv
  <2>2. RepeatedInv'
    BY <2>1, NoneRepeated
  <2> QED BY <1>1, <2>2 DEF CellsShownInv
<1>4. CASE phase # "cells"
  BY <1>1, <1>4 DEF CellsShownInv, RepeatedInv
<1> QED BY <1>2, <1>3, <1>4

(* Outside the enumeration there is nothing to be shown. *)
LEMMA ElsewhereShown ==
  ASSUME phase' \notin {"subtree", "cells", "planned"}
  PROVE  CellsShownInv'
BY DEF CellsShownInv, ShownInv, RepeatedInv

LEMMA CellsShownInit == CoverageInit => CellsShownInv
BY DEF CoverageInit, CellsShownInv, ShownInv, RepeatedInv

(* Every step keeps what was shown. *)
LEMMA CellsShownStep ==
  ASSUME CellsShownInv, PlanShapeInv, NeedsInv, PairInv, PairInv', [CoverageNext]_coverageVars
  PROVE  CellsShownInv'
<1>1. CASE CallStep
  <2>1. CASE SearchCases
    <3>1. /\ UNCHANGED <<env, call, probes, caps, entries, sub, phase, cell, nextCell>>
          /\ at # "done"
      BY <2>1 DEF SearchCases, callVars, planVars, PairStep, SeedCase, FillSlot, FinishCase,
                 ReturnCases
    <3> QED BY <3>1, ShownStays
  <2>2. CASE Configuring
    <3>1. UNCHANGED <<env, call, probes, caps, entries, sub, phase, cell, nextCell, cases, at>>
      BY <2>2 DEF Configuring, callVars, planVars, pairVars
    <3> QED BY <3>1, ShownStays
  <2>3. CASE ResolveCapabilities
    <3>1. sub' = 1 /\ phase' = "subtree"
      BY <2>3 DEF ResolveCapabilities
    <3> QED BY <3>1 DEF CellsShownInv, ShownInv, RepeatedInv
  <2>4. CASE Planned
    <3>1. /\ phase = "subtree" /\ phase' = "planned"
          /\ UNCHANGED <<env, call, probes, caps, entries, sub>>
      BY <2>4 DEF Planned, callVars, planVars
    <3>2. Grows /\ Listed(entries)
      BY <3>1 DEF Grows, PlanShapeInv, GrownInv, Sound
    <3>3. ASSUME NEW n \in 1 .. 8, n < sub', Enumerated(SubTrees[n])'
          PROVE  PairsShown(entries, n, Times)'
      BY <3>1, <3>2, <3>3, ShownKept DEF CellsShownInv
    <3> QED BY <3>1, <3>3 DEF CellsShownInv, ShownInv, RepeatedInv
  <2>5. CASE \/ ProbeXAttrSupport \/ ProbeACLSupport \/ ReportSpec \/ OverLimit \/ StartApply
             \/ ApplyEnds \/ PlanAtRandom
    <3>1. phase' \notin {"subtree", "cells", "planned"}
      BY <2>5 DEF ProbeXAttrSupport, ProbeACLSupport, ReportSpec, OverLimit, StartApply, ApplyEnds,
                  PlanAtRandom, ApplyTo
    <3> QED BY <3>1, ElsewhereShown
  <2> QED BY <1>1, <2>1, <2>2, <2>3, <2>4, <2>5, StartShown, EmitShown, EndShown DEF CallStep
<1>2. CASE (\E c \in env.calls : StartCall(c.kind, c.opts)) \/ RunCoverage \/ RunRandom
  <2>1. phase' \notin {"subtree", "cells", "planned"}
    BY <1>2 DEF StartCall, RunCoverage, RunRandom
  <2> QED BY <2>1, ElsewhereShown
<1>3. CASE (\E options \in env.options : CallConfigure(options)) \/ UNCHANGED coverageVars
  <2>1. UNCHANGED <<env, call, probes, caps, entries, sub, phase, cell, nextCell, cases, at>>
    BY <1>3 DEF CallConfigure, coverageVars, callVars, planVars, pairVars
  <2> QED BY <2>1, ShownStays
<1> QED BY <1>1, <1>2, <1>3 DEF CoverageNext

-----------------------------------------------------------------------------

(* The parts of a path in a cell. *)
LEMMA CellPath ==
  ASSUME NEW n \in Int, NEW c \in Int, NEW p,
         p = <<n>> \o <<c>> \/ p = (<<n>> \o <<c>>) \o << 0 >>
  PROVE  p # Base /\ SubSeq(p, 1, 1) = <<n>> /\ SubSeq(p, 1, 2) = <<n>> \o <<c>>
<1> DEFINE w == <<n>> \o <<c>>
           r == <<n>>
<1>1. r \in Seq(Int) /\ Len(r) = 1 /\ r[1] = n
  OBVIOUS
<1>2. w \in Seq(Int) /\ Len(w) = 2 /\ w[1] = n
  OBVIOUS
<1> HIDE DEF w, r
<1>3. p \in Seq(Int) /\ Len(p) \in {2, 3} /\ \A i \in 1 .. 2 : p[i] = w[i]
  <2>1. CASE p = w
    BY <1>2, <2>1
  <2>2. CASE p = w \o <<0>>
    <3>1. /\ w \o <<0>> \in Seq(Int) /\ Len(w \o <<0>>) = Len(w) + 1
          /\ \A i \in 1 .. Len(w) : (w \o <<0>>)[i] = w[i]
      <4>1. w \in Paths /\ 0 \in Int
        BY <1>2 DEF Paths
      <4>2. /\ w \o <<0>> \in Paths /\ Len(w \o <<0>>) = Len(w) + 1
            /\ \A i \in 1 .. Len(w) : (w \o <<0>>)[i] = w[i]
        BY ONLY <4>1, Below
      <4> QED BY <4>2 DEF Paths
    <3> QED BY <1>2, <2>2, <3>1
  <2> QED BY <2>1, <2>2 DEF w
<1>4. p # Base
  BY <1>3 DEF Base
<1> DEFINE a == SubSeq(p, 1, 1)
           b == SubSeq(p, 1, 2)
<1>5. /\ a \in Seq(Int) /\ Len(a) = 1 /\ a[1] = p[1]
      /\ b \in Seq(Int) /\ Len(b) = 2 /\ \A i \in 1 .. 2 : b[i] = p[i]
  BY <1>3
<1> HIDE DEF a, b
<1>6. a = r
  <2>1. Len(a) = Len(r) /\ \A i \in 1 .. Len(a) : a[i] = r[i]
    BY <1>1, <1>2, <1>3, <1>5
  <2> QED BY <1>1, <1>5, <2>1, SeqEqual
<1>7. b = w
  <2>1. Len(b) = Len(w) /\ \A i \in 1 .. Len(b) : b[i] = w[i]
    BY <1>2, <1>3, <1>5
  <2> QED BY <1>2, <1>5, <2>1, SeqEqual
<1> QED BY <1>4, <1>6, <1>7 DEF a, b, r, w

(* Cells that repeat are as many. *)
LEMMA CellsCount ==
  ASSUME Listed(entries), NEW n \in 1 .. 8, NEW t, NEW b \in Int, NEW m \in {1, 3, 10, 50},
         Repeated(entries, n, t, b, m), NEW x, NEW y, {x, y} \subseteq DOMAIN t
  PROVE  Cardinality(CellsShowing(SubTrees[n], x, t[x], y, t[y])) >= m
<1> DEFINE s == SubTrees[n]
           K == {j \in DOMAIN entries :
                   LET e == entries[j]
                   IN  /\ e.path # Base /\ SubSeq(e.path, 1, 1) = RootOf(s)
                       /\ {x, y} \subseteq DOMAIN e.traits
                       /\ e.traits[x] = t[x] /\ e.traits[y] = t[y]}
           C == {SubSeq(entries[k].path, 1, 2) : k \in K}
           g1 == [k \in K |-> SubSeq(entries[k].path, 1, 2)]
           R == 0 .. (m - 1)
           f == [r \in R |-> <<n>> \o <<b + r>>]
<1>1. CellsShowing(s, x, t[x], y, t[y]) = C
  BY DEF CellsShowing
<1>2. IsFiniteSet(C)
  <2>1. Len(entries) \in Nat /\ DOMAIN entries = 1 .. Len(entries)
    BY InList
  <2>2. IsFiniteSet(DOMAIN entries)
    BY <2>1, FS_Interval
  <2>3. K \in SUBSET DOMAIN entries
    OBVIOUS
  <2>4. IsFiniteSet(K)
    <3> HIDE DEF K
    <3> QED BY <2>2, <2>3, FS_Subset
  <2>5. g1 \in Surjection(K, C)
    <3> HIDE DEF K
    <3> QED BY ZenonT(60) DEF Surjection
  <2> HIDE DEF K, C, g1
  <2> QED BY <2>4, <2>5, FS_Surjection
<1>3. ASSUME NEW r \in R PROVE <<n>> \o <<b + r>> \in C
  <2> DEFINE c == b + r
  <2>1. c \in Int /\ n \in Int
    OBVIOUS
  <2>2. CellShows(entries, n, c, t)
    BY DEF Repeated
  <2> HIDE DEF c
  <2>3. PICK k \in DOMAIN entries :
          /\ entries[k].traits = t
          /\ entries[k].path = <<n>> \o <<c>> \/ entries[k].path = (<<n>> \o <<c>>) \o <<0>>
    BY <2>2 DEF CellShows
  <2> DEFINE p == entries[k].path
  <2>4. p # Base /\ SubSeq(p, 1, 1) = <<n>> /\ SubSeq(p, 1, 2) = <<n>> \o <<c>>
    <3> HIDE DEF p
    <3>1. p = <<n>> \o <<c>> \/ p = (<<n>> \o <<c>>) \o <<0>>
      BY <2>3 DEF p
    <3> QED BY ONLY <2>1, <3>1, CellPath
  <2>5. RootOf(s) = <<n>>
    BY RootIs
  <2>6. k \in K
    <3> HIDE DEF s
    <3> QED BY <2>3, <2>4, <2>5
  <2>7. <<n>> \o <<c>> \in C
    BY <2>4, <2>6
  <2> QED BY <2>7 DEF c
<1>4. f \in Injection(R, C)
  <2>1. f \in [R -> C]
    <3> HIDE DEF C
    <3> QED BY <1>3
  <2>2. ASSUME NEW q \in R, NEW r \in R, f[q] = f[r] PROVE q = r
    <3> DEFINE i == b + q
               j == b + r
    <3>1. f[q] = <<n>> \o <<i>> /\ f[r] = <<n>> \o <<j>> /\ i \in Int /\ j \in Int
      OBVIOUS
    <3>2. \A v \in Int : (<<n>> \o <<v>>)[2] = v
      OBVIOUS
    <3>3. i = j
      <4> HIDE DEF i, j, f
      <4> QED BY <2>2, <3>1, <3>2
    <3> QED BY <3>3
  <2> HIDE DEF C, f
  <2> QED BY <2>1, <2>2 DEF Injection, IsInjective
<1>5. Cardinality(R) = m
  <2>1. 0 \in Int /\ m - 1 \in Int /\ ~ (0 > m - 1) /\ (m - 1) - 0 + 1 = m
    OBVIOUS
  <2> QED BY <2>1, FS_Interval
<1>6. Cardinality(R) <= Cardinality(C) /\ Cardinality(C) \in Nat
  <2> HIDE DEF R, C, f
  <2> QED BY <1>2, <1>4, FS_Injection, FS_CardinalityType
<1> HIDE DEF C, R
<1> QED BY <1>1, <1>5, <1>6

(* What is shown is planned. *)
LEMMA ShownSuffices == NeedsInv /\ PlanShapeInv /\ CellsShownInv => PairsPlanned
<1> SUFFICES ASSUME NeedsInv, PlanShapeInv, CellsShownInv, phase = "planned",
                    NEW n \in DOMAIN SubTrees, Enumerated(SubTrees[n]),
                    NEW d \in DOMAIN Axes(SubTrees[n]), NEW e \in DOMAIN Axes(SubTrees[n]), d < e,
                    NEW x \in DOMAIN AxisValues(SubTrees[n], Axes(SubTrees[n])[d]),
                    NEW y \in DOMAIN AxisValues(SubTrees[n], Axes(SubTrees[n])[e])
             PROVE  Cardinality(CellsShowing(SubTrees[n],
                        Axes(SubTrees[n])[d], AxisValues(SubTrees[n], Axes(SubTrees[n])[d])[x],
                        Axes(SubTrees[n])[e], AxisValues(SubTrees[n], Axes(SubTrees[n])[e])[y]))
                      >= Times
  BY DEF PairsPlanned, Times
<1>1. Listed(entries) /\ sub > 8 /\ sub \in Nat
  BY DEF PlanShapeInv, GrownInv, EndInv, Sound, NeedsInv, PlanInv
<1>2. n \in 1 .. 8
  BY DEF SubTrees
<1>3. PairsShown(entries, n, Times)
  <2>1. n < sub
    BY <1>1, <1>2
  <2> QED BY <1>2, <2>1 DEF CellsShownInv, ShownInv
<1> DEFINE s == SubTrees[n]
           a == Axes(s)[d]
           c == Axes(s)[e]
<1>4. PICK t : \E b \in Int : BothOf(s, t, d, x, e, y) /\ Repeated(entries, n, t, b, Times)
  BY <1>3 DEF PairsShown
<1>5. PICK b \in Int : BothOf(s, t, d, x, e, y) /\ Repeated(entries, n, t, b, Times)
  BY <1>4
<1>6. {a, c} \subseteq DOMAIN t /\ t[a] = AxisValues(s, a)[x] /\ t[c] = AxisValues(s, c)[y]
  BY <1>5 DEF BothOf
<1>7. Times \in {1, 3, 10, 50}
  BY MultiplierIs DEF Times
<1> HIDE DEF a, c
<1>8. Cardinality(CellsShowing(s, a, t[a], c, t[c])) >= Times
  BY <1>1, <1>2, <1>5, <1>6, <1>7, CellsCount
<1> QED BY <1>6, <1>8 DEF a, c

(***************************************************************************)
(* The coverage plan covers, for every scale of the dimensions, every      *)
(* effort and every host: in each subtree that is enumerated, every two    *)
(* values of two dimensions meet in as many different cells as the effort  *)
(* repeats a case (coverage_enumerator.go, coveragePairwise and the loops  *)
(* of the enumerators over its cases).                                     *)
(***************************************************************************)
THEOREM CoveragePairsPlanned == CoverageSpec => []PairsPlanned
<1>1. CellsShownInv /\ PlanShapeInv /\ NeedsInv /\ PairInv /\ PairInv'
        /\ [CoverageNext]_coverageVars => CellsShownInv'
  BY CellsShownStep
<1>2. CoverageSpec => []CellsShownInv
  BY <1>1, PlanShapeHolds, NeedsInvHolds, CellsShownInit, PTL DEF CoverageSpec
<1> QED BY <1>2, PlanShapeHolds, NeedsInvHolds, ShownSuffices, PTL

-----------------------------------------------------------------------------
(* Part seven: the same plan again *)

(***************************************************************************)
(* The definitions of Coverage and Pairwise at any state instead of the    *)
(* present one: of a host and what was found on it, of a builder, and of a *)
(* search.  At the present state they are the definitions themselves.      *)
(***************************************************************************)
Host(e, found) == INSTANCE Coverage WITH env <- e, probes <- found
Builder(e, c, n, u) == INSTANCE Coverage WITH env <- e, caps <- c, nextCell <- n, sub <- u
Search(ds, un, sc, cs) ==
  INSTANCE Pairwise WITH dimSizes <- ds, uncovered <- un, tc <- sc, cases <- cs

(* What the builder makes of a subtree or a case. *)
LEMMA BuilderNow ==
  /\ \A s : Builder(env, caps, nextCell, sub)!Enumerated(s) = Enumerated(s)
  /\ \A s : Builder(env, caps, nextCell, sub)!DimSizes(s) = DimSizes(s)
  /\ \A s, case : Builder(env, caps, nextCell, sub)!Traits(s, case) = Traits(s, case)
  /\ \A s, t, n : Builder(env, caps, nextCell, sub)!CellEntries(s, t, n) = CellEntries(s, t, n)
  /\ \A p, a, t : Builder(env, caps, nextCell, sub)!DirEntry(p, a, t) = DirEntry(p, a, t)
  /\ Builder(env, caps, nextCell, sub)!Anchors = Anchors
  /\ \A s : Builder(env, caps, nextCell, sub)!AdvanceCell(s) = AdvanceCell(s)
<1>1. \A s : Builder(env, caps, nextCell, sub)!Enumerated(s) = Enumerated(s)
  BY DEF Builder!Enumerated, Enumerated, Builder!SpecialTypes, SpecialTypes,
         Builder!IfEnabled, IfEnabled
<1>2. \A s : Builder(env, caps, nextCell, sub)!DimSizes(s) = DimSizes(s)
  BY DEF Builder!DimSizes, DimSizes, Builder!Axes, Axes, Builder!AxisValues, AxisValues,
         Builder!Variants, Variants, Builder!MetaValues, MetaValues, Builder!XAttrVariants,
         XAttrVariants, Builder!SpecialTypes, SpecialTypes, Builder!IfEnabled, IfEnabled
<1>3. \A s, case : Builder(env, caps, nextCell, sub)!Traits(s, case) = Traits(s, case)
  BY DEF Builder!Traits, Traits, Builder!Axes, Axes, Builder!AxisValues, AxisValues,
         Builder!Variants, Variants, Builder!MetaValues, MetaValues, Builder!XAttrVariants,
         XAttrVariants, Builder!SpecialTypes, SpecialTypes, Builder!IfEnabled, IfEnabled
<1>4. \A p, a, t : Builder(env, caps, nextCell, sub)!DirEntry(p, a, t) = DirEntry(p, a, t)
  BY DEF Builder!DirEntry, DirEntry, Builder!Stamped, Stamped, Builder!CoverageEntry,
         CoverageEntry
<1>5. Builder(env, caps, nextCell, sub)!Anchors = Anchors
  BY DEF Builder!Anchors, Anchors, Builder!SubTree, SubTree, Builder!SubTrees, SubTrees,
         Builder!FileEntry, FileEntry, Builder!LinkEntry, LinkEntry, Builder!Stamped, Stamped,
         Builder!CoverageEntry, CoverageEntry, Builder!AnchorFile, AnchorFile,
         Builder!AnchorLink, AnchorLink, Builder!RootOf, RootOf, Builder!NoTraits, NoTraits
<1>6. \A s : Builder(env, caps, nextCell, sub)!AdvanceCell(s) = AdvanceCell(s)
  BY DEF Builder!AdvanceCell, AdvanceCell
<1>7. \A s, t, n : Builder(env, caps, nextCell, sub)!CellEntries(s, t, n) = CellEntries(s, t, n)
  BY DEF Builder!CellEntries, CellEntries, Builder!CellContent, CellContent,
         Builder!SymlinkCell, SymlinkCell, Builder!HardlinkCell, HardlinkCell,
         Builder!DirEntry, DirEntry, Builder!FileEntry, FileEntry, Builder!LinkEntry,
         LinkEntry, Builder!CoverageEntry, CoverageEntry, Builder!Stamped, Stamped,
         Builder!MetadataFor, MetadataFor, Builder!ModeAttrs, ModeAttrs, Builder!RootOf,
         RootOf, Builder!SubTrees, SubTrees, Builder!AnchorFile, AnchorFile,
         Builder!AnchorLink, AnchorLink, Builder!NoTraits, NoTraits
<1> QED BY <1>1, <1>2, <1>3, <1>4, <1>5, <1>6, <1>7

(* What the search picks. *)
LEMMA SearchNow ==
  /\ Search(dimSizes, uncovered, tc, cases)!First = First
  /\ Search(dimSizes, uncovered, tc, cases)!NextSlot = NextSlot
  /\ \A d : Search(dimSizes, uncovered, tc, cases)!BestValue(d) = BestValue(d)
  /\ Search(dimSizes, uncovered, tc, cases)!StillUncovered = StillUncovered
<1>1. Search(dimSizes, uncovered, tc, cases)!First = First
  BY DEF Search!First, First, Search!Before, Before
<1>2. Search(dimSizes, uncovered, tc, cases)!NextSlot = NextSlot
  BY DEF Search!NextSlot, NextSlot, Search!Unset, Unset
<1>3. ASSUME NEW d PROVE Search(dimSizes, uncovered, tc, cases)!BestValue(d) = BestValue(d)
  BY DEF Search!Cardinality, Cardinality, Search!BestValue, BestValue, Search!Gain, Gain,
         Search!Values, Values
<1>4. Search(dimSizes, uncovered, tc, cases)!StillUncovered = StillUncovered
  BY DEF Search!StillUncovered, StillUncovered, Search!Holds, Holds
<1> QED BY <1>1, <1>2, <1>3, <1>4

-----------------------------------------------------------------------------
(* The enumeration as a function of its state *)

(* The state of a search. *)
PairState(ds, un, sc, cs, a) ==
  [dimSizes |-> ds, uncovered |-> un, tc |-> sc, cases |-> cs, at |-> a]
PairNow == PairState(dimSizes, uncovered, tc, cases, at)

(* The search for these sizes as it begins. *)
Begun(sizes) ==
  IF Len(sizes) < 2 \/ \E d \in DOMAIN sizes : sizes[d] <= 0
  THEN PairState(sizes, {}, <<>>,
                 IF Len(sizes) = 1 THEN [k \in 1 .. sizes[1] |-> <<k - 1>>] ELSE <<>>, "done")
  ELSE PairState(sizes, OrderedPairs(sizes), <<>>, <<>>, "seed")

(* What the loops do next to the case being built. *)
Seeded(ds, f) ==
  [d \in DOMAIN ds |-> CASE d = f.d1 -> f.v1 [] d = f.d2 -> f.v2 [] OTHER -> Unset]
Filled(ds, un, sc, cs) ==
  [sc EXCEPT ![Search(ds, un, sc, cs)!NextSlot] =
     Search(ds, un, sc, cs)!BestValue(Search(ds, un, sc, cs)!NextSlot)]

(* One turn of the loops of coveragePairwise. *)
Turned(ds, un, sc, cs, a) ==
  IF a = "seed"
  THEN IF un = {} THEN PairState(ds, un, sc, cs, "done")
       ELSE PairState(ds, un, Seeded(ds, Search(ds, un, sc, cs)!First), cs, "fill")
  ELSE IF \E d \in DOMAIN sc : sc[d] = Unset
       THEN PairState(ds, un, Filled(ds, un, sc, cs), cs, a)
       ELSE PairState(ds, Search(ds, un, sc, cs)!StillUncovered, sc, Append(cs, sc), "seed")

(* The state of an enumeration. *)
EnumState(e, c, m, es, n, u, cl, ph, p) ==
  [env |-> e, caps |-> c, times |-> m, entries |-> es, nextCell |-> n, sub |-> u,
   cell |-> cl, phase |-> ph, pair |-> p]

FirstCell == [case |-> 1, rep |-> 0]

(* The builder with nothing but the base. *)
Start(e, c, m) ==
  EnumState(e, c, m,
            <<CoverageEntry("dir", Base, NoPath,
                {"mode"} \cup (IF "timestamps" \in c THEN {"times"} ELSE {}), "none", NoTraits)>>,
            0, 1, FirstCell, "subtree", PairState(<<>>, {}, <<>>, <<>>, "idle"))

(* The cell that follows when each case is repeated m times. *)
CellAfter(cl, m) ==
  IF cl.rep + 1 < m THEN [cl EXCEPT !.rep = @ + 1] ELSE [case |-> cl.case + 1, rep |-> 0]

(* What the enumerators do next, if no path is met twice. *)
Advanced(e, c, m, es, n, u, cl, ph, p) ==
  LET s == SubTrees[u]
      root == <<Builder(e, c, n, u)!DirEntry(RootOf(s), {"mode"}, NoTraits)>>
      next == Builder(e, c, n, u)!CellEntries(s, Builder(e, c, n, u)!Traits(s, p.cases[cl.case]),
                                             (cl.case - 1) * m + cl.rep)
  IN  IF ph = "subtree"
      THEN IF Builder(e, c, n, u)!Enumerated(s)
           THEN EnumState(e, c, m, es \o (root \o Builder(e, c, n, u)!Anchors), n, u, FirstCell,
                          "cells", Begun(Builder(e, c, n, u)!DimSizes(s)))
           ELSE EnumState(e, c, m, es \o root, n, u + 1, cl, "subtree", p)
      ELSE IF p.at # "done"
           THEN EnumState(e, c, m, es, n, u, cl, ph,
                          Turned(p.dimSizes, p.uncovered, p.tc, p.cases, p.at))
      ELSE IF cl.case <= Len(p.cases)
           THEN EnumState(e, c, m, es \o next, Builder(e, c, n, u)!AdvanceCell(s), u,
                          CellAfter(cl, m), "cells", p)
           ELSE EnumState(e, c, m, es, n, u + 1, cl, "subtree", p)

Succ(z) ==
  Advanced(z.env, z.caps, z.times, z.entries, z.nextCell, z.sub, z.cell, z.phase, z.pair)

(* All subtrees are enumerated. *)
Over(z) == z.phase = "subtree" /\ z.sub > Len(SubTrees)

(* From a the enumeration comes to z. *)
Trace(a, t, n) ==
  t[0] = a /\ \A i \in 0 .. (n - 1) : ~ Over(t[i]) /\ t[i + 1] = Succ(t[i])
Leads(a, z) == \E n \in Nat : \E t : Trace(a, t, n) /\ t[n] = z

(* One more step. *)
LEMMA LeadsFurther ==
  ASSUME NEW a, NEW z, Leads(a, z), ~ Over(z)
  PROVE  Leads(a, Succ(z))
<1>1. PICK n \in Nat : \E t : Trace(a, t, n) /\ t[n] = z
  BY DEF Leads
<1>2. PICK t : Trace(a, t, n) /\ t[n] = z
  BY <1>1
<1> DEFINE f == [i \in 0 .. (n + 1) |-> IF i = n + 1 THEN Succ(z) ELSE t[i]]
<1>3. f[0] = a /\ f[n + 1] = Succ(z) /\ \A i \in 0 .. n : f[i] = t[i]
  BY <1>2 DEF Trace
<1> HIDE DEF f
<1>4. ASSUME NEW i \in 0 .. n PROVE ~ Over(f[i]) /\ f[i + 1] = Succ(f[i])
  <2>1. CASE i = n
    BY <1>2, <1>3, <2>1
  <2>2. CASE i < n
    <3>1. i \in 0 .. (n - 1) /\ i + 1 \in 0 .. n
      BY <2>2
    <3> QED BY <1>2, <1>3, <3>1 DEF Trace
  <2> QED BY <2>1, <2>2
<1>5. Trace(a, f, n + 1)
  BY <1>3, <1>4 DEF Trace
<1>6. n + 1 \in Nat
  OBVIOUS
<1> QED BY <1>3, <1>5, <1>6 DEF Leads

(* Two enumerations from one state are in step, and end in one state. *)
LEMMA LeadsToOne ==
  ASSUME NEW a, NEW x, NEW y, Leads(a, x), Leads(a, y), Over(x), Over(y)
  PROVE  x = y
<1>1. PICK n \in Nat : \E t : Trace(a, t, n) /\ t[n] = x
  BY DEF Leads
<1>2. PICK t : Trace(a, t, n) /\ t[n] = x
  BY <1>1
<1>3. PICK k \in Nat : \E v : Trace(a, v, k) /\ v[k] = y
  BY DEF Leads
<1>4. PICK v : Trace(a, v, k) /\ v[k] = y
  BY <1>3
<1> DEFINE Differ == {i \in Nat : i <= n /\ i <= k /\ t[i] # v[i]}
<1>5. Differ = {}
  <2> SUFFICES ASSUME Differ # {} PROVE FALSE
    OBVIOUS
  <2>1. PICK i \in Differ : \A j \in Differ : i <= j
    BY LeastNat
  <2>2. i # 0
    BY <1>2, <1>4, <2>1 DEF Trace
  <2>3. i - 1 \in Nat /\ i - 1 \in 0 .. (n - 1) /\ i - 1 \in 0 .. (k - 1) /\ i - 1 \notin Differ
    BY <2>1, <2>2
  <2>4. t[i - 1] = v[i - 1]
    BY <2>3
  <2>5. t[(i - 1) + 1] = Succ(t[i - 1]) /\ v[(i - 1) + 1] = Succ(v[i - 1])
    BY <1>2, <1>4, <2>3 DEF Trace
  <2>6. (i - 1) + 1 = i
    BY <2>1
  <2> QED BY <2>1, <2>4, <2>5, <2>6
<1>6. \A i \in Nat : i <= n /\ i <= k => t[i] = v[i]
  BY <1>5
<1>7. ~ (n < k)
  <2> SUFFICES ASSUME n < k PROVE FALSE
    OBVIOUS
  <2>1. n \in 0 .. (k - 1)
    OBVIOUS
  <2> QED BY <1>2, <1>4, <1>6, <2>1 DEF Trace
<1>8. ~ (k < n)
  <2> SUFFICES ASSUME k < n PROVE FALSE
    OBVIOUS
  <2>1. k \in 0 .. (n - 1)
    OBVIOUS
  <2> QED BY <1>2, <1>4, <1>6, <2>1 DEF Trace
<1> QED BY <1>2, <1>4, <1>6, <1>7, <1>8

(* coveragePairwise begins. *)
LEMMA BeginNow ==
  ASSUME NEW sizes, Begin(sizes)
  PROVE  PairNow' = Begun(sizes)
BY DEF Begin, PairNow, Begun, PairState

(* A turn of the search is the turn of its state. *)
LEMMA SearchTurns ==
  ASSUME PairStep
  PROVE  PairNow' = Turned(dimSizes, uncovered, tc, cases, at) /\ at # "done"
<1>1. CASE SeedCase
  <2>1. tc' = Seeded(dimSizes, First)
    BY <1>1 DEF SeedCase, Seeded
  <2> QED BY <1>1, <2>1, SearchNow DEF SeedCase, Turned, PairNow, PairState
<1>2. CASE FillSlot
  <2>1. tc' = Filled(dimSizes, uncovered, tc, cases)
    BY <1>2, SearchNow DEF FillSlot, Filled
  <2> QED BY <1>2, <2>1 DEF FillSlot, Turned, PairNow, PairState
<1>3. CASE FinishCase
  BY <1>3, SearchNow DEF FinishCase, Turned, PairNow, PairState
<1>4. CASE ReturnCases
  BY <1>4 DEF ReturnCases, Turned, PairNow, PairState
<1> QED BY <1>1, <1>2, <1>3, <1>4 DEF PairStep

-----------------------------------------------------------------------------
(* The calls *)

(* What the two probes find where there is no file in their way. *)
ProbesFor(e, o) ==
  IF o.linux THEN (IF e.xattr THEN {"xattr"} ELSE {}) \cup (IF e.acl THEN {"acl"} ELSE {})
  ELSE {}
CapsFor(e, o) == {id \in Capabilities : Admitted(id, o) /\ Host(e, ProbesFor(e, o))!ProbeOk(id)}

(* Where the enumeration for these options starts. *)
StartFor(o) == Start(env, CapsFor(env, o), Multiplier(o.effort))

(* What was probed so far is what there is to find. *)
ProbedInv ==
  call.base # "file" =>
    /\ phase = "probe-xattr" => base # "file" /\ call.opts.linux /\ probes = {}
    /\ phase = "probe-acl" =>
         base # "file" /\ call.opts.linux /\ probes = (IF env.xattr THEN {"xattr"} ELSE {})
    /\ phase = "resolve" => probes = ProbesFor(env, call.opts)

(* The enumeration under way is the one that starts from the options. *)
EnumNow(p) == EnumState(env, caps, Times, entries, nextCell, sub, cell, phase, p)
OnTheWay ==
  call.base # "file" /\ phase \in {"subtree", "cells"} =>
    \E p : Leads(StartFor(call.opts), EnumNow(p)) /\ (phase = "cells" => p = PairNow)

(* So were those whose plans are kept. *)
LoggedInv ==
  \A r \in log : r.base # "file" =>
    \E z : Leads(StartFor(r.opts), z) /\ Over(z) /\ r.plan = z.entries

RepeatInv == base \in {"none", "dir", "file"} /\ ProbedInv /\ OnTheWay /\ LoggedInv

(* What depends on the host stays. *)
LEMMA StartStays ==
  ASSUME env' = env
  PROVE  \A o : StartFor(o)' = StartFor(o)
BY DEF StartFor

(* What is known of the plans that are kept stays known. *)
LEMMA LoggedStays ==
  ASSUME LoggedInv, env' = env, log' = log
  PROVE  LoggedInv'
BY StartStays DEF LoggedInv

(* Nothing is under way and nothing is kept at first. *)
LEMMA RepeatInit == CoverageInit => RepeatInv
BY CoverageAssumption DEF CoverageInit, RepeatInv, ProbedInv, OnTheWay, LoggedInv

(* The first state is the one the capabilities start. *)
LEMMA ResolveRepeats ==
  ASSUME RepeatInv, NeedsInv, ResolveCapabilities
  PROVE  OnTheWay'
<1> SUFFICES ASSUME call'.base # "file" PROVE OnTheWay'
  BY DEF OnTheWay
<1>1. /\ UNCHANGED <<env, call, probes>> /\ phase = "resolve" /\ phase' = "subtree"
      /\ caps' = Resolved /\ sub' = 1 /\ nextCell' = 0 /\ cell' = FirstCell
      /\ entries' = <<CoverageEntry("dir", Base, NoPath,
                        {"mode"} \cup (IF "timestamps" \in Resolved THEN {"times"} ELSE {}),
                        "none", NoTraits)>>
  BY DEF ResolveCapabilities, callVars, FirstCell
<1>2. probes = ProbesFor(env, call.opts)
  BY <1>1 DEF RepeatInv, ProbedInv
<1>3. Resolved = CapsFor(env, call.opts)
  <2>1. \A id : Host(env, probes)!ProbeOk(id) <=> ProbeOk(id)
    BY DEF Host!ProbeOk, ProbeOk
  <2> QED BY <1>2, <2>1 DEF Resolved, CapsFor
<1> DEFINE p == PairState(<<>>, {}, <<>>, <<>>, "idle")
           z == StartFor(call.opts)
<1>4. EnumNow(p)' = z
  <2>1. EnumNow(p)' = EnumState(env', caps', Times', entries', nextCell', sub', cell', phase', p)
    BY DEF EnumNow
  <2>2. Times' = Multiplier(call.opts.effort)
    BY <1>1 DEF Times
  <2> QED BY <1>1, <1>3, <2>1, <2>2 DEF StartFor, Start
<1>5. Leads(z, z)
  <2> HIDE DEF z
  <2> DEFINE t == [i \in {0} |-> z]
  <2>1. t[0] = z /\ Trace(z, t, 0)
    BY DEF Trace
  <2> HIDE DEF t
  <2> QED BY <2>1 DEF Leads
<1>6. StartFor(call.opts)' = z
  BY <1>1, StartStays
<1>7. Leads(StartFor(call.opts)', EnumNow(p)')
  BY <1>4, <1>5, <1>6
<1> HIDE DEF p
<1> QED BY <1>1, <1>7 DEF OnTheWay

(* A step of the enumeration is the step of its state. *)
LEMMA OnTheWayNext ==
  ASSUME OnTheWay, UNCHANGED <<env, call>>, phase \in {"subtree", "cells"},
         phase = "subtree" => sub \in 1 .. 8,
         \A p : (phase = "cells" => p = PairNow) =>
           \E q : /\ EnumNow(q)' = Advanced(env, caps, Times, entries, nextCell, sub, cell,
                                             phase, p)
                  /\ phase' = "cells" => q = PairNow'
  PROVE  OnTheWay'
<1> SUFFICES ASSUME call.base # "file" PROVE OnTheWay'
  BY DEF OnTheWay
<1>1. PICK p : Leads(StartFor(call.opts), EnumNow(p)) /\ (phase = "cells" => p = PairNow)
  BY DEF OnTheWay
<1>2. PICK q : /\ EnumNow(q)' = Advanced(env, caps, Times, entries, nextCell, sub, cell, phase, p)
               /\ phase' = "cells" => q = PairNow'
  BY <1>1
<1>3. Succ(EnumNow(p)) = EnumNow(q)'
  BY <1>2 DEF Succ, EnumNow, EnumState
<1>4. ~ Over(EnumNow(p))
  <2>1. EnumNow(p).phase = phase /\ EnumNow(p).sub = sub
    BY DEF EnumNow, EnumState
  <2>2. Len(SubTrees) = 8
    BY DEF SubTrees
  <2> QED BY <2>1, <2>2 DEF Over
<1>5. Leads(StartFor(call.opts), EnumNow(q)')
  BY <1>1, <1>3, <1>4, LeadsFurther
<1>6. StartFor(call.opts)' = StartFor(call.opts)
  BY StartStays
<1> QED BY <1>2, <1>5, <1>6 DEF OnTheWay

(* What the enumerators append. *)
LEMMA Appends ==
  ASSUME NEW es, NEW next, AppendEntries(es, next), phase' # "failed"
  PROVE  phase' = next /\ entries' = entries \o es
BY DEF AppendEntries

(* Outside the enumeration there is nothing to follow. *)
LEMMA ElsewhereRepeats ==
  ASSUME phase' \notin {"subtree", "cells"}
  PROVE  OnTheWay'
BY DEF OnTheWay

(* The root of a subtree, and the beginning of its search. *)
LEMMA SubTreeRepeats ==
  ASSUME RepeatInv, NeedsInv, SkipSubTree \/ StartSubTree
  PROVE  OnTheWay'
<1> SUFFICES ASSUME phase' # "failed" PROVE OnTheWay'
  BY ElsewhereRepeats
<1> DEFINE s == SubTrees[sub]
           root == <<DirEntry(RootOf(s), {"mode"}, NoTraits)>>
<1>1. /\ UNCHANGED <<env, call, caps, nextCell>> /\ phase = "subtree" /\ sub \in 1 .. 8
  <2>1. Len(SubTrees) = 8
    BY DEF SubTrees
  <2> QED BY <2>1 DEF SkipSubTree, StartSubTree, callVars, NeedsInv, PlanInv
<1>2. Times' = Times
  BY <1>1 DEF Times
<1>3. root = <<Builder(env, caps, nextCell, sub)!DirEntry(RootOf(s), {"mode"}, NoTraits)>>
  BY BuilderNow
<1>4. CASE SkipSubTree
  <2>1. /\ phase' = "subtree" /\ entries' = entries \o root
        /\ ~ Enumerated(s) /\ sub' = sub + 1 /\ cell' = cell
    BY <1>4, Appends DEF SkipSubTree, SubTree
  <2>2. ~ Builder(env, caps, nextCell, sub)!Enumerated(s)
    BY <2>1, BuilderNow
  <2> HIDE DEF s, root
  <2>3. ASSUME NEW p
        PROVE  EnumNow(p)' = Advanced(env, caps, Times, entries, nextCell, sub, cell, phase, p)
    <3>1. Advanced(env, caps, Times, entries, nextCell, sub, cell, phase, p)
            = EnumState(env, caps, Times, entries \o root, nextCell, sub + 1, cell, "subtree", p)
      BY <1>1, <1>3, <2>2 DEF Advanced, s
    <3> QED BY <1>1, <1>2, <2>1, <3>1 DEF EnumNow
  <2> QED BY <1>1, <2>1, <2>3, OnTheWayNext DEF RepeatInv
<1>5. CASE StartSubTree
  <2>1. /\ phase' = "cells" /\ entries' = entries \o (root \o Anchors)
        /\ Enumerated(s) /\ sub' = sub /\ cell' = FirstCell /\ Begin(DimSizes(s))
    BY <1>5, Appends DEF StartSubTree, SubTree, FirstCell
  <2>2. Builder(env, caps, nextCell, sub)!Enumerated(s)
    BY <2>1, BuilderNow
  <2>3. PairNow' = Begun(Builder(env, caps, nextCell, sub)!DimSizes(s))
    BY <2>1, BuilderNow, BeginNow
  <2>4. Anchors = Builder(env, caps, nextCell, sub)!Anchors
    BY BuilderNow
  <2> HIDE DEF s, root
  <2>5. ASSUME NEW p
        PROVE  EnumNow(PairNow)'
                 = Advanced(env, caps, Times, entries, nextCell, sub, cell, phase, p)
    <3>1. Advanced(env, caps, Times, entries, nextCell, sub, cell, phase, p)
            = EnumState(env, caps, Times, entries \o (root \o Anchors), nextCell, sub, FirstCell,
                        "cells", PairNow')
      BY <1>1, <1>3, <2>2, <2>3, <2>4 DEF Advanced, s
    <3> QED BY <1>1, <1>2, <2>1, <3>1 DEF EnumNow
  <2>6. \A p : \E q :
          /\ EnumNow(q)' = Advanced(env, caps, Times, entries, nextCell, sub, cell, phase, p)
          /\ q = PairNow'
    <3>1. EnumNow(PairNow)' = EnumState(env', caps', Times', entries', nextCell', sub', cell',
                                        phase', PairNow')
      BY DEF EnumNow
    <3> QED BY <2>5, <3>1 DEF EnumNow
  <2> QED BY <1>1, <2>6, OnTheWayNext DEF RepeatInv
<1> QED BY <1>4, <1>5

(* The search. *)
LEMMA SearchRepeats ==
  ASSUME RepeatInv, SearchCases
  PROVE  OnTheWay'
<1>1. /\ UNCHANGED <<env, call, caps, entries, nextCell, sub, cell, phase>> /\ phase = "cells"
      /\ PairStep
  BY DEF SearchCases, callVars, planVars
<1>2. Times' = Times
  BY <1>1 DEF Times
<1>3. PairNow' = Turned(dimSizes, uncovered, tc, cases, at) /\ at # "done"
  BY <1>1, SearchTurns
<1>4. /\ PairNow.dimSizes = dimSizes /\ PairNow.uncovered = uncovered /\ PairNow.tc = tc
      /\ PairNow.cases = cases /\ PairNow.at = at
  BY DEF PairNow, PairState
<1>5. Advanced(env, caps, Times, entries, nextCell, sub, cell, phase, PairNow)
        = EnumState(env, caps, Times, entries, nextCell, sub, cell, phase, PairNow')
  BY <1>1, <1>3, <1>4 DEF Advanced
<1>6. EnumNow(PairNow)' = Advanced(env, caps, Times, entries, nextCell, sub, cell, phase, PairNow)
  BY <1>1, <1>2, <1>5 DEF EnumNow
<1> QED BY <1>1, <1>6, OnTheWayNext DEF RepeatInv, EnumNow

(* A cell. *)
LEMMA EmitRepeats ==
  ASSUME RepeatInv, EmitCell
  PROVE  OnTheWay'
<1> SUFFICES ASSUME phase' # "failed" PROVE OnTheWay'
  BY ElsewhereRepeats
<1> DEFINE s == SubTrees[sub]
           next == CellEntries(s, Traits(s, cases[cell.case]), (cell.case - 1) * Times + cell.rep)
<1>1. /\ UNCHANGED <<env, call, caps, sub>> /\ UNCHANGED pairVars /\ phase = "cells" /\ at = "done"
      /\ cell.case <= Len(cases)
      /\ phase' = "cells" /\ entries' = entries \o next
      /\ nextCell' = AdvanceCell(s) /\ cell' = CellAfter(cell, Times)
  BY Appends DEF EmitCell, callVars, SubTree, Times, CellAfter
<1>2. Times' = Times /\ PairNow' = PairNow
  BY <1>1 DEF Times, PairNow, pairVars
<1>3. PairNow.cases = cases /\ PairNow.at = at
  BY DEF PairNow, PairState
<1>4. /\ next = Builder(env, caps, nextCell, sub)!CellEntries(s,
                  Builder(env, caps, nextCell, sub)!Traits(s, cases[cell.case]),
                  (cell.case - 1) * Times + cell.rep)
      /\ AdvanceCell(s) = Builder(env, caps, nextCell, sub)!AdvanceCell(s)
  BY BuilderNow
<1> HIDE DEF next, s
<1>5. Advanced(env, caps, Times, entries, nextCell, sub, cell, phase, PairNow)
        = EnumState(env, caps, Times, entries \o next, AdvanceCell(s), sub, CellAfter(cell, Times),
                    "cells", PairNow)
  BY <1>1, <1>3, <1>4 DEF Advanced, s
<1>6. EnumNow(PairNow)' = Advanced(env, caps, Times, entries, nextCell, sub, cell, phase, PairNow)
  BY <1>1, <1>2, <1>5 DEF EnumNow
<1> QED BY <1>1, <1>2, <1>6, OnTheWayNext DEF RepeatInv, EnumNow

(* The end of a subtree. *)
LEMMA EndRepeats ==
  ASSUME RepeatInv, NeedsInv, PairInv, EndSubTree
  PROVE  OnTheWay'
<1>1. /\ UNCHANGED <<env, call, caps, entries, nextCell, cell>> /\ UNCHANGED pairVars
      /\ phase = "cells" /\ at = "done" /\ cell.case > Len(cases)
      /\ phase' = "subtree" /\ sub' = sub + 1
  BY DEF EndSubTree, callVars
<1>2. Times' = Times /\ PairNow' = PairNow
  BY <1>1 DEF Times, PairNow, pairVars
<1>3. PairNow.cases = cases /\ PairNow.at = at
  BY DEF PairNow, PairState
<1>4. Advanced(env, caps, Times, entries, nextCell, sub, cell, phase, PairNow)
        = EnumState(env, caps, Times, entries, nextCell, sub + 1, cell, "subtree", PairNow)
  <2>1. cell.case \in Nat /\ Len(cases) \in Nat
    BY DEF NeedsInv, CellsInv, PairInv
  <2> QED BY <1>1, <1>3, <2>1 DEF Advanced
<1>5. EnumNow(PairNow)' = Advanced(env, caps, Times, entries, nextCell, sub, cell, phase, PairNow)
  BY <1>1, <1>2, <1>4 DEF EnumNow
<1> QED BY <1>1, <1>2, <1>5, OnTheWayNext DEF RepeatInv, EnumNow

(* A call starts with the flags it will keep, and has probed nothing. *)
LEMMA StartProbed ==
  ASSUME RepeatInv, NEW kind, NEW o, IsRequest(o), StartCall(kind, o)
  PROVE  ProbedInv'
<1>1. /\ env' = env /\ base' = base /\ probes' = {} /\ call'.base = base
      /\ call'.opts = IF kind = "generator" THEN Inherit(normalize(o)) ELSE normalize(o)
      /\ phase' = IF Refuses(kind, o) THEN "failed"
                  ELSE IF normalize(o).linux THEN "probe-xattr" ELSE "resolve"
  BY DEF StartCall
<1>2. call'.opts.linux = normalize(o).linux
  BY <1>1, NormalizeFacts, InheritFlags
<1> QED BY <1>1, <1>2 DEF ProbedInv, ProbesFor

(* The probes find what the file system has. *)
LEMMA ProbeProbed ==
  ASSUME RepeatInv, ProbeXAttrSupport \/ ProbeACLSupport
  PROVE  ProbedInv' /\ base' \in {"none", "dir", "file"} /\ phase' \notin {"subtree", "cells"}
<1>1. UNCHANGED <<env, call>> /\ base' = ProbedBase
  BY DEF ProbeXAttrSupport, ProbeACLSupport, Probe, callVars
<1>2. /\ base' \in {"none", "dir", "file"} /\ (base # "file" => ProbedBase = "dir")
  BY <1>1 DEF RepeatInv, ProbedBase
<1>3. CASE ProbeXAttrSupport
  <2>1. /\ phase = "probe-xattr" /\ phase' = "probe-acl"
        /\ probes' = probes \cup (IF ProbedBase = "dir" /\ env.xattr THEN {"xattr"} ELSE {})
    BY <1>3 DEF ProbeXAttrSupport, Probe
  <2> QED BY <1>1, <1>2, <2>1 DEF RepeatInv, ProbedInv
<1>4. CASE ProbeACLSupport
  <2>1. /\ phase = "probe-acl" /\ phase' = "resolve"
        /\ probes' = probes \cup (IF ProbedBase = "dir" /\ env.acl THEN {"acl"} ELSE {})
    BY <1>4 DEF ProbeACLSupport, Probe
  <2> QED BY <1>1, <1>2, <2>1 DEF RepeatInv, ProbedInv, ProbesFor
<1> QED BY <1>2, <1>3, <1>4

(* Elsewhere the probes do not matter. *)
LEMMA ElsewhereProbed ==
  ASSUME phase' \notin {"probe-xattr", "probe-acl", "resolve"}
  PROVE  ProbedInv'
BY DEF ProbedInv

(* The plan that is kept is the one at the end of the way. *)
LEMMA PlannedLogged ==
  ASSUME RepeatInv, Planned
  PROVE  LoggedInv'
<1>1. /\ phase = "subtree" /\ sub > Len(SubTrees) /\ env' = env
      /\ log' = log \cup {[base |-> call.base, opts |-> call.opts, plan |-> entries]}
  BY DEF Planned, callVars
<1>2. \A o : StartFor(o)' = StartFor(o)
  BY <1>1, StartStays
<1> DEFINE new == [base |-> call.base, opts |-> call.opts, plan |-> entries]
<1>3. new.base = call.base /\ new.opts = call.opts /\ new.plan = entries
  OBVIOUS
<1> HIDE DEF new
<1>4. ASSUME new.base # "file"
      PROVE  \E z : Leads(StartFor(new.opts), z) /\ Over(z) /\ new.plan = z.entries
  <2>1. PICK p : Leads(StartFor(call.opts), EnumNow(p))
    BY <1>1, <1>3, <1>4 DEF RepeatInv, OnTheWay
  <2>2. Over(EnumNow(p)) /\ EnumNow(p).entries = entries
    BY <1>1 DEF Over, EnumNow, EnumState
  <2> QED BY <1>3, <2>1, <2>2
<1>5. ASSUME NEW r \in log, r.base # "file"
      PROVE  \E z : Leads(StartFor(r.opts), z) /\ Over(z) /\ r.plan = z.entries
  BY <1>5 DEF RepeatInv, LoggedInv
<1>6. \A r \in log' : r \in log \/ r = new
  BY <1>1 DEF new
<1> QED BY <1>2, <1>4, <1>5, <1>6 DEF LoggedInv

(* A step that changes nothing of it. *)
LEMMA RepeatStays ==
  ASSUME RepeatInv, UNCHANGED <<env, base, call, probes, caps, entries, nextCell, sub, cell, phase,
                                log>>, UNCHANGED pairVars
  PROVE  RepeatInv'
<1>1. LoggedInv'
  BY LoggedStays DEF RepeatInv
<1>2. ProbedInv'
  BY DEF RepeatInv, ProbedInv, ProbesFor
<1>3. OnTheWay'
  <2>1. Times' = Times /\ PairNow' = PairNow
    BY DEF Times, PairNow, pairVars
  <2>2. \A p : EnumNow(p)' = EnumNow(p)
    BY <2>1 DEF EnumNow
  <2>3. StartFor(call.opts)' = StartFor(call.opts)
    BY StartStays
  <2> QED BY <2>1, <2>2, <2>3 DEF RepeatInv, OnTheWay
<1> QED BY <1>1, <1>2, <1>3 DEF RepeatInv

(* Every step keeps the enumerations on their way. *)
LEMMA RepeatStep ==
  ASSUME RepeatInv, NeedsInv, PairInv, [CoverageNext]_coverageVars
  PROVE  RepeatInv'
<1>1. CASE CallStep /\ ~ Planned /\ ~ Configuring
  <2>1. env' = env /\ log' = log
    BY <1>1 DEF CallStep, ProbeXAttrSupport, ProbeACLSupport, Probe, ResolveCapabilities,
      SkipSubTree, StartSubTree, SearchCases, EmitCell, EndSubTree, ReportSpec, OverLimit, StartApply, ApplyEnds,
      PlanAtRandom, callVars
  <2>2. LoggedInv'
    BY <2>1, LoggedStays DEF RepeatInv
  <2>3. CASE ProbeXAttrSupport \/ ProbeACLSupport
    BY <2>2, <2>3, ProbeProbed, ElsewhereRepeats DEF RepeatInv
  <2>4. CASE \/ ResolveCapabilities \/ SkipSubTree \/ StartSubTree \/ SearchCases \/ EmitCell
             \/ EndSubTree
    <3>1. base' = base /\ phase' \in {"subtree", "cells", "failed"}
      BY <2>4 DEF ResolveCapabilities, SkipSubTree, StartSubTree, SearchCases, EmitCell, EndSubTree,
        AppendEntries
    <3>2. OnTheWay'
      BY <2>4, ResolveRepeats, SubTreeRepeats, SearchRepeats, EmitRepeats, EndRepeats
    <3> QED BY <2>2, <3>1, <3>2, ElsewhereProbed DEF RepeatInv
  <2>5. CASE ReportSpec \/ OverLimit \/ StartApply \/ ApplyEnds \/ PlanAtRandom
    <3>1. /\ phase' \in {"returned", "failed", "applying"}
          /\ base' = base \/ base' \in {"dir", "none"}
      BY <2>5 DEF ReportSpec, OverLimit, StartApply, ApplyEnds, PlanAtRandom, ApplyTo
    <3> QED BY <2>2, <3>1, ElsewhereProbed, ElsewhereRepeats DEF RepeatInv
  <2> QED BY <1>1, <2>3, <2>4, <2>5 DEF CallStep
<1>2. CASE Planned
  <2>1. phase' = "planned" /\ base' = base
    BY <1>2 DEF Planned
  <2> QED BY <1>2, <2>1, PlannedLogged, ElsewhereProbed, ElsewhereRepeats DEF RepeatInv
<1>3. ASSUME NEW kind, NEW o, IsRequest(o), StartCall(kind, o) PROVE RepeatInv'
  <2>1. env' = env /\ log' = log /\ base' = base /\ phase' \notin {"subtree", "cells"}
    BY <1>3 DEF StartCall
  <2> QED BY <1>3, <2>1, LoggedStays, StartProbed, ElsewhereRepeats DEF RepeatInv
<1>4. CASE \E c \in env.calls : StartCall(c.kind, c.opts)
  <2>1. PICK c \in env.calls : StartCall(c.kind, c.opts)
    BY <1>4
  <2>2. IsRequest(c.opts)
    BY ScaleFacts DEF NeedsInv
  <2> QED BY <1>3, <2>1, <2>2
<1>5. CASE RunCoverage
  BY <1>3, <1>5 DEF RunCoverage, NeedsInv, AskedInv
<1>6. CASE RunRandom
  <2>1. /\ env' = env /\ log' = log /\ base' = base
        /\ phase' \in {"returned", "failed", "planning"}
    BY <1>6 DEF RunRandom
  <2> QED BY <2>1, LoggedStays, ElsewhereProbed, ElsewhereRepeats DEF RepeatInv
<1>7. CASE \/ Configuring \/ (\E options \in env.options : CallConfigure(options))
           \/ UNCHANGED coverageVars
  <2>1. /\ UNCHANGED <<env, base, call, probes, caps, entries, nextCell, sub, cell, phase, log>>
        /\ UNCHANGED pairVars
    BY <1>7 DEF Configuring, CallConfigure, coverageVars, callVars, planVars
  <2> QED BY <2>1, RepeatStays
<1> QED BY <1>1, <1>2, <1>4, <1>5, <1>6, <1>7 DEF CoverageNext

(* The same options start the same enumeration. *)
LEMMA RepeatSuffices == RepeatInv => SamePlanAgain
<1> SUFFICES ASSUME RepeatInv, NEW r \in log, NEW t \in log,
                    r.opts.effort = t.opts.effort, r.opts.linux = t.opts.linux,
                    r.opts.priv = t.opts.priv, r.base # "file", t.base # "file"
             PROVE  r.plan = t.plan
  BY DEF SamePlanAgain
<1>1. ProbesFor(env, r.opts) = ProbesFor(env, t.opts)
  BY DEF ProbesFor
<1>2. CapsFor(env, r.opts) = CapsFor(env, t.opts)
  BY <1>1 DEF CapsFor, Admitted
<1>3. StartFor(r.opts) = StartFor(t.opts)
  BY <1>2 DEF StartFor
<1>4. PICK x : Leads(StartFor(r.opts), x) /\ Over(x) /\ r.plan = x.entries
  BY DEF RepeatInv, LoggedInv
<1>5. PICK y : Leads(StartFor(t.opts), y) /\ Over(y) /\ t.plan = y.entries
  BY DEF RepeatInv, LoggedInv
<1>6. x = y
  BY <1>3, <1>4, <1>5, LeadsToOne
<1> QED BY <1>4, <1>5, <1>6

(***************************************************************************)
(* The determinism contract of RunDeterministicCoverage, for every scale,  *)
(* host and number of calls: calls with the same effort and flags plan the *)
(* same entries, whoever calls, in whatever order, however earlier calls   *)
(* ended and however the generator was configured and used between them,   *)
(* unless there is a file at the base path (coverage.go,                   *)
(* coverage_capabilities_linux.go, coverage_enumerator.go).                *)
(***************************************************************************)
THEOREM CoverageSamePlanAgain == CoverageSpec => []SamePlanAgain
<1>1. RepeatInv /\ NeedsInv /\ PairInv /\ [CoverageNext]_coverageVars => RepeatInv'
  BY RepeatStep
<1> QED BY <1>1, RepeatInit, RepeatSuffices, NeedsInvHolds, PTL DEF CoverageSpec

=============================================================================
