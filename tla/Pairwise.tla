------------------------------ MODULE Pairwise ------------------------------
(***************************************************************************)
(* coveragePairwise (coverage_enumerator.go): the greedy generator of a    *)
(* pairwise covering array.  For dimensions of the given sizes it returns  *)
(* test cases, one value per dimension, such that every two values of two  *)
(* dimensions occur together in some case.                                 *)
(*                                                                         *)
(* The state is that of the call: the list of uncovered pairs, which the   *)
(* code keeps in lexicographic order and only filters, is the set of them; *)
(* its first element is the least one.  Dimensions count from one, values  *)
(* from zero as in the code.                                               *)
(***************************************************************************)
EXTENDS Integers, Sequences, FiniteSets

VARIABLES
  dimSizes,   \* the argument
  uncovered,  \* pairs of values no case holds yet
  tc,         \* the case being built, Unset where no value is chosen
  cases,      \* the result
  at          \* "idle", "seed", "fill" or "done"

pairVars == <<dimSizes, uncovered, tc, cases, at>>

Unset == -1

Values(d) == 0 .. (dimSizes[d] - 1)

(* The pairs of values of the dimensions d and e, and of any two. *)
PairsOf(sizes, d, e) ==
  [d1 : {d}, d2 : {e}, v1 : 0 .. (sizes[d] - 1), v2 : 0 .. (sizes[e] - 1)]
Pairs(sizes) ==
  UNION {UNION {PairsOf(sizes, d, e) : e \in DOMAIN sizes} : d \in DOMAIN sizes}

(* Those the code enumerates: the first dimension before the second. *)
OrderedPairs(sizes) == {p \in Pairs(sizes) : p.d1 < p.d2}

(* The order in which they are enumerated. *)
Before(p, q) ==
  \/ p.d1 < q.d1
  \/ p.d1 = q.d1 /\ p.d2 < q.d2
  \/ p.d1 = q.d1 /\ p.d2 = q.d2 /\ p.v1 < q.v1
  \/ p.d1 = q.d1 /\ p.d2 = q.d2 /\ p.v1 = q.v1 /\ p.v2 < q.v2

(* uncovered[0] *)
First == CHOOSE p \in uncovered : \A q \in uncovered : p = q \/ Before(p, q)

(* A case holds both values of a pair. *)
Holds(case, p) == case[p.d1] = p.v1 /\ case[p.d2] = p.v2

(* The uncovered pairs that value v in slot d would cover right now. *)
Gain(d, v) ==
  {p \in uncovered : \/ p.d1 = d /\ p.v1 = v /\ tc[p.d2] = p.v2
                     \/ p.d2 = d /\ p.v2 = v /\ tc[p.d1] = p.v1}

(* bestV: the most gain, the lowest value among equals. *)
BestValue(d) ==
  CHOOSE v \in Values(d) :
    \A w \in Values(d) :
      \/ Cardinality(Gain(d, v)) > Cardinality(Gain(d, w))
      \/ Cardinality(Gain(d, v)) = Cardinality(Gain(d, w)) /\ v <= w

(* The next slot the loop over d comes to. *)
NextSlot == CHOOSE d \in DOMAIN tc : tc[d] = Unset /\ \A e \in 1 .. (d - 1) : tc[e] # Unset

-----------------------------------------------------------------------------
(* One call *)

PairInit ==
  /\ dimSizes = <<>>
  /\ uncovered = {}
  /\ tc = <<>>
  /\ cases = <<>>
  /\ at = "idle"

(* The call begins: no dimensions, an empty one, or a single one need no   *)
(* search.                                                                 *)
Begin(sizes) ==
  /\ at \in {"idle", "done"}
  /\ dimSizes' = sizes
  /\ tc' = <<>>
  /\ IF Len(sizes) < 2 \/ \E d \in DOMAIN sizes : sizes[d] <= 0
     THEN /\ uncovered' = {}
          /\ cases' = IF Len(sizes) = 1 THEN [k \in 1 .. sizes[1] |-> <<k - 1>>]
                      ELSE <<>>
          /\ at' = "done"
     ELSE /\ uncovered' = OrderedPairs(sizes)
          /\ cases' = <<>>
          /\ at' = "seed"

(* A new case starts from the first uncovered pair. *)
SeedCase ==
  /\ at = "seed"
  /\ uncovered # {}
  /\ tc' = [d \in DOMAIN dimSizes |->
              CASE d = First.d1 -> First.v1
                [] d = First.d2 -> First.v2
                [] OTHER        -> Unset]
  /\ at' = "fill"
  /\ UNCHANGED <<dimSizes, uncovered, cases>>

FillSlot ==
  /\ at = "fill"
  /\ \E d \in DOMAIN tc : tc[d] = Unset
  /\ tc' = [tc EXCEPT ![NextSlot] = BestValue(NextSlot)]
  /\ UNCHANGED <<dimSizes, uncovered, cases, at>>

(* Mutant: a pair is taken to be covered when one of its values is there. *)
StillUncoveredEither == {p \in uncovered : tc[p.d1] # p.v1 /\ tc[p.d2] # p.v2}

(* Mutant: the filtered list is not assigned. *)
StillUncoveredAll == uncovered

(* What the filter at the end of a case keeps. *)
StillUncovered == {p \in uncovered : ~ Holds(tc, p)}

FinishCase ==
  /\ at = "fill"
  /\ \A d \in DOMAIN tc : tc[d] # Unset
  /\ uncovered' = StillUncovered
  /\ cases' = Append(cases, tc)
  /\ at' = "seed"
  /\ UNCHANGED <<dimSizes, tc>>

ReturnCases ==
  /\ at = "seed"
  /\ uncovered = {}
  /\ at' = "done"
  /\ UNCHANGED <<dimSizes, uncovered, tc, cases>>

PairStep == SeedCase \/ FillSlot \/ FinishCase \/ ReturnCases

(* Calls follow each other with whatever sizes the callers give. *)
PairNext == PairStep \/ \E sizes \in Seq(Int) : Begin(sizes)

PairSpec == PairInit /\ [][PairNext]_pairVars

-----------------------------------------------------------------------------
(* Properties *)

(* Sizes for which there is something to cover. *)
Coverable(sizes) == sizes # <<>> /\ \A d \in DOMAIN sizes : sizes[d] > 0

(***************************************************************************)
(* The array covers: when coveragePairwise returns, every value of every   *)
(* dimension occurs in some case, and every two values of two dimensions   *)
(* occur together in one, whatever the greedy choices were.                *)
(***************************************************************************)
PairsCovered ==
  (at = "done" /\ Coverable(dimSizes)) =>
    \A p \in Pairs(dimSizes) :
      (p.d1 = p.d2 => p.v1 = p.v2) => \E k \in DOMAIN cases : Holds(cases[k], p)

(***************************************************************************)
(* No case is wasted: with two dimensions or more, each case holds a pair  *)
(* that no earlier case holds, so the loop ends after at most as many      *)
(* cases as there are pairs, and no case has a value out of range, which   *)
(* the enumerators would use as an index.                                  *)
(***************************************************************************)
CasesEarnTheirPlace ==
  \A k \in DOMAIN cases :
    /\ DOMAIN cases[k] = DOMAIN dimSizes
    /\ \A d \in DOMAIN dimSizes : cases[k][d] \in Values(d)
    /\ Len(dimSizes) > 1 =>
         \E p \in OrderedPairs(dimSizes) :
           /\ Holds(cases[k], p)
           /\ \A j \in 1 .. (k - 1) : ~ Holds(cases[j], p)

=============================================================================
