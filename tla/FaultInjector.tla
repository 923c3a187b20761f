--------------------------- MODULE FaultInjector ---------------------------
(***************************************************************************)
(* Deterministic fault injection (faults.go, executor.go): a profile is a  *)
(* sequence of rules; an execution context holds, for each rule, how often *)
(* it matched and whether it has fired.  Every execution of a plan or of   *)
(* an operation stream makes a fresh context and asks it before each step. *)
(*                                                                         *)
(* The operators are pure; ApplyPlan and Mutation keep the context in a    *)
(* variable of their own.  A path pattern is the set of paths it matches,  *)
(* the empty pattern the empty set.                                        *)
(***************************************************************************)
EXTENDS Integers, Sequences

(* The loop takes the rules in their order. *)
FirstRule(S) == CHOOSE n \in S : \A m \in S : n <= m

(* FaultProfile.validate: a rule needs a positive Nth and a known scope. *)
validate(rules) ==
  \A r \in DOMAIN rules :
    /\ rules[r].nth > 0
    /\ rules[r].scope \in {"any", "run", "mutation"}

(* newFaultInjector *)
newFaultInjector(rules) ==
  [r \in DOMAIN rules |-> [matchCount |-> 0, triggered |-> FALSE]]

faultRuleMatchesPoint(rule, point) ==
  /\ rule.scope \in {"any", point.scope}
  /\ rule.kind \in {"", point.kind}
  /\ rule.paths = {} \/ point.path \in rule.paths

(* The rules whose counter advances if the loop reaches them. *)
Advancing(rules, inj, point) ==
  {r \in DOMAIN rules : /\ ~ inj[r].triggered
                        /\ faultRuleMatchesPoint(rules[r], point)}

(* Mutant: the injector fires on the match after the Nth one. *)
DueLate(rules, inj, point) ==
  {r \in Advancing(rules, inj, point) : inj[r].matchCount = rules[r].nth}

(* The rules that would fire at this point. *)
Due(rules, inj, point) ==
  {r \in Advancing(rules, inj, point) : inj[r].matchCount + 1 = rules[r].nth}

(* The rule whose error `before` returns, 0 when it returns nil. *)
FiredRule(rules, inj, point) ==
  IF Due(rules, inj, point) = {} THEN 0 ELSE FirstRule(Due(rules, inj, point))

(***************************************************************************)
(* faultInjector.before: the loop stops at the rule that fires, so the     *)
(* counters of the rules after it do not see this point.                   *)
(***************************************************************************)
before(rules, inj, point) ==
  LET fired == FiredRule(rules, inj, point)
  IN  [r \in DOMAIN rules |->
         IF r \in Advancing(rules, inj, point) /\ (fired = 0 \/ r <= fired)
         THEN [matchCount |-> inj[r].matchCount + 1, triggered |-> r = fired]
         ELSE inj[r]]

(***************************************************************************)
(* What the documentation promises, as a function of the points passed so  *)
(* far: a rule fires at the Nth point that matches it.                     *)
(***************************************************************************)
Matches(rule, points) ==
  {k \in DOMAIN points : faultRuleMatchesPoint(rule, points[k])}

=============================================================================
