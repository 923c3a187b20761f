------------------------- MODULE CrossDeviceProofs -------------------------
(***************************************************************************)
(* Proofs about CrossDevice, for any devices, any number of bind sources   *)
(* and any bound on setups and failures: the variables keep their types,   *)
(* and a scenario always knows the one mount it has to give back.          *)
(*                                                                         *)
(* HandleOwns is not inductive: that Unmount hits the scenario's own mount *)
(* needs that this mount is the topmost one, that no mount is ascribed to  *)
(* a setup that has not begun, and that nothing is mounted at the two      *)
(* places from which setup mounts.                                         *)
(***************************************************************************)
EXTENDS CrossDevice, TLAPS, FiniteSetTheorems

(* The setup n has mounted nothing, or just what is topmost. *)
NoneBy(ms, n) == \A k \in DOMAIN ms : ms[k].by # n
TopBy(ms, n) ==
  /\ ms # <<>>
  /\ \A k \in DOMAIN ms : ms[k].by = n <=> k = Len(ms)

(* The scenario sc of setup n answers for what is in ms and src. *)
Answers(sc, ms, src, n) ==
  /\ sc.secondaryMounted => TopBy(ms, n)
  /\ ~ sc.secondaryMounted => NoneBy(ms, n)
  /\ sc.bindSourcePath # NoSource => sc.bindSourcePath \in src

CrossDeviceInv ==
  /\ TypeOK
  /\ \A k \in DOMAIN mounts : mounts[k].by <= setups
  /\ NoneBy(mounts, setups) \/ TopBy(mounts, setups)
  /\ pc # "idle" => setups > 0 /\ Answers(scenario, mounts, sources, setups)
  /\ pc \in {"tmpfs", "fallback"} => ~ scenario.secondaryMounted
  /\ (pc = "idle" /\ result = "closed") => NoneBy(mounts, setups)

-----------------------------------------------------------------------------

(* The elements of a sequence over any set. *)
LEMMA SeqFacts ==
  ASSUME NEW R, NEW ms \in Seq(R)
  PROVE  /\ Len(ms) \in Nat /\ DOMAIN ms = 1 .. Len(ms)
         /\ \A k \in DOMAIN ms : ms[k] \in R
         /\ ms # <<>> => Len(ms) > 0 /\ Len(ms) \in DOMAIN ms
OBVIOUS

(* A sequence without its last element. *)
LEMMA FrontFacts ==
  ASSUME NEW R, NEW ms \in Seq(R), Len(ms) > 0
  PROVE  LET rest == SubSeq(ms, 1, Len(ms) - 1)
         IN  /\ rest \in Seq(R)
             /\ DOMAIN rest = 1 .. (Len(ms) - 1)
             /\ \A k \in 1 .. (Len(ms) - 1) : rest[k] = ms[k]
<1> DEFINE n == Len(ms) - 1
           rest == SubSeq(ms, 1, n)
<1>1. n \in Nat /\ \A k \in 1 .. n : k \in DOMAIN ms /\ ms[k] \in R
  OBVIOUS
<1> HIDE DEF n
<1>2. rest = [k \in 1 .. n |-> ms[k]]
  BY <1>1
<1> HIDE DEF rest
<1>3. rest \in Seq(R)
  BY <1>1, <1>2
<1> QED BY <1>2, <1>3 DEF n, rest

(* The device of the secondary root is a device, mounted or not. *)
LEMMA SecondaryIsDevice == TypeOK => SecondaryDevice \in Devices
<1> SUFFICES ASSUME TypeOK PROVE SecondaryDevice \in Devices
  OBVIOUS
<1>1. mounts # <<>> => mounts[Len(mounts)] \in [by : 1 .. MaxSetups, device : Devices]
  BY SeqFacts DEF TypeOK
<1>2. mounts # <<>> => mounts[Len(mounts)].device \in Devices
  BY <1>1
<1> QED BY <1>2 DEF SecondaryDevice, TypeOK

(* What a new mount of setup n does to a stack of mounts without one. *)
LEMMA MountFacts ==
  ASSUME NEW ms \in Seq([by : 1 .. MaxSetups, device : Devices]),
         NEW n \in 1 .. MaxSetups, NEW d \in Devices,
         NoneBy(ms, n), \A k \in DOMAIN ms : ms[k].by <= n
  PROVE  LET new == Append(ms, [by |-> n, device |-> d])
         IN  /\ new \in Seq([by : 1 .. MaxSetups, device : Devices])
             /\ TopBy(new, n)
             /\ \A k \in DOMAIN new : new[k].by <= n
<1> DEFINE m == [by |-> n, device |-> d]
           new == Append(ms, m)
<1>1. m \in [by : 1 .. MaxSetups, device : Devices] /\ m.by = n
  OBVIOUS
<1> HIDE DEF m
<1>2. /\ new \in Seq([by : 1 .. MaxSetups, device : Devices])
      /\ Len(new) = Len(ms) + 1 /\ Len(ms) \in Nat
      /\ DOMAIN new = 1 .. (Len(ms) + 1) /\ DOMAIN ms = 1 .. Len(ms)
      /\ \A k \in 1 .. Len(ms) : new[k] = ms[k]
      /\ new[Len(ms) + 1] = m
  BY <1>1
<1> HIDE DEF new
<1>3. n <= n
  BY CrossDeviceAssumption
<1>4. \A k \in DOMAIN new : new[k].by <= n
  BY <1>1, <1>2, <1>3
<1>5. TopBy(new, n)
  <2>1. new # <<>>
    BY <1>2
  <2>2. ASSUME NEW k \in DOMAIN new PROVE new[k].by = n <=> k = Len(new)
    <3>1. CASE k \in 1 .. Len(ms)
      <4>1. k # Len(new)
        BY <1>2, <3>1
      <4> QED BY <1>2, <3>1, <4>1 DEF NoneBy
    <3>2. CASE k = Len(ms) + 1
      BY <1>1, <1>2, <3>2
    <3> QED BY <1>2, <3>1, <3>2
  <2> QED BY <2>1, <2>2 DEF TopBy
<1> QED BY <1>2, <1>4, <1>5 DEF new, m

(* What taking the topmost mount away does to a stack. *)
LEMMA UnmountFacts ==
  ASSUME NEW ms \in Seq([by : 1 .. MaxSetups, device : Devices]),
         NEW n \in 1 .. MaxSetups, TopBy(ms, n),
         \A k \in DOMAIN ms : ms[k].by <= n
  PROVE  LET rest == SubSeq(ms, 1, Len(ms) - 1)
         IN  /\ rest \in Seq([by : 1 .. MaxSetups, device : Devices])
             /\ NoneBy(rest, n)
             /\ \A k \in DOMAIN rest : rest[k].by <= n
<1> DEFINE rest == SubSeq(ms, 1, Len(ms) - 1)
<1>1. Len(ms) \in Nat /\ Len(ms) > 0 /\ DOMAIN ms = 1 .. Len(ms)
  BY DEF TopBy
<1>2. /\ rest \in Seq([by : 1 .. MaxSetups, device : Devices])
      /\ DOMAIN rest = 1 .. (Len(ms) - 1)
      /\ \A k \in 1 .. (Len(ms) - 1) : rest[k] = ms[k]
  BY <1>1, FrontFacts
<1> HIDE DEF rest
<1>3. NoneBy(rest, n)
  <2> SUFFICES ASSUME NEW k \in DOMAIN rest PROVE rest[k].by # n
    BY DEF NoneBy
  <2>1. k \in DOMAIN ms /\ k # Len(ms)
    BY <1>1, <1>2
  <2> QED BY <1>2, <2>1 DEF TopBy
<1>4. ASSUME NEW k \in DOMAIN rest PROVE rest[k].by <= n
  <2>1. k \in DOMAIN ms
    BY <1>1, <1>2
  <2> QED BY <1>2, <2>1
<1> QED BY <1>2, <1>3, <1>4 DEF rest

(***************************************************************************)
(* Close, whichever of its parts fails: the scenario still answers for     *)
(* what is left, and has nothing mounted if the unmount went well.         *)
(***************************************************************************)
LEMMA CloseFacts ==
  ASSUME CrossDeviceInv, pc # "idle",
         NEW unmounted \in BOOLEAN, NEW removed \in BOOLEAN,
         Close(unmounted, removed), UNCHANGED setups
  PROVE  /\ mounts' \in Seq([by : 1 .. MaxSetups, device : Devices])
         /\ sources' \in SUBSET Source
         /\ scenario' \in Scenario
         /\ failures' \in 0 .. MaxFailures
         /\ \A k \in DOMAIN mounts' : mounts'[k].by <= setups'
         /\ Answers(scenario', mounts', sources', setups')
         /\ NoneBy(mounts', setups') \/ TopBy(mounts', setups')
         /\ unmounted => ~ scenario'.secondaryMounted
<1>0. /\ setups \in 1 .. MaxSetups
      /\ mounts \in Seq([by : 1 .. MaxSetups, device : Devices])
      /\ scenario \in Scenario /\ sources \in SUBSET Source
      /\ failures \in 0 .. MaxFailures
      /\ Answers(scenario, mounts, sources, setups)
      /\ \A k \in DOMAIN mounts : mounts[k].by <= setups
  BY CrossDeviceAssumption DEF CrossDeviceInv, TypeOK
<1>1. failures' \in 0 .. MaxFailures
  BY <1>0, CrossDeviceAssumption DEF Close
<1>2. scenario' \in Scenario /\ sources' \in SUBSET Source
  BY <1>0 DEF Close, Scenario
<1>3. /\ scenario'.secondaryMounted = (scenario.secondaryMounted /\ ~ unmounted)
      /\ scenario'.bindSourcePath = IF removed THEN NoSource ELSE scenario.bindSourcePath
  BY <1>0 DEF Close, Scenario
<1>4. scenario'.bindSourcePath # NoSource => scenario'.bindSourcePath \in sources'
  BY <1>0, <1>3 DEF Close, Answers
<1>5. CASE scenario.secondaryMounted /\ unmounted
  <2>1. mounts' = SubSeq(mounts, 1, Len(mounts) - 1)
    BY <1>5 DEF Close
  <2>2. TopBy(mounts, setups)
    BY <1>0, <1>5 DEF Answers
  <2>3. /\ mounts' \in Seq([by : 1 .. MaxSetups, device : Devices])
        /\ NoneBy(mounts', setups')
        /\ \A k \in DOMAIN mounts' : mounts'[k].by <= setups'
    BY <1>0, <2>1, <2>2, UnmountFacts
  <2> QED BY <1>1, <1>2, <1>3, <1>4, <1>5, <2>3 DEF Answers
<1>6. CASE ~ (scenario.secondaryMounted /\ unmounted)
  <2>1. mounts' = mounts
    BY <1>6 DEF Close
  <2>2. scenario'.secondaryMounted = scenario.secondaryMounted
    BY <1>0, <1>3, <1>6 DEF Scenario
  <2>3. Answers(scenario', mounts', sources', setups')
    BY <1>0, <1>4, <2>1, <2>2 DEF Answers
  <2>4. unmounted => ~ scenario'.secondaryMounted
    BY <1>6, <2>2
  <2> QED BY <1>0, <1>1, <1>2, <2>1, <2>3, <2>4 DEF Answers
<1> QED BY <1>5, <1>6

-----------------------------------------------------------------------------

(* Nothing is mounted before the first setup. *)
LEMMA CrossDeviceInvInit == Init => CrossDeviceInv
<1> SUFFICES ASSUME Init PROVE CrossDeviceInv
  OBVIOUS
<1>1. mounts = <<>> /\ DOMAIN mounts = {}
  BY DEF Init
<1>2. NoneBy(mounts, setups)
  BY <1>1 DEF NoneBy
<1>3. TypeOK
  BY CrossDeviceAssumption DEF Init, TypeOK, Scenario
<1> QED BY <1>1, <1>2, <1>3 DEF Init, CrossDeviceInv

(* A new setup has made no mount yet, whatever earlier ones left. *)
LEMMA SetupAction == ASSUME CrossDeviceInv, Setup PROVE CrossDeviceInv'
<1>0. /\ mounts \in Seq([by : 1 .. MaxSetups, device : Devices])
      /\ setups \in Nat /\ setups' = setups + 1 /\ setups' \in 1 .. MaxSetups
      /\ mounts' = mounts /\ sources' = sources
      /\ \A k \in DOMAIN mounts : mounts[k].by <= setups
  BY CrossDeviceAssumption DEF CrossDeviceInv, TypeOK, Setup
<1>9. \A k \in DOMAIN mounts : mounts[k].by \in Nat
  <2>1. \A k \in DOMAIN mounts : mounts[k] \in [by : 1 .. MaxSetups, device : Devices]
    BY <1>0, SeqFacts
  <2> QED BY <2>1, CrossDeviceAssumption
<1>1. NoneBy(mounts', setups') /\ \A k \in DOMAIN mounts' : mounts'[k].by <= setups'
  BY <1>0, <1>9 DEF NoneBy
<1>2. SecondaryDevice \in Devices
  BY SecondaryIsDevice DEF CrossDeviceInv
<1>3. /\ scenario' = [device |-> SecondaryDevice, secondaryMounted |-> FALSE,
                      bindSourcePath |-> NoSource]
      /\ candidate' = 1
      /\ pc' \in {"idle", "open", "tmpfs"} /\ result' \in {"error", "ok", "none"}
  BY DEF Setup, Return
<1>4. scenario' \in Scenario /\ ~ scenario'.secondaryMounted /\ scenario'.bindSourcePath = NoSource
  BY <1>2, <1>3 DEF Scenario
<1>5. TypeOK'
  BY <1>0, <1>3, <1>4, CrossDeviceAssumption DEF TypeOK, CrossDeviceInv, Setup
<1>6. Answers(scenario', mounts', sources', setups')
  BY <1>1, <1>4 DEF Answers
<1> QED BY <1>0, <1>1, <1>4, <1>5, <1>6 DEF CrossDeviceInv

(***************************************************************************)
(* The two ways to mount: the new mount is the scenario's, and it is on    *)
(* top.                                                                    *)
(***************************************************************************)
LEMMA MountAction ==
  ASSUME CrossDeviceInv, TmpfsMounted \/ CandidateMounted
  PROVE  CrossDeviceInv'
<1>0. /\ pc \in {"tmpfs", "fallback"} /\ setups \in 1 .. MaxSetups
      /\ mounts \in Seq([by : 1 .. MaxSetups, device : Devices])
      /\ scenario \in Scenario /\ sources \in SUBSET Source
      /\ Answers(scenario, mounts, sources, setups)
      /\ ~ scenario.secondaryMounted
      /\ \A k \in DOMAIN mounts : mounts[k].by <= setups
      /\ candidate \in Nat
  BY CrossDeviceAssumption
     DEF CrossDeviceInv, TypeOK, TmpfsMounted, CandidateMounted, AtCandidate
<1>1. NoneBy(mounts, setups)
  BY <1>0 DEF Answers
<1>2. PICK device \in Devices : Mount(device)
  BY DEF TmpfsMounted, CandidateMounted
<1>3. /\ mounts' \in Seq([by : 1 .. MaxSetups, device : Devices])
      /\ TopBy(mounts', setups')
      /\ \A k \in DOMAIN mounts' : mounts'[k].by <= setups'
      /\ setups' = setups /\ plain' = plain /\ failures' = failures
      /\ candidate' = candidate
  BY <1>0, <1>1, <1>2, MountFacts DEF Mount
<1>4. /\ scenario' \in Scenario /\ sources' \in SUBSET Source
      /\ scenario'.secondaryMounted
      /\ scenario'.bindSourcePath # NoSource => scenario'.bindSourcePath \in sources'
      /\ pc' \in {"refresh", "recheck"} /\ result' = "none"
  <2>1. CASE TmpfsMounted
    BY <1>0, <2>1 DEF TmpfsMounted, Scenario, Answers, Return
  <2>2. CASE CandidateMounted
    <3>1. <<setups, candidate>> \in Source
      BY <1>0, <2>2, CrossDeviceAssumption
         DEF CandidateMounted, AtCandidate, Source, CrossDeviceInv, TypeOK
    <3> QED BY <1>0, <2>2, <3>1 DEF CandidateMounted, Scenario, Return
  <2> QED BY <2>1, <2>2
<1>5. TypeOK'
  BY <1>0, <1>3, <1>4 DEF TypeOK, CrossDeviceInv
<1>6. Answers(scenario', mounts', sources', setups')
  BY <1>3, <1>4 DEF Answers
<1>7. setups' > 0
  BY <1>0, <1>3
<1> QED BY <1>3, <1>4, <1>5, <1>6, <1>7 DEF CrossDeviceInv

(* The three steps that call Close. *)
LEMMA CloseAction ==
  ASSUME CrossDeviceInv, CallClose \/ NotDistinct \/ RefreshFails
  PROVE  CrossDeviceInv'
<1>0. pc # "idle" /\ setups > 0 /\ UNCHANGED <<plain, candidate, setups>>
  BY DEF CrossDeviceInv, CallClose, NotDistinct, RefreshFails, AfterMount
<1>1. PICK unmounted \in BOOLEAN, removed \in BOOLEAN :
        /\ Close(unmounted, removed)
        /\ pc' \in {"idle", "open", "fallback"}
        /\ result' \in {"none", "error", "closed"}
        /\ pc' = "fallback" => unmounted
        /\ (pc' = "idle" /\ result' = "closed") => unmounted
  BY DEF CallClose, NotDistinct, RefreshFails, Return
<1>2. /\ mounts' \in Seq([by : 1 .. MaxSetups, device : Devices])
      /\ sources' \in SUBSET Source
      /\ scenario' \in Scenario
      /\ failures' \in 0 .. MaxFailures
      /\ \A k \in DOMAIN mounts' : mounts'[k].by <= setups'
      /\ Answers(scenario', mounts', sources', setups')
      /\ NoneBy(mounts', setups') \/ TopBy(mounts', setups')
      /\ unmounted => ~ scenario'.secondaryMounted
  BY <1>0, <1>1, CloseFacts
<1>3. TypeOK'
  BY <1>0, <1>1, <1>2 DEF TypeOK, CrossDeviceInv
<1>4. (pc' = "idle" /\ result' = "closed") => NoneBy(mounts', setups')
  BY <1>1, <1>2 DEF Answers
<1> QED BY <1>0, <1>1, <1>2, <1>3, <1>4 DEF CrossDeviceInv

(* The steps that change neither mounts nor what is recorded of them. *)
LEMMA OtherAction ==
  ASSUME CrossDeviceInv, TmpfsFails \/ Refreshed \/ CandidateFails \/ NoCandidateLeft
  PROVE  CrossDeviceInv'
<1>0. /\ mounts' = mounts /\ setups' = setups /\ pc # "idle"
      /\ plain' = plain /\ failures' = failures
  BY DEF TmpfsFails, Refreshed, CandidateFails, NoCandidateLeft, AtCandidate, AfterMount
<1>1. SecondaryDevice \in Devices
  BY SecondaryIsDevice DEF CrossDeviceInv
<1>2. /\ scenario' \in Scenario
      /\ scenario'.secondaryMounted = scenario.secondaryMounted
      /\ scenario'.bindSourcePath = scenario.bindSourcePath
  BY <1>1 DEF CrossDeviceInv, TypeOK, Scenario, TmpfsFails, Refreshed, CandidateFails,
              NoCandidateLeft
<1>3. sources' \in SUBSET Source /\ sources \subseteq sources'
  <2>1. CASE CandidateFails
    <3>1. <<setups, candidate>> \in Source
      BY <2>1, CrossDeviceAssumption
         DEF CandidateFails, AtCandidate, Source, CrossDeviceInv, TypeOK
    <3> QED BY <2>1, <3>1 DEF CandidateFails, CrossDeviceInv, TypeOK
  <2>2. CASE TmpfsFails \/ Refreshed \/ NoCandidateLeft
    BY <2>2 DEF TmpfsFails, Refreshed, NoCandidateLeft, CrossDeviceInv, TypeOK
  <2> QED BY <2>1, <2>2
<1>4. /\ candidate' \in 1 .. (nCandidates + 1)
      /\ pc' \in {"idle", "open", "fallback"} /\ result' \in {"none", "ok", "error"}
      /\ pc' = "fallback" => pc \in {"tmpfs", "fallback"}
  <2>1. CASE CandidateFails
    BY <2>1, CrossDeviceAssumption
       DEF CandidateFails, AtCandidate, Return, CrossDeviceInv, TypeOK
  <2>2. CASE TmpfsFails \/ Refreshed \/ NoCandidateLeft
    BY <2>2 DEF TmpfsFails, Refreshed, NoCandidateLeft, Return, CrossDeviceInv, TypeOK
  <2> QED BY <2>1, <2>2
<1>5. TypeOK'
  BY <1>0, <1>2, <1>3, <1>4 DEF CrossDeviceInv, TypeOK
<1>6. Answers(scenario', mounts', sources', setups')
  BY <1>0, <1>2, <1>3 DEF CrossDeviceInv, Answers
<1> QED BY <1>0, <1>2, <1>4, <1>5, <1>6 DEF CrossDeviceInv

(* Every step of setup and Close keeps the invariant. *)
LEMMA CrossDeviceInvNext == CrossDeviceInv /\ [Next]_vars => CrossDeviceInv'
<1> SUFFICES ASSUME CrossDeviceInv, [Next]_vars PROVE CrossDeviceInv'
  OBVIOUS
<1>1. CASE Setup
  BY <1>1, SetupAction
<1>2. CASE TmpfsMounted \/ CandidateMounted
  BY <1>2, MountAction
<1>3. CASE CallClose \/ NotDistinct \/ RefreshFails
  BY <1>3, CloseAction
<1>4. CASE TmpfsFails \/ Refreshed \/ CandidateFails \/ NoCandidateLeft
  BY <1>4, OtherAction
<1>5. CASE UNCHANGED vars
  BY <1>5 DEF vars, CrossDeviceInv, TypeOK
<1> QED BY <1>1, <1>2, <1>3, <1>4, <1>5 DEF Next, SetupStep

(* The invariant gives what it is for. *)
LEMMA InvOwns == CrossDeviceInv => HandleOwns
<1> SUFFICES ASSUME CrossDeviceInv PROVE HandleOwns
  OBVIOUS
<1>0. DOMAIN mounts = 1 .. Len(mounts) /\ Len(mounts) \in Nat
  BY DEF CrossDeviceInv, TypeOK
<1>1. NoneBy(mounts, setups) => Own = {}
  BY DEF NoneBy, Own
<1>2. TopBy(mounts, setups) => Own = {Len(mounts)} /\ mounts[Len(mounts)].by = setups
  BY <1>0 DEF TopBy, Own
<1>3. Cardinality(Own) <= 1
  <2>1. CASE Own = {}
    BY <2>1, FS_EmptySet
  <2>2. CASE Own = {Len(mounts)}
    <3>1. Cardinality({Len(mounts)}) = 1
      BY FS_Singleton
    <3> QED BY <2>2, <3>1
  <2> QED BY <1>1, <1>2, <2>1, <2>2 DEF CrossDeviceInv
<1>4. scenario.secondaryMounted \in BOOLEAN
  BY DEF CrossDeviceInv, TypeOK, Scenario
<1>5. ASSUME pc # "idle"
      PROVE  /\ scenario.secondaryMounted <=> Own # {}
             /\ scenario.secondaryMounted => mounts[Len(mounts)].by = setups
             /\ scenario.bindSourcePath # NoSource => scenario.bindSourcePath \in sources
  BY <1>1, <1>2, <1>4, <1>5 DEF CrossDeviceInv, Answers
<1> QED BY <1>1, <1>3, <1>5 DEF HandleOwns, CrossDeviceInv

(* Hence the invariant holds of every state. *)
LEMMA CrossDeviceInvAlways == Spec => []CrossDeviceInv
BY CrossDeviceInvInit, CrossDeviceInvNext, PTL DEF Spec

(***************************************************************************)
(* Setup and Close keep every variable in its type, for any number of bind *)
(* sources and failures.                                                   *)
(***************************************************************************)
THEOREM CrossDeviceTypeOK == Spec => []TypeOK
<1>1. CrossDeviceInv => TypeOK
  BY DEF CrossDeviceInv
<1> QED BY <1>1, CrossDeviceInvAlways, PTL

(***************************************************************************)
(* A scenario in the caller's hands, or still being set up, records a      *)
(* mount if and only if it has one; it is the topmost and the only one,    *)
(* and a Close that returns nil has left none, however often setup and     *)
(* Close failed before.                                                    *)
(***************************************************************************)
THEOREM ScenarioOwnsItsMount == Spec => []HandleOwns
BY InvOwns, CrossDeviceInvAlways, PTL

=============================================================================
