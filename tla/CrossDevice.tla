---------------------------- MODULE CrossDevice ----------------------------
(***************************************************************************)
(* The cross-device scenario (scenario_crossdev_linux.go, mount_linux.go): *)
(* SetupCrossDeviceScenario makes two roots on different devices, if       *)
(* needed by mounting a tmpfs, or a directory of another device, on the    *)
(* secondary root; Close gives the mount and the bind source back and may  *)
(* be retried.                                                             *)
(*                                                                         *)
(* The caller uses one scenario at a time.  A system call may fail at      *)
(* every step; the failures that tearing down meets are transient, at most *)
(* MaxFailures of them.  Paths, the checks for symlinks in the base path   *)
(* and error texts are left out: a failing check is a failing setup.       *)
(***************************************************************************)
EXTENDS Integers, Sequences, FiniteSets

CONSTANTS
  Devices,        \* device ids
  PrimaryDevice,  \* the device of the primary root
  nCandidates,    \* directories tried as bind sources
  MaxSetups,      \* bound on the calls of SetupCrossDeviceScenario
  MaxFailures     \* bound on the failures while tearing down

ASSUME CrossDeviceAssumption ==
  /\ PrimaryDevice \in Devices
  /\ nCandidates \in Nat
  /\ MaxSetups \in Nat
  /\ MaxFailures \in Nat

VARIABLES
  plain,      \* the device below the mounts of the secondary root
  mounts,     \* what is mounted on the secondary root, the topmost last
  sources,    \* the bind sources that exist, named by setup and candidate
  scenario,   \* the CrossDeviceScenario of the current setup
  pc,         \* "idle", "tmpfs", "refresh", "fallback", "recheck" or "open"
  candidate,  \* index of the loop of tryBindMountFallback
  setups,     \* calls of SetupCrossDeviceScenario so far
  failures,   \* failures of tearing down so far
  result      \* what the last call returned: "none", "ok", "error" or "closed"

vars == <<plain, mounts, sources, scenario, pc, candidate, setups, failures, result>>

NoSource == <<0, 0>>
Source == (1 .. MaxSetups) \X (1 .. nCandidates)

Scenario == [device : Devices, secondaryMounted : BOOLEAN,
             bindSourcePath : Source \cup {NoSource}]

(* pathDeviceID of the secondary root *)
SecondaryDevice ==
  IF mounts = <<>> THEN plain ELSE mounts[Len(mounts)].device

(* The mounts the current setup made. *)
Own == {k \in DOMAIN mounts : mounts[k].by = setups}

Return(res, place) == result' = res /\ pc' = place

-----------------------------------------------------------------------------
(* Tearing down *)

(* Mutant: Close forgets what it could not give back. *)
CloseForgets(unmounted, removed) ==
  /\ ~ unmounted => scenario.secondaryMounted
  /\ ~ removed => scenario.bindSourcePath # NoSource
  /\ failures' = failures + (IF unmounted THEN 0 ELSE 1) + (IF removed THEN 0 ELSE 1)
  /\ failures' <= MaxFailures
  /\ mounts' = IF scenario.secondaryMounted /\ unmounted
               THEN SubSeq(mounts, 1, Len(mounts) - 1) ELSE mounts
  /\ sources' = IF removed THEN sources \ {scenario.bindSourcePath} ELSE sources
  /\ scenario' = [scenario EXCEPT !.secondaryMounted = FALSE,
                                  !.bindSourcePath = NoSource]

(* Mutant: an unmount that succeeded is tried again by the next Close. *)
CloseKeepsMounted(unmounted, removed) ==
  /\ ~ unmounted => scenario.secondaryMounted
  /\ (unmounted /\ scenario.secondaryMounted) => Own # {}
  /\ ~ removed => scenario.bindSourcePath # NoSource
  /\ failures' = failures + (IF unmounted THEN 0 ELSE 1) + (IF removed THEN 0 ELSE 1)
  /\ failures' <= MaxFailures
  /\ mounts' = IF scenario.secondaryMounted /\ unmounted
               THEN SubSeq(mounts, 1, Len(mounts) - 1) ELSE mounts
  /\ sources' = IF removed THEN sources \ {scenario.bindSourcePath} ELSE sources
  /\ scenario' = [scenario EXCEPT !.bindSourcePath = IF removed THEN NoSource ELSE @]

(***************************************************************************)
(* Close: each of its two parts is skipped if there is nothing to give     *)
(* back, and recorded as done only if its call succeeds.                   *)
(***************************************************************************)
Close(unmounted, removed) ==
  /\ ~ unmounted => scenario.secondaryMounted
  /\ ~ removed => scenario.bindSourcePath # NoSource
  /\ failures' = failures + (IF unmounted THEN 0 ELSE 1) + (IF removed THEN 0 ELSE 1)
  /\ failures' <= MaxFailures
  /\ mounts' = IF scenario.secondaryMounted /\ unmounted
               THEN SubSeq(mounts, 1, Len(mounts) - 1) ELSE mounts
  /\ sources' = IF removed THEN sources \ {scenario.bindSourcePath} ELSE sources
  /\ scenario' = [scenario EXCEPT
                    !.secondaryMounted = @ /\ ~ unmounted,
                    !.bindSourcePath = IF removed THEN NoSource ELSE @]

(* The caller closes the scenario, and keeps it if Close returns an error. *)
CallClose ==
  /\ pc = "open"
  /\ \E unmounted, removed \in BOOLEAN :
       /\ Close(unmounted, removed)
       /\ IF unmounted /\ removed THEN Return("closed", "idle")
          ELSE Return("error", "open")
  /\ UNCHANGED <<plain, candidate, setups>>

-----------------------------------------------------------------------------
(* Setting up *)

Init ==
  /\ plain \in Devices
  /\ mounts = <<>>
  /\ sources = {}
  /\ scenario = [device |-> plain, secondaryMounted |-> FALSE,
                 bindSourcePath |-> NoSource]
  /\ pc = "idle"
  /\ candidate = 1
  /\ setups = 0
  /\ failures = 0
  /\ result = "none"

(* The roots are made; if they already lie on two devices that is all. *)
Setup ==
  /\ pc = "idle"
  /\ setups < MaxSetups
  /\ setups' = setups + 1
  /\ candidate' = 1
  /\ scenario' = [device |-> SecondaryDevice, secondaryMounted |-> FALSE,
                  bindSourcePath |-> NoSource]
  /\ \/ Return("error", "idle")
     \/ IF SecondaryDevice # PrimaryDevice THEN Return("ok", "open")
        ELSE Return("none", "tmpfs")
  /\ UNCHANGED <<plain, mounts, sources, failures>>

Mount(device) ==
  /\ mounts' = Append(mounts, [by |-> setups, device |-> device])
  /\ UNCHANGED <<plain, candidate, setups, failures>>

TmpfsMounted ==
  /\ pc = "tmpfs"
  /\ \E device \in Devices : Mount(device)
  /\ scenario' = [scenario EXCEPT !.secondaryMounted = TRUE]
  /\ Return("none", "refresh")
  /\ UNCHANGED sources

(* Without the privilege or the feature the fallback is tried. *)
TmpfsFails ==
  /\ pc = "tmpfs"
  /\ Return("none", "fallback") \/ Return("error", "idle")
  /\ UNCHANGED <<plain, mounts, sources, scenario, candidate, setups, failures>>

AfterMount == pc \in {"refresh", "recheck"}

(* refreshDeviceIDs shows two devices: the scenario is handed out. *)
Refreshed ==
  /\ AfterMount
  /\ SecondaryDevice # PrimaryDevice
  /\ scenario' = [scenario EXCEPT !.device = SecondaryDevice]
  /\ Return("ok", "open")
  /\ UNCHANGED <<plain, mounts, sources, candidate, setups, failures>>

(* The mount did not help and is taken back; if that fails setup ends. *)
NotDistinct ==
  /\ AfterMount
  /\ SecondaryDevice = PrimaryDevice
  /\ \E unmounted, removed \in BOOLEAN :
       /\ Close(unmounted, removed)
       /\ IF pc = "refresh" /\ unmounted /\ removed
          THEN Return("none", "fallback") ELSE Return("error", "idle")
  /\ UNCHANGED <<plain, candidate, setups>>

(* The devices cannot be read: the error of Close is dropped. *)
RefreshFails ==
  /\ AfterMount
  /\ \E unmounted, removed \in BOOLEAN : Close(unmounted, removed)
  /\ Return("error", "idle")
  /\ UNCHANGED <<plain, candidate, setups>>

AtCandidate == pc = "fallback" /\ candidate <= nCandidates

(***************************************************************************)
(* A candidate is not usable, or it is on the primary device or mounting   *)
(* it fails; then the directory made in it is removed, and an error of     *)
(* that removal is dropped.  Other mount errors than a missing privilege   *)
(* or feature end the setup.                                               *)
(***************************************************************************)
CandidateFails ==
  /\ AtCandidate
  /\ sources' \in {sources, sources \cup {<<setups, candidate>>}}
  /\ \/ Return("none", "fallback") /\ candidate' = candidate + 1
     \/ Return("error", "idle") /\ UNCHANGED candidate
  /\ UNCHANGED <<plain, mounts, scenario, setups, failures>>

CandidateMounted ==
  /\ AtCandidate
  /\ \E device \in Devices \ {PrimaryDevice} : Mount(device)
  /\ sources' = sources \cup {<<setups, candidate>>}
  /\ scenario' = [scenario EXCEPT !.secondaryMounted = TRUE,
                                  !.bindSourcePath = <<setups, candidate>>]
  /\ Return("none", "recheck")

(* ErrCrossDeviceScenarioUnavailable *)
NoCandidateLeft ==
  /\ pc = "fallback"
  /\ candidate > nCandidates
  /\ Return("error", "idle")
  /\ UNCHANGED <<plain, mounts, sources, scenario, candidate, setups, failures>>

SetupStep ==
  \/ TmpfsMounted \/ TmpfsFails
  \/ Refreshed \/ NotDistinct \/ RefreshFails
  \/ CandidateFails \/ CandidateMounted \/ NoCandidateLeft

Next == Setup \/ SetupStep \/ CallClose

(* Setup is sequential code, and the caller closes until Close succeeds. *)
Spec == Init /\ [][Next]_vars /\ WF_vars(SetupStep) /\ WF_vars(CallClose)

-----------------------------------------------------------------------------
(* Properties *)

(* Every variable has its type; the loop over bind sources stays in range. *)
TypeOK ==
  /\ plain \in Devices
  /\ mounts \in Seq([by : 1 .. MaxSetups, device : Devices])
  /\ sources \in SUBSET Source
  /\ scenario \in Scenario
  /\ pc \in {"idle", "tmpfs", "refresh", "fallback", "recheck", "open"}
  /\ candidate \in 1 .. (nCandidates + 1)
  /\ setups \in 0 .. MaxSetups
  /\ failures \in 0 .. MaxFailures
  /\ result \in {"none", "ok", "error", "closed"}

(***************************************************************************)
(* A scenario remembers exactly what is left to tear down, also between a  *)
(* Close that failed half way and its retry: a mount is recorded if and    *)
(* only if it is there, it is the one Unmount will hit, and a scenario     *)
(* never has two; a Close that returns nil has left none of its mounts     *)
(* (README: "if teardown fails, cleanup state is preserved so Close() can  *)
(* be retried").                                                           *)
(***************************************************************************)
HandleOwns ==
  /\ pc # "idle" =>
       /\ scenario.secondaryMounted <=> Own # {}
       /\ scenario.secondaryMounted => mounts[Len(mounts)].by = setups
       /\ scenario.bindSourcePath # NoSource => scenario.bindSourcePath \in sources
  /\ Cardinality(Own) <= 1
  /\ (pc = "idle" /\ result = "closed") => Own = {}

(* A caller that retries Close gets rid of the scenario as long as         *)
(* failures are transient.                                                 *)
CloseEnds == (pc = "open") ~> (pc = "idle")

=============================================================================
