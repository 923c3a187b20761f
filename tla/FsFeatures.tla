----------------------------- MODULE FsFeatures -----------------------------
(***************************************************************************)
(* The filesystem-feature scenario (scenario_fsfeatures.go,                *)
(* scenario_fsfeatures_linux.go): SetupFilesystemFeatureScenario probes    *)
(* every requested feature on a temporary file, then makes one file per    *)
(* feature and sets its inode flag; Close puts the flags back.             *)
(*                                                                         *)
(* A file is the set of its inode flags; "other" stands for the flags that *)
(* a new file inherits and that must survive.  A file that is immutable or *)
(* append-only can be neither rewritten nor removed.  Content and the      *)
(* classification of errors are left out.                                  *)
(***************************************************************************)
EXTENDS Integers, Sequences, FiniteSets

CONSTANTS
  MaxSetups,  \* bound on the calls of SetupFilesystemFeatureScenario
  MaxCloses   \* bound on the calls of Close for one scenario

ASSUME FsFeaturesAssumption == MaxSetups \in Nat /\ MaxCloses \in Nat

Flagged  == {"immutable", "append-only"}
Features == Flagged \cup {"reflink"}
Flags    == Flagged \cup {"other"}

(* normalizeFilesystemFeatures sorts a selection by the features' numbers. *)
Order == <<"immutable", "append-only", "reflink">>

(* f comes first among the features S. *)
IsFirst(f, S) ==
  \E n \in DOMAIN Order :
    /\ f = Order[n] /\ f \in S
    /\ \A m \in 1 .. (n - 1) : Order[m] \notin S

VARIABLES
  exists,        \* the flagged feature files that exist
  flags,         \* [Flagged -> SUBSET Flags]: their inode flags; those a file
                 \* that does not exist will inherit
  wanted,        \* the features of the current setup
  todo,          \* the set of features still to probe or to set up, in order
  available,     \* no probe has failed so far
  flagRestores,  \* the features with a restore record, and the flags in it
  pc,            \* "idle", "probing", "setting" or "open"
  result,        \* what the last call returned: "none", "ok", "error", "closed"
  setups,        \* calls of SetupFilesystemFeatureScenario so far
  closes,        \* calls of Close for the current scenario
  before,        \* history: the flags of each file before its flag was set
  lost           \* history: the files whose flag could not be read or put back

fileVars == <<exists, flags>>
callVars == <<wanted, setups>>
vars == <<fileVars, callVars, todo, available, flagRestores, pc, result,
          closes, before, lost>>

Recorded == {flagRestores[k].feature : k \in DOMAIN flagRestores}

(* Neither rewriting nor removing is possible. *)
Protected(f) == f \in exists /\ flags[f] \cap Flagged # {}

-----------------------------------------------------------------------------
(* Close *)

(* The flags after a Close that fails to restore the files in `failing`. *)
Restored(failing) ==
  [f \in Flagged |->
     IF f \in Recorded \ failing
     THEN flagRestores[CHOOSE k \in DOMAIN flagRestores :
                         flagRestores[k].feature = f].flags
     ELSE flags[f]]

(* Close: every record is tried, and all are dropped whether or not they   *)
(* could be restored.                                                      *)
Close(failing) ==
  /\ flags' = Restored(failing)
  /\ lost' = lost \cup failing
  /\ flagRestores' = <<>>

CallClose ==
  /\ pc = "open"
  /\ closes < MaxCloses
  /\ closes' = closes + 1
  /\ \E failing \in SUBSET Recorded :
       /\ Close(failing)
       /\ result' = IF failing = {} THEN "closed" ELSE "error"
  /\ pc' = "open"
  /\ UNCHANGED <<exists, callVars, todo, available, before>>

(* The caller is done with the scenario. *)
Drop ==
  /\ pc = "open"
  /\ closes > 0
  /\ pc' = "idle"
  /\ UNCHANGED <<fileVars, callVars, todo, available, flagRestores, result,
                 closes, before, lost>>

(* Mutant: a setup that fails does not close what it has set up. *)
SetupFailsUnclosed ==
  /\ pc' = "idle"
  /\ result' = "error"
  /\ UNCHANGED <<flags, lost, flagRestores>>

(* The deferred Close of a setup that fails; its error is dropped. *)
SetupFails ==
  /\ pc' = "idle"
  /\ result' = "error"
  /\ \E failing \in SUBSET Recorded : Close(failing)

-----------------------------------------------------------------------------
(* Setup *)

Init ==
  /\ exists = {}
  /\ flags \in [Flagged -> SUBSET {"other"}]
  /\ wanted = {}
  /\ todo = {}
  /\ available = TRUE
  /\ flagRestores = <<>>
  /\ pc = "idle"
  /\ result = "none"
  /\ setups = 0
  /\ closes = 0
  /\ before = [f \in Flagged |-> {}]
  /\ lost = {}

(* prepareFilesystemFeatureInputs: an empty selection is refused. *)
Setup ==
  /\ pc = "idle"
  /\ setups < MaxSetups
  /\ setups' = setups + 1
  /\ closes' = 0
  /\ available' = TRUE
  /\ flagRestores' = <<>>
  /\ \E selection \in SUBSET Features :
       /\ wanted' = selection
       /\ todo' = selection
       /\ IF selection = {} THEN pc' = "idle" /\ result' = "error"
          ELSE pc' = "probing" /\ result' = "none"
  /\ UNCHANGED <<fileVars, before, lost>>

Probing(f) == pc = "probing" /\ IsFirst(f, todo)

(* The probe sets the flag, sees it, takes it back and removes its file. *)
ProbeSucceeds ==
  /\ \E f \in Features : Probing(f) /\ todo' = todo \ {f}
  /\ UNCHANGED <<fileVars, callVars, available, flagRestores, pc, result, closes,
                 before, lost>>

(* A probe that fails with its flag set cannot remove its file, which no   *)
(* later step looks at.                                                    *)
ProbeFails ==
  /\ \E f \in Features : Probing(f) /\ todo' = todo \ {f}
  /\ available' = FALSE
  /\ UNCHANGED <<fileVars, callVars, flagRestores, pc, result, closes,
                 before, lost>>

(* ensureFilesystemFeatureAvailability *)
ProbesDone ==
  /\ pc = "probing" /\ todo = {}
  /\ IF available
     THEN pc' = "setting" /\ result' = "none" /\ todo' = wanted
     ELSE pc' = "idle" /\ result' = "error" /\ UNCHANGED todo
  /\ UNCHANGED <<fileVars, callVars, available, flagRestores, closes, before, lost>>

Setting(f) == pc = "setting" /\ IsFirst(f, todo)

(* Mutant: the record holds the flags after the change. *)
RestoreRecordLate(f, current) == [feature |-> f, flags |-> current \cup {f}]

(* filesystemFlagRestore: the flags read before the change. *)
RestoreRecord(f, current) == [feature |-> f, flags |-> current]

WriteFile(f) ==
  /\ ~ Protected(f)
  /\ exists' = exists \cup {f}
  /\ before' = [before EXCEPT ![f] = flags[f]]

(* setupImmutableFeature, setupAppendOnlyFeature *)
FlagSet ==
  \E f \in Flagged :
    /\ Setting(f)
    /\ WriteFile(f)
    /\ flags' = [flags EXCEPT ![f] = @ \cup {f}]
    /\ flagRestores' = Append(flagRestores, RestoreRecord(f, flags[f]))
    /\ todo' = todo \ {f}
    /\ UNCHANGED <<callVars, available, pc, result, closes, lost>>

(* The flag cannot be read or set: the file stays as it was written. *)
FlagFails ==
  \E f \in Flagged :
    /\ Setting(f)
    /\ \/ UNCHANGED <<exists, before>>
       \/ WriteFile(f)
    /\ SetupFails
    /\ UNCHANGED <<callVars, todo, available, closes>>

(***************************************************************************)
(* The flag is set but cannot be read back: no record is made of it, and   *)
(* the deferred Close does not know of it.                                 *)
(***************************************************************************)
FlagUnverified ==
  \E f \in Flagged :
    /\ Setting(f)
    /\ WriteFile(f)
    /\ \E failing \in SUBSET Recorded :
         /\ lost' = lost \cup failing \cup {f}
         /\ flags' = [Restored(failing) EXCEPT ![f] = @ \cup {f}]
    /\ flagRestores' = <<>>
    /\ pc' = "idle" /\ result' = "error"
    /\ UNCHANGED <<callVars, todo, available, closes>>

(* setupReflinkFeature *)
ReflinkMade ==
  /\ Setting("reflink")
  /\ todo' = todo \ {"reflink"}
  /\ UNCHANGED <<fileVars, callVars, available, flagRestores, pc, result, closes,
                 before, lost>>

ReflinkFails ==
  /\ Setting("reflink")
  /\ SetupFails
  /\ UNCHANGED <<exists, callVars, todo, available, closes, before>>

SetupDone ==
  /\ pc = "setting" /\ todo = {}
  /\ pc' = "open" /\ result' = "ok"
  /\ UNCHANGED <<fileVars, callVars, todo, available, flagRestores, closes,
                 before, lost>>

Next ==
  \/ Setup \/ ProbeSucceeds \/ ProbeFails \/ ProbesDone
  \/ FlagSet \/ FlagFails \/ FlagUnverified
  \/ ReflinkMade \/ ReflinkFails \/ SetupDone
  \/ CallClose \/ Drop

Spec == Init /\ [][Next]_vars

-----------------------------------------------------------------------------
(* Properties *)

(***************************************************************************)
(* If the first Close of a scenario returns nil, every file has exactly    *)
(* the flags it had before setup, the inherited ones included.             *)
(***************************************************************************)
FirstCloseRestores ==
  (pc = "open" /\ closes = 1 /\ result = "closed") =>
    \A f \in wanted \cap Flagged : flags[f] = before[f]

(***************************************************************************)
(* With no scenario open a file is immutable or append-only only if its    *)
(* flag could not be read back or not be restored: whichever step of a     *)
(* setup of several features fails, the deferred Close puts back the flags *)
(* of the features before it.                                              *)
(***************************************************************************)
FlagsLeftOnlyByFailure ==
  pc = "idle" => \A f \in exists \ lost : flags[f] \cap Flagged = {}

=============================================================================
