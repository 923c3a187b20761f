-------------------------- MODULE FsFeaturesProofs --------------------------
(***************************************************************************)
(* Proofs about FsFeatures, for any number of setups and closes: what      *)
(* Close puts back are the flags a file had before setup, and no flag      *)
(* stays behind unless a call that should have removed it failed.          *)
(*                                                                         *)
(* The restore records are the only thing Close knows.  The argument is    *)
(* that a file which carries a flag and is not given up for lost has a     *)
(* record (NoFlagUnrecorded), that records hold the flags from before      *)
(* (RecordsTrue), and that a scenario that is set up has one for each of   *)
(* its features (AllRecorded).                                             *)
(***************************************************************************)
EXTENDS FsFeatures, TLAPS

Record == [feature : Flagged, flags : SUBSET Flags]

TypeOK ==
  /\ exists \subseteq Flagged
  /\ flags \in [Flagged -> SUBSET Flags]
  /\ wanted \subseteq Features
  /\ todo \subseteq wanted
  /\ flagRestores \in Seq(Record)
  /\ pc \in {"idle", "probing", "setting", "open"}
  /\ closes \in Nat
  /\ before \in [Flagged -> SUBSET Flags]
  /\ lost \subseteq Flagged

(* A record holds the flags from before setup, none of them of a feature. *)
RecordsTrue ==
  \A k \in DOMAIN flagRestores :
    /\ flagRestores[k].flags = before[flagRestores[k].feature]
    /\ flagRestores[k].flags \cap Flagged = {}
    /\ flagRestores[k].feature \in exists

(* A flag is on a file with a record, or on one that is lost. *)
NoFlagUnrecorded ==
  \A f \in Flagged \ (Recorded \cup (exists \cap lost)) : flags[f] \cap Flagged = {}

(* When there are records, and that none is missing in an open scenario. *)
AllRecorded ==
  /\ pc \in {"idle", "probing"} => flagRestores = <<>>
  /\ pc \in {"probing", "setting"} => closes = 0
  /\ pc = "setting" => /\ todo \cap Recorded = {}
                       /\ wanted \cap Flagged \subseteq todo \cup Recorded
  /\ pc = "open" => IF closes = 0 THEN wanted \cap Flagged \subseteq Recorded
                    ELSE flagRestores = <<>>

FeaturesInv ==
  /\ TypeOK
  /\ RecordsTrue
  /\ NoFlagUnrecorded
  /\ AllRecorded
  /\ FirstCloseRestores

-----------------------------------------------------------------------------

(* The records and what a Close makes of the flags. *)
LEMMA RecordFacts ==
  ASSUME TypeOK
  PROVE  /\ Recorded \subseteq Flagged
         /\ \A k \in DOMAIN flagRestores :
              flagRestores[k] \in Record /\ flagRestores[k].feature \in Recorded
<1>1. \A k \in DOMAIN flagRestores : flagRestores[k] \in Record
  BY DEF TypeOK
<1> QED BY <1>1 DEF Recorded, Record

(* Close gives the recorded files their old flags back, where it can. *)
LEMMA RestoredFacts ==
  ASSUME TypeOK, RecordsTrue, NEW failing \in SUBSET Recorded
  PROVE  /\ Restored(failing) \in [Flagged -> SUBSET Flags]
         /\ \A f \in Recorded \ failing :
              /\ Restored(failing)[f] = before[f]
              /\ Restored(failing)[f] \cap Flagged = {}
         /\ \A f \in Flagged \ (Recorded \ failing) : Restored(failing)[f] = flags[f]
<1>1. ASSUME NEW f \in Recorded \ failing
      PROVE  /\ Restored(failing)[f] = before[f]
             /\ Restored(failing)[f] \cap Flagged = {}
             /\ Restored(failing)[f] \in SUBSET Flags
  <2> DEFINE k == CHOOSE k \in DOMAIN flagRestores : flagRestores[k].feature = f
  <2>1. k \in DOMAIN flagRestores /\ flagRestores[k].feature = f
    BY DEF Recorded
  <2>2. Restored(failing)[f] = flagRestores[k].flags
    BY RecordFacts DEF Restored
  <2> HIDE DEF k
  <2> QED BY <2>1, <2>2, RecordFacts DEF RecordsTrue, Record
<1>2. ASSUME NEW f \in Flagged \ (Recorded \ failing)
      PROVE  Restored(failing)[f] = flags[f] /\ Restored(failing)[f] \in SUBSET Flags
  BY DEF Restored, TypeOK
<1>3. Restored(failing) \in [Flagged -> SUBSET Flags]
  BY <1>1, <1>2 DEF Restored
<1> QED BY <1>1, <1>2, <1>3

(* A Close, whichever restores fail, keeps the flags accounted for. *)
LEMMA CloseKeeps ==
  ASSUME FeaturesInv, NEW failing \in SUBSET Recorded, Close(failing), exists \subseteq exists'
  PROVE  /\ flags' \in [Flagged -> SUBSET Flags] /\ lost' \subseteq Flagged
         /\ flagRestores' = <<>> /\ Recorded' = {}
         /\ RecordsTrue' /\ NoFlagUnrecorded'
         /\ failing = {} => \A f \in Recorded : flags'[f] = before[f]
<1>1. TypeOK /\ RecordsTrue /\ NoFlagUnrecorded
  BY DEF FeaturesInv
<1>2. /\ flags' = Restored(failing) /\ lost' = lost \cup failing /\ flagRestores' = <<>>
  BY DEF Close
<1>3. Recorded' = {}
  BY <1>2 DEF Recorded
<1>4. Recorded \subseteq exists
  BY <1>1 DEF RecordsTrue, Recorded
<1>5. NoFlagUnrecorded'
  <2> SUFFICES ASSUME NEW f \in Flagged, ~ (f \in exists' /\ f \in lost')
               PROVE  flags'[f] \cap Flagged = {}
    BY <1>3 DEF NoFlagUnrecorded
  <2>1. CASE f \in Recorded
    BY <1>1, <1>2, <1>4, <2>1, RestoredFacts
  <2>2. CASE f \notin Recorded
    <3>1. flags'[f] = flags[f]
      BY <1>1, <1>2, <2>2, RestoredFacts
    <3> QED BY <1>1, <1>2, <2>2, <3>1 DEF NoFlagUnrecorded
  <2> QED BY <2>1, <2>2
<1>6. RecordsTrue'
  BY <1>2 DEF RecordsTrue
<1>7. failing = {} => \A f \in Recorded : flags'[f] = before[f]
  BY <1>1, <1>2, RestoredFacts
<1> QED BY <1>1, <1>2, <1>3, <1>5, <1>6, <1>7, RestoredFacts, RecordFacts DEF TypeOK

(* A file that can be written carries no flag of a feature. *)
LEMMA WritableIsUnflagged ==
  ASSUME FeaturesInv, NEW f \in Flagged \ Recorded, ~ Protected(f)
  PROVE  flags[f] \cap Flagged = {}
BY DEF FeaturesInv, NoFlagUnrecorded, Protected

(* The invariant holds before the set-up. *)
LEMMA FeaturesInvInit == Init => FeaturesInv
<1> SUFFICES ASSUME Init PROVE FeaturesInv
  OBVIOUS
<1>1. /\ exists = {} /\ flags \in [Flagged -> SUBSET {"other"}] /\ wanted = {} /\ todo = {}
      /\ flagRestores = <<>> /\ pc = "idle" /\ closes = 0
      /\ before = [f \in Flagged |-> {}] /\ lost = {}
  BY DEF Init
<1>2. \A f \in Flagged : flags[f] \subseteq {"other"}
  BY <1>1
<1>3. TypeOK
  BY <1>1 DEF TypeOK, Flags
<1>4. NoFlagUnrecorded
  BY <1>2 DEF NoFlagUnrecorded, Flagged
<1> QED BY <1>1, <1>3, <1>4 DEF FeaturesInv, RecordsTrue, AllRecorded, FirstCloseRestores

(* Setting up one feature with a flag. *)
LEMMA FlagSetKeeps ==
  ASSUME FeaturesInv, FlagSet
  PROVE  FeaturesInv'
<1>1. PICK f \in Flagged :
        /\ Setting(f) /\ WriteFile(f)
        /\ flags' = [flags EXCEPT ![f] = @ \cup {f}]
        /\ flagRestores' = Append(flagRestores, RestoreRecord(f, flags[f]))
        /\ todo' = todo \ {f}
        /\ UNCHANGED <<callVars, available, pc, result, closes, lost>>
  BY DEF FlagSet
<1>2. /\ TypeOK /\ RecordsTrue /\ NoFlagUnrecorded /\ AllRecorded
      /\ pc = "setting" /\ pc' = "setting" /\ f \in todo /\ f \notin Recorded
      /\ closes' = 0 /\ ~ Protected(f)
      /\ exists' = exists \cup {f} /\ before' = [before EXCEPT ![f] = flags[f]]
      /\ wanted' = wanted /\ lost' = lost /\ closes' = closes
  BY <1>1 DEF FeaturesInv, AllRecorded, Setting, IsFirst, WriteFile, callVars
<1>3. flags[f] \cap Flagged = {} /\ flags[f] \in SUBSET Flags
  BY <1>2, WritableIsUnflagged DEF TypeOK
<1>4. /\ flagRestores' \in Seq(Record)
      /\ DOMAIN flagRestores' = 1 .. (Len(flagRestores) + 1) /\ Len(flagRestores) \in Nat
      /\ DOMAIN flagRestores = 1 .. Len(flagRestores)
      /\ \A k \in DOMAIN flagRestores : flagRestores'[k] = flagRestores[k]
      /\ flagRestores'[Len(flagRestores) + 1] = [feature |-> f, flags |-> flags[f]]
  <2>1. RestoreRecord(f, flags[f]) \in Record
    BY <1>3 DEF RestoreRecord, Record
  <2> QED BY <1>1, <1>2, <2>1 DEF TypeOK, RestoreRecord
<1>5. Recorded' = Recorded \cup {f}
  BY <1>4 DEF Recorded
<1>6. TypeOK'
  BY <1>1, <1>2, <1>4 DEF TypeOK, Flags
<1>7. RecordsTrue'
  <2>1. \A k \in DOMAIN flagRestores : flagRestores[k].feature \in Flagged \ {f}
    BY <1>2, RecordFacts
  <2>2. \A g \in Flagged \ {f} : before'[g] = before[g]
    BY <1>2 DEF TypeOK
  <2>3. before'[f] = flags[f]
    BY <1>2 DEF TypeOK
  <2> QED BY <1>2, <1>3, <1>4, <2>1, <2>2, <2>3 DEF RecordsTrue
<1>8. NoFlagUnrecorded'
  BY <1>1, <1>2, <1>5 DEF TypeOK, NoFlagUnrecorded
<1>9. AllRecorded' /\ FirstCloseRestores'
  BY <1>1, <1>2, <1>5 DEF AllRecorded, FirstCloseRestores
<1> QED BY <1>6, <1>7, <1>8, <1>9 DEF FeaturesInv

(* The deferred Close of a setup that fails before a flag is set. *)
LEMMA FailureKeeps ==
  ASSUME FeaturesInv, FlagFails \/ ReflinkFails
  PROVE  FeaturesInv'
<1>1. PICK failing \in SUBSET Recorded : Close(failing)
  BY DEF FlagFails, ReflinkFails, SetupFails
<1>2. /\ pc' = "idle" /\ wanted' = wanted /\ todo' = todo /\ closes' = closes
      /\ exists \subseteq exists' /\ exists' \subseteq Flagged
      /\ before' \in [Flagged -> SUBSET Flags]
  <2>1. CASE FlagFails
    BY <2>1 DEF FlagFails, SetupFails, WriteFile, callVars, FeaturesInv, TypeOK
  <2>2. CASE ReflinkFails
    BY <2>2 DEF ReflinkFails, SetupFails, callVars, FeaturesInv, TypeOK
  <2> QED BY <2>1, <2>2
<1>3. /\ flags' \in [Flagged -> SUBSET Flags] /\ lost' \subseteq Flagged
      /\ flagRestores' = <<>> /\ RecordsTrue' /\ NoFlagUnrecorded'
  BY <1>1, <1>2, CloseKeeps
<1>4. TypeOK'
  BY <1>2, <1>3 DEF FeaturesInv, TypeOK
<1> QED BY <1>2, <1>3, <1>4 DEF FeaturesInv, AllRecorded, FirstCloseRestores

(* The flag that was set but could not be read back is lost. *)
LEMMA UnverifiedKeeps ==
  ASSUME FeaturesInv, FlagUnverified
  PROVE  FeaturesInv'
<1>1. PICK f \in Flagged :
        /\ Setting(f) /\ WriteFile(f)
        /\ \E failing \in SUBSET Recorded :
             /\ lost' = lost \cup failing \cup {f}
             /\ flags' = [Restored(failing) EXCEPT ![f] = @ \cup {f}]
        /\ flagRestores' = <<>> /\ pc' = "idle"
        /\ UNCHANGED <<callVars, todo, available, closes>>
  BY DEF FlagUnverified
<1>2. PICK failing \in SUBSET Recorded :
        /\ lost' = lost \cup failing \cup {f}
        /\ flags' = [Restored(failing) EXCEPT ![f] = @ \cup {f}]
  BY <1>1
<1>3. /\ TypeOK /\ RecordsTrue /\ NoFlagUnrecorded /\ Recorded \subseteq exists
      /\ exists' = exists \cup {f} /\ before' = [before EXCEPT ![f] = flags[f]]
      /\ wanted' = wanted
  BY <1>1 DEF FeaturesInv, RecordsTrue, Recorded, WriteFile, callVars
<1>4. /\ Restored(failing) \in [Flagged -> SUBSET Flags]
      /\ \A g \in Flagged \ {f} : flags'[g] = Restored(failing)[g]
      /\ flags' \in [Flagged -> SUBSET Flags]
  BY <1>2, <1>3, RestoredFacts DEF Flags
<1>5. TypeOK'
  BY <1>1, <1>2, <1>3, <1>4, RecordFacts DEF TypeOK
<1>6. Recorded' = {} /\ RecordsTrue'
  BY <1>1 DEF Recorded, RecordsTrue
<1>7. ASSUME NEW g \in Flagged, ~ (g \in exists' /\ g \in lost')
      PROVE  flags'[g] \cap Flagged = {}
  <2>1. g # f
    BY <1>2, <1>3, <1>7
  <2>2. flags'[g] = Restored(failing)[g]
    BY <1>4, <2>1
  <2>3. CASE g \in Recorded
    BY <1>2, <1>3, <1>7, <2>2, <2>3, RestoredFacts
  <2>4. CASE g \notin Recorded
    <3>1. Restored(failing)[g] = flags[g]
      BY <1>3, <2>4, RestoredFacts
    <3> QED BY <1>2, <1>3, <1>7, <2>2, <2>4, <3>1 DEF NoFlagUnrecorded
  <2> QED BY <2>3, <2>4
<1>8. NoFlagUnrecorded'
  BY <1>6, <1>7 DEF NoFlagUnrecorded
<1> QED BY <1>1, <1>5, <1>6, <1>8 DEF FeaturesInv, AllRecorded, FirstCloseRestores

(* A call of Close restores what it can, and drops every record. *)
LEMMA CallCloseKeeps ==
  ASSUME FeaturesInv, CallClose
  PROVE  FeaturesInv'
<1>1. PICK failing \in SUBSET Recorded :
        Close(failing) /\ result' = IF failing = {} THEN "closed" ELSE "error"
  BY DEF CallClose
<1>2. /\ pc = "open" /\ pc' = "open" /\ closes' = closes + 1 /\ closes \in Nat
      /\ exists' = exists /\ wanted' = wanted /\ todo' = todo /\ before' = before
  BY DEF CallClose, callVars, FeaturesInv, TypeOK
<1>3. /\ flags' \in [Flagged -> SUBSET Flags] /\ lost' \subseteq Flagged
      /\ flagRestores' = <<>> /\ RecordsTrue' /\ NoFlagUnrecorded'
      /\ failing = {} => \A f \in Recorded : flags'[f] = before[f]
  BY <1>1, <1>2, CloseKeeps
<1>4. TypeOK' /\ AllRecorded'
  BY <1>2, <1>3 DEF FeaturesInv, TypeOK, AllRecorded
<1>5. FirstCloseRestores'
  <2> SUFFICES ASSUME closes' = 1, result' = "closed"
               PROVE  \A f \in wanted \cap Flagged : flags'[f] = before'[f]
    BY <1>2 DEF FirstCloseRestores
  <2>1. failing = {} /\ closes = 0
    BY <1>1, <1>2
  <2> QED BY <1>2, <1>3, <2>1 DEF FeaturesInv, AllRecorded
<1> QED BY <1>3, <1>4, <1>5 DEF FeaturesInv

(* The steps that leave files, records and history alone. *)
LEMMA QuietKeeps ==
  ASSUME FeaturesInv,
         Setup \/ ProbeSucceeds \/ ProbeFails \/ ProbesDone \/ ReflinkMade
           \/ SetupDone \/ Drop \/ UNCHANGED vars
  PROVE  FeaturesInv'
<1>1. /\ UNCHANGED <<fileVars, before, lost>>
      /\ flagRestores' = flagRestores
      /\ wanted' \subseteq Features /\ todo' \subseteq wanted' /\ closes' \in Nat
      /\ pc' \in {"idle", "probing", "setting", "open"}
  BY DEF FeaturesInv, TypeOK, AllRecorded, Setup, ProbeSucceeds, ProbeFails, ProbesDone,
         ReflinkMade, SetupDone, Drop, vars, fileVars, callVars
<1>2. Recorded' = Recorded
  BY <1>1 DEF Recorded
<1>3. TypeOK' /\ RecordsTrue' /\ NoFlagUnrecorded'
  BY <1>1, <1>2 DEF FeaturesInv, TypeOK, RecordsTrue, NoFlagUnrecorded, fileVars
<1>4. flagRestores = <<>> => Recorded = {}
  BY DEF Recorded
<1>5. AllRecorded' /\ FirstCloseRestores'
  <2>1. CASE Setup
    BY <1>1, <2>1 DEF FeaturesInv, AllRecorded, FirstCloseRestores, Setup
  <2>2. CASE ProbeSucceeds \/ ProbeFails
    BY <1>1, <2>2 DEF FeaturesInv, AllRecorded, FirstCloseRestores, ProbeSucceeds,
                      ProbeFails, Probing
  <2>3. CASE ProbesDone
    BY <1>1, <1>2, <1>4, <2>3 DEF FeaturesInv, AllRecorded, FirstCloseRestores, ProbesDone,
                      callVars
  <2>4. CASE ReflinkMade
    <3>1. /\ pc = "setting" /\ pc' = "setting" /\ closes' = closes /\ wanted' = wanted
          /\ todo' = todo \ {"reflink"}
      BY <2>4 DEF ReflinkMade, Setting, callVars
    <3>2. "reflink" \notin Flagged
      BY DEF Flagged
    <3> QED BY <1>2, <3>1, <3>2 DEF FeaturesInv, AllRecorded, FirstCloseRestores
  <2>5. CASE SetupDone
    BY <1>1, <1>2, <2>5 DEF FeaturesInv, AllRecorded, FirstCloseRestores, SetupDone, callVars
  <2>6. CASE Drop
    BY <1>1, <2>6 DEF FeaturesInv, AllRecorded, FirstCloseRestores, Drop, TypeOK
  <2>7. CASE UNCHANGED vars
    BY <1>1, <1>2, <2>7 DEF FeaturesInv, AllRecorded, FirstCloseRestores, vars, fileVars,
                      callVars
  <2> QED BY <2>1, <2>2, <2>3, <2>4, <2>5, <2>6, <2>7
<1> QED BY <1>3, <1>5 DEF FeaturesInv

(* Whatever the file systems refuse and however often Close is called,     *)
(* the records tell what to give back (FilesystemFeatureScenario in        *)
(* scenario_fsfeatures.go).                                                *)
THEOREM FeaturesInvHolds == Spec => []FeaturesInv
<1>1. Init => FeaturesInv
  BY FeaturesInvInit
<1>2. FeaturesInv /\ [Next]_vars => FeaturesInv'
  BY FlagSetKeeps, FailureKeeps, UnverifiedKeeps, CallCloseKeeps, QuietKeeps DEF Next
<1> QED BY <1>1, <1>2, PTL DEF Spec

(***************************************************************************)
(* FirstCloseRestores for any number of setups and closes: if the first    *)
(* Close of a scenario returns nil, the files have the flags from before   *)
(* setup (flagRestores, restoreFilesystemFeatureFlags).                    *)
(***************************************************************************)
THEOREM FeaturesFirstCloseRestores == Spec => []FirstCloseRestores
<1>1. FeaturesInv => FirstCloseRestores
  BY DEF FeaturesInv
<1> QED BY <1>1, FeaturesInvHolds, PTL

(***************************************************************************)
(* FlagsLeftOnlyByFailure: whichever step of a setup fails, no file stays  *)
(* immutable or append-only once no scenario is open, unless a flag could  *)
(* not be read back or restored (the deferred Close of                     *)
(* setupFilesystemFeatureScenario).                                        *)
(***************************************************************************)
THEOREM FeaturesFlagsLeftOnlyByFailure == Spec => []FlagsLeftOnlyByFailure
<1>1. FeaturesInv => FlagsLeftOnlyByFailure
  <2> SUFFICES ASSUME FeaturesInv, pc = "idle", NEW f \in exists \ lost
               PROVE  flags[f] \cap Flagged = {}
    BY DEF FlagsLeftOnlyByFailure
  <2>1. Recorded = {} /\ f \in Flagged
    BY DEF FeaturesInv, AllRecorded, TypeOK, Recorded
  <2> QED BY <2>1 DEF FeaturesInv, NoFlagUnrecorded
<1> QED BY <1>1, FeaturesInvHolds, PTL

=============================================================================
