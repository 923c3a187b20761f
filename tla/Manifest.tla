------------------------------ MODULE Manifest ------------------------------
(***************************************************************************)
(* Scenario manifests (manifest.go, manifest_json.go, manifest_yaml.go): a *)
(* generator's plan is turned into a portable, normalised and sealed       *)
(* manifest, which may travel as JSON or YAML, and is replayed below some  *)
(* other base path by the apply pipeline of ApplyPlan.  A manifest may     *)
(* also come from a caller who wrote it by hand.                           *)
(*                                                                         *)
(* Abstractions.  A manifest path is the path it stands for below the base *)
(* path.  The checks of version, run mode, entry limit and settings are    *)
(* one Boolean, those of the values of an entry its attribute "unfit".  A  *)
(* checksum is the payload it was computed over, a missing one the empty   *)
(* sequence.  The platform is Linux, which supports every capability, and  *)
(* manifests have no operations: an operation stream is the matter of      *)
(* Mutation.  An entry without "mode" has mode zero, one without "acl" no  *)
(* ACL entries.                                                            *)
(*                                                                         *)
(* A name is a string of bytes and need not be valid UTF-8                 *)
(* (ByteNamePresetInvalidUTF8).  The two encoders are libraries: JSON has  *)
(* no bytes and writes each invalid one as the escape of U+FFFD, which is  *)
(* read back as that character; YAML keeps such a string as binary data.   *)
(***************************************************************************)
EXTENDS ApplyPlan

CONSTANTS
  Given,  \* the manifests a caller may give
  Reads,  \* [Paths -> Paths]: what a path is once written to JSON and read
  Blank   \* the paths whose last name is nothing but white space

(* ScenarioManifestEntry; `how` is its target type. *)
ManifestEntry ==
  [kind : EntryKinds, path : Paths, target : Paths \cup {NoPath},
   how : {"none", "manifest-path", "literal"}, attrs : SUBSET Attrs]

(* ScenarioManifest *)
IsManifest(m) ==
  /\ m = [entries |-> m.entries, mode |-> m.mode, header |-> m.header,
          checksum |-> m.checksum, capabilities |-> m.capabilities]
  /\ m.entries \in Seq(ManifestEntry)

(* The symlinks planned with an absolute target. *)
AbsoluteOrigins == {"absolute", "dangling", "chained", "last"}

(* Plans are as the planner makes them: a symlink has a target, which is   *)
(* planned unless the link dangles or is written relative to itself.       *)
ASSUME ManifestAssumption ==
  /\ Reads \in [Paths -> Paths] /\ Reads[Base] = Base
  /\ \A p \in Paths : Reads[Reads[p]] = Reads[p] /\ Dir[Reads[p]] = Reads[Dir[p]]
  /\ Blank \subseteq Paths
  /\ \A m \in Given : IsManifest(m)
  /\ \A pl \in Plans : \A k \in DOMAIN pl : pl[k].kind = "symlink" =>
       /\ pl[k].target # NoPath
       /\ pl[k].via \in AbsoluteOrigins \ {"dangling"} => pl[k].target \in PathsOf(pl)

VARIABLES
  manifest,  \* the ScenarioManifest in the caller's hands
  phase,     \* "none", "ready", "replaying", or what refused the last call:
             \* "unbuildable", "unparsed", "invalid", "mismatch", "unplaced"
  built      \* history: the plan the manifest was built from, <<>> if given

manifestVars == <<manifest, phase, built>>
allVars == <<vars, manifestVars>>

-----------------------------------------------------------------------------
(* Entries of a manifest *)

(* metadataConfig; the mode of an entry is not part of it. *)
Metadata == {"owner", "times", "xattrs", "acl"}

Links == {"symlink", "hardlink"}

(* How the target of an entry is written.  An absolute target below the    *)
(* base path becomes a manifest path, a relative one stays as it is.       *)
TargetType(e) ==
  IF e.kind # "symlink" THEN "none"
  ELSE IF e.via \in AbsoluteOrigins THEN "manifest-path" ELSE "literal"

scenarioManifestEntryFromPlannedEntry(e) ==
  [kind |-> e.kind, path |-> e.path, target |-> e.target,
   how |-> TargetType(e), attrs |-> e.attrs]

(* A relative target in the link's own directory is a bare name. *)
BlankTarget(e) ==
  e.how = "literal" /\ e.target \in Blank /\ Dir[e.target] = Dir[e.path]

(***************************************************************************)
(* The checks normalizeScenarioManifestEntry makes of one entry.           *)
(* BuildScenarioManifest meets an owner or a blank target that is refused  *)
(* a little earlier, when it translates the planned entry.                 *)
(***************************************************************************)
ValidEntry(e) ==
  /\ "unfit" \notin e.attrs
  /\ e.path = Base => e.kind = "dir"
  /\ (e.kind \notin Links /\ e.path # Base) => "mode" \in e.attrs
  /\ e.kind = "symlink"  => e.target # NoPath /\ ~ BlankTarget(e)
  /\ e.kind = "hardlink" => e.target \notin {NoPath, Base, e.path}
  /\ e.kind \in SpecialKinds => e.attrs \cap Metadata = {}

(* What it makes of the entry: the metadata of links is dropped. *)
normalizeScenarioManifestEntry(e) ==
  IF e.kind \in Links THEN [e EXCEPT !.attrs = @ \ Metadata] ELSE e

deriveScenarioManifestCapabilities(es) ==
  UNION {(es[k].attrs \cap Metadata)
           \cup (IF es[k].kind \in SpecialKinds THEN {"special"} ELSE {}) :
           k \in DOMAIN es}

-----------------------------------------------------------------------------
(* Manifests *)

(* Mutant: the parent directory may come anywhere in the manifest. *)
HasParentSomewhere(es, k) ==
  \E j \in DOMAIN es : es[j].kind = "dir" /\ es[j].path = Dir[es[k].path]

(* The parent of the k-th entry is a directory seen before it. *)
HasParent(es, k) ==
  \E j \in 1 .. (k - 1) : es[j].kind = "dir" /\ es[j].path = Dir[es[k].path]

(* The source of a hard link is in the manifest, before it or after it. *)
HasSource(es, k) ==
  \E j \in DOMAIN es :
    es[j].path = es[k].target /\ es[j].kind \in {"file", "hardlink"}

Normalized(m) ==
  [m EXCEPT !.entries = [k \in DOMAIN m.entries |->
                           normalizeScenarioManifestEntry(m.entries[k])]]

(* normalizeScenarioManifest returns no error. *)
Valid(m) ==
  LET es == m.entries
  IN  /\ m.header
      /\ es # <<>>
      /\ \A k \in DOMAIN es : ValidEntry(es[k])
      /\ es[1].kind = "dir" /\ es[1].path = Base
      /\ \A j, k \in DOMAIN es : es[j].path = es[k].path => j = k
      /\ \A k \in DOMAIN es : es[k].path # Base => HasParent(es, k)
      /\ \A k \in DOMAIN es : es[k].kind = "hardlink" => HasSource(es, k)
      /\ \A k \in DOMAIN es : es[k].how = "manifest-path" =>
           \E j \in DOMAIN es : es[j].path = es[k].target
      /\ deriveScenarioManifestCapabilities(Normalized(m).entries)
           \subseteq m.capabilities

(* The path that is read where p was written to JSON. *)
ReadBack(p) == IF p = NoPath THEN NoPath ELSE Reads[p]

(* Mutant: the checksum is computed over what a parser will read. *)
TextAsRead(p) == <<ReadBack(p), TRUE>>

(* The JSON text of p.  An invalid byte is written as an escape, not as    *)
(* the character that is read back: the texts of the two differ.           *)
Text(p) == <<ReadBack(p), ReadBack(p) = p>>

(* scenarioManifestChecksum: the JSON text of all but the checksum itself. *)
Payload(m) ==
  << m.mode, m.header, m.capabilities,
     [k \in DOMAIN m.entries |->
        LET e == m.entries[k]
        IN  <<e.kind, Text(e.path), Text(e.target), e.how, e.attrs>>] >>

(* Mutant: the seal is put on before the manifest is normalised. *)
SealedEarly(m) == [Normalized(m) EXCEPT !.checksum = <<Payload(m)>>]

(* sealScenarioManifestIntegrity of the normalised manifest *)
Sealed(m) == [Normalized(m) EXCEPT !.checksum = <<Payload(Normalized(m))>>]

(* verifyScenarioManifestIntegrity of the normalised manifest *)
Verified(m) == m.checksum = <<Payload(Normalized(m))>>

(* What BuildScenarioManifest normalises. *)
Draft(pl, m) ==
  LET es == [k \in DOMAIN pl |-> scenarioManifestEntryFromPlannedEntry(pl[k])]
  IN  [entries |-> es, mode |-> m, header |-> TRUE, checksum |-> <<>>,
       capabilities |-> deriveScenarioManifestCapabilities(es)]

NoManifest == [entries |-> <<>>, mode |-> "append", header |-> FALSE,
               checksum |-> <<>>, capabilities |-> {}]

-----------------------------------------------------------------------------
(* Replaying *)

(* The directories strictly between the base path and p. *)
Above(p) ==
  LET up[n \in 0 .. Cardinality(Paths)] == IF n = 0 THEN p ELSE Dir[up[n - 1]]
  IN  {up[n] : n \in 1 .. Cardinality(Paths)} \ {Base}

(***************************************************************************)
(* ensureNoSymlinkParents: each of them is a directory now, that is before *)
(* the replay has removed or made anything.  Reading one that exists does  *)
(* not fail.                                                               *)
(***************************************************************************)
ensureNoSymlinkParents(p) == \A q \in Above(p) : tree[q].kind = "dir"

(* runPlanFromScenarioManifest returns no error. *)
Placed(es) ==
  \A k \in DOMAIN es :
    /\ ensureNoSymlinkParents(es[k].path)
    /\ es[k].kind = "hardlink" => ensureNoSymlinkParents(es[k].target)

plannedEntryFromScenarioManifestEntry(e) ==
  [kind |-> e.kind, path |-> e.path, target |-> e.target, attrs |-> e.attrs,
   via |-> CASE e.how = "manifest-path" -> "absolute"
             [] e.how = "literal"       -> "relative"
             [] OTHER                   -> "none"]

runPlanFromScenarioManifest(es) ==
  [k \in DOMAIN es |-> plannedEntryFromScenarioManifestEntry(es[k])]

-----------------------------------------------------------------------------
(* What a caller does *)

ManifestInit ==
  /\ Init
  /\ manifest = NoManifest
  /\ phase = "none"
  /\ built = <<>>

BuildScenarioManifest(pl, m) ==
  /\ phase = "none"
  /\ built' = pl
  /\ IF Valid(Draft(pl, m))
     THEN manifest' = Sealed(Draft(pl, m)) /\ phase' = "ready"
     ELSE phase' = "unbuildable" /\ UNCHANGED manifest
  /\ UNCHANGED vars

Give(m) ==
  /\ phase = "none"
  /\ manifest' = m
  /\ phase' = "ready"
  /\ UNCHANGED <<vars, built>>

(* The manifest read where m was written to JSON. *)
ThroughJSON(m) ==
  [m EXCEPT !.entries = [k \in DOMAIN m.entries |->
                           LET e == m.entries[k]
                           IN  [kind |-> e.kind, path |-> ReadBack(e.path),
                                target |-> ReadBack(e.target), how |-> e.how,
                                attrs |-> e.attrs]]]

(* The manifest at hand is exported, which seals it anew, and what has     *)
(* become of it on its way, m, is parsed.                                  *)
Travels(m) ==
  /\ phase = "ready"
  /\ \/ /\ ~ Valid(manifest)
        /\ phase' = "invalid" /\ UNCHANGED manifest
     \/ /\ Valid(manifest) /\ Valid(m) /\ Verified(m)
        /\ manifest' = Normalized(m) /\ UNCHANGED phase
     \/ /\ Valid(manifest) /\ ~ (Valid(m) /\ Verified(m))
        /\ phase' = "unparsed" /\ UNCHANGED manifest
  /\ UNCHANGED <<vars, built>>

(* ExportScenarioManifestJSON, ParseScenarioManifestJSON *)
TransferJSON == Travels(ThroughJSON(Sealed(manifest)))

(* ExportScenarioManifestYAML, ParseScenarioManifestYAML *)
TransferYAML == Travels(Sealed(manifest))

(* A manifest may be replayed again once a replay has ended. *)
Replayable == phase \in {"ready", "replaying"} /\ pc \in {"idle", "ok", "failed"}

(* ApplyScenarioManifest returns before anything is touched. *)
ReplayRefused ==
  /\ Replayable
  /\ \/ /\ ~ Valid(manifest)
        /\ phase' = "invalid"
     \/ /\ Valid(manifest) /\ ~ Verified(manifest)
        /\ phase' = "mismatch"
     \/ /\ Valid(manifest) /\ Verified(manifest)
        /\ ~ Placed(Normalized(manifest).entries)
        /\ phase' = "unplaced"
  /\ UNCHANGED <<vars, manifest, built>>

(* ApplyScenarioManifest comes to applyRunPlan. *)
ApplyScenarioManifest ==
  /\ Replayable
  /\ Valid(manifest) /\ Verified(manifest)
  /\ Placed(Normalized(manifest).entries)
  /\ StartRun(runPlanFromScenarioManifest(Normalized(manifest).entries),
              manifest.mode, <<>>)
  /\ phase' = "replaying"
  /\ UNCHANGED <<manifest, built>>

ManifestNext ==
  \/ \E pl \in Plans, m \in Modes : BuildScenarioManifest(pl, m)
  \/ \E m \in Given : Give(m)
  \/ TransferJSON
  \/ TransferYAML
  \/ ReplayRefused
  \/ ApplyScenarioManifest
  \/ RunStep /\ UNCHANGED manifestVars

ManifestSpec == ManifestInit /\ [][ManifestNext]_allVars

-----------------------------------------------------------------------------
(* Properties *)

(***************************************************************************)
(* Replay applies the plan the generator had: the same entries in the same *)
(* order, the same targets written in the same way, the same metadata.     *)
(* Only the metadata of links is lost, which normalisation drops (so the   *)
(* timestamps a coverage plan gives its symlinks are not replayed).  This  *)
(* holds of names JSON cannot carry, too: a manifest whose names changed   *)
(* on the way is never replayed, because its checksum shows it.            *)
(***************************************************************************)
RoundTrip ==
  (phase = "replaying" /\ built # <<>>) =>
    /\ Len(plan) = Len(built)
    /\ \A k \in DOMAIN built :
         LET p == plan[k]  b == built[k]
         IN  /\ <<p.kind, p.path, p.target>> = <<b.kind, b.path, b.target>>
             /\ b.kind = "symlink" =>
                  (p.via = "absolute" <=> b.via \in AbsoluteOrigins)
             /\ b.kind \notin Links => p.attrs = b.attrs
             /\ p.attrs \subseteq b.attrs

(***************************************************************************)
(* Whatever manifest passes the checks, its entries find their directories *)
(* below the base path, over any tree and any number of replays, and only  *)
(* a hard link listed before its source cannot be made: the one order      *)
(* normalizeScenarioManifest does not check.                               *)
(***************************************************************************)
ReplayInOrder ==
  AtEntry =>
    /\ plan[i].path # Base => tree[Dir[plan[i].path]].kind = "dir"
    /\ ~ CanCreate(plan[i]) =>
         /\ plan[i].kind = "hardlink"
         /\ \E k \in (i + 1) .. Len(plan) : plan[k].path = plan[i].target

(***************************************************************************)
(* A manifest once built is always fit to be exported and to be replayed:  *)
(* the seal the builder puts on is the one the replay computes, and it     *)
(* survives normalising and any number of travels.  What can go wrong on   *)
(* the way is JSON alone, and only if a planned name is not valid UTF-8.   *)
(* And a plan cannot be made a manifest only if it is empty, has a value   *)
(* no manifest may hold, a mode of zero, a special file with metadata, a   *)
(* dangling symlink, whose target is not in the manifest, or a symlink     *)
(* whose relative target is a blank name.                                  *)
(***************************************************************************)
BuiltHolds ==
  /\ built # <<>> => phase \notin {"invalid", "mismatch"}
  /\ (built # <<>> /\ phase = "unparsed") =>
       \E k \in DOMAIN built : \E p \in {built[k].path, built[k].target} :
         ReadBack(p) # p
  /\ phase = "unbuildable" =>
       \/ built = <<>>
       \/ \E k \in DOMAIN built :
            \/ "unfit" \in built[k].attrs
            \/ built[k].kind = "symlink" /\ built[k].via = "dangling"
            \/ /\ built[k].kind = "symlink" /\ built[k].via \notin AbsoluteOrigins
               /\ built[k].target \in Blank
            \/ built[k].kind \in SpecialKinds /\ built[k].attrs \cap Metadata # {}
            \/ built[k].kind \notin Links /\ "mode" \notin built[k].attrs

(***************************************************************************)
(* A built manifest can be replayed where there is nothing yet: README     *)
(* "Portable scenario manifests provide deterministic replay across        *)
(* machines and CI runs", TestApplyScenarioManifestParity.                 *)
(***************************************************************************)
DeepReplays ==
  (built # <<>> /\ phase = "unplaced") => \E p \in Paths : Exists(p)

=============================================================================
