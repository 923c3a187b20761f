--------------------------- MODULE ManifestProofs ---------------------------
(***************************************************************************)
(* Proofs about Manifest, for every plan, every manifest a caller may      *)
(* give, every tree and every number of transfers and replays.             *)
(*                                                                         *)
(* The inductive invariant has three parts.  HandInv: a manifest that was  *)
(* built is normal, passes the checks and bears the seal that verifying    *)
(* computes, and its entries are those of the plan.  It rests on           *)
(* normalising being idempotent, on the seal leaving out the checksum, and *)
(* on the text of a name JSON cannot carry not being the text of the name  *)
(* that is read in its place.                                              *)
(* ReplayedInv: the plan of a replay is what the manifest at hand says.    *)
(* LoopInv: the plan is as orderly as the checks can tell, and the entries *)
(* the loop has passed are on disk with their kinds.                       *)
(***************************************************************************)
EXTENDS Manifest, TLAPS

-----------------------------------------------------------------------------
(* Normalising and sealing *)

(* Normalising an entry drops metadata of links and nothing else, once. *)
LEMMA EntryNormalized ==
  ASSUME NEW e \in ManifestEntry
  PROVE  LET n == normalizeScenarioManifestEntry(e)
         IN  /\ n \in ManifestEntry
             /\ n.kind = e.kind /\ n.path = e.path /\ n.target = e.target /\ n.how = e.how
             /\ n.attrs \subseteq e.attrs
             /\ e.kind \notin Links => n = e
             /\ normalizeScenarioManifestEntry(n) = n
             /\ "mode" \in e.attrs => "mode" \in n.attrs
<1>1. CASE e.kind \in Links
  <2> DEFINE n == [e EXCEPT !.attrs = e.attrs \ Metadata]
  <2>1. normalizeScenarioManifestEntry(e) = n
    BY <1>1 DEF normalizeScenarioManifestEntry
  <2>2. /\ n \in ManifestEntry
        /\ n.kind = e.kind /\ n.path = e.path /\ n.target = e.target /\ n.how = e.how
        /\ n.attrs = e.attrs \ Metadata
    BY DEF ManifestEntry
  <2>3. [n EXCEPT !.attrs = n.attrs \ Metadata] = n
    BY DEF ManifestEntry
  <2> HIDE DEF n
  <2>4. normalizeScenarioManifestEntry(n) = n
    BY <1>1, <2>2, <2>3 DEF normalizeScenarioManifestEntry
  <2> QED BY <1>1, <2>1, <2>2, <2>4 DEF Metadata
<1>2. CASE e.kind \notin Links
  BY <1>2 DEF normalizeScenarioManifestEntry
<1> QED BY <1>1, <1>2

(* The entries of a normalised manifest. *)
NormalEntries(es) == [k \in DOMAIN es |-> normalizeScenarioManifestEntry(es[k])]

(* Normalising a manifest keeps its length, and all but its entries. *)
LEMMA NormalizedIs ==
  ASSUME NEW m, IsManifest(m)
  PROVE  /\ IsManifest(Normalized(m))
         /\ Normalized(m).entries = NormalEntries(m.entries)
         /\ DOMAIN Normalized(m).entries = DOMAIN m.entries
         /\ Len(Normalized(m).entries) = Len(m.entries)
         /\ Normalized(m).mode = m.mode /\ Normalized(m).header = m.header
         /\ Normalized(m).checksum = m.checksum
         /\ Normalized(m).capabilities = m.capabilities
<1> DEFINE es == NormalEntries(m.entries)
<1>1. m.entries \in Seq(ManifestEntry)
  BY DEF IsManifest
<1>2. es \in Seq(ManifestEntry) /\ DOMAIN es = DOMAIN m.entries /\ Len(es) = Len(m.entries)
  <2>1. \A k \in DOMAIN m.entries : normalizeScenarioManifestEntry(m.entries[k]) \in ManifestEntry
    BY <1>1, EntryNormalized
  <2>2. DOMAIN m.entries = 1 .. Len(m.entries) /\ Len(m.entries) \in Nat
    BY <1>1
  <2>3. es \in [1 .. Len(m.entries) -> ManifestEntry]
    BY <2>1, <2>2 DEF NormalEntries
  <2> QED BY <2>2, <2>3
<1>3. Normalized(m) = [m EXCEPT !.entries = es]
  BY DEF Normalized, NormalEntries
<1> HIDE DEF es
<1>4. m = [entries |-> m.entries, mode |-> m.mode, header |-> m.header,
           checksum |-> m.checksum, capabilities |-> m.capabilities]
  BY DEF IsManifest
<1>5. [m EXCEPT !.entries = es] =
        [entries |-> es, mode |-> m.mode, header |-> m.header,
         checksum |-> m.checksum, capabilities |-> m.capabilities]
  BY <1>4
<1> QED BY <1>2, <1>3, <1>5 DEF IsManifest, es

(* Normalising twice is normalising once. *)
LEMMA NormalizedTwice ==
  ASSUME NEW m, IsManifest(m)
  PROVE  Normalized(Normalized(m)) = Normalized(m)
<1> DEFINE n == Normalized(m)
<1>1. IsManifest(n) /\ n.entries = NormalEntries(m.entries) /\ DOMAIN n.entries = DOMAIN m.entries
  BY NormalizedIs
<1>2. m.entries \in Seq(ManifestEntry) /\ n.entries \in Seq(ManifestEntry)
  BY <1>1 DEF IsManifest
<1> HIDE DEF n
<1>3. ASSUME NEW k \in DOMAIN m.entries
      PROVE  normalizeScenarioManifestEntry(n.entries[k]) = n.entries[k]
  <2>1. n.entries[k] = normalizeScenarioManifestEntry(m.entries[k])
    BY <1>1 DEF NormalEntries
  <2>2. m.entries[k] \in ManifestEntry
    BY <1>2
  <2> QED BY <2>1, <2>2, EntryNormalized
<1>4. NormalEntries(n.entries) = n.entries
  BY <1>1, <1>2, <1>3 DEF NormalEntries
<1>5. Normalized(n) = [n EXCEPT !.entries = n.entries]
  BY <1>4 DEF Normalized, NormalEntries
<1>6. [n EXCEPT !.entries = n.entries] = n
  <2>1. n = [f \in DOMAIN n |-> n[f]]
    BY <1>1 DEF IsManifest
  <2> QED BY <2>1
<1> QED BY <1>5, <1>6 DEF n

(* Assigning the checksum. *)
LEMMA ChecksumSet ==
  ASSUME NEW m, IsManifest(m), NEW c
  PROVE  LET s == [m EXCEPT !.checksum = c]
         IN  /\ IsManifest(s)
             /\ s.entries = m.entries /\ s.mode = m.mode /\ s.header = m.header
             /\ s.capabilities = m.capabilities /\ s.checksum = c
             /\ Payload(s) = Payload(m)
<1>1. m = [entries |-> m.entries, mode |-> m.mode, header |-> m.header,
           checksum |-> m.checksum, capabilities |-> m.capabilities]
      /\ m.entries \in Seq(ManifestEntry)
  BY DEF IsManifest
<1> DEFINE s == [m EXCEPT !.checksum = c]
           w == [entries |-> m.entries, mode |-> m.mode, header |-> m.header,
                 checksum |-> c, capabilities |-> m.capabilities]
<1>2. s = w
  BY <1>1
<1>3. /\ w.entries = m.entries /\ w.mode = m.mode /\ w.header = m.header
      /\ w.capabilities = m.capabilities /\ w.checksum = c
  OBVIOUS
<1>4. IsManifest(w)
  BY <1>1 DEF IsManifest
<1> HIDE DEF s, w
<1>5. Payload(w) = Payload(m)
  BY <1>3 DEF Payload
<1> QED BY <1>2, <1>3, <1>4, <1>5 DEF s

(* A sealed manifest is normal, and its seal is the one that is computed   *)
(* when it is verified.                                                    *)
LEMMA SealedHolds ==
  ASSUME NEW m, IsManifest(m)
  PROVE  LET s == Sealed(m)
         IN  /\ IsManifest(s) /\ Normalized(s) = s /\ Verified(s)
             /\ s.entries = NormalEntries(m.entries)
             /\ s.mode = m.mode /\ s.header = m.header /\ s.capabilities = m.capabilities
<1> DEFINE n == Normalized(m)
           s == Sealed(m)
           c == <<Payload(n)>>
<1>1. /\ IsManifest(n) /\ n.entries = NormalEntries(m.entries) /\ n.mode = m.mode
      /\ n.header = m.header /\ n.capabilities = m.capabilities /\ Normalized(n) = n
  BY NormalizedIs, NormalizedTwice
<1>2. s = [n EXCEPT !.checksum = c]
  BY DEF Sealed
<1> HIDE DEF n, c, s
<1>3. /\ IsManifest(s) /\ s.entries = n.entries /\ s.mode = n.mode /\ s.header = n.header
      /\ s.capabilities = n.capabilities /\ s.checksum = c /\ Payload(s) = Payload(n)
  BY <1>1, <1>2, ChecksumSet
<1>4. Normalized(s) = s
  <2>1. /\ IsManifest(Normalized(s)) /\ Normalized(s).entries = NormalEntries(s.entries)
        /\ Normalized(s).mode = s.mode /\ Normalized(s).header = s.header
        /\ Normalized(s).checksum = s.checksum /\ Normalized(s).capabilities = s.capabilities
    BY <1>3, NormalizedIs
  <2>2. NormalEntries(s.entries) = s.entries
    <3>1. Normalized(n).entries = NormalEntries(n.entries)
      BY <1>1, NormalizedIs
    <3> QED BY <1>1, <1>3, <3>1
  <2> QED BY <1>3, <2>1, <2>2 DEF IsManifest
<1>5. Verified(s)
  BY <1>3, <1>4 DEF Verified, c
<1> QED BY <1>1, <1>3, <1>4, <1>5 DEF s

-----------------------------------------------------------------------------
(* What normalizeScenarioManifest checks *)

(* What is needed of the metadata of normal entries does not grow. *)
LEMMA CapabilitiesNormal ==
  ASSUME NEW es \in Seq(ManifestEntry)
  PROVE  /\ deriveScenarioManifestCapabilities(NormalEntries(es))
              \subseteq deriveScenarioManifestCapabilities(es)
         /\ NormalEntries(NormalEntries(es)) = NormalEntries(es)
<1> DEFINE ns == NormalEntries(es)
<1>1. DOMAIN ns = DOMAIN es
  BY DEF NormalEntries
<1>2. ASSUME NEW k \in DOMAIN es
      PROVE  /\ ns[k].kind = es[k].kind /\ ns[k].attrs \subseteq es[k].attrs
             /\ normalizeScenarioManifestEntry(ns[k]) = ns[k]
  <2>1. es[k] \in ManifestEntry /\ ns[k] = normalizeScenarioManifestEntry(es[k])
    BY DEF NormalEntries
  <2> QED BY <2>1, EntryNormalized
<1>3. NormalEntries(ns) = ns
  BY <1>1, <1>2 DEF NormalEntries
<1> HIDE DEF ns
<1>4. deriveScenarioManifestCapabilities(ns) \subseteq deriveScenarioManifestCapabilities(es)
  BY <1>1, <1>2 DEF deriveScenarioManifestCapabilities
<1> QED BY <1>3, <1>4 DEF ns

(* An entry that passes the checks passes them when it is normal. *)
LEMMA EntryStaysValid ==
  ASSUME NEW e \in ManifestEntry, ValidEntry(e)
  PROVE  ValidEntry(normalizeScenarioManifestEntry(e))
<1> DEFINE n == normalizeScenarioManifestEntry(e)
<1>1. /\ n.kind = e.kind /\ n.path = e.path /\ n.target = e.target /\ n.how = e.how
      /\ n.attrs \subseteq e.attrs
      /\ e.kind \notin Links => n = e
  BY EntryNormalized
<1> HIDE DEF n
<1>2. CASE e.kind \in Links
  BY <1>1, <1>2 DEF ValidEntry, BlankTarget, Links, SpecialKinds, n
<1>3. CASE e.kind \notin Links
  BY <1>1, <1>3 DEF n
<1> QED BY <1>2, <1>3

(* A manifest that passes the checks passes them when it is sealed. *)
LEMMA SealedStaysValid ==
  ASSUME NEW m, IsManifest(m), Valid(m)
  PROVE  Valid(Sealed(m))
<1> DEFINE s == Sealed(m)
           es == m.entries
           ns == NormalEntries(m.entries)
<1>1. /\ IsManifest(s) /\ Normalized(s) = s /\ s.entries = ns
      /\ s.header = m.header /\ s.capabilities = m.capabilities
  BY SealedHolds
<1>2. es \in Seq(ManifestEntry) /\ DOMAIN ns = DOMAIN es
  BY DEF IsManifest, NormalEntries
<1>3. ASSUME NEW k \in DOMAIN es
      PROVE  /\ ns[k].kind = es[k].kind /\ ns[k].path = es[k].path /\ ns[k].target = es[k].target
             /\ ns[k].how = es[k].how /\ ValidEntry(ns[k])
  <2>1. es[k] \in ManifestEntry /\ ns[k] = normalizeScenarioManifestEntry(es[k])
    BY <1>2 DEF NormalEntries
  <2>2. ValidEntry(es[k])
    BY DEF Valid
  <2>3. ValidEntry(ns[k])
    BY <2>1, <2>2, EntryStaysValid
  <2> QED BY <2>1, <2>3, EntryNormalized
<1>4. /\ m.header /\ es # <<>> /\ es[1].kind = "dir" /\ es[1].path = Base
      /\ \A j, k \in DOMAIN es : es[j].path = es[k].path => j = k
      /\ \A k \in DOMAIN es : es[k].path # Base => HasParent(es, k)
      /\ \A k \in DOMAIN es : es[k].kind = "hardlink" => HasSource(es, k)
      /\ \A k \in DOMAIN es : es[k].how = "manifest-path" =>
           \E j \in DOMAIN es : es[j].path = es[k].target
      /\ deriveScenarioManifestCapabilities(Normalized(m).entries) \subseteq m.capabilities
  BY DEF Valid
<1>5. deriveScenarioManifestCapabilities(ns) \subseteq m.capabilities
  BY <1>4, NormalizedIs
<1>6. Len(es) \in Nat /\ DOMAIN es = 1 .. Len(es) /\ 1 \in DOMAIN es
  BY <1>2, <1>4
<1> HIDE DEF s, es, ns
<1>7. ns # <<>>
  BY <1>2, <1>6
<1>8. ns[1].kind = "dir" /\ ns[1].path = Base
  BY <1>3, <1>4, <1>6
<1>9. \A j, k \in DOMAIN ns : ns[j].path = ns[k].path => j = k
  BY <1>2, <1>3, <1>4
<1>10. ASSUME NEW k \in DOMAIN ns, ns[k].path # Base PROVE HasParent(ns, k)
  <2>1. PICK j \in 1 .. (k - 1) : es[j].kind = "dir" /\ es[j].path = Dir[es[k].path]
    BY <1>2, <1>3, <1>4, <1>10 DEF HasParent
  <2>2. j \in DOMAIN es
    BY <1>2, <1>6
  <2> QED BY <1>2, <1>3, <2>1, <2>2 DEF HasParent
<1>11. ASSUME NEW k \in DOMAIN ns, ns[k].kind = "hardlink" PROVE HasSource(ns, k)
  <2>1. HasSource(es, k)
    BY <1>2, <1>3, <1>4, <1>11
  <2> QED BY <1>2, <1>3, <2>1 DEF HasSource
<1>12. \A k \in DOMAIN ns : ns[k].how = "manifest-path" =>
         \E j \in DOMAIN ns : ns[j].path = ns[k].target
  BY <1>2, <1>3, <1>4
<1>13. \A k \in DOMAIN ns : ValidEntry(ns[k])
  BY <1>2, <1>3
<1>14. Valid(s)
  BY <1>1, <1>4, <1>5, <1>7, <1>8, <1>9, <1>10, <1>11, <1>12, <1>13 DEF Valid
<1> QED BY <1>14 DEF s

(* The draft of a plan is a manifest. *)
LEMMA DraftIs ==
  ASSUME NEW pl \in Seq(Entry), NEW m
  PROVE  LET d == Draft(pl, m)
         IN  /\ IsManifest(d) /\ DOMAIN d.entries = DOMAIN pl /\ Len(d.entries) = Len(pl)
             /\ \A k \in DOMAIN pl : d.entries[k] = scenarioManifestEntryFromPlannedEntry(pl[k])
             /\ d.header /\ d.mode = m
             /\ d.capabilities = deriveScenarioManifestCapabilities(d.entries)
<1> DEFINE es == [k \in DOMAIN pl |-> scenarioManifestEntryFromPlannedEntry(pl[k])]
<1>1. \A k \in DOMAIN pl : scenarioManifestEntryFromPlannedEntry(pl[k]) \in ManifestEntry
  <2>1. ASSUME NEW e \in Entry PROVE scenarioManifestEntryFromPlannedEntry(e) \in ManifestEntry
    BY DEF scenarioManifestEntryFromPlannedEntry, ManifestEntry, Entry, TargetType
  <2> QED BY <2>1
<1>2. es \in Seq(ManifestEntry) /\ DOMAIN es = DOMAIN pl /\ Len(es) = Len(pl)
  <2>1. DOMAIN pl = 1 .. Len(pl) /\ Len(pl) \in Nat
    OBVIOUS
  <2>2. es \in [1 .. Len(pl) -> ManifestEntry]
    BY <1>1, <2>1
  <2> QED BY <2>1, <2>2
<1>3. \A k \in DOMAIN pl : es[k] = scenarioManifestEntryFromPlannedEntry(pl[k])
  OBVIOUS
<1>4. Draft(pl, m) = [entries |-> es, mode |-> m, header |-> TRUE, checksum |-> <<>>,
                      capabilities |-> deriveScenarioManifestCapabilities(es)]
  BY DEF Draft
<1> HIDE DEF es
<1> QED BY <1>2, <1>3, <1>4 DEF IsManifest

(* The five reasons, apart from having no entries, that a plan is not made *)
(* a manifest.                                                             *)
Unportable(b) ==
  \E k \in DOMAIN b :
    \/ "unfit" \in b[k].attrs
    \/ b[k].kind = "symlink" /\ b[k].via = "dangling"
    \/ b[k].kind = "symlink" /\ b[k].via \notin AbsoluteOrigins /\ b[k].target \in Blank
    \/ b[k].kind \in SpecialKinds /\ b[k].attrs \cap Metadata # {}
    \/ b[k].kind \notin Links /\ "mode" \notin b[k].attrs

(* Without these every plan of the planner is made a manifest. *)
LEMMA PortableIsValid ==
  ASSUME NEW pl \in Plans, NEW m, pl # <<>>, ~ Unportable(pl)
  PROVE  Valid(Draft(pl, m))
<1> DEFINE d == Draft(pl, m)
           es == d.entries
<1>1. /\ pl \in Seq(Entry) /\ RootFirst(pl) /\ PathsDistinct(pl) /\ ParentsFirst(pl)
      /\ LinksBackward(pl)
  BY RunAssumption DEF WellFormedPlan
<1>2. /\ IsManifest(d) /\ DOMAIN es = DOMAIN pl /\ Len(es) = Len(pl)
      /\ \A k \in DOMAIN pl : es[k] = scenarioManifestEntryFromPlannedEntry(pl[k])
      /\ d.header /\ d.capabilities = deriveScenarioManifestCapabilities(es)
  BY <1>1, DraftIs
<1> HIDE DEF d
<1>3. ASSUME NEW k \in DOMAIN pl
      PROVE  /\ es[k].kind = pl[k].kind /\ es[k].path = pl[k].path /\ es[k].target = pl[k].target
             /\ es[k].attrs = pl[k].attrs /\ es[k].how = TargetType(pl[k])
  <2>1. es[k] = scenarioManifestEntryFromPlannedEntry(pl[k])
    BY <1>2
  <2> QED BY <2>1 DEF scenarioManifestEntryFromPlannedEntry
<1>4. Len(pl) \in Nat /\ DOMAIN pl = 1 .. Len(pl) /\ 1 \in DOMAIN pl
  BY <1>1
<1>5. pl[1].kind = "dir" /\ pl[1].path = Base
  BY <1>1 DEF RootFirst
<1>6. ASSUME NEW k \in DOMAIN pl, pl[k].kind = "hardlink"
      PROVE  \E j \in 1 .. (k - 1) :
               pl[j].kind \in {"file", "hardlink"} /\ pl[j].path = pl[k].target
  BY <1>1, <1>6 DEF LinksBackward
<1>7. ASSUME NEW k \in DOMAIN pl, pl[k].path = Base PROVE pl[k].kind = "dir"
  BY <1>1, <1>4, <1>5, <1>7 DEF PathsDistinct
<1>8. ASSUME NEW k \in DOMAIN pl PROVE ValidEntry(es[k])
  <2>1. es[k].path = Base => es[k].kind = "dir"
    BY <1>3, <1>7
  <2>2. es[k].kind \notin Links => "mode" \in es[k].attrs
    BY <1>3 DEF Unportable
  <2>3. es[k].kind = "symlink" => es[k].target # NoPath /\ ~ BlankTarget(es[k])
    <3>1. es[k].kind = "symlink" => es[k].target # NoPath
      BY <1>3, ManifestAssumption
    <3>2. (es[k].kind = "symlink" /\ es[k].how = "literal") => es[k].target \notin Blank
      BY <1>3 DEF TargetType, Unportable
    <3> QED BY <3>1, <3>2 DEF BlankTarget
  <2>4. ASSUME es[k].kind = "hardlink" PROVE es[k].target \notin {NoPath, Base, es[k].path}
    <3>1. PICK j \in 1 .. (k - 1) :
            pl[j].kind \in {"file", "hardlink"} /\ pl[j].path = pl[k].target
      BY <1>3, <1>6, <2>4
    <3>2. j \in DOMAIN pl /\ j # k
      BY <1>4
    <3>3. pl[j].path \in Paths
      <4>1. pl[j] \in Entry
        BY <1>1, <3>2
      <4> QED BY <4>1 DEF Entry
    <3>4. pl[k].target # pl[k].path
      BY <1>1, <3>1, <3>2 DEF PathsDistinct
    <3>5. pl[k].target # Base
      BY <1>7, <3>1, <3>2
    <3> QED BY <1>3, <3>1, <3>3, <3>4, <3>5, PathAssumption
  <2>5. es[k].kind \in SpecialKinds => es[k].attrs \cap Metadata = {}
    BY <1>3 DEF Unportable
  <2>6. "unfit" \notin es[k].attrs
    BY <1>3 DEF Unportable
  <2> QED BY <2>1, <2>2, <2>3, <2>4, <2>5, <2>6 DEF ValidEntry
<1>9. \A j, k \in DOMAIN es : es[j].path = es[k].path => j = k
  BY <1>1, <1>2, <1>3 DEF PathsDistinct
<1>10. ASSUME NEW k \in DOMAIN es, es[k].path # Base PROVE HasParent(es, k)
  <2>1. PICK j \in 1 .. (k - 1) : pl[j].kind = "dir" /\ pl[j].path = Dir[pl[k].path]
    BY <1>1, <1>2, <1>3, <1>10 DEF ParentsFirst
  <2>2. j \in DOMAIN pl
    BY <1>2, <1>4
  <2> QED BY <1>2, <1>3, <2>1, <2>2 DEF HasParent
<1>11. ASSUME NEW k \in DOMAIN es, es[k].kind = "hardlink" PROVE HasSource(es, k)
  <2>1. PICK j \in 1 .. (k - 1) :
          pl[j].kind \in {"file", "hardlink"} /\ pl[j].path = pl[k].target
    BY <1>2, <1>3, <1>6, <1>11
  <2>2. j \in DOMAIN pl
    BY <1>2, <1>4
  <2> QED BY <1>2, <1>3, <2>1, <2>2 DEF HasSource
<1>12. ASSUME NEW k \in DOMAIN es, es[k].how = "manifest-path"
       PROVE  \E j \in DOMAIN es : es[j].path = es[k].target
  <2>1. pl[k].kind = "symlink" /\ pl[k].via \in AbsoluteOrigins
    BY <1>2, <1>3, <1>12 DEF TargetType
  <2>2. pl[k].via # "dangling"
    BY <1>2, <2>1 DEF Unportable
  <2>3. pl[k].target \in PathsOf(pl)
    BY <1>2, <2>1, <2>2, ManifestAssumption
  <2> QED BY <1>2, <1>3, <2>3 DEF PathsOf
<1>13. deriveScenarioManifestCapabilities(Normalized(d).entries) \subseteq d.capabilities
  <2>1. Normalized(d).entries = NormalEntries(es) /\ es \in Seq(ManifestEntry)
    BY <1>2, NormalizedIs DEF IsManifest
  <2> QED BY <1>2, <2>1, CapabilitiesNormal
<1>14. es # <<>> /\ es[1].kind = "dir" /\ es[1].path = Base
  BY <1>2, <1>3, <1>4, <1>5
<1>15. Valid(d)
  BY <1>2, <1>8, <1>9, <1>10, <1>11, <1>12, <1>13, <1>14 DEF Valid
<1> QED BY <1>15 DEF d

-----------------------------------------------------------------------------
(* The manifest in the caller's hands *)

(* The entries es are those of the plan b, made portable and normal. *)
FromPlan(es, b) ==
  /\ DOMAIN es = DOMAIN b /\ Len(es) = Len(b)
  /\ \A k \in DOMAIN b :
       es[k] = normalizeScenarioManifestEntry(scenarioManifestEntryFromPlannedEntry(b[k]))

(* A manifest that was built passes its checks as long as it is at hand. *)
HandInv ==
  /\ IsManifest(manifest)
  /\ built # <<>> => built \in Plans /\ phase # "none"
  /\ (built # <<>> /\ phase \in {"ready", "replaying"}) =>
       /\ Valid(manifest) /\ Verified(manifest) /\ Normalized(manifest) = manifest
       /\ FromPlan(manifest.entries, built)
  /\ BuiltHolds

(* What is replayed is the manifest at hand. *)
ReplayedInv ==
  phase = "replaying" =>
    plan = runPlanFromScenarioManifest(Normalized(manifest).entries)

(* What Build makes of a plan. *)
LEMMA BuildKeeps ==
  ASSUME HandInv, NEW pl \in Plans, NEW m, BuildScenarioManifest(pl, m)
  PROVE  HandInv' /\ ReplayedInv'
<1> DEFINE d == Draft(pl, m)
<1>1. built' = pl /\ pl \in Seq(Entry)
  BY RunAssumption DEF BuildScenarioManifest, WellFormedPlan
<1>2. /\ IsManifest(d) /\ DOMAIN d.entries = DOMAIN pl /\ Len(d.entries) = Len(pl)
      /\ \A k \in DOMAIN pl : d.entries[k] = scenarioManifestEntryFromPlannedEntry(pl[k])
  BY <1>1, DraftIs
<1>3. CASE Valid(d)
  <2>1. manifest' = Sealed(d) /\ phase' = "ready"
    BY <1>3 DEF BuildScenarioManifest
  <2> HIDE DEF d
  <2>2. /\ IsManifest(Sealed(d)) /\ Normalized(Sealed(d)) = Sealed(d) /\ Verified(Sealed(d))
        /\ Sealed(d).entries = NormalEntries(d.entries) /\ Valid(Sealed(d))
    BY <1>2, <1>3, SealedHolds, SealedStaysValid
  <2>3. FromPlan(Sealed(d).entries, pl)
    <3>1. Len(Sealed(d).entries) = Len(d.entries)
      <4>1. d.entries \in Seq(ManifestEntry) /\ Sealed(d).entries \in Seq(ManifestEntry)
        BY <1>2, <2>2 DEF IsManifest
      <4>2. DOMAIN Sealed(d).entries = DOMAIN d.entries
        BY <2>2 DEF NormalEntries
      <4> QED BY <4>1, <4>2
    <3> QED BY <1>2, <2>2, <3>1 DEF FromPlan, NormalEntries
  <2>4. /\ IsManifest(manifest') /\ Valid(manifest') /\ Verified(manifest')
        /\ Normalized(manifest') = manifest' /\ FromPlan(manifest'.entries, built')
    BY <1>1, <2>1, <2>2, <2>3
  <2>5. BuiltHolds'
    BY <2>1 DEF BuiltHolds
  <2> QED BY <1>1, <2>1, <2>4, <2>5 DEF HandInv, ReplayedInv
<1>4. CASE ~ Valid(d)
  <2>1. UNCHANGED manifest /\ phase' = "unbuildable"
    BY <1>4 DEF BuildScenarioManifest
  <2>2. pl = <<>> \/ Unportable(pl)
    BY <1>4, PortableIsValid
  <2>3. BuiltHolds'
    BY <1>1, <2>1, <2>2 DEF BuiltHolds, Unportable
  <2> QED BY <1>1, <2>1, <2>3 DEF HandInv, ReplayedInv
<1> QED BY <1>3, <1>4

(* A manifest that a caller wrote promises nothing. *)
LEMMA GiveKeeps ==
  ASSUME HandInv, NEW m \in Given, Give(m)
  PROVE  HandInv' /\ ReplayedInv'
<1>1. manifest' = m /\ phase' = "ready" /\ built' = built /\ built = <<>>
  BY DEF Give, HandInv
<1>2. IsManifest(m)
  BY ManifestAssumption
<1> QED BY <1>1, <1>2 DEF HandInv, ReplayedInv, BuiltHolds

(* Every path and target of the entries es comes through JSON. *)
Readable(es) ==
  \A k \in DOMAIN es : ReadBack(es[k].path) = es[k].path /\ ReadBack(es[k].target) = es[k].target

(* The JSON text tells a path from what is read in its place. *)
LEMMA TextTells ==
  ASSUME NEW p \in Paths \cup {NoPath}, Text(ReadBack(p)) = Text(p)
  PROVE  ReadBack(p) = p
<1>1. ReadBack(ReadBack(p)) = ReadBack(p) /\ ReadBack(p) \in Paths \cup {NoPath}
  BY ManifestAssumption, PathAssumption DEF ReadBack
<1> DEFINE q == ReadBack(p)
<1>2. Text(q)[2] = TRUE
  BY <1>1 DEF Text
<1>3. Text(p)[2] = (q = p)
  BY DEF Text
<1> HIDE DEF q
<1>4. (q = p) = TRUE
  BY <1>2, <1>3 DEF q
<1> QED BY <1>4 DEF q

(* What JSON makes of a manifest is one, with the same seal. *)
LEMMA ThroughJSONIs ==
  ASSUME NEW m, IsManifest(m)
  PROVE  LET r == ThroughJSON(m)
         IN  /\ IsManifest(r) /\ r.checksum = m.checksum /\ DOMAIN r.entries = DOMAIN m.entries
             /\ \A k \in DOMAIN m.entries : /\ r.entries[k].path = ReadBack(m.entries[k].path)
                                            /\ r.entries[k].target = ReadBack(m.entries[k].target)
             /\ Readable(m.entries) => r = m
<1> DEFINE R(e) == [kind |-> e.kind, path |-> ReadBack(e.path), target |-> ReadBack(e.target),
                    how |-> e.how, attrs |-> e.attrs]
           es == [k \in DOMAIN m.entries |-> R(m.entries[k])]
           r == ThroughJSON(m)
<1>1. /\ m = [entries |-> m.entries, mode |-> m.mode, header |-> m.header,
             checksum |-> m.checksum, capabilities |-> m.capabilities]
      /\ m.entries \in Seq(ManifestEntry)
  BY DEF IsManifest
<1>2. ASSUME NEW e \in ManifestEntry PROVE R(e) \in ManifestEntry
  <2>1. ReadBack(e.path) \in Paths /\ ReadBack(e.target) \in Paths \cup {NoPath}
    BY ManifestAssumption, PathAssumption DEF ReadBack, ManifestEntry
  <2> QED BY <2>1 DEF ManifestEntry
<1>3. ASSUME NEW e \in ManifestEntry, ReadBack(e.path) = e.path, ReadBack(e.target) = e.target
      PROVE  R(e) = e
  BY <1>3 DEF ManifestEntry
<1>4. \A k \in DOMAIN m.entries : /\ R(m.entries[k]).path = ReadBack(m.entries[k].path)
                                  /\ R(m.entries[k]).target = ReadBack(m.entries[k].target)
  OBVIOUS
<1>5. r = [m EXCEPT !.entries = es]
  BY DEF ThroughJSON
<1> HIDE DEF R
<1>6. es \in Seq(ManifestEntry) /\ DOMAIN es = DOMAIN m.entries
  <2>1. DOMAIN m.entries = 1 .. Len(m.entries) /\ Len(m.entries) \in Nat
    BY <1>1
  <2>2. es \in [1 .. Len(m.entries) -> ManifestEntry]
    BY <1>1, <1>2, <2>1
  <2> QED BY <2>1, <2>2
<1>7. Readable(m.entries) => es = m.entries
  BY <1>1, <1>3 DEF Readable
<1>8. \A k \in DOMAIN m.entries : es[k] = R(m.entries[k])
  OBVIOUS
<1> HIDE DEF es, r
<1>9. r = [entries |-> es, mode |-> m.mode, header |-> m.header,
           checksum |-> m.checksum, capabilities |-> m.capabilities]
  BY <1>1, <1>5
<1>10. IsManifest(r) /\ r.entries = es /\ r.checksum = m.checksum
  BY <1>6, <1>9 DEF IsManifest
<1>11. Readable(m.entries) => r = m
  BY <1>1, <1>7, <1>9
<1> QED BY <1>4, <1>6, <1>8, <1>10, <1>11 DEF r

(* A sealed manifest that JSON has changed does not bear its seal. *)
LEMMA ChangedFails ==
  ASSUME NEW m, IsManifest(m), Normalized(m) = m, Verified(m),
         Verified(ThroughJSON(m))
  PROVE  Readable(m.entries)
<1> DEFINE r == ThroughJSON(m)
           n == Normalized(r)
<1>1. /\ IsManifest(r) /\ r.checksum = m.checksum /\ DOMAIN r.entries = DOMAIN m.entries
      /\ \A k \in DOMAIN m.entries : /\ r.entries[k].path = ReadBack(m.entries[k].path)
                                     /\ r.entries[k].target = ReadBack(m.entries[k].target)
  BY ThroughJSONIs
<1>2. <<Payload(n)>> = <<Payload(m)>>
  BY <1>1 DEF Verified
<1> HIDE DEF r
<1>3. n.entries = NormalEntries(r.entries) /\ DOMAIN n.entries = DOMAIN m.entries
  BY <1>1, NormalizedIs
<1>4. m.entries \in Seq(ManifestEntry) /\ r.entries \in Seq(ManifestEntry)
  BY <1>1 DEF IsManifest
<1> HIDE DEF n
<1> SUFFICES ASSUME NEW k \in DOMAIN m.entries
             PROVE  /\ ReadBack(m.entries[k].path) = m.entries[k].path
                    /\ ReadBack(m.entries[k].target) = m.entries[k].target
  BY DEF Readable
<1> DEFINE e == m.entries[k]
           f == n.entries[k]
<1>5. e \in ManifestEntry /\ e.path \in Paths /\ e.target \in Paths \cup {NoPath}
  <2>1. e \in ManifestEntry
    BY <1>4
  <2> QED BY <2>1 DEF ManifestEntry
<1>6. f.path = ReadBack(e.path) /\ f.target = ReadBack(e.target)
  <2>1. r.entries[k] \in ManifestEntry /\ f = normalizeScenarioManifestEntry(r.entries[k])
    BY <1>1, <1>3, <1>4 DEF NormalEntries
  <2> QED BY <1>1, <2>1, EntryNormalized
<1>7. <<f.kind, Text(f.path), Text(f.target), f.how, f.attrs>>
        = <<e.kind, Text(e.path), Text(e.target), e.how, e.attrs>>
  <2>1. Payload(n)[4][k] = <<f.kind, Text(f.path), Text(f.target), f.how, f.attrs>>
    BY <1>3 DEF Payload
  <2>2. Payload(m)[4][k] = <<e.kind, Text(e.path), Text(e.target), e.how, e.attrs>>
    BY DEF Payload
  <2> QED BY <1>2, <2>1, <2>2
<1> HIDE DEF e, f
<1>8. Text(f.path) = Text(e.path) /\ Text(f.target) = Text(e.target)
  BY <1>7
<1>9. ReadBack(e.path) = e.path /\ ReadBack(e.target) = e.target
  BY <1>5, <1>6, <1>8, TextTells
<1> QED BY <1>9 DEF e

(* A manifest that has travelled is as it was, or is not parsed. *)
LEMMA TravelsKeeps ==
  ASSUME HandInv, NEW m, m \in {Sealed(manifest), ThroughJSON(Sealed(manifest))}, Travels(m)
  PROVE  HandInv' /\ ReplayedInv'
<1> DEFINE s == Sealed(manifest)
<1>1. phase = "ready" /\ built' = built /\ IsManifest(manifest)
  BY DEF Travels, HandInv
<1>2. /\ IsManifest(s) /\ Normalized(s) = s /\ Verified(s)
      /\ s.entries = NormalEntries(manifest.entries)
  BY <1>1, SealedHolds
<1>3. built # <<>> => FromPlan(s.entries, built) /\ Valid(manifest) /\ built \in Plans
  <2> SUFFICES ASSUME built # <<>>
               PROVE  FromPlan(s.entries, built) /\ Valid(manifest) /\ built \in Plans
    OBVIOUS
  <2>1. /\ Normalized(manifest) = manifest /\ FromPlan(manifest.entries, built) /\ Valid(manifest)
        /\ built \in Plans
    BY <1>1 DEF HandInv
  <2>2. NormalEntries(manifest.entries) = manifest.entries
    BY <1>1, <2>1, NormalizedIs
  <2> QED BY <1>2, <2>1, <2>2
<1>4. Valid(manifest) => Valid(s)
  BY <1>1, SealedStaysValid
<1>5. IsManifest(m) /\ (Readable(s.entries) => m = s) /\ (Verified(m) => m = s)
  <2> HIDE DEF s
  <2>1. IsManifest(ThroughJSON(s)) /\ (Readable(s.entries) => ThroughJSON(s) = s)
    BY <1>2, ThroughJSONIs
  <2>2. Verified(ThroughJSON(s)) => Readable(s.entries)
    BY <1>2, ChangedFails
  <2> QED BY <1>2, <2>1, <2>2 DEF s
<1> HIDE DEF s
<1>6. CASE ~ Valid(manifest)
  <2>1. UNCHANGED manifest /\ phase' = "invalid" /\ built = <<>>
    BY <1>3, <1>6 DEF Travels
  <2> QED BY <1>1, <2>1 DEF HandInv, ReplayedInv, BuiltHolds
<1>7. CASE Valid(manifest) /\ Valid(m) /\ Verified(m)
  <2>1. manifest' = s /\ phase' = "ready"
    BY <1>1, <1>2, <1>5, <1>7 DEF Travels
  <2>2. /\ IsManifest(manifest') /\ Normalized(manifest') = manifest' /\ Verified(manifest')
        /\ Valid(manifest')
    BY <1>2, <1>4, <1>7, <2>1
  <2>3. built # <<>> => FromPlan(manifest'.entries, built') /\ built' \in Plans
    BY <1>1, <1>3, <2>1
  <2>4. BuiltHolds'
    BY <2>1 DEF BuiltHolds
  <2> QED BY <1>1, <2>1, <2>2, <2>3, <2>4 DEF HandInv, ReplayedInv
<1>8. CASE Valid(manifest) /\ ~ (Valid(m) /\ Verified(m))
  <2>1. UNCHANGED manifest /\ phase' = "unparsed"
    BY <1>8 DEF Travels
  <2>2. ~ Readable(s.entries)
    BY <1>2, <1>4, <1>5, <1>8
  <2>3. ASSUME built # <<>>
        PROVE  \E k \in DOMAIN built : \E p \in {built[k].path, built[k].target} : ReadBack(p) # p
    <3>1. FromPlan(s.entries, built) /\ built \in Seq(Entry)
      BY <1>3, <2>3, RunAssumption DEF WellFormedPlan
    <3>2. PICK k \in DOMAIN built : \/ ReadBack(s.entries[k].path) # s.entries[k].path
                                    \/ ReadBack(s.entries[k].target) # s.entries[k].target
      BY <2>2, <3>1 DEF Readable, FromPlan
    <3>3. /\ s.entries[k] = normalizeScenarioManifestEntry(scenarioManifestEntryFromPlannedEntry(built[k]))
          /\ built[k] \in Entry
      BY <3>1 DEF FromPlan
    <3>4. s.entries[k].path = built[k].path /\ s.entries[k].target = built[k].target
      <4> DEFINE e == scenarioManifestEntryFromPlannedEntry(built[k])
      <4>1. e \in ManifestEntry /\ e.path = built[k].path /\ e.target = built[k].target
        BY <3>3 DEF scenarioManifestEntryFromPlannedEntry, ManifestEntry, Entry, TargetType
      <4> QED BY <3>3, <4>1, EntryNormalized
    <3> QED BY <3>2, <3>4
  <2>4. BuiltHolds'
    BY <1>1, <2>1, <2>3 DEF BuiltHolds
  <2> QED BY <1>1, <1>3, <2>1, <2>4 DEF HandInv, ReplayedInv
<1> QED BY <1>6, <1>7, <1>8

(* A manifest that was built is refused only for the tree it meets. *)
LEMMA ReplayRefusedKeeps ==
  ASSUME HandInv, ReplayRefused
  PROVE  HandInv' /\ ReplayedInv'
<1>1. /\ phase \in {"ready", "replaying"} /\ UNCHANGED <<manifest, built>>
      /\ \/ ~ Valid(manifest) /\ phase' = "invalid"
         \/ ~ Verified(manifest) /\ phase' = "mismatch"
         \/ phase' = "unplaced"
  BY DEF ReplayRefused, Replayable
<1>2. built # <<>> => phase' = "unplaced"
  BY <1>1 DEF HandInv
<1>3. phase' \in {"invalid", "mismatch", "unplaced"}
  BY <1>1
<1>4. BuiltHolds'
  BY <1>1, <1>2, <1>3 DEF BuiltHolds
<1> QED BY <1>1, <1>3, <1>4 DEF HandInv, ReplayedInv

(* A replay starts with the plan of the manifest. *)
LEMMA ReplayKeeps ==
  ASSUME HandInv, ApplyScenarioManifest
  PROVE  HandInv' /\ ReplayedInv'
<1>1. /\ phase \in {"ready", "replaying"} /\ phase' = "replaying" /\ UNCHANGED <<manifest, built>>
      /\ plan' = runPlanFromScenarioManifest(Normalized(manifest).entries)
  BY DEF ApplyScenarioManifest, Replayable, StartRun
<1>2. ReplayedInv'
  BY <1>1 DEF ReplayedInv
<1>3. BuiltHolds'
  BY <1>1 DEF BuiltHolds
<1> QED BY <1>1, <1>2, <1>3 DEF HandInv

(* A step of the run leaves the manifest and the plan alone. *)
LEMMA RunStepKeepsPlan ==
  RunStep => UNCHANGED <<run, plan, mode>>
<1> USE DEF runVars
<1>1. ClearBase \/ ClearFails => UNCHANGED <<run, plan, mode>>
  BY DEF ClearBase, ClearFails
<1>2. EntryFault \/ InspectFails \/ EntryAccepted \/ EntryRefused \/ EntryCreated \/ EntryFails
        => UNCHANGED <<run, plan, mode>>
  BY DEF EntryFault, Faults, InspectFails, EntryAccepted, EntryRefused, EntryCreated, EntryFails
<1>3. EntriesDone \/ FinalizeSkip \/ FinalizeFault \/ FinalizeDir \/ FinalizeFails \/ FinishRun
        => UNCHANGED <<run, plan, mode>>
  BY DEF EntriesDone, FinalizeSkip, FinalizeFault, Faults, FinalizeDir, FinalizeFails, FinishRun
<1> QED BY <1>1, <1>2, <1>3 DEF RunStep

-----------------------------------------------------------------------------
(* The loop that applies the entries *)

(* What the checks make sure of the plan of a manifest.  A hard link has a *)
(* source, which may come after it.                                        *)
Orderly(pl) ==
  /\ pl \in Seq(Entry)
  /\ PathsDistinct(pl)
  /\ ParentsFirst(pl)
  /\ \A k \in DOMAIN pl : pl[k].kind = "hardlink" =>
       \E j \in DOMAIN pl \ {k} :
         pl[j].path = pl[k].target /\ pl[j].kind \in {"file", "hardlink"}

(* Every path has a node, which has a kind. *)
Kinded(t) == DOMAIN t = Paths /\ \A p \in Paths : "kind" \in DOMAIN t[p]

(* The entries the loop has passed are there. *)
Passed(n) == \A k \in DOMAIN plan : k < n => tree[plan[k].path].kind = NodeKind(plan[k])

LoopInv ==
  /\ Kinded(tree)
  /\ i \in Int
  /\ pc = "clear" => i = 1
  /\ pc \in {"clear", "entries"} => Orderly(plan) /\ i >= 1
  /\ pc = "entries" => Passed(i)

(* A manifest that passed its checks makes such a plan. *)
LEMMA ValidIsOrderly ==
  ASSUME NEW m, IsManifest(m), Valid(m)
  PROVE  Orderly(runPlanFromScenarioManifest(Normalized(m).entries))
<1> DEFINE es == m.entries
           ns == Normalized(m).entries
           pl == runPlanFromScenarioManifest(ns)
<1>1. /\ es \in Seq(ManifestEntry) /\ ns \in Seq(ManifestEntry) /\ ns = NormalEntries(es)
      /\ DOMAIN ns = DOMAIN es /\ Len(ns) = Len(es)
  BY NormalizedIs DEF IsManifest
<1>2. Len(es) \in Nat /\ DOMAIN es = 1 .. Len(es)
  BY <1>1
<1>3. /\ \A k \in DOMAIN es : ValidEntry(es[k])
      /\ \A j, k \in DOMAIN es : es[j].path = es[k].path => j = k
      /\ \A k \in DOMAIN es : es[k].path # Base => HasParent(es, k)
      /\ \A k \in DOMAIN es : es[k].kind = "hardlink" => HasSource(es, k)
  BY DEF Valid
<1>4. DOMAIN pl = DOMAIN es
  BY <1>1 DEF runPlanFromScenarioManifest
<1>5. ASSUME NEW k \in DOMAIN es
      PROVE  /\ pl[k] \in Entry
             /\ pl[k].kind = es[k].kind /\ pl[k].path = es[k].path /\ pl[k].target = es[k].target
  <2>1. es[k] \in ManifestEntry /\ ns[k] = normalizeScenarioManifestEntry(es[k])
    BY <1>1 DEF NormalEntries
  <2>2. /\ ns[k] \in ManifestEntry
        /\ ns[k].kind = es[k].kind /\ ns[k].path = es[k].path /\ ns[k].target = es[k].target
    BY <2>1, EntryNormalized
  <2>3. pl[k] = plannedEntryFromScenarioManifestEntry(ns[k])
    BY <1>1 DEF runPlanFromScenarioManifest
  <2> HIDE DEF ns, pl
  <2>4. ASSUME NEW e \in ManifestEntry
        PROVE  LET q == plannedEntryFromScenarioManifestEntry(e)
               IN  q \in Entry /\ q.kind = e.kind /\ q.path = e.path /\ q.target = e.target
    BY DEF plannedEntryFromScenarioManifestEntry, ManifestEntry, Entry, Origins, Strategies
  <2> QED BY <2>2, <2>3, <2>4
<1> HIDE DEF es, pl
<1>6. pl \in Seq(Entry)
  <2>1. pl \in [1 .. Len(es) -> Entry]
    <3>1. pl = [k \in DOMAIN es |-> pl[k]]
      BY <1>1 DEF pl, runPlanFromScenarioManifest
    <3> QED BY <1>2, <1>5, <3>1
  <2> QED BY <1>2, <2>1
<1>7. PathsDistinct(pl)
  BY <1>3, <1>4, <1>5 DEF PathsDistinct
<1>8. ParentsFirst(pl)
  <2> SUFFICES ASSUME NEW k \in DOMAIN es, es[k].path # Base
               PROVE  \E j \in 1 .. (k - 1) : pl[j].kind = "dir" /\ pl[j].path = Dir[pl[k].path]
    BY <1>4, <1>5 DEF ParentsFirst
  <2>1. PICK j \in 1 .. (k - 1) : es[j].kind = "dir" /\ es[j].path = Dir[es[k].path]
    BY <1>3 DEF HasParent
  <2>2. j \in DOMAIN es
    BY <1>2
  <2> QED BY <1>5, <2>1, <2>2
<1>9. ASSUME NEW k \in DOMAIN pl, pl[k].kind = "hardlink"
      PROVE  \E j \in DOMAIN pl \ {k} :
               pl[j].path = pl[k].target /\ pl[j].kind \in {"file", "hardlink"}
  <2>1. k \in DOMAIN es /\ es[k].kind = "hardlink"
    BY <1>4, <1>5, <1>9
  <2>2. PICK j \in DOMAIN es : es[j].path = es[k].target /\ es[j].kind \in {"file", "hardlink"}
    BY <1>3, <2>1 DEF HasSource
  <2>3. es[k].target # es[k].path
    BY <1>3, <2>1 DEF ValidEntry
  <2> QED BY <1>4, <1>5, <2>1, <2>2, <2>3
<1>10. Orderly(pl)
  BY <1>6, <1>7, <1>8, <1>9 DEF Orderly
<1> QED BY <1>10 DEF pl

(* A name that is made gets its node; the others keep their kinds. *)
LEMMA NodeMade ==
  ASSUME Kinded(tree), NEW p \in Paths, NEW node, "kind" \in DOMAIN node
  PROVE  /\ Kinded(WithNode(p, node))
         /\ WithNode(p, node)[p].kind = node.kind
         /\ \A q \in Paths \ {p} : WithNode(p, node)[q].kind = tree[q].kind
<1> DEFINE t == WithNode(p, node)
<1>1. DOMAIN t = Paths /\ t[p] = node
  BY DEF WithNode
<1>2. ASSUME NEW q \in Paths \ {p}
      PROVE  "kind" \in DOMAIN t[q] /\ t[q].kind = tree[q].kind
  <2>1. t[q] = tree[q] \/ t[q] = [tree[q] EXCEPT !.meta = tree[q].meta \ {"times"}]
    BY DEF WithNode
  <2>2. "kind" \in DOMAIN tree[q]
    BY DEF Kinded
  <2> HIDE DEF t
  <2> QED BY <2>1, <2>2
<1> HIDE DEF t
<1> QED BY <1>1, <1>2 DEF Kinded, t

(* Changing the metadata of a node changes no kind. *)
LEMMA MetaSet ==
  ASSUME Kinded(tree), NEW p, NEW meta
  PROVE  Kinded([tree EXCEPT ![p].meta = meta])
<1> DEFINE t == [tree EXCEPT ![p].meta = meta]
<1>1. DOMAIN t = Paths
  BY DEF Kinded
<1>2. ASSUME NEW q \in Paths PROVE "kind" \in DOMAIN t[q]
  <2>1. "kind" \in DOMAIN tree[q] /\ q \in DOMAIN tree
    BY DEF Kinded
  <2>2. t[q] = tree[q] \/ t[q] = [tree[q] EXCEPT !.meta = meta]
    BY <2>1
  <2> HIDE DEF t
  <2> QED BY <2>1, <2>2
<1> HIDE DEF t
<1> QED BY <1>1, <1>2 DEF Kinded, t

(* A manifest of whatever origin starts a run over an orderly plan. *)
LEMMA ReplayStartsLoop ==
  ASSUME HandInv, LoopInv, ApplyScenarioManifest
  PROVE  LoopInv'
<1>1. /\ IsManifest(manifest) /\ Valid(manifest) /\ UNCHANGED tree /\ i' = 1
      /\ plan' = runPlanFromScenarioManifest(Normalized(manifest).entries)
  BY DEF HandInv, ApplyScenarioManifest, StartRun
<1>2. Orderly(plan')
  BY <1>1, ValidIsOrderly
<1>3. Passed(i)'
  BY <1>1, <1>2 DEF Passed, Orderly
<1> QED BY <1>1, <1>2, <1>3 DEF LoopInv

(* The entry whose turn it is. *)
LEMMA EntryAtHand ==
  ASSUME LoopInv, AtEntry
  PROVE  /\ i \in DOMAIN plan /\ plan[i] \in Entry /\ plan[i].path \in Paths
         /\ plan \in Seq(Entry) /\ i \in Nat /\ Orderly(plan) /\ Passed(i)
         /\ Kinded(tree)
         /\ plan[i].kind = "hardlink" => plan[i].target \in Paths
<1>1. i \in Int /\ i >= 1 /\ i <= Len(plan) /\ plan \in Seq(Entry) /\ Orderly(plan) /\ Passed(i)
      /\ Kinded(tree)
  BY DEF LoopInv, AtEntry, Orderly
<1>2. i \in DOMAIN plan /\ plan[i] \in Entry
  BY <1>1
<1>3. plan[i].path \in Paths
  BY <1>2 DEF Entry
<1>4. plan[i].kind = "hardlink" => plan[i].target \in Paths
  <2>1. \A j \in DOMAIN plan : plan[j].path \in Paths
    <3> SUFFICES ASSUME NEW j \in DOMAIN plan PROVE plan[j].path \in Paths
      OBVIOUS
    <3>1. plan[j] \in Entry
      BY <1>1
    <3> QED BY <3>1 DEF Entry
  <2> QED BY <1>1, <1>2, <2>1 DEF Orderly
<1> QED BY <1>1, <1>2, <1>3, <1>4

(* The loop goes on past an entry that is there. *)
LEMMA PassedOn ==
  ASSUME LoopInv, AtEntry, UNCHANGED <<plan, pc>>, i' = i + 1, Kinded(tree'),
         tree'[plan[i].path].kind = NodeKind(plan[i]),
         \A q \in Paths \ {plan[i].path} : tree'[q].kind = tree[q].kind
  PROVE  LoopInv'
<1>1. /\ i \in DOMAIN plan /\ plan \in Seq(Entry) /\ i \in Nat /\ Orderly(plan) /\ Passed(i)
  BY EntryAtHand
<1>2. ASSUME NEW k \in DOMAIN plan, k < i + 1
      PROVE  tree'[plan[k].path].kind = NodeKind(plan[k])
  <2>1. CASE k = i
    BY <2>1
  <2>2. CASE k # i
    <3>1. k < i
      BY <1>1, <1>2, <2>2
    <3>2. plan[k].path # plan[i].path
      BY <1>1, <2>2 DEF Orderly, PathsDistinct
    <3>3. plan[k] \in Entry
      BY <1>1
    <3>4. plan[k].path \in Paths
      BY <3>3 DEF Entry
    <3> QED BY <1>1, <3>1, <3>2, <3>4 DEF Passed
  <2> QED BY <2>1, <2>2
<1>3. Passed(i)'
  BY <1>2 DEF Passed, NodeKind
<1> QED BY <1>1, <1>3 DEF LoopInv, Orderly, PathsDistinct, ParentsFirst, AtEntry

(* Each step of a run keeps the invariant of the loop. *)
LEMMA RunStepKeepsLoop ==
  ASSUME LoopInv, RunStep
  PROVE  LoopInv'
<1>1. plan' = plan
  BY RunStepKeepsPlan
<1>2. Orderly(plan) => Orderly(plan')
  BY <1>1
<1>3. ASSUME ClearBase PROVE LoopInv'
  <2>1. pc = "clear" /\ tree' = [p \in Paths |-> Absent] /\ pc' = "entries" /\ i' = i /\ i = 1
    BY <1>3 DEF ClearBase, LoopInv
  <2>2. Kinded(tree')
    BY <2>1 DEF Kinded, Absent
  <2>3. Orderly(plan)
    BY <2>1 DEF LoopInv
  <2>4. Passed(i)'
    BY <1>1, <2>1, <2>3 DEF Passed, Orderly
  <2> QED BY <1>2, <2>1, <2>2, <2>3, <2>4 DEF LoopInv
<1>4. ASSUME ClearFails PROVE LoopInv'
  <2>1. PICK kept \in SUBSET {p \in Paths : Exists(p)} :
          tree' = [p \in Paths |->
                     IF p \notin kept THEN Absent
                     ELSE IF \E q \in Paths \ kept :
                               q # Base /\ Dir[q] = p /\ Exists(q)
                          THEN [tree[p] EXCEPT !.meta = @ \ {"times"}]
                          ELSE tree[p]]
    BY <1>4 DEF ClearFails
  <2>2. DOMAIN tree' = Paths
    BY <2>1
  <2>3. ASSUME NEW q \in Paths PROVE "kind" \in DOMAIN tree'[q]
    <3>1. \/ tree'[q] = Absent \/ tree'[q] = tree[q]
          \/ tree'[q] = [tree[q] EXCEPT !.meta = tree[q].meta \ {"times"}]
      BY <2>1
    <3>2. "kind" \in DOMAIN tree[q] /\ "kind" \in DOMAIN Absent
      BY DEF LoopInv, Kinded, Absent
    <3> QED BY <3>1, <3>2
  <2>4. pc' = "failed" /\ i' = i
    BY <1>4 DEF ClearFails
  <2> QED BY <2>2, <2>3, <2>4 DEF LoopInv, Kinded
<1>5. ASSUME EntryAccepted PROVE LoopInv'
  <2>1. AtEntry /\ UNCHANGED <<tree, pc>> /\ i' = i + 1 /\ Accepts(plan[i])
    BY <1>5 DEF EntryAccepted
  <2>2. tree[plan[i].path].kind = NodeKind(plan[i])
    BY <2>1 DEF Accepts, NodeKind
  <2>3. Kinded(tree')
    BY <2>1 DEF LoopInv
  <2> QED BY <1>1, <2>1, <2>2, <2>3, PassedOn
<1>6. ASSUME EntryCreated PROVE LoopInv'
  <2>1. /\ AtEntry /\ UNCHANGED pc /\ i' = i + 1 /\ CanCreate(plan[i])
        /\ tree' = WithNode(plan[i].path, Created(plan[i]))
    BY <1>6 DEF EntryCreated
  <2>2. /\ plan[i].path \in Paths /\ Kinded(tree)
        /\ plan[i].kind = "hardlink" => plan[i].target \in Paths
    BY <2>1, EntryAtHand
  <2>3. "kind" \in DOMAIN Created(plan[i]) /\ Created(plan[i]).kind = NodeKind(plan[i])
    <3>1. CASE plan[i].kind = "hardlink"
      <4>1. tree[plan[i].target].kind = "file" /\ "kind" \in DOMAIN tree[plan[i].target]
        BY <2>1, <2>2, <3>1 DEF CanCreate, Kinded
      <4>2. Created(plan[i]) = [tree[plan[i].target] EXCEPT !.by = run]
        BY <3>1 DEF Created
      <4> QED BY <3>1, <4>1, <4>2 DEF NodeKind
    <3>2. CASE plan[i].kind # "hardlink"
      <4>1. \E meta : Created(plan[i]) = Made(plan[i], TRUE, meta)
        BY <3>2 DEF Created
      <4> QED BY <4>1 DEF Made
    <3> QED BY <3>1, <3>2
  <2>4. /\ Kinded(tree') /\ tree'[plan[i].path].kind = NodeKind(plan[i])
        /\ \A q \in Paths \ {plan[i].path} : tree'[q].kind = tree[q].kind
    BY <2>1, <2>2, <2>3, NodeMade
  <2> QED BY <1>1, <2>1, <2>4, PassedOn
<1>7. ASSUME EntryFails PROVE LoopInv'
  <2>1. AtEntry /\ pc' = "failed" /\ i' = i
    BY <1>7 DEF EntryFails
  <2>2. PICK node \in Leftovers(plan[i]) :
          tree' = IF node = Absent THEN tree ELSE WithNode(plan[i].path, node)
    BY <1>7 DEF EntryFails
  <2>3. plan[i].path \in Paths /\ Kinded(tree)
    BY <2>1, EntryAtHand
  <2>4. "kind" \in DOMAIN node
    BY DEF Leftovers, Made, Absent
  <2>5. Kinded(WithNode(plan[i].path, node))
    BY <2>3, <2>4, NodeMade
  <2>6. tree' = tree \/ tree' = WithNode(plan[i].path, node)
    BY <2>2
  <2> QED BY <2>1, <2>3, <2>5, <2>6 DEF LoopInv
<1>8. ASSUME FinalizeDir \/ FinalizeFails PROVE LoopInv'
  <2>1. pc' \in {"finalize", "failed"} /\ i' \in {i, i - 1}
    BY <1>8 DEF FinalizeDir, FinalizeFails, AtFinalize
  <2>2. PICK meta : tree' = [tree EXCEPT ![plan[i].path].meta = meta]
    BY <1>8 DEF FinalizeDir, FinalizeFails
  <2>3. Kinded([tree EXCEPT ![plan[i].path].meta = meta])
    BY MetaSet DEF LoopInv
  <2> QED BY <2>1, <2>2, <2>3 DEF LoopInv
<1>9. ASSUME EntryFault \/ InspectFails \/ EntryRefused PROVE LoopInv'
  <2>1. UNCHANGED <<tree, i>> /\ pc' = "failed"
    BY <1>9 DEF EntryFault, Faults, InspectFails, EntryRefused
  <2> QED BY <2>1 DEF LoopInv
<1>10. ASSUME EntriesDone PROVE LoopInv'
  <2>1. UNCHANGED tree /\ pc' = "finalize" /\ i' = Len(plan) /\ plan \in Seq(Entry)
    BY <1>10 DEF EntriesDone, LastEntry, LoopInv, Orderly
  <2> QED BY <2>1 DEF LoopInv
<1>11. ASSUME FinalizeSkip \/ FinalizeFault \/ FinishRun PROVE LoopInv'
  <2>1. UNCHANGED tree /\ pc' \in {"finalize", "failed", "ok"} /\ i' \in {i, i - 1}
    BY <1>11 DEF FinalizeSkip, FinalizeFault, Faults, FinishRun, AtFinalize
  <2> QED BY <2>1 DEF LoopInv
<1> QED BY <1>3, <1>4, <1>5, <1>6, <1>7, <1>8, <1>9, <1>10, <1>11 DEF RunStep

-----------------------------------------------------------------------------
(* Theorems *)

(* The inductive invariant. *)
ManifestInv == HandInv /\ ReplayedInv /\ LoopInv

(* What does not touch the run leaves the loop as it is. *)
LEMMA LoopLeftAlone ==
  ASSUME LoopInv, UNCHANGED vars
  PROVE  LoopInv'
BY DEF LoopInv, vars, runVars, Passed, Kinded

(* What does not touch the manifest leaves it as it was. *)
LEMMA HandLeftAlone ==
  ASSUME HandInv, ReplayedInv, UNCHANGED <<manifestVars, plan>>
  PROVE  HandInv' /\ ReplayedInv'
<1>1. UNCHANGED <<manifest, phase, built, plan>>
  BY DEF manifestVars
<1> QED BY <1>1 DEF HandInv, ReplayedInv, BuiltHolds

(* It holds before a manifest is built or given. *)
LEMMA ManifestInvInit == ManifestInit => ManifestInv
<1> SUFFICES ASSUME ManifestInit PROVE ManifestInv
  OBVIOUS
<1>1. tree \in [Paths -> Node] /\ pc = "idle" /\ i = 0
  BY RunAssumption DEF ManifestInit, Init
<1>2. Kinded(tree)
  BY <1>1 DEF Kinded, Node
<1>3. manifest = NoManifest /\ phase = "none" /\ built = <<>>
  BY DEF ManifestInit
<1>4. IsManifest(NoManifest)
  BY DEF IsManifest, NoManifest
<1> QED BY <1>1, <1>2, <1>3, <1>4 DEF ManifestInv, HandInv, ReplayedInv, LoopInv, BuiltHolds

(* Every step of the caller and of the replay keeps it. *)
LEMMA ManifestInvStep == ManifestInv /\ [ManifestNext]_allVars => ManifestInv'
<1> SUFFICES ASSUME ManifestInv, [ManifestNext]_allVars PROVE ManifestInv'
  OBVIOUS
<1> USE DEF ManifestInv
<1>1. ASSUME NEW pl \in Plans, NEW m \in Modes, BuildScenarioManifest(pl, m)
      PROVE  ManifestInv'
  <2>1. UNCHANGED vars
    BY <1>1 DEF BuildScenarioManifest
  <2> QED BY <1>1, <2>1, BuildKeeps, LoopLeftAlone
<1>2. ASSUME NEW m \in Given, Give(m) PROVE ManifestInv'
  <2>1. UNCHANGED vars
    BY <1>2 DEF Give
  <2> QED BY <1>2, <2>1, GiveKeeps, LoopLeftAlone
<1>3. ASSUME TransferJSON \/ TransferYAML PROVE ManifestInv'
  <2>1. PICK m \in {Sealed(manifest), ThroughJSON(Sealed(manifest))} : Travels(m)
    BY <1>3 DEF TransferJSON, TransferYAML
  <2>2. UNCHANGED vars
    BY <2>1 DEF Travels
  <2> QED BY <2>1, <2>2, TravelsKeeps, LoopLeftAlone
<1>4. ASSUME ReplayRefused PROVE ManifestInv'
  <2>1. UNCHANGED vars
    BY <1>4 DEF ReplayRefused
  <2> QED BY <1>4, <2>1, ReplayRefusedKeeps, LoopLeftAlone
<1>5. ASSUME ApplyScenarioManifest PROVE ManifestInv'
  BY <1>5, ReplayKeeps, ReplayStartsLoop
<1>6. ASSUME RunStep, UNCHANGED manifestVars PROVE ManifestInv'
  <2>1. plan' = plan
    BY <1>6, RunStepKeepsPlan
  <2> QED BY <1>6, <2>1, RunStepKeepsLoop, HandLeftAlone
<1>7. ASSUME UNCHANGED allVars PROVE ManifestInv'
  <2>1. UNCHANGED vars /\ UNCHANGED <<manifestVars, plan>>
    BY <1>7 DEF allVars, vars, runVars
  <2> QED BY <2>1, LoopLeftAlone, HandLeftAlone
<1> QED BY <1>1, <1>2, <1>3, <1>4, <1>5, <1>6, <1>7 DEF ManifestNext

(* What is known of the manifest at hand and of its replay holds at every  *)
(* step of a caller who builds, exports, parses and replays manifests      *)
(* (BuildScenarioManifest, ApplyScenarioManifest, applyRunPlan).           *)
THEOREM ManifestInvHolds == ManifestSpec => []ManifestInv
BY ManifestInvInit, ManifestInvStep, PTL DEF ManifestSpec

(* What became of an entry of a plan on its way through a manifest. *)
LEMMA EntryThrough ==
  ASSUME NEW b \in Entry
  PROVE  LET e == scenarioManifestEntryFromPlannedEntry(b)
             p == plannedEntryFromScenarioManifestEntry(normalizeScenarioManifestEntry(e))
         IN  /\ p.kind = b.kind /\ p.path = b.path /\ p.target = b.target
             /\ b.kind = "symlink" => (p.via = "absolute" <=> b.via \in AbsoluteOrigins)
             /\ b.kind \notin Links => p.attrs = b.attrs
             /\ p.attrs \subseteq b.attrs
<1> DEFINE e == scenarioManifestEntryFromPlannedEntry(b)
           n == normalizeScenarioManifestEntry(e)
           p == plannedEntryFromScenarioManifestEntry(n)
<1>1. /\ e \in ManifestEntry /\ e.kind = b.kind /\ e.path = b.path /\ e.target = b.target
      /\ e.attrs = b.attrs /\ e.how = TargetType(b)
  BY DEF scenarioManifestEntryFromPlannedEntry, ManifestEntry, Entry, TargetType
<1> HIDE DEF e
<1>2. /\ n.kind = e.kind /\ n.path = e.path /\ n.target = e.target /\ n.how = e.how
      /\ n.attrs \subseteq e.attrs
      /\ e.kind \notin Links => n = e
  BY <1>1, EntryNormalized
<1> HIDE DEF n
<1>3. /\ p.kind = n.kind /\ p.path = n.path /\ p.target = n.target /\ p.attrs = n.attrs
      /\ n.how = "manifest-path" => p.via = "absolute"
      /\ n.how = "literal" => p.via = "relative"
  BY DEF plannedEntryFromScenarioManifestEntry
<1> HIDE DEF p
<1>4. b.kind = "symlink" => (p.via = "absolute" <=> b.via \in AbsoluteOrigins)
  BY <1>1, <1>2, <1>3 DEF TargetType
<1>5. /\ p.kind = b.kind /\ p.path = b.path /\ p.target = b.target
      /\ b.kind \notin Links => p.attrs = b.attrs
      /\ p.attrs \subseteq b.attrs
  BY <1>1, <1>2, <1>3
<1> QED BY <1>4, <1>5 DEF e, n, p

(* Replaying a manifest that was built applies the plan it was built from: *)
(* its entries in order, their targets in the form they had, and their     *)
(* metadata but for that of links, which normalizeScenarioManifestEntry    *)
(* drops.                                                                  *)
THEOREM ManifestRoundTrip == ManifestSpec => []RoundTrip
<1>1. ManifestInv => RoundTrip
  <2> SUFFICES ASSUME ManifestInv, phase = "replaying", built # <<>>
               PROVE  /\ Len(plan) = Len(built)
                      /\ \A k \in DOMAIN built :
                           LET p == plan[k]  b == built[k]
                           IN  /\ <<p.kind, p.path, p.target>> = <<b.kind, b.path, b.target>>
                               /\ b.kind = "symlink" =>
                                    (p.via = "absolute" <=> b.via \in AbsoluteOrigins)
                               /\ b.kind \notin Links => p.attrs = b.attrs
                               /\ p.attrs \subseteq b.attrs
    BY DEF RoundTrip
  <2> DEFINE es == manifest.entries
  <2>1. /\ built \in Plans /\ Normalized(manifest) = manifest /\ FromPlan(es, built)
        /\ plan = runPlanFromScenarioManifest(es) /\ IsManifest(manifest)
    BY DEF ManifestInv, HandInv, ReplayedInv
  <2>2. built \in Seq(Entry) /\ es \in Seq(ManifestEntry)
    BY <2>1, RunAssumption DEF WellFormedPlan, IsManifest
  <2> HIDE DEF es
  <2>3. /\ DOMAIN es = DOMAIN built /\ Len(es) = Len(built)
        /\ \A k \in DOMAIN built :
             es[k] = normalizeScenarioManifestEntry(scenarioManifestEntryFromPlannedEntry(built[k]))
    BY <2>1 DEF FromPlan
  <2>4. Len(plan) = Len(built)
    <3>1. plan = [k \in 1 .. Len(es) |-> plannedEntryFromScenarioManifestEntry(es[k])]
          /\ Len(es) \in Nat
      BY <2>1, <2>2 DEF runPlanFromScenarioManifest
    <3> QED BY <2>3, <3>1
  <2>5. ASSUME NEW k \in DOMAIN built
        PROVE  LET p == plan[k]  b == built[k]
               IN  /\ <<p.kind, p.path, p.target>> = <<b.kind, b.path, b.target>>
                   /\ b.kind = "symlink" =>
                        (p.via = "absolute" <=> b.via \in AbsoluteOrigins)
                   /\ b.kind \notin Links => p.attrs = b.attrs
                   /\ p.attrs \subseteq b.attrs
    <3>1. plan[k] = plannedEntryFromScenarioManifestEntry(es[k])
      BY <2>1, <2>3 DEF runPlanFromScenarioManifest
    <3>2. es[k] = normalizeScenarioManifestEntry(scenarioManifestEntryFromPlannedEntry(built[k]))
          /\ built[k] \in Entry
      BY <2>2, <2>3
    <3> QED BY <3>1, <3>2, EntryThrough
  <2> QED BY <2>4, <2>5
<1> QED BY <1>1, ManifestInvHolds, PTL

(* A manifest that BuildScenarioManifest returned is never refused by the  *)
(* checks or by the checksum of the replay, however often it is exported   *)
(* and parsed; parsing refuses it only if JSON could not carry one of its  *)
(* names; and a plan is refused for one of the six reasons only.           *)
THEOREM ManifestBuiltHolds == ManifestSpec => []BuiltHolds
<1>1. ManifestInv => BuiltHolds
  BY DEF ManifestInv, HandInv
<1> QED BY <1>1, ManifestInvHolds, PTL

(* Whatever manifest normalizeScenarioManifest accepts, the replay of it   *)
(* finds the directory of each entry, and can make each entry but a hard   *)
(* link that is listed before its source.                                  *)
THEOREM ManifestReplayInOrder == ManifestSpec => []ReplayInOrder
<1>1. ManifestInv => ReplayInOrder
  <2> SUFFICES ASSUME ManifestInv, AtEntry
               PROVE  /\ plan[i].path # Base => tree[Dir[plan[i].path]].kind = "dir"
                      /\ ~ CanCreate(plan[i]) =>
                           /\ plan[i].kind = "hardlink"
                           /\ \E k \in (i + 1) .. Len(plan) : plan[k].path = plan[i].target
    BY DEF ReplayInOrder
  <2>1. LoopInv
    BY DEF ManifestInv
  <2>2. i \in DOMAIN plan /\ i \in Nat /\ plan \in Seq(Entry) /\ Orderly(plan) /\ Passed(i)
    BY <2>1, EntryAtHand
  <2>3. Len(plan) \in Nat /\ DOMAIN plan = 1 .. Len(plan)
    BY <2>2
  <2>4. ASSUME plan[i].path # Base PROVE tree[Dir[plan[i].path]].kind = "dir"
    <3>1. PICK j \in 1 .. (i - 1) : plan[j].kind = "dir" /\ plan[j].path = Dir[plan[i].path]
      BY <2>2, <2>4 DEF Orderly, ParentsFirst
    <3>2. j \in DOMAIN plan /\ j < i
      BY <2>2, <2>3
    <3> QED BY <2>2, <3>1, <3>2 DEF Passed, NodeKind
  <2>5. ASSUME ~ CanCreate(plan[i])
        PROVE  /\ plan[i].kind = "hardlink"
               /\ \E k \in (i + 1) .. Len(plan) : plan[k].path = plan[i].target
    <3>1. plan[i].kind = "hardlink" /\ tree[plan[i].target].kind # "file"
      BY <2>4, <2>5 DEF CanCreate
    <3>2. PICK j \in DOMAIN plan \ {i} :
            plan[j].path = plan[i].target /\ plan[j].kind \in {"file", "hardlink"}
      BY <2>2, <3>1 DEF Orderly
    <3>3. ~ (j < i)
      BY <2>2, <3>1, <3>2 DEF Passed, NodeKind
    <3>4. j \in (i + 1) .. Len(plan)
      BY <2>2, <2>3, <3>3
    <3> QED BY <3>1, <3>2, <3>4
  <2> QED BY <2>4, <2>5
<1> QED BY <1>1, ManifestInvHolds, PTL

=============================================================================
