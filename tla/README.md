# A TLA+ model of randfiletree

`randfiletree` makes random file trees that are reproducible from a seed, mutates
them by streams of operations, injects faults at chosen steps, and sets up
filesystem scenarios (two devices, inode flags). It is a library without threads of
its own: what makes it hard is not interleaving but *failure half way*. Every
operation is a long sequence of system calls on a tree that outlives the call; each
of them may fail, an error may be injected before each of them, and the next call
starts from whatever was left behind. The model is about that.

File names below are relative to the repository root, `src/`.

## 1. Inventory

| Part | Source | State it keeps | Operations |
|---|---|---|---|
| Planner | `plan.go` (planRun), `links.go`, `special.go` | `planState`: reserved paths, files and symlinks so far, hard-link groups; the recursion of `planDir` | one planned entry at a time |
| Apply pipeline | `plan.go` (applyRunPlan), `runmode.go`, `special_linux.go` | the tree on disk, `createdDirs`, `applyStats` | clear, create or accept each entry, finalise directories |
| Metadata | `metadata*.go`, `xattr_linux.go` | attributes of inodes | chown, chmod, utimes, setxattr, ACL |
| Run orchestration | `generator.go` | the generator: its fields and random source | Run / RunWithMetrics |
| Fault injector | `faults.go`, `executor.go` | a counter and a flag per rule, fresh for each execution | `before` |
| Mutation engine | `mutate.go`, `operations.go` | the virtual tree (`mutationState`), the tree on disk | GenerateOperations, ApplyOperationsWithOptions |
| Scenario manifest | `manifest*.go` | the manifest and its checksum | build, normalise, seal, export/parse, replay |
| Cross-device scenario | `scenario_crossdev_linux.go`, `mount_linux.go` | the mount on the secondary root, the bind source | setup, Close |
| Filesystem features | `scenario_fsfeatures*.go` | inode flags and restore records | setup (probe, set), Close |
| Deterministic coverage | `coverage*.go` | the plan builder: entries, used paths, cell counter; the pairwise search; the base path it probes | plan only, run, run on behalf of a generator |
| Options and presets | `options.go`, `scenarios.go` | the generator, and the copy `Configure` works on | Configure, built-in scenarios |
| Content patterns | `content_patterns.go`, `coverage_content.go` | the bytes of a file being written | plan extents, write them in chunks |
| ACLs | `internal/aclxattr`, `metadata_linux.go` | the ACLs and the mode of an inode | resolve, mask, encode, set, read |
| Diff | `diff/` | the nodes collected so far; access times, which collecting moves | compare two trees |
| Other platforms | `*_other.go` | none | stubs |

How they interact: `RunWithMetrics` calls the planner, then the apply pipeline with
the finished plan; the pipeline asks the fault injector before each step.
`ApplyScenarioManifest` makes a plan from a manifest and hands it to the same
pipeline, and so does a coverage run with the plan it enumerates, in the generator's
place or in a generator of its own. `ApplyOperationsWithOptions` works on the tree with
its own fault context. `diff` is how callers, and the repository's tests, decide whether
two trees made from one seed are the same.
All of them share one thing only, the tree on disk, which by the package's
documentation belongs to the calling process while a call executes.

What makes each part correct:

* planner: whatever the generators return, the plan can be applied in order (parents
  first, hard links after their targets, no path twice), keeps to the limit, never
  drops an entry silently, and its links mean what their strategy says;
* apply pipeline: order suffices over any tree left behind; success means complete;
  replace is exact, strict adopts nothing, append touches nothing it did not make; the
  counters tell how far a failed run got; injected faults are exact;
* mutation: the generator's virtual tree predicts the disk after any prefix of the
  stream; given operations keep the disk a tree, and what an I/O error left half done can
  be resumed;
* manifest: what is replayed is the plan that was built, seals survive the journey where
  names do, and what passes the checks can be applied in order;
* scenarios: whatever step fails, the handle knows what is left to give back;
* deterministic coverage: every two values of two dimensions meet in the plan, the plan
  can be applied, asks for nothing the host lacks, and does not depend on earlier calls;
* options: a Configure shows as a whole or not at all, a run that passes the checks
  calls no generator that is not there, and no run changes the configuration;
* content and ACLs: the bytes on disk are the planned ones, the ACL entries in force
  the ones asked for;
* diff: the verdict is about what lay below the base paths when the call began.

The list of everything that is hard to test, with its line and the properties that
would catch it, is `hazards` in `PROJECT.json`.

## 2. Modules

| Module | Models | State and actions against the code |
|---|---|---|
| `PlanEntries` | the vocabulary of plans | `Entry` is `plannedEntry`; `WellFormedPlan` is what the pipeline relies on and the planner promises |
| `FaultInjector` | `faults.go`, `executor.go` | pure operators; `before` is `faultInjector.before`, its counters a value that the executors keep |
| `Planner` | `planRun` | `stack` holds the activation records of the recursive `planDir`; one action per way an iteration can go, error returns included |
| `ApplyPlan` | `applyRunPlan`, `applyPlannedEntry`, `applyMetadata` | `pc` is the place in the function (clear, entries, finalize); one action per outcome of one entry |
| `RunPipeline` | `RunWithMetrics` | composes `Planner` (EXTENDS) and `ApplyPlan` (INSTANCE): the plan applied is the one planned |
| `FileTree` | one operation, on the virtual tree and on disk | `applyVirtualOperation`, `applyOperation`, and what a failing call leaves (`Torn`) |
| `Mutation` | the two calls of the mutation engine | `Generate` plans operations against `history`, `ApplyStep` executes; `StartApply` is a call with `StartIndex` |
| `Manifest` | building, moving and replaying a manifest | EXTENDS `ApplyPlan`, whose run it starts with the plan it deserialises |
| `CrossDevice` | setup and Close of two-device scenarios | `mounts` is a stack on the secondary root; failures of every call |
| `FsFeatures` | setup and Close of inode-flag scenarios | `flagRestores` as in the code; failures of every call |
| `Pairwise` | `coveragePairwise` | one action per turn of its loops: `SeedCase`, `FillSlot`, `FinishCase` |
| `Options` | `Configure`, the options, the checks of a run, the scenario presets | `g` is the generator, `copy` the copy, `heap` what both point to; one action per option applied |
| `Coverage` | the deterministic coverage scenario and `RunWithMetrics` | EXTENDS `Pairwise`, `Options`, takes in `PlanEntries` for its own paths; `phase` is the place in the call, one action per probe, per cell and per outcome |
| `Content` | planned content and the writes of it | pure operators; a file is the sequence of its bytes, each known by its origin |
| `Acl` | ACL text, mask, canonical order, encoding | pure operators; an ACL is a function from tag and qualifier to permissions |
| `Diff` | the comparison of two trees | EXTENDS `Acl`, `Content`; one action per node collected, then `Compare` |
| `Parity` | an entry made on both sides, then compared | EXTENDS `Diff`; one action per write and per call of `applyMetadata` |
| `RunPipelineProofs` (with the proofs about `Planner`), `ApplyPlanProofs`, `MutationProofs`, `ManifestProofs`, `CoverageProofs`, `ParityProofs`, `CrossDeviceProofs`, `FsFeaturesProofs` | proofs | see section 5 |
| `MC*` | instances for TLC | paths, plans, trees, streams, settings, jobs and profiles |

Definitions keep the names of the code where it has one. Definitions that start with
the comment "Mutant:" are wrong on purpose: `PROJECT.json` says which definition each
of them replaces and which property must then fail, to show that the property can see
a plausible bug.

### What is abstracted

* *Data.* File content is "whole or not" for the pipeline and a length for mutations;
  `Parity` has the bytes. In the pipeline modes and owners are not values: an entry asks
  for an attribute or it does not, and a node carries it or it does not; `Parity` has
  the values. A coverage path is a sequence of numbers, the subtree, the cell and a salt: names of one cell
  differ because the eight digits derived from their salts do. A manifest's checksum is the payload it was taken
  over (SHA-256 as an injection). What a name is once it was written to JSON and read is a constant
  (`Reads`), as is which names are blank.
* *Randomness* is choice from a constant set. A draw of a name either finds a fresh one
  or all draws collide.
* *Paths* are opaque, with `Dir` for the parent, but in `Coverage`, which makes them; in `FileTree` a path is a sequence of
  names, and a name a pair of numbers (`Path`), the first of which is the counter that
  generated names carry. The base path is taken to be absolute.
* *Kernel behaviour* comes from how the code uses it: creating a child moves its
  directory's mtime, chmod rewrites the ACL mask, writing an ACL rewrites the permission
  bits, `os.Chmod` of a raw mode drops the three special bits, hard-linked names share
  an inode, an immutable file cannot be rewritten, an ACL of base entries only is kept as
  the mode, reading a file or a link moves its access time unless mounted `noatime`. These definitions are marked
  external in the map where they stand for no code of the repository.
* *Failures.* Every system call may fail; where a call can stop half way, every partial
  result is a successor (`Leftovers`, `ClearFails`, `Torn`). The one lookup whose failure the
  code swallows, that of an inode in `diff`, is swallowed in the model (`lost`).

## 3. Runs

| Run | Question | Result |
|---|---|---|
| `ApplyPlan` | up to three runs in any mix of plans, modes and fault profiles over every small pre-existing tree, with a failure at every call: is order enough, is success complete, is replace exact, does strict adopt nothing, does append leave others alone, do the counters and faults tell the truth, does every run return? | passes |
| `ApplySpecialBits` | are setuid, setgid and sticky applied, as the README says? | **violated** |
| `PlanStrategies` | all strategies or no strategy generator, hard links and special files, few names and a tight limit: well-formed plans, exact limit, dangling stays dangling, links resolve, nothing dropped? | passes |
| `RunPipeline` | planner and pipeline together, run twice, without a strategy generator: are the planned groups the inodes, do the links on disk lead where they were planned to? | passes |
| `Mutation` | all kinds of operations, links and special files in the baseline or not, generated and given streams (invalid ones too), fault profiles, failures, resumes: does the virtual tree equal the disk after every prefix where no link is involved, can an operation left half done be repeated, does every other refusal go back to a link or to a special file the scan left out, does the disk stay a tree? | passes |
| `MutationAliasing` | does a generated stream apply when a file has two names? | **violated** |
| `Manifest` | plans built and replayed, hand-written manifests in every order: same plan, seals hold but for names JSON cannot carry, order suffices but for a hard link before its source, builds refused only for six reasons? | passes |
| `ManifestDeep` | can a built manifest be replayed below an empty base path? | **violated** |
| `CrossDevice` | does a scenario know what is left to tear down, through failing and retried Closes? | passes |
| `FsFeatures` | are flags restored by a Close that returns nil, and by the deferred Close of a failing setup? | passes |
| `Coverage` | the search at the size the code has, and sequences of Configure, coverage runs and random runs over hosts, file systems and base paths: do the arrays cover, can the plan be applied, is it the same again, is the configuration kept and changed atomically, does no run call a missing generator, does every call return? | passes |
| `Parity` | every content pattern around the chunk boundaries, ACL texts, subsets of metadata, made on two sides with failures and compared; pairs of trees at base paths of every kind under all sets of options, with lookups that fail: bytes as planned, ACL in force, verdict exact, made twice compares equal? | passes |

The three violations are disagreements between the code and what its documentation or
tests say; `findings` in `PROJECT.json` quotes both sides:

* `os.Chmod(path, os.FileMode(mode))` ignores raw setuid, setgid and sticky bits
  (`metadata_linux.go:88`).
* The virtual tree keeps sizes per name, not per inode, so a generated stream over a
  hard-linked file may be refused half way (`mutate.go:889`).
* Replay looks up the parents of every entry before it creates anything, so a manifest
  with an entry below a subdirectory cannot be applied to a fresh path
  (`manifest.go:1167`). In append and replace mode it works where the directories
  happen to exist.

Two more facts the model shows, without a document that promises otherwise as clearly:
a cross-device setup that fails after mounting, and then fails to unmount, returns no
scenario, so that the mount has no owner; and the second Close of a filesystem-feature
scenario returns nil although a flag is still set, because restore records are dropped
also when restoring failed. `HandleOwns` and `FirstCloseRestores` say precisely what
does hold. Replay also loses the metadata of symlinks (`RoundTrip` excepts it), which
the coverage planner sets.

Met while modelling, and worth knowing:

* `BuildDeterministicCoverageSpec` "returns the spec ... without touching the
  filesystem" (`coverage.go:81`), but its probes make the base directory
  (`coverage_capabilities_linux.go:12`). That the directory is made is also what keeps
  the next call's plan the same: without it the first call would plan no extended
  attributes (the mutant of `SamePlanAgain`). Only a file at the base path changes the
  plan.
* `IncludePrivileged` without `IncludeLinuxOnly` enables nothing: every privileged
  capability is also Linux-only. A mode `RunModeAppend` in the coverage options cannot
  override another mode of the generator, since it is the zero value. The fault profile
  of `RunOptions` is not used by a coverage run.
* A coverage plan has dangling symlinks and stamped special files wherever it has these
  kinds, so `BuildScenarioManifest` refuses it.
* `scanMutationState` leaves special files out, so `planUniquePath` may draw a name that a
  pipe or a device has; the creation, or the rename to it, is then refused on disk
  (`Unseen`). The scan does not read the attributes of the base directory either: the
  virtual root starts without any (`Predicts`).
* A name that is not valid UTF-8, which `ByteNamePresetInvalidUTF8` (`vars.go:125`) offers, is
  read back from JSON as another one. `ParseScenarioManifestJSON` then refuses what
  `ExportScenarioManifestJSON` returned, with a checksum mismatch or because one path comes
  twice, though nothing was tampered with (`README.md:459`); YAML keeps such names.
  `BuiltHolds` says that this is the only way a built manifest fails to be parsed.
* `diff` does not follow a base path that is a symlink, and drops the node of a base path that
  is a file (`diff/collect.go:46`): two such paths compare as equal whatever they hold. When
  the lookup of an inode fails, the file is left out of its hard-link group without an error
  (`diff/collect.go:72`). `VerdictExact` says what the verdict is worth in these cases.
* A repeated block starts anew with every chunk of 64 KiB, so content whose block does
  not divide the chunk is not periodic. `PromisedByte` says so.
* `diff` compares access times of directories that its own walk has just moved, and
  those of a file with two names after the first was hashed (`Blurred`). The base
  directory itself is not compared. With `CompareACLs` a symlink makes the call fail,
  since the kernel has no ACL for it.
* ACL texts of a generator reach `resolveACLEntries` sorted, so of two texts for one
  user the lexicographically greater one counts, not the later one.

### Bounds

* Trees have four to ten paths and two levels. Two levels are what parent/child order,
  symlinked parents and partial removal need; a third repeats the same relation between
  a directory and its entries. The pre-existing trees are *all* trees of the given kinds.
* `MaxRuns = 3`: a run can fail, be followed by one that meets its leftovers, and that
  one by a third. Two runs in `RunPipeline` and `Manifest`.
* `EntryLimit` 4 or 6 with directory and file counts up to 3: plans end on the limit in
  every kind of entry, and names run out because directories have one to five.
* `MaxDataSize = 2` in `Mutation`: data that an I/O error can cut in the middle.
* `Count` 2 or 3 operations: a contradiction between virtual and real tree needs two
  operations to show (one that makes it, one that uses it), three with a rename between.
  Three operations of every kind but links are drawn over the plain tree; over the tree whose names
  collide with drawn ones (`DrawnTree`), of the kinds that draw names.
  `MaxCalls` 2: one call that stops, one that resumes. One baseline has pipes under the
  names the generator draws (`PipeTree`).
* `Retries` 1 or 2 instead of the code's 128 draws: enough for "collide, then
  succeed" and "exhausted".
* `MaxSetups`, `MaxFailures` 3, `MaxCloses` 2: a leaked mount or flag meets a later setup,
  Close fails in each part and is retried.
* `Coverage` takes one setting with the code's own dimensions (6 modes, 5 contents, 7
  sizes, 9 names, 4 metadata classes) at the lowest effort; the others have two values
  for the large dimensions and all values where they differ in kind (strategies, special
  types). `MaxCalls` and `MaxConfigs` 2: what a call leaves is met by another. The medium
  effort stands for repetition; more repetitions only repeat.
* `Parity` has chunks of 4 bytes instead of 64 KiB and segments of up to 6 instead of
  1 MiB, with sizes 0, below, at and above one chunk and three chunks; disk blocks of 2
  bytes; three names, which have every partition into inodes.

No symmetry is used. Deadlock checking is off in all runs, because the library may be
left alone: after the last allowed call nothing has to happen.

### Fairness

`ApplyPlan` and `Mutation` state weak fairness of the steps of a call that has begun
(`RunStep`, `Generate`, `ApplyStep`), never of starting one: a Go call
keeps executing until it returns, and no step waits for anybody else. Weak fairness
suffices because the disjunction of the steps of a call stays enabled until it returns.
`Coverage` states the same of the steps of a call or a Configure (`CallStep`).
`CrossDevice` adds weak fairness of `CallClose`, which is the caller's part of the
contract in the README (call Close, retry on error); failures are bounded by
`MaxFailures`, since no program can outlast an unmount that always fails.
`Planner`, `FsFeatures`, `RunPipeline`, `Manifest` and `Parity` state no fairness and no
liveness; of a planner whose loops run over drawn counts and whose retries are abstracted
to "collide or not" it would say nothing.

## 4. Properties

The runs check properties about several steps; that the variables keep their types is
proved (section 5): as `TypeOK` of `Planner`, `CrossDevice`, `ApplyPlan` and `FsFeatures`,
as part of `MutationInv` for `Mutation`. The comments above them name the code they are about.
The ones a reader should know:

* `OrderSuffices` / `ReplayInOrder`: when an entry's turn comes its directory is a real
  directory, so no write goes through a symlink that an earlier run or another program
  left.
* `OkMeansComplete`: success means exactly the planned metadata, which needs the two
  passes, their direction and the order of the calls of `applyMetadata`.
* `OthersKept`, `FreshRunsExact`: what each run mode promises about leftovers.
* `PlanWellFormed`, `DanglingStays`, and on disk `LinksAsPlanned`, of strict and replace runs: an
  append run may find a file of its own inode where it planned a link.
* `StreamTracksTree`: names and kinds always, sizes and attributes where no links are
  involved; and `RefusedForLinks`, which says what may be refused all the same.
* `HalfDoneRepeats`: what the caller may count on who resumes at the operation that failed
  (`StartIndex`): it is accepted again, unless it makes a file, whatever the stream and
  the error left. What the repetition leaves is part of `StreamTracksTree`: an append
  writes some data twice, everything else is as if nothing had failed.
* `TreeWellFormed`: what `applyOperation` keeps of a tree whatever it is given, also when it
  fails half way.
* `BuiltHolds`: what may go wrong with a manifest that was built, and what with the plan it
  is built from, and nothing else.
* `HandleOwns`, `FlagsLeftOnlyByFailure`: the resources of the scenarios.
* `PairsCovered` of the search, and `PairsPlanned` of the plan that is made from it: the
  second would also see a case misread, a value gated away or a repetition lost.
* `SamePlanAgain`: the determinism contract of `RunDeterministicCoverage`, over calls
  that leave a base path behind.
* `ConfigureAtomic`, `ConfigurationKept`: what the generator amounts to, the objects it
  points to included, changes by a Configure that succeeds and by nothing else.
* `WrittenAsPlanned`, `AclInForce`, `VerdictExact`: loops and encodings against a
  definition without them.

## 5. Proofs

The first part of `RunPipelineProofs` is about the planner. It proves for every set of paths, every limit and every choice of
generators, from `PathAssumption` and `PlannerAssumption` alone:

* `PlannerTypeOK`: `Spec => []TypeOK`;
* `PlannerWellFormed`: `Spec => []PlanWellFormed`, which is the assumption `ApplyPlan`
  makes of its plans (`RunAssumption`);
* `PlannerKeepsLimit`: `Spec => []LimitExact`;
* `PlannerDanglingStays`: `Spec => []DanglingStays`;
* `PlannerSymlinksResolve`: `Spec => []SymlinksResolve`;
* `PlannerNeverUnderGenerates`: `Spec => []NeverUnderGenerates`.

None of these is inductive. That a new entry's parent is planned needs to know that
every frame of the recursion stands for a planned directory, except the innermost, whose
path may be reserved and not yet planned (`FramesSound`, `Entering`). That its path is
fresh needs that all planned paths are reserved. That a dangling target stays absent
needs that it is reserved, unplanned, and is not the path of the directory just being
entered. That a hard link's target is planned needs that `filePaths` holds planned
regular files only. Together these are

    PlannerInv == TypeOK /\ Base \in used /\ Sound(entries, used, filePaths)
                  /\ (outcome = "planning" => FramesSound(stack, entries, used))
                  /\ LimitExact

The central lemma is `AddEntry`: a sound plan stays sound when an entry is appended that
meets four conditions; `PlannerInvNext` shows, action by action, that every action meets
them. Actions that append two entries (a cycle, a file with its symlink) use it twice.

The last two theorems need three more invariants. `LinksInv`: every symlink planned so
far resolves, and the places a later link may point to are planned. `CountInv`: only the
innermost frame is still planning files, and for each directory what was drawn is at most
what it holds and what its loop has still to plan. `GroupInv`: hard-link groups and the
group of a path say the same, and each leads to a file of the plan. `PlanInv` is all of
them together.

`ApplyPlanProofs` proves from `PathAssumption` and `RunAssumption` (plans are well-formed,
profiles are lists of rules, the trees found are typed and made by no run), for any plan,
tree, profile and number of runs: `ApplyOrderSuffices`, `ApplyOkMeansComplete`,
`ApplyFreshRunsExact`, `ApplyAppliedPrefix`, the action property `ApplyOthersKept`, and
`ApplyFaultsExact`. The invariant `ApplyInv` is that of two loops. The first has put the
prefix that `stats.applied` counts in place (`PrefixInPlace`) and has made nothing behind
it (`MakersKnown`); since the plan is well-formed, the directory of the next entry and the
target of a hard link are in the prefix. A new child moves the times of its directory, so
that a directory has its metadata only behind the second loop (`SuffixFinalized`). In
replace mode the prefix is all there is (`OnlyPrefixExists`). `FaultsExact` has an
invariant of its own, `FaultInv`: the counters of the injector are the numbers of hooks
passed that match (`MatchesGrow`), so a rule fires at its Nth match and not at another.

The second part of `RunPipelineProofs` composes the two: `PipelineLinksAsPlanned`
(`PipelineSpec => []LinksAsPlanned`) and `PipelineOrderSuffices`. It takes the lemmas of
`ApplyPlanProofs` by `INSTANCE` for the variables of the pipeline; `ApplyAssumptionsHold`
shows from `PipelineAssumption` that what they assume holds there. The plans that
`ApplyPlan` may start by itself are none, since the plan comes from the planner, and that
it is well-formed is `PlannerWellFormed`, not an assumption. The invariant `PipelineInv`
is `PlanInv`, `ApplyInv`, that the plan being applied is the finished plan, and that names
of one planned group share an inode (`InodesRooted`).

`MutationProofs` proves from `MutationAssumption` (baselines are finite trees, streams are
lists of typed operations, at least one retry), for any job, any names and sizes and any
number of calls:

* `MutationTreeWellFormed`: `Spec => []TreeWellFormed`;
* `MutationNeverContradicts`: `Spec => []NeverContradicts`;
* `MutationHalfDoneRepeats`: `Spec => []HalfDoneRepeats`;
* `MutationStreamTracksTree`: `Spec => []StreamTracksTree`;
* `MutationRefusedForLinks`: `Spec => []RefusedForLinks`.

The first two follow from `MutationInv`: the disk is a tree of typed nodes on finitely
many paths (`IsDisk`; finitely many, so that a new file finds an inode of its own), and
the virtual trees and the operations planned so far are typed. That a planned operation
passes the virtual checks needs that virtual trees are trees (`Shaped`): the planner only
looks at the parent. A rename is the hard case; `MovedFacts`, `MovedBack` and
`MoveRelocates` show that no two paths of the subtree it moves get one name and that
their parents move with them.

The other three need `TracksInv`, which has four parts. `Chain`: `history` is what
`applyVirtualOperation` makes of the scan, step by step, from operations that fit the tree
before them. `Half`: what is left half done lies behind and is no creation of a file, or it
is the next operation and can be repeated. `Barred`: a refused call stands at an operation
that the disk does not accept. `Synced` has two cases: the disk is in step (`InStep`) with
`history[next]`; or the next operation is half done, and the disk will be in step with
`history[next + 1]` once it has been repeated. That repeating ends where the operation would
have ended at once, but for an append, is the lemma `TornRepeats`; `Grown` says that an append was
repeated, and sizes on disk may then be larger.

To be in step is to have the same names and kinds, and for a file with one name the same size
and attributes (`SoleExact`). The second part is not kept by everything: deleting one of two
names makes the other the only one, with a size the virtual tree never learnt of, so it is
claimed in a job without links or before the first `delete` and `create-hardlink`
(`NoLinkOps`). That is why `RefusedForLinks` speaks of these two.

`ManifestProofs` proves from `RunAssumption` and `ManifestAssumption` (given manifests are
typed, the symlinks of a plan have targets, those that must resolve planned ones, and the two
facts about `Reads` below), for
any plans, any manifests a caller writes by hand, any trees and any number of transfers and
replays:

* `ManifestRoundTrip`: `ManifestSpec => []RoundTrip`;
* `ManifestBuiltHolds`: `ManifestSpec => []BuiltHolds`;
* `ManifestReplayInOrder`: `ManifestSpec => []ReplayInOrder`.

`ManifestInv` has three parts. `HandInv`: a built manifest is normal, passes the checks and
bears the seal that verifying computes, and its entries are those of the plan; this rests
on normalising being idempotent (`NormalizedTwice`) and on the seal leaving the checksum
out. That a manifest whose names change on the way through JSON is never taken for the one
that was exported is `ChangedFails`: the text of an invalid name differs from that of the
name it is read as (`TextTells`), and so do the checksums. Of the library this needs what
`ManifestAssumption` says of `Reads`: reading twice changes nothing more, and the directory
of a path is read as the directory of what is read. `ReplayedInv`: the plan of a
replay is what the manifest at hand says. `LoopInv`: that plan is as orderly as the checks can tell (`Orderly`: less than well-formed, since a hard
link may be listed before its source), and what the loop has passed is on disk with its
kind. `ApplyInv` cannot be used here, since it starts from well-formed plans.

`CoverageProofs` has seven parts. The first is about the search alone, for any number and
any sizes of dimensions, empty ones and repeated calls included, without an assumption:

* `PairsCoveredTheorem`: `PairSpec => []PairsCovered`;
* `CasesEarnTheirPlaceTheorem`: `PairSpec => []CasesEarnTheirPlace`, from which it also
  follows that there are never more cases than pairs.

`PairsCovered` speaks of the end of a call; the invariant `PairInv` says during it that a
pair is in some case or still uncovered, and `CasesEarnTheirPlace` needs to know that the
case being built still holds an uncovered pair. The search picks by `CHOOSE` (the first
pair, the next slot, the best value), so the lemmas `FirstExists`, `NextSlotIsUnset` and
`BestValueInRange` show that what is picked exists: a least element of a set of natural
numbers, a greatest gain over a finite range.

The second is about the configuration, for any host, options and number of calls, again
without an assumption:

* `CoverageConfigureAtomic`: `CoverageSpec => ConfigureAtomic`;
* `CoverageConfigurationKept`: `CoverageSpec => []ConfigurationKept`;
* `CoverageNoNilCall`: `CoverageSpec => []NoNilCall`.

`CoverageInv` says that the generator and the copy point into the heap, that a Configure
and a call exclude each other, and that during a run what `runCoverage` has kept gives the
configuration back (`Recoverable`). Atomicity is then the lemma `EffectFacts`: an option
leaves every object that was on the heap as it was, so what the generator points to is
unchanged even where the copy now points elsewhere.

The others need `CoverageAssumption`: the values of the dimensions are lists of whatever
length but zero, a hard-link group has two names or more, the variants of extended
attributes of the user are not those of the privileged namespaces, requests and options
have their fields, and at the base path is nothing, a directory or a file. The third and the
fourth part:

* `CoverageImplementsPairwise`: `CoverageSpec => PairSpec`. The enumerators call the search
  with lists of sizes and leave it alone while it runs, whatever is gated away; so
  `CoveragePairsCovered` and `CoverageCasesEarnTheirPlace` hold of coverage calls;
* `CoverageNeedsOnlyResolved`: `CoverageSpec => []NeedsOnlyResolved`.

The last needs `NeedsInv`: what is asked for is typed, through Configure and the calls
(`AskedInv`); the flags of the call are the normalised ones (`FlagsInv`: `Inherit` may change
mode and limit only); the enabled capabilities are the resolved ones and back every entry
so far (`PlanInv`); the cells are those of a subtree that is not gated out, of the sizes the
search was given (`CellsInv`). A cell takes its values by index from lists of which some
are gated, so that it is backed (`CellBacked`) needs that the cases are in range, which is
`PairInv` again.

The last three parts are about whole plans:

* `CoverageWellFormedHolds`: `CoverageSpec => []CoverageWellFormed`. What the enumerators
  append at once is a *block*: an entry whose path is new, then entries in it
  (`CellBlock`, `RootBlock`), and a block may be appended to a sound plan (`BlockJoins`).
  That its path is new is `BehindInv`: the numbers in the names only grow, the wrappers' with
  `nextCell` and those of special files, which have no wrapper, with the case and the
  repetition, so every planned path lies behind the block that is next. `EndInv` adds that
  a collision, the one error the enumeration can end in, never occurs.
* `CoveragePairsPlanned`: `CoverageSpec => []PairsPlanned`. `RepeatedInv` counts the cells of the
  subtree under way: those of a case follow each other, so each case gone through has as
  many as the effort asks and the present one as many as its repetition says. At the end of the
  subtree part one says that the cases hold every pair, which `ShownInv` keeps to the end of
  the plan; that different numbers are different cells is `CellsCount`.
* `CoverageSamePlanAgain`: `CoverageSpec => []SamePlanAgain`. Two calls have to be compared of
  which the first is over. `Succ` is the enumeration as a function of its state, written with
  the operators of `Coverage` and `Pairwise` at any state instead of the present one (parametric
  instances, `Builder` and `Search`). `OnTheWay` says that the state of the call under way is
  reached by `Succ` from a start that host, flags and effort determine, `LoggedInv` the same of
  every plan that is kept, and `LeadsToOne` that such a way has one end. `ProbedInv` is where
  history could get in: what the probes find must not depend on what earlier calls left at
  the base path.

`ParityProofs` proves from `ContentAssumption`, `DiffAssumption` and `JobsAssumption` (recipes hold
contents as the planners make them, texts of ACL entries and values of their kind, and trees
have inodes of their kind), for every length of content, chunk, block and segment, every number
of names, any ACL text, any trees and any options:

* `ParityWrittenAsPlanned`: `Spec => []WrittenAsPlanned`;
* `ParityAclInForce`: `Spec => []AclInForce`;
* `ParityVerdictExact`: `Spec => []VerdictExact`;
* `ParityMadeTwiceIsEqual`: `Spec => []MadeTwiceIsEqual`.

Its four parts follow an entry from the plan to the verdict. *Bytes*: `PlannedShape` and
`CoverageShape` show that both planners make contents of the shape `IsPlanned` that
`JobsAssumption` asks of a recipe; `Writing` is the invariant of the write loops: a byte is that
of the last call so far that covers its offset, or a hole. *ACLs*: the place of an entry in the
encoding is its rank, the number of entries before it in the canonical order, so parsing takes
encoding back (`ParseMarshal`), also where the kernel keeps a mode instead (`KeptInForce`);
`ResolveAsAsked` shows that the last entry for a key wins and that a derived mask takes nothing
away. *The walk*: `SideOk` says of each side that what lies below its base path is
still what lay there when the call began, but for access times, that what was noted of the names
passed is what they were then, and that the groups are their hard links but for the names whose
lookup failed (`lost`); from two finished sides `ComparisonExact` gives the verdict.
*Making*: `Stage` says what every attribute is at each step of `applyMetadata`. At the last step
nothing is left that depends on the time of writing (`MadeTree`), so two trees made from one
recipe are the same (`AsMade`).

`FsFeaturesProofs` proves from `FsFeaturesAssumption`, for any number of setups and closes,
`FeaturesFirstCloseRestores` and `FeaturesFlagsLeftOnlyByFailure`. The restore records are
all that Close knows, so `FeaturesInv` says that they hold the flags from before setup
(`RecordsTrue`), that a flag is on a file with a record or on one given up for lost
(`NoFlagUnrecorded`), and that an open scenario lacks no record (`AllRecorded`).

`CrossDeviceProofs` proves for any devices, any number of bind sources and any bound on
setups and failures, from `CrossDeviceAssumption` alone:

* `CrossDeviceTypeOK`: `Spec => []TypeOK`;
* `ScenarioOwnsItsMount`: `Spec => []HandleOwns`.

`HandleOwns` is not inductive either: `Unmount` takes whatever is topmost, so that it
takes the scenario's own mount needs that this mount is the topmost one (`TopBy`), that no
mount is ascribed to a later setup, and that nothing is mounted yet at the two places
setup mounts from. `CrossDeviceInv` adds these; `CloseFacts` shows that `Close` keeps
them whichever of its two parts fails.

Only model-checked:

* liveness (`RunReturns`, `CloseEnds`, `CallReturns`), which needs fairness
  and `ENABLED`.

The other properties that passing runs check are proved, each by the theorem that `theorems` in
`PROJECT.json` lists for it. What stays with TLC beside liveness are the three violations, and
that the assumptions on constants hold of the instances.

Writing the proofs changed the model in several places. Some `CASE` expressions had guards
that overlap, of which TLC takes the first and the logic may take any: they are now
disjoint. `StreamTracksTree` did not hold when the base directory has attributes, and
`RefusedForLinks` not when a special file has a name that is drawn; no baseline of the run
had had either, and now some have. The gated lists of `Coverage` (`SpecialTypes`,
`XAttrVariants`) are joined of gated values, as the code appends them, where they had been
filtered with `SelectSeq`, which the provers do not know. The paths of `Coverage` are sequences
of numbers instead of a finite constant, so that there are paths for any number of cells. The
encoding of an ACL and the record lists are given by the rank of a record instead of by
sorting and recursion. What jobs may hold is stated (`JobsAssumption`), and that coverage
dimensions are not empty and that hard-link groups have two names or more (the tables in
`coverage_enumerator.go` say so; without the second, a group of one name is registered that
no link of the plan stands for).

## 6. Not modelled

* The stubs for *other platforms*; their answer "unsupported" is an outcome in `Diff` and
  `Coverage`.
* *Data expansion*: the byte values behind seeds, the names behind name classes, the
  distributions of the generators, the tables of modes and times of the coverage
  scenario, the syntax of an ACL text and the byte layout of its encoding, JSON and YAML but
  for what they do to a name that is not valid UTF-8 (`Reads`).
* *Diff*: comparators given by the caller, which are arbitrary code, and the escaping of
  paths for display.
* Permission checks of the kernel and the caller's privileges; concurrent changes of the
  tree by others (excluded by the documented ownership rule); relative base paths;
  operation streams inside manifests (executed by the mutation engine as modelled).

## 7. Plan

Done: the planner, the pipeline, faults and their composition, the mutation engine,
manifests and the two scenarios; deterministic coverage, options, content, ACLs and
diff; proofs of every safety property that a passing run checks. Next:

1. An abstract specification of a run ("a tree goes from one state to its plan, or stops
   at a prefix of it") and `ApplyPlan` as its refinement.
2. The parts of manifests and options that are only partly modelled: operation streams inside
   a manifest as a call of the mutation engine, and the generators behind the options.
