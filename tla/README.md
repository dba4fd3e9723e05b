# A verification development for linguistic-core

`linguistic-core` compiles a vocabulary of predicates and roles from a donor
database and three linguistic sources (PropBank, FrameNet, SUMO), publishes it as
versioned packs, and keeps beside the packs the evidence that says how far each
mapping to a source can be trusted.  Nothing in it is a server: it is a set of
command line programs that read files, call language models, and write new files
next to the old ones.  What can go wrong is therefore in the files: a program
that dies half way, two programs that share a directory, a file read twice that
changed in between, a file written by one version of the inputs and used with
another.  This directory models those programs in TLA+, checks them with TLC and
proves about them with TLAPS.

Paths below are relative to the repository root; `L/` is `src/linguistic_core/`.

## The system

| component | state it keeps | operations | hard behaviour |
|---|---|---|---|
| crosswalk (`L/linguistic_crosswalk_v1.py`, `scripts/compile_linguistic_crosswalk.py`) | immutable crosswalk files: one record per donor mapping row, review records on top | compile, append SUMO reviews, append donor reviews | validators refuse a population; exclusive creation of the output |
| donor mapping review (`L/linguistic_donor_review_v1.py`, `scripts/run_linguistic_crosswalk_independent_review.py`) | checkpoint file, failures log, crosswalk files | select, two passes per row, reconcile, append to the checkpoint, write a new crosswalk | concurrent runs, crashes, half-written lines, failing calls, resumption, stale reads |
| crosswalk coverage (`L/linguistic_crosswalk_coverage_v1.py`) | none | report the states and the source identities of a crosswalk | equations over populations that grew a new state |
| core pack compiler (`scripts/compile_linguistic_core_pack.py`) | pack directories, a stage directory per build | read the donor, stage, hash, validate, rename | two builders, crash before the rename, the donor replaced between reads |
| relations slice compiler (`scripts/compile_linguistic_core_relations_slice.py`) | packs that extend packs | collect the identities of all ancestors, emit what is new | redeclared identities, widening module dispositions |
| runtime view (`L/linguistic_runtime_view_v1.py`) | a pack directory | stage, validate, rename | one check only |
| semantic provenance, role slots (`L/semantic_provenance.py`, `L/role_slots_lookup.py`) | caches of digests and rows | digest the donor, trace rows to donor fields | stale caches |
| semantic construction (`L/semantic_construction_v1.py`) | none (reads packs) | load an exact closure, license or reject a mapping | closure read in two walks |
| SUMO review (`L/sumo_crosswalk_review_v1.py`, `L/sumo_governed_crosswalk_v1.py`) | run directory with one trace, review batch, governed crosswalk | queue, one model call without retry, verify, bind a review, replay it | crash between directory and trace, files changed between binding and replay |
| linguistic bundle (`L/linguistic_bundle_v1.py`) | none (reads a pack and its trace adjunct) | build a trace manifest, inspect | hashed and parsed in two reads, files replaced one at a time |
| FrameNet projection (`L/framenet_projection_v1.py`, `scripts/compile_framenet_projection.py`) | a projection and a trace manifest, replaced together | verify, parse, validate, publish two files with backup and rollback | failures, interrupts and kills between renames |
| SUMO pipeline (`L/sumo_projection_v1.py`, `L/sumo_publication_v1.py`, `L/sumo_crosswalk_audit_v1.py` and their scripts) | projection, audit, publication review, context, notice | read a checkout, search hierarchies, classify donor rows, publish | checkout and donor read two and three times |
| consumers (`L/consumer_profile_v1.py`, `L/consumer_projection_v1.py`, `L/lineage_inspector.py`) | receipts | project a pack for a consumer | silent loss |
| PropBank projection, coverage and inventory reports, quality harness | output files | parse, count, recompute | none beyond the output file |

The components meet in files.  The crosswalk compiler reads the mappings the pack
compiler wrote and the governed SUMO crosswalk; the review runs read a crosswalk
and write another; coverage and the runtime view read a crosswalk; the slice
compiler, the construction loader and the bundle read packs.  There are no locks:
what keeps two programs apart is the exclusive creation of a file, the rename of
a directory, and digests recomputed by the reader.

What makes each part correct, in a line: a crosswalk never promotes a mapping
that two different models did not support, and never rewrites the donor's rows; a
finished artifact never changes; work that was saved is neither lost nor done
twice; a pack is published whole or not at all and never declares what an
ancestor owns; a model call is paid for once and its answer is what the governed
crosswalk says; a published SUMO context follows from the one approved module; a
reader that accepts a file accepts one state of it.

## Modules

| module | what it is |
|---|---|
| `Crosswalk` | operators on crosswalks: records, the record validator (`NonPromotional`), the population validator (`Closed`), compile and the two appends, the selection of reviewable rows, the coverage equation |
| `DonorReview` | the state machine of compilers and review runs over shared files |
| `ReviewLedger` | the abstract specification of the review: outcomes decided once, publications made once |
| `MCDonorReview` | instances for TLC |
| `DonorReviewProofs`, `LedgerProofs` | lemmas on the operators, the invariants; what crosswalks are made of and the refinement of the ledger |
| `Packs` | operators on packs: donor tables, what the three compilers put in a pack, the validator of a pack with provenance, lineages and what they own |
| `PackPublish` | the state machine of the three compilers over one directory of packs and one donor file |
| `PackCatalogue` | the abstract specification of the directory: a version is published once, whole, on a version that is there |
| `MCPackPublish` | instances for TLC |
| `PackPublishProofs` | lemmas and theorems about them |
| `SemanticReview` | operators of the SUMO review: queue, schema of the answer, traces and their validator, verification, replay, governed records |
| `SumoGovernance` | the state machine of its four programs over one directory |
| `SumoLedger` | the abstract specification: a root is asked once, a crosswalk says what was answered and reviewed |
| `MCSumoGovernance`; `SumoGovernanceProofs`, `SumoLedgerProofs` | the instance for TLC; the invariants; the refinement of the ledger |
| `FrameNet` | operators of the FrameNet compiler: agreement of the archive's members, the projection, its validator |
| `TraceBundle` | the state machine of a publisher, an installer and inspections over the files of a pack and its adjunct; extends `FrameNet` |
| `MCTraceBundle`, `TraceBundleProofs` | the instance for TLC; lemmas and theorems |
| `SumoSource` | operators on KIF modules: axioms, hierarchies, constraints, the bounded context, the audit's classification |
| `SumoPipeline` | the state machine of the three SUMO commands over a checkout and a donor of others; extends `SumoSource` |
| `MCSumoPipeline`; `SumoSourceProofs`, `SumoPipelineProofs` | the instance for TLC; lemmas on the searches and the constraints; theorems |

Definitions that no specification uses are plausible mistakes in the definition that
follows them, and their comments say which: with one of them in its place, the property
it is meant for is violated.

### Crosswalk

A crosswalk is a record of its `base` (the version of the mapping file it was
compiled from) and its set of records.  The source's record identifier is a hash
of five fields; here it is the pair of the source key and the row or SUMO case the
record is about, which those fields determine.  `Construct` is the constructor of
the frozen model: it runs both validators and yields `Refused` where the source
raises.  Records to be added come as a function, so that the same record listed
twice is the duplicate the source refuses.  Counts and digest of a population are
functions of the population; the equations the source checks about them when it
builds a crosswalk hold because it computes them there, and are left out.  The
equation of the *coverage report* is kept (`CoverageReconciles`), since it is not
computed from the same states.

### DonorReview

| variable | in the code |
|---|---|
| `artifacts[n]` | the file at path `n`: absent, created and being filled (`Partial`), or a finished crosswalk |
| `checkpoint` | the lines of the `--checkpoint` file; `Partial` is half a line at its end, `Garbage` the one unparsable line it becomes when the next append runs into it |
| `failed` | the failures log |
| `run[p]` | the local variables of the invocation `p`: idle with the reason the last one ended, reviewing (crosswalk, rows left, passes made of the first of them), or filling an output |
| `supports` | history only: which model has supported which row |
| `hiccups`, `crashes` | bounds |

| action | code |
|---|---|
| `Compile`, `CompileRefused` | `compile_linguistic_crosswalk.py` `main` up to the exclusive open, and its two refusals |
| `Start`, `StartRefused` | the review program up to the loop: crosswalk, checkpoint and selection read once |
| `ReviewPass` | one model call of `run_two_pass_review_row_v1` |
| `ReviewFails` | any exception of a row: equal models, a call that fails; the row is logged and left |
| `AppendCheckpoint` | reconcile and `append_checkpoint_row_v1` |
| `Finish`, `OpenOutput`, `FinishRefused` | the second load of the checkpoint and the append to the crosswalk |
| `CloseOutput` | the bytes of the output are complete (also of the compiler's) |
| `Crash` | the process ends between two steps or inside an append |

A step is what one program does between two points where another can act or a
crash can fall: a model call, a write, the exclusive open, the close.  Reading the
crosswalk and the checkpoint at the start is one step: between the two reads a
crosswalk file cannot change (`ArtifactsImmutable`) and the checkpoint is only
read once there.  The second load and the exclusive open are one step: an append
by another run in between would give a state in which the load was made a little
earlier, and another program creating the output in between is the refusal that
the action's guard gives.

Abstractions to know of.  A crash inside an append may also leave a whole line
without its newline, which the next append would turn into one unparsable line;
in the model that is a torn line from the start.  A run whose output path does not
exist yet, whose input does not exist, or whose arguments do not parse changes no
file and is left out, and `--limit` is a natural number (a negative one slices from
the end in Python).  A candidate row lacking a description aborts the selection
even when it is checkpointed, as in the code.

### Packs

A pack is a record with a field per file that the properties tell apart: the
predicates, roles, entity types, hierarchy edges, role edges and constraints it
declares, the version its manifest extends, its provenance rows (`mappings`) and the
donor digest of its sources file.  A donor is the record of its tables, and its own
digest.  `BasePack` takes four donors, one per read of a build, since they need not
be the same; `ProvenanceCovers` is the validator with exactly its comparisons:
edges, predicates and role edges as sets, entity types by how many predicates are
constrained to each.  `SlicePack` is the selection of the slice compiler: approved
modules, no functions, no names in use, and of roles, types and edges what no pack of
the `Lineage` owns.  `Lineage` is the closure under the manifests' extended version, written
without recursion so that it can be proved about.

Abstractions to know of.  A label stands for all its spellings up to case, which
`_role_id` folds.  Role edges are a set: the donor gives a predicate two slots of one
label in 13 cases, for which the code publishes the role edge twice; the validator
counts such repetitions, the model does not.
PropBank rows, source mappings, aliases and the canon index follow from the
predicates and are left out, and so is the digest inventory of the manifest, which the
validator recomputes from the same stage.  The module of a slice's rows is a model
value and a disposition is "approved", "listed" or neither.  `PositionsDeclared`
is a fact about the data, not enforced by the code: of a relation that is not a
function the donor constrains only positions up to its arity.  In `data/sumo_plus.db`
every exception (276 rows) is of a function.  Without it a slice would publish a
constraint on a role edge it does not declare.

### PackPublish

| variable | in the code |
|---|---|
| `donor` | the state of the file `--db` names |
| `packs[v]` | the directory `ontology_packs/linguistic_core/<v>`: absent, or a pack |
| `build[b]` | the local variables of invocation `b`: how far it is, its version, the donors it has read, the stage it filled |

| action | code |
|---|---|
| `StartBase` | `compile_pack` up to the first connection: the output is absent |
| `ReadRows`, `BlankLabel` | the predicates and slots over one connection; the abort on a blank label |
| `ReadHierarchy` | `_build_hierarchy` |
| `ReadDigest` | `compile_semantic_sources_document` (not for the historic version) |
| `ReadProvenance`, `UnknownPredicate`, `AllTraced` | the loop over `compile_predicate_provenance`, each on a connection of its own |
| `Stage`, `Invalid` | all files written to the temporary directory and `validate_compiled_pack` |
| `StartSlice`, `CompileSlice`, `Unaccounted` | `compile_relations_slice`: checks; the reads and the stage; the two refusals of unlisted modules |
| `StartView` | `compile_linguistic_runtime_view_v1` up to the rename |
| `Recheck`, `Appeared` | the second check of the output (not made by the view) |
| `Rename`, `RenameFails` | `stage_dir.replace(output_dir)` |
| `Crash`, `DonorReplaced` | a process is killed; another file appears under the donor's path |

A connection sees one state of the donor: SQLite keeps the file it opened, and
the donor is replaced, not written to, by the programs that make it.  Steps between two
interference points are one: the slice compiler's check of the base and of its output,
and its reads of the lineage, which cannot change (`CatalogueKept`).  A version is built
into the directory of its name and a slice is given the directory of the version its
manifest extends: both are the defaults, and other uses are listed among the
hazards.  A build that dies leaves a temporary directory with a name of its own; no
program reads those, so they are no part of the state.

### SemanticReview and SumoGovernance

| variable | in the code |
|---|---|
| `donor`, `document` | the donor database; the reviewer's decision document |
| `queue` | the queue artifact of `scripts/build_sumo_semantic_review_queue.py` |
| `roots[r]` | the directory `--run-root`: absent, made and empty, with a trace begun (`Partial`), or with its trace |
| `batches[b]`, `results[g]` | files of review batches and of governed crosswalks |
| `job[p]` | the local variables of program `p` |
| `calls[r]`, `answered[r]`, `lost` | history only: calls paid for, what they returned, roots whose run was killed between call and trace |
| `edits` | bound on corruptions of traces |

| action | code |
|---|---|
| `StartBuild`, `HashDonor`, `DonorMismatch`, `BuildQueue`, `BuildRefused`, `TruncateQueue`, `FillQueue` | the queue builder: the check of the output, the hash, the second opening for descriptions, the plain write at the end, which a kill can cut short (the readers refuse an unfinished queue) |
| `StartRun`, `MakeRoot`, `RootTaken` | the proposal run up to its exclusive `mkdir` |
| `ContractRefused`, `CallFails`, `CallAnswers` | the response contract; the one call and the four ends (lifecycles) it can have, each a trace that must pass the trace's validator |
| `CreateTrace`, `FillTrace` | the exclusive write of the trace |
| `StartReview`, `BindDocument`, `CreateBatch`, `BatchTaken`, `FillBatch` | verification of the trace, the document hashed, the batch written exclusively |
| `StartCompile`, `Replay`, `ReplayRefused`, `CreateResult`, `ResultTaken`, `FillResult` | `compile_governed_sumo_crosswalk_v1`: the checks before and after the document is read, the exclusive write |
| `Crash`, `ReplaceDonor`, `EditDocument`, `CorruptTrace` | a kill, and what others do to files |

Abstractions to know of.  A proposal is named by the quote it cites, with which its
field, rationale and disposition travel; a quote stands for a text that occurs once in
the evidence, and one that does not occur there is another member of `Quotes`.  Of the response
contract the model keeps what it refuses: predicates that are not sorted and distinct when
the cases to ask about are taken in the order of their identifiers (`CaseRank`,
`PredicateRank`), which is another order than that of the predicates.  Case
identities, digests and identifiers of artifacts are the artifacts.  Rendering of
prompts, costs and the revision check of the client change no file and are left out.
The run corrupts a trace in one field and the theorem allows two: with three, raw response,
batch and compiled proposals can be forged together, and the code makes no claim about that.  Every program is started on files that exist.

### FrameNet and TraceBundle

| variable | in the code |
|---|---|
| `archive` | the zip at the path the publisher is given |
| `disk[f]` | the file `f` of the pack or of the adjunct; the content is its own digest |
| `job[p]` | the local variables of `compile_framenet_projection.py`; in a publication, the lists `backup` and `published` of `_atomic_write_many` |
| `inspection[q]` | how far an inspection is in its script, and what it has hashed and opened |
| `events` | bound on replacements and publications |

| action | code |
|---|---|
| `StartPublication`, `OpenArchive`, `ArchiveRefused` | the archive verified against the manifest, then opened again, parsed and validated |
| `CheckInputs`, `InputsRefused`, `BuildTrace` | pack manifest and attribution parsed, and hashed afterwards, for the trace manifest; refused when they do not fit, or one is gone when it is hashed |
| `Stage`, `Recheck`, `OutputRefused` | staged files, the two looks at the outputs |
| `BackUp`, `NothingToBackUp`, `Publish`, `Cleanup` | `_atomic_write_many`, one rename per step |
| `CallFails`, `BackUpUnrecorded`, `PublishUnrecorded`, `Restore`, `Withdraw`, `RollbackFails`, `Raise` | its error path: an error between renames; an interrupt between a rename and its record; the rollback, any step of which may fail |
| `Kill` | a killed publisher, with no rollback |
| `StartInspection`, `TakeStep`, `InspectionRefused`, `Return` | `inspect_linguistic_bundle_at_roots`, one access to a file per step, in the order of `Script` |
| `Install`, `ReplaceArchive` | another release is installed, file by file; another archive at the path |

The fields `before`, `disturbed`, `spoiled` and `stray` of a job and `replaced` of an
inspection (the files replaced between their two readings) only record what happened, for
the properties.  Abstractions: of a release
the model keeps the manifest's digests and the rows the checks compare; texts,
counts and the canon index travel with them.  `Mirrored` and the uniqueness checks are
those of the projection's validator; the syntax of the XML is left out.

### SumoSource and SumoPipeline

| variable | in the code |
|---|---|
| `checkout[m]` | the file of module `m` in the SUMO checkout |
| `donor` | the donor database |
| `files` | projection, audit, publication review, context and notice |
| `run[p]` | an invocation: modules to read, what was read, the donor hashed and the donor read, outputs left |
| `edits` | bound on changes made by others |

| action | code |
|---|---|
| `Start`, `VerifyModule`, `ListAgain`, `ReadModule`, `Compile` | `compile_sumo_projection_v1`: payload verified file by file, the directory listed and read again, the validator of the projection |
| `HashDonor`, `ReadPredicates`, `ReadRoles`, `HashAgain` | `audit_sumo_crosswalk_v1`: hash, two SELECTs that may see two states of the donor, hash |
| `Reread`, `Extract` | `compile_sumo_publication_v1`: every module read once more, the hierarchies and constraints extracted, the context validated |
| `Check`, `Replace`, `Truncate`, `Fill` | the outputs: by an atomic replacement (projection, audit), or looked for and opened in turn (the publication's three) |
| `Kill`, `Edit`, `ReplaceDonor` | a kill, and what others do |

The breadth-first searches of the code are functions over path lengths, as recursive
functions and not recursive operators, so that the modules can be proved about;
`AuditSound` compares what they say with the sets closed under the subclass axioms.
Abstractions: an output is named by what it was computed from, and the text of
reports follows from that.  Of the validator that compares the totals of a reading with
the manifest only numbers and sizes of files are compared, as in the code.  Left out:
`--constraint-module` (fixed to `Merge.kif`, the default), a checkout whose git HEAD
moves, license evidence other than the notice of `Merge.kif`, excluded paths, and commands
without `--output`, which write no file.

## Runs

| run | question | expected |
|---|---|---|
| `concurrent` | do crosswalks stay justified, preserved and immutable with two unsynchronised programs? | pass |
| `resume` | does one program, crashed and restarted, finish the work without repeating any? | pass |
| `chained` | can the output of a run be the input of the next? | violation |
| `torn` | does a crash in an append lose the rows completed before it? | violation |
| `rebased` | does every review record review a row of its crosswalk, whatever the mappings? | violation |
| `coverage` | can coverage be reported of every crosswalk? | violation |
| `pack_race` | is the directory of packs a write-once catalogue, whoever races and dies? | pass |
| `pack_lineage` | are lineages closed and free of repetition, and releases reproduced, whatever donors the reads saw? | pass |
| `pack_digest` | do a successor's rows come from the donor its sources file names? | violation |
| `sumo_governance` | is each model call paid once and accounted for, and does a governed crosswalk say what was answered and reviewed? | pass |
| `trace_bundle` | is a set of files published whole or taken back, and is a bundle of one release? | pass |
| `sumo_pipeline` | does what is published and audited follow from one checkout and one donor that others edit? | pass |

Properties of the passing runs:

- `TypeOK`, `OutputsOwned` (one writer per unfinished output).
- `TentativelyVerifiedJustified`: what a finished file calls tentatively verified
  was supported by two different models, over any interleaving, crash and re-run;
  `SupportTraced` is its inductive strengthening and itself checked.
- `DonorRowsPreserved`: reviews are layered on the donor's records and never
  rewrite them.  `ArtifactsImmutable`: finished files never change.
- `LedgerKept`: the detailed system implements `ReviewLedger` under the mapping
  "the outcome of a row is the one of its first line in the checkpoint; a finished
  file publishes its review records".  Two concurrent runs do save a row twice;
  the property says that no file can then publish an outcome other than the first:
  the population validator refuses the duplicate.
- `NoRowReviewedTwice`, `ReviewsGrounded` with one runner and one version of the
  mappings.
- `DamageIsOfKills`: torn appends spoil at most one line of the checkpoint per kill,
  however many programs append after it, and no program ends for a checkpoint it cannot
  load unless a kill has spoilt a line.
- `EveryRowReviewed` (liveness): a candidate row the models can answer gets into
  the checkpoint although another row fails on every run and the runner crashes.

- `CatalogueKept`: `PackPublish` implements `PackCatalogue` with the directory
  as it is: nothing is published twice or replaced, though two builders may both pass
  both checks, and nothing extends a version that is not there.
- `NothingRedeclared`, `ReferencesResolve`: the two sides of leaving out what an
  ancestor owns; too little left out breaks the first, too much the second.
- `ReleaseReproduced`: a version whose provenance rows are pinned is rebuilt with the
  predicates, role edges, hierarchy and type counts of the release or refused, although
  the pin is on the provenance rows alone and those may be read from another donor
  than the rows.

- `OneCallPerRoot`, `EveryCallTraced`: whatever runs race for a root, fail, are refused or
  die, a root pays for one call, and its outcome is on file, in the hands of the live
  process that made it, or lost with a killed process and in no other way.
- `LedgerKept` (of `SumoGovernance`): the detailed system implements `SumoLedger` under the
  mapping "a root's answer is what the call returned; a finished result decides".  It is where
  the donor, the queue, the document and a field of the trace change between the four programs
  that reread them, and where a model must not review itself.
- `ExactFrames`: a bundle has the frames and facts its trace manifest names although both
  files are opened again after they were hashed; `OneRelease`: the pack
  rows were hashed as those of one release, that of the pack manifest it parsed, whatever is
  installed between two of its readings; they are parsed as hashed, and the release is the
  one the trace names, but for a file that was replaced between its own two readings.  That
  window the code leaves open, for each file by itself.
- `SetAtomic`, `PriorKept`: the two outputs of the publisher are replaced together or restored,
  and an output it replaces exists somewhere at every moment, kills included.  Both
  exempt outputs changed by somebody else; the first also an interrupt in the gap between a
  rename and its record, and a rollback that itself fails: there the code makes no promise.
- `ContextOfApproved`: hierarchies are searched in the axioms of all modules, but what is
  published follows from the approved `Merge.kif` alone.
- `ReviewOfOneCheckout`, `AuditNamesDonor`: a review of modules, or an audit of rows, that
  were never there together takes two changes between the two readings: the window the
  double reading leaves is exactly "replaced and put back".
- `AuditSound`: the classification of a donor type against several required types agrees with
  what the axioms mean.

### Bounds

Three rows are the fewest with a batch (`Limit` 2), a row that always fails before
it and a row behind it; a fourth is no candidate and must never be selected.  Two
runners and two file names make every race of the exclusive create and of the two
checkpoint reads possible; the three names of `chained` and `rebased` are a base, a
reviewed file and one more.  Two versions of the mappings overlap in one row, so that a
checkpoint line can be of both, of one or of neither.  `MaxCrashes` is 1 where crashes
meet concurrency and 2 where a crashed run is resumed and crashed again;
`MaxHiccups` bounds transient failures of a call.  One of three verdicts per pass is
always possible.

The pack runs need no bound on steps: the state is finite, versions being a fixed
set.  `pack_race` has two builders, enough for every race of two, three versions of
which one extends another, and a donor that loses a label and a predicate in mid-build.
`pack_lineage` has one builder, since lineages depend on the order of publication and
not on who publishes, and two slices of which the second extends the first and
approves one more module, so that ownership at one and at two removes differ.  Its six
donors reach every refusal; they have a relation with the name of a predicate, one
of module `unknown`, a function constrained beyond its arity, a relation whose
constraints come from two modules, and hierarchies two deep.  Four types are a root, two
types of predicates' roles and one that only slices bring in.

`sumo_governance` has two programs, the fewest that race, each of any of the four kinds and
started again without bound; one root, batch and result, so that every race is for the
same file; three cases, of which two share a predicate and the third comes after them although its
predicate sorts before theirs: the contract is refused for a repetition and for the order; two donors, reports and documents.  `MaxEdits` is 1, which keeps the
run short; the proof is for 2.  `trace_bundle` has one publisher and one inspection, two releases that differ in a
role, three archives (the pinned one, a consistent other and one whose members disagree)
and `MaxEvents` 3: an inspection needs one replacement to go wrong and a publisher two.
`sumo_pipeline` has two invocations of any of the three commands and `MaxEdits` 3: two for a
change that is put back and one more; modules with a shortcut, a restated edge and a file
that does not parse.  Deadlock is not checked in `sumo_pipeline`, where every invocation
ends and is not repeated.  Programs and invocations are symmetric: no property tells them apart.

### Fairness

`resume` runs under `FairSpec`: a runner that has a step takes one (a program that
is not killed runs on), and each runner keeps being started on some readable input
(`StartsReview`).  The second is the operator's part: the program is made to be
re-run until no rows are left, and nothing in it re-runs itself.  No fairness is put
on which verdict a model gives, on which input or output is chosen, or on crashes.  A
row in `Unanswerable` fails every time and is exempted; liveness of the others
needs fewer such rows at the head of the order than `Limit` (with as many, every
run tries the same rows and the rest starve: the program has no memory of failures,
the log is never read).  `TornWrites` is off there: with it the claim is false, as
`torn` shows.

The other specifications have no fairness: nothing in the programs starts them or
keeps them going, they wait for nothing, and what must not be lost is stated as safety
(`EveryCallTraced`, `PriorKept`).

### Findings

`coverage`: the report counts three states, a reviewed crosswalk has four, so
`build_linguistic_crosswalk_coverage_v1` raises for every crosswalk with a
tentatively verified record.  `chained`: a reviewed crosswalk as input and the same
checkpoint end in a refusal after the batch was paid for.  `torn`: half a line
blocks every later run.  `rebased`: the append does not check that the reviewed row is
in the crosswalk.  `pack_digest`: the digest of the donor is taken after the rows were
read, and the validator compares numbers of predicates per type, so a donor
in which two predicates have exchanged types leaves a valid pack with another donor's
digest.

## Theorems

Proved for all values of the constants, from the named assumptions
`CrosswalkConstants`, `DonorReviewConstants`, `PackConstants`, `PublishConstants`,
`ReviewConstants`, `GovernanceConstants`, `BundleConstants`, `SourceConstants` and
`PipelineConstants` only, and where a theorem says so a further hypothesis of its own:

- `TypeCorrect` (`TypeOK`), inductive as it stands.
- `WritersOwnTheirFiles` (`OutputsOwned`) and from it `FinishedFilesImmutable`
  (`ArtifactsImmutable`): a file is created only where there is none, hence an
  unfinished file has one writer, hence the only step that fills a file fills the
  writer's own.
- `SupportIsTraced` (`SupportTraced`).  `TentativelyVerifiedJustified` is not
  inductive: a crosswalk is written from the checkpoint and from a crosswalk read
  long ago, and a checkpoint line from passes made earlier.  The strengthening says
  the same of all three, and that passes are made only by runs with two different
  models.  `TentativelyVerifiedIsJustified` follows.
- `SingleRunnerReviewsOnce` (`NoRowReviewedTwice`), assuming at most one runner: the
  rows a run still has to review are not in the checkpoint.
- `LedgerIsRecorded` and `DonorReviewKeepsLedger` (`LedgerKept`): every step maps to a
  step of the ledger or a stutter.  The invariant it needs says that every review
  record of a finished or held crosswalk is the outcome of the first line of its row;
  the population validator makes it inductive, as a crosswalk is only built from a
  checkpoint without duplicates.

- `DamageBounded` (`DamageIsOfKills`): every step is shown to leave the set of broken lines
  as it is but the kill in an append, which adds one, and a broken line stays broken.

- `ReviewsAreLayered` (`DonorRowsPreserved`) and, assuming one version of the mappings,
  `ReviewsAreGrounded` (`ReviewsGrounded`).  `HeldGrows` says where a crosswalk can come
  from: from a file or a runner that held it, from the compiler, or from an append to one
  held; the invariants then speak of everything held, and the second also of checkpoint
  lines and of rows still to review.

- `PublishInvariant` and from it `PublishTypeCorrect` (`TypeOK`),
  `LineagesNeverRedeclare` (`NothingRedeclared`) and `LineagesResolve`
  (`ReferencesResolve`).  The properties speak of published packs only and are not
  inductive: the pack a rename publishes was compiled earlier, from the lineage as it was.
  The strengthening says of every stage that it fits the lineage of the published version it
  extends, that published versions extend published ones, and that donors read are
  labelled.  It is kept because a publication changes no lineage that was there: the
  lemmas on `Lineage` say that the closure from a published version only meets published
  versions, so a new pack enlarges no closure but its own.
- `PublishKeepsCatalogue` (`CatalogueKept`), from the same invariant: every step publishes
  one absent version on a present one, or leaves the directory alone.

- `ReleasesAreReproduced` (`ReleaseReproduced`), assuming that no slice or view is built under
  a version of the base compiler: what waits to be published under such a version has
  been validated, whatever donors the reads saw.

- `SumoGovernanceProofs`: `TypeCorrect`, `OneCallForARoot` (`OneCallPerRoot`) and
  `EveryCallIsTraced` (`EveryCallTraced`).  That a root pays once is not inductive: the
  strengthening `CallsClaimed` says that a program about to call holds a root that exists,
  has had no call and is held by no other; `SomethingAsked` that its
  queue has a case to ask about, without which the trace validator would refuse the trace.
- `TraceBundleProofs`: `FramesAreExact` (`ExactFrames`) from `InspectionsOK`, what an inspection
  at step n of its script has read and compared; `SetIsAtomic` (`SetAtomic`) and
  `PriorIsKept` (`PriorKept`) from `PublishersOK`, which says of each output where its prior
  content is at each step of the publication and of the rollback; `BundleIsOfOneRelease`
  (`OneRelease`) from `ReadingsOK`, which adds that a file that was hashed is still there,
  or was opened as it was hashed, unless it was replaced between the two, and uses the assumptions of `BundleConstants` that the assets of a release
  are those its manifest declares.
- `SumoPipelineProofs`: `TypeCorrect`, `AuditNamesItsDonor` (`AuditNamesDonor`) and
  `ReviewIsOfOneCheckout` (`ReviewOfOneCheckout`), from an invariant that counts, for each
  reading that differs from the present file, the changes since the first reading.

- `SumoLedgerProofs`: `GovernanceKeepsLedger` (`LedgerKept`), assuming `MaxEdits <= 2`.  A
  governed crosswalk is made of a trace that may have been corrupted since the call
  was paid for, so the invariant compares each trace on file, and each a program holds,
  with the trace the call made (`Made`), and bounds the fields in which they differ by the
  corruptions so far (`Changes`).  The validator then does the rest: a trace that passes it
  and differs from the original in at most two of its five fields that count has the
  original's proposals.  The bound is tight: with three corruptions
  raw response, batch and compiled proposals can be forged together, and TLC finds the
  forged crosswalk.
- `FilesAreOfReleases` (`TypeOK` of `TraceBundle`), from `ContentsHeld`, which says of a
  publisher at each step what its projection, its payload and its backups are, and
  `ReadsHeld`, that an inspection stays within its script although opening the trace may
  lengthen it.  It assumes of the directories in the beginning that they hold what a
  release or a publication can have put there.
- `ContextIsOfApproved` (`ContextOfApproved`).  Hierarchies are searched in the axioms of every
  module read; the context is published if the path is the only shortest one and each of its
  edges is stated by the approved module once.  The proof shows that such a path is then
  the only shortest one in the approved module alone: more axioms only add paths
  (`SumoSourceProofs`), and the path that was found has only edges of the approved module.
- `SearchIsEntailment` and from it `AuditIsSound` (`AuditSound`).  A class found by the search
  is in every set closed under the axioms, by following the path; the converse says that what
  the search finds is itself such a set.  A walk of the axioms may repeat classes,
  the search does not, so the proof takes the longest prefix of a path that leads
  back, cuts it, and uses that a path without repetition has no more
  classes than there are terms: finiteness of `Terms` is assumed, and that formulas name terms.

Three claims that a violation run refutes are proved under the hypothesis they lack, which says
how far the code can be relied on:

- `DigestNamesRowsOfQuietDonor` (`DigestNamesRows`): the digest in a pack is of its rows if the
  donor is replaced only while no build is under way, and versions are kept apart as above.
- `AppendIsNotRefused` (`AppendNeverRefused`): with one runner, given only crosswalks without
  reviews, the batch that was paid for is appended, whatever crashes came before.  The proof
  needs that a single runner reviews no row twice.
- `ReportableWhileUnverified` (`EveryCrosswalkReportable`): for finite inputs the coverage report
  accepts all crosswalks exactly while none has a tentatively verified record; no hypothesis
  on the runs is made, since the state it leaves out is the only cause.

`PathsFrom` is a recursive function.  What it yields at every length is proved without an
induction theorem: of the lengths at which a claim fails there is a least one, and its
predecessor gives the contradiction.

`DonorReviewProofs` also holds the lemmas on the operators of `Crosswalk` (what `Construct`
adds, keeps and refuses).  Every invariant and every refinement that a passing run checks is
proved.  Only model-checked: `EveryRowReviewed`, since liveness under fairness is out of the
prover's reach.  Of the five properties that are false, three are proved under the hypotheses
above; `ReviewsGrounded` holds with one version of the mappings (`ReviewsAreGrounded`); of
`CheckpointSurvives` the theorem that remains is the bound on what a kill can spoil
(`DamageBounded`).

## Plan

1. Done: the donor review, its ledger and their proofs.
2. Done: `PackPublish`, its catalogue and their proofs.
3. Done: `SumoGovernance`, its ledger, the proofs of its invariants and of the refinement.
4. Done: the FrameNet publisher and the bundle inspection, with proofs of all five properties.
5. Done: the SUMO pipeline, with proofs of all five properties.
6. Open: a base directory and a base version of a slice that differ; the construction loader
   and consumer projections as operators checked against a reference definition.
7. Open proofs: that a reviewed row is grounded across several versions of the mappings when
   the crosswalk an append starts from has the row.

## Not modelled

- Semantic construction (`L/semantic_construction_v1.py`): it reads an exact closure of packs
  and judges one mapping at a time; it writes nothing, and the packs it reads do not
  change (`CatalogueKept`).
- Consumer profiles and projections, lineage inspection: functions from a pack and a profile
  to a projection and a receipt, and one write.
- Relation assertions and role definitions: validators of single records.
- The PropBank projection, coverage and inventory reports: joins over read-only inputs
  that their own validators recompute.
- The digest cache of `L/semantic_provenance.py`: a build digests the donor once and ends.
- The quality harness and the probes under `evaluation/`: arithmetic over a preregistered
  sample, with one output file.
- Everywhere: the syntax of XML, KIF and archives, the text of prompts and rationales, costs,
  hashes of contents (a content is its own digest), and counts that are recomputed by
  their validators.

See `PROJECT.json` for the status of each component and for the hazards that have no
property, each with the reason.
