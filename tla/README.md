# TAKHRIJ: a TLA+ verification project

TAKHRIJ answers one kind of claim: *no independent authorial use of word form X, in sense S, occurs
before year Y in a declared corpus*. A claim is submitted over HTTP, becomes a job, travels through
Pub/Sub to a worker, is researched by a workflow that mixes deterministic search with language-model
judgements, and ends as a dossier that a deterministic gate lets through. Four things can go wrong in
ways that tests hardly reach: the **job protocol** (leases, retries, redeliveries, crashes, quotas, and the
page that waits for all of it), the **meaning of the verdict** (what an issued dossier may conclude from a search that was
limited, extended and judged by models), the **text** underneath it (whether every word of a source file is
found, and quoted as it stands), and the **way of a corpus** from its manifest to a public
service (builds that race, fail or die, and checks made before the thing they check changes). This
project models all four.

Paths such as `jobs.py:107` are files of `src/takhrij/` in the repository.

## 1. Inventory

| Component | State | Operations | Interacts with | Hard behaviour |
|---|---|---|---|---|
| Job stores (`jobs.py`) | job records; `active`/`created` counters per UTC day | `create`, `claim`, `renew`, `progress`, `complete`, `retry`, `fail`, `cancel_unpublished`, `get` | called by API, worker and keeper threads | stale attempts, expired leases, midnight, overlapping transactions |
| Claims API (`web.py`) | none of its own | `POST /claims`, `GET /claims/<id>`, `POST /worker` | store, publisher, worker | dies between two calls; publish in doubt |
| Publisher, subscription (`publisher.py`, `deploy/configure_pubsub.sh`) | the message, its delivery count and deadline | publish, push, redeliver, dead-letter | API to worker | at-least-once delivery, lost answers, deadline shorter than the work |
| Claim worker, lease keeper (`worker.py`) | the attempt it holds; a renewing thread | `process`, `LeaseKeeper._run` | store, workflow | two deliveries of one job; late renewals; errors after effects |
| Development inline worker (`web.py`, `RecordingPublisher`) | a daemon thread | one delivery, with the last delivery number | store | restart loses it |
| Research workflow (`agent.py`, `adk_tools.py`) | the trace: variants, passes, hits, audit, assessments | the orchestrator's nodes | index, models, gate | a second pass under a shared limit; relabelled variants; arbitrary model answers |
| Corpus index (`index.py`) | immutable SQLite file | `search`, `get_document`, `verify_raw_span` | workflow, gate | order and limit of the query |
| Classification, verdict, dossier (`pipeline.py`, `verdict.py`) | none | `apply_classifications`, `derive_verdict`, `assemble_dossier` | workflow | three-valued judgement, undated sources |
| Issuance gate (`gate.py`) | none | `inspect`, `issue` | workflow, index | re-derives what the workflow derived |
| Spellings (`normalization.py`) | none | `validate_variants`, `expand_orthographic_variants`, `normalize_token` | workflow, index builder | closure under a second expansion |
| Tokenizer, ingestion (`normalization.py`, `ingestion.py`) | the scan's position and open word | strip controls, scan, normalise, quote | index builder, index, gate | offsets into stripped text; marks that normalisation drops or composes; a file replaced between search and gate, or while the gate reads it |
| Manifest, index builder (`manifest.py`, `index_builder.py`, `scripts/build_approved_image.py`) | database files, the `.building` name each output shares | load, enforce, build, replace | image gate, startup | interrupted or concurrent builds; a manifest read twice |
| Corpus boundary (`image_gate.py`, `web.py:79-108`, `scripts/check_corpus_boundary.py`, `Dockerfile`, `cloudbuild.yaml`) | images, the running service | gate, scan, bake, start up | builder, index | fail-closed approval; a file replaced after it was checked |
| Serialisation, redaction, tokens (`serde.py`, `security.py`) | none | conversions, one library call | all | - |
| Browser interface (`static/app.js`) | the polled job | submit, poll until terminal | API | a job that never ends; an instance that does not know it |

What makes each part correct:

* **Stores.** The counters are exactly the live and the created jobs of their day, whatever the order
  of calls. Only the newest attempt can publish a dossier. Terminal jobs never change. The Firestore
  adapter does what the in-memory one does although its transactions overlap.
* **Service.** A message is forgotten only for a finished job; what a worker answers is true; an
  accepted job is failed only by its last delivery; a live job is always in somebody's hands; an
  accepted job ends.
* **Page.** A page that submitted a claim does not wait for ever, in either deployment, and what it shows stays true.
* **Text.** The postings are exactly the words of the stored text; a search finds every word of the source file
  written in a documented spelling of the form; what is issued quotes every text that the gate read.
* **Workflow.** *Complete coverage* means that every occurrence of every spelling of every word that
  anybody proposed was retrieved; *no earlier match* means that each possibly earlier one was
  surely excluded; *earlier match found* is said exactly when there is such evidence.
* **Corpus boundary.** Nothing unfinished and nothing without its recorded permission gets into an image or
  in front of production, whatever builds, edits and replacements go on meanwhile.

## 2. Modules

| Module | Models | Lines of interest |
|---|---|---|
| `JobLifecycle` | the abstract job: submitted, started, requeued, finished, given up; capacity over *sets* of jobs | `JobStore` protocol of `jobs.py` |
| `JobStore` | `InMemoryJobStore`, every method, called by any attempt ever handed out | `jobs.py:57-226` |
| `FirestoreStore` | `FirestoreJobStore`: the same documents, changed by read/commit transactions of several clients | `jobs.py:229-470` |
| `ClaimService` | `POST /claims`, the push subscription, `POST /worker`, `LeaseKeeper`; EXTENDS `JobStore` | `web.py:150-234`, `worker.py`, `publisher.py` |
| `ClaimPage` | the development deployment with its inline worker beside the deployed one, and the page that submits and polls; EXTENDS `ClaimService` | `web.py:36-41,154-192`, `static/app.js:227-275` |
| `CorpusText` | one text from source file to quotation: ingestion, tokenizer, spellings, search, the gate's span checks | `ingestion.py`, `normalization.py`, `index.py:64-160`, `gate.py:57-115` |
| `ClaimWorkflow` | one run of the research workflow, with search, spellings, judgement, verdict and gate | `agent.py:152-474`, `index.py`, `pipeline.py`, `verdict.py`, `gate.py`, `normalization.py` |
| `CorpusBoundary` | overlapping runs of `build_index()`, the ways to bake an image, starting services | `manifest.py:268-345`, `index_builder.py:161-345`, `image_gate.py`, `web.py:70-108`, `scripts/` |
| `JobStoreProofs`, `JobStoreRefinement` | theorems about `JobStore`; it implements `JobLifecycle` | |
| `FirestoreStoreProofs` | `FirestoreStore` keeps the store's guarantees, serialises, and implements `JobLifecycle` | |
| `ClaimServiceProofs` | `ClaimService` implements `JobStore`; theorems about messages, answers, owners and dead letters | |
| `ClaimPageProofs` | `ClaimPage` implements `JobStore` in both deployments and `ClaimService` without an inline worker; theorems about the thread and the page | |
| `ClaimWorkflowProofs` | theorems about issued dossiers, about what a rejection can come from, and about the match limit | |
| `CorpusTextProofs` | theorems about the scan, the search, the gate and the alef rules | |
| `CorpusBoundaryProofs` | theorems about images, services and lone builds | |
| `MC*` | small instances for TLC | |

### State and actions

**`JobStore`.** `jobs[j]` is the job document: status, `quota_day`, `attempt_id`, `lease_expires_at`,
`attempts`, `dossier`, `progress`, `completed_at`. `quotas[d]` is the counter document of a UTC day.
`now` is the clock. Every method body runs under one lock, so each is one action of the same name.
Attempt ids (uuid4) are numbered per job in the order they are generated; a dossier or a progress
report is represented by the attempt that wrote it, because *who wrote it* is what can go wrong.
`max(0, active - 1)` is kept, since a clamp hides double releases. A caller is any `a \in Callers(j)`:
the store's guarantees may not depend on well-behaved callers. `get` only reads. A refused call
(`False`, busy, terminal, `CapacityExceeded`) changes nothing and is no step.

**`FirestoreStore`** adds `tx[c]`, the call client `c` is in. A call reads its documents and the clock
(`ReadCreate`, `ReadOther`), and commits in a later step (`Commit`) what the function computed from
what it *read*. `create()` reads the clock even before its transaction (`CallCreate`), so a retried
`create` still books the first day. The database is external: it refuses a commit when a document the
transaction read has changed (`Current`, `Refused`).

**`ClaimService`** adds `api[j]` (where the submitting handler stands), `msg[j]` (the message: state,
delivery count, deadline, whether one ever lapsed), `reqs[j][n]` (the request serving the n-th delivery: its program
counter, its attempt, its keeper thread) and `faults`. Each store call is one action; between two of
them every other process may run. Pub/Sub is external and modelled from how the code uses it: a ready
message is pushed with a delivery number; a 2xx in time removes it; another answer, or no answer by the
deadline, returns it at once, or sends it to the dead-letter topic after the last delivery
(`Returned`). These actions inject faults, at most `MaxFaults` together: `publish()` raising with the
message unsent or in doubt, a handler or a worker dying between calls, `claim()` or `complete()`
committing but raising, a renewal still in flight after `join(timeout=2)`, a duplicate delivery. A
runner that raises and a delivery that outlasts its deadline are ordinary and unlimited.

**`ClaimWorkflow`.** The orchestrator awaits one node after another, so `stage` names the last one
finished and each action is one node with the model call that feeds it: `RetrieveInitial`
(morphologist, validation, expansion, first search), `ClassifyInitial` (assessor, provisional verdict),
`ApplyAudit` (devil's advocate, second expansion, second search under what is left of the limit),
`IssueDossier` (assessor again, `assemble_dossier`, gate), `Raise`. A word is a record of the features
that `normalization.py` acts on (lexeme, the places of its hamza seats, final maqsura, marks, tatweel) or removes (surrounding
space, a writing that is not NFC); which letters carry them is `CorpusText`'s subject. A posting is its rank in the query's order
`COALESCE(year), doc_id, raw_start`. The models are external and may answer anything their schemas
allow; the assessor's decision keeps both axes and whether its confidence reaches 0.80, is below it,
is unreadable, or is missing.

**`ClaimPage`** adds `inline`, the deployment, and `page[j]`, where the page that submitted `j` stands (form, posting,
polling, shown, error, lost). In the inline deployment `RecordingPublisher` only records the message and
`POST /claims` starts a thread that calls `process()` once with `delivery_attempt = max_delivery_attempts`
(`InlineAccept`, `InlineDelivery`); the thread then takes the worker's own actions, and `Thread.start()` may raise
(`InlineStartRaises`). What such a process answers reaches nobody. Every instance has a store of its own, so another
instance, or the same after a restart, answers 404; `poll()` gives up on that as on any answer that is not 2xx or does not come, and
the page then knows nothing about its job (`PageLoses`). Each action is one of
`ClaimService`, guarded by the deployment, or one of the page.

**`CorpusText`.** A text is a sequence of *symbols*: classes of code points that the functions treat alike (plain alef, alef
with a hamza seat, a combining hamza, a vowel mark, tatweel, final maqsura, the letters of the pronouns, Latin, space)
or one structural control (page marker, milestone, `%~%`, a line break). `Ingest` strips the controls, with the
space that `_strip_token_without_joining_words` leaves between letters; `Scan` is one iteration of
`tokenize_with_offsets` and `ScanEnd` the word at the end; `Search` takes a form through validation, NFC, expansion with
its suffix and article rules, the postings, their order and limit, and cuts quotations and contexts out of the
text; a form or spelling of which nothing would be left is refused (`Searchable`). `Replace` moves another index over the path at
any time until the dossier is issued or rejected. The gate opens the path twice for each hit, one hit after the other: `ReadDocument` is
`get_document`, `VerifySpan` is `verify_raw_span`, and `Issue` compares hashes, offsets and contexts with what each of them found
(a hash is the text itself). NFC is external: an alef and a combining hamza compose across vowel marks.

**`CorpusBoundary`.** A database file is named by the build that created it, so that it can be told which
file a path leads to: `out[p]` is what the output path names, `temp[p]` what the same path with `.building`
names, and builds of one output share both. `build[k]` is where run `k` stands and what it loaded;
`content[k]` what its file holds (nothing, the schema, everything). Each file operation is an action:
`Load`, `Clear` (unlink), `Open` (connect and schema), `Begin` (first row), `Commit`, `Replace`, `CleanUp` (the
handler), and `Raise` and `Kill` where the program may fail or die. `Vet` and `ApprovedBuild` are
`build_approved_image.py` around them, which reads the manifest before `build_index` reads it again. No variable holds
the manifest file: it may be edited between any two reads, so each read may find any. SQLite is external, used
as observed: the schema cannot be created twice, the first write to an unlinked or renamed file raises, and rows
of a transaction appear together. `DockerBuild`, `ApprovedBuild` and `CloudBuild` bake an image through `Gate`;
`Carry` is a developer moving an external database into the repository, which no program prevents;
`StartService` runs the checks of `create_app`, and `Served` is the file that a later query opens.

## 3. Runs

| Run | Question | Result |
|---|---|---|
| `store` | Do quotas, leases, history and results survive any order of calls by current and stale attempts, and is this the abstract lifecycle? | holds |
| `service_faults` | With any two faults, is a message ever lost, a job failed early, a wrong answer given, or a live owner robbed? And is an undisturbed message given up with its job still live? | holds; no |
| `service_live` | In both deployments: is an inline job always served, is what the page shows true, does an accepted job end, does it give its slot back, and does the page that submitted it stop waiting? | holds, the last three under `PageFairness` |
| `text` | Is every word of a source file found in every documented spelling, and does an issued dossier quote every text that the gate read, whenever the file is replaced? | holds, unless a control touches a mark (section 5) |
| `firestore` | Do overlapping transactions behave like calls of the in-memory store, and do its guarantees hold of the documents? | holds, except for `fail()` (below) |
| `workflow` | Does an issued verdict say only what was retrieved and decided, and what can make the gate reject a run whose audit was completed? | holds; only the spellings of section 5 |
| `boundary` | Can an unfinished or unpermitted corpus be accepted, baked or served, and do lone builds publish atomically? | no; yes |
| `store_midnight`, `service_deadletter`, `firestore_memory`, `workflow_truncated` | four statements of the documentation | violated, section 5 |

### Bounds, and why they are enough

* `store`: three jobs, three attempts of each, lease 1 tick, days of 2 ticks, clock to 2, one active
  and two created jobs per day, history of 2. Three jobs exceed both limits; three attempts are one more
  than the history holds, so truncation happens, and allow a stale, an overtaken and a current attempt
  at once; the clock crosses midnight with a job still open. The jobs are symmetric: the store never
  compares two of them. 0.4 million states.
* `service_faults`: one job, since handlers, messages and requests of different jobs share only the
  counters, which `store` checks with several jobs. Three deliveries give a first, a middle and a last
  one, so that "not before the last" is distinguishable from "not first". Lease = deadline = 2 ticks
  is the tightest setting `Settings.validate` admits (600 s of each); clock to 4 lets two leases expire in a row. Two
  faults cover each pair of faults (a lost claim followed by a duplicate, for instance). 5.7 million
  states. `DaySeconds = 10` keeps it within one day: `store` has midnight.
* `service_live`: both deployments (`inline` is chosen in the initial state), one job with its page, since pages share
  nothing but the counters; two deliveries, one fault. 0.4 million states. The clock stops at 4, which is no obstacle to the properties:
  they are checked to hold on the behaviours in which it stops as well.
* `firestore`: two clients, since a conflict is between two transactions; two jobs share a quota
  document; two attempts; midnight at tick 1. Clients and jobs are symmetric. 0.6 million states.
* `text`: every source file of up to four symbols over three alphabets (hamza, seat, marks and tatweel; all controls
  beside letters, marks and Latin; the two final letters and spaces) and of up to eight over letter, space and page marker,
  so that there are more words than the limit and windows that overlap. The rules look at no more than a symbol on each side, a final letter
  or a pronoun of three letters with a stem, so that four symbols meet each of them. Nine forms: with and
  without seat, marks, tatweel and padding, two that validation refuses, and two of tatweel with at most one letter, which it lets
  through and the search refuses (section 5). Two editions may replace the index. A context of one character is cut at both ends of a text and at neither. 0.6 million states.
* `workflow`: 30 corpora of three postings (two lexemes, every ascending order of an early, a late and
  an undated source), a limit of two matches (so the first pass, the second or neither is cut off, and
  the second may have nothing left), four variants (so expansion overflows), eleven words that carry
  every feature, one of them with two hamza seats and one with the second of them left, up to two audit findings, five
  representative decisions. 1.3 million states.

* `boundary`: three builds: two that share an output and one whose killed remains they find, or one for the image and two that
  replace the file behind a service. All combinations of kind, release, status and reference may be in a manifest,
  but for the reference of a fixture, which nothing reads. Builds are symmetric. 0.4 million states.

`CHECK_DEADLOCK FALSE` is set because the systems do stop: the clock and the attempts are bounded, all
jobs may be terminal, and a workflow ends.

Bounds that are not constants of the code are `MaxNow`, `MaxClaims`, `MaxFaults` and `MaxFindings`, and the finite sets
of texts, forms and editions; all
others are settings (`LEASE_SECONDS`, `MAX_ACTIVE_JOBS`, `MAX_JOBS_PER_DAY`, `MAX_DELIVERY_ATTEMPTS`,
`MAX_MATCHES`, `MAX_VARIANTS`, the 110 characters of context, the 0.80 threshold as a feature of a decision).

### Fairness

`Fairness` in `ClaimService` assumes weak fairness of: the subscription (it pushes a ready message,
notices a deadline, settles a publish in doubt); a submitting handler (a few calls with timeouts); the
steps of a request, including that its runner returns or raises, because Cloud Run ends a request after
its timeout (`cloudbuild.yaml`: 3600 s); and the clock. Nothing is assumed of crashes, duplicates, new
submissions, progress reports, or of the keeper, a daemon thread that dies silently when `renew()` raises
(`worker.py:85`). `PageFairness` in `ClaimPage` adds that the thread of an inline job, once started, runs on (the process
has it scheduled; nothing in the code stops it), and that a page stays open: it takes its answer, and reads until a
terminal status stops its timer (`app.js:227-249`). A submission itself is never forced, nor a read that fails.

### Properties

Store: `QuotaExact`, `DossierFromLastAttempt`, `LeaseCoversAttempt`, `HistoryIsTail`; steps:
`TerminalIsFinal`, `ProgressNeverRegresses`; refinement: `ImplementsLifecycle`.
Firestore adds `LeaseNotStolen` (a claim that looked at the lease earlier does not overlook a renewal
that committed since) and `SerializesAsMemory` (a commit has exactly the effect of the in-memory call
made at the reading time: `INSTANCE JobStore` with that clock). It checks `LeaseCoversAttempt` and `ImplementsLifecycle` of
the documents again, because a commit writes the lease of an earlier clock, and a booking may be of an earlier day. The other
properties of the store do not depend on the clock and are not run again; they are proved of the documents (section 4).
Types: `PageTypeOK` contains `ServiceTypeOK`, and that one `TypeOK`; `FTypeOK` is proved only.
Service: `AckedMeansComplete`, `AnswersAreTrue`, `AcceptedFailsOnlyOnLastDelivery`,
`RefusedHoldsNoSlot`, `LiveJobIsDriven`, `QuietDeadLetterFailed`, the step property `LiveOwnerKeepsJob`, and the liveness
properties `AcceptedEnds`, `AcceptedReleasesSlot`; with the page, `InlineJobIsServed`, `PageTellsTruth` and `PageLearns`.
Text: `TokensAreWords`, `FindsEveryWord`, `GateIsExact`.
Workflow: `CoverageIsTotal`, `NegativeIsExhaustive`, `PositiveIffEvidence`, `HitsBounded`, `RejectionIsExplained`.

Boundary: `AcceptedIsComplete`, `ImagePermitted`, `ApprovedToolBakesApproved`, `ProductionServesPermitted`,
`FixtureServiceShowsFixture`, `LoneBuildIsAtomic`.

Some of them rest on something worth knowing. `AckedMeansComplete` holds although a stale attempt
answers 204 (`worker.py:140`), and only because `Settings.validate` keeps the lease at least as long as
the acknowledgement deadline (`DeadlineAssumption`): when an attempt is stale, nobody listens to its answer.
`PageLearns` holds of an inline job, which nobody delivers a second time, only because its one attempt counts as the last
delivery (`web.py:41`): as a first one, a failing runner would put the job back into a queue that nobody reads.
`QuietDeadLetterFailed` is the part of the README's sentence on dead letters (section 5) that the code keeps: where only
runners raise and every answer comes in time, the deliveries do follow one another, and the last one fails the job.
`FindsEveryWord` holds although the postings keep the text's spelling and the search a normal form, because
normalisation drops the marks and tatweel on both sides and composes a seat before it drops the rest; `GateIsExact` holds
although search and gate open the path separately, because every hit carries
the hash of the text it was cut from: without it a replacement between two hits of one gate run could mix two texts.
`CoverageIsTotal` holds although the second expansion may relabel or drop variants of the first,
because the gate insists that what was searched is what is declared (`gate.py:42`) and that every
proposal is among it. `RejectionIsExplained` is the other side: what these two comparisons can reject although the audit was
completed. The second expansion starts from the variants labelled `morphologist` only (`agent.py:424`); a form keeps that label
unless it has tatweel or an earlier form has it among its spellings. In the second case nothing is lost as long as the earlier form has
one hamza seat at most, because a spelling then has no spellings that its word has not. With two seats it does: the expansion rewrites
the first (`normalization.py:97-113`), so the form without its first seat has one more, without any.
`AcceptedIsComplete` holds although builds that share an output do publish each other's unfinished file, and may report
success for it (`index_builder.py:331-337`): the metadata is written with the rows, so such a file has none and everybody
refuses it. `FixtureServiceShowsFixture` holds although startup decides only once whether to redact (`web.py:98`),
because no valid manifest gives the fixture's release label to an external corpus (`manifest.py:303-312`) and the gate
compares the release of every dossier (`gate.py:29`). It does not extend to two external corpora of one release: a
local-only database that replaces a granted one of the same release under a running development service would be
shown unredacted; production reads a file of its image, which nobody replaces.

Every property has a mutant: an operator beside the definition it replaces, marked `Mutant:`, that
changes it the way a plausible bug would (a dropped guard, an off-by-one, a missing reset), and with
which TLC finds the property violated.

## 4. Proofs

All theorems are for every value of the constants under the named assumptions of the modules; they are
about safety. Every invariant, every action property and both refinements that a passing run checks are also theorems; only the
three liveness properties are not.

**`JobStoreProofs`**, from `JobIdsAssumption`, `LeaseAssumption`, `QuotaAssumption`,
`HistoryAssumption`, `ClockAssumption`, `ClaimsAssumption`.

* `TypeCorrect`. The type invariant is inductive (`NextType`).
* `QuotaCorrect`. `QuotaExact` is inductive with the types: `CreateTakesQuota` adds one element to the
  sets of its day, `ReleasesQuota` removes one live job, `KeepsQuota` covers the steps that change
  neither set. The counter of a live job's day is at least 1 because it equals the size of a set that
  contains it, so the clamp at zero is never reached.
* `LeaseCorrect`, `DossierCorrect`, `HistoryCorrect`. Inductive with the types; history rests on
  `RememberProperties` (what truncate-and-append returns for any limit above 1).
* `TerminalCorrect`, `ProgressCorrect`. Step properties; the second needs the strengthening `Fresh`
  (a missing job has the initial record, and no report is newer than the newest attempt).

**`JobStoreRefinement`**: `RefinesLifecycle`, `Spec => ImplementsLifecycle`. Under the mapping
`phase <- status`, `attempt <- attempt_id`, `result <- dossier`, `day <- quota_day`, `today <- Today`, a step of
the store is an abstract step or a stutter (`Renew`, `Progress`, a tick within a day). `Create` meets
the abstract guard because of `QuotaExact`; `Complete` publishes the abstract `attempt` because only the
owner passes the compare; a later day follows from the monotone division of the clock (`DayOrder`).

**`FirestoreStoreProofs`**, from the store's assumptions, for any number of clients. What makes the adapter right is one
fact about a commit, `CommitIsApplied`: the documents that a call read are still current (`Current`), so that what it
writes is what its transaction function, `Applied(op, j, a, t)`, makes of the *present* documents, with a clock `t` of the
past. It rests on `TxTypeOK` and `TxInv` (a call read the clock no later than now, and its function found reason to
write). Three views of `Applied` give the theorems: `AppliedEffect` (which fields it may change, hence `FDossierCorrect`,
`FTerminalCorrect`, `LeaseNotStolenCorrect`), `AppliedAsMemory` (it is an action of `INSTANCE JobStore` at that clock,
hence `SerializesCorrect`), and `AppliedRefines` (it is a step of the lifecycle or a stutter, hence `FRefinesLifecycle`).
`FQuotaCorrect` uses the same lemmas about adding to and taking from the counted sets as `JobStoreProofs`
(`BookingTakesQuota`, `ReleasesQuota`), since a transaction also reads the counter that it writes. `FLeaseCorrect`,
`FHistoryCorrect` and `FProgressCorrect` say of the documents what the store promises of its records. The lease is the hard
one, since a commit writes `t + LeaseSeconds` with the clock `t` of its reading: the invariant adds `LeasesRead`, that
whatever a call found, the lease it read was no later than a renewal at its own reading would have set; with the documents
still current at the commit, a renewal can only lengthen the lease of the attempt that holds it.

**`ClaimServiceProofs`**, from the store's assumptions and `DeadlineAssumption`, for any number of jobs, deliveries and faults.

* `ServiceImplementsStore`, `ServiceSpec => Spec`: every step of API, Pub/Sub, workers and keepers is a step of `JobStore`
  or leaves its variables alone. Every theorem of `JobStoreProofs` and `JobStoreRefinement` therefore holds of the service.
* `ServiceTypeCorrect`, from `BaseInv`: the store's invariant, the types of the environment, and `CallInv`: a request has an
  attempt that was handed out (`HandlerInv`), and a message's count and deadline fit the requests it has (`MessageInv`).
* `AckedCorrect`, `AnswersCorrect`, from `AttemptInv`: different requests hold different attempts (`Distinct`); a
  request that works is the owner of its job or was overtaken, and one that was overtaken
  lost a lease that outlasts its own deadline (`RequestInv`, `Overtaken`); a message acknowledged means a complete
  job. This is where `AckDeadline <= LeaseSeconds` is needed.
* `AcceptedFailsCorrect`, `RefusedCorrect`, `DrivenCorrect`, `OwnerKeepsCorrect` are inductive or step properties on top of
  these invariants.
* `QuietDeadLetterCorrect`. The property speaks of the end of a message, so its invariant, `QuietInv`, has to follow all
  deliveries up to there: as long as there was no fault and no lapse (`QuietBefore`: neither is ever forgotten), every request but
  the current one is `Idle`, a message that is ready has a queued job, and the current request finds the job queued, owns it, or
  has handed it back or failed it (`CurrentInv`). `QuietCurrent` is the request's own steps, `QuietAnswer` the moment
  the message moves.

**`ClaimPageProofs`**, from the assumptions of `ClaimServiceProofs`, for both deployments at once.

* `PageImplementsStore`, `PageImplementsService`: a step of page, thread or service is a step of `JobStore` or a stutter, and without
  an inline worker a step of `ClaimService` or a stutter. All theorems above hold of what a page is connected to.
* `PageTypeCorrect`, and `InlineServedCorrect` from `InlineInv`: an inline job goes through `NotStarted`, `Waiting`,
  `Running` and `Terminal`, and in each of them it is known where its one request stands (`ThreadInv`). In particular its lease may run
  out, but nobody claims the job, because its only request is past its claim.
* `PageTruthCorrect`: a page stops at a terminal status, which no step of the store changes (`TerminalIsFinal`), or at an answer of a
  handler that does not go on.

**`CorpusTextProofs`**, from `SourcesAssumption`, `FormsAssumption`, `EditionsAssumption`, `ContextAssumption`.

* `TokensCorrect`: the loop invariant `ScanInv` of `tokenize_with_offsets` says that the tokens are the words that end before
  `index`, in order and apart, and that `start` is where an unfinished word began. It holds of texts of any length;
  no induction over the text is needed, because the loop itself is the specification's steps.
* `SearchCorrect`, `Spec => []FindsEveryWord`. `Keep`, which stands for filtering a string, selects positions by their rank, a
  cardinality; the lemmas about it show by counting that `Place`, the rank, is a bijection which keeps the order, so that what is left
  of a text is in its order and nothing else. On it rest: what `Strip` leaves between two words keeps them `Apart` and each letter
  of a word with its mark (`DropsApart`); hence every word of the source file is one of the stored text; by `TokensCorrect` it has a posting;
  and the key of a word and of each of its documented spellings is the same normal form, so that the query of the search matches it
  (`EverySeatIsLexical`). `SearchInv` carries this to the hits, unless the limit cut them off.
* `GateCorrect`: `QuoteInv` says that each hit quotes the text that was searched, with which it stands, and that the gate has
  read nothing else as long as the file was not replaced. A hit that the gate lets stand has the hash of the document it read for that
  hit, hence that document is the text searched, and all hits quote it.
* `EverySeatIsLexical`: on no text do the suffix and article rules of `normalization.py:48-94` exempt a hamza seat. They
  protect alefs of pronouns and of the article, which are plain, while only seats are rewritten.

**`ClaimWorkflowProofs`**, from `WordsAssumption`, `CorporaAssumption`, `LimitsAssumption` and the like:
`CoverageCorrect`, `NegativeCorrect`, `PositiveCorrect`, `WorkflowTypeCorrect`, `HitsBoundedCorrect`, `RejectionCorrect`. The first three properties are not inductive: they speak of issued dossiers and
of words of which the final state keeps only traces. `WInv` adds: before the audit the trace is the first pass over exactly
the spellings of the claim and the morphologist's forms (`BeforeAudit`, from `ExpandSurfaces`); after
it, an untruncated trace contains every occurrence of everything proposed (`AfterAudit`, from
`SearchIsComplete`: a search that is not truncated returns all matching postings); an issued dossier is
`Assemble` of the last assessment (`Assembled`). `HitsBoundedCorrect` and `WorkflowTypeCorrect` come from `BoundInv`: each pass returns
at most its limit (`RowsWithinLimit`: the number of matching postings before a row is an injection into `0..limit-1`), and the
second is given what the first left. `RejectionCorrect` needs to know when nothing is lost as the second expansion starts
from the variants labelled `morphologist` of the first. Spelling is not closed: of a word with two hamza seats, one spelling has a spelling
the word has not. It is closed for the spellings that keep all seats or none (`SpellingsClosed`), the others being what `HalfStripped`
names. A label is that of the first word of the list that has the spelling (`SourceOfFirst`), and so, if no form has tatweel or
is half-stripped of another, the words that keep the label cover the spellings of all (`KeptCovers`). That lemma is an induction over places in the
list; it is done by the least counterexample (`LeastNumber`, from `WFMin` of the library), which needs no operator parameter. `PlainInv` then
says that, unless the property names the reason, what was searched is what will be declared and every proposal is declared.

**`CorpusBoundaryProofs`**, from `BuildsAssumption`, `NoBuildAssumption` and `ManifestsAssumption`: `AcceptedCorrect`, `ImageCorrect`,
`ApprovedToolCorrect`, `ProductionCorrect`, `FixtureServiceCorrect`, `BoundaryTypeCorrect`, `LoneBuildCorrect`. The invariant `BInv` adds to what was accepted
(`ImageSound`, `ApprovedSound`, `ServiceSound`) that a build has no file before it opens one and has then loaded a valid manifest
(`Loaded`), and that nothing but its own file gets into the context directory of an approved-image build (`PrivateContext`). The lemma
behind all of it is `Frozen`: a complete file stays complete and what its build recorded never changes
(`MoveKeeps`, `LoadKeeps`), so that what a check has found stays true. `LoneBuildCorrect` needs a second invariant, `LoneInv`: two running
builds of one output have contended for it (`Rivals`), a build that writes alone has the `.building` name (`HoldsTemp`), and
what was published alone is whole (`PublishedWhole`).

Beyond the prover, and therefore only model-checked: the liveness properties under fairness, `AcceptedEnds`, `AcceptedReleasesSlot` and
`PageLearns`. What `Strip`, the scan or the expansion compute of a text or list of any length is proved without induction over data: by
the steps of the specification where the code loops, by counting, or by a least counterexample. No module uses a RECURSIVE
operator.

## 5. Disagreements between the code and its documents

1. **Midnight** (`store_midnight`). `README.md:305` says the quota transaction permits one active job. The
   counter is per UTC day and a job keeps its day, so a job still live after midnight leaves room for a second.
2. **Dead letter** (`service_deadletter`). `README.md:166` says the fifth failed delivery marks the job failed.
   A delivery answered 409 because the first still runs counts too; if that one then raises, it
   requeues a job whose message is gone, and the slot of its day stays taken. No fault is needed, only a run
   longer than the 600 s deadline. Without such a run the sentence is true (`QuietDeadLetterCorrect`).
3. **`completed_at`** (`firestore_memory`). `fail()` sets it in Firestore and not in memory, which
   `jobs.py:66` calls production-equivalent; `GET /claims` shows the field.
4. **Overflow** (`workflow_truncated`). `README.md:169` and `docs/implementation-decisions.md:14` say more
   matches than the limit force `INCONCLUSIVE`; `derive_verdict` looks for evidence first and stays positive.

Four more observations have no run of their own, because they contradict no plain statement or are visible in the model's definitions:

* A page marker or milestone between a **mark** and a letter is removed without a space, since a combining mark is not
  `isalpha()` (`ingestion.py:37-43`): a vowelled word and the next one become one token. `FindsEveryWord` excepts every text in which
  a control touches a mark on either side (`Clean`), which is more than the texts in which words are joined; without the exception TLC
  finds one of those at once.
* The rules that keep suffixes and the article from the alef expansion (`normalization.py:48-94`) never have an effect
  (`EverySeatIsLexical`).
* A form of **two tatweels**, or of one letter and tatweel, passes `validate_variants` in `prepare_claim`, whose message promises non-empty
  tokens, since tatweel is a letter to it. Nothing or one letter is left when the tatweel goes, so that `_variants_via_tools`
  (`agent.py:180`) or the validation in `retrieve` raises: the first node lets the claim pass, and the next one fails after the morphologist was asked (`Searchable`).
* The gate **rejects a dossier with a completed audit** in some cases in which everything was retrieved. A proposal of the devil's advocate with
  tatweel, a surrounding space or a spelling that is not NFC is validated, expanded and searched, but compared as it was written
  (`gate.py:53`), and reported as `audit_variant_not_retrieved`. A morphologist's form with tatweel, or one that is the spelling of another
  without the first of two hamza seats (the claim رأيت with the forms أرأيت and ارأيت), may leave a spelling that was searched
  undeclared (`gate.py:42`). No document promises that such a dossier is issued. `RejectionIsExplained` says that these are all the cases.

## 6. What is abstracted or left out

* **Gate**: comparisons of quotations, offsets, hashes and metadata with the index compare a hit with the row it
  was read from; with an immutable index they cannot fail, and are left out of `GatePasses`. The comparisons of
  release, book list and statement texts are settled before the workflow starts.
* **Roles**: the four evidence roles of wording that is not the author's own are one, `quoted`; no code
  distinguishes them.
* **Composition**: `CorpusText` composes an alef with a hamza only. NFC also composes waw and yeh with one and orders marks; no rule of
  the program looks at either, and they enter `ClaimWorkflow` as a word that is not written in NFC. Tatweel between an alef and its hamza,
  which keeps the two from composing until it is removed, is in `CorpusText` only.
* **Texts** of claims, rationales, errors and logs. Validation of request bodies and tokens changes no state.
* **Model transport**: ADK sessions, prompts and payload encodings. A payload that fails to parse is `Raise`.
* **Merge order**: hits are sets; the order of a merged list is by year, document, offset again.
* **Builds**: documents, rows and hashes are one word, complete or not; pages that SQLite spills to the file before it
  commits, and its journal files, are left out. Logical equality of two fixture databases is equality of the
  manifests they were built from. The declared books are taken to be in a complete index.
* **Boundary scan**: only the check of `data/takhrij.db`. The search for other databases or OpenITI texts in the workspace,
  and the rules in ignore files, are left out. The upload of a cloud build, its scan and its image are one step, since the archive does not change.
* **Images**: `README.md:176-178` names the approved-image builder as the only way of a real database into an image context. That
  holds of the programs; `ImagePermitted` also speaks of a database that a developer carried into the repository, which a build
  with the opt-in argument bakes, and asks of it the same permission in its metadata.
* **Replaced index**: the file that replaces an index has the same documents' names and other texts; one from which a document is
  missing is rejected at once (`missing_source`) and not modelled.
* **Text**: decoding, the OpenITI header and the hash of the source bytes only refuse a file. Bibliographic metadata, which the gate
  compares field by field, is one with the text.
* **Page**: the rendering of a dossier. Reads that find a live job are no step. A 422 and a 429 show an error at once and make no job.
* **Deployments**: an inline worker *in production* (a thread beside Pub/Sub's own deliveries, on Firestore), which no check
  forbids, is not modelled: the thread's call and a push are then two requests of `ClaimService` that may overlap, but both may claim to
  be the last. Development *without* an inline worker, the default of `.env.example`, has nobody to run a job, and its page
  polls for ever; `PageLearns` is not about it.
* **Manifest entries** (titles, licences, dates, paths): loading them changes no state. Years outside 1..1600 are refused
  (`manifest.py:166-171`), so that a composition year of 0, which `models.py:83` would pass over, cannot come from a manifest.

### Not modelled

Conversions and redaction (`serde.py`), token verification (`security.py`), the demo scripts and the set-up of the
infrastructure: they keep no state, and no step of another process can come between theirs. The limits that `deploy/` sets
(600 s, five deliveries) are the constants of `ClaimService`.

## 7. Plan

1. Done: the stores, `JobLifecycle`, both refinements and their proofs.
2. Done: the service with its faults, both deployments and the page; their safety proved, their liveness checked.
3. Done: the workflow, its verdicts, its limits and the reasons of a rejection, proved.
4. Done: the text from file to quotation; scan, search and gate proved.
5. Done: the corpus boundary, proved.
6. Left: the default `docker build`, which the documents call limited to the reproducible fixture although the gate reads labels
   only (`docs/architecture.md`, `image_gate.py:24-29`), as a run with versions of the fixture manifest; the workspace scan for files other than
   `data/takhrij.db`.
7. Left to prove: that search and workflow fit together, so that the postings `ClaimWorkflow` takes for given are those that `CorpusText`
   stores; and the safety half of `AcceptedReleasesSlot`, that an undisturbed job is never more deliveries away from its end than its
   message has left.
