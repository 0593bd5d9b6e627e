# A verification development for the communication privacy benchmark

The benchmark measures what mail and chat clients disclose when they show a message. It
sends a message full of canary references, lets a client handle it, and turns the contacts a
gateway has seen into a verdict. A wrong *pass* is its worst failure: "nothing was seen"
must never be said of a window nobody watched, a message nobody delivered, or evidence
somebody lost. This directory models the parts where that can go wrong by timing, failure or
order, checks them with TLC and proves the central invariants with TLAPS.

## The system

| Part | State it keeps | Operations | Hard behaviour |
|---|---|---|---|
| canary gateway (`gateway/src/canary_gateway`) | probes by id, their contacts, exercised vectors, delivery time, window; heartbeats | create, heartbeat, record, mark delivered/exercised, state, observations | worker threads without a lock, late and reordered beats, restarts that lose the store |
| email adapter (`adapters/ept.py`) | one measurement: state, contacts, deadline | `execute_check`, `await_observations`, seven adjudicators | a poll racing delivery, watchers, contacts, the open, a deadline and a restart |
| webmail adapter (`adapters/webmail_playwright.py`) | the same, and a browser session | `execute_check`, `_await_delivery`, `_open` | a wait for the delivery, a browser that raises or shows nothing, then the poll |
| chat adapter (`adapters/chat_appium.py`) | one measurement on a shared phone: display asserted, state, contacts | `execute_check`, `_await_display`, `_await_observations`, two adjudicators | messages and contacts of earlier checks, a display asserted or not, watchers that change |
| chat notification adapter (`adapters/chat_notification.py`) | the phone asleep, the last reading of the shade | `prepare`, `_deliver`, `_await_notification`, `restore`, the adjudicator | four probes and a dump that are not one instant, any adb call failing, a phone left asleep |
| execution (`harness/execution.py`, `spec/serialization.py`) | a directory: state file, evidence, results, manifest, checksums | `execute`, `finalize` | kills between and inside writes, exceptions, repeated finalization, forced replacement |
| planning, aggregation, analysis | a plan; a bundle of execution directories; roll-ups | `plan`, `aggregate`, `rollup`, `compare` | missing, duplicate or partial executions; small-number edges |
| publication | receipts in a staging directory | gate, stage | append-only check-then-write |
| models, registry, operations policy | none (validated data) | validate, resolve | guards used by the others |
| preflight, report, site, lab canary | none that a verdict depends on | collect, render, serve | I/O |

How they meet: `pt-bench execute` runs the checks of one subject one after another, each through
an adapter; the email and webmail adapters are HTTP clients of the canary gateway, polled on a
shared clock; the two chat adapters share one phone and a chat gateway that is not in this
repository; collectors, mail path and watchers post to the same gateway; the execution writes
what the adapter returns; `pt-bench finalize` may follow a run that died; `pt-bench aggregate`
refuses directories whose checksums do not verify and copies the rest into a bundle that is
rolled up, reported and published.

What makes each part correct:

- gateway: a contact is kept only for an existing probe with an open window; what a
  collector was told is recorded stays; health is never reported for a dead watcher;
- measurement: a clean verdict was earned (delivered, watched, opened, exercised), a
  disclosure is the client's own, every run ends;
- webmail: the browser is driven for a delivered message only and closed whatever happens
  (unless closing it fails); a clean verdict was read with the message open;
- chat: a clean canary verdict was earned (own message on the phone, display asserted, watchers
  vouched for); a clean notification verdict had permission, a running process and a locked
  screen when they were probed, and read records without its marker; a disclosure is of the
  check's own message, the phone is awake between checks, the lane ends;
- adjudication: claims only from sound measurements, only clients are blamed, more evidence
  never retracts a disclosure, checks do not contradict each other;
- execution: a verified directory is complete and of one execution, results are final, an
  execution that neither is killed nor fails in its own finalization ends with a manifest;
- aggregation: a bundle that loads was put together from every execution with a manifest, each
  sealed, of this plan and alone on its position; it is called complete exactly when every
  planned position was measured;
- analysis: a decisive outcome was reported by every planned repetition, a regression is one,
  also between two versions of a client;
- publication: a receipt exists only over a complete canonical bundle that was approved and
  redacted under the policy it names, and a bundle that has one is still the bytes it pins.

## Modules

| Module | Models |
|---|---|
| `CanaryGateway` | `store.py` behind the routes of `app.py` |
| `EvidenceStore` | what the gateway promises those who leave evidence or measure; `CanaryGateway` implements it |
| `EptAdjudication` | the adjudicators of `ept.py`, as operators |
| `EmailMeasurement` | `execute_check` and `await_observations`, composed with `CanaryGateway` (EXTENDS) and `EptAdjudication` (INSTANCE) |
| `WebmailMeasurement` | the webmail adapter beside the email adapter, over `EmailMeasurement` (EXTENDS) |
| `ChatAdjudication` | the adjudicators of both chat adapters, as operators |
| `ChatLab` | the phone, the chat gateway and the clock both chat adapters work with |
| `ChatMeasurement` | `ChatAppiumAdapter.execute_check` with its session and gateway client |
| `ChatNotification` | `ChatNotificationAdapter.execute_check` over `AdbNotificationShade` |
| `ChatLane` | the executor handing checks to the two chat adapters on one phone (composes the three above) |
| `EptEvidence` | the adjudicators while evidence arrives |
| `Execution` | an execution directory and the commands that write it |
| `ExecutionContract` | what the directory promises its readers; `Execution` implements it |
| `Analysis` | classification, roll-up and comparison, as operators |
| `RunBundle` | planning, executions seen from outside, aggregation, the loader |
| `BundleContract` | what a run bundle promises its readers; `RunBundle` implements it |
| `Publication` | the operations policy, the gate and the receipts, over `RunBundle` (EXTENDS) |
| `MC*` | small instances for TLC |
| `CanaryGatewayProofs` | theorems about `CanaryGateway` and its refinement of `EvidenceStore` |
| `LanesProofs` | theorems about the email and webmail lanes against the gateway (over `WebmailMeasurement` and `CanaryGatewayProofs`) |
| `EptEvidenceProofs` | theorems about the email adjudicators |
| `ChatLaneProofs` | theorems about `ChatLane` |
| `ExecutionProofs` | theorems about `Execution` and its refinement of `ExecutionContract` |
| `PublicationProofs`, `BundleProofs` | theorems about `Publication` (receipts) and, over it, about bundles and the refinement of `BundleContract` |

Each component module also holds, marked "Mutant:", the slips its properties are tried
against: the body of one definition is replaced by the mutant and TLC must find the property
violated. They are part of no specification.

### CanaryGateway and EvidenceStore

The routes are plain functions, so the server runs them on a thread pool over one unlocked
store. A worker thread is a function from threads to the progress of a request. `record` takes
four steps (expiry test with the first clock reading; the observation with the second; the
append; the exercised vector and the answer) and `state` takes two, because other threads run
between their Python calls; every other request is one step. One id stands for a test and its
probe, which are created together. `issued` and `acknowledged` are histories: ids ever drawn
(a random id is not drawn twice) and observations answered with 201. A restart empties the
store and drops running requests. The clock, the watchers and the mail path are the
environment: a watcher may be up or down at each instant, and a beat of any earlier instant
may arrive at any time. A delivery time is what the mail path reports; only it decides it.

`EvidenceStore` is the store without threads: a probe appears once with a window, a contact is
kept in one step and was checked within the window, its collector is told only of what is kept,
vectors and contacts are added and never taken back, and only the whole store is lost. `Kept`
maps each probe there is to its record (window, delivery, vectors, contacts); `now`, `drawn`
and `told` are the clock, `issued` and `acknowledged`. The four steps of `record` are a
stutter, a stutter, `Keep` and `Tell`. `Keep` lets the check have been made a while ago, which
is what the code does (see `gateway_window` below); the answer to `state` is read in two
instants and has its own property, `HealthIsVouchedFor`.

### EptAdjudication and EptEvidence

A contact is a record with what the adjudicators look at; texts, hosts and user agents are
abstracted to `identifies` (a reader field is present) and `referrer` (none, to the canary's
own host, to a declared third-party host). Observations are a set, since no adjudicator looks
at order or repetition. `adjudicate_check` is the routing with the guards each adjudicator
begins with. `EptEvidence` adds a run whose contacts arrive one by one.

### EmailMeasurement

A run is one `execute_check`: `start` (refused, or the test is created), `state` (first
GET), `poll` / `contacts` / `late` / `sleep` / `refresh` (the loop of `await_observations`: the
gateway serves the contacts, the answer arrives and is tested, the deadline is tested), `read`
(observer, missing vectors, verdict), `done`. `state` is the state `execute_check` keeps and
`polled` the copy the loop refreshes: they are two variables in the code, too. Requests to
the gateway are the gateway's own actions on the run's worker thread, so they interleave with
collectors, and a contact may fall between an answer and its use. A request may fail at any
point, that which creates the test before or after the gateway has made it, and does fail
after a restart; the observer may raise. The payload keeps
only what the planned checks read.

### WebmailMeasurement

The webmail adapter uses the email adapter's `await_observations` and `adjudicate`, so its runs
share those steps (`SharedStep`) and add their own: `deliver` / `pause` (`_await_delivery`, with
a deadline of its own and every answer kept as `state`), `open` (a session is made only if that
state has a delivery), `browse` (`log_in`, `open_message`, `close`). A plan's `lane` is `email`,
`ready`, or what the webmail adapter lacks. `Browse` has the outcomes of `_open`: the body
appeared, it did not within the timeout although the message may be open, or something raised;
the session is closed in each, and if `close` itself raises the check ends with the browser left
behind. An open that answered true is taken to have opened the right message: which one a
recipe's selectors find is not in the code. `shown` is `open_asserted`: what the browser saw
replaces the `open_observer`.

### ChatAdjudication, ChatLab, ChatMeasurement, ChatNotification and ChatLane

`setup` is what a lane starts with: its checks in order and the slot's number, session, package
and privacy level. The n-th check sends message n, and its marker is n. `ChatLab` has what the
adapters do not control. Messages reach the conversation late or never, and may post a
notification with the body, with a name only, or blank; other apps post; permission, process and
do-not-disturb change; the keyguard follows the screen, both ways and some time later (the
wake-up key lights the screen and unlocks nothing). The chat gateway confirms delivery and
display and files canary contacts, possibly under an earlier message. `after` is the code's test
of `observed_at` against `delivered_at`: the gateway stamps both and dates a delivery between the
arrival and its confirmation, so for a contact made in between either answer is possible
(`AfterDelivery`). A notification is its marker and whether it is blank, of any package: the code
filters by package nowhere on the way to the verdict. `window`, `timer` and `nap` count down; the
code compares them with the monotonic clock.

`ChatMeasurement` goes `start`, `post`, `display` (the poll for the display, satisfied by any
honey-message the selector finds), `state`, `observe` / `answer` / `refresh` (the poll for
contacts: request, answer and deadline, and the refresh of its own copy `polled`), `conclude`.
`ChatNotification` goes `start` (sleep), `cancel`, `send`, `probe` (four times), `dump`, possibly
again, `restore`; an exception goes to `restore` with no reading, as the `finally` has it. Each
adb call may fail with its effect or without. The sleep key and the cancelling go to adb without
`shell` (chat_notification.py:256-257); what adb makes of that is its matter, and a call it
rejects is the failing branch. `held` is what was so when each probe was made and `heard` which
were answered; `app` is the `AppState` made of them. `vouched`, `held` and `stuck` are histories.
`End` is the adapter's return or exception, after which the executor goes on; `NextCheck` resets
what is local to an `execute_check` and keeps the phone.

### Execution and ExecutionContract

`disk` and `temp` are the directory's files and the `.name.tmp` files beside them; `writing` is a
`write_bytes_atomic` between its temporary file and its replacement. A kill may come at any
point, leaving the temporary file whole or torn. A removal by `--force` goes file by file in any
order. An exception or interrupt during the checks leads to finalization, as `finally` does; an
error outside that `try`, in the removal, the observation or the finalization itself, ends the
process (`Escape`), as nothing guards it. `faults` counts kills and such errors. So `Concludes`
promises a manifest only of a process without a fault, and `VerifiedIsComplete` promises evidence
only where no removal was cut short before: `finalize` then seals results whose evidence is gone.
One process works on a directory at a time, as the steps of a CI job do. `Listing` is what
`write_checksums` lists and `verify_checksums` expects; of a leftover temporary checksum file
only its presence is kept, as a checksum file that lists another one's content would have no
finite type. `AbsentAssumption` says that a missing file differs from every content a file can
have; TLC's model values satisfy it, and the provers need it said.

The contract has two variables: the verdict of each check and what the manifest publishes. A
verdict is settled once, publication needs a verdict for every check, and the only way back is
to discard. `Execution` is shown to implement it with the result files' statuses and the
manifest's statuses as the refinement mapping.

### Analysis, RunBundle, BundleContract and Publication

An execution directory enters here as one record, which is what `ExecutionContract` shows it
to be: what was measured, for which plan and position, whether it has a manifest (`listed`),
whether its checksums hold and its results and evidence are what `aggregate_run` reads them for
(`sealed`), and whether its evidence is redacted. A directory killed before its manifest is
not seen at all (aggregation.py:47), one killed before its checksums refuses the aggregation,
and `Finalize` mends either. `root` is the directories below the executions root in the order
their sorted paths are read, `results`, `evidence`, `manifest` and `checksums` are the output
tree, and `taken` is the loop's list. An execution is checked and copied in one step, the
manifest and the checksums are a step each, and a kill may come before any of them or leave
a `--force` removal half done. `Damage` changes a stored status afterwards. A refusal leaves
behind what was copied. Files are compared by what they say: `checksums` holds what it was
computed from, so verification is equality. A subject is a client and a version. Files and
execution directories are named by the client and the repetition only (`Place`), positions are
counted with the version, and `execute` refuses a plan with two versions of one client (`Named`),
which keeps the two apart. Comparison rows leave the version out on purpose (`Key`), so that a
client's next version is compared with the last one. Two bundles can be compared if the
baseline is the older and another one. Nothing executes while an aggregation
runs, as the aggregate job needs the lanes to have ended.

`Publication` adds the checked-in policy, which may change between any two commands, the planning
gate with its override, and the receipts by bundle id. The staging directory is taken to persist.
`Publish` tests for a receipt and writes it in one step: one process publishes at a time, which
`publishing.py` does not enforce. The run a comparison starts from is a published bundle.

The contract has the plan, the executions there are, the bundle last made and the bundle a reader
can load. `Make` takes all executions that have a manifest, in one step, each sealed, of the plan
and alone in its place; `Touch` damages or restores the bundle; `Discard` ends it. So a reader is
offered the bundle that was made, or nothing. The refinement reads what was made off the
checksums (a bundle is made when they are written) and offers the tree's manifest and statuses if
`load_bundle` accepts it.

## Runs

| Run | Shows |
|---|---|
| `canary_gateway` | the gateway's invariants under two worker threads, two watchers, late beats and a restart; the evidence store |
| `gateway_window` (violation) | a contact admitted in time is appended after the window closed |
| `email_measurement` | email and webmail runs: verdicts earned, disclosures own, a browser only for a delivered message, every run ends |
| `email_open` (violation) | a clean verdict from contacts read before the open |
| `chat_lane` | two chat checks on one phone: verdicts earned, disclosures own, the phone woken, the lane ends |
| `chat_confirmed` (violation) | a chat check passes although the gateway never confirmed the display |
| `chat_probes` (violation) | a notification check passes although the phone never answered the do-not-disturb probe |
| `ept_evidence` | adjudication properties over all checks and gateway states |
| `execution` | the directory's invariants, termination, and the contract |
| `execution_seal` (violation) | a finalization after a kill while sealing leaves a directory that does not verify |
| `publication` | what is loaded, compared or published was measured completely by sealed executions of one plan; receipts pin; the bundle contract |
| `publication_receipt` (violation) | an allowed bundle with two repetitions has no valid receipt |

Bounds, and why they are enough:

- `canary_gateway`: one probe (probes do not share state; an id is never drawn again), two
  vectors and two threads (the smallest that race on one probe), window and grace 0 with two
  instants (in, past; stale, fresh), one contact admitted per thread before `MaxObservations`
  stops more, one restart. The theorems below lift these bounds.
- `email_measurement`: one run, one collector, one watcher, one restart, window and timeout 1, so
  that the deadline is reached with and without delivery. Two payloads: a client's resolution and
  a provider's fetch. `CreateProbe` waits for room for a whole window, so that the clock bound
  cuts no run short. The plans are one email check with an observer and one without, one without
  a mailbox, one nobody supports, and webmail runs that are ready, asked for another check or
  lack one thing.
- `chat_lane`: two checks, the fewest for which an earlier message, notification or phone state
  can disturb a later check, in three orders (notification first, canary first, two
  notifications), and lanes in which each thing is refused; every timeout 1, so that a deadline
  is met and missed; two readings of the shade, so one is repeated; one contact per message; one
  change of the device, the watchers or another app's notification. The surroundings are followed
  only where a check to come reads them: the shade and device up to the last notification check,
  the gateway during canary checks. The theorems lift all of these but the last.
- `ept_evidence`: at most two kinds of contact at once; no adjudicator relates more than two.
  Proved for any number below.
- `execution`: two checks with at most one evidence item each, two executions, three
  finalizations, one fault (a kill, or an error nothing catches). The run stops when the bounds
  are used up (no deadlock check), as a directory nobody touches does.
- `publication`: requests for two clients once, for one client twice (local), and for the next
  version of a client once, so a bundle can lack a subject or a repetition, hold a repetition too
  many, have one position claimed twice in two directories, or be compared with one of an older
  version; two plans, so leftovers are refused; three executions, so a position is measured anew
  between two bundles, the fewest that a comparison needs; one fault of any kind; two policies
  (one approves all subjects, the other withdraws one and asks for no redaction), changing any
  number of times. Status and target are constants of these policies: the two conditions do not
  depend on the run. Plans are replaced only after something was measured for them, which only
  leaves out renumberings. The run stops when the bounds are used up.

Fairness: time passes (`Tick`) and a running execution gets its turns (`AdapterStep`) in
`email_measurement`: the event loop is not blocked and the HTTP client has timeouts, so each
request returns or fails. Nothing is assumed of the mail path, the watchers, the client or the
gateway's staying up. `chat_lane` assumes the same two (`TimePasses`, `LaneStep`): the Appium
client, the HTTP client and the adb subprocess calls have timeouts. In `execution` a running
process goes on (`Work`), which assumes that an adapter returns or raises; `RunEnds` is what
justifies that for the email lane. No command is assumed to be run.

## Disagreements with the documentation

The six violation runs are listed as findings in `PROJECT.json`, each with the line that
says otherwise: the late append, the early end of the poll, the temporary checksum file that a
later finalization seals and then renames away, the receipt that no bundle with repetitions can
have, the chat pass without a confirmed display, and the notification pass after a
do-not-disturb probe that was never answered.

Others that a reading of the adapters shows and no run is spent on:

- any honey-message in the conversation satisfies `message_selector`, so an earlier check's
  bubble can assert the display of a later message;
- `_await_notification` stops at the first unreadable reading (chat_notification.py:685) although
  its docstring (line 671) polls until the attempts are exhausted. A shade without records is
  unreadable, too, so the pass `no-notification-posted` is never reached;
- the records of every package are judged and stored, although the note near line 744 says "Only
  the subject's own notifications are read". So the pass that says a notification "was due and
  posted" (line 459) can rest on another app's blank record, with the message never arrived;
- verdicts of all three pollers use the state read before the poll (or, in the webmail lane,
  before the browser), not the poll's refreshed copy: an email run whose poll ended because
  delivery was confirmed still reports that it never was (ept.py:351 and 944);
- a directory killed before its manifest is skipped by `aggregate` without a word
  (aggregation.py:47); the bundle is then incomplete, which it says;
- an error in `finalize_execution` ends `run_execution` without a manifest (execution.py:307-308),
  where the module "guarantee[s] a finalized result manifest" (execution.py:1); `Concludes` says
  what remains true;
- a driver that cannot be started makes `display_honey_message` raise where its protocol
  returns `False`; the check is an error instead of inconclusive;
- the notification adapter does not test the number's format as the chat adapter does.

## Theorems

All proofs are checked by TLAPS for every value of the constants under the named assumptions
beside the constants: `GatewayAssumption`, `EmailAssumption`, `LanesAssumption` (a plan's lane
is one of those `WebmailMeasurement` names), `EvidenceAssumption`, `ExecutionAssumption`,
`RunBundleAssumption`, `PublicationAssumption`, `ChatAssumption` and, in `Execution` and
`RunBundle`, `AbsentAssumption`. The bounds (`MaxTime`, `MaxFaults`, ...) are any naturals.
Every safety property a passing run checks is also proved.

`CanaryGatewayProofs`:

- `TypeCorrect`.
- `HealthCorrect` needs `BeatsAreVouchedFor`: a stored beat is no later than the last instant
  its watcher was up. The answer's cutoff was computed before the beats were read, so the
  argument goes through the request in progress: `lastUp` only grows (`UpIsKept`).
- `AdmissionCorrect` and `AcknowledgementCorrect` follow from `EvidenceInv`: a request past
  the expiry test still names an existing probe whose window held its clock reading, and past
  the append its observation is stored. Neither property is inductive alone: both speak of
  stored contacts, and the steps that store them trust what the request carries. `IdsInv`
  (ids are never drawn twice) is what keeps a new test from reviving an old id.
- `GrowthCorrect`, the action property, from the same invariant.
- `GatewayImplementsContract`: every step of the gateway is a step of `EvidenceStore` or a
  stutter (`StoreStep`). `EvidenceInv` gives the two facts the store's steps need of a request
  in progress: it was checked within the window of a probe that still exists, and past the
  append its observation is among those kept. `KeptFields` turns a change of one of the store's
  dictionaries into a change of one probe's record.

`EptEvidenceProofs`: `ScoresAreSound`, `OnlyClientsAreBlamed`, `DisclosuresStand` and
`SuiteAgrees`, for any set of contacts. The lemmas go adjudicator by adjudicator
(`RouteFailsOnClient`, `FailureGrows`).

`PublicationProofs`: `ReceiptsPinBundles`, through every kill, `--force`, edit and policy change.
The receipt check alone is not inductive: that a later bundle with the same id could carry other
bytes is excluded only by `PinInv`. Bundle ids are issued upwards, the checksum file is written
for the id issued just before, and that id has no receipt yet; so once the receipt exists no
other checksum file for its id can appear.

`ChatLaneProofs`: `LaneTypeCorrect`, `LaneCleanCorrect`, `LaneDisclosureCorrect` and
`DeviceCorrect`, for lanes of any length. A verdict speaks of the phone and the watchers, and
the adapter sees neither, so the invariant `LaneInv` ties what it holds to what is so.
`ThreadInv`: what the gateway confirms or a marker in the shade names has arrived. `HeldInv`:
the state held is of this check's message, and watchers it calls healthy were up after the
display. `ReadingInv`: the reading a verdict is made of has the last probes' answers, and its
markers have arrived. `AsleepInv`: between going to sleep and `restore` is the only time a
check may have left the phone asleep. `PcInv` keeps the adapters' control states apart. What
the adjudicators answer enters as lemmas (`ChatPass`, `ChatFail`, `NoticePass`,
`NoticeFail`). The type theorem needs `AttemptInv` (a reading is made only while an attempt is
left).

`ExecutionProofs`: `DirectoryTypeCorrect`, `OneExecutionCorrect`, `VerifiedIsCompleteCorrect`,
`SealHoldsCorrect` and `DirectoryImplementsContract`, for any number of checks, evidence items,
executions, finalizations, kills and uncaught errors. The properties speak of the disk, but a
step of the process writes what it computed from the disk steps ago, with kills in between; the
invariant `DirectoryInv` therefore also speaks of the file being written. `Filed`: every file,
and the one on its way, carries the id of the execution that began last (an execution begins in
an empty directory; this is what makes `--force`, file by file in any order, harmless). `Writes`
and `Bounds`: which file may be on its way at which point. `Progress`: which results exist at
which point, none of them being written again. `Evidence`: a result's evidence is on disk before
the result is. `Closing` and `Seals`: the manifest on its way describes the disk, a seal lists
what is there, and a listing made with nothing lost is complete. The names of files are proved
distinct once (`PathNames`, `ResultNames`, `EvidenceNames`). In the refinement a step on the
manifest file publishes, a removal that makes it unreadable discards, and all other steps settle
one verdict or stutter.

`BundleProofs`: `PublicationTypeCorrect`, `CompleteIsMeasuredCorrect`,
`VerdictIsEarnedCorrect`, `ReceiptIsEarnedCorrect`, `RegressionIsRealCorrect` and
`AggregationImplementsContract`. The row a comparison keeps for a client is shown to be that of
its newest version. The invariant `BundleInv` has three parts beside the type:
`Gathering` (while a collection runs, what was taken is what the slots read so far hold, all
of the plan, one per position, and copied), `Readable` (the manifest and every bundle the
checksums stand for were put together that way, whatever was damaged since) and `Staged` (a
receipt was earned under the policy it names, which may have changed since). `aggregate_run`
decides completeness twice, by counting and by listing what is missing; that the two agree is
a counting argument (`RepetitionCount`, `PositionCount`: no more members than positions, and as
many only if every position has one), as is that a row of the roll-up with as many results as
repetitions has one of each (`AllRepetitions`, `DecisiveRow`). Damage can restore a bundle
that an earlier damage hid, so the contract remembers what was made.

`LanesProofs`: `LanesTypeCorrect`, `CleanCorrect`, `DisclosureCorrect`, `ReadOpenCorrect`,
and `BrowserCorrect`, for any number of runs of both
lanes and collectors on one gateway, with restarts. A verdict rests on a state and contacts read
from the gateway earlier, so `LanesInv` says of each run what remains true of what it read:
`CallInv` and `HeldInv` (a delivery that was reported is on record as long as the probe is,
and watchers called healthy were up at the cutoff), `ReadInv` (the contacts are of the run's
probe, admitted in its window), `ProbeInv` (the probe's id is not drawn again: a restart may
forget the probe but nobody else can get it), `OpenInv` and `BrowserInv` (where the browser
and the open stand). The argument for one run has two halves: what a run knows stays true
while it stands still (`StillKeeps`), because the gateway only moves on (`Onward`, from the
gateway's invariants of `CanaryGatewayProofs`, whose step lemmas are reused), and each step of
its own keeps it (`OwnStep`). A request whose client gave up is the one step that is not the
gateway's own (`Dropped`). What the adjudicators answer enters as `CleanVerdict`,
`DisclosureVerdict` and `VerdictType`.

Only model-checked: liveness (`RunEnds`, `Concludes`, `LaneEnds`), which the prover cannot do
under fairness, and the six violation runs, whose properties are false.

## Not modelled

Of the webmail and chat adapters: reading credentials, numbers and recipes from the
environment, selectors and the evidence payloads; `parse_dumpsys_notifications` enters as
readable or not, and `probe_shade` is a command of its own that decides nothing. Whether
a Playwright object of the asynchronous API can be driven without `await`, as
`PlaywrightWebmailSession` does, is a matter of that library: `Browse` takes the calls to do
what their names say, or to raise. Of analysis, the Wilson interval and
the rendered table are left out; of publication, the workflow that uploads what was staged.
Preflight, report, site and the lab canary are I/O or rendering. Power loss is not
modelled: `write_bytes_atomic` does not sync; a process ends by a kill or by an error that nothing
catches.
The interpreter is the default build, with its global lock: `a.x = a.x | s` is one step.
Attribution (the canary route calls every fetch the client's) is taken as given.

## Plan

1. Proofs of what holds in place of the claims that do not: which contacts may still enter a
   closed window, and which bundles can have a receipt.
2. The lanes over `EvidenceStore` instead of the gateway itself: `Onward`, what a run relies on,
   stated of the contract, so that a lane's theorems need nothing of the threads.
