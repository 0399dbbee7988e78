# Verification of praana

TLA+ models of the parts of praana in which order, failure and concurrency
decide whether the program is right, the TLC runs that check them, and the
proofs TLAPS checks. Everything is translated from the code in `src/`; line
numbers below are those of the modelled commit. `PROJECT.json` holds the
machine-readable side: which definition stands for which lines (`map`), the
runs, a mutant per checked property, the hazards and the theorems.

1. [The system](#1-the-system)
2. [The plan](#2-the-plan)
3. [The modules](#3-the-modules)
4. [The runs and their bounds](#4-the-runs-and-their-bounds)
5. [Where the code and its words disagree](#5-where-the-code-and-its-words-disagree)
6. [What is proved](#6-what-is-proved)
7. [What is only model-checked, and what is not modelled](#7-what-is-only-model-checked-and-what-is-not-modelled)
8. [Running it](#8-running-it)

## 1. The system

praana is a coding agent. The repository holds it twice: a TypeScript program
(`src/src`, about 62k lines), a single process per session, and a Rust core
(`src/crates/praana-core`, about 67k lines) that is to replace it, with a
command line (`praana-cli`), native helpers and build tasks around it. The two
share a home directory, provider credentials and a session layout. A session
is a directory; its truth is one append-only event log, from which everything
else (the history database, the checkpoint, the state graph, what is sent to
the provider) is derived.

### Components of the Rust core

| Component | State it keeps | Operations | What makes it right |
|---|---|---|---|
| Event log (`history/event_log.rs`) | `events.jsonl`, `meta.json`, `session.lock`, the in-memory prefix, `unhealthy` | `create_or_open` with scan and tail repair, `append_event`, `mark_read_only`, drop | an acknowledged event is durable and found again at its place; one writer; a repair loses nothing that reached the medium |
| Event replayer (`history/replay.rs`) | the state of turns, attempts, steps, tools, compactions | admit or refuse an event | the log is never given an event it cannot be opened with |
| Recovery (`history/recovery.rs`) | none of its own; appends repairs | lost attempts, supersession, classification of started calls, batch completion, commits, journals, orphans | idempotent; what it leaves can be resumed; it never invents an outcome |
| Write journal (`history/journal.rs`, tool body in `tools/files.rs`) | manifest, before-images and staged files of one call | prepare, commit, rollback, adopt, retire | several files are replaced all or none; nobody else's bytes are overwritten |
| Artifact store (`history/artifact.rs`), spool (`history/spool.rs`) | blobs and rows of large results; shell output spools | commit, read, expire, collect | a result is stored before its finish event; the owner of a spool is known |
| Turn loop (`turn/mod.rs`) | open attempt, retry budget, cancellation, poison flag | begin, drive, run a step, retry, emergency resend, commit, interrupt, resume | bounded requests, one answer, every turn ends, also after kills |
| Tool batch (`tools/runtime.rs`, `tools/locks.rs`) | path leases, permits, the calls of a batch | admit, start, run, cancel, time out, publish | no body twice, no two bodies on one path, no start after an uncertain effect, the batch returns |
| UI sink (`ui_contract/sink.rs`) | bounded queue, two `Notify` handles, two counters | `emit` per priority, `recv`, `try_recv`, detach | bounds hold, critical records arrive once and in order, nobody sleeps for ever |
| Operation ledger and host journal (`history/operation_ledger.rs`) | operations by id, host files and revisions | prepare, replace, commit a revision, clean up, recover | an operation retried under its id happens once |
| Setup and credentials (`setup/mod.rs`, `credentials/`) | the credential store and the configuration, beside the ledger | log in, log out, apply a setup | no effect without a reservation, none after a stored result, patches one after the other |
| Compaction (`compaction/`, its driver in `turn/mod.rs`) | attempt, frozen source, active epoch | select, begin, finish, repair, activate, supersede, admit | an activation retires the oldest finished turns it read, once; a failure backs off; an admission ends |
| History database, checkpoint, search (`history/rebuild.rs`, `checkpoint.rs`, `search.rs`, ...) | SQLite files derived from the log, beside the artifacts that nothing can rebuild; a cursor in the conversation | project, rebuild by two renames, search page by page | a reader sees a replay of a prefix of the log; no artifact of a finish event is lost; the pages of a search are one snapshot |
| Session deletion (`history/deletion.rs`) | the trash directory | rename under the writer's lock, purge, retry | a session another process writes is not deleted |
| State graph (`state/`) | tickets and transitions | apply, replay | equals the replay of the log |
| Provider adapters (`provider/`) | stream decoders | decode, classify failures | a cut stream is not an answer |
| Hooks, redaction, token estimates, system context, configuration, protocol types, unicode tables | little or none | pure functions and I/O wrappers | by tests |

### Components of the TypeScript agent

| Component | State it keeps | Hard because |
|---|---|---|
| OAuth refresh (`oauth.ts`), credential store (`credentials.ts`), credential lock (`credential-lock.ts`) | one file of credentials per home directory, an SQLite lock database, per-process slot queues, refreshes in flight | rotating refresh tokens shared by processes: losing one signs the user out everywhere |
| Session and turn controller (`session.ts`, `turn.ts`) | messages, checkpoints | the same questions as the Rust turn loop |
| Event log (`event-log.ts`) | a JSONL file and a cache | torn tail, migration of an older format |
| Stream guard (`stream-guard.ts`), model drivers | timers of one stream | a timer races the terminal frame |
| Language servers, memory, context engine, tools, user interface | processes, SQLite rows, text | I/O and ranking |

### How they interact

A call of the command line opens a session: it takes the log's lock, scans and
repairs the tail, replays, runs recovery, and hands the log to the turn loop.
The loop appends every fact before it acts on it (`AssistantAttemptStarted`
before the request, `ToolExecutionStarted` before the body) and every outcome
after it; each append passes the replayer first. A step that asks for tools
becomes a tool batch; bodies run as tasks, edits of several files go through
the write journal, results above a budget through the artifact store. The sink
is the only thing a user interface shares with the loop. Recovery is where the
parts meet again after a death: it reads the log, the artifact rows and the
journals on disk and must come to one conclusion about each call.

### What is hard here

- **Death between two steps.** Every protocol above is a sequence of durable
  steps, and recovery itself may die between any two of its repairs.
- **Failed calls that are not deaths.** A write that stops half way, an fsync
  that fails, a lost artifact: the process lives on with less knowledge.
- **Tasks that do not stop.** A tool body can outlive its cancellation, its
  deadline and the future that awaited it.
- **Two processes.** The session lock, the credential store, a user's editor.
- **Wake-ups.** The sink's consumer and producers sleep on separate handles
  outside the mutex that guards what they wait for.
- **Late answers.** A refresh whose caller, credential or process is gone.

- **Derived state that outlives what it was derived from.** The log may lose
  its unsynced end after the database has seen it, and grow anew.
- **An answer for a question nobody asks any more.** The compactor's summary of
  a history that was reset meanwhile, a page of a search whose index moved on.

`PROJECT.json` lists 40 such hazards at their lines with the properties that
would catch each. Some noticed while reading are not listed there and wait for
their module: trash entries that are purged by name (`deletion.rs:117`), the
calibration file (`calibration_store.rs:207`), spool ownership (`spool.rs:133`,
`193`), the state graph's checkpoint (`state/checkpoint.rs`), the legacy
migration of the TypeScript log (`event-log.ts:77`), the stream guard
(`stream-guard.ts:233`), the in-memory wall budget of a turn
(`turn/mod.rs:1450`).

## 2. The plan

The order follows what a user loses when the part fails: files first, then the
log, then tool effects, then turns, then the interface, then credentials.

| # | Module | Composition | State |
|---|---|---|---|
| 1 | `WriteJournal` | tool body, journal and recovery of one call | done, four theorems |
| 2 | `EventLog` | implements `AppendOnlyLog` | done, refinement proved |
| 3 | `ToolBatch` | runtime, path locks, the replayer's tool rules, recovery; sees a journal as open, conflict or none | done, seven theorems |
| 4 | `Turn` | turn loop, the replayer's turn rules, recovery; sees a batch from outside; implements `TurnContract` | done, refinement proved |
| 5 | `UiSink` | producers, sink, consumer | done, five theorems |
| 6 | `TokenRefresh` | calls, gates, slot queue, lock, store, provider | done, five theorems |
| 7 | `HostOperations` | `OperationLedger`, `SetupCalls` and `HostJournal`: an operation sent, repeated, stopped and recovered | done, six theorems |
| 8 | `Compaction` | activation over a log that grows, its driver, recovery, processes; implements `RetiredHistory` | done, five theorems with the refinement |
| 9 | `HistoryDatabase` | log, artifact store, projection (`HistoryProjection`), rebuild, search | done, six theorems |
| 10 | `CredentialLock` | the repair of an unreadable lock file by two processes; the access token's own age in `TokenRefresh` | next |
| 11 | `SessionDirectory` | deletion under the lock of the session, three processes | next |
| 12 | `TsEventLog`, `StreamGuard`, the calibration file | small protocols of their own | later |
| 13 | state graph, redaction window | pure operators against a reference | later |

Every safety property of a passing run is a theorem. Worth proving next is what
liveness rests on without being liveness: that each admission of a compacting
driver retires turns (`AdmissionSettles`), that a recovery has fewer things left
to repair after each of its steps.

Abstract specifications: `AppendOnlyLog` (what a log promises a writer),
`TurnContract` (what a turn promises a reader) and `RetiredHistory` (what
compaction promises a session).

## 3. The modules

Every module keeps the source's names where TLA+ allows. Comments that start
with "Bug:" precede mutated operators: they are not part of the model, and the
table `mutants` in `PROJECT.json` says which definition each would replace and
which property then fails.

### WriteJournal

One `batch_write` or `batch_edit` call over `N` files. The variables are the
target files (content and identity), the journal on disk (`json`, `payload`,
`phase`, `next`, `repl`, `origBytes`, `origId`), the durable finish event, and
the process (`pc`, `mode`, `k`, `outcome`). One action is one durable step:
`CaptureEntry`, `StorePrepared`, `VerifyOriginal`, `AtomicReplace`,
`RecordReplacement`, `CommitDone` for `prepare` and `commit`;
`AdoptUnrecordedReplacement`, `ConfirmReplacement`, `RestoreEntry`,
`StoreRollbackStep`, `StoreRollbackRequired` for `rollback`; `RetirePayload`
and `RetireManifest`; the tool body's `AppendFinish`; recovery's three
branches. `Crash` stops the process at any point of `CrashPoints`, `Fault`
fails an I/O call at any point of `FaultPoints`, `ExternalEdit` is somebody
else's write, which may also fall between the check of a target and its rename;
`raced` remembers that it did.

Abstractions: the bytes of a file are before, after, external or absent; the
replacement differs from the original; an identity is a version number; the
payload is one flag per entry. Symlink refusal, path confinement and the
branch of recovery that reconstructs a finish from an artifact are not here
(the last is in `ToolBatch`).

Properties: `NeverTorn`, `OutcomeTruthful`, `ExternalBytesSurvive` (a write of
somebody else is lost only if it came between a check and its rename),
`TornHasBeforeImage`, `ConflictNeedsEdit`, and `JournalSettled`: a journal
does not stay under a session that works. The others speak of the files nobody
else edited during the call; without that restriction no code could keep them.

### EventLog and AppendOnlyLog

A log is its complete lines and a tail; `file` is what a read returns, `stable`
what the medium holds, and `Writeback` moves any part of the difference at any
time. `create_or_open` is `TryAcquire`, `OpenEvents`, `ScanWhole` or
`QuarantineTail`/`TruncateTail` or `RepairLf`, `SyncRepair`, `PublishMeta` or
`MetaRefuses`; an append is `WriteLine`, then `Acknowledge`; `WriteFails`,
`SyncFails` and `OpenFails` are the failed calls; `Kill` ends a process,
`PowerLoss` all of them and the unwritten bytes with them.

`AppendOnlyLog` has three steps: write one event, acknowledge, lose a suffix
that was never acknowledged. `IsAppendOnlyLog` is the refinement with the
complete lines as the log.

Assumptions about the platform: a truncation reaches the medium before later
bytes; the publication of `meta.json` is atomic; pages of a failed fsync are not
dropped; files are not filled with zeros after a power loss. Not modelled: file
modes, symlinks, the config snapshot, lines of a foreign schema, a descriptor
inherited over fork. The scan's refusals are left out as actions because
`AckedSessionOpens` shows that a session with an acknowledged event never meets
one. A session that died while it was created may be refused with
`E_SESSION_NOT_STARTED`; that is what the code intends.

### ToolBatch

A batch of `NumCalls` calls, from the model's request to `ToolBatchCompleted`,
including the processes that die and take it up again. `st` is where the driver
is with a call, `body` its task, `lease`/`readers`/`writer` the path lock table,
`permits` the semaphore; `started`, `finish`, `completed` are the events,
`orphan` and `journal` what else is on disk. The driver is one task: what it
does between two awaits is one action. A body can end in any way, conflict, be
aborted, or never end. `Cancel`, deadlines, the grace period, poisoning, failed
appends (`Fail`) and `Kill` come at any point; recovery classifies started calls
and the resumed turn offers the batch again.

Abstractions: hooks are folded into one "error" outcome before the start; a
redaction failure into a body's error; verification and enrichment hooks change
nothing; risk prompts, canonicalisation errors and the state checkpoint are not
modelled. One process at a time has the session (that is `EventLog`'s lock).
Call ids are fresh. The non-durable `execute_batch` is used by tests and is left
out.

### Turn and TurnContract

`phase`, `steps`, `batch` and `tries` are what the replayer reads off the log
about the newest turn; `at`, `cancelled`, `poisoned`, `spent` and `unavailable`
die with the process. `Open` and `Recovery` bring a process up (the last step of
`Recovery`, `Recovered`, puts the compactor back), `StartTurn`, `ContinueTurn` and
`RunTurn` are the commands, `Drive`, `Step`, `Provider` and `Batch` the
loop, each append guarded by the replayer's rule (`Admission`); an append the
log refuses ends the drive and is recorded in `refused`.

Four ways in which a command leaves the turn open are actions of their own:
`Refuse`; `ContinueRefused`, when the runtime is poisoned or the compactor's
credential is missing (`turn/mod.rs:750-751`; `credential` is what the user has,
`unavailable` what the process has noticed); `CommandFails`, when the state graph
is broken or a request cannot be measured; and `Kill`. A compactor that is refused
for its credential in the middle of a turn (`CompactionUnavailable`) ends the turn,
and then no other begins in that process.

`TurnContract` is what a reader of the session relies on: requests only while an
answer is wanted and at most `MaxAttempts` per step, a step accepted once and
only in reply to a request, committed exactly when answered, over when over.

Abstractions: `"stop"` stands for the finish reasons Stop and Length; attempts
are numbered by position; turns before the newest are forgotten; the batch is
started, partial, full or complete; live compaction, admission and the output
reserve appear only as the interruption they may lead to, auto-hydration and the
estimates as `CommandFails`; a resume that fails before its recovery (a lock, a
frozen configuration it cannot read, a provider it cannot build) is one that has
not come yet; a failed append or an expired grace is a kill; compaction attempts and the gap
between recovery and the second opening of the log (`turn/mod.rs:589-658`) are
in `Compaction`; changes of model are left out; `spent` counts units of backoff.

### UiSink

Producers call `emit`, one consumer `recv` or `try_recv`. What happens under the
mutex is one step; the two `Notify` handles work outside it, with a permit for
`notify_one` and a set of woken futures for `notify_waiters`. Critical records
wait for room and detach the sink when their deadline passes, latest-only
records replace or evict, deltas merge or are dropped. A record carries the
numbers of the payloads it stands for, so that order and loss can be stated.
`Offers` gives the kinds and sizes of records that producers emit.

Abstractions: a delta's block belongs to one producer; the size of a merged
delta is the sum; the first look at the mutex is not timed out; cancelled
futures are not modelled; the null sink and validation change no state.

### TokenRefresh

One provider's credential and the sessions that share it. A call asks the store
(`Ask`), joins the refresh in flight (`Join`) or starts one (`Start`); a refresh
queues for the process's slot, takes the operating-system lock, reads the store
again, sends the refresh token, and stores the answer only over the token it
sent (`Commit`). The gate of a refresh is aborted when its last caller leaves.
`Login`, `Logout` and `Age` are the world; `Serve` the provider, which rotates,
keeps or refuses; `CommitFails` and `RequestFails` the lost answers; `Kill` ends
a session. `line`, `choice` and `spent` are history: which login a token
descends from, what the user last chose, which tokens have a successor that
could be stored.

Abstractions: a refresh is named by the call that started it; the sections under
the store's short lock are single steps, and its time-out appears only where it
loses an answer; a time-out of the long wait is nondeterministic but possible
only while somebody else has the slot or the lock; saving an API key is a
logout; what a call returns (token, none, busy, failure) is "settled" against
"aborted"; a killed session does not come back (another session stands for it).
Not modelled: the repair of an unreadable lock file, login flows, the providers
with their own exchanges, the retries of `turn.ts`.

### HostOperations (OperationLedger, SetupCalls, HostJournal)

`OperationLedger` has one row per operation id and the calls that read, reserve,
complete and prune rows; a transaction is one step. `SetupCalls` has the effects
of a login, a logout and a setup: the credential store is loaded, changed in
memory and replaced, the configuration file written, the result stored, each a
step of its own that a kill or a failed call may follow. `HostJournal` has the
journaled write of one target with its manifest, before- and after-file and
revision. `HostOperations` composes them and adds the processes: `Start` with
`recover_host_journal` and `recover_reserved_operations`, kills, retries under
the same id.

A request is a kind, the revision it was planned at, a secret and a provider;
`Offers` says which requests callers send under each id, so that an id may be
reused for another request, and also sent again while a process still works on it;
a call's `overtaken` remembers that another process stored the result under its id
after its lookup. Nothing outside tests calls the recoveries, the
journaled writes or the pruning; they are modelled as the library offers them,
recovery by a process that is alone, one journaled write at a time. The
credential store has no lock between processes, and the temporary file
`.credentials-<pid>.tmp` that a failed write leaves stops later writes of that
process. A journal that shows neither the old nor the new bytes is kept, and
every later recovery fails on it (`RecoverFails`). The journal of a finished write
whose row was pruned is kept (`RecoverKeeps`), or fails the recovery when its
result can be rebuilt and there is no row to store it in. Not modelled: the session's
own ledger, the validation of fields, the rendering of the configuration.

### Compaction and RetiredHistory

The log is given by what replay makes of it: the turns since the last reset with
their masses, the attempts, the activations, the supersessions. Processes open
the log one after the other; `Resume` and `Recovered` are the first hold of its
lock, `Open` the second. `Candidate` is the gate with its back-off
(`Unconsidered`), `Begin` freezes the source, the compactor answers, fails or is
refused for missing credentials, `SourceUnchanged` is the recheck, `Activate`
and `Supersede` the two events of success, `Repair` the one repeated request.
`Admit`, `Launch`, `After` and `Settle` are the turn driver's admission loop,
`CompactNow` the command. `RetiredHistory` is what a reader is promised: the
oldest finished turns leave the history, whole and once, and only so.

Abstractions: how full a request is is a choice between `Admit` and `Launch`;
what the compactor answers is a choice; the text of a candidate, the creation
gate and the control message are left out, as is the hash over the source's
bytes; a handoff is an epoch; a cancellation is an attempt that is not repaired;
a failed append of a start, and a grace that ends, are `Fails` and `Kill`.
`Background` lets the log grow between begin and finish, which the library
allows and `run` itself, holding the log, does not. No code of the repository
writes a reset; it is external. Interrupted turns have a valid capsule.

### HistoryProjection and HistoryDatabase

`HistoryProjection` is the derivation as operators: the checkpoint's state
against the log (`CheckpointState`), one event folded into the rows
(`ApplyEvent`), the projection of a tail from the checkpoint or of the whole log
from nothing (`Projected`), the copy and projection of a rebuild (`Rebuilt`). An
event is its place in the log and the count of crashes before it, so that an
event that was lost and the one written in its place differ.

`HistoryDatabase` is the session around it. `Verify`, `RepairCall` and
`CollectOrphans` are recovery's dealings with the artifact store; `OpenForLoop`
and `ProjectAtResume` bring the database up; `StartTurn` to `CloseTurn`, with
`PersistArtifact` before `FinishArtifact`, are the turn; `Project` follows a
closed turn, an activation, and precedes a history tool; `ReadPage` is a page of
a search; `OpenForRebuild` to `PutInPlace` are the rebuild, one action per
rename. `Named` and `Opened` say what the next opener finds under the name.

Abstractions: one process at a time, killed anywhere; SQLite's commits are
durable (`synchronous=FULL`); a turn's first two events are one; committed and
interrupted turns are not told apart; all artifacts share one blob; operation
records, summary segments and state rows are left out. Every document matches
the query and a page has one result; `Relevance` stands for bm25: it may turn
the order round whenever the index changes. The events of a history call have
no rows and are left out of the log, but not their fsync. A projection that
fails in the loop may fail for any reason, and is then only reported. A power
loss inside a rebuild is treated as a kill (the directory's fsyncs are not
modelled). Rebuild and the rebuilding `project` are library operations nobody
outside tests calls; a reset is external as above.

A rebuild may be killed between the rename of the database and that of its
write-ahead log. The next opener then reads the rebuilt file with the old log over
it (`Mixed`, section 5), and what is in such a file nobody can say: the properties
speak of the files that are not mixed. At resume, a projection that fails the
integrity of the log or of an artifact ends the process; a database that is busy,
fails or has an invalid checkpoint does not (`ProjectAtResume`).

## 4. The runs and their bounds

| Run | Instance | Shows | Distinct states |
|---|---|---|---|
| `journal_crashes` | 2 files (one exists), 2 stops, 1 failed call, 2 foreign edits, anywhere | `NeverTorn`, `OutcomeTruthful`, `ExternalBytesSurvive`, `JournalSettled` | 235k |
| `event_log_faults` | 2 processes, 3 events, 2 kills, 1 power loss, 2 failed calls | `AckedSurvive`, `AckedSessionOpens`, `DurableBytesKept`, `IsAppendOnlyLog` | 243k |
| `tool_batch_crashes` | 2 calls of four kinds, 2 paths, 1 or 2 permits, 2 kills, 1 failed append | five safety properties and `BatchEnds` | 347k |
| `turn_kills` | 2 turns, 2 steps, 3 attempts, 2 kills, a credential that comes and goes | the turn's contract and its end | 560k |
| `ui_sink_queue` | 2 producers, one of them with records of all kinds, 2 slots, 3 records altogether | bounds, order, once-only, wake-ups, and that every emit returns | 141k |
| `token_refresh` | 2 sessions, 3 calls, 3 tokens | one request per token, the user's choice, progress | 152k |
| `host_operations` | 2 processes, 3 calls of seven operations, 2 kills, 1 failed call | no invented success, no effect after a result, serial settings, an interrupted write left nothing | 1637k |
| `compaction_epochs` | 2 processes, 2 turns on each side of a reset, 1 repair, 1 kill, the log growing beside the compactor | one open attempt, one outcome, back-off, `RetiresOldest`, and that an admission ends | 528k |
| `history_database` | 5 events, 2 calls, 1 rebuild, 1 kill, 1 power loss | `DerivedIsReplay`, `ArtifactKept`, `PagesAreSnapshot` | 1553k |

and three runs that find a property violated (section 5).

Why these bounds. *Journal*: two files are the least that can be torn. Two stops
let the second fall into the recovery from the first. *Log*: three events let one
be acknowledged, one be lost and one come after; two processes let one die and
the other repair; two faults let a failed write be followed by a failed sync or
opening. *Batch*: two calls are enough for order and for conflicts in both
directions; with one permit one of them waits for the other's, with two they run
side by side; two kills put the second into the recovery from the first. *Turn*:
three attempts leave room for a failure, a retry and the emergency resend; two
turns show that the budget starts anew and that an open turn blocks the next.
*Sink*: sizes 1 to 4 against two slots and three units make records that fit
beside others, only alone, and never, and both producers wait. *Refresh*: two
calls share a session, the third is another process; three tokens allow a
rotation and a login after it, or two rotations. *Host*: two processes and three
operations let one repeat what the other did and a third come between; the
second kill falls into the recovery from the first. *Compaction*: two turns on
each side of a reset let one finish while an earlier one is being summarised;
two processes let one resume beside the other's death. *History*: five events
hold a turn, a call, its artifact, the turn's end and a compaction of it, or a
turn with two calls: the turn and the first result are two pages of a search and
the second result lands between them; one kill leaves unsynced lines and the
power loss takes them; and one rebuild can be cut in any place.

`TypeOK` (`HostTypeOK` in `HostOperations`) is a theorem of every system that has a
run (section 6). It is not among the runs' properties: a theorem says it of every
instance, and each property costs a run of its own per mutant. `Interchangeable`
(processes of the log) is used as symmetry only where there is no liveness
property: the only temporal formulas of `event_log_faults` are conditions on
single steps.

Deadlock is checked in the journal, log, turn and compaction runs: their specifications
always have a next step, so a stuck state would be a modelling error. The other
systems may stop: a batch is over, the producers of the sink have emitted their
share and the consumer waits, all calls for a token have returned, all
operations are sent, the bounds of events, attempts or kills are used up. There
`CHECK_DEADLOCK FALSE` stands in the configuration, in all but `host_operations`
and `history_database` beside a liveness property.

### Fairness

| Module | Assumed | Because |
|---|---|---|
| `WriteJournal` | the program goes on, and a stopped session is opened again | sequential code; a journal nobody opens stays |
| `ToolBatch` | the driver's steps (`Progress`) | tokio polls the task, its timers fire; nothing about bodies |
| `Turn` | the loop, the provider's answer or time-out, the resumption of an open turn by a command that gets as far as the recovery | requests have deadlines; a turn nobody resumes stays open |
| `UiSink` | each producer inside `emit`, the consumer inside `recv`; not that the consumer calls `recv` again | tokio polls what can run and fires timers |
| `TokenRefresh` | a call that was started, a refresh's polling and timers | event loop, 15 s and 60 s request timers, a polled wait with an end |
| `Compaction` | an admission that was begun goes on (`Admits`), a compactor that was asked answers or fails (`Compacts`) | the driver is one task; the compactor is waited for under a deadline |
| `HostOperations`, `HistoryDatabase` | nothing | only safety is stated |

`TurnEnds` has a premise besides, `Unobstructed`: from some time on the compactor's
credential is there and what a request is made of can be read and measured. The
code does not ensure it: without the credential every resume ends with
`COMPACTION_UNAVAILABLE` and the turn stays open, as long as the user likes. Until
then the credential may come and go and commands may fail any number of times.

Nothing else is assumed of users, other processes' logins, or the provider's good
will. Kills are bounded by the instance, which is the assumption that they stop.

## 5. Where the code and its words disagree

Three runs have `expect: violation`. Each checks one property taken from a
comment.

- **`journal_retire_crash`: `TornHasBeforeImage`.** `retire_write_journal`
  (`journal.rs:327`) removes the before-images while the manifest still stands.
  If the process stops in between, before the finish event is durable, recovery
  rolls back what it can, does not find a before-image, and leaves a batch that
  was complete half undone with nothing to restore from. `files.rs:830-831` says
  the before-image is not to be destroyed on an unproved rollback failure.
- **`tool_batch_retained`: `ConflictIsRetained`.** Recovery finishes a call from
  its artifact row and then retires its journal (`recovery.rs:295-314`) whatever
  status the row has; a large uncertain result is stored as an artifact before
  its finish event. A stop in between deletes the journal of a conflict, which
  `files.rs:830-832` says recovery must retain.
- **`turn_resume`: `ResumeDrivesToCompletion`.** After a failure that had
  emitted text and a stop before `TurnInterrupted`, a resumed drive offers a
  retry that the replayer refuses (`turn/mod.rs:1523`, `replay.rs:406-408`);
  recovery closes only answered turns and no new turn can begin, so the session
  cannot go on. `turn/mod.rs:1017-1018` says the drive would complete such a
  turn.

Further configurations hold counterexamples to statements that are weaker
evidence of a fault. They are not among the runs; each can be run by hand.

| Configuration | Statement | What the trace shows |
|---|---|---|
| `WriteJournal_race.cfg` | `ExternalBytesUntouched` | an edit between the identity check (`journal.rs:246`) and the rename (255) is overwritten; no file system call the code uses could close the window |
| `WriteJournal_restart.cfg` | `ConflictNeedsEdit` | a stop during retirement makes a later recovery report a conflict nobody caused |
| `WriteJournal_failpoints.cfg` | `ConflictNeedsEdit`, `TornHasBeforeImage` | none: both hold, for three files, in the stretch the repository's crash tests cover |
| `EventLog_reported.cfg` | `ReportedIsDurable` | a whole line that was never synced is accepted after a kill, acted on, and lost with the power |
| `ToolBatch_readonly.cfg` | `UnresolvedIsReadOnly` | a conflict found by a body that ended inside the grace is thrown away with its outcome; the restarted session is writable |
| `Turn_emission.cfg` | `NoRetryAfterEmission` | a delta the loop saw but that was not recorded as observable does not stop a retry by the next process |
| `Turn_cancelled.cfg` | `InterruptedHasNoAnswer` | a cancellation between an accepted answer and its commit |
| `UiSink_woken.cfg` | `WaiterSeesRoom` | a critical emission sleeps to its deadline beside room: the wake-up came before it slept |
| the same with `Offers <- Shrinking`, `MaxRecords = 4`, `MaxBytes = 2`, `MaxEmits = 4` | `RoomWakesWaiters` as a `PROPERTY` | room made by an eviction or a smaller payload wakes nobody |
| `UiSink_closed.cfg` | `DetachClosesReceiver` | the consumer goes to sleep as the sink detaches: `notify_waiters` leaves no permit behind |
| `HostOperations_retry.cfg` | `RetryIsNotRefused` | a setup whose store was saved and whose result was not is refused for ever with a revision conflict, which `setup/mod.rs:593-595` says the replay comes before |
| `HostOperations_overlap.cfg` | `ResultIsFinal` | an id sent again while its first call still works: both have the effect |
| `Compaction_gap.cfg` | `LostNeverSuppresses` | a second process starts a turn and a compaction and is killed between the recovery of a resuming process (`turn/mod.rs:594-643`) and its second opening of the log (658): the attempt stays open, and no compaction is launched until the next restart (`activate.rs:514` says a lost attempt does not back off) |
| `HistoryDatabase_sidecar.cfg` | `OwnWriteAheadLog` | a rebuild killed after `history.db` was renamed aside and before its `-wal` was: `complete_interrupted_rename` (`rebuild.rs:179-197`) moves no sidecar, and the rebuilt file is opened with the old log, which is what `rebuild.rs:102-105` moves the sidecars to prevent |
| `HistoryDatabase_lost.cfg` | `SearchesTheLog` | a database ahead of a log that lost its end stays invalid at every resume (`turn/mod.rs:612-622`), although its message says that reopening rebuilds it (`checkpoint.rs:125`), and a search goes on finding the events that were lost (`search.rs:398-426` does not compare the checkpoint with the log) |

## 6. What is proved

All theorems hold for every value of the constants that the modules' named
assumptions allow: any number of files, processes, calls, paths, steps,
attempts, producers, sessions, turns, masses, kills and faults. The assumptions only give
constants their types (numbers are natural, a home is a session, "none" is
nobody), with one exception: `ToolBatchAssumption` says that a call that writes
is mutating and a mutating call has effects, which is what inspection returns.
Each proof module extends its component; TLC evaluates the assumptions on every
run.

**JournalProofs** proves, of `WriteJournal`, `SpecTypeOK`, `SpecNeverTorn`,
`SpecOutcomeTruthful` and `SpecExternalBytesSurvive`. None of the safety
properties is inductive: that the files are all-or-nothing when the manifest
goes depends on what each stretch of the protocol has established. `IInv` says,
per stretch, which files are replaced: while preparing none, while committing
those up to `next` (and the one whose record is pending), while rolling back
those beyond `k` are restored, and before retirement all or none. Two facts
connect a dead process with its successor: before-images are taken from
untouched files (`Captured`), and the manifest lags the files by at most one
entry (`BeyondNext`). For `SpecExternalBytesSurvive`: a version somebody else
wrote is newer than the identity the journal captured (`NewerThanCaptured`), so
no check takes it for one that may be replaced, and what a check found still
holds at its rename unless that very target was edited in between (`Checked`).

The same module proves, of `HostOperations`, `HostSpecTypeOK`,
`SpecSucceededIsApplied`, `SpecNoEffectAfterResult`, `SpecSettingsAreSerial`,
`SpecInterruptedHadNoEffect` and `SpecAfterIsCommitted` for any processes, ids,
requests, kills and failures, overlapping calls under one id included. A call
that changes something under an id with a result was past its lookup when
another process stored that result; that there is such a call, section 5 shows.
The invariant, `HostInv`, in words: who recovers is alone, and one journaled
write is under way at a time, which is how the model lets them be called
(`AloneInv`); what a call has done when it is at a step, so that it is at a
write only while its row is reserved (`StepOf`); an operation's bytes are
installed once and the revision moves only in the transaction that stores the
result (`BytesInv`). So a target that holds the bytes of an operation without a
result is at the revision its plan was made for, and matches neither side of its
journal (`UnsettledIsMixed`): recovery takes it for what it is, and never
removes a journal whose write had an effect nobody recorded (`RecoveryInv`). A
pruned row leaves no name behind, so what is said of an operation is said of
those that were pruned too (`RowInv`).

**EventLogProofs** proves `SpecTypeOK`, `SpecAckedSurvive`,
`SpecWriterKnowsTheFile`, `SpecAckedSessionOpens`, `SpecDurableBytesKept` and
the refinement `SpecIsAppendOnlyLog`. The invariant relates the three copies of the log: the
complete lines of the medium begin those of the file, nothing is written before
the manifest is published, the memory of the process that holds the lock is the
file as far as its place in opening or appending says, and acknowledged events
are a prefix of the medium. A healthy store's memory is the file, which is what
makes the next sequence right. For the bytes of the medium: the file always
extends them or their tail is in the quarantine already, because the cut waits
for the copy to be synced.

**ToolBatchProofs** proves `SpecTypeOK`, `SpecLockTableIsLeases`,
`SpecNoConflictingBodies`, `SpecRunsAtMostOnce`, `SpecStuckBodyIsReported`,
`SpecReplayAccepts` and `SpecNothingStartsAfterUncertainty`. The invariant is
`Control` (types, and what is true of a call, a phase and a body at each place),
`Compatible` (any two admitted calls agree on their paths), `Table` (the lock
table counts the leases) and `PermitInv`. The idea: all leases are taken before
any body is spawned, so when a failed append drops the leases while bodies run,
nothing new can be admitted in that process, and the bodies that run were
compatible already. `RunsAtMostOnce` rests on the started event: a call the log
knows is classified by recovery and never offered again.

**TurnProofs** proves `SpecTypeOK`, `SpecSendsAreBounded`, `SpecSupersededOnce`,
`SpecRecoveredIsSettled`, `SpecOnlyKnownRefusals`, `SpecAnswerIsCommitted` and
the refinement `SpecKeepsContract`. The heart of the invariant is `ControlInv`:
an open attempt, an unsettled retry, a started call or an answered turn exists
only while the process is at the place that finishes it, or is dead and
recovery has not come to it yet. The refinement maps the requests sent to the
attempts of the step that is wanted, so an accepted step resets them.

**UiSinkProofs** proves `SpecReaderIsAwake`, `SpecWithinBounds`,
`SpecCriticalExactlyOnce`, `SpecDeltasInOrder` and `SpecTypeOK`. That no
`notify_one` is lost between the consumer's look at the queue and its await needs
only where tasks can be (`Places`). The others rest on `SInv`: the weight of the
queue is the sum of its records', the stream (what was delivered, then what is
queued) has the critical records once and in the order they were pushed, and a
producer's chunks in order without a gap inside a record (`Sound`); a record on
its way to the queue is not in the stream yet (`Pending`, `Numbered`). The model's sums and
selections are folds, whose recursive definitions the provers cannot unfold: the
module first proves that a function with their recursion exists, by induction
over a set of numbers in the place of a predicate, and from it what each fold
does to a record appended, removed or merged.

**TokenRefreshProofs** proves `SpecOneRequestPerToken`, `SpecChoiceStands`,
`SpecNobodyElseAborted`, `SpecSlotsAreLive` and `SpecTypeOK`. `Holding`: a refresh between taking the lock and its
end has its process's slot and the lock, so there is one such refresh in all
sessions. `TokenInv`: the stored token and every answer were issued, are not
spent, and descend from the login they came from; since an answer is stored only
over the token that was sent, it is of the same line. `GateInv`: a refresh
somebody waits for has an open gate, so it cannot end as aborted. `SlotInv`: who
holds the slot of a process is a refresh that runs, and its queue lists those that
wait for it, each once (`IsQueueOf`), so a slot is never left with somebody who
is gone while others wait.

**CompactionProofs** proves `SpecTypeOK`, `SpecOneAttemptOpen`, `SpecOneOutcome`,
`SpecFailuresNeedNewTurns` and the refinement `SpecRetiresOldest`. For the refinement: `Shape` (only the
last turn may be running, what was retired is finished and has nothing older
beside it), `Frozen` (what a running operation read is a block of the oldest
turns that were left in the history then) and `Driven` (a driver that is not idle
has a running turn). From these, `SourceUnchanged` at the activation gives that
the turns are still the oldest. Nothing in the argument needs the session's lock
or that recovery came first: the recheck alone carries it. `Single` is the
invariant behind `OneAttemptOpen`. `OneOutcome` does need the lock: `Locked` says
that nobody recovers a log while a compaction runs, `Told` what the log says of
operations and supersessions, `Known` that a running operation's attempt is still
as its process left it, so a recovery and the operation never end the same
attempt or supersede it twice. `FailuresNeedNewTurns` is a matter of book-keeping
(`Accounts`): an operation that runs has its failure paid for in advance, by the
turns that had closed when its attempt started or by a `compact_now`; the attempt
that ended last says what is left, because a launch after a failure needs a turn
that closed since it started, and a launch after a lost attempt uses what that
attempt did not; a reset or an activation clears the books, and what is still
running then was asked for. The counts are compared through the finite-set
theorems, and `Clock` (no event is from the future) gives that only the last
attempt to end can be the latest.

**HistoryDatabaseProofs** proves `SpecTypeOK` and `SpecArtifactKept`, and of the
projection `SpecDerivedIsReplay` and `SpecPagesAreSnapshot`. `FileInv` says what can lie
under the two names: a file is missing, mixed, or `Complete` (each artifact row
names the place of its event and has its bytes), an unfinished rebuild never lies
alone, and a file waits aside its write-ahead log only while its name is free.
`PcInv` says where the process has a complete file, that a call that is being
published has the row of the next event, and that a built file has the rows of
the one it will replace. `KeptInv`, of the file that the next opener finds, is
the property itself. For the artifacts the projection is opened only as far as to
see that it leaves them alone, so that part holds whatever its folds compute: mixing is the only way to lose an
artifact.

For the other two the folds are opened. A replay of a log is a function P of its
places, the rows after each event (`Replay`); the fold of the whole log ends in
the last of them, and so does the incremental one, which starts at the checkpoint
of a file and holds in memory only the rows that the tail of the log touches
(`Agree`). A file that lies beside the log may have been made from a log that was
shorter, or that lost an unsynced end to a kill and was written on in another
life of the process: `Earlier` says what the two logs have in common, `From` and
`Sound` that the rows under the file's checkpoint are the replay of the log it was
made from, and `RowsOk` that its artifact rows fit the finish events in their
places. When the checkpoint fits today's log, the replay of the one is a prefix
of the replay of the other (`DInv`, `DerivedIsReplay`). For a search, rows carry
the place at which they were added, so the rows after the frozen prefix can be
found again in those of any longer log (`CInv`); the pages read so far are the best
of that prefix and a next page goes on below the last result (`Pages`).

## 7. What is only model-checked, and what is not modelled

Liveness stays with TLC, because the proof system handles neither fairness nor
`ENABLED`: `JournalSettled`, `BatchEnds`, `TurnEnds`, `EmitReturns`,
`CallReturns`, `AdmissionSettles`. Also only checked: `TornHasBeforeImage` and
`ConflictNeedsEdit` of the journal (they hold only inside the failpoint
stretch). Every other property of a passing run is proved for all values of the
constants, from no assumption but the named ones of the modules.

Three limits a reader should know. `JournalSettled` lets a manifest store that
fails after its rename leave an orphan manifest: no later step of the same call
removes it. `TurnEnds` speaks of resumes that nothing obstructs for ever
(`Unobstructed`, section 4) and excepts turns refused after an emission (section
5). `OneRequestPerToken` excepts tokens whose successor never
reached the store, because no client can avoid sending those again.

Not modelled, by reason:

- *planned* (section 2): session deletion, spools, the repair of an unreadable
  lock file, the TypeScript event log and stream guard, the TypeScript turn
  controller. `delete_session` has no caller outside tests. A resume that read
  `meta.json` before the rename recreates an empty session directory
  (`event_log.rs:150-156`), and with three processes, one of them holding the
  lock file that went to the trash, two writers could append to the recreated
  log;
- the state graph's checkpoint (`state/checkpoint.rs`), which is discarded and
  replayed in full when it disagrees with the log;
- *pure functions*: configuration, protocol types, canonical JSON, token
  estimates, selection and rendering, tool schemas, the shell parser, redaction
  patterns, unicode tables; the state graph is a candidate for operators checked
  against a reference;
- *input and output without a protocol*: process runner, system context,
  retrieval queries, terminal interface, language servers' wire
  format, model drivers, native helpers, evaluation harness, site and scripts.

## 8. Running it

    tlc -workers 2 -config WriteJournal_crashes.cfg MCWriteJournal
    tlapm JournalProofs.tla

The module of a configuration is the `MC` module named after its component. The
longest run takes about two minutes on two cores, the longest proof module,
`HistoryDatabaseProofs`, about four.
