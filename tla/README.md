# ThesisTester: a TLA+ verification project

ThesisTester turns intraday futures data into levels, setups, signals, backtests,
grids and walk-forward reports.  Around that numerical pipeline there is a good
deal of machinery that keeps results on disk, shares them between processes and
lets people and assistants start, cancel and resume work.  This project models
that machinery, and the state machines inside the simulator, in TLA+.  TLC checks
the models on small instances; TLAPS proves the central results for every
instance.

Contents: [1 Inventory](#1-inventory) · [2 Plan](#2-plan) · [3 Modules](#3-modules)
· [4 Runs, bounds and fairness](#4-runs-bounds-and-fairness) · [5 Disagreements
with the documentation](#5-disagreements-with-the-documentation) · [6 Proofs](#6-proofs)
· [7 What is not modelled](#7-what-is-not-modelled)

Paths below are relative to `src/thesistester/`.  `PROJECT.json` maps every
definition of the models to the lines it stands for, and lists the hazards of the
code, each at its line, with the properties that would catch it going wrong.

## 1. Inventory

### 1.1 The parts and how they interact

```
 browser ── pages/ ──┬── study/launch.py ──spawns──> `study run` (study/execute.py)
   │                 │                                   │ one payload per cell
   │                 │                                   v
 assistant/voice ──> assistant/orchestrator.py ────> api.py  run_experiment
   │                     │                               │
   v                     v                               ├─> persistence/execution_artifacts.py
 assistant/repository.py (JSON documents)                ├─> data/, levels/     (pure)
                                                         ├─> engine/signals*, otf, naked
                                                         ├─> engine/backtest.py ─> sim_core.py
                                                         └─> research_bundle.py (zip)
```

Everything is shared through files.  There is no server: a Streamlit process, its
sidecar for voice, any number of `study run` processes and their pool workers, and
command-line calls read and write the same directories.  What orders them is
`flock` (studies, artifacts), `O_EXCL` (launches), and a revision number in a
document (the assistant); everything else rests on `os.replace`.

### 1.2 State, operations and what is hard

| Part | State | Operations | What is hard |
|---|---|---|---|
| **Study execution** `study/execute.py`, `ledger.py` | `study.ledger.json`, one `*.research.zip` per cell, `results_index.csv`, expansion artifacts, `.study.lock` | `run_study` (gates, lock, ledger, pool dispatch, finalise), `rebuild_direction_index` | a crash or interrupt between any two writes, resume, forced re-runs under another identity, an unlocked rewrite of the index |
| **Study launcher** `study/launch.py` | `study.launch.pid`, log file | `spawn_launch`, `_claim_launch_pid_file`, `read_launch_pid_status` | two tabs that claim at once, stale pids, an empty claim, a failed spawn |
| **Execution-artifact store** `persistence/execution_artifacts.py`, `execution_artifact_ops.py` | directories keyed by content, each with a manifest; bindings keyed by source hash; access times | read, touch, write, invalidate, delete, list, evict | readers, writers and eviction racing; crash in the middle of a publish; a source file that changes during a load |
| **Thesis repository** `assistant/repository.py` | theses, spec versions, runs, conversations, voice sessions: JSON documents with revisions | create, confirm, start, complete, fail, cancel, attach, append | read–check–write without a lock: lost updates, terminal states overwritten |
| **Orchestrator** `assistant/orchestrator.py` | none of its own; run records and bundles | confirm, execute, finalise, cancel, register | a cancel racing a finish, failures after the commit, orphaned bundles |
| **Simulator: admission** `engine/backtest.py` | accepted trades, candidates, skip rows | admit, detect same-bar pairs, sort, exposure, cooldown | order and off-by-one in occupancy; every signal answered once |
| **Simulator: exit walk** `sim_core.py`, `exit_management.py`, `intrabar.py` | open trade, active stop, best price, excursions | walk a bar, resolve a bar, move the stop, force an exit | look-ahead, the same-bar stop and target, three caps, two implementations of one walk |
| **Signals** `engine/signals.py`, `signals_3c.py` | none: functions of the whole frame | trigger bars, simple triggers, three-candle set-ups per level and direction | it scans ahead of every arrival and keeps levels silent by what it finds; the end of the data is read as the end of the story |
| **One-timeframing** `engine/otf.py`, `otf_filter.py` | bars of a higher time frame, runs of higher lows and lower highs | build bars, run states, align a state to a signal, filter | only completed bars may be used; partial buckets, resets at sessions, an interval that is inferred |
| **Walk-forward** `analytics/walk_forward.py` | fold boundaries | cut windows, slice and re-index signals, filter a window, stitch folds together | ownership and indices at a boundary; history that a window may or may not use |
| **Voice sessions** `assistant/voice/` | session record, registry in memory, two pumps per socket | create, bridge, append, time out, end, flush | one side leaves, a save fails, a flush loses races and is tried again |
| **Conversations** `assistant/repository.py`, page 14 | a document with a revision and messages | turns (question, then answer), audits, flushes | a revision held across a model's reply; check and replace are two steps |
| **Tick-stitch cache** `data/tick_stitch_cache.py` | two parquet files and a manifest of their hashes | load, store | torn sets of files, concurrent stores |
| **Local store** `persistence/local_store.py` | datasets, setups, signal runs | save, load, list, delete | a data set saved over itself file by file |
| **Journal** `journal/` | imported and manual fills, paired trades, statements | FIFO pairing by group and session, reconciliation of days, costs | reversals, fills left over by a group, manual fills among imported ones |
| **Data, levels, analytics, study definition, reports, charts, pages** | data frames, figures, Streamlit state | pure functions, rendering | numerical: out of a model checker's reach |

### 1.3 What makes each part correct

* **Study execution.**  One writer at a time.  A cell the ledger calls *ok* has the
  bundle of the ledger's own study or none.  A resume redoes what is missing and only
  that; a directory never changes studies without `--force`; a finished run leaves
  ledger, index and artifacts that agree.  Every call returns.
* **Study launcher.**  One launch at a time; the log on the page is the log of the
  run; nothing left behind refuses the next launch for ever.
* **Artifact store.**  A cache: a load returns what the file held while it was loaded.
  Nothing but eviction or a crash loses an artifact, locks come back, eviction bounds
  the store.
* **Thesis repository and orchestrator.**  A version, once written, never changes; what
  runs is what was confirmed; a run that is over stays over; what the user is told is
  what is on record; no computed bundle is lost.
* **Admission.**  Trades that compete never overlap, the future blocks nothing, every
  signal is answered exactly once.
* **Exit walk.**  The stop depends on completed bars only and never loosens; no bracket
  is overlooked; both implementations of the walk agree; the default model for a bar
  that reaches both sides is the pessimistic one.
* **Signals.**  What is computed from the whole data is what somebody would have traded
  who saw one bar at a time; a signal stands when data is appended.
* **One-timeframing.**  A signal is admitted by what had closed when it was decided.
* **Walk-forward.**  A signal is traded out of sample by one fold, on its own bar.
* **Voice sessions, conversations.**  The registry and the record agree on whether a
  session is over; a flush writes each entry once, in order, and loses none quietly; an
  answer stands behind its question; a session whose client has left ends.
* **Tick-stitch cache, local store.**  What is read is what one store wrote, whole.
* **Journal.**  Of every fill, what waits, is open and is traded adds up; a lot is closed
  by a later fill of the other side; the net of a day is its profit less its fees.

## 2. Plan

The order is by how much depends on a part and how hard it is to test.  Done:

1. `StudyRunner`, refining `StudyResults`; `StudyProofs`.
2. `ArtifactStore`, refining `SourceReads`; `ArtifactStoreProofs`.
3. `LaunchClaim`, the claim in front of the study lock; `StudyProofs`.
4. `ThesisRuns`, the repository's documents under the orchestrator's run lifecycle;
   `ThesisRunsProofs`.
5. `TradeWalk` and `Backtest`, the simulator; `TradeWalkProofs`, `BacktestProofs`.
6. `ConversationLog` and `VoiceSession`, which composes the page's tabs and the sidecar on
   one conversation; `VoiceSessionProofs`.
7. `Bars`, `Zones`, `Triggers`, `OtfFilter`, `WalkForward`, and `SignalPipeline`, which composes
   them over data that grows; `SignalPipelineProofs`.
8. `JournalPairs`; `JournalPairsProofs`.

Next, in this order:

9. `TickStitchCache` and the saved data sets: publication of several files, readers and
   a crash in between.  Abstract specification: an atomic register of whole sets.
10. `TradeWalk` under `Backtest` under `SignalPipeline`, where the signals of a backtest
    are generated and a trade's exit is not arbitrary but walked.
11. Study definition: the expansion of a study into cells (`study/expand.py`), whose run
    names `StudyRunner` takes as given.
12. `TradeWalk` with subtimeframe bars, `LaunchClaim` composed with `StudyRunner` on the
    one study lock, the rebuild of a study's index beside a run.

Theorems to prove next come with those modules: that readers of the tick-stitch cache see whole
sets, and that a trade walked inside `Backtest` still refuses and answers as proved there,
where its exit bar is arbitrary.

## 3. Modules

In every module a step is one thing the rest of the system can see: a write of a file,
an acquisition of a lock, a read that is acted on later.  Pure computation between two
of them is part of the step it prepares.  Next to some definitions stands a variant
marked *Mutant*: the same step with a mistake a programmer could make.  It is used by no
specification; each property comes with one that breaks it (`PROJECT.json`, `mutants`).

### 3.1 StudyRunner, StudyResults — `study run`

`StudyRunner` follows `run_study` from its gates to the release of the lock, for any
number of processes on one output directory.

| State | Code |
|---|---|
| `lock` | the non-blocking `flock` on `.study.lock` (`_study_dir_lock`) |
| `ledger` | `study.ledger.json`: study identity, confirmation on record, one cell per run name with status and whether it names a zip |
| `bundle` | `<cell>.research.zip`: missing, cut short, or of an identity |
| `index` | `results_index.csv`: per run name a status, and whose metrics |
| `expansion` | the identity of the spec and experiment files beside them |
| `pc`, `job`, `existing`, `rows`, `todo`, `left`, `cell`, `aborted` | the local variables of `run_study` |

What a cell computes is abstracted to the identity of the study it was computed for:
a bundle and the metrics of a row "are" the identity that produced them, which is all
the properties need to tell right from wrong.  Two specs for one directory share a run
name, as an edited spec does.

The actions are the statements in order: `Start` (the gates before the lock),
`Contend`/`Acquire`, `Gate`/`GateRefuses` (the second look at the identity, under the
lock), `Prepare`/`PrepareFails`, `InitLedger`, `Claim` (cells to run, marked *running*),
then per cell, in any order as a pool finishes, `CellOk` and `FinishBundle` (a bundle is
not replaced atomically and takes two steps) or `CellFailed`, `RecordOk`/`RecordFailed`
(the ledger), `Reindex` (the index); then `Sweep`, `SweepIndex`, `SweepClean`, `Finish`,
`Release`.  `Interrupt` raises anywhere inside the `try` block and runs its handlers;
`Crash` ends the process anywhere, the kernel releases its lock and what it wrote stays;
`LoseBundle` is somebody deleting a file.

`StudyResults` is what the directory promises: results are published for one study at a
time, replaced only by a forced holder or by one that redoes what was lost, and
withdrawn all together when a study is forced over another.  `StudyRunner` implements it
under the mapping that calls a cell published when the ledger calls it *ok*
(`KeepsItsPromise`).

### 3.2 LaunchClaim — the Studies page

Tabs of one server (`Tabs`) call `spawn_launch`; each launch that succeeds starts one of
`Children`, a `study run`, which takes the study lock or fails on it.  `pidFile` is the
content of `study.launch.pid` (missing, empty between `O_CREAT|O_EXCL` and the write,
the server's own pid as a placeholder, a child's pid), `open` the tabs whose descriptor
still refers to the file of that name, `log` and `savedLog` whose output the log file
holds and what a tab has kept of it in case the spawn fails.  `Check`, `Clear`, `Create`
(or `CreateLost`), `TakeClaim`, `ReadLog`, `OpenLog`, `Popen`, `Truncate`, `TruncateAgain`
(the second attempt of `_record_child_pid`) and `Record` are the statements of
`_claim_launch_pid_file`, `spawn_launch` and `_record_child_pid`; `Enter` and `Exit` are
the child.  Any operation may raise: `ClaimFails` leaves what is there, an empty file once
it was created; `ReadLogFails` leaves the claim, because the read stands before the `try`;
`SpawnFails` gives back the claim and the log, each of which may fail quietly;
`RecordFails` leaves the placeholder, or an empty file once it was truncated.  What an error
leaves is recorded by `stuck` (a claim in the server's name), `lost` (children whose pid was
not written) and `unrestored` (the log).  A child that ends stays *ended* until the server
polls it, when its `Popen` is dropped, at a later `Popen`, or in `Reap`; until then its
pid exists and the file names a live process.  `visitors`, chosen at the start,
says which tabs the user has open, so that one model serves for one tab and for two.
A directory may already hold the pid of a child that has ended.  The module's names are apart
from those of `StudyRunner`, so that one module can extend both, as `StudyProofs` does and
their composition (§ 2) will.

### 3.3 ArtifactStore, SourceReads — the execution-artifact cache

One data set file whose content changes over time (`Versions`), loaded by several
processes through `_load_experiment_data`.  A data artifact is a directory keyed by the
identity of the bars, a source binding a file keyed by the hash of the source bytes that
names such an identity.  `artifact` is *absent*, *whole*, *torn* (its manifest is being
rewritten in place to count an access), *partial* or *headless* (a removal that died
half-way); `binding` is absent, torn or names a version; `stamp` is the access time the
eviction sorts by.

A load is `StartLoad` (hash), `ReadBinding`, `ReadArtifact` (verifies under the key's
`flock`), `Touch`/`Rewrite` (the access count), or on a miss `Invalidate`, `Parse`,
`Write` (verifies again under the lock), `Remove`, `Stage`, `Publish` (the rename),
`Bind` (hashes the file once more), `Return`.  Locked sections are split where the
listing of an eviction, which takes no lock, can tell: `StartEvict`, `Inspect` of one
item at a time, `SelectVictims`, `Delete` under the victim's lock, `EndEvict`.  `Crash`,
`WriteFails` and `EvictFails` fall anywhere and leave staged directories and temporary
files behind.  An in-place rewrite that raises is swallowed and the load goes on as a hit:
`RewriteFails` leaves the manifest cut short, `ReadBindingUncounted` the binding.

`SourceReads` is the promise of a cache, in terms of the file alone: a load returns a
content the file had between its beginning and its end.

### 3.4 ThesisRuns — the thesis repository and the run lifecycle

Sessions create or confirm a specification of one thesis, execute it and finalise it;
other users cancel.  Every repository call is a check of what is on disk followed by an
`os.replace`, with nothing in between that keeps others out, so it is two steps:
`CheckCreate`/`WriteCreate`, `CheckConfirm`/`WriteConfirm`, `Complete`/`WriteComplete`,
`Fail`/`WriteFail`, `Attach`/`WriteAttach`, `Cancel`/`WriteCancel`.  `overlapped` records
for which kind of document two such windows have ever overlapped, so that a property can
say what holds as long as they do not.  `Compute` is the experiment with its bundle
(none, unreadable, readable), `Finalize` and `Reread` are
`_finalize_raced_or_failed_run`, `WriteCompleteFails` is a write that raises, before or
after the record has been replaced (`repository.py:623`), `Crash` is a session that dies.

### 3.5 TradeWalk — the exit of one trade

One trade is walked bar by bar.  The bars are not given: each step draws one, so a rule
that used a later bar could not be written down.  `PassEntryBar` is an entry bar that is
not walked, `WalkBar` resolves a bar against the stop that completed bars have left and
then lets the bar move the stop, `ForceExit` closes the trade at its cap (holding time,
session close, end of data).  `OnPath` and `SlFirst` are the two OHLC models
(`intrabar.py`): the order of stop and target on the path open–nearest extreme–other
extreme–close, and the stop first.  On a bar the trade enters on in the middle, only what comes
after the entry counts.  `VectorWalk` is the second implementation, the slices of
`sim_core.py:367`, defined over the whole sequence at once.  Prices are whole ticks.

### 3.6 Backtest — admission and exposure

The loop of `backtest.py` around that walk.  `Admit` reads a row of the signal frame:
the gates of `_admit_entry_candidates` refuse it or make it a candidate; a signal
without an entry bar is dropped.  `Collide` finds opposite signals on one bar under the
configured rule.  Then candidates take their turn in the order of `Precedes` and are
refused (`SkipConflict`, `SkipBlocked`, `SkipAfterClose`) or traded (`Trade`).  Which
bar a trade exits on is any bar from its entry: the walk above decides that, and
nothing here may depend on it.  Which entry bars are gated is a constant function of
the bar.

### 3.7 ConversationLog, VoiceSession — talking to the assistant

`ConversationLog` is one conversation document and the tabs of the page that write to it.
`append_conversation_message` is a check of the revision and an `os.replace` of the file,
two steps (`Check`, `Replace`).  A tab's turn is `Begin` (the history is read, a model is
asked), `CheckQuestion`/`WriteQuestion`, `CheckAnswer`/`WriteAnswer` with the revision the
question's write returned, or `GiveUp`.  `overwritten` is what a writer was told is
stored and is not any more.

`VoiceSession` adds the sidecar as one more writer.  It is one event loop: a step of it
is what happens between two awaits, and none happens while a flush, which is synchronous,
has the loop.

| State | Code |
|---|---|
| `record` | the session document: status, transcripts, audited tool calls (kind *tool*, or *again* for the second audit of a call) |
| `registered` | membership in `SidecarRuntime._active` |
| `conn`, `browser`, `upstream`, `pump` | `realtime_ws` of a socket, its two ends, and its two pumps |
| `flush` | a running `_flush_to_conversation_best_effort`, or the one-try flush of a tool call: what is left, what it has seen, the revision it expects, how often it was refused and how often it may be |
| `late` | `max_session_minutes` have passed |
| `dropped` | entries given up: after two refusals by the flush of the end, after one by that of a tool call, until the end takes them up again |

`Register`, `PostEnd`, `Accept`, `Dial`/`DialFails`, `Loop`, `TimeOut`, `BrowserGone`,
`BrowserAudio`, `UpstreamGone`, `UpstreamChatter`, `Transcript`, `ToolCall`, `Close` are
the routes and the pumps; `FlushRead`, `FlushCheck`, `FlushWrite`, `FlushRefused`,
`FlushFails` the flush; `Leave`, `Hangup`, `TimeUp` and `Crash` the world.  A `ToolCall` is
`Audit` or `AuditFails`: a record that cannot be read does not keep the entry from the
conversation; an `OSError` of the save, or in `FlushFails` of the conversation's write, is
caught in `execute_voice_tool`, which audits the call once more (`AuditAgain`).

### 3.8 Bars, Zones, Triggers, OtfFilter, WalkForward, SignalPipeline — from bars to folds

These are pure functions of a frame, so they are operators: `Zones!Clusters` and
`Zones!Anchored` find zones among the levels of a bar, `NakedLevels` is the forward scan
of `flag_naked_levels`, `Triggers!Signals` is `generate_signals`, `OtfFilter!Accepted` the filter, `WalkForward!Stitched` the
out-of-sample entries of all folds.  A bar is known by its slot on a grid of the smallest
time between two bars; prices are whole ticks.  The three-candle detector is translated
as it is, scanning ahead of each arrival (`Resolution`) and silencing the level until
the bar it finds (`TakenUp`).

`SignalPipeline` gives them something to be wrong about.  Its steps append a bar; the
program computes everything again, as it does, and beside it a trader sees one bar
after the other and remembers, per level and direction, only the set-up under way
(`watch`, a machine of three phases); whether a level is naked the trader reads off the
past (`Untouched`: the price it has held since some bar has not been traded at since),
where the program carries a flag.  The trader cannot look ahead, so comparing the two
(`BatchIsLive`), the signals of a frame with those of the frame a bar later
(`SignalsStand`), and the filter over the whole data with the filter over what had closed
(`FilteredByTheKnown`) is how look-ahead shows.

### 3.9 JournalPairs — fills into trades, days into statements

Fills are numbered in the order of time and id.  `PairGroup` and `PairSession` give a
book its fills, `OpenLot` and `MatchLot` are one turn of `_fifo_match`'s loop,
`ReleaseGroup` hands what a group left open to the session, `EndBook` writes open
trades, `MixedGroup` is the error that stops everything.  A book takes fills in order, so
its deque is ordered by fill and `opens`, the quantity open by fill, is all of it.
`Status` and `Net` are `_reconcile_day` and `_apply_costs` over the trades.  The fees beyond
commission are shared among a day's trades, in the code a division of floats; money is
counted in a unit fine enough for the shares to come out whole (`SharesAssumption`).

## 4. Runs, bounds and fairness

Every bound is a constant of the specification or of its `MC` module; there are no state
constraints.  Counts are of distinct states.

| Run | Instance | What it shows |
|---|---|---|
| `study_faults` (0.51 M) | 2 processes, 2 studies of 2 and 1 cells that share a run name, 1 fault, fair | *ok* bundles are current; the identity changes only by force; resume keeps what is ok; a finished run settles ledger, index and expansion; the index of a directory without faults is honest; `StudyResults` is implemented; after the last fault a run that gets the directory settles every cell |
| `study_stale_index` | as `study_faults` | *violated*: the index is not honest after a crash in a forced run |
| `launch_tabs` (3.6 M) | 1 or 2 tabs, 3 child pids, 2 operations that raise | a single tab has one launch at a time whose pid it could write, its log survives a failed spawn and is that of the run; racing tabs leave no claim that refuses every later launch, errors the code does not clean up after excepted |
| `artifact_faults` (3.4 M) | 2 loaders, 2 versions, 2 loads, 2 edits, 1 fault, `max_entries` 1 | loads return what the file held (`SourceReads`); only eviction loses an artifact, or an access count cut short; damage has an owner that will still repair it; eviction bounds the store |
| `artifact_stale` | 3 loads, edits during a load, no fault | *violated*: loads are current |
| `thesis_races` (2.8 M) | 2 sessions, 2 cancellers, 2 texts, 1 fault | reports agree with records, no bundle is lost, what runs was confirmed, a cancellation sticks — as long as no two calls overlap on one kind of document |
| `thesis_cancel` | 1 session, 1 canceller, no fault | *violated*: a cancellation sticks |
| `trade_walk` (0.20 M) | 3 bars, prices 0..5, both directions and models, all entries, stops and caps of `MCTrades` | the stop follows completed bars and never loosens; a forced exit misses nothing; both walks agree; `sl_first` is pessimistic |
| `backtest_policies` (2.6 M) | 3 signals, 3 bars, 2 groups, all policies, cooldown 0 and 1, three same-bar rules | trades that compete never overlap; refusals are justified; pairs are skipped; every signal is answered once |
| `voice_flush` (2.1 M) | 1 tab with 1 turn, 1 socket, 2 events, 1 fault, fair | registry and record agree; a flush keeps order, repeats nothing and loses nothing quietly; answers follow their questions; a client that has left ends its session as long as the provider speaks |
| `signals_live` (17 k) | seven kinds of data and setups, all plans of `MCPlans` | the batch detector is a trader who sees one bar at a time; signals stand; the filter uses the known; every signal is owned once |
| `journal_days` (0.29 M) | all frames of 3 or 4 fills of `MCInputs` | quantities are accounted for; trades are round trips; a settled day reconciles and its net adds up |

Why the bounds are enough for the cases that matter:

* *Studies.*  Two processes and two studies with a shared name are what it takes for a
  run to find the ledger, a bundle or a row of another; processes run again and again,
  so one process is also its own successor after a crash.  One fault can fall between
  any two steps.  `confirm_above_runs` is 2, so one study needs confirmation and the
  other does not.
* *Launches.*  Two tabs race; three children are one that is running, one that replaces
  it and one more after that; two errors let a failed spawn be followed by a failed
  record, or both attempts of one write fail.
* *Artifacts.*  Two versions are the old and the new content; with one permitted entry
  every further artifact makes an eviction choose.  Each loader may begin another load
  until two are used up, two edits bring a file back to what it was.  The three loads of
  `artifact_stale` are one to store, one to be mis-bound and one to be misled.
* *Theses.*  Two sessions number spec versions alike; two users cancel one run, or one
  each.
* *Walk.*  Stop, entry and target lie at 1, 2, 5 (short: 4, 3, 0), so prices fall on, beside
  and beyond each.  Three bars are an entry bar, one that arms or moves a stop and one
  that meets it.  Bars close at one of their extremes, which are the closes that
  tell paths apart; highs, lows and opens are arbitrary.
* *Backtest.*  Three signals are a trade, one that is blocked by it and one that comes
  after; with three bars and a cooldown of one a trade can be behind, at and beyond each
  boundary.

* *Conversations.*  One tab and the sidecar race for one document, and the tab's turn
  holds a revision while the flush goes on; two events are a transcript and a tool call,
  or two of a kind, so order can be lost; a flush of two entries can be refused twice on
  either.  One fault is a failed save, a failed write, or a crash, anywhere; one is enough
  for a second audit, of a call before the end or after it.
* *Signals.*  Kinds of data: five bars in a row on the base time frame, which are
  an arrival, a candle inside, a reversal, a wait and a fill or an expiry, with another
  arrival among them; trigger bars of two slots with gaps, the last one perhaps not over;
  bars with gaps around sessions and buckets that miss a bar, for the OTF filter; a
  market of up to 13 slots that only rises, in which the most frequent gap, and with it
  the inferred interval, changes; four bars over which one level moves, meets another and
  goes away, under clusters and under an anchor with a required and an optional rule, with
  the naked filter at *any* and at *all*, on the base and on a coarser time frame.  `MaxWait` 2 lets a retrace come in time, at the last
  moment and too late.  The plans are rolling and anchored, by bars and by sessions,
  overlapping and not, with either history, and with one and with two time frames in the
  filter.
* *Journal.*  Four fills are a position, its reversal and the close of that; quantities
  up to 2 (3 in the frames of three) split a fill between two lots; two groups, two days
  and two contracts, in turn, each leave something over for the next book; manual rows
  stand among imported ones, with `include_manual` on and off.

Symmetry is used over loaders, versions, sessions, cancellers, run specs and groups, in
runs without liveness properties, and only where the model tells their members apart by
equality alone.

**Deadlock** is checked in the runs of the study and artifact models, in which there is
always something more to do, and in `journal_days`, where it shows that pairing is never
stuck: a frame that is paired, or has been refused, stutters (`Rest`) and no other state
may stop.  It is off where the modelled world ends: launches run out of pids, sessions
are executed once, a trade is closed, a backtest is over, a call is hung up, data ends.

**Fairness.**  `study_faults` assumes weak fairness of `Step(p)` for each process.
`run_study` waits for nothing.  The lock is tried once and the call is refused when it is
taken, the pool's results are awaited as they complete, and a cell's payload is a
terminating computation.  The scheduler of the operating system gives a process that can
take a step that step.  Nothing is assumed of starts, interrupts, crashes and losses; a
process may also be starved of the directory, which is why `RunsSettle` speaks of a run
that has got it.

`voice_flush` assumes that the event loop runs what is ready (`Serve(s)`, `Flush`) and
that the clock goes on (`TimeUp`).  Nothing is assumed of the browser, the page and the
provider; `ClosingEndsOnceSpoken` has the provider's speech as a hypothesis, because that
is what the code needs (§ 5).

## 5. Disagreements with the documentation

Three runs expect a violation: the code does something its own documentation, or a
comment, says it does not.  The traces are short and each is reached by normal calls.

1. **A forced run that stops between the ledger and the index leaves old metrics**
   (`execute.py:1454`; `study_stale_index`).  A later soft resume finds the row of the
   replaced study with its metrics present and publishes it for the new bundle.
   `docs/STUDY_RUNNER_IMPLEMENTATION_PLAN.md:219` says a forced run overwrites the index
   rows of those names.
2. **A file saved while it is loaded is served stale later** (`execution_artifacts.py:796`;
   `artifact_stale`).  The binding is made from a second hash of the file, after it was
   parsed.  `tests/test_cai3_cached_pipeline.py:138` says that changed source bytes "must
   miss even if the path is unchanged".
3. **A cancellation can be overturned** (`repository.py:914`; `thesis_cancel`).  It falls
   between the check and the write of `_finish_run`.  `orchestrator.py:2058` says terminal
   cancel state is not overturned.

Others are visible as the exceptions that checked properties state, or were met while
reading; no run is about them:

* *Studies.*  `study report --rebuild-direction` rewrites the index from an old read without
  the study lock (`execute.py:539`), and so drops what a run writes meanwhile; the
  docstring says "Never rewrites existing metric values".
* *Launches.*  Two tabs can both claim (`launch.py:530`): a claim that has judged the file
  dead unlinks whatever is there by then, although the docstring calls it TOCTOU-safe
  (`LaunchesExcludeAlone` speaks of one tab).  The study lock stops the second child, but
  not before its launch has truncated the log of the first.  A refused launch is told to
  wait for the run to finish (`launch.py:524`), but `os.kill(pid, 0)` (`launch.py:176`) also
  finds a child that has ended and was not polled, and nothing waits for it: the page refuses
  until some later `Popen` of the server polls it (`RestAllowsLaunch` asks for children that
  are *gone*, not only over).  Three errors leave a claim in the server's name, which refuses
  while the server lives: a read of the old log that raises (`launch.py:386`, before the
  `try`), an unlink that fails quietly (`launch.py:549`), and a pid that cannot be written
  before the file is truncated (`launch.py:411`).  After the truncation the file is empty and
  reads as no launch, so that the same tab may launch beside the child and truncate its
  log; the message says to stop that child first.  The three properties except these
  (`stuck`, `lost`, `unrestored`) and nothing else.
* *Voice.*  When the client leaves, its pump returns and `asyncio.gather` goes on waiting
  for the other one (`sidecar.py:1059`): the session ends when the provider is next
  heard from, while `docs/VOICE_SIDECAR_OPS.md:62` says closing the client ends and
  flushes it.  `ClosingEndsOnceSpoken` says when it does.  And `execute_voice_tool` says it
  records "exactly one audit row" (`voice/tools.py:615`), but an `OSError` of the audit's
  save or of its flush reaches the handler at line 657, which audits the same call again:
  two rows on the record and two entries in the conversation, one *ok* and one not
  (`FlushKeepsOrder` counts them as two entries).
* *OTF.*  A state is aligned to a signal by time alone (`otf_filter.py:297`), so the first
  signals of a session are admitted by the last state of the one before;
  `docs/otf-filter.md:147` says state does not carry forward.  And "Appending source bars
  after timestamp T cannot change any OTF output whose availability_timestamp <= T"
  (`otf.py`) holds only while the inferred interval, the most frequent gap of all bars,
  stays the same (`SameInterval` in `FilteredByTheKnown`).
* *Three candles.*  The end of the data is read as if nothing else came: an arrival inside
  a set-up that is still unresolved is reported, and withdrawn when that one resolves
  (`Provisional`, `Unresolved`), and so is a signal of a trigger bar that is not over
  (`Closed`).  With a trigger time frame the retrace scan skips
  the bar that starts where the reversal's bucket ends.
* *Walk-forward.*  Where folds are counted in bars a simple signal belongs to the window it
  triggers in, and is entered on the next bar: one that triggers on the last bar of a
  window is traded by none (`walk_forward.py:412`; `Owners` in `OwnedOnce`).
* *Journal.*  The gross of a day is filtered by the entry fill only (`reconcile.py:269`), so
  with `include_manual` an imported entry that a manual fill has closed counts the manual
  price; `reconcile.py:64` says "journal gross stay imported-only".  `Settled` in
  `DaysAddUp` leaves such days out.

## 6. Proofs

Eight modules of theorems; `StudyProofs` is about `StudyRunner` and `LaunchClaim`, each of
the others about the module it is named after.  All theorems hold for every value of the
constants that satisfies the named assumptions.  In each, the property is seldom inductive;
what has to be added is what the text below says.  Type correctness is a theorem
(`TypeCorrect`, `LaunchTypeCorrect`) of every specification but that of `SignalPipeline`,
whose types are part of its invariant `Built`.

**`StudyProofs`** on `StudyRunner` (`RunNamesAssumption`, `SentinelAssumption`, `FaultsAssumption`):
`WritersExclude` (`OneWriter`), `OkBundles` (`OkBundleIsCurrent`), `OnlyForceSwaps`
(`IdentityNeedsForce`), `ResumeSkipsOk` (`ResumeKeepsOk`) and the refinement
`ImplementsStudyResults` (`KeepsItsPromise`).  `OkBundleIsCurrent` says nothing of what the
one writer is in the middle of.  `Safe` adds that: a ledger without an identity is a
missing one; until the writer has rewritten it, the ledger is the one it read
(`ReadIsFresh`), and afterwards its own (`LedgerIsOwn`); a cell whose result is still to
come is on record as *running* (`LeftIsRunning`), so a torn bundle is never an *ok* one;
the cell it is applying is one of those (`ApplyingIsLeft`) and its bundle, when it comes to
be recorded, is whole (`RecordedIsWhole`).  `OneWriter` reduces the step of any process to
its own conjuncts.  The action properties and the refinement need one thing more, that
the ledger has the cells of its study and no others (`CellsAreNamed`); a step of
`StudyRunner` is then a publication, a withdrawal, a loss, a change of holder, or a stutter.
What a run leaves behind is proved of the way there: `FinishedRunsAreSettled`
(`FinishSettles`), by `Settling`, where every cell the holder has not set out to run is over
(`ClaimedOrOver`), none is *running* once it has swept (`NoneLeftRunning`), and a failed one
has lost the metrics of before (`FailedHasNoMetrics`); `UndisturbedIndexIsHonest`
(`FaultlessIndexIsHonest`), by `Faultless`, where without a fault no metrics in the rows of
a run or in the index are of another identity than the ledger's, except while a forced run
is replacing them.

**`ArtifactStoreProofs`** (`BoundsAssumption`, `SentinelAssumption`): `DamageHasAnOwner`
(`DamageIsOwned`), `WritesLoseNothing` (`OnlyEvictionLoses`), `EvictionKeepsTheBound`
(`EvictionBounds`) and, with the hypothesis `~EditMidLoad`, the refinement
`LoadsKeepTheirPromise` (`KeepsItsPromise`); the hypothesis is the one `artifact_stale`
shows to be needed.  `Section` says what a locked section knows of its directory, `InHand`
what a load goes by (a key it has read, a binding it has read, what it has parsed) and that
each is a content the file had meanwhile, `Inventory` that what a listing without company
has not seen it has still to visit.

**`StudyProofs`** on `LaunchClaim` (`PidAssumption`, `FailuresAssumption`): `NothingRefusesForever`
(`RestAllowsLaunch`), by `ClaimIsHeld`, that a claim in the server's name is held by a tab
that will replace it or take it back, or was left by an error (`stuck`); `OneLaunchAtATime`
(`LaunchesExcludeAlone`) and `TheLogIsTheRuns` (`LogSurvives`), by `Orderly`, which follows one
tab and what lives with a recorded pid from the check to the record, and `LockIsAlive`.

**`ThesisRunsProofs`** (`SentinelAssumption`, `ActorsAssumption`, `FaultsAssumption`,
`SessionsAssumption`): `ReportsAreTrue` (`ReportsAgree`), `BundlesAreFound` (`NothingIsLost`),
`CancellationsStand` (`CancelSticksApart`), `ConfirmedIsWhatRuns` (`RunsWhatWasConfirmed`).
`ReadIsCurrent` and `CancelIsCurrent` are the heart: while no two calls have overlapped
(`Quiet`), what a call has read is what its write replaces.  That fails of calls that overlap, which is why the properties say when they hold; a completed
run has its bundle in any case (`Progress`).  That a run is of the text its user had on the
screen follows the text from hand to hand (`SInv`, `TInv`): what a session numbers or
confirms is in the version it goes by (`GoesBy`), a confirmed version is a copy of the ready
one it names as its parent (`IsCopy`), every version was numbered by a session that knows it
(`Numbered`), and every run record and every copy of one a call has read hands the text on
(`Texts`, `CancelTexts`).  Versions are numbered by counting those there are, so that
numbers are new only where no two calls overlap on them, and only of finitely many sessions
(`SessionsAssumption`).

**`TradeWalkProofs`** (`BarsAssumption`, `TradesAssumption`, `NBarsAssumption`):
`StopsOnlyTighten` (`StopNeverLoosens`), `StopsFollow` (`StopFollowsCompletedBars`),
`ImplementationsAgree` (`VectorizedIsSerial`) and `BreakevenIsKept` (once break-even is
armed the stop covers the slipped entry, which no run checks).  `WalkInv` says in closed
form what the walk keeps step by step: the best price is the furthest of the completed bars
(`BestIsFurthest`) and the stop the tightest of what it calls for (`Tightest`).  `VectorInv`
does so for the arrays: the walk is open as long as no bar was hit and ends on the first
one that is (`EndsOnFirstHit`), and the excursions are the peaks of what was walked
(`PeaksAreKept`).  `ClocksCloseWhatNothingHit` (`ForcedExitMissesNothing`) needs that a trade
still open after its last bar closes that bar between stop and target (`LastBarMissed`),
since the forced exit of the end of the data is made at that close, a step later.
`PathStopsAreSlFirstStops` (`SlFirstIsPessimistic`) is a fact about the two models of a bar
alone: wherever on a path of four prices the stop is met first, its price is within the bar.

**`BacktestProofs`** (`SizesAssumption`, `GatesAssumption`, `ConfigsAssumption`):
`OccupancyExcludes` (`NeverTogether`), `RefusalsAreJustified` (`SkipsAreJustified`),
`PairsNeverTrade` (`PairsAreSkipped`), `SignalsAreAnswered` (`EverySignalIsAnswered`),
for any frame, gates and policies and whatever bar each trade exits on.  That the future
blocks nothing needs `TradedBeforeCandidates`: under a restricting policy everything traded
was entered no later than everything still waiting, because `Precedes` sorts by entry bar.
`Settled` accounts for signals: one that waits or has no entry bar has no answer and every
other exactly one (`AnswersAddUp`), what is admitted is a candidate
(`CandidatesAreAdmitted`), and both sides of a conflicting pair are known as such before
anything trades (`ConflictsArePairs`).

**`JournalPairsProofs`** (`InputsAssumption`, `CostsAssumption`, `SharesAssumption`):
`TradesRoundTrip` (`TradesAreRoundTrips`), `QuantitiesAreAccounted` (`LotsAreAccounted`) and
`DaysReconcile` (`DaysAddUp`), for any fills, and groups and sessions in any order.  A book
is never open on both sides because what is open came before everything it has yet to take
(`BookInOrder`).  `KInv` is about names: trades have keys of books there were, and numbers
below the next one of theirs.  `QInv` adds the sums: a fill's quantity is what it has
pending, open and traded (`Accounted`), a group that nets flat has as much left on one side
as on the other (`Balanced`), which is why nothing of it stays open, and there are no more
closed trades than fills (`FewClosed`), which lets the shared fees be split.  A day adds up
by exchanging the order of two sums: the fills of the day weighted with their prices are its
trades weighted with what they gained (`Exchange`).  The sums over finite sets this needs
are built in the module (`SumOf`): induction goes over a set of numbers (`Counting`) or of
subsets (`Growing`) that stands for the predicate.

**`VoiceSessionProofs`** (`WriterAssumption`, `EventsAssumption`,
`FaultsAssumption`): `RegistryIsTrue` (`RegistryMatchesRecord`), `NothingIsMislaid`
(`NothingIsLostQuietly`), `AnswersStandByQuestions` (`AnswersFollowQuestions`),
`FlushIsOrderly` (`FlushKeepsOrder`).  Nothing about the one stored document is inductive,
since any writer may put back an older one; the invariants speak of every document there is
(`Docs`: the one that is stored and those about to replace it) and of all that was ever
stored (`Told`).  A flush that has seen
something has it from `Told`, so what it passes over was stored (`Quiet`).  `Stacked` is
the argument for answers: in every document an answer whose question is there stands right
behind it (`OnTop`), because a tab with its question stored knows the only place the
question can be at (`Chained`, by the revision its write returned), and a check of that
revision makes it the last (`Capped`).  `Spoke` is the one for the order of what was said.
A document nothing was lost from (`Complete`) has the entries of the session once and in
order (`Tidy`), no more of them than what is stored or in the sidecar's hands (`Heard`), and
none a flush has still to write without having seen it there (`Unheard`); what it has still
to write is in the order of the record and later than what it has written (`FlushInOrder`).
A turn that is written or waits to be is on the record, and so is an audit until something
fails (`Entered`), which outlasts every step (`Lasting`).  The second audit of a call is new
because a call whose first audit is still in the flush has not been audited again
(`Unrepeated`).

**`SignalPipelineProofs`** (`FeedsAssumption`, `PlansAssumption`, `MaxWaitAssumption`,
`RetraceAssumption`): four theorems about data of any length, of any feed, under any setup
and plan; `Built` says that the data is a feed's, with slots that increase, and the signals
are its signals.
`ScanIsCausal` (`BatchIsLive`): a detector that looks ahead cannot be told, by what it enters,
from a trader who sees one bar at a time.  `Live` ties the two on each level and direction
(`Follows`): of the arrivals the scan takes up (`Upcoming`), the trader waits on one that has
nothing but settled ones before it (`Settled`: no bar to come changes what became of it) and is
in the phase the scan would find, or is idle and all are settled.  One more bar changes no
zone, no naked level, no settled outcome and no silence before it (`ZonesStay`,
`SettledStays`, `ActiveGrows`).
`SignalsKeepStanding` (`SignalsStand`): the trigger bars of longer data are those of the shorter
up to the bucket of the new bar (`BarsGrow`); a set-up whose bucket was over and that nothing
unresolved comes before stays (`SetupStays`), and one of the longer data that is not of the new
bar was there before (`SetupWas`).
`EveryEntryOwnedOnce` (`OwnedOnce`): the rows of a fold are the signals whose entry bar its test
window owns (`RowsAre`), of several folds the policy names one, and where test windows do not
overlap there is only one (`OwnersAre`, `StitchedIs`).
`FiltersKnowThePast` (`FilteredByTheKnown`): where the inferred interval is the same, a bucket is
complete exactly when the bars in it are its grid (`CompleteIs`), so that the higher bars of a
part of the data that are over by a time are the last of those of all the data (`WholeAgrees`,
`Suffix`).  Runs of higher lows and lower highs that start later are only shorter (`Cut`,
`RunsOfAPart`), and an up or a down that they reach is therefore the state of all the data
(`StateOfAPart`, `StateAgrees`); and a signal is decided no later than at its own bar, which its
window has (`SignalsAreDue`, `SlicedBy`).
Recursive functions (`NakedLevels`, `ActiveUntil`, `Streaks`) are shown to exist by induction
over the set of numbers up to which they do (`Counting`, `ChainExists`).

Only model-checked: the liveness properties `RunsSettle` and `ClosingEndsOnceSpoken`, since
liveness under fairness is beyond the provers used here.  Every other property of a
passing run is a theorem.  The violations of § 5 are traces.

## 7. What is not modelled

*Whole parts.*  Data loading, levels, most of analytics, study definition,
reports, research bundles and charts are functions of data frames or of documents, without
state of their own; pages are framework code.  The tick-stitch cache and the local store
are planned (§ 2), and their hazards listed.  Beside those: two pages can both launch a
voice sidecar (`voice/sidecar.py:313`), and without `fcntl` the lock of a stored artifact
locks nothing (`execution_artifacts.py:237`).

*Within the modelled parts.*

* Study: tick-stitch and prior-profile preparation are one step that succeeds or fails;
  the random baseline and the data-quality columns of the index are data.  The rebuild of
  an index beside a run (`rebuild_direction_index`) is described in § 5 only.
* Launcher: validation of the launch plan and of the bound-approval triple; the record
  `study.launch.json`, which nothing reads back to decide; a server that dies (its claim then
  names no process); a pid the system gives to another process; the existence probe of
  Windows.
* Artifacts: levels artifacts follow the same protocol under locks of their own;
  hit and miss counters; the age and byte limits of the eviction; the load of a
  15-second primary, which parses first; `rebind_source_path`.  `flock` is there: where
  `fcntl` is missing the locks of the code do nothing, and the model does not apply.
  An eviction may list a manifest in the middle of its rewrite as one without a date and
  then evict it first (`execution_artifacts.py:1198`); that is in the model and breaks
  no property, since eviction may take anything.
* Repository: the audit log, creation and archiving of theses and conversations,
  registration of external bundles, migration of the store's schema.  The existence test
  in front of a "create only" write is not exclusive (`repository.py:613`); the model has
  it as two steps, and the properties of versions hold while calls do not overlap.
* Walk: the subtimeframe models, ambiguity diagnostics, profit and loss, the rounding
  of floats, and `DATA_END` as a name for a session close on the last bar.  A three-candle
  entry bar that gaps through its entry tests no bracket on that bar; the model
  has it, and `ForcedExitMissesNothing` excepts it.
* Backtest: the walk itself (any exit is allowed) and the columns of the trade log.
* Voice and conversations: what is said; the tools and their answers, of which only the
  audit matters here; the minted token and the port of the sidecar; a session record that
  another writer edits (`save_voice_session` compares a revision, but the sidecar is its
  one writer).  `asyncio.gather` does not cancel the other pump when one fails: in the model
  `Close` turns both off, and what the provider had sent before its socket was closed is not
  read any more (calls after the end are still made, on a session ended by `PostEnd`).  An
  append that cannot read the conversation ends the flush; the code tries it again where
  the second read succeeds.  A tool that fails is audited like one that answers.  The answer
  of a tab is the one that follows its question; help, results and drafts differ in what
  they ask, not in what they store.
* Signals: `confirm_3bar`, which `generate_signals` never calls, the read-only labels of
  `classify_zone_triggers`, labels of variants; the touch tolerance of naked levels, which
  the facade sets to 0; time zones and daylight saving, on which session dates depend;
  levels between ticks: the silence of a level is kept under its price rounded to the tick
  (`signals_3c.py:113`) while arrivals are tested at the raw price, which are one price in
  the model.
* Walk-forward: the selection of parameters in the training windows and the statistics of
  the stitched result; `oos_trades`, which are the stitched trades except where overlapping
  windows are rejected: there the stitched equity has none and `oos_trades` has all rows.
* Journal: parsing of fills and statements, intents and tags, matching of trades with
  signals, joins and counterfactuals.
