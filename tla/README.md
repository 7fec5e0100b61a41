# A verification project for the Ducky workflow engine

TLA+ models, model-checking runs and machine-checked proofs for the parts of
Ducky Coder that run *dynamic workflows*: scripts that fan work out to many
sub-agents, under limits that move while they run, with crashes, stops and
resumes in between. Paths are relative to `src/`; four prefixes are
abbreviated:

| short | path |
|---|---|
| `ENGINE/` | `src/apps/ducky-cli/packages/dynamic-workflow/src/engine/` |
| `RUNTIME/` | `src/apps/ducky-cli/packages/dynamic-workflow-runtime/src/` |
| `APP/` | `src/apps/ducky-cli/packages/bootstrap/src/app/` |
| `V4/` | `src/apps/ducky-cli/packages/bootstrap/src/ducky-protocol-v4/` |

`PROJECT.json` holds the exact correspondence of definitions and source lines
(`map`), the hazards with their lines, the runs, the mutants and the theorems.
Model checking: `tlc -config X.cfg M`. Proofs: `tlapm MProofs.tla`.

## 1. The system

Ducky Coder is an AI coding workspace: a desktop shell, a web UI and a TUI over
one agent CLI. The agent can write a *workflow script* and run it: the script
creates actors (sub-agents), asks them things, joins the answers and returns.

```
 script (child process) <--two pipes--> WorkflowEngine + Scheduler --> journal (SQLite)
                                              |  startAsk / node-settled
                                              v
                          WorkflowDriver: sub-agent sessions and turns
                                              |  one call per model request
                             seat gate (per run)  -->  governor (per process, per key)
                                                              |
                                                        provider adapter
```

### 1.1 The workflow core

**Engine and scheduler** (`ENGINE/engine.ts`, `scheduler.ts`,
`scheduler-types.ts`, `replay-order.ts`, the settlement helpers and the journal).
*State*: in memory the queues and the current ask of every actor, `liveNodes`,
`activeAsks`, `ordinals` per call site, the recorded asks still expected and
the replay gate's table and cursor; durably the run row, one row per (site,
ordinal) and the event log. *Operations*: admit an ask line, dispatch, accept
the driver's report, fail a dispatch, retune, settle the run (completed,
errored, stopped), resume. *Hard*: memory is lost at any step; the settlement is
two writes; a resumed script runs again from the start and is answered from the
journal, so the *order* in which recorded answers reach it decides which
ordinal each later call gets; fresh asks of an actor must wait until its
recorded ones are in (the *hold rule*) without anybody waiting for ever.
*Correct when*: an ask is answered once and for good, actors' transcripts grow
in order, nobody waits under a free cap, an abort finds every ask, replay claims
the ordinals of the life before, every resumed run settles.

**Script process and bridge** (`RUNTIME/harness.ts`, `child-source.ts`).
Two line pipes, each FIFO. The script is concurrent branches between `await`s.

**Seat gate** (`APP/workflow-seat-gate.ts`). Enforces a *lowered*
`maxConcurrency` on sub-agents that already work: at its next model request one
that is over the limit is parked, FIFO, until a seat is free. *State*: limit, the
working set, the FIFO, the map from ask to key. *Operations*: `setLimit`,
`askStarted`, `askSettled`, `acquire`/`tryAcquire`, abort. *Hard*: each of the
ways out of the FIFO (grant, abort, settlement, a turn that outlives its ask)
must leave the counts right, or the limit drifts for the rest of the run.

**Live retune** (`APP/workflow-run-control.ts`,
`dynamic-workflow-run-retune.ts`). The engine's cap and the gate's limit are two
variables in two packages that never call each other; a retune sets both in
one synchronous stretch. *Correct when* both always agree and the scheduler
never starts a new ask past a parked sub-agent.

**Governor** (`APP/workflow-concurrency-governor.ts`, the runner's side in
`adapters/src/model/request-admission.ts`). One bucket per provider key for
the whole process: queues per run, rotation between runs, tickets, the alarm for
the end of a Retry-After, fan-out of cap changes, and the main agent as an
*observer* that is counted but never queued. *Hard*: queues are only looked at in
`drain`, so every path that frees a place or ends a cooldown has to drain or
leave an alarm; tickets are settled by whichever of several events is first.

**Controller** (`ENGINE/concurrency.ts`). A pure AIMD controller of the
governor's cap: streaks prove a level, a throttle cuts it, epochs make one batch
of throttled requests count once, idleness forgets everything.

**Driver** (`APP/workflow-driver.ts` and its helpers). Carries an ask of the
engine by turns of a sub-agent's session. *State*: per session the current ask,
`accepted`, `cancelled`, the re-drive alarm, the parked questions; per service
the registry of question ids. *Operations*: `startAsk`, `respondToSubmit`,
`cancelAsk`, `dispose`, the end or failure of a turn, `escalate`, `resolve`.
*Hard*: a turn outlives its ask, and an ask outlives a turn. The flags belong to
the session, not to the turn that reads them; a delayed re-drive may wake up
in another ask; a question id must not be used twice over the lives of a run.

**Run service** (`APP/dynamic-workflow-run-service.ts`, `-lifecycle`, `-submit`,
`-reconcile`, `-observation`). *State*: the registry of the runs this service has
started, those kept after their settlement, the `dwf_run` rows. *Operations*:
submit, amend, resume, cancel, close, the delivery of a settlement, the
reconciliation of orphans. *Hard*: amend and resume check first, then await,
then launch; the service may be closed, the run resumed by somebody else, the
row rewritten by a second process in between.

### 1.2 Around the core

Modelled as well, because a crash, a retry or a second process meets them:

**Command inbox** (`V4/command-inbox.ts`, `persistent-command-index.ts`, the
gateway's admission and settlement). A client that has not heard of a command
delivers it again under the same id. *State*: a gate per command and one per
session, commands in flight, pinned inputs, an LRU of settled ones, an index of
the durable facts. *Hard*: the facts are in four places, three of which forget;
two gates are held at once, and a repeated delivery waits with one of them in hand.

**Data root lock** (`packages/ducky-server-cli/src/runtime/lock.ts`). A lock file
made with `open(wx)` and filled by a second call, a recovery gate of the same
kind, claims by rename. *Hard*: every pair of file-system calls can be
interleaved with another process or cut by a crash.

Not modelled:

| part | state, operations and what is hard | correct when |
|---|---|---|
| Import cache of an amended run | prefix of recorded answers the new script may reuse | reuse never crosses the first divergence |
| World reads, reports, artifacts | journaled calls with ordinals, no actors | answered once, replayed the same |
| Reliable connection (`packages/rpc/src/persistent-protocol.ts`) | unacknowledged messages, replay on a new socket, bounded buffer | no loss, no duplicate, no reordering across reconnects |
| Interaction registry (`V4/interaction-registry.ts`) | user, timer and abort race for a question | the first answer wins |
| Supervisor, crash budget, releases | process generations, rollback | a bad release is rolled back, restarts bounded |
| v4 gateway, publishers, wire assembler | projections, frames | frames apply in order |
| Agent runtime, tool executor, permissions, hooks, runtime tasks | one session's turn | one turn at a time; a denied tool never runs |
| Automations, off-peak tasks, task index | claims and heartbeats in a database | each due job is claimed once |
| Session store, adapters, providers | SQLite and HTTP | what is written is what is read |
| Desktop, web, UI, TUI, server assembly, telemetry, i18n, skills, `formal-proof` | rendering, I/O, content, a test enumerator | - |

`PROJECT.json` gives the reason for each part that is left out.

## 2. The modules

| module | models | how it corresponds |
|---|---|---|
| `SeatGate` | the seat gate and its environment | one action per method; `Acquire` is `tryAcquire` and `acquire` up to the suspension; `UnparkInto` is `unpark`, called by `SetLimit` and `AskSettled` as in the code |
| `RunConcurrency` | scheduler counts and seat gate together (EXTENDS `SeatGate`) | `Retune` is engine-then-gate in one step; `Settle` is gate-then-scheduler; `SessionReady`/`SessionFails` are the two ends of the `await` in `dispatch` |
| `WorkflowEngine` | engine, scheduler, journal, replay gate, script process | see below |
| `RunContract` | what a run promises its readers, with no crashes, queues or replays | abstract specification, implemented by `WorkflowEngine` |
| `AskDriver` | the driver between the engine and one sub-agent's runtime | see below |
| `RunService` | registry of runs, its calls, the rows, several services of one session | see below |
| `ConcurrencyController` | the controller, as functions of a record | one operator per signal |
| `ControllerSignals` | the controller alone, under any order of signals | one action per signal |
| `Governor` | one bucket of the governor (EXTENDS `ConcurrencyController`) | one action per synchronous stretch: signal, fan-out, drain |
| `CommandInbox` | inbox of one session with the gateway around it | one action between two `await`s of `handle` and of the gateway's execution |
| `DataRootLock` | processes that acquire, recover, release and die | one action per call of the file system |
| `Filters` | `Array.filter` by membership, as `Keep` | a recursive function, which proofs can reason about; `SelectSeq` has no such definition |
| `RunConcurrencyProofs` (with the gate's), `WorkflowEngineProofs`, `AskDriverProofs`, `FiltersProofs`, `RunServiceProofs`, `GovernorProofs` (with the controller's), `CommandInboxProofs`, `DataRootLockProofs` | theorems | section 6 |
| `MC*` | instances for TLC | scripts, request loops, symmetry |

JavaScript runs callbacks to completion, so an action is a stretch between two
`await`s. A call made with its result awaited is two actions, and everything
else may happen in between: creation of a session (`current` is set,
`dispatched` is not), waiting in the gate or the governor, the driver's turn,
the pipes, the import of an amendment, a read of the store.

**WorkflowEngine.** `AdmitAsk` is `admitAsk` with the admission drain and the
pump at its end; `Dispatch`/`DispatchFails` are the continuation of `dispatch`;
`AskReported` is `settleOk`/`settleFailed` (row, event, `finishLiveNode`, pump,
answer); `ScriptEnds` and `Stop` are the three settlement paths; `Crash` loses
the memory and both pipes; `CrashInSettle` dies between row and event; `Resume`
builds an engine over the same journal. `ScriptStep` is the child reading one
response. The hash of an ask is its text: two different calls never share one.
`Drain`, `Hold` and `Pump` are each one operator for a loop of the code: the
prefix of recorded positions that is complete, the prefix of the replay table
that is present, and the actors taken in creation order under the cap.

**AskDriver.** `session` is `SessionState`; `turns` is the queue of the runtime,
which works turns off one by one. `Start` is `startAsk`, `Submit` the submit
port with the engine's verdict (it comes in the same stack, so `pendingSubmit` is
not state), `Resolve`/`Count`/`Report` are the three parts of `settleExchange`
around its `await`, `Fail` and `FailForGood` are `onTurnRejected`, `Fire` the alarm
of a re-drive, `StopRun` is `abortInFlight` and `dispose`, `Resume` a driver with a
fresh `escalationSeq` over the same registry. An accepted submission ends its
turn, because `submit_result` is registered as `stopTurnOnSuccess`. One message,
at the start of a turn, stands for all messages of it. Turns of a stopped life
end unheard: the count they may still write is not modelled.

**RunService.** A pending `amend` or `resume` is a record in `calls`; each of its
awaits is a place in it (`settling`, `quieting`, `importing`, `rebuilding`). An engine is
`live`, `settled` (row written, promise resolved), then `known` (the `.then` of
`trackSettlement` has run). `Open` is the next service of the session, in the
same process or after a crash; an older service's pending calls go on.
`ForeignReconcile` is a second process that opens the same session.

**CommandInbox.** `LookUp` is `lookupExact` under the gate of the command,
`LookAgain` the same under both; `Execute` pins and gives the command's gate back.
`Admit`, `Succeed`, `Throw`, `Cancelled` are `handleCommand` of the gateway; `Commit` is
the runtime's write to the transcript or the removal from the queue, `Committed`
the event that tells the gateway.

**DataRootLock.** A file is named by who created it and which of his files it is:
that is its inode and, once written, the pid and token in it. `Claim`/`Claimed` are
the rename and the comparison after it, `Lift`/`Lifted` the same in
`releaseOwnedPath`.

**Data left out.** Texts, schemas, usage counters, costs and timestamps; the
wording and the types of events other than `run-started`, `node-settled` and
`run-settled`; the wall-clock value of a Retry-After (ticks); the number of an
epoch (represented by the set of open requests it would admit to judge);
`lastBad` of the controller, which is only reported.

## 3. The runs

| run | instance | what it shows |
|---|---|---|
| `run_concurrency` | 3 sub-agents asked again and again, limit 1-3 | scheduler and gate agree at every step; parked only when full; FIFO; no turn step over the limit; nothing is dispatched past a parked sub-agent; everybody parked gets out |
| `engine` | 3 branches, 2 shared actors, 1 branch nobody awaits, cap 1-2, crash, torn settlement and stop, 2 lives (457 000 states) | work conservation, dense `actorSeq`, serial transcripts, aborts find every ask, one answer per promise, no silent abandon, `run-settled` last, the contract |
| `engine_live` | 2 branches meeting at a shared call site, cap 1-2, crash, torn settlement and stop, 3 lives (479 000 states), fairness | a resumed run settles, and claims the ordinals it claimed before unless a settlement came out of order (below) |
| `ask_driver` | 3 asks of one actor, the second typed, 2 lives (562 000 states), fairness | one carrier per ask, ports serve their own ask, answers reach their questions, boundaries are those of the ask, every ask ends, unless it is lost to a foreign AbortError |
| `run_service` | 2 runs, 4 engines, 2 services, 2 pending calls, 1 settled run kept (215 000 states), fairness | ownership of engines, honest rows and statuses, superseded for good, every call returns |
| `run_service_late` | 3 runs | a defect (section 5) |
| `controller` | 3 requests, ceiling 8 | single-step probing, one cut per batch |
| `governor` | a run with 2 loops, a run with 1, the main agent, Retry-After 0-1, aborts (454 000 states) | exact accounts, nobody at an open gate, admission under the cap, FIFO per run, cuts are heard |
| `governor_aborts` | a run with 3 loops, a run with 1, Retry-After 0-1, aborts (145 000 states), fairness | every waiter leaves, unless it was stranded |
| `governor_starved` | 2 + 1 loops | a defect (section 5) |
| `command_inbox` | 3 requests, an input and another command, an LRU of 1, a store that fails in sweeps and cancellations (272 000 states), fairness | inputs run once, answers are final, everybody is answered |
| `data_root_lock` | 3 processes, 2 files each, 2 attempts (239 000 states), fairness | one holder, and a successor gets in after any crash |

### Bounds and why they are enough

- *Seat gate*: three sub-agents under a limit of one leave two in the FIFO, so
  the order of grants, and an abort or a settlement of either, can be seen; a
  limit raised by two grants two at once. One tool in flight (`MaxTools`)
  separates "no tool" from "some tool", all the code asks.
- *Engine*: two branches and one shared call site are the least in which the order
  of two answers decides an ordinal; two actors with a third branch are the
  least in which a fresh ask must be held for a recorded one of another branch;
  a cap of one under two actors makes queues wait for each other. `MaxLives` is
  the number of engine objects: two is "interrupted and resumed", three in
  `engine_live` because the order in which a second life answered is only replayed
  by a third.
- *Driver*: an ask before and one after the typed one; every budget (repairs,
  nudges, questions of an ask, transient failures) is one, so each is both
  used and exhausted. Two candidates for a question id and one id that retired
  before the first life make both the free and the taken case happen;
  `RetiredLimit` is above what the run can retire (section 5 has what happens beyond it).
- *Run service*: two runs are a predecessor and its amendment; four engines let a
  run be started, resumed and resumed again beside the other; keeping one
  settled run makes the second settlement evict. Two pending calls can cross.
- *Inbox*: an LRU of one forgets as soon as there are two commands; three requests
  are one that executes, one that waits for it and one that waits behind that.
- *Lock*: three processes are a dead owner, one that recovers and one that
  overtakes it; two files each are a gate and a lock. `MaxTries` two stands for
  100: first and last attempt differ. With `CONSTRAINT NotTorn` TLC stops at states the
  safety property excuses; safety alone has also been checked past them
  (2 215 000 states).
- *Controller*: a ceiling of eight has cuts of two (8 to 6 to 4) and of one (4 to 3
  to 2 to 1), so falling back to a proven level and cutting to three quarters
  differ; `ProveAfter` two tells a streak from a success. Three requests are
  enough for a request that cut, a stale and a fresh one.
- *Governor*: ceiling two or one makes one or two places for three or four
  loops; `IdleTicks` two and `RetryAfters` up to one put the end of a cooldown
  before the idle reset, and the abort of a waiter before, between and after the two.
- Counters that the code lets grow (successes, time) saturate at the value they
  are compared with, and say so where they are defined.

`CHECK_DEADLOCK FALSE` is set where the system may stop: a settled run, an actor
without asks, a service that is never opened again, a client that delivers
nothing more, a process that has released or died.

### Fairness

- *Scheduler and gate* (`RCFairness`): a session's creation ends (weak); a turn
  settles its ask (strong). Weak fairness is not enough because a retune can
  park the sub-agent again and again. It is parked only in front of a request,
  so each time it is let out it makes one of the finitely many requests of
  its turn. Nothing makes anyone retune.
- *Engine*: both processes read their pipes, session creation ends, every ask the
  driver has is reported, an unfinished run is resumed when its session opens.
  Weak fairness of each, written out as `[]<>` of what disables them, since ENABLED
  of these actions is slow to evaluate. Nothing forces a crash, a stop or a retune, and
  `MaxLives` is why crashes end. That every ask is reported is what
  `EveryAskEnds` says of the driver.
- *Driver*: the runtime takes the next turn; a turn that waits for no answer ends
  somehow; the store answers, with a count or an error; alarms go off. Weak
  fairness of each. Nobody has to answer a question: an ask may wait for ever with one
  (the code has no timeout there, on purpose). Transient failures of an ask are
  bounded by `MaxTransient`: the code re-drives without limit and leaves it to
  the stall clock to tell the user, so ending rests on a provider that recovers.
  An ask that is lost (section 5, item 11) ends only with the run.
- *Run service*: resolved promises are delivered, file reads and the bounded wait
  for quiescence end. No engine has to settle by itself and nobody has to call
  anything.
- *Inbox*: reads of the store end; an execution settles (the gateway does it in a
  `finally`). An input may stay in the queue for ever.
- *Lock*: calls of the file system return. Nobody has to start, release or die.
- *Governor*: time passes, an alarm that is due rings, attempts end and release
  their ticket, and a runner that was told `queued` goes on to queue. These are
  stated as `[]<>` of having left the state: equal to weak fairness of the only
  actions that leave it, and cheaper to evaluate than ENABLED of a drain.

### Switches and history variables

No property rests on an assumption about the environment. Two constants say which
events an instance has:

- `Interruptions`: which of crash, torn settlement and stop may happen; all three in
  both engine runs.
- `Aborts` (`Governor`): whether waiting requests may be aborted. TRUE in
  `governor` and `governor_aborts`, FALSE in `governor_starved`, which needs none.

Where the code breaks a promise in a way that is known and listed in section 5, the
property excuses that one event, which a *history variable* records, and
nothing else. A history variable appears in no guard:

- `disturbed` (`WorkflowEngine`): a settlement has been torn, or a live answer came out of
  order (`OutOfOrder`). The latter is: the gate had not released every recorded answer yet
  (`ENGINE/replay-order.ts:54` puts asks that run again outside its table; TLC has a
  run in which such an ask is answered before two recorded answers are released,
  takes the ordinal of one of the later calls, and the run ends in
  `InputHashMismatch`; a turn takes seconds and a replay milliseconds, but nothing in the
  code orders the two), or the cancellation of a stop stands for the answer in the
  log (section 5, item 4). Once it is set, `ReplayIsDeterministic` claims nothing for
  the rest of the run.
- `stranded` (`Governor`): section 5, item 5. Every drain clears it.
- `torn` (`DataRootLock`): section 5, item 7.
- `adrift` (`CommandInbox`): the inputs of section 5, item 8.
- `lost` (`AskDriver`): the ask of section 5, item 11.

## 4. Each property and the mistake it catches

Every property of a passing run is shown to be able to fail: `PROJECT.json`
lists for each a *mutant*, a definition of the model replaced by a plausible
mistake (a grant too many, LIFO for FIFO, a flag that is not reset, an id that is
compared with half of the table, an index that is not invalidated, a stale file
claimed without a second look, a row that is not reconciled, no rotation), under which
TLC finds that property violated in that run. The mistakes are defined next to
the definition they replace and are used nowhere else.

## 5. Where code and words disagree

Shown by a run:

1. **Starved run** (`governor_starved`, `APP/workflow-concurrency-governor.ts:255`).
   A grant to the main agent sets `lastGrantedRun` to an identity with no queue,
   so the rotation starts again at the first queue. With such a grant between any
   two, the run that is first is served every time.
2. **Engine without an owner** (`run_service_late`,
   `APP/dynamic-workflow-run-submit.ts:203`). `amend` (awaits at 146, 177, 179) and the
   resume of an amended run (461) ask `assertOpen` at their entry only. A
   `close()` in between does not see the new entry; the engine starts in a closed
   service, where nobody can cancel it. The comment at
   `APP/dynamic-workflow-run-lifecycle.ts:156` says this is what the closed flag is for.

Seen while modelling, reproduced by TLC on variants of the modules that are not
kept as runs:

3. **Torn settlement** (`ENGINE/scheduler.ts:484`). `replay-order.ts:130`
   says the settlement order is written together with the row. It is two
   statements without a transaction. Dying in between leaves a completed row
   with no event; the resumed run releases that answer at once, before
   answers that came earlier, the branches claim each other's ordinals at a
   shared call site, and the run dies of `InputHashMismatch`. The hash is of the
   instructions only (`ENGINE/scheduler.ts:125`): if the two branches ask two
   *sub-agents* the same thing there, nothing is noticed; each ask then waits for
   a recorded position of the other sub-agent, and the run hangs. (`engine_live` has
   torn settlements: the run settles, and `ReplayIsDeterministic` excuses it from there on.)
4. **Cancelled events in the order** (`ENGINE/replay-order.ts:157`). The
   table takes the *first* `node-settled` of an instance, which is said to be
   stable across lives (135-136). A stop appends `node-settled(cancelled)` in the order of
   `liveNodes`; if the next life answers in another order, the third replays
   in the order of the stop and may die of `InputHashMismatch`. (`engine_live` has stops and
   three lives; the property excuses exactly the answer that comes in another order.)
5. **Stranded waiter** (`APP/workflow-concurrency-governor.ts:310`).
   An abort during a cooldown longer than the idle reset lets `idleReset` clear
   the cooldown; `armCooldownWake` cancels the alarm and arms none; nothing
   drains. The other waiter sleeps at an open gate until somebody else queues or a
   request ends. `stranded` records it; `governor` and `governor_aborts` have
   it, and say that it is the only way to sleep at an open gate.
6. **Two engines of an amended run** (`APP/dynamic-workflow-run-submit.ts:461`). Two
   resumes both pass `already_running` while neither has launched; two engines then
   write one journal. In the same way an amended run that is superseded while its
   resume waits for the import runs again. `PlainEngineOwned` and
   `SupersededForGood` therefore speak of runs that are no amendments;
   `EveryEngineOwned` is the property without that condition.
7. **Blank lock of a live process** (`packages/ducky-server-cli/src/runtime/lock.ts:190`).
   Between `open(wx)` and the write the file names nobody and counts as stale:
   a process that holds the gate may claim it, and its creator, which does not
   look again, believes it has the lock. The gate has two cases of its own: who has read
   a dead process's gate may by then rename away the gate that a live process has
   made there, *written or not* (`claimStalePath` compares only after the
   rename), and a file that is renamed back may land on top of a live process's gate.
   Each of the three can make two holders; `torn` records that one of them has happened, and
   `OneHolderUnlessTorn` says that nothing else can.
8. **Input whose execution threw** (`V4/v4-gateway.ts:2426`, `2500`). Its
   cancellation is written to the ledger without invalidating the index of
   durable facts (against 976-979). A retry after the answer has left the
   LRU finds nothing and executes again. The sweep of a resumed session
   (`core/src/runtime/methods/steering.ts:1339-1360`) swallows an error of the store: the inputs
   it has not reached stay `admitted`, which is not a fact the index knows, and a
   retry executes them again. `InputsRunOnce` excuses these two (`adrift`).
9. **Question ids run out** (`APP/workflow-driver-escalation.ts:202`). `escalationSeq` starts
   again with each driver, while the registry outlives it and remembers retired ids.
   With three candidates per number, the fourth life of a run in one process
   finds all of them taken and `escalate` throws the error that its comment
   reserves for two drivers with one run id.
10. **Ids come back** (`APP/workflow-escalation-registry.ts:81`). After 256 retirements the
   oldest id is forgotten and may be minted again by a later life; an answer to
   the old question then reaches the new one.
11. **An AbortError of somebody else** (`APP/workflow-driver.ts:551`). A turn that ends as
   `TurnCancelled` is not reported, because "the engine has settled that ask". The runtime
   makes a `TurnCancelled` of any error with an `AbortError` or a cancelled model request among its causes
   (`core/src/runtime/helpers/turn-errors.ts:98`, 225-247), aborted by the engine or not. If such
   an error ends a turn nobody has cancelled, the ask is neither settled nor driven
   again: the run waits for it until it is stopped. `lost` records the ask;
   `OneCarrier` and `EveryAskEnds` excuse it alone.

Two more, which no property states. A cooldown that is over stays set, so
with waiters behind a full cap the alarm is armed for 0 ms again and again until
a place is free (governor line 265): it costs polling, nothing else. And idleness
is measured from the last *admission* (`ENGINE/concurrency.ts:223`): a request
in flight for the whole interval that ends throttled cuts the cap, and the drain
of the same step puts it back to the ceiling and forgets the Retry-After.

## 6. What is proved

TLAPS proves these for every value of the constants (any script, any number of
sub-agents, asks, callers, requests, processes and lives, any cap, ceiling and
tuning), from the named assumptions in the modules only: finite sets, naturals,
`None` not one of the values it stands beside, `KeyOf \in [Ask -> Key]`, in the engine that
`ActorOrder` and `BranchOrder` list each once and that every branch has a finite script.
Each inductive invariant was checked by TLC, as an invariant of the component's
run, before it was proved.

**Seat gate** (`RunConcurrencyProofs`, first part). `Init => IInv`, `IInv /\ [Next]_vars => IInv'`.
`IInv` is the type invariant with the four state properties of the run, plus
what they need, `OneAskPerKey`: without it a settlement could free a seat that
another ask of the same sub-agent still holds, and the keys with an ask in
flight would no longer be `working` and the FIFO. The core is
`UnparkFacts`: what `unpark` leaves is a suffix of the FIFO, what it grants the
rest, and either the FIFO is empty or the working set has reached the limit.
Theorems: `TypeCorrectness`, `ParkedOnlyWhenFull`, `EveryAskCountedOnce`,
`NoForgottenWaiter`, and the action properties `SeatsInOrder` (`Fifo`) and
`LoweringTakesEffect` (`NoTurnStepOverLimit`): `UnparkServesFront` says that a grant takes a
front part of the FIFO and, if it takes anybody, stays within the limit.

**Scheduler and gate** (`RunConcurrencyProofs`, second part). The gate's invariant and
`CountsAgree`, strengthened by: an actor has at most one ask awaiting a session
or in flight. The cardinalities then add up because the three sets are disjoint.
`SchedulerAndGateAgree` is the "arithmetic" the source's comments rely on;
`NothingDispatchedPastParked` follows from it and `ParkedMeansFull`: if somebody
is parked, `activeAsks >= limit = cap`, and the pump takes nobody.
`CompositionRunsTheGate`: each step of the composition is a step of the
gate's own specification or leaves it alone, so `RCSpec => SeatGate!Spec`, and
everything proved of the gate holds in the composition.

**Controller** (`GovernorProofs`, first part). `SignalsIInv == Sound(ctl) /\ Agrees(ctl,
open)`: shape and range of the record and the probing rule, and the
agreement of `inFlight` and `fresh` with the open requests. There is a lemma per
signal. `InFlightExact` needs no more than `Agrees`, but only because
the floor at zero is never used; that is what the agreement says.
`OneVerdictPerBatch` is an action property: a step that cuts the cap empties
`fresh`, and an ending that is not fresh cuts nothing.

**Governor** (`GovernorProofs`, second part). `GInv == Fits(bucket, attempt)` and the
range of the alarm. `Fits` relates a bucket to the places of the requests: the
controller is sound and counts the open tickets, as do the counters of the runs; the
queue of a run holds its waiting requests, once each; the rotation is the runs that
have a queue.
- *Signals.* `FanOutFits`, `ObserveFits`, `FeedFits`, `GrantFits`, `DequeueFits`,
  `EnqueueFits` and `SettleFits` say that each part of a handler keeps `Fits`, a ticket
  or a queue entry moved with the place of its request.
- *The drain.* A loop whose length depends on the state, so its model is a
  recursive function; `TurnsExist` shows that there is one (the least length
  for which there were none is refuted). `Turned` is the invariant of the loop: `Fits`,
  idleness seen to (`Rested`, so that the last feed of the queue length cannot reopen the gate), the
  cap as it was or at the ceiling (`Kept`), under the cap as soon as somebody was granted (`Under`), a
  front part of each queue gone and the rest in order (`InTurn`), and each turn
  takes somebody or finds nobody or a shut gate. `Drained` is what is left of it at the end.
- *Steps.* For the action properties a step is of one of three kinds (`ThreeKinds`): it
  admits only the main agent's requests, it takes the fast path past an empty queue, or it
  ends in a drain.
- *Theorems.* `AccountsAgree` (`CountsAreExact`), `AdmissionsRespectTheCap`,
  `FirstComeFirstServed`, `CutsAreHeard`, and `TheGateIsWatched` (`NobodyWaitsAtOpenGate`),
  with aborts and without hypotheses; what it excuses is `stranded` (section 5, item 5).
  It is inductive given `GInv`: time cannot open a gate that a full cap shuts, because
  something is then in flight and idleness does not reset; a cooldown has its alarm,
  which runs down to zero and is not cleared before it rings.

**Data root lock** (`DataRootLockProofs`). `IInv` is the type invariant, `Shape`
(which values the local state of a process has at each place of its attempt) and,
as long as no live process was robbed (`torn` is false), `Sound`: `GateInPlace`
(who is past the recovery gate has his own gate file at its path),
`LockInPlace` (an owner's file is at the lock's path), `ClaimsTheDead` (what a
process is about to claim was created by a dead one) and `LiftsItsOwn` (what a
process has moved aside to release is its own). `OneHolderUnlessTorn` alone is
not inductive: two processes could claim the same stale lock one after the
other, and the second would move away the first one's new file. That the gate
keeps them apart is `GateInPlace`. The argument uses only who created a file and
whether he lives, neither its contents nor its number. A step may
change the directory in three ways (`DirStays`, `LockMoves`, `GateMoves`), and there
is a lemma for each. Theorems: `TypeCorrectness`, `OneHolder`.

**Filters** (`FiltersProofs`). `Keep(s, S)` is defined by a recursive function over
the length of `s`. `KeepFacts` says what it is: it picks increasing positions
of `s`, all those and only those whose element is in `S`. The proof is an
induction without an induction theorem: `LeastNat` (every non-empty set of naturals
has a least member) takes the shortest prefix for which the statement fails, and
one unfolding of the function refutes it. `KeepRange`, `KeepSorted` and
`ConcatRange` are what the proofs of the engine and of the driver cite.

**Engine** (`WorkflowEngineProofs`). `IInv == Types /\ Places /\ WorkConserving /\
UpAndDown`. `WorkConserving` is not inductive alone: whether a pump serves an actor
depends on its queue being its own. `Places` says where an ask can be: recorded and
awaited at its `actorSeq` (`RecordedPlaces`), fresh and not in the journal
(`FreshPlaces`), or live, queued or current, at its own actor with a running row
(`LivePlaces`); in no two of these, in none twice, and `liveNodes` is the last of the three.
- *Operators.* `RunLengthFacts`: the CHOOSE of the longest run of positions always
  has something to choose (a finite set cannot contain all of them). `HoldFacts`: the
  replay gate releases only what was parked or has just come. `PumpFacts`: the pump
  takes the head of each chosen queue and nothing else, stays under the cap, and
  leaves no idle actor with a queue unless the cap is reached; the core is the
  least position in `ActorOrder` that was passed over. `DrainJournal`, `DrainQueues`
  and `DrainPlaces` say the same of admission: what leaves the fresh and the recorded
  asks is what arrives in the queues and, if fresh, in the journal.
- *Steps.* One lemma per action; the three ways to settle a run share `SettleRunStep`,
  reports and failed dispatches share `SettleNodeStep`.
- *Theorems.* `NoWakeUpIsLost` (`WorkConserving`), `AbortIsComplete`
  (`AbortFindsEveryAsk`: a consequence of `Places`), `EveryAskHasItsEnd`
  (`NoSilentAbandon`) and `LogOfALifeIsClosed` (`RunSettledIsLast`), action properties
  from the same invariant, and `EngineKeepsTheContract`: `Spec => Contract!Spec`. The
  refinement mapping reads a run's answers from its rows. A step of the engine maps to
  one answer or to a stutter because only `SettleNode` writes a final status, and it
  does so to the row of an actor's current ask, which `LivePlaces` says is running;
  crash and resume are stutters because they leave the journal alone.
- *Positions.* `DenseActorSeq` and `SerialTranscript` follow from a second invariant,
  `Positions`, proved under `IInv`. The rows of an actor fill the numbers below
  `max(recordedCount, nextAdmitSeq)` (`Filled`); what earlier lives wrote and this one
  has not asked for is below `recordedCount` (`EarlierLives`); an ask without an answer
  that admission has passed is in its actor's hands (`Behind`), and these are in the order
  of `actorSeq` (`InOrder`). `FillsCount` turns "filled" into "as many as": the number a
  resume counts is the first free one. Theorems: `RowsAreDense`, `TranscriptIsSerial`.
  Both have the hypothesis `OneActorPerText`: calls of one site with one text go to
  one sub-agent. A row is claimed by site, ordinal and the hash of the
  instructions (`ENGINE/scheduler.ts:125`), so without it a call could claim the row of another
  sub-agent (section 5, item 3). The scripts of the runs satisfy it, and
  `MCWorkflowEngine` has TLC evaluate it; TLC has found no violation without it, for
  two branches with equal texts at one site and up to three lives.
- *Promises.* `OneAnswerPerPromise` says that the script gets no answer it does not wait
  for. A third invariant, `Promises`, follows an ask through the engine: of the ask a
  branch waits at there is one line on its way in (`LinesWait`, `LinesApart`), or one
  instance in some hand (recorded, fresh, live or parked: `InHand`, `HandWaits`), or one
  answer on its way out (`RepliesAsked`). `HoldReleases` says that the gate releases each answer it
  is given or keeps it, not both, and none twice, because its table names no ask twice;
  `AnswersApart` that a parked or recorded answer is in no other hand after an
  admission; `AnswersOut` that what leaves the hands as answers leaves `toChild` with
  one per branch. The steps that answer nobody share `QuietPromises`. It needs no
  hypothesis on the script: theorem `EveryPromiseAnsweredOnce`.
- *Replay.* `ReplayIsDeterministic` compares lives that share nothing but the journal, so its
  invariant, `ReplayInv`, names what they have in common. `E` is the order in which
  the asks of the journal were settled, each at its first settlement (`Listed`); `G` is
  the one order of all lines of the run: the openings of the branches, then the
  n-th line is what the branch of the n-th settled ask does next, which may be nothing
  (`Scheduled`). An instance is the site of a line and the number of lines of that site
  up to it (`Name`), so two lines claim different rows (`NamesApart`) and every row has the
  text of its line. A life is a place on this schedule (`Replays`): the gate has
  let go the first `d` answers of `E`, those in the pipe to the child are the last of
  them, the child has written the lines that follow the others, and the engine has read
  them up to line `A`. `RecoveredIsListed`: what a resume recovers from the log is
  `E`, so the next life starts at place 0 of the same schedule (`LifeBegins`).
  `HoldReplays`: the gate lets go the next answers of `E` and nothing else;
  `AdmitAskMatches`: the row an ask claims is the row of this very line. A live answer
  appends to `E` and `G` (`SettleNodeReplays`), which is what a run that is not `disturbed`
  guarantees: it comes after the whole of `E`, and its own event is the first of its instance. `ReplayInv`
  says all this of a run that is not `disturbed`, so a stop is a step like any other: the cancellations it
  logs are of asks without a final row, which `RecoveredOrder` passes over until they are
  answered. Theorem `ReplayFollowsTheJournal`, for any script, cap, number of lives and
  order of crashes, torn settlements, stops and resumes, without hypotheses. That each of the three excuses is
  needed TLC shows: without it the property is refuted (section 3; section 5, items 3 and 4).

**Run service** (`RunServiceProofs`). `IInv` adds to `PlainEngineOwned` and `NoLyingRow`
three facts: `Entries` (an engine belongs to a run, and an entry of the index is an
engine of its run), `Callers` (a pending call is about a run there is, and a resume that has to
wait is one of an amended run) and `SupersededIsStill` (nothing that is live could write
into the row of a superseded plain run). The type invariant counts the amendments that
are under way against `MaxRuns`, so that the row each of them will add has a place. The two
properties are proved together: a row may say `running` because a caller is about to
launch, and what a caller launches is owned because it puts it into the index itself.
Theorems: `PlainRunsAreOwned` (a live engine of a run that is no amendment is the registry
entry of its run in the open service), `RowsTellTheTruth` (while the service is open, a row that says `running`
has a live engine, for all runs), `ReadersAreToldTheTruth` (while it is open, a run that is no amendment is told as
`running` or `pending` exactly until its settlement is announced) and `SupersededStaysSo` (a superseded run that
is no amendment stays superseded). The first, third and fourth are false of amended runs
(section 5, items 2 and 6) and do not speak of them.

**Driver** (`AskDriverProofs`). `IInv == TypeOK /\ Carriage /\ Questions /\ Store`.
- *Carriage* ties the flags, which belong to the session, to the turns, which belong to
  their asks: the live ask is the current one and neither accepted nor cancelled
  (`OneByOne`); an ask has one turn at most, only the first turn has begun, and one
  that is ending is of an ask that is over (`TurnsInOrder`). `OneCarrier` is not inductive
  alone, because `scheduleTransientRedrive` overwrites the alarm that is armed: the end
  of a late turn may arm one for an ask that is over. What saves the live ask is that an
  alarm carries it only when the queue of turns is empty, the last conjunct of
  `Carried`; and an alarm of the current ask that is not live finds it accepted.
- *Questions*: the registry and the waiting questions are each other's inverse
  (`Parked`), and the turn at the head is the one that asked (`Listening`).
- *Store*: messages, counts and boundaries. A boundary is written when its ask is
  current, so no later message is there yet, and after its turn has ended, so none of its
  own is missing.

Theorems: `CarriedOnce`, `PortsAreOfTheCurrentAsk`, `BoundariesSeparate`, and
`AnswersReachTheirQuestions`, which has one hypothesis, `MaxQuestions < RetiredLimit`:
in fewer questions than the registry remembers (256 in the code), every id that was
asked for is parked or has retired (`Remembered`, which counts the two against the questions).
Beyond that number the property is false (section 5, item 10). `CarriedOnce` has no
hypothesis; an ask that is `lost` is the fourth way a live ask can be carried in `Carried`: by nothing.

**Command inbox** (`CommandInboxProofs`). `IInv` is `KeyGates` and `SessionGates` (who is
in the queue of a gate, once each, and who must be at its head), `Flights` (a command is in
flight exactly while one request executes it), `Ledgers` (what ledger, pins and pending
events say of an input) and `Remembered` (an input that ran is pinned, or its
end is durable and the index, when it is loaded, has it). `ExecutedOnce` follows with no
assumption on the size of the LRU: what the LRU forgets, one of the others remembers,
except for an input that is `adrift` (section 5, item 8). `NoAnswerBeforeItsEnd`
is the action property `AnswersAreFinal`, and `OneExecution` says that the two gates
together let no two requests of a session execute at a time. The operator `Released`
names what giving a gate back does to its queue.

**Only model-checked.**
- All liveness (`ParkedLeaves`, `RunSettles`, `EveryAskEnds`, `EveryWaiterLeaves`,
  `EveryCallReturns`, `EveryRequestAnswered`, `SuccessorGetsIn`): it rests on ENABLED and fairness.

The safety properties of the passing runs are all theorems. Two theorems of the engine have the
hypothesis `OneActorPerText` and one of the driver `RoomForAll`; outside of what the history
variables excuse nothing is claimed.

## 7. What the models leave out

World reads, reports and artifacts share the ordinals of asks but no queues and
are left out of `WorkflowEngine`; repairs and nudges of a submission are in
`AskDriver` and not in `WorkflowEngine`, where an ask is reported once. A failed
write to the journal is not modelled; `Crash` stands for a process that does not
survive it. One bucket of the governor is modelled: buckets share nothing. The
two sides of a retune are one step because no `await` lies between them.
`WorkflowEngine.Hold` lets the next answer out in the step that delivers the one
before it; the code lets it out one microtask later (`replay-order.ts:70-83`), in
the same order.
In `RunConcurrency` the actors a pump takes are left open (any order), in
`WorkflowEngine` they are taken in creation order as in the code.
`AskDriver.StopRun` drops the counts of the stopped life that are still to be
written (section 2). `AskDriver` has one actor; actors share nothing of the driver but the registry
and the number of the next question. `RunService` leaves the wait for
quiescence and the import open (they end), and does not model its reads.
`CommandInbox` leaves open which commands are refused, loads the index in one
step and has one session; a restart is one step with the resume of the session,
and the discard of admitted rows when a session that is not resident is loaded
(`bootstrap/src/ducky-protocol/v4-bridge.ts:584-588`) is part of `Resume`. `DataRootLock` gives every process a pid that is not
used again and lets no call of the file system fail other than by an existing
or a missing file.

## 8. Plan

Done, in this order: `SeatGate`, `RunConcurrency`, their proofs;
`WorkflowEngine`, `RunContract`; `ConcurrencyController`, `ControllerSignals`, their proofs; `Governor`;
`RunService`; `DataRootLock`; `CommandInbox`; `AskDriver`; the proofs of the lock,
the inbox, the run service, the engine, the driver and the governor.

Next, by importance:

1. `ImportCache`: which answers of its predecessor an amended script may reuse.
2. `PersistentProtocol`: refinement of a reliable FIFO channel under socket loss.
3. `InteractionRegistry`: the first of user, timer and abort answers.
