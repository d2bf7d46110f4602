# nestjs-durable: TLA+ models, checks and proofs

Formal models of the core of `nestjs-durable`, a durable workflow engine for Node: workflow bodies are
replayed from stored checkpoints, several engine instances share one store, steps run on remote workers,
and everything that keeps two instances from doing the same thing twice, or nothing at all, is a sequence
of single store calls with other instances' calls in between. That is what these models are about.

- [1. The system](#1-the-system): inventory of the components
- [2. What is here](#2-what-is-here): modules and files
- [3. Runs](#3-runs): RunLease, KeptWake, RunQueue
- [4. SignalRendezvous](#4-signalrendezvous), [5. RemoteStep](#5-remotestep-and-steppromise)
- [6. Admission, events and schedules](#6-admission-events-and-schedules): SingletonGate, StepQueue, Lifecycle, Schedules
- [7. Disagreements between code and documentation](#7-disagreements-between-code-and-documentation)
- [8. Checking and proving](#8-checking-and-proving): commands, bounds, what is only model-checked
- [9. Not modelled](#9-not-modelled) and [10. Plan](#10-plan)

File names without a path are in `src/packages/core/src/`.

## 1. The system

An **engine instance** (`engine.ts`, `WorkflowEngine`) is a process with a stable `instanceId`. Instances
share nothing but a **store** (`interfaces.ts`, `StateStore`; SQL adapters in `packages/store-*`, the
reference one in `testing/in-memory-state-store.ts`) and **transports** (`packages/transport-*`) that carry
tasks to workers and results back. A **run** is a row (`status`, lease owner and expiry, `wakeAt`, recovery
attempts) plus **checkpoints** at positions `seq` of its body; executing a **turn** of it replays the body,
returns what checkpoints hold, and stops at the first position that has no outcome yet (the run suspends)
or at the end (it settles).

| Component | State it keeps | Operations | What makes it hard; what makes it correct |
| --- | --- | --- | --- |
| Run lifecycle and recovery lease (`engine.ts`, `nestjs/timer-poller.ts`) | run row; per instance: gate, queued resume, fence, pending cancels | start, resume, lease lock / renew / prove / release, settle, poll pickup, recovery, cancel, requeue | several instances and several tasks of one instance interleave around one row; crashes; stalls. One executor at a time, a lease held while `running`, one outcome, a recovery budget spent by crashes only, rest in the end |
| Signals (`engine.ts`, `workflow-ctx.ts`) | waiter row and buffer of a token, the wait's checkpoint | `waitForSignal`, `signal`, `deliverSignal`, reconcile sweep | check-put-recheck against take-buffer-retake with no lock. Delivered once, never lost, no run asleep on a buffered payload |
| Remote steps (`engine.ts`) | step checkpoint (`pending` to `completed` / `failed`, attempts, `wakeAt`) | `callRemote`, `completeRemoteResults`, `rearmStepLease`, `redispatchPending` | lost, late and duplicated tasks and results; two writers of one row. Settles once, every replay sees the same outcome, a lost dispatch does not hang the run |
| Workflow context and local steps (`workflow-ctx.ts`) | positions, replay map | `step`, `sleep`, `all`, `child`, `continueAsNew` | determinism by position; crash between effect and checkpoint |
| Fans and children (`fan-join.ts`, `buffered-child-signals.ts`, `engine.ts`) | member checkpoints, children, coalesced wakes | `all`, `startChild`, barrier reads, adoption | last members settle on several instances while the parent suspends on a snapshot; the barrier must open exactly once |
| Kept wakes (`engine.ts`) | wake requests in the store | `requestWakeAfterTurn`, `honorWakeRequests`, `noteServedWakes` | a wake refused because of the lease must reach the next turn |
| Run queue (`run-dispatch-batcher.ts`, `transport-pool.ts`, `bounded-runner.ts`) | queued run ids, short claims | `runFromQueue`, `handOffDue` | claims a turn must not mistake for its own lease |
| Graceful drain (`engine.ts`) | draining flag, executions in flight | `beginDrain`, `drain` | new work starting while waiting for old |
| Remote workflows (`remote-workflow-executor.ts`) | decision task id and deadline | `runRemoteExecution`, `applyDecision`, `completeRemoteDecision` | stale decisions, deadline against late answer |
| Sagas (`engine.ts`) | compensation checkpoints at negative positions | `unwindCompensations`, `runCompensation`, `dispatchCompensation` | undo in reverse, each once, across crashes |
| Events, accumulators, entities (`events.ts`, `event-accumulators.ts`, `entities.ts`) | waiters and buffers by content; per-key state | `publishEvent`, `waitForEvent`, debounce, batch, entity calls | rendezvous as for signals; serialization per key |
| Singleton admission (`singleton-gate.ts`, `singleton-admission.ts`) | marker tags of the runs of a key, their timers | `assertCapacity`, `admit`, park, `wakeNext` | several instances read the same holders; replicas of an older version count otherwise. At most `limit` in flight, and a free slot is taken in the end |
| Start quotas (`concurrency.ts`) | tag of the quota | count and create | a check without a lock |
| Step queues (`queue.ts`, `admission.ts`, `packages/admission-redis`) | slots, rate window, waiters, served keys | `tryAdmit`, release, reclaim | leaked slots, window turnover, fairness across priorities and keys |
| Lifecycle events, run waits (`lifecycle-events.ts`, `lifecycle-deliveries.ts`, `run-wait.ts`) | marker tags of a settled run, its publishers' lease | live publish, sweep, heal, orphans | process dies between the settle and the subscribers; publishers that outlive their lease |
| Schedules (`schedules.ts`, `scheduler.ts`) | row: definition, next window, last run, paused | tick by compare-and-set, catch-up, blind client writes | every replica ticks; clients write back what they read |
| Handshake and routing (`handshake/*`) | worker descriptors | negotiate, select, park `blocked` | pure selection |
| Transports, workers, stores, NestJS wiring, dashboards, codegen, lint, Python SDK | | | adapters and I/O around the above |

Interactions: a result, a signal, a child's end, a timer, a poll and an operator call all end in
`resumeRun`, so every component above calls into the run lifecycle; a turn calls signals, remote steps and
fans; all of them write checkpoints of the same run through the store, none under a lock of its own.
`PROJECT.json` lists the same components with their status, and the hazards at their lines.

## 2. What is here

| Module | Models | Run (`.cfg`) | Proofs |
| --- | --- | --- | --- |
| `RunLease` | one run and the instances that drive it | `RunLease_calm`, `_crash`, `_hostile` | `RunLeaseProofs` |
| `KeptWake` | the wakes of a run that is executed elsewhere | `KeptWake_kept`; `_shared` is a counterexample | `KeptWakeProofs` |
| `RunQueue` | a due run on the transport's run queue, and shutdown | `RunQueue_handed` | `RunQueueProofs` |
| `SignalRendezvous` | one run that waits on one token, and the senders | `SignalRendezvous_meet` | `SignalRendezvousProofs` |
| `RemoteStep` | one dispatched step: turn, worker, consumers, heartbeat, operator | `RemoteStep_keeps` | `RemoteStepProofs` |
| `StepPromise` | what a dispatched step promises; `RemoteStep` implements it | | |
| `SingletonGate` | the runs of one singleton key | `SingletonGate_slots` | `AdmissionProofs` |
| `StepQueue` | the calls of one step queue | `StepQueue_served` | `AdmissionProofs` |
| `Lifecycle` | the lifecycle events of one run | `Lifecycle_told` | `LifecycleProofs` |
| `Schedules` | one persisted schedule, its pollers and clients | `Schedules_fired` | `SchedulesProofs` |

`XMC` is the instance of module `X` for TLC.

In every module one action is one store or transport call (with the local computation around it), because
between two `await`s any other instance, and any other task of the same instance, may run. Each store
call is atomic, as the conformance suite in `packages/testing` asks of a store. The modules are
separate on purpose: `SignalRendezvous`, `RemoteStep` and `SingletonGate` each take from `RunLease` that a
run has one turn at a time, and abstract wakes to "a run that is not over may be resumed at any time", which
is what the `wakeAt` of every suspension (`reconcileWakeAt`, `stepLeaseWakeAt`) gives. `KeptWake` and
`RunQueue` look at what `RunLease` has one flag for: which wakes reach the run, and by whose lease.

An operator marked `\* Mutant:` in a module is not used by it. It is a plausible bug in the definition that
follows: put in its place, it breaks the property `PROJECT.json` names, in the same run that passes
otherwise. Such an operator shows that the property depends on that code.

## 3. Runs

### RunLease

**State and code.** `status, owner, live, stale, attempts` are the row: `live` is `lockedUntil > now`,
`stale` that the lease was taken by an earlier process under the same `instanceId` (`ownLeaseCutoffMs`).
`done, inflight, undo, verdict, kept` are its checkpoints, how the body ends, and a kept wake. Per instance:
`pc` is where its turn is (`resumeRunNow`, `execute`, `runExecutionTurn`, `settleRun`,
`releaseLeaseBestEffort`); `carried` the status the turn read, later the one it computed; `reserved` is
`lockedForTurn`; `queued` the resume behind the run gate (`resumeRun`); `fenced` a renewal that was refused;
`cancelRequested` the cancel intent in memory. `job` is a poll job (`runPending`, `resumeDueTimers`,
`recoverIncomplete`, `recoverOrphan`, `reclaimOwnLease`), `rewake` a wake tried again
(`redriveSettledSteps`, `retryDroppedWake`), `op` an operator call (`cancel`, `requeue`).

**What may happen.** `Disturbances` names what befalls the run: `crash` (an instance loses its memory and
comes back), `stall` (its event loop blocks past the lease), `cancel`, `compensate` (cancel with saga undo),
`requeue`, `foreign` (a resume on an engine of another namespace). `MaxDisturbances` bounds their number.

| Run | Shows | Instance and why it is enough |
| --- | --- | --- |
| `RunLease_calm` | `OneLiveExecutor`, `RunningIsHeld`, `TerminalIsFinal` | two instances that both poll and consume results, two steps, no disturbance: every pair of tasks that can meet at the row does, and a wake of the first step may arrive in the turn that dispatched it, in the next one, or after the second |
| `RunLease_crash` | `CountedOnlyAfterCrash` | two pollers, one of which consumes results, and one crash or cancel at any point; with `maxRecoveryAttempts` 1 the second poller may even dead-letter the run, so every state of a recovery is reached |
| `RunLease_hostile` | `TypeOK`, `EventuallyRests` | one instance polls and consumes results, the other serves operator calls and the resume a compensating cancel makes; any one of the six disturbances, at any point, under `FairSpec` |

`OneLiveExecutor` allows a turn that begins late, from a snapshot older than the outcome, to overlap nobody
that can still write: it meets compare-and-sets only. While the run is live there is one unfenced executor.

The safety properties are about runs that are cancelled at most, in runs and theorems alike: a requeue, and a
resume on an engine of another namespace, clear the lease under a running turn (`engine.ts:4824`, `3874`), and
a stalled executor writes on until a renewal fences it. Under those `RunLease_hostile` shows that the run comes
to rest all the same, and `TypeOK`; it does not show that nobody executed beside anybody.

**Fairness** (`RunLease_hostile`): the event loop runs every started turn, job, retried wake and operator
call (`WF` per instance); a driver's poller keeps listing (`timer-poller.ts` re-arms itself after every
tick, failing or not); a worker answers a dispatched step; a lease nobody renews expires. Nothing is assumed
of crashes, stalls or operators. The run is then shown to come to rest, which is liveness across retries of
dropped wakes, own-lease reclaim after a restart, and undo by a dispatched compensation.

**Proved** (`RunLeaseProofs`, any instances, steps, `MaxRecovery`, bound on disturbances):

- `TypeCorrect`: `Spec => []TypeOK`, under every disturbance.
- under `Quiet` (nothing but plain cancels and crashes), up to the first crash: `MutualExclusion`
  (`[](crashes = 0 => OneLiveExecutor)`), `RunningHeld` (`[]RunningIsHeld`) and `CountedAfterCrash`
  (`[]CountedOnlyAfterCrash`: no recovery is counted and no run dead-lettered while no process has died).
- `OutcomeOvertaken`: under `Quiet`, up to the first crash, an outcome changes in two ways only, a cancel that
  read the run before it ended (`LateCancel`) and a turn that starts from a snapshot of the run still pending
  (`LateStart`, the one section 7 is about). A turn that settles late, a result and a poll job change none,
  for any number of cancels. `OutcomeIsFinal`: undisturbed, `TerminalIsFinal`.

None of them is inductive. The invariant is `crashes = 0 => LeaseInv`, and `LeaseInv` adds: whoever executes a
live run, or is about to under a lease locked for it, holds the lease (`LiveLease`); a run reads `running` only
while its first turn is in the body, a resumed one stays `suspended` (`RunningTurn`); until that turn starts
nothing was dispatched that could wake the run, so only the poll job that locked it comes near it
(`UnstartedClean`); the body ends the same way in every turn (`Outcome`); no poll job finds an orphan or counts
one (`QuietJobs`) and nobody undoes the run (`NoUndo`). The properties need each other: recovery stays away
because `running` means held, and it stays held because nobody takes the lease from a turn. `Quiet` is needed,
and so is the condition on crashes: the first one breaks mutual exclusion (section 7). `Quiet` is an assumption
of the theorems, not of the module.

### KeptWake

**State and code.** A run is suspended on several facts: the results of a step fan, whose last one wakes it, or
signals, each with a generic wake. `fact` says of each whether it is out, settled by an instance that has not
woken the run yet, or in. `kept` are the wake requests in the store (`requestWakeAfterTurn`), each with an id of
its own and what it asks for. Per instance: `turn` with what it lists as served before it reads
(`noteServedWakes`) and whether it read the fan whole; `again` and `reason` are `resumeImplicit` and
`noteWakeReason`; `tasks` are its background work between two store calls (keeping a request and looking again,
honouring, re-driving, clearing); `flags` its re-check timer, `genericWakeRequested` and the barrier it opened.
`LongTurns` lets a turn outlast the `LEASE_RECHECK_ATTEMPTS` looks of a refused wake, which then gives up and
leaves its request to the turn. `row.due` is "lease", when a lease would have run out, or "net", the reconcile
interval.

**What may happen.** Facts land on any instance while another one executes the run; an instance dies, with
all it has in memory (`MaxWakeCrashes`), and its lease lapses.

| Run | Shows | Instance and why it is enough |
| --- | --- | --- |
| `KeptWake_kept` | `WakeTypeOK`, `NoKeptLeft`, `WakesArrive` | two instances, one in the first turn, which may outlast every look (`LongTurns`); a fan of two results, which may land on either, or one last signal; one crash. The reconcile is counted on only once an instance crashed, so without a crash the kept wakes do all the work |
| `KeptWake_shared` | counterexample to `NeverStranded`, see 7 | two signals, both to the instance that does not execute the run |

With two signals the run may stay suspended without any fault; that is the counterexample, and the reason why
`KeptWake_kept` has one signal. After a crash three things are left to the reconcile: a wake kept between the
suspension and `keepDueForKeptWakes`, the re-check timer of the instance that died, and a wake only its turn
knew of.

**Fairness**: facts land, instances run what they began, their timers fire, a lapsed lease is noticed.

**Proved** (`KeptWakeProofs`, any engines, facts, requests and crashes): `WakeTypes`, and `NoneKept`, which
states `NoKeptLeft`. The property speaks of the quiet moment only; `KeptCovered` says what holds before it:
as long as nobody crashed, each request of a finished run has somebody who will drop it, the turn that ended
the run and has yet to clear its requests, or the wake that kept the request and has yet to look again. The
two cannot miss each other, because the wake keeps its request before it looks.

### RunQueue

**State and code.** `left` are the turns the run still needs, `due` its timer, `holder` its lease, `queue`
the wakes on the transport. Per instance: `poll` the hand-off (`handOffDue`: mark the claim, lock, push the
timer, release, unmark, send), `pick` a pickup under a lease (`resumeLeased`), `turn` the choice of `execute`
between its own lease (`lockedForTurn`, or `proveOwnLease`) and a new one, `proof` the counter
`claimsMade` a proof compares, `timer` a refused wake, `drain` the shutdown (`beginDrain`, `drain`,
`releaseInflightLeases`), `fenced` a turn whose lease the shutdown gave back.

**What may happen.** A result resumes the run on any instance, also a draining one (`MaxResults`); a wake is
lost, a send is refused, or a step takes longer than a lease (`MaxFaults`); an instance in `Drains` shuts
down.

| Run | Shows | Instance and why it is enough |
| --- | --- | --- |
| `RunQueue_handed` | `RunQueueTypeOK`, `TurnHoldsLease`, `RunEnds` | two instances, one of which may shut down at any point, one turn left, one wake on the transport, one result, one fault: a claim, a pickup, a queued wake and a result meet on one instance and on two. With two turns left (2.36M states) the safety properties hold, too |

`TurnHoldsLease` says that a turn that may still write holds the lease, unless a turn has proved the lease
of a *pickup* of its own instance: the proof counts claims, which are given back, but not pickups, which
normally become that very turn. A draining pickup gives the lease back (see 7).

**Fairness**: timers run out, the queue is consumed, instances go on with what they began, an unused lease
lapses. A shutdown need neither begin nor end.

**Proved** (`RunQueueProofs`, any instances, drains, turns and bounds): `QueueTypes` (`[]RunQueueTypeOK`) and
`TurnKeepsLease` (`[]TurnHoldsLease`). The invariant `LeaseInv` gives every use of the lease on an instance
an owner: while no turn was misled, at most one of claim, pickup, proof and turn of an instance stands on
the lease (`OneUse`), each of them holds it, and a turn whose proof is out may trust it only if no claim was begun
since. It is not enough to say so of turns alone, because each of the others becomes a turn or
gives the lease back.

## 4. SignalRendezvous

**State and code.** `waiter, buffer, cp, deadline, finished` are the store: the `seq` of the token's waiter
row, its FIFO buffer, the checkpoints, the recorded deadline of each wait with a `timeoutMs` (those in
`Bounded`; a clock makes it pass), the run's end. `at, seq, replay, took, woken` are the turn in
`waitForSignal` (`stampDeadline`, `readCheckpoint`, `consumeBuffered`, time out or `putSignalWaiter`, look
again, clean up); `polled, row`
the timer poller that finds a due run and may reconcile its waiter (`resumeDueTimers`,
`reconcileSignalWaiter`); `call, target, payload` each call of `signal` (take waiter, buffer, take waiter
again, reclaim, `deliverSignal`, wake). A payload is the sender it comes from. `seen` is what the body was
returned, at any replay, `timed` the waits that threw `SignalTimeoutError` to it; the body catches that and
goes on. A turn or a call may crash at any point, `MaxCrashes` times.

| Run | Shows | Instance |
| --- | --- | --- |
| `SignalRendezvous_meet` | `TypeOK`, `DeliveredOnce`, `NoStrandedPair`, `TimedOutUnregistered`, `BufferedIsConsumed`, `BoundedEnds` | two senders, two waits in a row, the first with a deadline, one crash. Two of each are needed for a call that began in the first wait to meet the second |

`NoStrandedPair` is what the "interleaving proof" above `signal` is about; `BufferedIsConsumed` adds, under
fairness of turns, calls and the poller, that the sweep repairs what the rendezvous misses. Nobody has to send
a signal, and no clock has to pass a deadline: a call is fair once it has begun. `TimedOutUnregistered` and
`BoundedEnds` are about the wait that ends without a payload: it leaves no row a later signal could be taken
for, and once its deadline has passed it ends, also when the sender that took its row died with it. A removal
of the row that fails is one of the crashes (the code ignores it).

**Proved** (`SignalRendezvousProofs`): `TypeCorrect`, `Delivery` (`[]DeliveredOnce`), `PairMeets`
(`[]NoStrandedPair`) and `TimedOutForgotten` (`[]TimedOutUnregistered`) for any senders, waits, bounded ones and
crashes. For the last two: whoever completes the pair of a waiter and a payload has yet to look for the other
(`Meet`), and a turn that goes on to register has found a deadline ahead, which those of the waits that timed
out are not (`Unregistered`). For `Delivery`, `PlaceInv` says that a payload is in one place: unsent, in the
buffer once, carried by one call, taken by the turn, or recorded for one wait, with one exception, the turn
between writing its checkpoint and removing its waiter. Each atomic take moves it, and no step puts it back.

`OneSignalArrives` draws the line to section 7: with a single call on the token, and until something crashes,
`SignalNotLost` and `NoLostWake` hold, for any waits, bounds and polls. Both fail with a second call, even one
that begins when the first has returned. `Lone` follows the one payload from its sender to a checkpoint, and
says that a run parked without its waiter row owes that to the call, which has taken the row and will
deliver, or which found its payload consumed.

## 5. RemoteStep and StepPromise

**State and code.** `cp` is the step's checkpoint: status (`fatal` is `failed` with a non-retryable error),
`attempts`, the attempt whose output it holds (`by`), and the deadline in `wakeAt`: what it was computed
from (`wake`: the redispatch lease or the retry backoff) and whether it has passed (`due`). `at, read` are
the turn in `callRemote`: it loads the snapshot, reads a pending step again, then decides; `told` is what
the body has been told last; `ended` whether the run is over. `tasks` and `results` are what the transport
holds, `con` each engine's handling of a result (`completeRemoteResults`: read, check the run, settle by
compare-and-set, acknowledge). `aside` are the two writers beside them: `rearmStepLease` for a heartbeat and
`redispatchPending` for an operator, each a read and a later write.

**What may happen** (`faults`, at most `MaxFaults`): the turn, a consumer, or a writer beside them crashes; a
task is delivered twice or lost; a result is delivered again after it was handled; an operator redispatches.
Without a fault, deadlines may still pass at any time, also between a turn's read and its look at the clock,
so that a slow worker and its redispatched copy answer in any order.

`StepPromise` is the promise: one attempt settles the step, once; the body is told that outcome at every
replay; or the engine gives the step up, if it has told nothing yet. `RemoteStep!KeepsPromise` states that
the model implements it, with the outcome read off the checkpoint (`OutcomeOf`: none while the step is
absent, pending or due for a retry).

| Run | Shows | Instance and why it is enough |
| --- | --- | --- |
| `RemoteStep_keeps` | `TypeOK`, `ResultFindsRow`, `KeepsPromise`, `EventuallyTold` | two engines that consume, two attempts, two dispatches, one fault of any kind. With two attempts a late first answer meets its retry or redispatch; the second engine is for results settled at the same time |

`ResultFindsRow` and `TypeOK` (attempts never exceed what retries, redispatches and operators pay for) need
more than one line to hold: both survive crashes at every point and late writes of stale rows.

**Fairness**: the pollers resume a run that is not over, a turn that began goes on, an operation beside it
finishes, time passes, a worker that holds a task executes it, an engine that receives a result handles it.
Losing a task is a fault and needs no fairness: `EventuallyTold` then holds by the redispatch.

**`Prompt`.** Neither heartbeat nor operator call compares when it writes. The promise is checked and proved
under the assumption that nobody else writes the checkpoint between their read and their write; it is false
without it (section 7). It is a constant, so that both sides are on record.

**Proved** (`RemoteStepProofs`, any engines, retries, redispatch bound, faults):

- `TypeCorrect` and `RowFound`, whatever `Prompt` is. `StepInv` adds to them `Paid` (attempts of the stored
  row and of every copy of it stay within the budget of retries and redispatches plus the operator's calls;
  an absent row has none) and `Written` (whoever holds a copy of a written row finds it written).
- `KeptPromise`: under `Prompt`, `Spec => KeepsPromise`. `PromiseInv` adds `NoLateWrite` (a writer beside
  the turn finds the row pending), `FreshCopy` (a turn's copy of a settled step is what is stored: a settled
  step changes only by that turn) and `ToldSame` (the body was told what the checkpoint still says, and a
  run that was told a failure or a loss is over). Every action is shown to keep it and to be a step of
  `StepPromise` or a stutter.
- `CompletionStays`: under `Prompt`, `CompletedStays`, from the same invariant. `BackoffAwaited`: under `Prompt`
  and with `remoteRedispatchMs` unset (the default; `RedispatchMax` 0), `RetryAwaitsBackoff`: no row, and no
  copy of one, has a deadline but a backoff (`BackoffOnly`). Both are false without their conditions
  (section 7): the late write, and the second deadline in the same column, are all there is to blame.

## 6. Admission, events and schedules

### SingletonGate

**State and code.** `row` is each run of one key: its status, its marker tag (`none`, `tracked`,
`admitted`) and what will wake it; `ahead` a `startAt` still to come; `turn` a turn up to the gate
(`markStarted`, `SingletonGate.admit`) and past it, where `restart` is a turn of a pending run that has read a
marker on it, and so leaves the tags alone; `starts` the calls between `assertCapacity` and the
creation; `notices` the runs a `wakeNext` has listed and not stamped; `began` the runs past the gate. The
claim (`tryAdmitSingleton`) is one critical section of the store: `Admit` or `Deny`. With `mixed`, replicas
older than 0.73 take turns too and admit by a scan (`OldStart`, `OldScan`, `Legacy`).

`SingletonGate_slots` (`GateTypeOK`, `AtMostLimit`, `BacklogBounded`, `GateDrains`): three runs, limits 1 and 2,
two racing starts, one delayed start, and one fault of any kind (a turn that crashes or loses its lock, a
cancel, a requeue of a run in whatever status). Three runs are one more than the larger limit, so a slot is
contended, freed and handed on under both. `AtMostLimit` is about the runs the engine has admitted; in a mixed
fleet an old scan may admit beside them. **Fairness**: dates pass, turns are taken and go on, a body ends in the
end (strong, since it may park first).

**Proved** (`AdmissionProofs`, any runs, limit, depth, starts and faults): `GateTypes`, `SlotsKept`
(`AtMostLimit`) and `BacklogKept` (`BacklogBounded`). Under `AtMostLimit` lie two facts about the marker: a run
that is over carries none (`MarkedActive`), and in a fleet of one version a run past the gate carries the
admitted one (`BeganAdmitted`); then only `Admit` adds to the admitted runs, and it counts them in the critical
section that stamps one more. `BacklogPaid` counts a start past the check as a run of the backlog, so a creation
changes nothing; no wake revives a run that is over while nothing failed. `OneSlotIsNeverIdle`: with `limit` 1,
no delayed start, and requeues of runs that are over only, a claim is denied only for a run that holds the slot
or is before it in line (`DeniedOnlyWhenFull`), as the comment on `legacySingletonHolders` claims of a fleet of
one version. Every run but a new one carries a marker (`MarkedStarted`), so whoever might count as an older
replica's holder is at the head of the line.

### StepQueue

**State and code.** `waiters`, `served`, `used` and the slots are the accounting of a queue: of each engine
for itself (`QueueController`), which only counts its slots (`count`, its `inFlight`), or one for the fleet
(`ACQUIRE_LUA` of `packages/admission-redis`), which files them by call and owner (`slots`, `owner`; of an
engine's own accounting `owner` is history). `lapsed` are the filed slots whose owner's liveness key is gone:
the owner died and its key ran out (`KeyEnds`), or it lives, but stalled or could not reach Redis for
`instanceTtlMs` (`LapseKey`; a `Heartbeat` that gets through writes the key again). The next acquire of another
process drops them (`Valid`), and `evicted` are the calls whose slot went that way although its owner lives.
`stable` says that a restarted process keeps its `instanceId`, which may be configured; by default it has a new
one, and the slots of the dead process belong to nobody (`CrashEngine`).
`phase` is where each call is (`callRemote`: asking, admitted, sent; the worker; `completeRemoteResults`),
`attempt` its attempts, `tracks` the calls an engine will release (`stepQueue`). `policy` picks key fairness,
order, concurrency and the rate limit (0: none).

`StepQueue_served` (`QueueTypeOK`, `CapKept`, `NoKeyMonopoly`, `QueueServes`): three calls of two keys and two
priorities, two attempts, and one fault: a crash, a cancel, a store failure between admission and checkpoint,
a waiter that expires, or a lapsed key of a process that lives. One engine with one slot and its own accounting,
with a rate window, fair and newest first, or in order of arrival; one with one slot of the shared accounting,
fair with a fresh id after a crash, or in order of arrival with the same one; two with the shared accounting and
one slot handed out fairly, or with two slots in order of arrival and kept ids. Priorities differ between two
calls of one key, so both comparisons of `better` decide. **Fairness**: blocked
calls are retried, sent steps are answered, windows turn over, the keys of dead processes run out; no
heartbeat has to get through. `QueueServes` is about one engine and what it survives (`Survivable`); with
several, or after a crash under a kept id, a slot can leak for good (section 7).

`CapKept` counts the calls in flight whose dispatcher lives and has not lost their slot to somebody who took
it for dead. More would be false. A process that dies leaves tasks with the workers, and gives their slots
back after its liveness key. One that lives loses its slots in the same way if its key lapses, and the cap is
then exceeded by as many calls as it had dispatched (`CapOfLiving`, section 7); the heartbeat that comes back
does not restore them. `CapKept` says that this is all of it: each slot reclaimed from the living costs one
call over the cap, until that call ends or takes a new slot, and nothing else does. It counts a call for the
engine that took its slot last: an engine may keep a stale `stepQueue` entry of a call that another one
dispatched again, and with two slots and two engines a count by that entry exceeds the cap.

**Proved** (`AdmissionProofs`, any calls, keys, priorities, engines, caps, rates and faults): `QueueTyped`
(`[]QueueTypeOK`), `QueueCapHolds` (`[]CapKept`) and `NoKeyIsPassedTwice` (`NoKeyMonopoly`). The cap needs
`SlotsHeldBy`: no accounting counts more than its limit; an engine remembers no more calls than it counts, so a
release never frees a slot too many; and a call in flight whose dispatcher lives, and whose slot was not
reclaimed from it, has its slot filed, or remembered by that dispatcher. `QueueCapHolds` thereby covers every
crash, stall and partition, and says by how much they may exceed the cap: by the slots an acquire took from
processes that live (`Reclaimed`). The fairness theorem needs `PassedAreLater`: what has passed a waiter by
stands behind the waiter's own key in the order of keys. Were such a key served again over the waiter, it would
have to stand before it: `isNext` picks, within a priority, the key that was served longest ago. Typing and
fairness rest on lemmas about sequences (what `RemoveFirst` and `Append` do to the place of an element), which
hold for every sequence without repetitions. `OneEngineLeaksNoSlot` (`NoSlotLeaks`): on a single engine whose
store answers, and which has not come back under a kept id, no slot outlives its call, in the engine's own
accounting or, but for those of a process that died, in the shared one. The engine remembers each slot it counts
or has filed, and remembers calls in flight only (`SlotsKnown`).

### Lifecycle

**State and code.** `tags` is the marker on the run's row: pending, owed, triggered and failed subscribers;
`read` the tags the turn read with its row, to which the settling write adds (`withLifecycleMarker`); `lease`
the publishers' lease; `pub` each engine's publisher, from the lock to the write of the tags
(`publishSettledLocked`, `dropOrphanedSubscribers`, which reads the fleet before it has the lease); `announced`
what the fleet announces; `started` and `told` what the subscribers got. `age` is the time since the run settled
in the intervals the code tells apart: grace, heal window, past the orphan limit.

`Lifecycle_told` (`LifecycleTypeOK`, `OwedUntilTold`, `EventuallyTold`, `MarkerGoes`): two engines with a
subscriber each, the second announced late and wanting failures only; a requeue of the run, over (whatever its
ending) or not, after which it ends again, perhaps otherwise; one crash, lapsed lease, unread fleet or failed
start. Two publishers of each kind (live, sweep, heal, orphans) meet. `clean` leaves out a requeue that crosses
a publisher or an unresolved marker, and a publisher that cannot read the fleet beside another one, which takes
two faults: there the record is incomplete (section 7). **Fairness**: every engine sweeps and in the end gets
the lease (strong: another publisher may have it each time), a publish goes on, time passes; nothing is assumed
of the heal pass.

**Proved** (`LifecycleProofs`, any engines, subscribers, requeues and faults): `LifecycleTypes`, and
`RecordKept`, which states `OwedUntilTold`. The invariant `Record` says why two publishers that overlap after
a lapsed lease do not undo each other. The tags cover every subscriber and report only what was done
(`TagsOK`), and so do the tags a publisher read before its write (`ReadRecord`), old as they may be. A
publisher that resolves the marker has taken on whoever it stood for, or found it resolved (`Sound`); one that
leaves it unresolved is alone (`Alone`), which is where the last condition of `clean` comes in; and whom a
publisher took on it has started, has failed to start, or will still start (`Accounted`). An unresolved
marker is one of the only ending the run had (`Resolvable`).

### Schedules

**State and code.** `row` is the schedule's row (`StateDoc` and its columns): definition, paused, `next`
(`nextFireAt`), `window`, last run, `fires`; `runs` the run of each window (its id is the window's); `poller`
each engine's `fire`, between `listSchedules`, the overlap check, the start and the compare-and-set;
`client` each call of `engine.schedules`, between its read and its unguarded write, which is computed with a
clock read in between (`Since`); `said` is the `opts.paused` of the call.

`Schedules_fired` (`ScheduleTypeOK`, `CountedOnce`, `PollersForward`, `SkipsOverlap`, `DueMoves`): two
pollers, a client with two calls, three definitions (overlap skipped and catch-up on the last window; missed
windows dropped; jitter), a clock that runs from 0 to 3, one crash or failed start. That lets a window of two
ticks be missed, and a poller be a whole window late. `kept` says that the row knows every run of the
schedule when it is fired; without it overlap cannot be seen. **Fairness**: pollers tick, and finish a fire;
clients may stop between their read and their write.

**Proved** (`SchedulesProofs`, any pollers, clients, definitions and bounds): `ScheduleTypes`,
`FiresCountedOnce`, `PollersMoveOn` and `OverlapSkipped` (`SkipsOverlap`). `CountedOnce` is not inductive,
because a client writes back a row it read long ago: `ScheduleInv` says of every copy of the row, in a poller or
a client, that its `fires` are at most the windows with a run before the window its holder will write. Runs are
never deleted, so an old copy can only count too little. `OverlapInv` says what `kept` stands for: the fires
under way are of one window (`OneWindow`), no run is later than the row's last one but that of a fire which has
yet to write it (`RowKnows`), and each fire read of the last run before its window (`FireKnows`).

## 7. Disagreements between code and documentation

One is a run that must find its counterexample; the quoted lines are in `PROJECT.json`.

| Run | In short |
| --- | --- |
| `KeptWake_shared` | wakes that find the lease held share one request per re-check cycle; a turn serves the first one's request, the second one's fact lands after that turn's read, its wake keeps nothing, and the run stays suspended with every fact in |

The others are found by the same modules with the constants below (unless said otherwise in the instance of
the module's run, and with `SPECIFICATION Spec` or the module's own). Each of these properties stays in its
module, marked as not so in the code.

| Property | Found with | In short |
| --- | --- | --- |
| `RunLease!OneLiveExecutor` | both engines drivers and wakers, `MaxSteps` 1, `RemoteUndo` FALSE, `MaxRecovery` 1, one `"crash"` | `recoverOrphan` (`engine.ts:4356`) locks a crashed run without marking a claim or holding the gate; a result arriving there takes that lease for its own, recovery's release frees it, and another instance executes beside the turn (`production.mdx:69-71`: "One executor per run") |
| `RunLease!CancelledStays` | drivers `{a}`, wakers `{b}`, one `"cancel"` | `markStarted` (`engine.ts:6228`) writes `running` from a snapshot over a `cancelled` run (`production.mdx:78-80`: "A turn still executing on another replica cannot overwrite it"); no other turn does (`OutcomeOvertaken`) |
| `RunLease!DeadOnlyAfterCrashes` | drivers and wakers `{a, b}`, one `"crash"`, `MaxRecovery` 1; or drivers and wakers `{a}`, `MaxSteps` 2, `MaxRecovery` 2 and a second crash; or `RemoteUndo` TRUE and one `"compensate"` | `dead-letter.mdx:41`: "after 5 crash-recoveries, dead-letter the run". `recoverOrphan` gives the lease back before it writes `pending` (`engine.ts:4405-4410`), so another poller finds the run `running` and free and counts the same crash again; a turn, too, may run without a lease after a recovery and be counted; and a `cancelling` run that waits for a dispatched compensation is counted at every tick (`engine.ts:4382`) without any crash |
| `SignalRendezvous!SignalNotLost` | two senders, two waits, neither `Bounded`, no crash | a payload is delivered to the waiter row while another is consumed from the buffer for the same wait; the later write of the checkpoint (`engine.ts:5191`) erases the earlier (`sleep-and-signals.mdx:95`: "signals are never dropped"); not with one signal (`OneSignalArrives`) |
| `SignalRendezvous!NoLostWake` | the same | a sender's second look takes the row of the run's next wait and drops it (`engine.ts:5484-5487`); the next signal wakes nobody until the sweep |
| `SignalRendezvous!TimeoutIsFinal` | the run's instance | nothing records that a wait timed out: when the turn runs again for a later wait, the one that timed out looks into the buffer first, may find the payload sent for that later wait, and returns it where it threw before (`workflow-ctx.ts:555`; `sleep-and-signals.mdx:153`: "the supported, replay-safe way to race") |
| `RemoteStep!RetryAwaitsBackoff` | one engine, `Retries` 2, `RedispatchMax` 2, `Prompt` TRUE, no fault | the retry branch takes the redispatch lease in `wakeAt` for its backoff deadline (`engine.ts:8527`); with redispatches off it does not (`BackoffAwaited`) |
| `RemoteStep!CompletedStays` | one engine, `Retries` 1, `RedispatchMax` 2, `Prompt` FALSE, no fault | `rearmStepLease` writes back the row it read (`engine.ts:7394`): a result that landed in between is gone (`interfaces.ts:471-475` describes the compare-and-set that is to prevent it, and does elsewhere: `CompletionStays`) |
| `RunQueue!LeaseHeld` | the run's instance | a turn proves the lease of a pickup, which then finds its instance draining and releases it without an owner (`engine.ts:5071`), or leaves `lockedForTurn` set for a later turn: a turn executes without a lease (`engine.ts:6278-6280`: "a turn holding nothing runs beside whoever locks next") |
| `SingletonGate!NoneBesideLegacy` | the run's instance | in a mixed fleet an old scan may admit a run beside a full set, and the new claim, which estimates the old holders, one more (`singleton.mdx:108-109`) |
| `SingletonGate!DeniedOnlyWhenFull` | the run's instance | a run created with a `startAt` is `suspended` without a marker, which the claim takes for a run that an older replica admitted (`singleton-admission.ts:69-84`): until its date it costs the others a slot nobody uses (`singleton.mdx:52-58`); and a run that is requeued while its turn is at the gate is `pending` again, outside the old scan's window, where a younger run now counts as a holder and denies it. With a limit of 2 a parked run inside the old scan's window counts as a holder too, which the same comment admits "can only delay one"; with 1 only those two do it (`OneSlotIsNeverIdle`) |
| `SingletonGate!StartAtHonored` | the run's instance | `wakeNext` stamps `wakeAt` = now on the oldest suspended run of the key, a delayed start included (`singleton-gate.ts:165`) |
| `StepQueue!SlotsAreInFlight` | the run's instance | a slot is released by the engine that dispatched the step only (`stepQueue` is in memory, `engine.ts:9428`); a result consumed by another one leaves a shared slot taken (`flow-control.mdx`: "A slot is held ... until the step's result lands"); with one engine it is not (`OneEngineLeaksNoSlot`) |
| `StepQueue!CapOfLiving` | the run's instance | `ACQUIRE_LUA` drops every slot whose owner's liveness key is gone (`redis-admission-backend.ts:53-59`), and a heartbeat that fails is swallowed (`203-207`): a process that stalls, or cannot reach Redis, for `instanceTtlMs` loses the slots of steps that are still running, and others are dispatched beside them (`flow-control.mdx:272-274`: "a live pod keeps its slot for the full step duration no matter how long it runs"; the backend's spec, `redis-admission-backend.db.spec.ts:78`: "does NOT reclaim a live instance's slot", of a process whose heartbeats succeed) |
| `StepQueue!QueueServes` without the condition on `stable` in `Survivable` | the run's instance | under a configured, stable `instanceId` a process that is back before its key has run out refreshes the key of the dead one, whose slots are then never reclaimed: with a concurrency of 1 no call is served again (`redis-admission-backend.ts:20-21`: "a crashed pod's slots free within this window") |
| `StepQueue!WaitersAsk` | the run's instance | a cancelled call stays a waiter: in the in-process accounting for ever |
| `Lifecycle!EveryEndingTold` | the run's instance | `requeue` keeps the lifecycle tags (`engine.ts:4845-4855`), so subscribers told of the first ending count as told of the second (`lifecycle-events.ts`: "exactly once per subscriber and settled run"). With two faults (`MaxLifecycleFaults` 2), a third subscriber that is announced early and that neither engine has, every ending wanted, no requeue, and without the condition on `Blurred` in `clean`, `OwedUntilTold` fails as well: a publisher that could not read the fleet puts back the unresolved marker over the one another resolved, and a heal or a later write then resolves it with its own subscribers (`engine.ts:2977-2984`) |
| `Schedules!NeverOverlaps` | the run's instance | a crash or an old write makes the row forget its last run, and `overlap: 'skip'` looks at that run only |
| `Schedules!PauseSticks` | the run's instance | with two clients: an upsert writes back the `paused` it read, over a pause that was written since (`persisted-schedules.mdx:67`) |

Seen while modelling, without a property: `recoverOrphan` writes `pending` after it has released the lease
(`engine.ts:4405-4410`), over the outcome of a turn that finished the run in between; `remoteRedispatchMax`
counts dispatches, not re-dispatches (`attempts` starts at 1, `engine.ts:8460`), and shares its counter with
retries; `remote_step_lost` is thrown without being recorded; a crash between `takeBufferedSignal` and the
checkpoint loses the payload (`workflow-ctx.ts:438`); `pause` writes back an old definition over an upsert,
`resume` and `upsert` an old state over a fire; a jitter as long as the interval skips windows;
`scheduler.ts` remembers a window before it starts it, and loses the one whose start fails; a result that
lands on a draining instance after `drain` looked starts a turn that nobody waits for; a stale list lets two
pollers queue a wake each, which is harmless; a pickup whose turn was refused keeps its lease until it
lapses; `dropOrphanedSubscribers` does not look whether the run it reads again is still settled.

## 8. Checking and proving

    tlc -workers 2 -config RunLease_calm.cfg RunLeaseMC
    tlapm RunLeaseProofs.tla

The passing runs explore, with deadlock checking off since a finished run, or a finished instance of the
model, stops (distinct states): calm 1.73M, crash 1.39M, hostile 0.41M, meet 0.48M, keeps 0.63M, slots 0.24M,
served 0.35M, told 0.76M, fired 0.84M, kept 0.18M, handed 0.60M. The symmetry of instances is used in `calm`
only (`Interchangeable`; the swap keeps who polls and who consumes), and never with liveness.

Bounds that are part of a model's guards: on what befalls it, `MaxDisturbances` (RunLease), `MaxCrashes`
(SignalRendezvous), `MaxFaults` (RemoteStep, RunQueue), `MaxWakeCrashes`, `MaxGateFaults`, `MaxQueueFaults`,
`MaxRequeues` and `MaxLifecycleFaults`, `MaxScheduleFaults`; on what there is of it, `MaxKept` (KeptWake),
`MaxQueue` and `MaxResults` (RunQueue), `MaxRuns`, `MaxStarts` and `MaxDelayed` (SingletonGate),
`MaxAttempts` (StepQueue), `MaxTime` and `MaxCalls` (Schedules). Everything else is bounded by what the code
bounds: steps of the body, waits, `maxRecoveryAttempts`, `retries`, `remoteRedispatchMax`, concurrency,
`maxQueueDepth`.

Only model-checked: liveness (`EventuallyRests`, `BufferedIsConsumed`, `BoundedEnds`, `EventuallyTold` of
RemoteStep and Lifecycle, `WakesArrive`, `RunEnds`, `GateDrains`, `QueueServes`, `MarkerGoes`, `DueMoves`),
which TLAPS does not prove. Every safety property of a passing run is a theorem. Six theorems state no property
of a run: `OutcomeOvertaken`, `OneSignalArrives`, `CompletionStays`, `BackoffAwaited`, `OneSlotIsNeverIdle` and
`OneEngineLeaksNoSlot` say how far a promise of section 7 does hold. Recursive data functions do not occur.

## 9. Not modelled

- In RunLease: `blocked` parks, continue-as-new, `onError` hand-offs. Lease time is whether the lease is live;
  what a stalled executor may write before its next renewal notices is not bounded by a property.
- In KeptWake: several waves of a fan, failing steps, children; the wake requests older engines keep as buffered
  signals. A wake, a poll or a recovery takes the lease and looks at the run's status in one step.
- In RunQueue: batching (`run-dispatch-batcher.ts`) and how many pickups run at a time
  (`bounded-runner.ts`), a run whose workflow is not registered where it is due, the drain's budget.
- In SignalRendezvous: two runs on one token, `signalWithStart`.
- In RemoteStep: `ensureRoutable`, the in-memory path of a step with `timeoutMs`, fans, `redriveLostCall` of
  remote workflows, a dispatch that fails (the same as a turn that crashes after the pending checkpoint), a
  body that catches a step's error, a store without the compare-and-set calls.
- In StepQueue: the freed-slot notification (a retry may come at any time); the time a process is down (it is
  back at once). The slots of a dead process may lapse one by one, where its one key takes all of them.
- In SingletonGate and Lifecycle: two turns of one run at a time, which `RunLease` is about, also after a requeue
  in the middle of a turn.
- In Lifecycle: `ctx.waitForRun`, subscribers with a `where` or a debounce, remote subscribers started by
  name, when an engine first saw an announcement.
- In Schedules: cron expressions (other windows, the same code), `trigger`, clock skew between processes, the
  in-memory `scheduler.ts`.
- SQL adapters, brokers, workers' internals, NestJS wiring, dashboards, CLI, codegen, lint, the Python SDK:
  adapters and I/O; every store call is taken as atomic.

## 10. Plan

Done: `RunLease`, `SignalRendezvous`, `RemoteStep` over `StepPromise`, `KeptWake`, `RunQueue`,
`SingletonGate`, `StepQueue`, `Lifecycle`, `Schedules`. Next, in order:

1. `FanJoin`: children of a run, their completion and adoption, fans that fail fast, continue-as-new.
   Abstract: a join that fires once, when all members settled.
2. `RemoteDecision` and `Compensation`: decisions and their deadlines; unwinding in reverse order.
3. `DbTransport`: claim and acknowledge. Abstract: at-least-once delivery, the one `RemoteStep` assumes.
4. Proofs: that `SingletonGate` and `StepQueue` implement one counting semaphore; what still holds of the
   run lease after a crash.
5. A second run on one token; a body that catches; run waits.

The list of runs is kept short: a new module takes the place of a run whose question another one answers.
