------------------------------ MODULE RunLease ------------------------------
(***************************************************************************)
(* One durable run and the engine instances that drive it                  *)
(* (packages/core/src/engine.ts): the row's status and recovery lease, the *)
(* turn an instance executes under that lease, the poll jobs that pick the *)
(* run up or recover it after a crash, and the operator calls that write   *)
(* the row without the lease.                                              *)
(*                                                                         *)
(* One action is one store call, so everything another instance may do     *)
(* between two `await`s of the code can happen between two actions.        *)
(* Abstractions: lease time is `live` (lockedUntil > now) and a lease      *)
(* lapses only when nobody renews it, or when its holder stalls; the body  *)
(* is a sequence of MaxSteps dispatched steps followed by a return or a    *)
(* throw; a due timer may be found due at any time (every suspension       *)
(* carries a `wakeAt`, see reconcileWakeAt). An instance has at most one    *)
(* poll job and one retried wake of this run at a time, and a kept wake is *)
(* served by the next turn to start. The engine does not consume a         *)
(* transport run queue here, so no due run is claimed for one (handOffDue).*)
(***************************************************************************)
EXTENDS Naturals, FiniteSets

CONSTANTS
  Engines,        \* instances of the engine, by their stable `instanceId`
  Drivers,        \* those whose scheduler polls (an API replica does not)
  Wakers,         \* those that step results reach (they consume the results)
  None,           \* no owner
  MaxSteps,       \* suspension points of the body
  RemoteUndo,     \* whether the saga undo is a dispatched compensation
  MaxRecovery,    \* `maxRecoveryAttempts`
  Disturbances,   \* what befalls the run, see DisturbanceKinds
  MaxDisturbances \* bound: how often

DisturbanceKinds == {"crash", "stall", "cancel", "compensate", "requeue", "foreign"}

ASSUME RunLeaseAssumption ==
  /\ Drivers \subseteq Engines /\ Wakers \subseteq Engines
  /\ None \notin Engines
  /\ Disturbances \subseteq DisturbanceKinds
  /\ RemoteUndo \in BOOLEAN
  /\ MaxSteps \in Nat /\ MaxRecovery \in Nat /\ MaxDisturbances \in Nat

VARIABLES
  \* the run's row
  status, owner, live, stale, attempts,
  \* its checkpoints: steps settled, one in flight, the undo; how the body ends;
  \* and whether a wake is kept for the turn after this one
  done, inflight, undo, verdict, kept,
  \* per instance, the turn it executes: where it is, the status it carries (the
  \* snapshot it read, then the outcome it computed), lockedForTurn, the resume
  \* queued on the gate, the lease known lost, the cancel intent in memory
  pc, carried, reserved, queued, fenced, cancelRequested,
  \* per instance: its poll job, the wake it tries again, the operator call it
  \* serves; which instance settled the last step (`settledHere`)
  job, rewake, op, settledBy,
  \* history: how often the run was disturbed, and how often by a crash
  disturbed, crashes

lease == <<owner, live, stale>>
row   == <<status, lease, attempts>>
step  == <<done, inflight, undo, verdict, kept>>
turn  == <<pc, carried, reserved, queued, fenced, cancelRequested>>
tasks == <<job, rewake, op, settledBy>>
env   == <<disturbed, crashes>>
vars  == <<row, step, turn, tasks, env>>

Terminal == {"completed", "failed", "cancelled", "dead"}
Statuses == Terminal \cup {"pending", "running", "suspended", "cancelling"}
SettleEligible  == {"pending", "running", "suspended", "failed", "cancelling"}
\* Mutant: a suspension that does not leave `running`.
SuspendEligibleNarrow == SettleEligible \ {"cancelling", "running"}
SuspendEligible == SettleEligible \ {"cancelling"}

\* Where a turn is; in Executing it holds the run's lease.
Executing == {"start", "body", "settle", "release"}
PCs  == {"idle", "gate", "read", "mine", "other", "prove", "trylock"} \cup Executing
Recovering == {"decide", "park", "parked", "count", "counted", "countCancel", "countedCancel"}
Jobs == {"idle", "pick", "picked", "await", "recover", "reclaim", "repend"} \cup Recovering
Rewakes == {"idle", "check", "retry", "lock", "locked", "await"}
OpStates == {"idle", "cancel", "compensate", "requeue", "resurrect", "repend", "revive"}

TypeOK ==
  /\ status \in Statuses /\ owner \in Engines \cup {None}
  /\ live \in BOOLEAN /\ stale \in BOOLEAN /\ attempts \in Nat
  /\ done \in 0..MaxSteps /\ inflight \in BOOLEAN
  /\ undo \in {"none", "inflight", "done"} /\ verdict \in {"completed", "failed"}
  /\ kept \in BOOLEAN /\ settledBy \in Engines \cup {None}
  /\ pc \in [Engines -> PCs] /\ carried \in [Engines -> Statuses]
  /\ reserved \in [Engines -> BOOLEAN] /\ queued \in [Engines -> BOOLEAN]
  /\ fenced \in [Engines -> BOOLEAN] /\ cancelRequested \in [Engines -> BOOLEAN]
  /\ job \in [Engines -> Jobs] /\ op \in [Engines -> OpStates]
  /\ rewake \in [Engines -> Rewakes]
  /\ disturbed \in 0..MaxDisturbances /\ crashes \in Nat

Init ==
  /\ status = "pending" /\ owner = None /\ live = FALSE /\ stale = FALSE
  /\ attempts = 0 /\ done = 0 /\ inflight = FALSE
  /\ undo = "none" /\ verdict \in {"completed", "failed"} /\ kept = FALSE
  /\ pc = [e \in Engines |-> "idle"] /\ carried = [e \in Engines |-> "pending"]
  /\ reserved = [e \in Engines |-> FALSE] /\ queued = [e \in Engines |-> FALSE]
  /\ fenced = [e \in Engines |-> FALSE]
  /\ cancelRequested = [e \in Engines |-> FALSE]
  /\ job = [e \in Engines |-> "idle"] /\ op = [e \in Engines |-> "idle"]
  /\ rewake = [e \in Engines |-> "idle"] /\ settledBy = None
  /\ disturbed = 0 /\ crashes = 0

-----------------------------------------------------------------------------
(* The store's lease operations (StateStore: tryLockRun, renewRunLock,     *)
(* releaseRunLock). A release without an owner frees whoever holds it.     *)

LeaseFree == owner = None \/ ~live

TakeLease(e)  == owner' = e /\ live' = TRUE /\ stale' = FALSE
ReleaseLease  == owner' = None /\ live' = FALSE /\ stale' = FALSE
RenewLease(e) == IF owner = e THEN TakeLease(e) ELSE UNCHANGED lease

(* A resume that lands on an instance executing the run is queued behind   *)
(* that execution; the ones landing after it coalesce into it.             *)
Arrive(e) ==
  IF pc[e] = "idle" THEN pc' = [pc EXCEPT ![e] = "read"] /\ UNCHANGED queued
                    ELSE queued' = [queued EXCEPT ![e] = TRUE] /\ UNCHANGED pc

\* The execution (or the recovery holding the gate) ends: the queued resume runs.
Leave(e, again) ==
  /\ pc' = [pc EXCEPT ![e] = IF queued[e] \/ again THEN "read" ELSE "idle"]
  /\ queued' = [queued EXCEPT ![e] = FALSE]

OpenGate(e) == IF pc[e] = "gate" THEN Leave(e, FALSE) ELSE UNCHANGED <<pc, queued>>

Goto(e, p) == pc' = [pc EXCEPT ![e] = p]
SetRewake(e, r) == rewake' = [rewake EXCEPT ![e] = r] /\ UNCHANGED <<job, op, settledBy>>

-----------------------------------------------------------------------------
(* A turn: resumeRunNow, execute, runExecutionTurn, settleRun.             *)

\* resumeRunNow's read. A finished run is echoed, never re-executed.
ReadRun(e) ==
  /\ pc[e] = "read"
  /\ IF status \in Terminal
     THEN Leave(e, FALSE) /\ UNCHANGED <<carried, reserved>>
     ELSE /\ Goto(e, IF owner = e /\ live THEN "mine" ELSE "other")
          /\ carried' = [carried EXCEPT ![e] = status]
          /\ UNCHANGED <<queued, reserved>>
  /\ UNCHANGED <<row, step, fenced, cancelRequested, tasks, env>>

\* execute re-enters a lease locked for this turn, proves another the snapshot
\* shows as its own, and locks the run otherwise.
ChooseLock(e) ==
  /\ pc[e] \in {"mine", "other"}
  /\ Goto(e, IF pc[e] = "other" THEN "trylock"
             ELSE IF reserved[e] THEN "start" ELSE "prove")
  /\ reserved' = [reserved EXCEPT ![e] = FALSE]
  /\ UNCHANGED <<row, step, carried, queued, fenced, cancelRequested, tasks, env>>

\* proveOwnLease: a renewal by owner.
ProveOwnLease(e) ==
  /\ pc[e] = "prove"
  /\ RenewLease(e)
  /\ Goto(e, IF owner = e THEN "start" ELSE "trylock")
  /\ UNCHANGED <<status, attempts, step, carried, reserved, queued, fenced,
                 cancelRequested, tasks, env>>

\* Mutant: the answer of tryLockRun is ignored.
TryLockUnchecked(e) ==
  /\ pc[e] = "trylock" /\ Goto(e, "start")
  /\ IF LeaseFree THEN TakeLease(e) ELSE UNCHANGED lease
  /\ UNCHANGED <<status, attempts, step, carried, reserved, queued, fenced,
                 cancelRequested, tasks, env>>

\* execute's tryLockRun. A lease held elsewhere: this resume executes nothing,
\* its wake is kept for the holder (requestWakeAfterTurn), and is tried again
\* here once the lease is free (recheckAfterLease).
TryLock(e) ==
  /\ pc[e] = "trylock"
  /\ IF LeaseFree
     THEN TakeLease(e) /\ Goto(e, "start") /\ UNCHANGED <<queued, carried, kept, tasks>>
     ELSE /\ UNCHANGED lease /\ Leave(e, FALSE)
          /\ carried' = [carried EXCEPT ![e] = "pending"]
          /\ kept' = (status \notin Terminal)
          /\ SetRewake(e, IF rewake[e] = "idle" THEN "retry" ELSE rewake[e])
  /\ UNCHANGED <<status, attempts, done, inflight, undo, verdict, reserved, fenced,
                 cancelRequested, env>>

\* Mutant: markStarted writes `running` whatever the snapshot was (a retried wake
\* then takes the turn's own lease for one to give back).
StartTurnAlways(e) ==
  /\ pc[e] = "start" /\ Goto(e, "body") /\ status' = "running"
  /\ carried' = [carried EXCEPT ![e] = "running"] /\ kept' = FALSE
  /\ UNCHANGED <<lease, attempts, done, inflight, undo, verdict, reserved, queued, fenced,
                 cancelRequested, tasks, env>>

\* The head of runExecutionTurn: markStarted on a `pending` snapshot, the cancel
\* intent re-derived from a `cancelling` one; the turn serves the wakes kept so far.
StartTurn(e) ==
  /\ pc[e] = "start" /\ Goto(e, "body")
  /\ status' = IF carried[e] = "pending" THEN "running" ELSE status
  /\ cancelRequested' = [cancelRequested EXCEPT ![e] = @ \/ carried[e] = "cancelling"]
  /\ carried' = [carried EXCEPT ![e] = "running"]
  /\ kept' = FALSE
  /\ UNCHANGED <<lease, attempts, done, inflight, undo, verdict, reserved, queued, fenced,
                 tasks, env>>

\* The body up to its next suspension point or its end: callRemote dispatches
\* a step, or waits for the one in flight; past the last step the body returns
\* or throws, the same at every replay. With a cancel requested any of these
\* becomes the saga undo, which waits for a dispatched compensation.
RunBody(e) ==
  /\ pc[e] = "body" /\ Goto(e, "settle")
  /\ inflight' = (done < MaxSteps)
  /\ IF cancelRequested[e]
     THEN IF RemoteUndo /\ undo # "done"
          THEN undo' = "inflight" /\ carried' = [carried EXCEPT ![e] = "cancelling"]
          ELSE UNCHANGED undo     /\ carried' = [carried EXCEPT ![e] = "cancelled"]
     ELSE /\ UNCHANGED undo
          /\ carried' =
               [carried EXCEPT ![e] = IF done < MaxSteps THEN "suspended" ELSE verdict]
  /\ settledBy' = None
  /\ UNCHANGED <<row, done, verdict, kept, reserved, queued, fenced, cancelRequested,
                 job, rewake, op, env>>

\* What a settle may write over: settleRun compares and sets, a pending undo
\* writes nothing, and the end of compensateAndCancel is a plain write.
MayWrite(o) == \/ o = "cancelled"
               \/ o \in {"completed", "failed"} /\ status \in SettleEligible
               \/ o = "suspended" /\ status \in SuspendEligible

\* A fenced turn writes nothing.
SettleRun(e) ==
  /\ pc[e] = "settle" /\ Goto(e, "release")
  /\ status' = IF ~fenced[e] /\ MayWrite(carried[e]) THEN carried[e] ELSE status
  /\ cancelRequested' =
       [cancelRequested EXCEPT ![e] = @ /\ (fenced[e] \/ carried[e] # "cancelled")]
  /\ UNCHANGED <<lease, attempts, step, carried, reserved, queued, fenced, tasks, env>>

\* releaseLeaseBestEffort. A suspended run is then looked at again: a step that
\* settled meanwhile replays (redriveSettledSteps), and a wake kept during the
\* turn runs the next one (honorWakeRequests).
ReleaseTurn(e) ==
  LET suspended == carried[e] = "suspended" /\ status = "suspended"
  IN /\ pc[e] = "release"
     /\ IF fenced[e] THEN UNCHANGED lease ELSE ReleaseLease
     /\ Leave(e, suspended /\ kept)
     /\ SetRewake(e, IF suspended /\ rewake[e] \notin {"lock", "locked"} THEN "check"
                                                                     ELSE rewake[e])
     /\ fenced' = [fenced EXCEPT ![e] = FALSE]
     /\ carried' = [carried EXCEPT ![e] = "pending"]
     /\ UNCHANGED <<status, attempts, step, reserved, cancelRequested, env>>

\* The renewal timer of a turn. A refused renewal fences it.
RenewTurn(e) ==
  /\ pc[e] \in Executing \ {"release"} /\ ~fenced[e]
  /\ RenewLease(e)
  /\ fenced' = [fenced EXCEPT ![e] = owner # e]
  /\ UNCHANGED <<status, attempts, step, pc, carried, reserved, queued,
                 cancelRequested, tasks, env>>

\* Mutant: a duplicate result settles its step again.
RemoteResultTwice(e) ==
  /\ e \in Wakers /\ inflight' = FALSE /\ done' = done + 1 /\ Arrive(e)
  /\ UNCHANGED <<row, undo, verdict, kept, carried, reserved, fenced, cancelRequested,
                 tasks, env>>

\* A result settles the checkpoint of a step, or of a dispatched compensation,
\* and wakes the run (completeRemoteResults); a cancelled or completed run drops it.
RemoteResult(e) ==
  /\ e \in Wakers /\ status \notin {"cancelled", "completed"}
  /\ \/ /\ inflight /\ inflight' = FALSE /\ done' = done + 1
        /\ settledBy' = e /\ UNCHANGED undo
     \/ undo = "inflight" /\ undo' = "done" /\ UNCHANGED <<inflight, done, settledBy>>
  /\ Arrive(e)
  /\ UNCHANGED <<row, verdict, kept, carried, reserved, fenced, cancelRequested,
                 job, rewake, op, env>>

\* A redelivered result of a settled step resumes a suspended run again.
Redelivery(e) ==
  /\ e \in Wakers /\ done > 0 /\ status = "suspended"
  /\ Arrive(e)
  /\ UNCHANGED <<row, step, carried, reserved, fenced, cancelRequested, tasks, env>>

-----------------------------------------------------------------------------
(* The poll jobs of an instance: listing and locking are separate calls.   *)

SetJob(e, j) == job' = [job EXCEPT ![e] = j] /\ UNCHANGED <<rewake, op, settledBy>>

\* A job that locks the run: with the lease it goes on, without it gives up.
LockJob(e, from, to) ==
  /\ job[e] = from
  /\ IF LeaseFree THEN TakeLease(e) /\ SetJob(e, to)
                  ELSE UNCHANGED lease /\ SetJob(e, "idle")
  /\ UNCHANGED <<status, attempts, step, turn, env>>

\* runPending, resumeDueTimers and dispatchRun list a run to pick up.
ListWork(e) ==
  /\ e \in Drivers /\ job[e] = "idle"
  /\ status \in {"pending", "suspended"}
  /\ SetJob(e, "pick")
  /\ UNCHANGED <<row, step, turn, env>>

\* runOne / resumeLeased lock it, whatever it has become since.
PickLock(e) == LockJob(e, "pick", "picked")

\* ... and, back from the store, resume it under that lease and await the result.
PickResume(e) ==
  /\ job[e] = "picked" /\ SetJob(e, "await")
  /\ reserved' = [reserved EXCEPT ![e] = TRUE]
  /\ Arrive(e)
  /\ UNCHANGED <<row, step, carried, fenced, cancelRequested, env>>

PickDone(e) ==
  /\ job[e] = "await" /\ pc[e] = "idle" /\ SetJob(e, "idle")
  /\ reserved' = [reserved EXCEPT ![e] = FALSE]
  /\ UNCHANGED <<row, step, pc, carried, queued, fenced, cancelRequested, env>>

\* Mutant: only `running` runs are recovered.
ListOrphanRunning(e) ==
  /\ e \in Drivers /\ job[e] = "idle"
  /\ status = "running" /\ LeaseFree /\ SetJob(e, "recover")
  /\ UNCHANGED <<row, step, turn, env>>

\* orphanedRuns: incomplete, and the lease is free or left by our previous process.
ListOrphan(e) ==
  /\ e \in Drivers /\ job[e] = "idle"
  /\ status \in {"running", "cancelling"}
  /\ \/ LeaseFree /\ SetJob(e, "recover")
     \/ owner = e /\ live /\ stale /\ SetJob(e, "reclaim")
  /\ UNCHANGED <<row, step, turn, env>>

RecoverLock(e) == LockJob(e, "recover", "decide")

\* reclaimOwnLease: a run with a gate executes here and is skipped; otherwise
\* hold the gate and take the lease back by owner, unless it is a live one.
Reclaim(e) ==
  /\ job[e] = "reclaim"
  /\ IF pc[e] = "idle" /\ owner = e /\ (stale \/ ~live)
     THEN TakeLease(e) /\ SetJob(e, "decide") /\ Goto(e, "gate")
     ELSE UNCHANGED <<lease, pc>> /\ SetJob(e, "idle")
  /\ UNCHANGED <<status, attempts, step, carried, reserved, queued, fenced,
                 cancelRequested, env>>

\* recoverOrphan re-reads the run under the lease and decides on that.
Decide(e) ==
  /\ job[e] = "decide"
  /\ IF status \in {"running", "cancelling"}
     THEN /\ SetJob(e, IF status = "cancelling" THEN "countCancel"
                       ELSE IF inflight THEN "park" ELSE "count")
          /\ UNCHANGED <<lease, pc, queued>>
     ELSE ReleaseLease /\ SetJob(e, "idle") /\ OpenGate(e)
  /\ UNCHANGED <<status, attempts, step, carried, reserved, fenced, cancelRequested, env>>

\* A run awaiting a dispatched step is no orphan: park it back.
Park(e) ==
  /\ job[e] = "park" /\ SetJob(e, "parked")
  /\ status' = "suspended"
  /\ UNCHANGED <<lease, attempts, step, turn, env>>

\* countRecovery: the attempt is counted, or the poison pill dead-lettered.
CountRecovery(e) ==
  /\ job[e] \in {"count", "countCancel"}
  /\ IF attempts + 1 > MaxRecovery
     THEN status' = "dead" /\ SetJob(e, "parked") /\ UNCHANGED attempts
     ELSE /\ attempts' = attempts + 1 /\ UNCHANGED status
          /\ SetJob(e, IF job[e] = "count" THEN "counted" ELSE "countedCancel")
  /\ UNCHANGED <<lease, step, turn, env>>

\* The release that follows. A `cancelling` run keeps its status and is
\* dispatched again at once.
RecoverRelease(e) ==
  /\ job[e] \in {"parked", "counted", "countedCancel"}
  /\ ReleaseLease
  /\ SetJob(e, CASE job[e] = "parked" -> "idle"
                 [] job[e] = "counted" -> "repend"
                 [] job[e] = "countedCancel" -> "pick")
  /\ IF job[e] = "counted" THEN UNCHANGED <<pc, queued>> ELSE OpenGate(e)
  /\ UNCHANGED <<status, attempts, step, carried, reserved, fenced, cancelRequested, env>>

\* Any other run is put back to `pending` only then, and dispatched.
Repend(e) ==
  /\ job[e] = "repend" /\ SetJob(e, "pick") /\ OpenGate(e)
  /\ status' = "pending"
  /\ UNCHANGED <<lease, attempts, step, carried, reserved, fenced, cancelRequested, env>>

-----------------------------------------------------------------------------
(* A wake an instance tries again: after its own turn, or after a refusal. *)

\* redriveSettledSteps: nothing settled yet, or settled here, whose resume is
\* here too.  retryDroppedWake: nothing to do, or wait for the lease, or lock.
RewakeCheck(e) ==
  /\ \/ rewake[e] = "check" /\ SetRewake(e, IF inflight \/ settledBy = e THEN "idle" ELSE "lock")
     \/ /\ rewake[e] = "retry" /\ (LeaseFree \/ status # "suspended")
        /\ SetRewake(e, IF status = "suspended" /\ kept THEN "lock" ELSE "idle")
  /\ UNCHANGED <<row, step, turn, env>>

RewakeLock(e) ==
  /\ rewake[e] = "lock"
  /\ IF LeaseFree THEN TakeLease(e) /\ SetRewake(e, "locked")
                  ELSE UNCHANGED lease /\ SetRewake(e, "idle")
  /\ UNCHANGED <<status, attempts, step, turn, env>>

\* The run is read again under the lease: resumed, or let go.
RewakeResume(e) ==
  /\ rewake[e] = "locked"
  /\ IF status = "suspended"
     THEN Arrive(e) /\ SetRewake(e, "await") /\ UNCHANGED lease
     ELSE ReleaseLease /\ SetRewake(e, "idle") /\ UNCHANGED <<pc, queued>>
  /\ UNCHANGED <<status, attempts, step, carried, reserved, fenced, cancelRequested, env>>

RewakeDone(e) ==
  /\ rewake[e] = "await" /\ pc[e] = "idle" /\ SetRewake(e, "idle")
  /\ UNCHANGED <<row, step, turn, env>>

-----------------------------------------------------------------------------
(* What befalls the run. Operator calls are served by an instance, which   *)
(* reads the row and writes it later, without the lease.                   *)

Disturb(k) == /\ k \in Disturbances /\ disturbed < MaxDisturbances
              /\ disturbed' = disturbed + 1

SetOp(e, o) == op' = [op EXCEPT ![e] = o] /\ UNCHANGED <<job, rewake, settledBy>>
NewOp(e, k, o) == Disturb(k) /\ op[e] = "idle" /\ SetOp(e, o) /\ UNCHANGED crashes

\* cancel, and sweepTimeouts (which excludes the same statuses).
CancelRead(e) ==
  /\ status \notin Terminal \cup {"cancelling"}
  /\ NewOp(e, "cancel", "cancel")
  /\ UNCHANGED <<row, step, turn>>

CancelWrite(e) ==
  /\ op[e] = "cancel" /\ SetOp(e, "idle")
  /\ status' = "cancelled"
  /\ UNCHANGED <<lease, attempts, step, turn, env>>

\* cancel({compensate: true}): flag the intent here, persist `cancelling`,
\* resume the run in the background.
CompensateRead(e) ==
  /\ status \in {"suspended", "running"}
  /\ NewOp(e, "compensate", "compensate")
  /\ cancelRequested' = [cancelRequested EXCEPT ![e] = TRUE]
  /\ UNCHANGED <<row, step, pc, carried, reserved, queued, fenced>>

CompensateWrite(e) ==
  /\ op[e] = "compensate" /\ SetOp(e, "idle")
  /\ status' = "cancelling"
  /\ Arrive(e)
  /\ UNCHANGED <<lease, attempts, step, carried, reserved, fenced, cancelRequested, env>>

\* requeue: read, clear the lease whoever holds it, write `pending`.
RequeueRead(e) ==
  /\ NewOp(e, "requeue", IF status \in {"failed", "dead"} THEN "resurrect" ELSE "requeue")
  /\ UNCHANGED <<row, step, turn>>

RequeueRelease(e) ==
  /\ op[e] \in {"requeue", "resurrect"}
  /\ SetOp(e, IF op[e] = "requeue" THEN "repend" ELSE "revive")
  /\ ReleaseLease
  /\ UNCHANGED <<status, attempts, step, turn, env>>

RequeueWrite(e) ==
  /\ op[e] \in {"repend", "revive"} /\ SetOp(e, "idle")
  /\ status' = "pending"
  /\ IF op[e] = "revive" THEN attempts' = 0 /\ verdict' \in {"completed", "failed"}
                         ELSE UNCHANGED <<attempts, verdict>>
  /\ UNCHANGED <<lease, done, inflight, undo, kept, turn, env>>

\* resumeRunNow on an engine of another namespace: it clears the lease and
\* throws NamespaceMismatch.
ForeignResume ==
  /\ status \notin Terminal
  /\ Disturb("foreign")
  /\ ReleaseLease
  /\ UNCHANGED <<status, attempts, step, turn, tasks, crashes>>

\* The process dies; its stable id comes back with a fresh, empty process,
\* for which a lease in its own name predates its boot (ownLeaseCutoffMs).
Crash(e) ==
  /\ Disturb("crash") /\ crashes' = crashes + 1
  /\ Goto(e, "idle")
  /\ job' = [job EXCEPT ![e] = "idle"] /\ op' = [op EXCEPT ![e] = "idle"]
  /\ rewake' = [rewake EXCEPT ![e] = "idle"]
  /\ settledBy' = IF settledBy = e THEN None ELSE settledBy
  /\ carried' = [carried EXCEPT ![e] = "pending"]
  /\ queued' = [queued EXCEPT ![e] = FALSE]
  /\ reserved' = [reserved EXCEPT ![e] = FALSE]
  /\ fenced' = [fenced EXCEPT ![e] = FALSE]
  /\ cancelRequested' = [cancelRequested EXCEPT ![e] = FALSE]
  /\ stale' = (stale \/ owner = e)
  /\ UNCHANGED <<status, owner, live, attempts, step>>

\* Who uses the lease: a turn, which renews it, or a sequence of calls far
\* shorter than `leaseMs` that leads to a release or to a turn.
Using(e) ==
  \/ pc[e] \in Executing
  \/ job[e] \in Recovering \cup {"picked"}
  \/ rewake[e] = "locked"
  \/ (reserved[e] \/ rewake[e] = "await") /\ pc[e] # "idle"

\* A lease nobody uses runs out.
Lapse ==
  /\ live /\ \A e \in Engines : owner = e => ~Using(e)
  /\ live' = FALSE
  /\ UNCHANGED <<status, owner, stale, attempts, step, turn, tasks, env>>

\* A blocked event loop: the lease of a live holder runs out.
Stall ==
  /\ live /\ Disturb("stall")
  /\ live' = FALSE
  /\ UNCHANGED <<status, owner, stale, attempts, step, turn, tasks, crashes>>

-----------------------------------------------------------------------------
TurnStep(e) ==
  \/ ReadRun(e) \/ ChooseLock(e) \/ ProveOwnLease(e) \/ TryLock(e)
  \/ StartTurn(e) \/ RunBody(e) \/ SettleRun(e) \/ ReleaseTurn(e)

JobStep(e) ==
  \/ PickLock(e) \/ PickResume(e) \/ PickDone(e) \/ RecoverLock(e) \/ Reclaim(e) \/ Decide(e)
  \/ Park(e) \/ CountRecovery(e) \/ RecoverRelease(e) \/ Repend(e)

RewakeStep(e) == RewakeCheck(e) \/ RewakeLock(e) \/ RewakeResume(e) \/ RewakeDone(e)

OpStep(e) ==
  \/ CancelWrite(e) \/ CompensateWrite(e) \/ RequeueRelease(e) \/ RequeueWrite(e)

EngineStep(e) ==
  \/ TurnStep(e) \/ RenewTurn(e) \/ RemoteResult(e) \/ Redelivery(e) \/ RewakeStep(e)
  \/ ListWork(e) \/ ListOrphan(e) \/ JobStep(e)
  \/ CancelRead(e) \/ CompensateRead(e) \/ RequeueRead(e) \/ OpStep(e)
  \/ Crash(e)

Next == (\E e \in Engines : EngineStep(e)) \/ ForeignResume \/ Lapse \/ Stall

Spec == Init /\ [][Next]_vars

(* The event loop keeps running every started turn, job and call; pollers  *)
(* keep polling; workers answer dispatched steps; unused leases expire.    *)
Fairness ==
  /\ \A e \in Engines : WF_vars(TurnStep(e)) /\ WF_vars(JobStep(e)) /\ WF_vars(OpStep(e))
                        /\ WF_vars(RewakeStep(e))
  /\ \A e \in Drivers : WF_vars(ListWork(e)) /\ WF_vars(ListOrphan(e))
  /\ WF_vars(\E e \in Engines : RemoteResult(e))
  /\ WF_vars(Lapse)

FairSpec == Spec /\ Fairness

-----------------------------------------------------------------------------
(* Properties.                                                             *)

\* "Every execution first takes an atomic lease on the run row": no two
\* instances execute a turn of the run at once, unless a refused renewal has
\* told one of them that its lease is gone.
OneExecutor ==
  \A e1, e2 \in Engines :
    /\ pc[e1] \in Executing /\ ~fenced[e1]
    /\ pc[e2] \in Executing /\ ~fenced[e2]
    => e1 = e2

\* What it comes to when nobody disturbs the run: one executor as long as the run
\* can still change. A turn may start late, from a snapshot read before the run
\* finished, and meets nothing but guarded writes.
OneLiveExecutor == status \notin Terminal => OneExecutor

\* The lease outlives the state it protects: a run that nothing killed reads
\* `running` only while its lease is held, so recovery never takes it for an
\* orphan (the `return await` of every settle, markStarted under the lease).
RunningIsHeld == status = "running" /\ crashes = 0 => owner # None /\ live

\* A finished run is never executed again or written over.
TerminalIsFinal == [][(status \in Terminal) => UNCHANGED status]_vars

\* Recovery charges a run's budget, and dead-letters it, only where a process
\* died: a run that suspends, is woken, cancelled or settled by several instances
\* never looks like an orphan to the pollers in between (the incident recoverOrphan
\* recalls: ten attempts in 57 s, its worker still executing).
CountedOnlyAfterCrash == attempts > 0 \/ status = "dead" => crashes > 0

\* Not so in the code (README, 7): only a run whose process died more often than
\* `maxRecoveryAttempts` is dead-lettered.
DeadOnlyAfterCrashes == status = "dead" => crashes > MaxRecovery

\* Not so in the code (README, 7): a plain cancel is never undone by a turn.
CancelledStays == [][(status = "cancelled") => (status' = "cancelled")]_vars

\* The run comes to rest, whatever was done to it.
EventuallyRests == <>[](status \in Terminal)

=============================================================================
