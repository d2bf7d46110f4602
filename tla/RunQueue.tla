------------------------------ MODULE RunQueue ------------------------------
(***************************************************************************)
(* A suspended run and the transport's run queue                           *)
(* (packages/core/src/engine.ts): a poller that finds the run due claims it *)
(* under its lease for a moment, pushes its timer out and queues a wake     *)
(* (handOffDue); a consumer takes the wake and executes the run             *)
(* (runFromQueue); results wake it directly; an instance shuts down         *)
(* gracefully (beginDrain, drain). An instance must not take the lease of   *)
(* its own claim, soon released, for the lease of a turn (proveOwnLease).   *)
(*                                                                         *)
(* One action is one store or transport call, with what its caller does     *)
(* until the next. Abstractions: each turn takes the body one step on, and  *)
(* the last one ends it; a lease lapses only when nothing on its instance   *)
(* is at work under it; a wake refused because of the lease is looked at    *)
(* again by a timer (what is kept in the store is in KeptWake).             *)
(***************************************************************************)
EXTENDS Integers, FiniteSets

CONSTANTS
  Engines,   \* the instances
  Drains,    \* those that may be shut down
  Turns,     \* how many turns the body takes
  MaxQueue,  \* bound: wakes on the transport
  MaxResults,\* bound: results that wake it
  MaxFaults  \* bound: wakes lost, sends refused, steps slower than a lease

ASSUME RunQueueAssumption ==
  /\ "free" \notin Engines /\ Drains \subseteq Engines /\ Drains # Engines
  /\ Turns \in Nat /\ MaxQueue \in Nat /\ MaxResults \in Nat /\ MaxFaults \in Nat

VARIABLES
  left,    \* the turns the run still needs: it is suspended until there are none
  due,     \* its timer is over
  holder,  \* who holds its lease
  queue,   \* wakes on the transport
  poll,    \* per engine: where its hand-off of the run is
  pick,    \* per engine: where its pickup of the run under a lease is (resumeLeased)
  turn,    \* per engine: where its turn is
  mine,    \* per engine: it leased the run for its next turn (lockedForTurn)
  proof,   \* per engine: no claim was begun since its turn began to prove its lease
  again,   \* per engine: a wake arrived during the turn
  timer,   \* per engine: a refused wake to be looked at again
  fenced,  \* per engine: its turn gave the lease up
  drain,   \* per engine: its shutdown
  results, \* history: results so far
  misled,  \* history: a turn proved the lease of a pickup of its own instance
  faults   \* history: faults so far

row  == <<left, due, holder>>
task == <<turn, mine, proof, again, timer, fenced>>
env  == <<drain, results, misled, faults>>
queueVars == <<row, queue, poll, pick, task, env>>

Claims == {"marked", "locked", "patched", "missed", "released", "dropped"}  \* between markClaim and unmarkClaim

RunQueueTypeOK ==
  /\ left \in 0..Turns /\ due \in BOOLEAN /\ holder \in Engines \cup {"free"} /\ queue \in 0..MaxQueue
  /\ poll \in [Engines -> {"idle", "sendable"} \cup Claims]
  /\ pick \in [Engines -> {"idle", "lock", "relock", "locked", "await"}]
  /\ turn \in [Engines -> {"idle", "read", "own", "other", "prove", "proved", "trylock", "run", "release"}]
  /\ mine \in [Engines -> BOOLEAN] /\ proof \in [Engines -> BOOLEAN] /\ again \in [Engines -> BOOLEAN]
  /\ timer \in [Engines -> BOOLEAN] /\ fenced \in [Engines -> BOOLEAN]
  /\ drain \in [Engines -> {"no", "begun", "over", "gone"}] /\ misled \in BOOLEAN
  /\ faults \in 0..MaxFaults /\ results \in 0..MaxResults
  /\ \A e \in Engines : fenced[e] => turn[e] \in {"run", "release"}

QueueInit ==
  /\ left = Turns /\ due = FALSE /\ holder = "free" /\ queue = 0 /\ faults = 0 /\ results = 0 /\ misled = FALSE
  /\ poll = [e \in Engines |-> "idle"] /\ pick = poll /\ turn = poll
  /\ mine = [e \in Engines |-> FALSE] /\ proof = [e \in Engines |-> TRUE]
  /\ again = mine /\ timer = mine /\ fenced = mine
  /\ drain = [e \in Engines |-> "no"]

Draining(e) == drain[e] # "no"
Up(e)       == drain[e] # "gone"

\* resumeImplicit: one turn at a time per engine; the wakes during it share the next, which a
\* draining engine does not run. A pickup awaits the turn it asked for.
Resume(e) ==
  IF turn[e] = "idle" THEN turn' = [turn EXCEPT ![e] = "read"] /\ UNCHANGED again
                      ELSE again' = [again EXCEPT ![e] = TRUE] /\ UNCHANGED turn
EndTurn(e) ==
  LET next == again[e] /\ ~Draining(e)
  IN  /\ turn' = [turn EXCEPT ![e] = IF next THEN "read" ELSE "idle"]
      /\ again' = [again EXCEPT ![e] = FALSE]
      /\ mine' = [mine EXCEPT ![e] = @ /\ next]
      /\ pick' = [pick EXCEPT ![e] = IF @ = "await" /\ ~next THEN "idle" ELSE @]

-----------------------------------------------------------------------------
(* The hand-off of a due run (resumeDueTimers, handOffDue).                *)

Step(e, to) == poll' = [poll EXCEPT ![e] = to]

\* Listed and, without a look at the store again, marked before the lock.
Mark(e) ==
  /\ poll[e] = "idle" /\ ~Draining(e) /\ due /\ left > 0 /\ Step(e, "marked")
  /\ proof' = [proof EXCEPT ![e] = turn[e] \notin {"prove", "proved"}]
  /\ UNCHANGED <<row, queue, pick, turn, mine, again, timer, fenced, env>>

ClaimLock(e) ==
  /\ poll[e] = "marked"
  /\ IF holder = "free" THEN holder' = e /\ Step(e, "locked")
                        ELSE UNCHANGED holder /\ Step(e, "idle")
  /\ UNCHANGED <<left, due, queue, pick, task, env>>

\* The timer is pushed out, if the run is still suspended.
Push(e) ==
  /\ poll[e] = "locked" /\ Step(e, IF left > 0 THEN "patched" ELSE "missed")
  /\ due' = (due /\ left = 0)
  /\ UNCHANGED <<left, holder, queue, pick, task, env>>

\* Mutant: the claim's lease is left for the consumer of the wake.
ClaimKept(e) ==
  /\ poll[e] \in {"patched", "missed"} /\ Step(e, IF poll[e] = "patched" THEN "released" ELSE "dropped")
  /\ UNCHANGED <<row, queue, pick, task, env>>

\* Released by owner.
ClaimRelease(e) ==
  /\ poll[e] \in {"patched", "missed"} /\ Step(e, IF poll[e] = "patched" THEN "released" ELSE "dropped")
  /\ holder' = IF holder = e THEN "free" ELSE holder
  /\ UNCHANGED <<left, due, queue, pick, task, env>>

\* Unmarked once the release has returned; nothing is sent for a run that went on meanwhile.
Unmark(e) ==
  /\ poll[e] \in {"released", "dropped"} /\ Step(e, IF poll[e] = "released" THEN "sendable" ELSE "idle")
  /\ UNCHANGED <<row, queue, pick, task, env>>

Send(e) ==
  /\ poll[e] = "sendable" /\ queue < MaxQueue /\ queue' = queue + 1 /\ Step(e, "idle")
  /\ UNCHANGED <<row, pick, task, env>>

\* The transport refuses it: the poller resumes the run itself.
SendRefused(e) ==
  /\ poll[e] = "sendable" /\ faults < MaxFaults /\ faults' = faults + 1 /\ Step(e, "idle")
  /\ pick' = [pick EXCEPT ![e] = IF @ = "idle" THEN "relock" ELSE @]
  /\ UNCHANGED <<row, queue, task, drain, results, misled>>

-----------------------------------------------------------------------------
(* A wake from the queue (runFromQueue), and the pickup of a due run under  *)
(* a lease (resumeLeased).                                                 *)

SetPick(e, to) == pick' = [pick EXCEPT ![e] = to]

\* A due run is leased here; another is leased by its turn.
Consume(e) ==
  /\ queue > 0 /\ ~Draining(e) /\ pick[e] = "idle" /\ queue' = queue - 1
  /\ IF left > 0 /\ due THEN SetPick(e, "lock") ELSE UNCHANGED pick
  /\ IF left > 0 /\ ~due THEN Resume(e) ELSE UNCHANGED <<turn, again>>
  /\ UNCHANGED <<row, poll, mine, proof, timer, fenced, env>>

\* Not leased: a wake off the queue is looked at again later (unconditionalRechecks).
PickLock(e) ==
  /\ pick[e] \in {"lock", "relock"}
  /\ IF ~Draining(e) /\ holder = "free" THEN holder' = e /\ SetPick(e, "locked")
                                        ELSE UNCHANGED holder /\ SetPick(e, "idle")
  /\ timer' = [timer EXCEPT ![e] = @ \/ (pick[e] = "lock" /\ ~Draining(e) /\ holder # "free")]
  /\ UNCHANGED <<left, due, queue, poll, turn, mine, proof, again, fenced, env>>

\* Back from the store: given back if the engine is draining by now.
PickResume(e) ==
  /\ pick[e] = "locked"
  /\ IF Draining(e)
     THEN holder' = "free" /\ SetPick(e, "idle") /\ UNCHANGED <<turn, again, mine>>
     ELSE UNCHANGED holder /\ SetPick(e, "await") /\ mine' = [mine EXCEPT ![e] = TRUE] /\ Resume(e)
  /\ UNCHANGED <<left, due, queue, poll, proof, timer, fenced, env>>

-----------------------------------------------------------------------------
(* A turn (resumeRunNow, execute).                                         *)

To(e, at) == turn' = [turn EXCEPT ![e] = at]

\* A result resumes the run on the instance it lands on, a draining one too.
Result(e) ==
  /\ left > 0 /\ Up(e) /\ results < MaxResults /\ results' = results + 1 /\ Resume(e)
  /\ UNCHANGED <<row, queue, poll, pick, mine, proof, timer, fenced, drain, misled, faults>>

Read(e) ==
  /\ turn[e] = "read"
  /\ IF left = 0 THEN EndTurn(e)
                 ELSE To(e, IF holder = e THEN "own" ELSE "other") /\ UNCHANGED <<again, mine, pick>>
  /\ UNCHANGED <<row, queue, poll, proof, timer, fenced, env>>

\* Re-enter a lease taken for this turn; prove another one the snapshot shows as its
\* own, unless a claim is in flight; lock the run otherwise.
Choose(e) ==
  /\ turn[e] \in {"own", "other"} /\ mine' = [mine EXCEPT ![e] = FALSE]
  /\ To(e, IF turn[e] = "own" /\ mine[e] THEN "run"
           ELSE IF turn[e] = "own" /\ poll[e] \notin Claims THEN "prove" ELSE "trylock")
  /\ UNCHANGED <<row, queue, poll, pick, proof, again, timer, fenced, env>>

\* proveOwnLease renews by owner ...
Renew(e) ==
  /\ turn[e] = "prove" /\ To(e, IF holder = e THEN "proved" ELSE "trylock")
  /\ proof' = [proof EXCEPT ![e] = @ \/ holder # e]
  /\ misled' = (misled \/ (holder = e /\ pick[e] \in {"locked", "await"}))
  /\ UNCHANGED <<row, queue, poll, pick, mine, again, timer, fenced, drain, results, faults>>

\* Mutant: a claim begun and over while the renewal was out is not noticed.
ProvedUncounted(e) ==
  /\ turn[e] = "proved" /\ To(e, IF poll[e] \notin Claims THEN "run" ELSE "trylock")
  /\ proof' = [proof EXCEPT ![e] = TRUE]
  /\ UNCHANGED <<row, queue, poll, pick, mine, again, timer, fenced, env>>

\* ... and believes the answer if no claim was begun while it was out.
Proved(e) ==
  /\ turn[e] = "proved" /\ To(e, IF poll[e] \notin Claims /\ proof[e] THEN "run" ELSE "trylock")
  /\ proof' = [proof EXCEPT ![e] = TRUE]
  /\ UNCHANGED <<row, queue, poll, pick, mine, again, timer, fenced, env>>

TryLock(e) ==
  /\ turn[e] = "trylock"
  /\ IF holder = "free" THEN holder' = e /\ To(e, "run") /\ UNCHANGED <<again, mine, pick>>
                        ELSE UNCHANGED holder /\ EndTurn(e)
  /\ timer' = [timer EXCEPT ![e] = @ \/ (holder # "free" /\ ~Draining(e))]
  /\ UNCHANGED <<left, due, queue, poll, proof, fenced, env>>

\* The body's next step and its settle; a fenced turn writes nothing.
Run(e) ==
  /\ turn[e] = "run" /\ To(e, "release")
  /\ IF fenced[e] THEN UNCHANGED <<left, due>> ELSE left' = (IF left > 0 THEN left - 1 ELSE 0) /\ due' = FALSE
  /\ UNCHANGED <<holder, queue, poll, pick, mine, proof, again, timer, fenced, env>>

\* Mutant: the fence outlives the turn.
ReleaseFenced(e) ==
  /\ turn[e] = "release" /\ EndTurn(e)
  /\ holder' = IF fenced[e] THEN holder ELSE "free"
  /\ UNCHANGED <<left, due, queue, poll, proof, timer, fenced, env>>

\* The release frees whoever holds the lease, so a fenced turn does not release.
Release(e) ==
  /\ turn[e] = "release" /\ EndTurn(e) /\ fenced' = [fenced EXCEPT ![e] = FALSE]
  /\ holder' = IF fenced[e] THEN holder ELSE "free"
  /\ UNCHANGED <<left, due, queue, poll, proof, timer, env>>

\* retryDroppedWake: once the lease is free the wake goes to the queue again; a lease that
\* is held at the last of LEASE_RECHECK_ATTEMPTS looks ends it.
Recheck(e) ==
  /\ timer[e] /\ timer' = [timer EXCEPT ![e] = FALSE]
  /\ IF left > 0 /\ holder = "free" /\ ~Draining(e) THEN queue < MaxQueue /\ queue' = queue + 1 ELSE UNCHANGED queue
  /\ UNCHANGED <<row, poll, pick, turn, mine, proof, again, fenced, env>>

-----------------------------------------------------------------------------
(* Shutdown, time and faults.                                              *)

\* drain: re-checks are dropped; nothing in flight, nothing to wait for.
BeginDrain(e) ==
  /\ e \in Drains /\ drain[e] = "no"
  /\ drain' = [drain EXCEPT ![e] = IF turn[e] = "idle" THEN "over" ELSE "begun"]
  /\ timer' = [timer EXCEPT ![e] = FALSE]
  /\ UNCHANGED <<row, queue, poll, pick, turn, mine, proof, again, fenced, results, misled, faults>>

\* The executions settled, or the budget is over: what still executes is fenced, and its
\* lease released by owner (releaseInflightLeases).
DrainOver(e) ==
  LET executing == turn[e] \in {"run", "release"}
  IN  /\ drain[e] = "begun" /\ drain' = [drain EXCEPT ![e] = "over"]
      /\ fenced' = [fenced EXCEPT ![e] = @ \/ executing]
      /\ holder' = IF executing /\ ~fenced[e] /\ holder = e THEN "free" ELSE holder
      /\ UNCHANGED <<left, due, queue, poll, pick, turn, mine, proof, again, timer, results, misled, faults>>

Exit(e) ==
  /\ drain[e] = "over" /\ drain' = [drain EXCEPT ![e] = "gone"]
  /\ poll' = [poll EXCEPT ![e] = "idle"] /\ pick' = [pick EXCEPT ![e] = "idle"]
  /\ turn' = [turn EXCEPT ![e] = "idle"] /\ mine' = [mine EXCEPT ![e] = FALSE]
  /\ again' = [again EXCEPT ![e] = FALSE] /\ timer' = [timer EXCEPT ![e] = FALSE]
  /\ fenced' = [fenced EXCEPT ![e] = FALSE] /\ proof' = [proof EXCEPT ![e] = TRUE]
  /\ UNCHANGED <<row, queue, results, misled, faults>>

\* A lease lapses once nothing on its instance is about to use or release it.
Lapse(e) ==
  /\ holder = e /\ poll[e] \notin {"locked", "patched", "missed"} /\ pick[e] \notin {"locked", "await"}
  /\ turn[e] \notin {"proved", "run", "release"} /\ holder' = "free"
  /\ UNCHANGED <<left, due, queue, poll, pick, task, env>>

\* A claim pushes the timer a whole lease out: a step that takes longer than that is a fault.
Looking == \/ queue > 0
           \/ \E e \in Engines : poll[e] # "idle" \/ pick[e] # "idle" \/ turn[e] \notin {"idle", "run", "release"}
TimerOver ==
  /\ ~due /\ left > 0 /\ due' = TRUE
  /\ IF Looking THEN faults < MaxFaults /\ faults' = faults + 1 ELSE UNCHANGED faults
  /\ UNCHANGED <<left, holder, queue, poll, pick, task, drain, results, misled>>

LoseWake ==
  /\ queue > 0 /\ faults < MaxFaults /\ queue' = queue - 1 /\ faults' = faults + 1
  /\ UNCHANGED <<row, poll, pick, task, drain, results, misled>>

-----------------------------------------------------------------------------
HandOff(e) == Mark(e) \/ ClaimLock(e) \/ Push(e) \/ ClaimRelease(e) \/ Unmark(e) \/ Send(e)
Pickup(e)  == PickLock(e) \/ PickResume(e)
Turn(e)    == Read(e) \/ Choose(e) \/ Renew(e) \/ Proved(e) \/ TryLock(e) \/ Run(e) \/ Release(e)

QueueNext ==
  \/ \E e \in Engines :
       \/ HandOff(e) \/ SendRefused(e) \/ Consume(e) \/ Pickup(e) \/ Turn(e) \/ Result(e)
       \/ Recheck(e) \/ BeginDrain(e) \/ DrainOver(e) \/ Exit(e) \/ Lapse(e)
  \/ TimerOver \/ LoseWake

QueueSpec == QueueInit /\ [][QueueNext]_queueVars

\* Timers run out and are polled, the queue is consumed, engines go on with what they
\* began; a shutdown need not happen, or end.
QueueFairness ==
  /\ WF_queueVars(TimerOver)
  /\ WF_queueVars(\E e \in Engines : Consume(e))
  /\ \A e \in Engines :
       WF_queueVars(HandOff(e)) /\ WF_queueVars(Pickup(e)) /\ WF_queueVars(Turn(e)) /\ WF_queueVars(Lapse(e))

-----------------------------------------------------------------------------
\* Not so in the code (README, 7): a turn that may still write holds the run's lease: no claim of its own instance, no
\* release elsewhere and no shutdown takes it away unnoticed.
LeaseHeld == \A e \in Engines : turn[e] \in {"run", "release"} /\ ~fenced[e] => holder = e

\* A turn that may still write holds the run's lease, unless a turn proved the lease of a
\* pickup of its instance (the proof counts claims, not pickups): the pickup, draining, gives
\* it back whoever holds it by then, or marks the next turn as leased.
TurnHoldsLease == misled \/ LeaseHeld

\* Whatever wake is lost or refused and whichever instance shuts down, the run ends.
RunEnds == <>(left = 0)
=============================================================================
