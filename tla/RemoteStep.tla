----------------------------- MODULE RemoteStep ------------------------------
(***************************************************************************)
(* One step that a run dispatches to a remote worker, from its call        *)
(* (callRemote, packages/core/src/engine.ts) over the pending checkpoint,  *)
(* the task, its execution and its result (completeRemoteResults), to what *)
(* the body is told: with retries of a failed attempt, the redispatch of a *)
(* lost one, a worker's heartbeats and the operator's redispatchPending.   *)
(*                                                                         *)
(* One action is one store or transport call. Abstractions: one turn of    *)
(* the run at a time (RunLease); a run that is not over may be resumed at  *)
(* any time (every suspension carries a `wakeAt`), so wakes are left out;  *)
(* an output is the attempt it comes from; a deadline is what it was       *)
(* computed from and whether it has passed, and it may pass between a      *)
(* turn's read and its look at the clock; after the step the body ends or  *)
(* waits for something else, and it lets a thrown step error fail the run. *)
(***************************************************************************)
EXTENDS Naturals, FiniteSets

CONSTANTS
  Engines,       \* instances that consume step results
  Retries,       \* `retries`: attempts the policy of the step allows
  RedispatchMax, \* `remoteRedispatchMax`, 0: `remoteRedispatchMs` is not set
  Prompt,        \* whether nobody else writes the checkpoint between the read and
                 \* the write of a heartbeat or an operator call
  MaxFaults      \* bound: crashes, lost or duplicated tasks, operator calls

ASSUME RemoteStepAssumption ==
  Retries \in Nat \ {0} /\ RedispatchMax \in Nat /\ Prompt \in BOOLEAN /\ MaxFaults \in Nat

VARIABLES
  cp,      \* the step's checkpoint
  ended,   \* how the run is over
  at,      \* the turn: where it is in callRemote
  read,    \* ... and the checkpoint it read
  tasks,   \* attempts dispatched, and not acknowledged by a worker
  results, \* results sent, and not acknowledged by an engine
  con,     \* per engine: the result it handles, and where it is
  aside,   \* the heartbeat and the operator's call: where they are, what they read
  told,    \* history: what the body has been told
  faults   \* history: faults so far

turn == <<at, read>>
net  == <<tasks, results, con>>
hist == <<told, faults>>
vars == <<cp, ended, turn, net, aside, hist>>

Settled   == {"completed", "failed", "fatal"} \* fatal: failed, and not retryable
Deadlines == {"none", "lease", "backoff"}
Asides    == {"beat", "operator"}

NoRow == [status |-> "absent", attempts |-> 0, by |-> 0, wake |-> "none", due |-> FALSE]
Pending(n) == [NoRow EXCEPT !.status = "pending", !.attempts = n]
FailedForGood(row) == row.status = "fatal" \/ (row.status = "failed" /\ row.attempts >= Retries)

\* Retries and redispatches share one counter, which an operator may push further.
Budget == IF Retries > RedispatchMax THEN Retries ELSE RedispatchMax
AttemptLimit == Budget + MaxFaults
Rows    == [status : Settled \cup {"absent", "pending"}, attempts : 0..AttemptLimit,
            by : 0..AttemptLimit, wake : Deadlines, due : BOOLEAN]
Results == [status : Settled, by : 0..AttemptLimit]
NoResult == [at |-> "idle", res |-> [status |-> "failed", by |-> 0]]

None == <<"none", 0>>
Lost == <<"lost", 0>>
Outcomes == {<<"completed", n>> : n \in 0..AttemptLimit} \cup {<<"failed", 0>>}

TypeOK ==
  /\ cp \in Rows /\ ended \in {"no", "completed", "failed"}
  /\ at \in {"idle", "look", "decide", "send"} /\ read \in Rows
  /\ tasks \subseteq 0..AttemptLimit /\ results \subseteq Results
  /\ con \in [Engines -> [at : {"idle", "check", "settle"}, res : Results]]
  /\ aside \in [Asides -> [at : {"idle", "write", "send"}, row : Rows]]
  /\ told \in Outcomes \cup {None, Lost} /\ faults \in 0..MaxFaults

\* The checkpoint may be written by someone who has not read it for a Prompt write.
Free == Prompt => \A a \in Asides : aside[a].at # "write"

Init ==
  /\ cp = NoRow /\ ended = "no" /\ at = "idle" /\ read = NoRow
  /\ tasks = {} /\ results = {}
  /\ con = [e \in Engines |-> NoResult]
  /\ aside = [a \in Asides |-> [at |-> "idle", row |-> NoRow]]
  /\ told = None /\ faults = 0

-----------------------------------------------------------------------------
(* A turn of the run reaches the step: callRemote.                         *)

\* The turn loads the run's checkpoints.
BeginTurn ==
  /\ at = "idle" /\ ended = "no" /\ at' = "look" /\ read' = cp
  /\ UNCHANGED <<cp, ended, net, aside, hist>>

\* A step the snapshot shows pending, or not at all, is read again.
Look ==
  /\ at = "look" /\ at' = "decide"
  /\ read' = IF read.status \in Settled THEN read ELSE cp
  /\ UNCHANGED <<cp, ended, net, aside, hist>>

Suspend == at' = "idle" /\ read' = NoRow

Sending(row) == at' = "send" /\ read' = row

\* A settled step returns its output; the body then ends, or waits further on.
Return ==
  /\ at = "decide" /\ read.status = "completed"
  /\ told' = <<"completed", read.by>> /\ ended' \in {"no", "completed"} /\ Suspend
  /\ UNCHANGED <<cp, net, aside, faults>>

\* A failure past the retries, or one that is not retryable, is thrown.
Throw ==
  /\ at = "decide" /\ FailedForGood(read)
  /\ told' = <<"failed", 0>> /\ ended' = "failed" /\ Suspend
  /\ UNCHANGED <<cp, net, aside, faults>>

Retrying == read.status = "failed" /\ ~FailedForGood(read)

\* The deadline that was read has passed by now; that of a row written since may have.
Reached == read.wake # "none" /\ (read.due \/ cp # read)

\* The first sight of a failed attempt stamps its retry deadline.
StampBackoff ==
  /\ at = "decide" /\ Free /\ Retrying /\ read.wake = "none"
  /\ cp' = [read EXCEPT !.wake = "backoff", !.due = FALSE] /\ Suspend
  /\ UNCHANGED <<ended, net, aside, hist>>

\* A deadline not yet reached, or no deadline to wait for.
Await ==
  /\ at = "decide" /\ Suspend
  /\ \/ (Retrying \/ read.status = "pending") /\ read.wake # "none" /\ ~read.due
     \/ read.status = "pending" /\ RedispatchMax = 0
  /\ UNCHANGED <<cp, ended, net, aside, hist>>

\* Mutant: the step is dispatched before its checkpoint is there.
PersistNothing ==
  /\ at = "decide" /\ Free /\ (read.status = "absent" \/ (Retrying /\ Reached))
  /\ Sending(Pending(read.attempts + 1)) /\ UNCHANGED cp
  /\ UNCHANGED <<ended, net, aside, hist>>

\* A new step, and the retry of one whose deadline has passed, is written as
\* pending before it is dispatched.
PersistPending ==
  /\ at = "decide" /\ Free /\ (read.status = "absent" \/ (Retrying /\ Reached))
  /\ cp' = Pending(read.attempts + 1) /\ Sending(cp')
  /\ UNCHANGED <<ended, net, aside, hist>>

Send ==
  /\ at = "send" /\ tasks' = tasks \cup {read.attempts} /\ Suspend
  /\ UNCHANGED <<cp, ended, results, con, aside, hist>>

Overdue == at = "decide" /\ RedispatchMax > 0 /\ read.status = "pending" /\ Reached

\* savePendingCheckpoint, a compare-and-set: settled meanwhile, the step is looked at again.
SavePending(row, Then) ==
  IF cp.status = "pending" THEN cp' = row /\ Then ELSE at' = "look" /\ UNCHANGED <<cp, read>>

\* Mutant: every replay stamps the deadline anew.
StampLeaseAgain ==
  /\ at = "decide" /\ Free /\ RedispatchMax > 0 /\ read.status = "pending"
  /\ SavePending([read EXCEPT !.wake = "lease", !.due = FALSE], Suspend)
  /\ UNCHANGED <<ended, net, aside, hist>>

\* The first sight of a pending step stamps its redispatch deadline.
StampLease ==
  /\ at = "decide" /\ Free /\ RedispatchMax > 0 /\ read.status = "pending" /\ read.wake = "none"
  /\ SavePending([read EXCEPT !.wake = "lease", !.due = FALSE], Suspend)
  /\ UNCHANGED <<ended, net, aside, hist>>

\* Mutant: redispatches are not bounded.
RedispatchForever ==
  /\ Overdue /\ Free
  /\ LET row == [read EXCEPT !.attempts = @ + 1, !.wake = "lease", !.due = FALSE]
     IN  SavePending(row, Sending(row))
  /\ UNCHANGED <<ended, net, aside, hist>>

\* Past the deadline with no result the dispatch is presumed lost, and sent again.
Redispatch ==
  /\ Overdue /\ Free /\ read.attempts < RedispatchMax
  /\ LET row == [read EXCEPT !.attempts = @ + 1, !.wake = "lease", !.due = FALSE]
     IN  SavePending(row, Sending(row))
  /\ UNCHANGED <<ended, net, aside, hist>>

\* ... a number of times, after which the call throws and writes nothing.
GiveUp ==
  /\ Overdue /\ read.attempts >= RedispatchMax
  /\ told' = Lost /\ ended' = "failed" /\ Suspend
  /\ UNCHANGED <<cp, net, aside, faults>>

\* The stored deadline passes.
DeadlinePasses ==
  /\ cp.wake # "none" /\ ~cp.due /\ cp' = [cp EXCEPT !.due = TRUE]
  /\ UNCHANGED <<ended, turn, net, aside, hist>>

-----------------------------------------------------------------------------
(* The worker and its transport, which deliver at least once.              *)

Fault == faults < MaxFaults /\ faults' = faults + 1

\* A worker executes an attempt, sends its result, and acknowledges the task.
Execute(n) ==
  /\ n \in tasks /\ tasks' = tasks \ {n}
  /\ \E s \in Settled : results' = results \cup {[status |-> s, by |-> n]}
  /\ UNCHANGED <<cp, ended, turn, con, aside, hist>>

\* ... or goes down before it acknowledges: the task is delivered again.
ExecuteUnacknowledged(n) ==
  /\ n \in tasks /\ Fault
  /\ \E s \in Settled : results' = results \cup {[status |-> s, by |-> n]}
  /\ UNCHANGED <<cp, ended, turn, tasks, con, aside, told>>

\* The job of a worker that went down is dropped, with no result.
LoseTask(n) ==
  /\ n \in tasks /\ tasks' = tasks \ {n} /\ Fault
  /\ UNCHANGED <<cp, ended, turn, results, con, aside, told>>

-----------------------------------------------------------------------------
(* A result reaches an engine: completeRemoteResults.                      *)

Handling(e, w) == con[e].at = w

\* An engine is done with a result: it is acknowledged, or delivered again.
Done(e) ==
  /\ con' = [con EXCEPT ![e] = NoResult]
  /\ \/ results' = results \ {con[e].res} /\ UNCHANGED faults
     \/ UNCHANGED results /\ Fault

\* A result whose step is not pending is a duplicate, or late: nothing is written.
Discard(r) ==
  /\ cp.status # "pending" /\ results' = results \ {r}
  /\ UNCHANGED <<cp, ended, turn, tasks, con, aside, hist>>

Receive(e) ==
  /\ Handling(e, "idle") /\ cp.status = "pending"
  /\ \E r \in results : con' = [con EXCEPT ![e] = [at |-> "check", res |-> r]]
  /\ UNCHANGED <<cp, ended, turn, tasks, results, aside, hist>>

\* A completed run drops its result; a failed one does not.
CheckRun(e) ==
  /\ Handling(e, "check")
  /\ IF ended = "completed"
     THEN Done(e)
     ELSE con' = [con EXCEPT ![e].at = "settle"] /\ UNCHANGED <<results, faults>>
  /\ UNCHANGED <<cp, ended, turn, tasks, aside, told>>

\* What a result changes of the checkpoint; the deadline stays as it is stored.
SettledBy(r) == [cp EXCEPT !.status = r.status,
                           !.by = IF r.status = "completed" THEN r.by ELSE @]

\* Mutant: the settle is a plain write.
SettleBlindly(e) ==
  /\ Handling(e, "settle") /\ Free /\ cp' = SettledBy(con[e].res) /\ Done(e)
  /\ UNCHANGED <<ended, turn, tasks, aside, told>>

\* settleCheckpointsIfPending: the first result to find the step pending wins.
Settle(e) ==
  /\ Handling(e, "settle") /\ Free
  /\ cp' = IF cp.status = "pending" THEN SettledBy(con[e].res) ELSE cp
  /\ Done(e)
  /\ UNCHANGED <<ended, turn, tasks, aside, told>>

-----------------------------------------------------------------------------
(* Two writers beside the turn and the results, neither of which compares. *)

Step(a, w, row) == aside' = [aside EXCEPT ![a] = [at |-> w, row |-> row]]

\* rearmStepLease: a worker at the step beats, and the step is pending ...
Beat ==
  /\ aside["beat"].at = "idle" /\ RedispatchMax > 0 /\ tasks # {} /\ cp.status = "pending" /\ Free
  /\ Step("beat", "write", cp)
  /\ UNCHANGED <<cp, ended, turn, net, hist>>

\* ... its deadline is moved on.
RearmLease ==
  /\ aside["beat"].at = "write" /\ Step("beat", "idle", NoRow)
  /\ cp' = [aside["beat"].row EXCEPT !.wake = "lease", !.due = FALSE]
  /\ UNCHANGED <<ended, turn, net, hist>>

\* redispatchPending lists the pending steps ...
ListPending ==
  /\ aside["operator"].at = "idle" /\ cp.status = "pending" /\ Free /\ Fault
  /\ Step("operator", "write", cp)
  /\ UNCHANGED <<cp, ended, turn, net, told>>

\* ... writes each with one more attempt ...
Reattempt ==
  LET row == [aside["operator"].row EXCEPT !.attempts = @ + 1]
  IN /\ aside["operator"].at = "write" /\ cp' = row /\ Step("operator", "send", row)
     /\ UNCHANGED <<ended, turn, net, hist>>

\* ... and dispatches it.
Resend ==
  /\ aside["operator"].at = "send" /\ Step("operator", "idle", NoRow)
  /\ tasks' = tasks \cup {aside["operator"].row.attempts}
  /\ UNCHANGED <<cp, ended, turn, results, con, hist>>

-----------------------------------------------------------------------------
CrashTurn ==
  /\ at # "idle" /\ Fault /\ Suspend
  /\ UNCHANGED <<cp, ended, net, aside, told>>

\* The result it handled was not acknowledged: it is delivered again.
CrashConsumer(e) ==
  /\ ~Handling(e, "idle") /\ Fault /\ con' = [con EXCEPT ![e] = NoResult]
  /\ UNCHANGED <<cp, ended, turn, tasks, results, aside, told>>

CrashAside(a) ==
  /\ aside[a].at # "idle" /\ Fault /\ Step(a, "idle", NoRow)
  /\ UNCHANGED <<cp, ended, turn, net, told>>

Call == \/ Look \/ Return \/ Throw \/ StampBackoff \/ Await \/ PersistPending \/ Send
        \/ StampLease \/ Redispatch \/ GiveUp
Consume(e) == Receive(e) \/ CheckRun(e) \/ Settle(e)
Write == RearmLease \/ Reattempt \/ Resend

Next ==
  \/ BeginTurn \/ Call \/ DeadlinePasses \/ Beat \/ ListPending \/ Write \/ CrashTurn
  \/ \E n \in tasks : Execute(n) \/ ExecuteUnacknowledged(n) \/ LoseTask(n)
  \/ \E r \in results : Discard(r)
  \/ \E e \in Engines : Consume(e) \/ CrashConsumer(e)
  \/ \E a \in Asides : CrashAside(a)

Spec == Init /\ [][Next]_vars

\* The pollers resume a run that is not over, what was begun goes on, time passes,
\* a worker that holds a task executes it, and a result is handled in the end.
Fairness ==
  /\ WF_vars(BeginTurn) /\ WF_vars(Call) /\ WF_vars(DeadlinePasses) /\ WF_vars(Write)
  /\ WF_vars(\E n \in tasks : Execute(n))
  /\ \A e \in Engines : WF_vars(Consume(e))

FairSpec == Spec /\ Fairness

-----------------------------------------------------------------------------
OutcomeOf(row) == CASE row.status = "completed" -> <<"completed", row.by>>
                    [] FailedForGood(row)        -> <<"failed", 0>>
                    [] OTHER                     -> None

Promise == INSTANCE StepPromise WITH outcome <- OutcomeOf(cp)

\* Whatever is retried, redispatched, lost or delivered twice, one attempt settles
\* the step, once, and the body is told that at every replay.
KeepsPromise == Promise!Spec

\* A fast result always finds its checkpoint (callRemote persists it before it
\* dispatches): no task or result is under way for a step that is not in the store.
ResultFindsRow == tasks # {} \/ results # {} => cp.status # "absent"

\* With redispatch on, a step that is lost does not keep its run waiting: the body
\* is told an outcome in the end, or that the step is lost.
EventuallyTold == <>(told # None)

\* Not so in the code (README, 7): a retry waits for the backoff of the attempt that failed: the step goes back to
\* pending only from a failed checkpoint whose deadline was computed from it.
RetryAwaitsBackoff ==
  [][cp.status = "failed" /\ cp'.status = "pending" => cp.wake = "backoff"]_vars

\* Not so in the code (README, 7): a step whose result has landed is never put back to pending (what the compare-and-set
\* of savePendingCheckpoint is for): a completed checkpoint stays completed.
CompletedStays == [][cp.status = "completed" => cp'.status = "completed"]_vars
=============================================================================
