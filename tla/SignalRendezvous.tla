-------------------------- MODULE SignalRendezvous --------------------------
(***************************************************************************)
(* Signals: a run that waits NumWaits times in a row on one token          *)
(* (waitForSignal, packages/core/src/workflow-ctx.ts) and the callers that *)
(* send it (signal, deliverSignal, packages/core/src/engine.ts), who meet  *)
(* in three store records nobody locks: the waiter row of the token, the   *)
(* buffer of the token, and the checkpoint each wait resolves to.          *)
(*                                                                         *)
(* One action is one store call. Abstractions: the run's lease excludes a  *)
(* second turn (RunLease), a wake that arrives during a turn is kept for   *)
(* the next one, a payload is the sender it comes from, the body does      *)
(* nothing between two waits, and a suspended run may be found due at any  *)
(* time (the `reconcileMs` fallback). One instance's poller handles the    *)
(* run; a poller of another one would find the lease held in between.      *)
(* The body catches a timeout and goes on to its next wait.                *)
(***************************************************************************)
EXTENDS Naturals, Sequences, FiniteSets

CONSTANTS
  Senders,    \* calls of signal(token, payload)
  None,       \* no payload
  NumWaits,   \* waits of the body, at seq 1..NumWaits
  Bounded,    \* those with a `timeoutMs`
  MaxCrashes  \* bound: crashes of a process executing a turn or a call

ASSUME SignalAssumption ==
  /\ None \notin Senders \cup Nat /\ NumWaits \in Nat \ {0}
  /\ Bounded \subseteq 1..NumWaits /\ MaxCrashes \in Nat

VARIABLES
  \* the store: the seq of the token's waiter row (0: none), its buffer, the
  \* checkpoints, the deadline of each bounded wait, and whether the run is over
  waiter, buffer, cp, deadline, finished,
  \* the run: where its turn is, the wait it is at, the checkpoints the turn loaded
  \* when it began, the payload it has taken, and whether a wake is kept for it
  at, seq, replay, took, woken,
  \* the timer poller: what it has listed, the due run or its waiter row too,
  \* and the seq of that row
  polled, row,
  \* per sender: where its call is, the seq of the waiter row and the payload it took
  call, target, payload,
  \* history: what each wait has returned to the body, which ones timed out; crashes
  seen, timed, crashes

store == <<waiter, buffer, cp, deadline, finished>>
run   == <<at, seq, replay, took, woken>>
calls == <<call, target, payload>>
hist  == <<seen, timed, crashes>>
poller == <<polled, row>>
vars  == <<store, run, poller, calls, hist>>

Seqs == 1..NumWaits
Reconciling == {"reconcile", "unregister", "resolve"}
Turning == {"start", "stamp", "read", "take", "write", "expire", "put", "retake", "rewrite", "remove"}
Calls == {"take", "buffer", "retake", "reclaim", "deliver", "wake", "done", "failed"}

TypeOK ==
  /\ waiter \in 0..NumWaits /\ buffer \in Seq(Senders)
  /\ cp \in [Seqs -> Senders \cup {None}] /\ finished \in BOOLEAN
  /\ deadline \in [Seqs -> {"none", "ahead", "past"}] /\ timed \subseteq Seqs
  /\ at \in {"idle"} \cup Reconciling \cup Turning /\ seq \in Seqs
  /\ replay \in [Seqs -> Senders \cup {None}]
  /\ took \in Senders \cup {None} /\ woken \in BOOLEAN
  /\ polled \in {"nothing", "run", "row"} /\ row \in 0..NumWaits
  /\ call \in [Senders -> Calls] /\ target \in [Senders -> 0..NumWaits]
  /\ payload \in [Senders -> Senders \cup {None}]
  /\ seen \in [Seqs -> SUBSET Senders] /\ crashes \in 0..MaxCrashes

Init ==
  /\ waiter = 0 /\ buffer = <<>> /\ cp = [i \in Seqs |-> None] /\ finished = FALSE
  /\ deadline = [i \in Seqs |-> "none"] /\ timed = {}
  /\ at = "idle" /\ seq = 1 /\ replay = cp /\ took = None /\ woken = TRUE
  /\ polled = "nothing" /\ row = 0
  /\ call = [s \in Senders |-> "take"] /\ target = [s \in Senders |-> 0]
  /\ payload = [s \in Senders |-> None]
  /\ seen = [i \in Seqs |-> {}] /\ crashes = 0

-----------------------------------------------------------------------------
(* A turn of the run: the body from its start, through waitForSignal.      *)

BeginTurn ==
  /\ at = "idle" /\ woken /\ woken' = FALSE
  /\ at' = "start" /\ seq' = 1
  /\ UNCHANGED <<store, replay, took, poller, calls, hist>>

\* A bounded wait begins with its deadline.
Entry(i) == IF i \in Bounded THEN "stamp" ELSE "read"

\* A resume of a finished run echoes it; a turn loads the checkpoints once.
StartTurn ==
  /\ at = "start"
  /\ IF finished THEN at' = "idle" /\ UNCHANGED replay
                 ELSE at' = Entry(seq) /\ replay' = cp
  /\ UNCHANGED <<store, seq, took, woken, poller, calls, hist>>

\* Mutant: the body goes on past its last wait.
ReturnPast(p) ==
  /\ seen' = [seen EXCEPT ![seq] = @ \cup {p}]
  /\ finished' = (seq > NumWaits)
  /\ IF seq > NumWaits THEN at' = "idle" /\ seq' = 1 ELSE at' = Entry(seq + 1) /\ seq' = seq + 1

\* On to the next wait, or the body ends.
GoOn ==
  /\ finished' = (seq = NumWaits)
  /\ IF seq = NumWaits THEN at' = "idle" /\ seq' = 1 ELSE at' = Entry(seq + 1) /\ seq' = seq + 1

\* waitForSignal returns a payload.
Return(p) == seen' = [seen EXCEPT ![seq] = @ \cup {p}] /\ GoOn

\* Mutant: every replay computes the deadline anew.
Restamp ==
  /\ at = "stamp" /\ at' = "read"
  /\ deadline' = [deadline EXCEPT ![seq] = "ahead"]
  /\ UNCHANGED <<waiter, buffer, cp, finished, seq, replay, took, woken, poller, calls, hist>>

\* stampDeadline records the deadline once; a replay reads it back.
StampDeadline ==
  /\ at = "stamp" /\ at' = "read"
  /\ deadline' = [deadline EXCEPT ![seq] = IF @ = "none" THEN "ahead" ELSE @]
  /\ UNCHANGED <<waiter, buffer, cp, finished, seq, replay, took, woken, poller, calls, hist>>

DeadlinePasses(i) ==
  /\ deadline[i] = "ahead" /\ deadline' = [deadline EXCEPT ![i] = "past"]
  /\ UNCHANGED <<waiter, buffer, cp, finished, run, poller, calls, hist>>

\* The loaded checkpoint of the wait, or else the stored one.
Checkpoint == IF replay[seq] # None THEN replay[seq] ELSE cp[seq]

ReadCheckpoint ==
  /\ at = "read"
  /\ IF Checkpoint = None THEN at' = "take" /\ UNCHANGED <<seq, finished, seen>>
                          ELSE Return(Checkpoint)
  /\ UNCHANGED <<waiter, buffer, cp, deadline, replay, took, woken, poller, calls, timed, crashes>>

\* With an empty buffer: suspended, registering, or too late.
NothingTaken == IF at = "retake" THEN "idle" ELSE IF deadline[seq] = "past" THEN "expire" ELSE "put"

\* Mutant: the payload is read, and left in the buffer.
PeekBuffered ==
  /\ at \in {"take", "retake"}
  /\ IF buffer = <<>>
     THEN at' = NothingTaken /\ UNCHANGED took
     ELSE took' = Head(buffer) /\ at' = IF at = "take" THEN "write" ELSE "rewrite"
  /\ UNCHANGED <<store, seq, replay, woken, poller, calls, hist>>

\* consumeBuffered takes the oldest payload: before registering a waiter, and
\* again after, to close the window in which a sender found neither.
TakeBuffered ==
  /\ at \in {"take", "retake"}
  /\ IF buffer = <<>>
     THEN at' = NothingTaken /\ UNCHANGED <<buffer, took>>
     ELSE /\ took' = Head(buffer) /\ buffer' = Tail(buffer)
          /\ at' = IF at = "take" THEN "write" ELSE "rewrite"
  /\ UNCHANGED <<waiter, cp, deadline, finished, seq, replay, woken, poller, calls, hist>>

\* Mutant: the wait times out and leaves its row.
ExpireRegistered ==
  /\ at = "expire" /\ timed' = timed \cup {seq} /\ GoOn
  /\ UNCHANGED <<waiter, buffer, cp, deadline, replay, took, woken, poller, calls, seen, crashes>>

\* Past its deadline the wait removes the row an earlier turn registered for it (a failure to
\* is ignored) and throws SignalTimeoutError, which the body catches. Nothing records that.
ExpireWait ==
  /\ at = "expire" /\ timed' = timed \cup {seq} /\ GoOn
  /\ \/ waiter' = (IF waiter = seq THEN 0 ELSE waiter) /\ UNCHANGED crashes
     \/ crashes < MaxCrashes /\ crashes' = crashes + 1 /\ UNCHANGED waiter
  /\ UNCHANGED <<buffer, cp, deadline, replay, took, woken, poller, calls, seen>>

\* The waiter row of the token, whatever it was, becomes this wait's.
PutWaiter ==
  /\ at = "put" /\ at' = "retake"
  /\ waiter' = seq
  /\ UNCHANGED <<buffer, cp, deadline, finished, seq, replay, took, woken, poller, calls, hist>>

\* Its second half records the payload at the wait's position.
WriteConsumed ==
  /\ at \in {"write", "rewrite"}
  /\ cp' = [cp EXCEPT ![seq] = took]
  /\ IF at = "write" THEN Return(took) /\ took' = None
                     ELSE at' = "remove" /\ UNCHANGED <<seq, took, finished, seen>>
  /\ UNCHANGED <<waiter, buffer, deadline, replay, woken, poller, calls, timed, crashes>>

\* removeSignalWaiter removes this wait's own row only.
RemoveWaiter ==
  /\ at = "remove"
  /\ waiter' = IF waiter = seq THEN 0 ELSE waiter
  /\ Return(took) /\ took' = None
  /\ UNCHANGED <<buffer, cp, deadline, replay, woken, poller, calls, timed, crashes>>

-----------------------------------------------------------------------------
(* The timer poller: resumeDueTimers, reconcileSignalWaiter.               *)

\* Mutant: only a run with a waiter row is looked at again.
ListDueParked ==
  /\ polled = "nothing" /\ at = "idle" /\ ~finished /\ waiter # 0 /\ polled' = "run"
  /\ UNCHANGED <<store, run, row, calls, hist>>

\* The suspended run is due; then its waiter row is listed, both before the lock.
ListDue ==
  /\ polled = "nothing" /\ at = "idle" /\ ~finished /\ polled' = "run"
  /\ UNCHANGED <<store, run, row, calls, hist>>

ListRow ==
  /\ polled = "run" /\ polled' = "row"
  /\ row' = waiter
  /\ UNCHANGED <<store, run, calls, hist>>

\* resumeLeased: a run under lease is skipped. With a waiter row listed the
\* buffer is looked at first, else the run is resumed.
LockDue ==
  /\ polled = "row" /\ polled' = "nothing" /\ row' = 0
  /\ IF at # "idle" THEN UNCHANGED <<at, seq>>
     ELSE IF row = 0 THEN at' = "start" /\ seq' = 1
                     ELSE at' = "reconcile" /\ seq' = row
  /\ UNCHANGED <<store, replay, took, woken, calls, hist>>

\* A buffered payload is paired with the row poller; without one the run is resumed.
ReconcileTake ==
  /\ at = "reconcile"
  /\ IF buffer = <<>>
     THEN at' = "start" /\ seq' = 1 /\ UNCHANGED <<buffer, took>>
     ELSE /\ took' = Head(buffer) /\ buffer' = Tail(buffer)
          /\ at' = "unregister" /\ UNCHANGED seq
  /\ UNCHANGED <<waiter, cp, deadline, finished, replay, woken, poller, calls, hist>>

Unregister ==
  /\ at = "unregister" /\ at' = "resolve"
  /\ waiter' = IF waiter = seq THEN 0 ELSE waiter
  /\ UNCHANGED <<buffer, cp, deadline, finished, seq, replay, took, woken, poller, calls, hist>>

\* deliverSignal under the poller's lease, then the turn.
Resolve ==
  /\ at = "resolve"
  /\ cp' = [cp EXCEPT ![seq] = took] /\ took' = None
  /\ at' = "start" /\ seq' = 1
  /\ UNCHANGED <<waiter, buffer, deadline, finished, replay, woken, poller, calls, hist>>

-----------------------------------------------------------------------------
(* A sender: signal, deliverSignal.                                        *)

Step(s, to) == call' = [call EXCEPT ![s] = to]
Forget(s)   == target' = [target EXCEPT ![s] = 0]

\* The first look: with a waiter row taken, deliver to it, else buffer.
TakeWaiter(s) ==
  /\ call[s] = "take"
  /\ waiter' = 0 /\ target' = [target EXCEPT ![s] = waiter]
  /\ payload' = [payload EXCEPT ![s] = IF waiter = 0 THEN None ELSE s]
  /\ Step(s, IF waiter = 0 THEN "buffer" ELSE "deliver")
  /\ UNCHANGED <<buffer, cp, deadline, finished, run, poller, hist>>

BufferSignal(s) ==
  /\ call[s] = "buffer" /\ Step(s, "retake")
  /\ buffer' = Append(buffer, s)
  /\ UNCHANGED <<waiter, cp, deadline, finished, run, poller, target, payload, hist>>

\* Mutant: no second look.
NoRetake(s) ==
  /\ call[s] = "retake" /\ Step(s, "done")
  /\ UNCHANGED <<store, run, poller, target, payload, hist>>

\* The second look: a waiter may have registered since the first.
RetakeWaiter(s) ==
  /\ call[s] = "retake"
  /\ waiter' = 0 /\ target' = [target EXCEPT ![s] = waiter]
  /\ Step(s, IF waiter = 0 THEN "done" ELSE "reclaim")
  /\ UNCHANGED <<buffer, cp, deadline, finished, run, poller, payload, hist>>

\* Take a payload back from the buffer, the oldest one; with none left the row
\* taken is dropped.
ReclaimBuffered(s) ==
  /\ call[s] = "reclaim"
  /\ IF buffer = <<>>
     THEN Step(s, "done") /\ Forget(s) /\ UNCHANGED <<buffer, payload>>
     ELSE /\ Step(s, "deliver") /\ UNCHANGED target
          /\ payload' = [payload EXCEPT ![s] = Head(buffer)] /\ buffer' = Tail(buffer)
  /\ UNCHANGED <<waiter, cp, deadline, finished, run, poller, hist>>

\* deliverSignal: the checkpoint, whatever is there ...
Deliver(s) ==
  /\ call[s] = "deliver" /\ Step(s, "wake")
  /\ cp' = [cp EXCEPT ![target[s]] = payload[s]]
  /\ payload' = [payload EXCEPT ![s] = None] /\ Forget(s)
  /\ UNCHANGED <<waiter, buffer, deadline, finished, run, poller, hist>>

\* ... then the wake.
Wake(s) ==
  /\ call[s] = "wake" /\ Step(s, "done")
  /\ woken' = TRUE
  /\ UNCHANGED <<store, at, seq, replay, took, poller, target, payload, hist>>

-----------------------------------------------------------------------------
(* Crashes: a first turn that dies is recovered, a later one is still due; *)
(* a call that dies fails for its caller.                                  *)

CrashTurn ==
  /\ at # "idle" /\ crashes < MaxCrashes /\ crashes' = crashes + 1
  /\ at' = "idle" /\ seq' = 1 /\ took' = None /\ woken' \in {woken, TRUE}
  /\ UNCHANGED <<store, replay, poller, calls, seen, timed>>

CrashCall(s) ==
  /\ call[s] \notin {"done", "failed"} /\ crashes < MaxCrashes /\ crashes' = crashes + 1
  /\ Step(s, "failed") /\ payload' = [payload EXCEPT ![s] = None] /\ Forget(s)
  /\ UNCHANGED <<store, run, poller, seen, timed>>

TurnStep == \/ BeginTurn \/ StartTurn \/ StampDeadline \/ ReadCheckpoint \/ TakeBuffered \/ ExpireWait
            \/ PutWaiter \/ WriteConsumed \/ RemoveWaiter \/ ReconcileTake \/ Unregister \/ Resolve
CallStep(s) == \/ TakeWaiter(s) \/ BufferSignal(s) \/ RetakeWaiter(s) \/ ReclaimBuffered(s)
               \/ Deliver(s) \/ Wake(s)

PollStep == ListDue \/ ListRow \/ LockDue

Next == \/ TurnStep \/ PollStep \/ CrashTurn
        \/ \E s \in Senders : CallStep(s) \/ CrashCall(s)
        \/ \E i \in Seqs : DeadlinePasses(i)

Spec == Init /\ [][Next]_vars

(* The event loop keeps running a turn that was started and a call that    *)
(* was made, which none has to be; the poller keeps polling.               *)
Fairness == /\ WF_vars(TurnStep) /\ WF_vars(PollStep)
            /\ \A s \in Senders : WF_vars(call[s] # "take" /\ CallStep(s))

FairSpec == Spec /\ Fairness

-----------------------------------------------------------------------------
(* Properties.                                                             *)

\* A payload is never delivered twice: whoever removes it from the store is the
\* only one to record it, and no two waits ever return it.
DeliveredOnce ==
  \A i, j \in Seqs : i # j =>
    (cp[i] # None => cp[i] # cp[j]) /\ seen[i] \cap seen[j] = {}

\* Nothing is under way.
Quiet == at = "idle" /\ ~woken /\ \A s \in Senders : call[s] \in {"take", "done", "failed"}

\* The two sides do not miss each other: they never leave both a registered
\* waiter and a buffered payload behind, unless a crash stops one of them.
NoStrandedPair == Quiet /\ ~finished /\ crashes = 0 => waiter = 0 \/ buffer = <<>>

\* Not so in the code (README, 7): a run does not stay suspended with a payload for it in the buffer.
NoLostWake == Quiet /\ ~finished => buffer = <<>>

\* With the reconcile sweep such a run gets its payload in the end.
BufferedIsConsumed == (buffer # <<>>) ~> (buffer = <<>> \/ finished)

\* No later signal meets a wait that has timed out: the row of an earlier turn is gone.
TimedOutUnregistered == crashes = 0 => waiter \notin timed

\* A wait past its deadline ends, with a payload or a timeout, whoever took its row
\* and died, and however often the turn starts again.
BoundedEnds == \A i \in Bounded : (deadline[i] = "past") ~> (i \in timed \/ seen[i] # {})

\* Not so in the code (README, 7): a wait that timed out does not return a payload at a later replay.
TimeoutIsFinal == \A i \in timed : seen[i] = {}

\* Not so in the code (README, 7): a payload whose `signal` returned is not lost; it
\* is buffered, on its way, or the outcome of a wait.
SignalNotLost ==
  \A p \in Senders : call[p] = "done" =>
    \/ \E i \in 1..Len(buffer) : buffer[i] = p
    \/ took = p
    \/ \E s \in Senders : payload[s] = p
    \/ \E i \in Seqs : cp[i] = p

=============================================================================
