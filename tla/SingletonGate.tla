---------------------------- MODULE SingletonGate ----------------------------
(***************************************************************************)
(* The runs of one singleton key: starting one (engine.start and           *)
(* SingletonGate.assertCapacity), a turn of one up to the gate (markStarted *)
(* and SingletonGate.admit), the slot it then keeps until it settles, the  *)
(* waking of the next (wakeNext), cancel and requeue; and, in a fleet      *)
(* being upgraded, replicas older than 0.73, which admit by a scan         *)
(* (packages/core/src/singleton-gate.ts, singleton-admission.ts).          *)
(*                                                                         *)
(* One action is one store call: the claim is one critical section of the  *)
(* store. Abstractions: a run has one turn at a time (RunLease); a run's   *)
(* number is its place in the order (createdAt, id); its singleton tags    *)
(* are the marker it carries; what makes it visible to a poller or wakes   *)
(* it is `wake`; the terminal statuses are one.                            *)
(***************************************************************************)
EXTENDS Integers, FiniteSets

CONSTANTS
  MaxRuns,       \* bound: runs of the key
  Limits,        \* the values of `limit` to look at
  MaxQueueDepth, \* `maxQueueDepth`
  MaxStarts,     \* bound: calls of `start` at the same time
  MaxDelayed,    \* bound: runs with a `startAt`
  MaxGateFaults  \* bound: crashes, lock conflicts, cancels and requeues

Runs == 1..MaxRuns

ASSUME SingletonGateAssumption ==
  /\ MaxRuns \in Nat /\ MaxQueueDepth \in Nat /\ MaxGateFaults \in Nat
  /\ Limits \subseteq Nat \ {0} /\ MaxStarts \in Nat \ {0} /\ MaxDelayed \in Nat

VARIABLES
  row,      \* per run: its status, its marker, and what will wake it
  ahead,    \* per run: whether its `startAt` is still ahead
  turn,     \* per run: where its turn is
  starts,   \* calls of `start` that are past the capacity check
  notices,  \* suspended runs a wakeNext has listed
  began,    \* history: runs that are past the gate, and have not settled
  faults,   \* history: faults so far
  limit,    \* the `limit` of the key
  mixed     \* whether replicas older than 0.73 take turns too

gateVars == <<row, ahead, turn, starts, notices, began, faults, limit, mixed>>
config   == <<limit, mixed>>

Active  == {"pending", "running", "suspended", "blocked", "cancelling"}
Scanned == {"running", "suspended", "cancelling"} \* what the old scan counted
Markers == {"none", "tracked", "admitted"}
Wakes   == {"none", "timer", "date"}              \* a date is a timer not yet due
Turns   == {"idle", "start", "restart", "gate", "body", "oldstart", "scan"}

NoRun == [status |-> "absent", tag |-> "none", wake |-> "none"]

GateTypeOK ==
  /\ row \in [Runs -> [status : Active \cup {"absent", "over"}, tag : Markers, wake : Wakes]]
  /\ ahead \in [Runs -> BOOLEAN] /\ turn \in [Runs -> Turns]
  /\ starts \in 0..MaxStarts /\ notices \subseteq Runs /\ began \subseteq Runs
  /\ faults \in 0..MaxGateFaults /\ limit \in Limits /\ mixed \in BOOLEAN

GateInit ==
  /\ row = [r \in Runs |-> NoRun] /\ ahead = [r \in Runs |-> FALSE]
  /\ turn = [r \in Runs |-> "idle"] /\ starts = 0
  /\ notices = {} /\ began = {} /\ faults = 0
  /\ limit \in Limits /\ mixed \in BOOLEAN

With(statuses) == {r \in Runs : row[r].status \in statuses}
Oldest(S, n)   == {r \in S : Cardinality({q \in S : q < r}) < n}

-----------------------------------------------------------------------------
(* Starting a run.                                                         *)

\* Mutant: the backlog may grow by one run more.
AssertCapacityLate ==
  /\ starts < MaxStarts /\ Cardinality(With(Active)) <= limit + MaxQueueDepth
  /\ starts' = starts + 1
  /\ UNCHANGED <<row, ahead, turn, notices, began, faults, config>>

\* assertCapacity counts the active runs of the key; a full backlog refuses the start.
AssertCapacity ==
  /\ starts < MaxStarts /\ Cardinality(With(Active)) < limit + MaxQueueDepth
  /\ starts' = starts + 1
  /\ UNCHANGED <<row, ahead, turn, notices, began, faults, config>>

\* Mutant: a start that was refused is created all the same.
CreateRunUnchecked(r) ==
  /\ starts' = starts - 1
  /\ row[r].status = "absent" /\ row' = [row EXCEPT ![r].status = "pending"]
  /\ UNCHANGED <<ahead, turn, notices, began, faults, config>>

\* The run is created pending, or with a `startAt` suspended until then. Its
\* createdAt was read before the check, so starts may be created in any order;
\* the old scan is exact only when they are not.
CreateRun(r) ==
  /\ starts > 0 /\ starts' = starts - 1
  /\ row[r].status = "absent" /\ (mixed => \A q \in Runs : q < r => row[q].status # "absent")
  /\ \/ row' = [row EXCEPT ![r].status = "pending"] /\ UNCHANGED ahead
     \/ /\ Cardinality({q \in Runs : ahead[q]}) < MaxDelayed
        /\ row' = [row EXCEPT ![r] = [status |-> "suspended", tag |-> "none", wake |-> "date"]]
        /\ ahead' = [ahead EXCEPT ![r] = TRUE]
  /\ UNCHANGED <<turn, notices, began, faults, config>>

DatePasses(r) ==
  /\ ahead[r] /\ ahead' = [ahead EXCEPT ![r] = FALSE]
  /\ row' = [row EXCEPT ![r].wake = IF @ = "date" THEN "timer" ELSE @]
  /\ UNCHANGED <<turn, starts, notices, began, faults, config>>

-----------------------------------------------------------------------------
(* A turn, up to the gate.                                                 *)

Goto(r, t) == turn' = [turn EXCEPT ![r] = t]

\* A poller, a wake or recovery takes a run that is not over: a pending one is
\* marked as started first (a "restart" has read a row that carries a marker), and
\* a cancelling one skips the gate.
TakeTurn(r) ==
  /\ turn[r] = "idle"
  /\ \/ /\ row[r].status = "pending"
        /\ Goto(r, IF row[r].tag = "none" THEN "start" ELSE "restart") \/ (mixed /\ Goto(r, "oldstart"))
     \/ /\ \/ row[r].status \in {"running", "blocked"}
           \/ row[r].status = "suspended" /\ row[r].wake = "timer"
        /\ (Goto(r, "gate") \/ (mixed /\ Goto(r, "scan")))
     \/ row[r].status = "cancelling" /\ Goto(r, "body")
  /\ UNCHANGED <<row, ahead, starts, notices, began, faults, config>>

Track(tag) == IF tag = "none" THEN "tracked" ELSE tag

\* markStarted writes `running` whatever the run has become, and, when the row the
\* turn read carried no marker, the tags it read with the marker added.
MarkStarted(r) ==
  /\ turn[r] \in {"start", "restart"} /\ Goto(r, "gate")
  /\ row' = [row EXCEPT ![r].status = "running", ![r].tag = IF turn[r] = "start" THEN "tracked" ELSE @]
  /\ UNCHANGED <<ahead, starts, notices, began, faults, config>>

Admitted == {r \in With(Active) : row[r].tag = "admitted"}

\* legacySingletonHolders: runs that may hold a slot without a marker. A run this
\* version has never executed, or one inside the window the old scan looks at.
Legacy(r) ==
  {q \in With(Scanned) \ {r} :
     row[q].tag # "admitted" /\ (row[q].tag = "none" \/ q \in Oldest(With(Scanned), limit))}

\* singletonAdmissionTags: a holder stays one; the slots left go to the oldest waiters.
Admissible(r) ==
  /\ row[r].status \in Active
  /\ \/ row[r].tag = "admitted"
     \/ /\ row[r].status # "cancelling"
        /\ LET remaining == limit - Cardinality(Admitted) - Cardinality(Legacy(r))
           IN  r \in Oldest(With(Active) \ (Admitted \cup Legacy(r)), remaining)

Admit(r) ==
  /\ turn[r] = "gate" /\ Admissible(r) /\ Goto(r, "body")
  /\ row' = [row EXCEPT ![r].tag = "admitted"] /\ began' = began \cup {r}
  /\ UNCHANGED <<ahead, starts, notices, faults, config>>

\* Mutant: the denied run is parked with no timer.
DenyForGood(r) ==
  /\ turn[r] = "gate" /\ ~Admissible(r) /\ Goto(r, "idle")
  /\ row' = IF row[r].status \in Active \ {"cancelling"}
            THEN [row EXCEPT ![r] = [status |-> "suspended", tag |-> Track(@.tag), wake |-> "none"]]
            ELSE row
  /\ UNCHANGED <<ahead, starts, notices, began, faults, config>>

\* A denial parks the run in the same critical section; one that is being
\* cancelled, or is over, is left alone.
Deny(r) ==
  /\ turn[r] = "gate" /\ ~Admissible(r) /\ Goto(r, "idle")
  /\ row' = IF row[r].status \in Active \ {"cancelling"}
            THEN [row EXCEPT ![r] = [status |-> "suspended", tag |-> Track(@.tag), wake |-> "timer"]]
            ELSE row
  /\ UNCHANGED <<ahead, starts, notices, began, faults, config>>

\* An old replica marks the run started, and looks at the scan window.
OldStart(r) ==
  /\ turn[r] = "oldstart" /\ Goto(r, "scan")
  /\ row' = [row EXCEPT ![r].status = "running"]
  /\ UNCHANGED <<ahead, starts, notices, began, faults, config>>

OldScan(r) ==
  /\ turn[r] = "scan"
  /\ IF r \in Oldest(With(Scanned), limit)
     THEN Goto(r, "body") /\ began' = began \cup {r} /\ UNCHANGED row
     ELSE /\ Goto(r, "idle") /\ UNCHANGED began
          /\ row' = IF row[r].status \in Active
                    THEN [row EXCEPT ![r].status = "suspended", ![r].wake = "timer"] ELSE row
  /\ UNCHANGED <<ahead, starts, notices, faults, config>>

-----------------------------------------------------------------------------
(* Past the gate.                                                          *)

\* The body waits for what will come: a timer, an event, or (in a fleet whose
\* replicas all count `blocked` runs) a worker it can use.
Park(r) ==
  /\ turn[r] = "body" /\ Goto(r, "idle")
  /\ IF row[r].status \in {"pending", "running", "suspended", "blocked"}
     THEN \E s \in IF mixed THEN {"suspended"} ELSE {"suspended", "blocked"} :
            row' = [row EXCEPT ![r].status = s, ![r].wake = "timer"]
     ELSE UNCHANGED row
  /\ UNCHANGED <<ahead, starts, notices, began, faults, config>>

\* Mutant: settling leaves the marker.
OverMarked(r) ==
  /\ row' = [row EXCEPT ![r].status = "over", ![r].wake = "none"]
  /\ began' = began \ {r}

\* The terminal write of a status drops the markers.
Over(r) ==
  /\ row' = [row EXCEPT ![r] = [status |-> "over", tag |-> "none", wake |-> "none"]]
  /\ began' = began \ {r}

\* wakeNext lists the oldest suspended runs of the key.
WakeNext(r) == notices' = notices \cup Oldest(With({"suspended"}) \ {r}, limit)

\* The body ends, or its undo does, and the next runs are listed.
SettleGated(r) ==
  /\ turn[r] = "body" /\ Goto(r, "idle") /\ row[r].status \in Active
  /\ Over(r) /\ WakeNext(r)
  /\ UNCHANGED <<ahead, starts, faults, config>>

\* A listed run is made due now, whatever it is by then, and dispatched.
StampWake(r) ==
  /\ r \in notices /\ notices' = notices \ {r}
  /\ row' = [row EXCEPT ![r].wake = "timer"]
  /\ UNCHANGED <<ahead, turn, starts, began, faults, config>>

-----------------------------------------------------------------------------
GateFault == ~mixed /\ faults < MaxGateFaults /\ faults' = faults + 1

\* A plain cancel writes the row while a turn may still be running.
CancelGated(r) ==
  /\ GateFault /\ row[r].status \in Active \ {"cancelling"}
  /\ Over(r) /\ WakeNext(r)
  /\ UNCHANGED <<ahead, turn, starts, config>>

\* A compensating cancel of a run that has started undoes it first.
CancelCompensating(r) ==
  /\ GateFault /\ row[r].status \in {"running", "suspended"}
  /\ row' = [row EXCEPT ![r].status = "cancelling"]
  /\ UNCHANGED <<ahead, turn, starts, notices, began, config>>

\* requeue puts a run back in line, with the place it had: a finished one, which has
\* lost its marker, or one in whatever status, which keeps it.
RequeueGated(r) ==
  /\ GateFault /\ row[r].status # "absent"
  /\ row' = [row EXCEPT ![r].status = "pending"]
  /\ UNCHANGED <<ahead, turn, starts, notices, began, config>>

\* The instance dies, or three claims in a row end in a lock conflict: the turn
\* ends and nothing is written. Listed runs are forgotten with their instance.
LoseTurn(r) ==
  /\ GateFault /\ turn[r] # "idle" /\ Goto(r, "idle")
  /\ notices' \in {notices, {}}
  /\ UNCHANGED <<row, ahead, starts, began, config>>

Claim(r) == Admit(r) \/ Deny(r)
Advance(r) == MarkStarted(r) \/ Claim(r) \/ OldStart(r) \/ OldScan(r)

GateNext ==
  \/ AssertCapacity
  \/ \E r \in Runs :
       \/ CreateRun(r) \/ DatePasses(r) \/ TakeTurn(r) \/ Advance(r) \/ Park(r) \/ SettleGated(r) \/ StampWake(r)
       \/ CancelGated(r) \/ CancelCompensating(r) \/ RequeueGated(r) \/ LoseTurn(r)

GateSpec == GateInit /\ [][GateNext]_gateVars

\* Pollers find what is due, a turn goes on, dates pass, and a body that runs
\* again and again ends.
GateFairness ==
  \A r \in Runs :
    /\ WF_gateVars(DatePasses(r)) /\ WF_gateVars(TakeTurn(r)) /\ WF_gateVars(Advance(r))
    /\ WF_gateVars(SettleGated(r) \/ Park(r)) /\ SF_gateVars(SettleGated(r))

-----------------------------------------------------------------------------
\* The engine guarantees at most `limit` runs of a key in flight, past the gate
\* and not settled, whoever claims at the same time, whatever is cancelled, lost,
\* requeued or started late.
AtMostLimit == Cardinality(Admitted) <= limit /\ (~mixed => Cardinality(began) <= limit)

\* Not so in the code (README, 7): during a rolling upgrade a new replica never admits
\* a run beside `limit` runs in flight, those an old replica admitted (by a scan that
\* may exceed it) included.
NoneBesideLegacy ==
  [][\A r \in Runs : Admit(r) /\ r \notin began => Cardinality(began') <= limit]_gateVars

\* Starts that race past the capacity check overshoot it by their number at most.
BacklogBounded ==
  faults = 0 => Cardinality(With(Active)) <= limit + MaxQueueDepth + MaxStarts - 1

\* However many runs of the key there are, all are over in the end: no marker,
\* window or lost notice keeps them waiting behind a slot that nobody holds.
GateDrains == ~mixed => <>[](With(Active) = {})

\* Not so in the code (README, 7): a slot is denied only when it is taken, or owed to an older run of the key.
DeniedOnlyWhenFull ==
  [][\A r \in Runs : Deny(r) /\ ~mixed /\ row[r].status \in Active \ {"cancelling"}
       => Cardinality(Admitted \cup {q \in With(Active) : q < r}) >= limit]_gateVars

\* Not so in the code (README, 7): a delayed start does not run before its time.
StartAtHonored == \A r \in began : ~ahead[r]
=============================================================================
