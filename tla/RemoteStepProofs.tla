-------------------------- MODULE RemoteStepProofs ---------------------------
(***************************************************************************)
(* Proofs about RemoteStep for any number of engines, retries, redispatches*)
(* and faults: that a result always finds its checkpoint, that attempts    *)
(* stay within their budget, and that the step keeps its promise as long   *)
(* as heartbeats and operator calls are prompt: then its checkpoint stays  *)
(* completed, and without redispatches each retry awaits its backoff.      *)
(***************************************************************************)
EXTENDS RemoteStep, TLAPS

-----------------------------------------------------------------------------
(* The first invariant, whatever the timing: attempts are paid for, by the *)
(* budget or by an operator's call; a step under way is in the store.      *)

Good(row, f) == /\ row \in Rows /\ row.attempts <= Budget + f
                /\ row.status = "absent" => row.attempts = 0

Paid ==
  /\ Good(cp, faults) /\ Good(read, faults)
  /\ \A a \in Asides : Good(aside[a].row, faults)
  /\ aside["operator"].at = "write" => aside["operator"].row.attempts < Budget + faults

Written ==
  /\ \A a \in Asides : aside[a].at # "idle" => aside[a].row.status = "pending" /\ cp.status # "absent"
  /\ at = "send" => cp.status # "absent"
  /\ at \in {"look", "decide"} /\ read.status # "absent" => cp.status # "absent"

StepInv == TypeOK /\ Paid /\ Written /\ ResultFindsRow

-----------------------------------------------------------------------------
(* The second, for the promise: a turn's copy of a settled step is not     *)
(* stale, and what the body was told is what the checkpoint still says.    *)

\* A prompt writer finds the step as pending as it read it.
NoLateWrite == \A a \in Asides : aside[a].at = "write" => cp.status = "pending"

SameOutcome(r, s) == r.status = s.status /\ r.attempts = s.attempts /\ r.by = s.by

FreshCopy ==
  /\ at \in {"look", "decide"} /\ read.status \in Settled => SameOutcome(read, cp)
  /\ at = "decide" /\ read.status = "absent" => cp.status = "absent"

ToldSame ==
  /\ told \in {None, Lost, OutcomeOf(cp)}
  /\ told \in {Lost, <<"failed", 0>>} => ended = "failed"
  /\ ended # "no" => at = "idle"
  /\ at \in {"look", "decide"} /\ read.status # "completed" => told = None

PromiseInv == StepInv /\ NoLateWrite /\ FreshCopy /\ ToldSame

-----------------------------------------------------------------------------
(* Facts of arithmetic, and of rows.                                       *)

LEMMA BudgetFacts ==
  /\ Budget \in Nat /\ 1 <= Budget /\ Retries \in Nat /\ Retries <= Budget
  /\ RedispatchMax \in Nat /\ RedispatchMax <= Budget
  /\ MaxFaults \in Nat /\ AttemptLimit = Budget + MaxFaults /\ AttemptLimit \in Nat
BY RemoteStepAssumption DEF Budget, AttemptLimit

LEMMA RowFields ==
  ASSUME NEW r \in Rows
  PROVE  /\ r.attempts \in 0..AttemptLimit /\ r.attempts \in Nat /\ r.by \in 0..AttemptLimit
         /\ r.wake \in Deadlines /\ r.due \in BOOLEAN
         /\ r.status \in Settled \cup {"absent", "pending"}
BY BudgetFacts DEF Rows

LEMMA GoodNoRow ==
  ASSUME NEW f \in Nat
  PROVE  /\ Good(NoRow, f) /\ NoRow.status = "absent" /\ NoRow.attempts = 0
         /\ NoRow \in Rows
BY BudgetFacts DEF Good, Rows, NoRow, Deadlines

\* Faults never give an attempt back.
LEMMA GoodStill ==
  ASSUME NEW f \in Nat, NEW g \in Nat, f <= g, NEW r, Good(r, f)
  PROVE  Good(r, g)
BY BudgetFacts, RowFields DEF Good

LEMMA GoodDeadline ==
  ASSUME NEW f \in Nat, NEW r, Good(r, f), NEW w \in Deadlines, NEW d \in BOOLEAN
  PROVE  LET s == [r EXCEPT !.wake = w, !.due = d]
         IN  Good(s, f) /\ SameOutcome(s, r)
<1>1. [r EXCEPT !.wake = w, !.due = d] \in Rows
  BY DEF Good, Rows
<1>2. SameOutcome([r EXCEPT !.wake = w, !.due = d], r)
  BY DEF Good, Rows, SameOutcome
<1> QED
  BY <1>1, <1>2 DEF Good, SameOutcome

LEMMA GoodAttempt ==
  ASSUME NEW f \in 0..MaxFaults, NEW r, Good(r, f), r.attempts < Budget + f,
         r.status # "absent", NEW w \in Deadlines, NEW d \in BOOLEAN
  PROVE  LET s == [r EXCEPT !.attempts = r.attempts + 1, !.wake = w, !.due = d]
         IN  Good(s, f) /\ s.status = r.status
<1>1. r \in Rows /\ r.attempts + 1 \in 0..AttemptLimit
  BY BudgetFacts, RowFields DEF Good
<1> DEFINE s == [r EXCEPT !.attempts = r.attempts + 1, !.wake = w, !.due = d]
<1>2. s \in Rows /\ s.attempts = r.attempts + 1 /\ s.status = r.status
  BY <1>1 DEF Rows
<1> QED
  BY <1>1, <1>2, BudgetFacts, RowFields DEF Good

LEMMA GoodReattempt ==
  ASSUME NEW f \in 0..MaxFaults, NEW r, Good(r, f), r.attempts < Budget + f,
         r.status # "absent"
  PROVE  LET s == [r EXCEPT !.attempts = r.attempts + 1]
         IN  Good(s, f) /\ s.status = r.status
<1>1. r \in Rows /\ r.attempts + 1 \in 0..AttemptLimit
  BY BudgetFacts, RowFields DEF Good
<1> DEFINE s == [r EXCEPT !.attempts = r.attempts + 1]
<1>2. s \in Rows /\ s.attempts = r.attempts + 1 /\ s.status = r.status
  BY <1>1 DEF Rows
<1> QED
  BY <1>1, <1>2, BudgetFacts, RowFields DEF Good

LEMMA GoodPending ==
  ASSUME NEW f \in Nat, NEW n \in 1..Budget
  PROVE  Good(Pending(n), f) /\ Pending(n).status = "pending" /\ Pending(n).attempts = n
<1>1. NoRow \in Rows /\ n \in 0..AttemptLimit
  BY GoodNoRow, BudgetFacts
<1>2. Pending(n) \in Rows /\ Pending(n).status = "pending" /\ Pending(n).attempts = n
  BY <1>1 DEF Pending, Rows
<1> QED
  BY <1>2, BudgetFacts DEF Good

\* A step of the heartbeat or of the operator's call.
LEMMA AsideStep ==
  ASSUME TypeOK, NEW a \in Asides, NEW w \in {"idle", "write", "send"}, NEW r \in Rows,
         Step(a, w, r)
  PROVE  /\ aside' \in [Asides -> [at : {"idle", "write", "send"}, row : Rows]]
         /\ aside'[a].at = w /\ aside'[a].row = r
         /\ \A x \in Asides \ {a} : aside'[x] = aside[x]
BY DEF TypeOK, Step

\* The bounds hold all the more when faults only grow.
LEMMA PaidStill ==
  ASSUME TypeOK, Paid, faults' \in 0..MaxFaults, faults <= faults'
  PROVE  /\ Good(cp, faults') /\ Good(read, faults')
         /\ \A a \in Asides : Good(aside[a].row, faults')
         /\ aside["operator"].at = "write" => aside["operator"].row.attempts < Budget + faults'
<1>1. faults \in Nat /\ faults' \in Nat
  BY BudgetFacts DEF TypeOK
<1>2. Good(cp, faults') /\ Good(read, faults')
  BY <1>1, GoodStill DEF Paid
<1>3. \A a \in Asides : Good(aside[a].row, faults')
  BY <1>1, GoodStill DEF Paid
<1>4. aside["operator"].row.attempts \in Nat
  BY RowFields DEF Paid, Good, Asides
<1> QED
  BY <1>1, <1>2, <1>3, <1>4, BudgetFacts DEF Paid

LEMMA FaultBound ==
  ASSUME TypeOK, Fault
  PROVE  faults' \in 0..MaxFaults /\ faults <= faults'
BY BudgetFacts DEF TypeOK, Fault

\* An engine is done with a result, which was delivered.
LEMMA DoneStep ==
  ASSUME TypeOK, NEW e \in Engines, Done(e)
  PROVE  /\ con' \in [Engines -> [at : {"idle", "check", "settle"}, res : Results]]
         /\ results' \subseteq results
         /\ faults' \in 0..MaxFaults /\ faults <= faults'
<1>1. NoResult \in [at : {"idle", "check", "settle"}, res : Results]
  BY BudgetFacts DEF NoResult, Results, Settled
<1>2. con' \in [Engines -> [at : {"idle", "check", "settle"}, res : Results]]
  BY <1>1 DEF TypeOK, Done
<1>3. results' \subseteq results
  BY DEF Done
<1>4. faults' \in 0..MaxFaults /\ faults <= faults'
  BY FaultBound, BudgetFacts DEF Done, TypeOK
<1> QED
  BY <1>2, <1>3, <1>4

LEMMA StepInvInit == Init => StepInv
<1> SUFFICES ASSUME Init PROVE StepInv
  OBVIOUS
<1>1. NoRow \in Rows /\ NoRow.status = "absent" /\ faults = 0 /\ 0 \in Nat /\ Good(NoRow, 0)
  BY GoodNoRow DEF Init
<1>2. NoResult \in [at : {"idle", "check", "settle"}, res : Results]
  BY BudgetFacts DEF NoResult, Results, Settled
<1>3. TypeOK
  BY <1>1, <1>2, BudgetFacts DEF TypeOK, Init
<1>4. Paid
  BY <1>1 DEF Paid, Init, Asides
<1>5. Written /\ ResultFindsRow
  BY DEF Written, ResultFindsRow, Init
<1> QED
  BY <1>3, <1>4, <1>5 DEF StepInv

\* What a step of the turn has to show.
TurnKeeps ==
  /\ UNCHANGED <<results, con, aside, faults>>
  /\ Good(cp', faults) /\ Good(read', faults)
  /\ ended' \in {"no", "completed", "failed"} /\ at' \in {"idle", "look", "decide", "send"}
  /\ tasks' \subseteq 0..AttemptLimit /\ told' \in Outcomes \cup {None, Lost}
  /\ cp'.status = "absent" => cp.status = "absent" /\ at' # "send" /\ tasks' = tasks
  /\ at' \in {"look", "decide"} /\ read'.status # "absent" => cp'.status # "absent"

LEMMA TurnKept ==
  ASSUME StepInv, TurnKeeps
  PROVE  StepInv'
<1>1. TypeOK'
  BY DEF StepInv, TypeOK, TurnKeeps, Good
<1>2. Paid'
  BY DEF StepInv, Paid, TurnKeeps
<1>3. Written' /\ ResultFindsRow'
  BY DEF StepInv, Written, ResultFindsRow, TurnKeeps
<1> QED
  BY <1>1, <1>2, <1>3 DEF StepInv

LEMMA TurnStep ==
  ASSUME StepInv, BeginTurn \/ Call \/ DeadlinePasses
  PROVE  StepInv'
<1> USE DEF turn, net, hist
<1>1. /\ Good(cp, faults) /\ Good(read, faults) /\ Good(NoRow, faults)
      /\ faults \in Nat /\ faults \in 0..MaxFaults /\ cp \in Rows /\ read \in Rows
  BY GoodNoRow, BudgetFacts DEF StepInv, TypeOK, Paid
<1>2. /\ at = "send" => cp.status # "absent"
      /\ at \in {"look", "decide"} /\ read.status # "absent" => cp.status # "absent"
  BY DEF StepInv, Written
<1>3. /\ ended \in {"no", "completed", "failed"} /\ at \in {"idle", "look", "decide", "send"}
      /\ tasks \subseteq 0..AttemptLimit /\ told \in Outcomes \cup {None, Lost}
  BY DEF StepInv, TypeOK
<1>4. read.attempts \in Nat /\ read.attempts \in 0..AttemptLimit /\ read.by \in 0..AttemptLimit
  BY <1>1, RowFields
<1>5. CASE BeginTurn
  BY <1>1, <1>2, <1>3, <1>5, TurnKept DEF BeginTurn, TurnKeeps
<1>6. CASE Look
  BY <1>1, <1>2, <1>3, <1>6, TurnKept DEF Look, TurnKeeps, Settled
<1>7. CASE Return
  <2>1. <<"completed", read.by>> \in Outcomes
    BY <1>4 DEF Outcomes
  <2> QED
    BY <2>1, <1>1, <1>2, <1>3, <1>7, TurnKept DEF Return, Suspend, TurnKeeps
<1>8. CASE Throw
  <2>1. <<"failed", 0>> \in Outcomes
    BY DEF Outcomes
  <2> QED
    BY <2>1, <1>1, <1>2, <1>3, <1>8, TurnKept DEF Throw, Suspend, TurnKeeps
<1>9. CASE StampBackoff
  <2> DEFINE row == [read EXCEPT !.wake = "backoff", !.due = FALSE]
  <2>1. Good(row, faults) /\ row.status = read.status
    BY <1>1, GoodDeadline DEF Deadlines, SameOutcome
  <2>2. cp' = row /\ row.status = "failed"
    BY <2>1, <1>9 DEF StampBackoff, Retrying
  <2> QED
    BY <2>1, <2>2, <1>1, <1>3, <1>9, TurnKept DEF StampBackoff, Suspend, TurnKeeps
<1>10. CASE Await
  BY <1>1, <1>2, <1>3, <1>10, TurnKept DEF Await, Suspend, TurnKeeps
<1>11. CASE PersistPending
  <2>1. read.attempts + 1 \in 1..Budget
    BY <1>1, <1>4, <1>11, BudgetFacts DEF PersistPending, Retrying, FailedForGood, Good
  <2>2. Good(Pending(read.attempts + 1), faults) /\ Pending(read.attempts + 1).status = "pending"
    BY <2>1, <1>1, GoodPending
  <2> QED
    BY <2>2, <1>3, <1>11, TurnKept DEF PersistPending, Sending, TurnKeeps
<1>12. CASE Send
  BY <1>1, <1>2, <1>3, <1>4, <1>12, TurnKept DEF Send, Suspend, TurnKeeps
<1>13. CASE StampLease
  <2> DEFINE row == [read EXCEPT !.wake = "lease", !.due = FALSE]
  <2>1. Good(row, faults) /\ row.status = "pending"
    BY <1>1, <1>13, GoodDeadline DEF Deadlines, SameOutcome, StampLease
  <2>2. /\ at = "decide" /\ read.status = "pending" /\ SavePending(row, Suspend)
        /\ UNCHANGED <<ended, tasks, results, con, aside, told, faults>>
    BY <1>13 DEF StampLease
  <2>3. CASE cp.status = "pending"
    <3>1. cp' = row /\ at' = "idle" /\ read' = NoRow
      BY <2>2, <2>3 DEF SavePending, Suspend
    <3> QED
      BY <3>1, <2>1, <2>2, <1>1, <1>3, TurnKept DEF TurnKeeps
  <2>4. CASE cp.status # "pending"
    BY <2>2, <2>4, <1>1, <1>2, <1>3, TurnKept DEF SavePending, TurnKeeps
  <2> QED
    BY <2>3, <2>4
<1>14. CASE Redispatch
  <2> DEFINE row == [read EXCEPT !.attempts = read.attempts + 1, !.wake = "lease", !.due = FALSE]
  <2>1. read.attempts < Budget + faults /\ read.status = "pending"
    BY <1>1, <1>4, <1>14, BudgetFacts DEF Redispatch, Overdue
  <2>2. Good(row, faults) /\ row.status = "pending"
    BY <1>1, <2>1, GoodAttempt DEF Deadlines
  <2>3. /\ at = "decide" /\ read.status = "pending" /\ SavePending(row, Sending(row))
        /\ UNCHANGED <<ended, tasks, results, con, aside, told, faults>>
    BY <1>14 DEF Redispatch, Overdue
  <2>4. CASE cp.status = "pending"
    <3>1. cp' = row /\ at' = "send" /\ read' = row
      BY <2>3, <2>4 DEF SavePending, Sending
    <3> QED
      BY <3>1, <2>2, <2>3, <1>3, TurnKept DEF TurnKeeps
  <2>5. CASE cp.status # "pending"
    BY <2>3, <2>5, <1>1, <1>2, <1>3, TurnKept DEF SavePending, TurnKeeps
  <2> QED
    BY <2>4, <2>5
<1>15. CASE GiveUp
  BY <1>1, <1>2, <1>3, <1>15, TurnKept DEF GiveUp, Suspend, TurnKeeps
<1>16. CASE DeadlinePasses
  <2>1. cp' = [cp EXCEPT !.wake = cp.wake, !.due = TRUE] /\ cp.wake \in Deadlines
    BY <1>1, <1>16, RowFields DEF DeadlinePasses, Rows
  <2>2. Good(cp', faults) /\ cp'.status = cp.status
    BY <2>1, <1>1, GoodDeadline DEF SameOutcome
  <2> QED
    BY <2>2, <1>1, <1>2, <1>3, <1>16, TurnKept DEF DeadlinePasses, TurnKeeps
<1> QED
  BY <1>5, <1>6, <1>7, <1>8, <1>9, <1>10, <1>11, <1>12, <1>13, <1>14, <1>15, <1>16 DEF Call

\* What a step of the workers, the transport or the consumers has to show.
NetKeeps ==
  /\ UNCHANGED <<ended, at, read, aside, told>>
  /\ faults' \in 0..MaxFaults /\ faults <= faults' /\ Good(cp', faults')
  /\ tasks' \subseteq tasks /\ results' \subseteq Results
  /\ con' \in [Engines -> [at : {"idle", "check", "settle"}, res : Results]]
  /\ cp'.status = "absent" <=> cp.status = "absent"
  /\ tasks' # {} \/ results' # {} => tasks # {} \/ results # {}

LEMMA NetKept ==
  ASSUME StepInv, NetKeeps
  PROVE  StepInv'
<1>1. TypeOK'
  BY DEF StepInv, TypeOK, NetKeeps, Good
<1>2. Paid'
  BY PaidStill DEF StepInv, Paid, NetKeeps
<1>3. Written' /\ ResultFindsRow'
  BY DEF StepInv, Written, ResultFindsRow, NetKeeps
<1> QED
  BY <1>1, <1>2, <1>3 DEF StepInv

LEMMA NetStep ==
  ASSUME StepInv,
         \/ \E n \in tasks : Execute(n) \/ ExecuteUnacknowledged(n) \/ LoseTask(n)
         \/ \E r \in results : Discard(r)
         \/ \E e \in Engines : Consume(e) \/ CrashConsumer(e)
  PROVE  StepInv'
<1> USE DEF turn, net, hist
<1>1. /\ TypeOK /\ Paid /\ faults \in 0..MaxFaults /\ faults \in Nat /\ faults <= faults
      /\ tasks \subseteq 0..AttemptLimit /\ results \subseteq Results
      /\ con \in [Engines -> [at : {"idle", "check", "settle"}, res : Results]]
      /\ NoResult \in [at : {"idle", "check", "settle"}, res : Results]
  BY BudgetFacts DEF StepInv, TypeOK, NoResult, Results, Settled
<1>2. ASSUME NEW n \in tasks, Execute(n) \/ ExecuteUnacknowledged(n) \/ LoseTask(n)
      PROVE  StepInv'
  <2>1. \A s \in Settled : [status |-> s, by |-> n] \in Results
    BY <1>1 DEF Results
  <2>2. Fault => faults' \in 0..MaxFaults /\ faults <= faults'
    BY <1>1, FaultBound
  <2>3. faults' \in 0..MaxFaults /\ faults <= faults'
    BY <2>2, <1>1, <1>2 DEF Execute, ExecuteUnacknowledged, LoseTask
  <2>4. Good(cp, faults')
    BY <2>3, <1>1, PaidStill
  <2> QED
    BY <2>1, <2>3, <2>4, <1>1, <1>2, NetKept
       DEF Execute, ExecuteUnacknowledged, LoseTask, NetKeeps
<1>3. ASSUME NEW r \in results, Discard(r)
      PROVE  StepInv'
  BY <1>1, <1>3, NetKept DEF Discard, NetKeeps, Paid
<1>4. ASSUME NEW e \in Engines, Receive(e)
      PROVE  StepInv'
  <2>1. con' \in [Engines -> [at : {"idle", "check", "settle"}, res : Results]]
    BY <1>1, <1>4 DEF Receive
  <2> QED
    BY <2>1, <1>1, <1>4, NetKept DEF Receive, NetKeeps, Paid
<1>5. ASSUME NEW e \in Engines, CheckRun(e)
      PROVE  StepInv'
  <2>1. CASE Done(e)
    <3>1. /\ con' \in [Engines -> [at : {"idle", "check", "settle"}, res : Results]]
          /\ results' \subseteq results /\ faults' \in 0..MaxFaults /\ faults <= faults'
      BY <2>1, <1>1, DoneStep
    <3>2. Good(cp, faults')
      BY <3>1, <1>1, PaidStill
    <3> QED
      BY <3>1, <3>2, <1>1, <1>5, NetKept DEF CheckRun, NetKeeps
  <2>2. CASE con' = [con EXCEPT ![e].at = "settle"] /\ UNCHANGED <<results, faults>>
    <3>1. con' \in [Engines -> [at : {"idle", "check", "settle"}, res : Results]]
      BY <2>2, <1>1
    <3> QED
      BY <3>1, <2>2, <1>1, <1>5, NetKept DEF CheckRun, NetKeeps, Paid
  <2> QED
    BY <2>1, <2>2, <1>5 DEF CheckRun
<1>6. ASSUME NEW e \in Engines, Settle(e)
      PROVE  StepInv'
  <2>1. /\ con' \in [Engines -> [at : {"idle", "check", "settle"}, res : Results]]
        /\ results' \subseteq results /\ faults' \in 0..MaxFaults /\ faults <= faults'
    BY <1>1, <1>6, DoneStep DEF Settle
  <2>2. Good(cp, faults') /\ faults' \in Nat
    BY <2>1, <1>1, PaidStill, BudgetFacts
  <2>3. con[e].res.status \in Settled /\ con[e].res.by \in 0..AttemptLimit /\ cp.by \in 0..AttemptLimit
    BY <1>1, <2>2, RowFields DEF Results, Good
  <2>4. Good(SettledBy(con[e].res), faults') /\ SettledBy(con[e].res).status \in Settled
    <3>1. cp \in Rows
      BY <2>2 DEF Good
    <3>2. /\ SettledBy(con[e].res) \in Rows
          /\ SettledBy(con[e].res).attempts = cp.attempts
          /\ SettledBy(con[e].res).status = con[e].res.status
      BY <3>1, <2>3 DEF SettledBy, Rows
    <3>3. con[e].res.status # "absent"
      BY <2>3 DEF Settled
    <3> QED
      BY <3>2, <3>3, <2>2, <2>3 DEF Good
  <2>5. Good(cp', faults') /\ (cp'.status = "absent" <=> cp.status = "absent")
    BY <2>2, <2>4, <1>6 DEF Settle, Settled
  <2> QED
    BY <2>1, <2>5, <1>1, <1>6, NetKept DEF Settle, NetKeeps
<1>7. ASSUME NEW e \in Engines, CrashConsumer(e)
      PROVE  StepInv'
  <2>1. faults' \in 0..MaxFaults /\ faults <= faults'
    BY <1>1, <1>7, FaultBound DEF CrashConsumer
  <2>2. Good(cp, faults')
    BY <2>1, <1>1, PaidStill
  <2>3. con' \in [Engines -> [at : {"idle", "check", "settle"}, res : Results]]
    BY <1>1, <1>7 DEF CrashConsumer
  <2> QED
    BY <2>1, <2>2, <2>3, <1>1, <1>7, NetKept DEF CrashConsumer, NetKeeps
<1> QED
  BY <1>2, <1>3, <1>4, <1>5, <1>6, <1>7 DEF Consume

\* What a step of the heartbeat, of the operator or a crash has to show.
AsideKeeps ==
  /\ UNCHANGED <<ended, results, con, told>>
  /\ faults' \in 0..MaxFaults /\ faults <= faults' /\ Good(cp', faults')
  /\ \/ UNCHANGED <<at, read>>
     \/ at' = "idle" /\ read' = NoRow
  /\ tasks' \subseteq 0..AttemptLimit
  /\ cp'.status = "absent" => cp.status = "absent" /\ tasks' = tasks

\* What is said of the heartbeat's and of the operator's copies.
AsideGood(f) ==
  /\ aside \in [Asides -> [at : {"idle", "write", "send"}, row : Rows]]
  /\ \A a \in Asides : Good(aside[a].row, f)
  /\ aside["operator"].at = "write" => aside["operator"].row.attempts < Budget + f
  /\ \A a \in Asides : aside[a].at # "idle" => aside[a].row.status = "pending" /\ cp.status # "absent"

LEMMA AsideKept ==
  ASSUME StepInv, AsideKeeps, AsideGood(faults)'
  PROVE  StepInv'
<1>1. /\ TypeOK /\ Paid /\ Good(NoRow, faults') /\ NoRow \in Rows /\ NoRow.status = "absent"
  BY GoodNoRow, BudgetFacts DEF StepInv, AsideKeeps
<1>2. Good(read, faults')
  BY <1>1, PaidStill DEF AsideKeeps
<1>3. TypeOK'
  BY <1>1 DEF TypeOK, AsideKeeps, AsideGood, Good
<1>4. Paid'
  BY <1>1, <1>2 DEF Paid, AsideKeeps, AsideGood
<1>5. Written' /\ ResultFindsRow'
  BY DEF StepInv, Written, ResultFindsRow, AsideKeeps, AsideGood
<1> QED
  BY <1>3, <1>4, <1>5 DEF StepInv

LEMMA AsideMoves ==
  ASSUME StepInv, faults' \in 0..MaxFaults, faults <= faults',
         NEW a \in Asides, NEW w \in {"idle", "write", "send"}, NEW r, Step(a, w, r),
         Good(r, faults'),
         a = "operator" /\ w = "write" => r.attempts < Budget + faults',
         w # "idle" => r.status = "pending",
         cp'.status = "absent" => cp.status = "absent" /\ w = "idle"
  PROVE  AsideGood(faults)'
<1>1. TypeOK /\ Paid /\ r \in Rows
  BY DEF StepInv, Good
<1>2. /\ aside' \in [Asides -> [at : {"idle", "write", "send"}, row : Rows]]
      /\ aside'[a].at = w /\ aside'[a].row = r
      /\ \A x \in Asides \ {a} : aside'[x] = aside[x]
  BY <1>1, AsideStep
<1>3. \A x \in Asides : Good(aside'[x].row, faults')
  BY <1>1, <1>2, PaidStill
<1>4. aside'["operator"].at = "write" => aside'["operator"].row.attempts < Budget + faults'
  BY <1>1, <1>2, PaidStill DEF Asides
<1>5. \A x \in Asides :
        aside'[x].at # "idle" => aside'[x].row.status = "pending" /\ cp'.status # "absent"
  BY <1>2 DEF StepInv, Written
<1> QED
  BY <1>2, <1>3, <1>4, <1>5 DEF AsideGood

LEMMA AsidesStill ==
  ASSUME StepInv, faults' \in 0..MaxFaults, faults <= faults', UNCHANGED <<aside, cp>>
  PROVE  AsideGood(faults)'
<1>1. TypeOK /\ Paid
  BY DEF StepInv
<1> QED
  BY <1>1, PaidStill DEF AsideGood, StepInv, Written, TypeOK

LEMMA AsideStepInv ==
  ASSUME StepInv, Beat \/ ListPending \/ Write \/ CrashTurn \/ \E a \in Asides : CrashAside(a)
  PROVE  StepInv'
<1> USE DEF turn, net, hist
<1>1. /\ TypeOK /\ Paid /\ faults \in 0..MaxFaults /\ faults \in Nat /\ faults <= faults
      /\ Good(cp, faults) /\ Good(NoRow, faults) /\ cp \in Rows /\ tasks \subseteq 0..AttemptLimit
      /\ "beat" \in Asides /\ "operator" \in Asides
      /\ at' = at => at' \in {"idle", "look", "decide", "send"}
  BY GoodNoRow, BudgetFacts DEF StepInv, TypeOK, Paid, Asides
<1>2. \A a \in Asides : /\ Good(aside[a].row, faults)
                        /\ aside[a].at # "idle" => aside[a].row.status = "pending" /\ cp.status # "absent"
  BY DEF StepInv, Paid, Written
<1>3. CASE Beat
  <2>1. AsideGood(faults)'
    BY <1>1, <1>3, AsideMoves DEF Beat
  <2> QED
    BY <2>1, <1>1, <1>3, AsideKept DEF Beat, AsideKeeps
<1>4. CASE RearmLease
  <2> DEFINE row == [aside["beat"].row EXCEPT !.wake = "lease", !.due = FALSE]
  <2>1. Good(row, faults) /\ row.status = "pending"
    BY <1>1, <1>2, <1>4, GoodDeadline DEF RearmLease, Deadlines, SameOutcome
  <2>2. cp' = row /\ UNCHANGED <<ended, at, read, tasks, results, con, told, faults>>
    BY <1>4 DEF RearmLease
  <2>3. AsideGood(faults)'
    BY <2>1, <2>2, <1>1, <1>4, AsideMoves DEF RearmLease
  <2> QED
    BY <2>1, <2>2, <2>3, <1>1, AsideKept DEF AsideKeeps
<1>5. CASE ListPending
  <2>1. faults' = faults + 1 /\ faults' \in 0..MaxFaults /\ faults <= faults' /\ Good(cp, faults')
    BY <1>1, <1>5, FaultBound, PaidStill DEF ListPending, Fault
  <2>2. cp.attempts < Budget + faults'
    BY <2>1, <1>1, RowFields, BudgetFacts DEF Good
  <2>3. AsideGood(faults)'
    BY <2>1, <2>2, <1>1, <1>5, AsideMoves DEF ListPending
  <2> QED
    BY <2>1, <2>3, <1>1, <1>5, AsideKept DEF ListPending, AsideKeeps
<1>6. CASE Reattempt
  <2> DEFINE old == aside["operator"].row
             row == [old EXCEPT !.attempts = old.attempts + 1]
  <2>1. Good(old, faults) /\ old.status = "pending" /\ old.attempts < Budget + faults
    BY <1>1, <1>2, <1>6 DEF Reattempt, Paid
  <2>2. Good(row, faults) /\ row.status = "pending"
    BY <2>1, <1>1, GoodReattempt
  <2>3. cp' = row /\ Step("operator", "send", row) /\ UNCHANGED <<ended, at, read, tasks, results, con, told, faults>>
    BY <1>6 DEF Reattempt
  <2> HIDE DEF row
  <2>4. AsideGood(faults)'
    BY <2>2, <2>3, <1>1, AsideMoves
  <2> QED
    BY <2>2, <2>3, <2>4, <1>1, AsideKept DEF AsideKeeps
<1>7. CASE Resend
  <2>1. aside["operator"].row.attempts \in 0..AttemptLimit
    BY <1>1, <1>2, RowFields DEF Good
  <2>2. AsideGood(faults)'
    BY <1>1, <1>7, AsideMoves DEF Resend
  <2> QED
    BY <2>1, <2>2, <1>1, <1>2, <1>7, AsideKept DEF Resend, AsideKeeps
<1>8. CASE CrashTurn
  <2>1. faults' \in 0..MaxFaults /\ faults <= faults' /\ Good(cp, faults')
    BY <1>1, <1>8, FaultBound, PaidStill DEF CrashTurn
  <2>2. AsideGood(faults)'
    BY <2>1, <1>8, AsidesStill DEF CrashTurn
  <2> QED
    BY <2>1, <2>2, <1>1, <1>8, AsideKept DEF CrashTurn, Suspend, AsideKeeps
<1>9. ASSUME NEW a \in Asides, CrashAside(a)
      PROVE  StepInv'
  <2>1. faults' \in 0..MaxFaults /\ faults <= faults' /\ Good(cp, faults')
    BY <1>1, <1>9, FaultBound, PaidStill DEF CrashAside
  <2>2. Good(NoRow, faults')
    BY <2>1, GoodNoRow, BudgetFacts
  <2>3. AsideGood(faults)'
    BY <2>1, <2>2, <1>1, <1>9, AsideMoves DEF CrashAside
  <2> QED
    BY <2>1, <2>3, <1>1, <1>9, AsideKept DEF CrashAside, AsideKeeps
<1> QED
  BY <1>3, <1>4, <1>5, <1>6, <1>7, <1>8, <1>9 DEF Write

LEMMA StepInvNext ==
  ASSUME StepInv, [Next]_vars
  PROVE  StepInv'
<1>1. CASE UNCHANGED vars
  BY <1>1 DEF vars, turn, net, hist, StepInv, TypeOK, Paid, Written, ResultFindsRow
<1>2. CASE Next
  BY <1>2, TurnStep, NetStep, AsideStepInv DEF Next
<1> QED
  BY <1>1, <1>2

THEOREM StepInvariant == Spec => []StepInv
<1>1. Init => StepInv
  BY StepInvInit
<1>2. StepInv /\ [Next]_vars => StepInv'
  BY StepInvNext
<1> QED
  BY <1>1, <1>2, PTL DEF Spec

-----------------------------------------------------------------------------
(* The promise.                                                            *)

LEMMA OutcomeFacts ==
  ASSUME NEW r
  PROVE  /\ r.status \in {"absent", "pending"} => OutcomeOf(r) = None
         /\ r.status = "completed" => OutcomeOf(r) = <<"completed", r.by>>
         /\ FailedForGood(r) => OutcomeOf(r) = <<"failed", 0>>
         /\ r.status = "failed" /\ ~FailedForGood(r) => OutcomeOf(r) = None
BY DEF OutcomeOf, FailedForGood

LEMMA OutcomesDiffer ==
  /\ None # Lost /\ None # <<"failed", 0>> /\ Lost # <<"failed", 0>>
  /\ \A n : <<"completed", n>> # None /\ <<"completed", n>> # Lost
            /\ <<"completed", n>> # <<"failed", 0>>
  /\ None \notin Outcomes /\ <<"failed", 0>> \in Outcomes
  /\ \A n \in 0..AttemptLimit : <<"completed", n>> \in Outcomes
BY DEF None, Lost, Outcomes

LEMMA RowOutcome ==
  ASSUME NEW r \in Rows
  PROVE  /\ OutcomeOf(r) \in Outcomes \cup {None}
         /\ r.status # "completed" => OutcomeOf(r) \in {None, <<"failed", 0>>}
<1>1. r.by \in 0..AttemptLimit /\ r.status \in Settled \cup {"absent", "pending"}
  BY RowFields
<1>2. CASE r.status = "completed"
  BY <1>1, <1>2, OutcomeFacts, OutcomesDiffer
<1>3. CASE r.status # "completed"
  <2>1. r.status \in {"absent", "pending"} \/ FailedForGood(r) \/ (r.status = "failed" /\ ~FailedForGood(r))
    BY <1>1, <1>3 DEF Settled, FailedForGood
  <2> QED
    BY <2>1, <1>3, OutcomeFacts, OutcomesDiffer
<1> QED
  BY <1>2, <1>3

LEMMA SameOutcomes ==
  ASSUME NEW r, NEW s, SameOutcome(r, s)
  PROVE  OutcomeOf(r) = OutcomeOf(s) /\ (FailedForGood(r) <=> FailedForGood(s))
BY DEF SameOutcome, OutcomeOf, FailedForGood

\* What every step has to show.
Keeps == /\ NoLateWrite' /\ FreshCopy' /\ ToldSame'
         /\ [Promise!Next]_<<OutcomeOf(cp), told>>

\* A copy stays fresh when what it copies does, or is pending.
LEMMA CopyStill ==
  ASSUME PromiseInv, UNCHANGED <<at, read>> \/ at' \in {"idle", "send"},
         SameOutcome(cp', cp) \/ cp.status = "pending"
  PROVE  FreshCopy'
BY DEF PromiseInv, FreshCopy, SameOutcome, Settled

LEMMA WriteStill ==
  ASSUME PromiseInv,
         \A a \in Asides : aside'[a].at = "write" => aside[a].at = "write" \/ cp'.status = "pending",
         cp.status = "pending" => cp'.status = "pending"
  PROVE  NoLateWrite'
BY DEF PromiseInv, NoLateWrite

LEMMA NobodyWrites ==
  ASSUME Prompt, Free, NEW a \in Asides
  PROVE  aside[a].at # "write"
BY DEF Free

\* A step that neither settles the step nor tells the body.
LEMMA Unheard ==
  ASSUME PromiseInv, UNCHANGED <<told, ended>>, OutcomeOf(cp') = OutcomeOf(cp),
         at' # "idle" => ended = "no",
         at' \in {"look", "decide"} /\ read'.status # "completed" => told = None
  PROVE  ToldSame' /\ [Promise!Next]_<<OutcomeOf(cp), told>>
BY DEF PromiseInv, ToldSame

\* ... nor moves the turn.
LEMMA UnheardBeside ==
  ASSUME PromiseInv, UNCHANGED <<told, ended>>, OutcomeOf(cp') = OutcomeOf(cp),
         UNCHANGED <<at, read>> \/ at' = "idle" \/ (at' = "send" /\ at # "idle")
  PROVE  ToldSame' /\ [Promise!Next]_<<OutcomeOf(cp), told>>
BY Unheard DEF PromiseInv, ToldSame

LEMMA RowSame ==
  ASSUME NEW r, NEW s, r = s
  PROVE  SameOutcome(r, s)
BY DEF SameOutcome

LEMMA TurnPromise ==
  ASSUME Prompt, PromiseInv, BeginTurn \/ Call \/ DeadlinePasses
  PROVE  Keeps
<1> USE DEF turn, net, hist
<1>1. /\ cp \in Rows /\ read \in Rows /\ StepInv
      /\ Good(cp, faults) /\ Good(read, faults) /\ faults \in Nat
      /\ OutcomeOf(cp) \in Outcomes \cup {None}
      /\ told \in {None, Lost, OutcomeOf(cp)}
      /\ told \in {Lost, <<"failed", 0>>} => ended = "failed"
      /\ ended # "no" => at = "idle"
      /\ at \in {"look", "decide"} /\ read.status # "completed" => told = None
  BY RowOutcome, BudgetFacts DEF PromiseInv, StepInv, TypeOK, Paid, ToldSame
<1>2. /\ at \in {"look", "decide"} /\ read.status \in Settled => SameOutcome(read, cp)
      /\ at = "decide" /\ read.status = "absent" => cp.status = "absent"
  BY DEF PromiseInv, FreshCopy
<1>3. SameOutcome(cp, cp)
  BY RowSame
<1>4. NoLateWrite
  BY DEF PromiseInv
<1>5. CASE BeginTurn
  <2>1. NoLateWrite'
    BY <1>4, <1>5 DEF BeginTurn, NoLateWrite
  <2>2. FreshCopy'
    BY <1>3, <1>5 DEF BeginTurn, FreshCopy
  <2>3. cp.status # "completed" => told = None
    BY <1>1, <1>5, RowOutcome, OutcomesDiffer DEF BeginTurn
  <2>4. ToldSame' /\ [Promise!Next]_<<OutcomeOf(cp), told>>
    BY <2>3, <1>5, Unheard DEF BeginTurn
  <2> QED
    BY <2>1, <2>2, <2>4 DEF Keeps
<1>6. CASE Look
  <2>1. NoLateWrite'
    BY <1>4, <1>6 DEF Look, NoLateWrite
  <2>2. FreshCopy'
    BY <1>2, <1>3, <1>6 DEF Look, FreshCopy, Settled
  <2>3. ToldSame' /\ [Promise!Next]_<<OutcomeOf(cp), told>>
    BY <1>1, <1>6, Unheard DEF Look, Settled
  <2> QED
    BY <2>1, <2>2, <2>3 DEF Keeps
<1>7. CASE Return
  <2>1. NoLateWrite' /\ FreshCopy'
    BY <1>3, <1>4, <1>7, CopyStill DEF Return, Suspend, NoLateWrite
  <2>2. OutcomeOf(cp) = <<"completed", read.by>> /\ <<"completed", read.by>> \in Outcomes
    BY <1>1, <1>2, <1>7, SameOutcomes, OutcomeFacts, OutcomesDiffer, RowFields DEF Return, Settled
  <2>3. told = None \/ told = OutcomeOf(cp)
    BY <1>1, <1>7 DEF Return
  <2>4. ToldSame'
    BY <2>2, <1>7, OutcomesDiffer DEF Return, Suspend, ToldSame
  <2>5. [Promise!Next]_<<OutcomeOf(cp), told>>
    BY <2>2, <2>3, <1>7 DEF Return, Promise!Next, Promise!Tell
  <2> QED
    BY <2>1, <2>4, <2>5 DEF Keeps
<1>8. CASE Throw
  <2>1. NoLateWrite' /\ FreshCopy'
    BY <1>3, <1>4, <1>8, CopyStill DEF Throw, Suspend, NoLateWrite
  <2>2. OutcomeOf(cp) = <<"failed", 0>> /\ <<"failed", 0>> \in Outcomes /\ told = None
    BY <1>1, <1>2, <1>8, SameOutcomes, OutcomeFacts, OutcomesDiffer
       DEF Throw, Settled, FailedForGood
  <2>3. ToldSame'
    BY <2>2, <1>8 DEF Throw, Suspend, ToldSame
  <2>4. [Promise!Next]_<<OutcomeOf(cp), told>>
    BY <2>2, <1>8 DEF Throw, Promise!Next, Promise!Tell
  <2> QED
    BY <2>1, <2>3, <2>4 DEF Keeps
<1>9. CASE StampBackoff
  <2>1. /\ at = "decide" /\ at' = "idle" /\ Free /\ read.status = "failed" /\ SameOutcome(read, cp)
        /\ UNCHANGED <<ended, told, aside>>
    BY <1>2, <1>9 DEF StampBackoff, Retrying, Settled, Suspend
  <2>2. cp' = [read EXCEPT !.wake = "backoff", !.due = FALSE]
    BY <1>9 DEF StampBackoff
  <2>3. SameOutcome(cp', read)
    BY <2>2, <1>1, GoodDeadline DEF Deadlines
  <2>4. SameOutcome(cp', cp) /\ OutcomeOf(cp') = OutcomeOf(cp)
    BY <2>1, <2>3, SameOutcomes DEF SameOutcome
  <2>5. NoLateWrite'
    BY <2>1, NobodyWrites DEF NoLateWrite
  <2> QED
    BY <2>1, <2>4, <2>5, CopyStill, UnheardBeside DEF Keeps
<1>10. CASE Await
  <2>1. NoLateWrite' /\ FreshCopy'
    BY <1>3, <1>4, <1>10, CopyStill DEF Await, Suspend, NoLateWrite
  <2> QED
    BY <2>1, <1>10, UnheardBeside DEF Await, Suspend, Keeps
<1>11. CASE PersistPending
  <2>1. read.attempts + 1 \in 1..Budget
    BY <1>1, <1>11, RowFields, BudgetFacts DEF PersistPending, Retrying, FailedForGood, Good
  <2>2. /\ at = "decide" /\ at' = "send" /\ cp'.status = "pending"
        /\ UNCHANGED <<ended, told, aside>>
    BY <2>1, <1>1, <1>11, GoodPending DEF PersistPending, Sending
  <2>3. OutcomeOf(cp) = None
    <3>1. CASE read.status = "absent"
      BY <3>1, <2>2, <1>2, OutcomeFacts
    <3>2. CASE Retrying
      BY <3>2, <2>2, <1>2, SameOutcomes, OutcomeFacts DEF Retrying, Settled
    <3> QED
      BY <3>1, <3>2, <1>11 DEF PersistPending
  <2>4. OutcomeOf(cp') = OutcomeOf(cp)
    BY <2>2, <2>3, OutcomeFacts
  <2>5. FreshCopy'
    BY <2>2 DEF FreshCopy
  <2>6. NoLateWrite'
    BY <2>2 DEF NoLateWrite
  <2> QED
    BY <2>2, <2>4, <2>5, <2>6, UnheardBeside DEF Keeps
<1>12. CASE Send
  <2>1. NoLateWrite' /\ FreshCopy'
    BY <1>3, <1>4, <1>12, CopyStill DEF Send, Suspend, NoLateWrite
  <2> QED
    BY <2>1, <1>12, UnheardBeside DEF Send, Suspend, Keeps
<1>13. ASSUME NEW row, row.status = "pending", at = "decide", read.status = "pending",
              NEW w \in {"idle", "send"}, SavePending(row, at' = w),
              UNCHANGED <<ended, told, aside>>
       PROVE  Keeps
  <2>1. CASE cp.status = "pending"
    <3>1. cp' = row /\ at' = w
      BY <2>1, <1>13 DEF SavePending
    <3>2. OutcomeOf(cp') = OutcomeOf(cp)
      BY <3>1, <2>1, <1>13, OutcomeFacts
    <3>3. NoLateWrite' /\ FreshCopy'
      BY <3>1, <1>13 DEF NoLateWrite, FreshCopy
    <3> QED
      BY <3>1, <3>2, <3>3, <1>13, UnheardBeside DEF Keeps
  <2>2. CASE cp.status # "pending"
    <3>1. at' = "look" /\ UNCHANGED <<cp, read>>
      BY <2>2, <1>13 DEF SavePending
    <3>2. NoLateWrite' /\ FreshCopy'
      BY <3>1, <1>2, <1>4, <1>13 DEF NoLateWrite, FreshCopy, Settled
    <3> QED
      BY <3>1, <3>2, <1>1, <1>13, Unheard DEF Keeps
  <2> QED
    BY <2>1, <2>2
<1>14. CASE StampLease
  <2> DEFINE row == [read EXCEPT !.wake = "lease", !.due = FALSE]
  <2>1. row.status = "pending"
    BY <1>1, <1>14, GoodDeadline DEF Deadlines, SameOutcome, StampLease
  <2>2. /\ at = "decide" /\ read.status = "pending" /\ SavePending(row, Suspend)
        /\ UNCHANGED <<ended, aside, told>>
    BY <1>14 DEF StampLease
  <2>3. SavePending(row, at' = "idle")
    BY <2>2 DEF SavePending, Suspend
  <2> HIDE DEF row
  <2> QED
    BY <2>1, <2>2, <2>3, <1>13
<1>15. CASE Redispatch
  <2> DEFINE row == [read EXCEPT !.attempts = read.attempts + 1, !.wake = "lease", !.due = FALSE]
  <2>1. /\ at = "decide" /\ read.status = "pending" /\ SavePending(row, Sending(row))
        /\ UNCHANGED <<ended, aside, told>>
    BY <1>15 DEF Redispatch, Overdue
  <2>2. row.status = "pending"
    BY <1>1, <2>1 DEF Rows
  <2>3. SavePending(row, at' = "send")
    BY <2>1 DEF SavePending, Sending
  <2> HIDE DEF row
  <2> QED
    BY <2>1, <2>2, <2>3, <1>13
<1>16. CASE GiveUp
  <2>1. NoLateWrite' /\ FreshCopy'
    BY <1>3, <1>4, <1>16, CopyStill DEF GiveUp, Suspend, NoLateWrite
  <2>2. told = None
    BY <1>1, <1>16 DEF GiveUp, Overdue
  <2>3. ToldSame'
    BY <1>16 DEF GiveUp, Suspend, ToldSame
  <2>4. [Promise!Next]_<<OutcomeOf(cp), told>>
    BY <2>2, <1>16 DEF GiveUp, Promise!Next, Promise!GiveUp
  <2> QED
    BY <2>1, <2>3, <2>4 DEF Keeps
<1>17. CASE DeadlinePasses
  <2>1. cp' = [cp EXCEPT !.wake = cp.wake, !.due = TRUE] /\ cp.wake \in Deadlines
    BY <1>1, <1>17, RowFields DEF DeadlinePasses, Rows
  <2>2. SameOutcome(cp', cp)
    BY <2>1, <1>1, GoodDeadline
  <2>3. OutcomeOf(cp') = OutcomeOf(cp) /\ cp'.status = cp.status
    BY <2>2, SameOutcomes DEF SameOutcome
  <2> QED
    BY <2>2, <2>3, <1>4, <1>17, CopyStill, UnheardBeside DEF DeadlinePasses, NoLateWrite, Keeps
<1> QED
  BY <1>5, <1>6, <1>7, <1>8, <1>9, <1>10, <1>11, <1>12, <1>14, <1>15, <1>16, <1>17 DEF Call

LEMMA NetPromise ==
  ASSUME Prompt, PromiseInv,
         \/ \E n \in tasks : Execute(n) \/ ExecuteUnacknowledged(n) \/ LoseTask(n)
         \/ \E r \in results : Discard(r)
         \/ \E e \in Engines : Consume(e) \/ CrashConsumer(e)
  PROVE  Keeps
<1> USE DEF turn, net, hist
<1>1. ASSUME UNCHANGED <<cp, ended, at, read, aside, told>>
      PROVE  Keeps
  <2>1. SameOutcome(cp', cp) /\ OutcomeOf(cp') = OutcomeOf(cp)
    BY <1>1, RowSame
  <2> QED
    BY <2>1, <1>1, CopyStill, WriteStill, UnheardBeside DEF Keeps
<1>2. ASSUME NEW n \in tasks, Execute(n) \/ ExecuteUnacknowledged(n) \/ LoseTask(n)
      PROVE  Keeps
  BY <1>1, <1>2 DEF Execute, ExecuteUnacknowledged, LoseTask
<1>3. ASSUME NEW r \in results, Discard(r)
      PROVE  Keeps
  BY <1>1, <1>3 DEF Discard
<1>4. ASSUME NEW e \in Engines, Receive(e) \/ CheckRun(e) \/ CrashConsumer(e)
      PROVE  Keeps
  BY <1>1, <1>4 DEF Receive, CheckRun, CrashConsumer
<1>5. ASSUME NEW e \in Engines, Settle(e)
      PROVE  Keeps
  <2>1. /\ Free /\ UNCHANGED <<ended, at, read, aside, told>>
        /\ cp' = IF cp.status = "pending" THEN SettledBy(con[e].res) ELSE cp
    BY <1>5 DEF Settle
  <2>2. CASE cp.status # "pending"
    BY <2>1, <2>2, <1>1
  <2>3. CASE cp.status = "pending"
    <3>1. StepInv' /\ cp' \in Rows
      BY <1>5, NetStep DEF PromiseInv, StepInv, TypeOK, Consume
    <3>2. FreshCopy'
      BY <2>1, <2>3, CopyStill
    <3>3. NoLateWrite'
      BY <2>1, NobodyWrites DEF NoLateWrite
    <3>4. OutcomeOf(cp) = None /\ OutcomeOf(cp') \in Outcomes \cup {None}
      BY <2>3, <3>1, OutcomeFacts, RowOutcome
    <3>5. ToldSame'
      BY <2>1, <3>4 DEF PromiseInv, ToldSame
    <3>6. [Promise!Next]_<<OutcomeOf(cp), told>>
      BY <2>1, <3>4 DEF Promise!Next, Promise!Settle
    <3> QED
      BY <3>2, <3>3, <3>5, <3>6 DEF Keeps
  <2> QED
    BY <2>2, <2>3
<1> QED
  BY <1>2, <1>3, <1>4, <1>5 DEF Consume

LEMMA AsidePromise ==
  ASSUME Prompt, PromiseInv,
         Beat \/ ListPending \/ Write \/ CrashTurn \/ \E a \in Asides : CrashAside(a)
  PROVE  Keeps
<1> USE DEF turn, net, hist
<1>1. /\ StepInv /\ "beat" \in Asides /\ "operator" \in Asides
      /\ aside \in [Asides -> [at : {"idle", "write", "send"}, row : Rows]]
      /\ \A a \in Asides : aside[a].at = "write" => aside[a].row.status = "pending" /\ cp.status = "pending"
      /\ \A a \in Asides : aside[a].row \in Rows
  BY DEF PromiseInv, StepInv, TypeOK, Written, NoLateWrite, Asides
<1>2. ASSUME UNCHANGED <<cp, ended, told>>, UNCHANGED <<at, read>> \/ at' = "idle",
             \A a \in Asides : aside'[a].at = "write" => aside[a].at = "write" \/ cp.status = "pending"
      PROVE  Keeps
  <2>1. SameOutcome(cp', cp) /\ OutcomeOf(cp') = OutcomeOf(cp)
    BY <1>2, RowSame
  <2> QED
    BY <2>1, <1>2, CopyStill, WriteStill, UnheardBeside DEF Keeps
<1>3. ASSUME UNCHANGED <<ended, at, read, told>>, cp.status = "pending", cp'.status = "pending"
      PROVE  Keeps
  <2>1. OutcomeOf(cp') = OutcomeOf(cp)
    BY <1>3, OutcomeFacts
  <2> QED
    BY <2>1, <1>3, CopyStill, WriteStill, UnheardBeside DEF Keeps
<1>4. CASE Beat
  BY <1>2, <1>4 DEF Beat
<1>5. CASE RearmLease
  <2> DEFINE row == [aside["beat"].row EXCEPT !.wake = "lease", !.due = FALSE]
  <2>1. row.status = "pending" /\ cp.status = "pending"
    BY <1>1, <1>5 DEF RearmLease, Rows
  <2> QED
    BY <2>1, <1>3, <1>5 DEF RearmLease
<1>6. CASE ListPending
  BY <1>2, <1>6 DEF ListPending
<1>7. CASE Reattempt
  <2> DEFINE old == aside["operator"].row
             row == [old EXCEPT !.attempts = old.attempts + 1]
  <2>1. row.status = "pending" /\ cp.status = "pending"
    BY <1>1, <1>7 DEF Reattempt, Rows
  <2> QED
    BY <2>1, <1>3, <1>7 DEF Reattempt
<1>8. CASE Resend
  BY <1>1, <1>2, <1>8, AsideStep, GoodNoRow DEF Resend, Step, StepInv
<1>9. CASE CrashTurn
  BY <1>2, <1>9 DEF CrashTurn, Suspend
<1>10. ASSUME NEW a \in Asides, CrashAside(a)
       PROVE  Keeps
  BY <1>1, <1>2, <1>10 DEF CrashAside, Step
<1> QED
  BY <1>4, <1>5, <1>6, <1>7, <1>8, <1>9, <1>10 DEF Write

LEMMA PromiseNext ==
  ASSUME Prompt, PromiseInv, [Next]_vars
  PROVE  PromiseInv' /\ [Promise!Next]_<<OutcomeOf(cp), told>>
<1>1. StepInv'
  BY StepInvNext DEF PromiseInv
<1>2. CASE UNCHANGED vars
  <2>1. NoLateWrite' /\ FreshCopy' /\ ToldSame' /\ UNCHANGED <<OutcomeOf(cp), told>>
    BY <1>2 DEF vars, turn, net, hist, PromiseInv, NoLateWrite, FreshCopy, ToldSame
  <2> QED
    BY <2>1, <1>1 DEF PromiseInv
<1>3. CASE Next
  <2>1. Keeps
    BY <1>3, TurnPromise, NetPromise, AsidePromise DEF Next
  <2> QED
    BY <2>1, <1>1 DEF Keeps, PromiseInv
<1> QED
  BY <1>2, <1>3

LEMMA PromiseInit == Init => PromiseInv /\ OutcomeOf(cp) = None /\ told = None
<1> SUFFICES ASSUME Init PROVE PromiseInv /\ OutcomeOf(cp) = None /\ told = None
  OBVIOUS
<1>1. StepInv
  BY StepInvInit
<1>2. cp.status = "absent" /\ OutcomeOf(cp) = None /\ told = None /\ at = "idle" /\ ended = "no"
  BY GoodNoRow, OutcomeFacts DEF Init
<1>3. NoLateWrite
  BY DEF Init, NoLateWrite
<1>4. FreshCopy /\ ToldSame
  BY <1>2, OutcomesDiffer DEF FreshCopy, ToldSame
<1> QED
  BY <1>1, <1>2, <1>3, <1>4 DEF PromiseInv

-----------------------------------------------------------------------------
\* Attempts stay within what the policy of the step, the redispatch bound and the
\* operator's calls pay for (callRemote, redispatchPending); every variable has its type.
THEOREM TypeCorrect == Spec => []TypeOK
<1>1. StepInv => TypeOK
  BY DEF StepInv
<1> QED
  BY <1>1, StepInvariant, PTL

\* A fast result always finds the checkpoint it settles: callRemote persists it before
\* it dispatches, and nothing ever takes it away.
THEOREM RowFound == Spec => []ResultFindsRow
<1>1. StepInv => ResultFindsRow
  BY DEF StepInv
<1> QED
  BY <1>1, StepInvariant, PTL

\* callRemote and completeRemoteResults implement StepPromise: one attempt settles the
\* step, once, and every replay is told that, if heartbeats and operators are prompt.
THEOREM KeptPromise == ASSUME Prompt PROVE Spec => KeepsPromise
<1>1. Init => PromiseInv
  BY PromiseInit
<1>2. Init => Promise!Init
  BY PromiseInit DEF Promise!Init
<1>3. PromiseInv /\ [Next]_vars => PromiseInv' /\ [Promise!Next]_<<OutcomeOf(cp), told>>
  BY PromiseNext
<1> QED
  BY <1>1, <1>2, <1>3, PTL DEF Spec, KeepsPromise, Promise!Spec

-----------------------------------------------------------------------------
(* What the promise leaves open: the checkpoint between the attempts.      *)

\* The compare-and-set does what it is for where no late write goes around it: a
\* completed checkpoint stays completed (savePendingCheckpoint, interfaces.ts).
THEOREM CompletionStays == ASSUME Prompt PROVE Spec => CompletedStays
<1>1. Init => PromiseInv
  BY PromiseInit
<1>2. PromiseInv /\ [Next]_vars => PromiseInv'
  BY PromiseNext
<1>3. PromiseInv /\ PromiseInv' /\ [Next]_vars => [cp.status = "completed" => cp'.status = "completed"]_vars
  <2> SUFFICES ASSUME PromiseInv, PromiseInv', [Next]_vars, cp.status = "completed"
               PROVE  cp'.status = "completed"
    OBVIOUS
  <2>1. OutcomeOf(cp) # None /\ OutcomeOf(cp) = <<"completed", cp.by>> /\ cp' \in Rows
    BY OutcomeFacts, OutcomesDiffer DEF PromiseInv, StepInv, TypeOK
  <2>2. OutcomeOf(cp') = OutcomeOf(cp)
    BY <2>1, PromiseNext DEF Promise!Next, Promise!Settle, Promise!Tell, Promise!GiveUp
  <2>3. OutcomeOf(cp') \notin {None, <<"failed", 0>>}
    BY <2>1, <2>2, OutcomesDiffer
  <2> QED
    BY <2>1, <2>3, RowOutcome
<1> QED
  BY <1>1, <1>2, <1>3, PTL DEF Spec, CompletedStays

\* Where redispatch is off, no row holds a redispatch deadline, and the turn's copy of
\* a settled step has the deadline the store has.
BackoffOnly ==
  /\ cp.wake # "lease" /\ read.wake # "lease" /\ \A a \in Asides : aside[a].row.wake # "lease"
  /\ at \in {"look", "decide"} /\ read.status \in Settled => read.wake = cp.wake
  /\ aside["beat"].at = "idle"

LEMMA BackoffStep ==
  ASSUME Prompt, RedispatchMax = 0, PromiseInv, BackoffOnly, [Next]_vars
  PROVE  BackoffOnly' /\ (cp.status = "failed" /\ cp'.status = "pending" => cp.wake = "backoff")
<1> DEFINE Goal == BackoffOnly' /\ (cp.status = "failed" /\ cp'.status = "pending" => cp.wake = "backoff")
<1> USE DEF turn, net, hist, BackoffOnly, Settled
<1>1. /\ cp \in Rows /\ read \in Rows /\ "beat" \in Asides /\ "operator" \in Asides
      /\ aside \in [Asides -> [at : {"idle", "write", "send"}, row : Rows]]
      /\ \A a \in Asides : aside[a].at = "write" => aside[a].row.status = "pending" /\ cp.status = "pending"
      /\ at \in {"look", "decide"} /\ read.status \in Settled => SameOutcome(read, cp)
      /\ at = "decide" /\ read.status = "absent" => cp.status = "absent"
  BY DEF PromiseInv, StepInv, TypeOK, Written, NoLateWrite, FreshCopy, Asides
<1>2. NoRow \in Rows /\ NoRow.wake = "none" /\ NoRow.status = "absent" /\ cp.wake \in Deadlines /\ read.wake \in Deadlines
  BY <1>1, GoodNoRow, RowFields DEF NoRow
<1>3. CASE UNCHANGED <<cp, at, read, aside>>
  BY <1>3
<1>4. CASE UNCHANGED <<cp, aside>> /\ Suspend
  BY <1>2, <1>4 DEF Suspend
<1>5. CASE BeginTurn
  BY <1>5 DEF BeginTurn
<1>6. CASE Look
  BY <1>6 DEF Look
<1>7. CASE StampBackoff
  <2>1. cp'.wake = "backoff" /\ cp'.status = "failed" /\ UNCHANGED aside /\ Suspend
    BY <1>1, <1>7 DEF StampBackoff, Retrying, Rows
  <2> QED
    BY <1>2, <2>1 DEF Suspend
<1>8. CASE PersistPending
  <2>1. cp'.wake = "none" /\ read' = cp' /\ at' = "send" /\ UNCHANGED aside
    BY <1>8 DEF PersistPending, Sending, Pending, NoRow
  <2>2. cp.status = "failed" => Retrying /\ read.wake # "none" /\ read.wake = cp.wake
    BY <1>1, <1>8 DEF PersistPending, Retrying, Reached
  <2> QED
    BY <1>2, <2>1, <2>2 DEF Deadlines
<1>9. CASE Send
  BY <1>2, <1>9 DEF Send, Suspend
<1>10. CASE DeadlinePasses
  <2>1. cp'.wake = cp.wake /\ cp'.status = cp.status /\ UNCHANGED <<at, read, aside>>
    BY <1>1, <1>10 DEF DeadlinePasses, Rows
  <2> QED
    BY <2>1
<1>11. ASSUME NEW e \in Engines, Settle(e) PROVE Goal
  <2>1. UNCHANGED <<at, read, aside>>
    BY <1>11 DEF Settle
  <2>2. CASE cp.status = "pending"
    <3>1. cp'.wake = cp.wake
      BY <1>1, <1>11, <2>2 DEF Settle, SettledBy, Rows
    <3>2. read.status \in Settled => at \notin {"look", "decide"}
      BY <1>1, <2>2 DEF SameOutcome
    <3> QED
      BY <2>1, <2>2, <3>1, <3>2
  <2>3. CASE cp.status # "pending"
    BY <1>3, <1>11, <2>1, <2>3 DEF Settle
  <2> QED
    BY <2>2, <2>3
<1>12. CASE ListPending
  BY <1>1, <1>12 DEF ListPending, Step
<1>13. CASE Reattempt
  <2> DEFINE old == aside["operator"].row
             row == [old EXCEPT !.attempts = old.attempts + 1]
  <2>1. row.wake # "lease" /\ cp.status = "pending" /\ cp' = row /\ UNCHANGED <<at, read>>
        /\ aside' = [aside EXCEPT !["operator"] = [at |-> "send", row |-> row]]
    BY <1>1, <1>13 DEF Reattempt, Step, Rows
  <2>2. read.status \in Settled => at \notin {"look", "decide"}
    BY <1>1, <2>1 DEF SameOutcome
  <2> QED
    BY <1>1, <2>1, <2>2
<1>14. CASE Resend
  BY <1>1, <1>2, <1>14 DEF Resend, Step
<1>15. ASSUME NEW a \in Asides, CrashAside(a) PROVE Goal
  BY <1>1, <1>2, <1>15 DEF CrashAside, Step
<1>16. CASE UNCHANGED vars
  BY <1>3, <1>16 DEF vars
<1>17. ~RearmLease /\ ~Beat
  BY DEF RearmLease, Beat
<1> HIDE DEF Goal
<1>18. CASE Call
  BY <1>4, <1>6, <1>7, <1>8, <1>9, <1>18
     DEF Call, Return, Throw, Await, StampLease, Redispatch, GiveUp, Overdue, Goal
<1>19. ASSUME NEW e \in Engines, Consume(e) \/ CrashConsumer(e) PROVE Goal
  BY <1>3, <1>11, <1>19 DEF Consume, Receive, CheckRun, CrashConsumer, Goal
<1>20. CASE \/ \E n \in tasks : Execute(n) \/ ExecuteUnacknowledged(n) \/ LoseTask(n)
            \/ \E r \in results : Discard(r)
  BY <1>3, <1>20 DEF Execute, ExecuteUnacknowledged, LoseTask, Discard
<1>21. CASE CrashTurn
  BY <1>4, <1>21 DEF CrashTurn
<1> QED
  BY <1>5, <1>10, <1>12, <1>13, <1>14, <1>15, <1>16, <1>17, <1>18, <1>19, <1>20, <1>21 DEF Next, Write, Goal

\* Where redispatch is off, a retry waits for the backoff of the attempt that failed: a
\* step goes back to pending only past a deadline computed from it. What breaks this is
\* the column the two deadlines share (README, 7).
THEOREM BackoffAwaited ==
  ASSUME Prompt, RedispatchMax = 0
  PROVE  Spec => RetryAwaitsBackoff
<1>1. Init => PromiseInv /\ BackoffOnly
  BY PromiseInit, GoodNoRow DEF Init, BackoffOnly, NoRow, Asides
<1>2. PromiseInv /\ BackoffOnly /\ [Next]_vars => (PromiseInv /\ BackoffOnly)'
  BY PromiseNext, BackoffStep
<1>3. PromiseInv /\ BackoffOnly /\ [Next]_vars
        => [cp.status = "failed" /\ cp'.status = "pending" => cp.wake = "backoff"]_vars
  BY BackoffStep
<1> QED
  BY <1>1, <1>2, <1>3, PTL DEF Spec, RetryAwaitsBackoff

=============================================================================
