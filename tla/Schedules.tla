------------------------------ MODULE Schedules ------------------------------
(***************************************************************************)
(* One persisted schedule (packages/core/src/schedules.ts, ScheduleClient): *)
(* the pollers that fire it (tick, fire) and the clients that create,       *)
(* upsert, pause, resume and delete it, over one row of the store whose     *)
(* only guarded write is the compare-and-set on nextFireAt.                *)
(*                                                                         *)
(* One action is one store call, or one start of a window's run.           *)
(* Abstractions: cadences are `every` (a cron differs in its windows only); *)
(* every process reads one clock; a definition always evaluates; a page of  *)
(* due schedules is this one; lastError and the manual runs of `trigger`,   *)
(* which no other operation reads, are left out.                           *)
(***************************************************************************)
EXTENDS Integers, FiniteSets

CONSTANTS
  Pollers,           \* the engines that tick
  Clients,           \* the callers of engine.schedules
  Defs,              \* the definitions an upsert may write (SpecDoc)
  Grace,             \* ON_TIME_GRACE_MS, in ticks of the clock
  MaxTime,           \* bound: the clock
  MaxCalls,          \* bound: calls of the clients
  MaxScheduleFaults  \* bound: crashes of pollers and failed starts

Times == 0..MaxTime

ASSUME SchedulesAssumption ==
  /\ Defs # {}
  /\ \A d \in Defs :
       /\ d.every \in Nat \ {0} /\ d.jitter \in Nat
       /\ d.skip \in BOOLEAN    \* overlap: 'skip'
       /\ d.late \in BOOLEAN    \* catchup: 'latest'
  /\ Grace \in Nat /\ MaxTime \in Nat /\ MaxCalls \in Nat /\ MaxScheduleFaults \in Nat

VARIABLES
  clock,   \* the time
  row,     \* the schedule's row, or NoRow
  runs,    \* per window: its run, if any, and whether it is in flight
  poller,  \* per poller: the fire it is in
  client,  \* per client: the call it is in
  kept,    \* history: the row knew every run of the schedule when it was fired from
  calls, faults

schedVars == <<clock, row, runs, poller, client, kept, calls, faults>>

None == -1

\* The windows of a definition, and the jitter of one: stable, and below d.jitter.
LatestWindow(d, t) == (t \div d.every) * d.every
NextWindow(d, t)   == (t \div d.every + 1) * d.every
Jitter(d, w)       == IF d.jitter = 0 THEN 0 ELSE (w \div d.every) % d.jitter

RunStates == {"none", "live", "ended"}
Rows == [there : BOOLEAN, def : Defs, paused : BOOLEAN, next : Int, window : Int, lastRun : Int, fires : Nat]
NoRow == [there |-> FALSE, def |-> CHOOSE d \in Defs : TRUE, paused |-> FALSE,
          next |-> None, window |-> None, lastRun |-> None, fires |-> 0]

Fires == [at : {"idle", "check", "start", "advance"}, row : Rows, now : Times, fired : BOOLEAN]
NoFire == [at |-> "idle", row |-> NoRow, now |-> 0, fired |-> FALSE]

Ops   == {"none", "create", "upsert", "pause", "resume"}
PausedOpts == {"unsaid", "paused", "active"} \* opts.paused, which a call may leave unsaid
Calls == [op : Ops, said : PausedOpts, row : Rows, now : Times]
NoCall == [op |-> "none", said |-> "unsaid", row |-> NoRow, now |-> 0]

ScheduleTypeOK ==
  /\ clock \in Times /\ row \in Rows /\ runs \in [Times -> RunStates]
  /\ poller \in [Pollers -> Fires] /\ client \in [Clients -> Calls]
  /\ kept \in BOOLEAN /\ calls \in 0..MaxCalls /\ faults \in 0..MaxScheduleFaults
  /\ row.lastRun # None => row.lastRun \in Times /\ runs[row.lastRun] # "none"

SchedulesInit ==
  /\ clock = 0 /\ row = NoRow /\ runs = [w \in Times |-> "none"]
  /\ poller = [p \in Pollers |-> NoFire] /\ client = [c \in Clients |-> NoCall]
  /\ kept = TRUE /\ calls = 0 /\ faults = 0

-----------------------------------------------------------------------------
(* tick and fire.                                                          *)

Tick ==
  /\ clock < MaxTime /\ clock' = clock + 1
  /\ UNCHANGED <<row, runs, poller, client, kept, calls, faults>>

FinishRun(w) ==
  /\ runs[w] = "live" /\ runs' = [runs EXCEPT ![w] = "ended"]
  /\ UNCHANGED <<clock, row, poller, client, kept, calls, faults>>

Due == row.there /\ ~row.paused /\ row.next <= clock

\* What the fire of poller p is about: the most recent window at or before its
\* time, whether that is on time, and the window it belongs to.
Latest(p)  == LatestWindow(poller[p].row.def, poller[p].now)
OnTime(p)  == poller[p].now - Latest(p) <= Grace + poller[p].row.def.jitter
Missed(p)  == ~poller[p].row.def.late /\ ~OnTime(p)
Early(p)   == Latest(p) < poller[p].row.window

\* listSchedules({ dueBy }): another poller may be in the middle of an older window.
Poll(p) ==
  /\ poller[p].at = "idle" /\ Due
  /\ poller' = [poller EXCEPT ![p] = [at |-> "check", row |-> row, now |-> clock, fired |-> FALSE]]
  /\ kept' = (kept /\ \A q \in Pollers : poller[q].at # "idle" => Latest(q) = LatestWindow(row.def, clock))
  /\ UNCHANGED <<clock, row, runs, client, calls, faults>>

\* Mutant: the window before this one is looked up instead of the last run.
OverlappingBefore(p) ==
  LET before == Latest(p) - poller[p].row.def.every
  IN  poller[p].row.def.skip /\ before \in Times /\ runs[before] = "live"

\* overlapping: the schedule's last run is still in flight.
Overlapping(p) ==
  /\ poller[p].row.def.skip /\ poller[p].row.lastRun \in Times
  /\ runs[poller[p].row.lastRun] = "live"

\* Mutant: an overlapped window is left for the next tick.
CheckLater(p) ==
  /\ poller[p].at = "check"
  /\ poller' = [poller EXCEPT ![p] =
                  IF Overlapping(p) THEN NoFire
                  ELSE [@ EXCEPT !.at = IF Missed(p) \/ Early(p) THEN "advance" ELSE "start"]]
  /\ UNCHANGED <<clock, row, runs, client, kept, calls, faults>>

\* What fire decides: skip the window, or start it.
Check(p) ==
  /\ poller[p].at = "check"
  /\ poller' = [poller EXCEPT ![p].at =
                  IF Missed(p) \/ Early(p) \/ Overlapping(p) THEN "advance" ELSE "start"]
  /\ UNCHANGED <<clock, row, runs, client, kept, calls, faults>>

\* host.start with the window's id: a run that exists is found again.
StartWindow(p) ==
  /\ poller[p].at = "start"
  /\ runs' = [runs EXCEPT ![Latest(p)] = IF @ = "none" THEN "live" ELSE @]
  /\ poller' = [poller EXCEPT ![p].at = "advance", ![p].fired = TRUE]
  /\ UNCHANGED <<clock, row, client, kept, calls, faults>>

\* Mutant: a start that throws is taken for one that found the run there.
StartFailsFired(p) ==
  /\ poller[p].at = "start" /\ faults < MaxScheduleFaults /\ faults' = faults + 1
  /\ poller' = [poller EXCEPT ![p].at = "advance", ![p].fired = TRUE]
  /\ UNCHANGED <<clock, row, runs, client, kept, calls>>

\* The start throws: unless the run is there, the window is given up (lastError).
StartFails(p) ==
  /\ poller[p].at = "start" /\ faults < MaxScheduleFaults /\ faults' = faults + 1
  /\ poller' = [poller EXCEPT ![p].at = "advance", ![p].fired = runs[Latest(p)] # "none"]
  /\ UNCHANGED <<clock, row, runs, client, kept, calls>>

\* Mutant: the window after the stored one, as if no window had been missed.
FiredRowStepwise(p) ==
  LET d == poller[p].row.def  next == NextWindow(d, poller[p].row.window)
  IN  [row EXCEPT !.window = next, !.next = next + Jitter(d, next),
                  !.lastRun = IF poller[p].fired THEN Latest(p) ELSE poller[p].row.lastRun,
                  !.fires = poller[p].row.fires + (IF poller[p].fired THEN 1 ELSE 0)]

\* The patch of a fire: the next window, and the state it read, brought up to date.
FiredRow(p) ==
  LET d == poller[p].row.def  next == NextWindow(d, Latest(p))
  IN  [row EXCEPT !.window = next, !.next = next + Jitter(d, next),
                  !.lastRun = IF poller[p].fired THEN Latest(p) ELSE poller[p].row.lastRun,
                  !.fires = poller[p].row.fires + (IF poller[p].fired THEN 1 ELSE 0)]

\* Mutant: the schedule is moved on whatever another poller made of it.
WinsBlindly(p) == row.there

\* updateSchedule's compare-and-set on nextFireAt.
Wins(p) == row.there /\ row.next = poller[p].row.next

Advance(p) ==
  /\ poller[p].at = "advance"
  /\ row' = IF Wins(p) THEN FiredRow(p) ELSE row
  /\ kept' = (kept /\ row'.lastRun = IF poller[p].fired THEN Latest(p) ELSE row.lastRun)
  /\ poller' = [poller EXCEPT ![p] = NoFire]
  /\ UNCHANGED <<clock, runs, client, calls, faults>>

\* The process dies, or a store call of its fire fails: the tick ends there.
CrashPoller(p) ==
  /\ poller[p].at # "idle" /\ faults < MaxScheduleFaults /\ faults' = faults + 1
  /\ poller' = [poller EXCEPT ![p] = NoFire]
  /\ kept' = (kept /\ ~poller[p].fired)
  /\ UNCHANGED <<clock, row, runs, client, calls>>

-----------------------------------------------------------------------------
(* The clients: a read of the row, then an unguarded write.                *)

\* create refuses a taken id, pause and resume one that does not exist.
ReadRow(c, op, said) ==
  /\ client[c].op = "none" /\ calls < MaxCalls /\ calls' = calls + 1
  /\ op = "create" => ~row.there
  /\ op \in {"pause", "resume"} => row.there /\ said = "unsaid"
  /\ client' = [client EXCEPT ![c] = [op |-> op, said |-> said, row |-> row, now |-> clock]]
  /\ UNCHANGED <<clock, row, runs, poller, kept, faults>>

\* A blind write puts back the last run it read.
KeptBy(c) == kept /\ client[c].row.lastRun = row.lastRun

Done(c) == client' = [client EXCEPT ![c] = NoCall]

\* The row `write` saves: the history it read, and the first window after now.
Written(c, d, paused, now) ==
  LET next == NextWindow(d, now)
  IN  [client[c].row EXCEPT !.there = TRUE, !.def = d, !.paused = paused,
                            !.window = next, !.next = next + Jitter(d, next)]

\* The clock is read between a call's read of the row and its write.
Since(c) == {t \in Times : client[c].now <= t /\ t <= clock}

\* A call that does not say otherwise keeps the paused it read.
Paused(c) == IF client[c].said = "unsaid" THEN client[c].row.paused ELSE client[c].said = "paused"

\* write (create, upsert).
Write(c, d, now) ==
  /\ client[c].op \in {"create", "upsert"}
  /\ row' = Written(c, d, Paused(c), now)
  /\ kept' = KeptBy(c) /\ Done(c)
  /\ UNCHANGED <<clock, runs, poller, calls, faults>>

\* pause: with the spec it read.
Pause(c) ==
  /\ client[c].op = "pause"
  /\ row' = IF row.there THEN [row EXCEPT !.paused = TRUE, !.def = client[c].row.def] ELSE row
  /\ Done(c) /\ UNCHANGED <<clock, runs, poller, kept, calls, faults>>

\* resume: the first window after now, by the spec and with the state it read.
ResumedRow(c, now) ==
  LET d == client[c].row.def  next == NextWindow(d, now)
  IN  [row EXCEPT !.paused = FALSE, !.window = next, !.next = next + Jitter(d, next),
                  !.lastRun = client[c].row.lastRun, !.fires = client[c].row.fires]

Resume(c, now) ==
  /\ client[c].op = "resume"
  /\ row' = IF row.there THEN ResumedRow(c, now) ELSE row
  /\ kept' = KeptBy(c) /\ Done(c)
  /\ UNCHANGED <<clock, runs, poller, calls, faults>>

\* delete: the runs stay, and with them the windows that have one.
Delete ==
  /\ row.there /\ calls < MaxCalls /\ calls' = calls + 1
  /\ row' = NoRow /\ kept' = (kept /\ row.lastRun = None)
  /\ UNCHANGED <<clock, runs, poller, client, faults>>

-----------------------------------------------------------------------------
Fire(p) == Check(p) \/ StartWindow(p) \/ Advance(p)

SchedulesNext ==
  \/ Tick \/ Delete
  \/ \E w \in Times : FinishRun(w)
  \/ \E p \in Pollers : Poll(p) \/ Fire(p) \/ StartFails(p) \/ CrashPoller(p)
  \/ \E c \in Clients :
       \/ \E op \in Ops \ {"none"}, said \in PausedOpts : ReadRow(c, op, said)
       \/ Pause(c)
       \/ \E now \in Since(c) : Resume(c, now) \/ \E d \in Defs : Write(c, d, now)

SchedulesSpec == SchedulesInit /\ [][SchedulesNext]_schedVars

\* Every poller ticks, and a fire goes on. No run needs to end, and no client to call.
SchedulesFairness == \A p \in Pollers : WF_schedVars(Poll(p)) /\ WF_schedVars(Fire(p))

-----------------------------------------------------------------------------
\* `fires` counts no window twice: however fires, blind writes and crashes cross,
\* it never exceeds the windows before the next one that have a run.
CountedOnce ==
  row.fires <= Cardinality({w \in Times : runs[w] # "none" /\ w < row.window})

\* A poller moves the schedule on, never back: the one whose fire is old leaves
\* the row alone.
PollersForward ==
  [][\A p \in Pollers : Advance(p) /\ row' # row => row'.next > row.next /\ row'.next > poller[p].now]_schedVars

\* overlap: 'skip' while the row knows the schedule's runs: a window is not started
\* while the last run before it is in flight.
SkipsOverlap ==
  [][\A p \in Pollers : StartWindow(p) /\ kept /\ poller[p].row.def.skip /\ runs' # runs =>
       \A w \in Times : w < Latest(p) /\ runs[w] = "live" =>
         \E v \in Times : w < v /\ v < Latest(p) /\ runs[v] # "none"]_schedVars

\* A schedule that is due is fired, skipped, or stopped: a run that never ends, a
\* failed start, or a poller that died does not hold it back.
DueMoves == Due ~> ~Due

\* Not so in the code (README, 7): whatever crashes or is slow, a window does not start beside the run before it.
NeverOverlaps ==
  [][\A p \in Pollers : StartWindow(p) /\ poller[p].row.def.skip /\ runs' # runs =>
       \A w \in Times : w < Latest(p) /\ runs[w] = "live" =>
         \E v \in Times : w < v /\ v < Latest(p) /\ runs[v] # "none"]_schedVars

\* Not so in the code (README, 7): only a resume, an upsert that says so, or a delete takes
\* a paused schedule out of its pause.
PauseSticks ==
  [][row.paused /\ row'.there /\ ~row'.paused =>
       \E c \in Clients, now \in Times :
         Resume(c, now) \/ (client[c].said = "active" /\ \E d \in Defs : Write(c, d, now))]_schedVars
=============================================================================
