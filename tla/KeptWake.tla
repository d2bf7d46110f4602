------------------------------ MODULE KeptWake ------------------------------
(***************************************************************************)
(* A run suspended on several facts, landing on any instance, and the wakes *)
(* that bring it back (packages/core/src/engine.ts): a wake that finds the  *)
(* run's lease held is kept in the store, written first and looked at       *)
(* second (requestWakeAfterTurn); the holder releases first and looks       *)
(* second (honorWakeRequests). The facts are the results of a step fan,     *)
(* whose last one wakes the run (stepFanStillRunning, redriveSettledStep-   *)
(* Fans), or signals and the like, each with a generic wake of its own.     *)
(*                                                                         *)
(* One action is one store call, with what its caller does until the next.  *)
(* Abstractions: the body awaits every fact at once; a fan is one wave, no  *)
(* step of it fails, each result is a batch of its own; a lease lapses only *)
(* after a crash; due times are "lease" (when a lease would have run out)   *)
(* and "net" (the reconcile interval, which an engine need not have).       *)
(***************************************************************************)
EXTENDS Integers, FiniteSets

CONSTANTS
  Engines,        \* the instances
  First,          \* the one executing the run's first turn
  Facts,          \* what the run waits for
  Starts,         \* per start: whether the facts are a step fan's, which are to land, and where
  LongTurns,      \* whether a turn may outlast LEASE_RECHECK_ATTEMPTS looks at its lease
  MaxKept,        \* bound: wake requests kept at a time
  MaxWakeCrashes  \* bound: crashes of an instance

Ids == 1..MaxKept

ASSUME KeptWakeAssumption ==
  /\ First \in Engines /\ LongTurns \in BOOLEAN /\ MaxKept \in Nat /\ MaxWakeCrashes \in Nat
  /\ Starts \subseteq [fan : BOOLEAN, out : SUBSET Facts, at : SUBSET Engines]
  /\ Engines \cap {"free", "lapsing", "out", "in"} = {}

VARIABLES
  row,      \* the run's row: its status, when it is due, and who holds its lease
  start,    \* the start this behaviour has
  fact,     \* per fact: out, the engine that settled it and has not woken yet, or in
  kept,     \* the wake requests in the store
  turn,     \* per engine: its turn of the run
  again,    \* per engine: a wake arrived during that turn
  reason,   \* per engine: why it is being woken
  tasks,    \* what engines have under way in the background
  flags,    \* per engine: a re-check timer, a generic request out, the fan's barrier opened here
  dead      \* the instances that crashed: a restarted one is another instance

wakeVars == <<row, start, fact, kept, turn, again, reason, tasks, flags, dead>>

Reasons == {"none", "fan", "generic"}
Turns   == [at : {"idle", "lock", "note", "read", "suspend", "due", "complete", "release"},
            served : SUBSET Ids, read : BOOLEAN]
NoTurn  == [at |-> "idle", served |-> {}, read |-> FALSE]
Tasks   == [by : Engines, do : {"buffer", "look", "redrive", "list", "take", "honor", "wake", "clear"},
            ask : Reasons, ids : SUBSET Ids, read : BOOLEAN]

WakeTypeOK ==
  /\ start \in Starts
  /\ row \in [status : {"running", "suspended", "done"}, due : {"no", "lease", "net"},
              holder : Engines \cup {"free", "lapsing"}]
  /\ fact \in [Facts -> Engines \cup {"out", "in"}]
  /\ kept \subseteq [id : Ids, ask : {"fan", "generic"}] /\ \A x, y \in kept : x.id = y.id => x = y
  /\ turn \in [Engines -> Turns] /\ again \in [Engines -> BOOLEAN] /\ reason \in [Engines -> Reasons]
  /\ tasks \subseteq Tasks /\ flags \in [Engines -> SUBSET {"timer", "requested", "fired"}]
  /\ dead \subseteq Engines

WakeInit ==
  /\ row = [status |-> "running", due |-> "no", holder |-> First]
  /\ start \in Starts /\ fact = [f \in Facts |-> IF f \in start.out THEN "out" ELSE "in"]
  /\ kept = {} /\ tasks = {} /\ dead = {}
  /\ turn = [e \in Engines |-> IF e = First THEN [NoTurn EXCEPT !.at = "note"] ELSE NoTurn]
  /\ again = [e \in Engines |-> FALSE] /\ reason = [e \in Engines |-> "none"]
  /\ flags = [e \in Engines |-> {}]

-----------------------------------------------------------------------------
Pending == \E f \in Facts : fact[f] = "out"

Task(e, do, ask, ids, read) == [by |-> e, do |-> do, ask |-> ask, ids |-> ids, read |-> read]
Finish(t)    == tasks' = tasks \ {t}
Become(t, u) == tasks' = (tasks \ {t}) \cup {u}

\* noteWakeReason: anything else outweighs the fan.
Noted(old, why) == IF old = "generic" THEN old ELSE why

\* resumeImplicit: one turn at a time per engine; the wakes during it share the next.
Resume(e, why) ==
  /\ reason' = [reason EXCEPT ![e] = Noted(@, why)]
  /\ IF turn[e].at = "idle"
     THEN turn' = [turn EXCEPT ![e] = [NoTurn EXCEPT !.at = "lock"]] /\ UNCHANGED again
     ELSE again' = [again EXCEPT ![e] = TRUE] /\ UNCHANGED turn

EndTurn(e) ==
  /\ turn' = [turn EXCEPT ![e] = IF again[e] THEN [NoTurn EXCEPT !.at = "lock"] ELSE NoTurn]
  /\ again' = [again EXCEPT ![e] = FALSE]

NoResume == UNCHANGED <<turn, again, reason>>

-----------------------------------------------------------------------------
(* A fact lands on an instance, which wakes the run.                       *)

\* The first turn sent the steps, or wrote the waiters, as it read.
Awaited == row.status = "suspended" \/ \E e \in Engines : turn[e].at = "suspend"

Land(e, f) ==
  /\ fact[f] = "out" /\ e \in start.at /\ Awaited /\ fact' = [fact EXCEPT ![f] = e]
  /\ UNCHANGED <<row, start, kept, turn, again, reason, tasks, flags, dead>>

\* A fan's result does when no step is pending any more (stepFanStillRunning).
AskWake(e, f) ==
  /\ fact[f] = e /\ fact' = [fact EXCEPT ![f] = "in"]
  /\ IF start.fan /\ Pending
     THEN NoResume /\ UNCHANGED flags
     ELSE /\ Resume(e, IF start.fan THEN "fan" ELSE "generic")
          /\ flags' = [flags EXCEPT ![e] = IF start.fan THEN @ \cup {"fired"} ELSE @]
  /\ UNCHANGED <<row, start, kept, tasks, dead>>

-----------------------------------------------------------------------------
(* The turn.                                                               *)

\* What a wake that finds the lease held leaves: a request to be kept, one generic
\* one per re-check cycle, and the cycle's timer.
Dropped(e) ==
  LET why == IF reason[e] = "none" THEN "generic" ELSE reason[e]
      asked == why = "generic" /\ "requested" \in flags[e]
  IN  /\ tasks' = IF asked THEN tasks ELSE tasks \cup {Task(e, "buffer", why, {}, FALSE)}
      /\ flags' = [flags EXCEPT ![e] = @ \cup {"timer"} \cup (IF why = "generic" THEN {"requested"} ELSE {})]

\* execute: into the lease if it is free, or claimed by this engine for the turn.
Lock(e) ==
  /\ turn[e].at = "lock" /\ reason' = [reason EXCEPT ![e] = "none"]
  /\ IF row.status # "done" /\ row.holder \in {"free", e}
     THEN /\ row' = [row EXCEPT !.holder = e]
          /\ turn' = [turn EXCEPT ![e].at = "note"]
          /\ UNCHANGED <<again, tasks, flags>>
     ELSE /\ EndTurn(e) /\ UNCHANGED row
          /\ IF row.status = "done" THEN UNCHANGED <<tasks, flags>> ELSE Dropped(e)
  /\ UNCHANGED <<start, fact, kept, dead>>

\* noteServedWakes, before the turn reads the run's state.
Note(e) ==
  /\ turn[e].at = "note"
  /\ turn' = [turn EXCEPT ![e].served = {k.id : k \in kept}, ![e].at = "read"]
  /\ UNCHANGED <<row, start, fact, kept, again, reason, tasks, flags, dead>>

\* The body replays what landed.
Read(e) ==
  /\ turn[e].at = "read"
  /\ turn' = [turn EXCEPT ![e].read = ~Pending, ![e].at = IF Pending THEN "suspend" ELSE "complete"]
  /\ UNCHANGED <<row, start, fact, kept, again, reason, tasks, flags, dead>>

\* Mutant: the wakes kept by the time a turn suspends count as served by it.
SuspendServing(e) ==
  /\ turn[e].at = "suspend"
  /\ row' = [row EXCEPT !.status = "suspended", !.due = "net"]
  /\ turn' = [turn EXCEPT ![e].at = "due", ![e].served = {k.id : k \in kept}]
  /\ UNCHANGED <<start, fact, kept, again, reason, tasks, flags, dead>>

\* The suspension overwrites the run's timer.
Suspend(e) ==
  /\ turn[e].at = "suspend"
  /\ row' = [row EXCEPT !.status = "suspended", !.due = "net"]
  /\ turn' = [turn EXCEPT ![e].at = "due"]
  /\ UNCHANGED <<start, fact, kept, again, reason, tasks, flags, dead>>

\* wakeSeen: served by the turn, or a fan's wake it read the whole fan after.
Seen(k, served, read) == k.id \in served \/ (k.ask = "fan" /\ read)

\* keepDueForKeptWakes, still under the lease.
KeepDue(e) ==
  /\ turn[e].at = "due" /\ turn' = [turn EXCEPT ![e].at = "release"]
  /\ row' = IF \A k \in kept : Seen(k, turn[e].served, turn[e].read) THEN row ELSE [row EXCEPT !.due = "lease"]
  /\ UNCHANGED <<start, fact, kept, again, reason, tasks, flags, dead>>

\* The release, then in the background: the looks at the fan and at the kept wakes.
Release(e) ==
  /\ turn[e].at = "release" /\ row' = [row EXCEPT !.holder = "free"] /\ EndTurn(e)
  /\ tasks' = tasks \cup {Task(e, "honor", "generic", turn[e].served, turn[e].read)}
                    \cup (IF start.fan THEN {Task(e, "redrive", "generic", {}, FALSE)} ELSE {})
  /\ UNCHANGED <<start, fact, kept, reason, flags, dead>>

\* The run ends, and its lease is released; its requests are dropped after.
Complete(e) ==
  /\ turn[e].at = "complete" /\ EndTurn(e)
  /\ row' = [status |-> "done", due |-> "no", holder |-> "free"]
  /\ tasks' = tasks \cup {Task(e, "clear", "generic", {}, FALSE)}
  /\ UNCHANGED <<start, fact, kept, reason, flags, dead>>

-----------------------------------------------------------------------------
(* Kept wakes.                                                             *)

\* Mutant: a request's id is the run's, not its own.
BufferById(t) ==
  /\ t.do = "buffer" /\ kept' = kept \cup {[id |-> 1, ask |-> t.ask]}
  /\ Become(t, [t EXCEPT !.do = "look", !.ids = {1}])
  /\ UNCHANGED <<row, start, fact, turn, again, reason, flags, dead>>

\* requestWakeAfterTurn: kept first,
BufferRequest(t) ==
  LET used == {k.id : k \in kept} \cup UNION {u.ids : u \in tasks} \cup UNION {turn[e].served : e \in Engines}
  IN  /\ t.do = "buffer"
      /\ \E id \in Ids \ used :
           /\ \A i \in Ids \ used : id <= i
           /\ kept' = kept \cup {[id |-> id, ask |-> t.ask]}
           /\ Become(t, [t EXCEPT !.do = "look", !.ids = {id}])
      /\ UNCHANGED <<row, start, fact, turn, again, reason, flags, dead>>

\* Mutant: a finished run's request is left to the holder.
LookAgainTrusting(t) ==
  LET suspended == row.status = "suspended"
      elsewhere == row.holder \notin {"free", t.by}
  IN  /\ t.do = "look" /\ Finish(t)
      /\ row' = IF suspended /\ elsewhere THEN [row EXCEPT !.due = "lease"] ELSE row
      /\ flags' = IF suspended /\ ~elsewhere THEN [flags EXCEPT ![t.by] = @ \cup {"timer"}] ELSE flags
      /\ UNCHANGED <<start, fact, kept, turn, again, reason, dead>>

\* looked at second: a holder elsewhere looks when it ends, and leaves the run due if
\* it dies; a run nobody executes by now is looked at by this engine's timer.
LookAgain(t) ==
  LET suspended == row.status = "suspended"
      elsewhere == row.holder \notin {"free", t.by}
  IN  /\ t.do = "look" /\ Finish(t)
      /\ kept' = IF row.status = "done" THEN {k \in kept : k.id \notin t.ids} ELSE kept
      /\ row' = IF suspended /\ elsewhere THEN [row EXCEPT !.due = "lease"] ELSE row
      /\ flags' = IF suspended /\ ~elsewhere THEN [flags EXCEPT ![t.by] = @ \cup {"timer"}] ELSE flags
      /\ UNCHANGED <<start, fact, turn, again, reason, dead>>

\* honorWakeRequests: what the turn served or saw is dropped; for the rest the run is
\* made due, and woken.
Honor(t) ==
  LET seen == {k \in kept : Seen(k, t.ids, t.read)}
  IN  /\ t.do = "honor" /\ kept' = kept \ seen
      /\ IF kept = seen THEN Finish(t) ELSE Become(t, Task(t.by, "wake", "generic", {}, FALSE))
      /\ UNCHANGED <<row, start, fact, turn, again, reason, flags, dead>>

HonorWake(t) ==
  /\ t.do = "wake" /\ Finish(t) /\ Resume(t.by, "generic")
  /\ row' = IF row.status = "suspended" THEN [row EXCEPT !.due = "lease"] ELSE row
  /\ UNCHANGED <<start, fact, kept, flags, dead>>

Clear(t) ==
  /\ t.do = "clear" /\ Finish(t) /\ kept' = {}
  /\ UNCHANGED <<row, start, fact, turn, again, reason, flags, dead>>

\* redriveSettledStepFans: unless the barrier opened here, or a step is out,
Redrive(t) ==
  /\ t.do = "redrive"
  /\ IF "fired" \in flags[t.by] \/ Pending THEN Finish(t) ELSE Become(t, [t EXCEPT !.do = "take"])
  /\ UNCHANGED <<row, start, fact, kept, turn, again, reason, flags, dead>>

\* a suspended run is leased, and resumed under that lease.
CanTake == row.holder = "free" /\ row.status = "suspended"
TakeAndResume(e) == CanTake /\ row' = [row EXCEPT !.holder = e] /\ Resume(e, "generic")

RedriveTake(t) ==
  /\ t.do = "take" /\ Finish(t)
  /\ TakeAndResume(t.by) \/ (~CanTake /\ NoResume /\ UNCHANGED row)
  /\ UNCHANGED <<start, fact, kept, flags, dead>>

\* retryDroppedWake: again later while the run is leased, unless this was the last of
\* LEASE_RECHECK_ATTEMPTS looks,
Recheck(e) ==
  LET leased == row.status = "suspended" /\ row.holder # "free"
  IN  /\ "timer" \in flags[e]
      /\ \/ leased /\ flags' = [flags EXCEPT ![e] = @ \ {"requested"}]
         \/ (leased => LongTurns) /\ flags' = [flags EXCEPT ![e] = @ \ {"timer", "requested"}]
      /\ tasks' = IF CanTake THEN tasks \cup {Task(e, "list", "generic", {}, FALSE)} ELSE tasks
      /\ UNCHANGED <<row, start, fact, kept, turn, again, reason, dead>>

\* else the run is leased and resumed if a wake is still kept for it.
RecheckList(t) ==
  /\ t.do = "list" /\ IF kept = {} THEN Finish(t) ELSE Become(t, [t EXCEPT !.do = "take"])
  /\ UNCHANGED <<row, start, fact, kept, turn, again, reason, flags, dead>>

-----------------------------------------------------------------------------
(* Timers, recovery and crashes.                                           *)

\* A due run is resumed by any instance's poll. The reconcile is a safety net, counted on
\* only once an instance crashed.
PollDue(e) ==
  /\ row.due = "lease" \/ (row.due = "net" /\ dead # {})
  /\ TakeAndResume(e)
  /\ UNCHANGED <<start, fact, kept, tasks, flags, dead>>

\* recoverIncomplete: a first turn cut short.
Recover(e) ==
  /\ row.status = "running" /\ row.holder = "free"
  /\ row' = [row EXCEPT !.holder = e] /\ Resume(e, "generic")
  /\ UNCHANGED <<start, fact, kept, tasks, flags, dead>>

\* The instance dies. What it settled and did not wake for waits for the reconcile (a
\* step's result is redelivered, too); so does a wake its turn alone knew of.
CrashEngine(e) ==
  /\ Cardinality(dead) < MaxWakeCrashes /\ dead' = dead \cup {e} /\ row.status # "done"
  /\ fact' = [f \in Facts |-> IF fact[f] = e THEN "in" ELSE fact[f]]
  /\ row' = IF row.holder = e THEN [row EXCEPT !.holder = "lapsing"] ELSE row
  /\ turn' = [turn EXCEPT ![e] = NoTurn] /\ again' = [again EXCEPT ![e] = FALSE]
  /\ reason' = [reason EXCEPT ![e] = "none"] /\ flags' = [flags EXCEPT ![e] = {}]
  /\ tasks' = {t \in tasks : t.by # e} /\ UNCHANGED <<start, kept>>

LeaseLapses ==
  /\ row.holder = "lapsing" /\ row' = [row EXCEPT !.holder = "free"]
  /\ UNCHANGED <<start, fact, kept, turn, again, reason, tasks, flags, dead>>

-----------------------------------------------------------------------------
DoTurn(e) ==
  Lock(e) \/ Note(e) \/ Read(e) \/ Suspend(e) \/ KeepDue(e) \/ Release(e) \/ Complete(e)
DoTask(t) ==
  BufferRequest(t) \/ LookAgain(t) \/ Honor(t) \/ HonorWake(t) \/ Clear(t) \/ Redrive(t) \/ RedriveTake(t)
  \/ RecheckList(t)
DoTasks(e) == \E t \in tasks : t.by = e /\ DoTask(t)
Wakes(e)   == \E f \in Facts : AskWake(e, f)

WakeNext ==
  \/ \E e \in Engines \ dead :
       \/ \E f \in Facts : Land(e, f)
       \/ Wakes(e) \/ DoTurn(e) \/ DoTasks(e)
       \/ Recheck(e) \/ PollDue(e) \/ Recover(e) \/ CrashEngine(e)
  \/ LeaseLapses

WakeSpec == WakeInit /\ [][WakeNext]_wakeVars

\* Facts land, engines go on with what they began, their timers fire.
WakeFairness ==
  /\ WF_wakeVars(LeaseLapses)
  /\ \A f \in Facts : WF_wakeVars(\E e \in Engines \ dead : Land(e, f))
  /\ WF_wakeVars(\E e \in Engines \ dead : PollDue(e)) /\ WF_wakeVars(\E e \in Engines \ dead : Recover(e))
  /\ \A e \in Engines :
       /\ WF_wakeVars(Wakes(e)) /\ WF_wakeVars(DoTurn(e)) /\ WF_wakeVars(DoTasks(e))
       /\ WF_wakeVars(e \notin dead /\ Recheck(e))

-----------------------------------------------------------------------------
\* Once the run is done and nothing is under way for it, no wake request stays.
NoKeptLeft ==
  row.status = "done" /\ dead = {} /\ tasks = {} /\ (\A e \in Engines : turn[e].at = "idle") => kept = {}

\* Not so in the code (README, 7): once every fact has landed and its wake was asked for, the run is done, or something
\* will still bring it back sooner than the reconcile: a turn, a task or a timer of an
\* instance, or a due time.
NeverStranded ==
  (\A f \in Facts : fact[f] = "in") /\ dead = {} =>
    \/ row.status = "done" \/ row.due = "lease" \/ tasks # {}
    \/ \E e \in Engines : turn[e].at # "idle" \/ "timer" \in flags[e]

\* No wake is lost: a run all of whose facts landed ends, and without the
\* reconcile unless an instance crashed.
WakesArrive == <>(row.status = "done")
=============================================================================
