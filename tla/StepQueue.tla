------------------------------ MODULE StepQueue ------------------------------
(***************************************************************************)
(* One step queue: the dispatched steps of some runs that name it, its      *)
(* admission (the in-process QueueController of packages/core/src/queue.ts, *)
(* or the acquire script of packages/admission-redis), and the engines that *)
(* ask it for a slot (callRemote) and give the slot back when a result is   *)
(* consumed (completeRemoteResults, releaseQueueSlot).                     *)
(*                                                                         *)
(* Abstractions: tryAdmit is one critical section (it has no await, or is   *)
(* one script) and is taken together with the turn that asks; the rate      *)
(* window turns over at any time; a waiter that was blocked is retried by   *)
(* any engine (the poller, or a freed-slot wake); an engine that dies is    *)
(* back at once, as another process.                                        *)
(***************************************************************************)
EXTENDS Integers, FiniteSets, SequencesExt

CONSTANTS
  Engines,     \* the processes of the fleet
  Steps,       \* the queued calls
  KeyOf,       \* the fairness key of each call
  PriorityOf,  \* the priority of each call
  Concurrencies,      \* the values of `concurrency` to look at; 0 is none
  RateLimits,  \* the values of `rateLimit.limit` to look at; 0 is none
  MaxAttempts, \* bound: attempts of a call
  MaxQueueFaults \* bound: crashes, cancels, store failures, expired waiters, lapsed keys

Keys == {KeyOf[s] : s \in Steps}

ASSUME StepQueueAssumption ==
  /\ Concurrencies \subseteq Nat /\ RateLimits \subseteq Nat /\ MaxAttempts \in Nat \ {0}
  /\ MaxQueueFaults \in Nat /\ PriorityOf \in [Steps -> Nat] /\ DOMAIN KeyOf = Steps
  /\ IsFiniteSet(Steps) /\ "fleet" \notin Engines /\ "nobody" \notin Engines

VARIABLES
  fleet,   \* the engines of the deployment
  shared,  \* the backend is the fleet's (Redis), not each engine's own
  stable,  \* a restarted process keeps its `instanceId`; the default is a fresh one
  policy,  \* `fairness`, `order`, `concurrency` and `rateLimit` of the queue
  phase,   \* per call: where it is
  attempt, \* per call: attempts so far
  count,   \* per engine: the slots its own accounting counts (inFlight)
  slots,   \* the calls that hold a slot of the shared accounting
  owner,   \* per call: the process that took its last slot and has not given it back
  lapsed,  \* filed slots whose owner's liveness key is gone
  waiters, \* per accounting: blocked calls, in order of arrival
  served,  \* per accounting: keys, the one served last at the end
  used,    \* per accounting: admissions in the current rate window
  tracks,  \* per engine: calls whose slot it will give back (stepQueue)
  passed,  \* history, per accounting and waiter: keys served since it came, or its own was
  evicted, \* history: calls whose slot was reclaimed although its owner lives
  hurt     \* history: what went wrong so far

filing    == <<lapsed, evicted>>
books     == <<count, slots, owner, filing, waiters, served, used>>
setting   == <<fleet, shared, stable, policy>>
queueVars == <<setting, phase, attempt, books, tracks, passed, hurt>>

\* The accountings: one for the fleet, or one per engine.
Homes   == Engines \cup {"fleet"}
Home(e) == IF shared THEN "fleet" ELSE e

Phases   == {"calling", "waiting", "admitted", "sent", "settled", "late", "gone"}
InFlight == {s \in Steps : phase[s] \in {"admitted", "sent", "late"}}
Faults   == {"crash", "cancel", "store", "expiry", "lapse"}

QueueTypeOK ==
  /\ fleet \in SUBSET Engines \ {{}} /\ shared \in BOOLEAN /\ stable \in BOOLEAN /\ (stable => shared)
  /\ policy \in [fair : BOOLEAN, lifo : BOOLEAN, concurrency : Concurrencies, rate : RateLimits]
  /\ phase \in [Steps -> Phases] /\ attempt \in [Steps -> 0..MaxAttempts]
  /\ count \in [Engines -> Nat] /\ slots \subseteq Steps /\ owner \in [Steps -> Engines \cup {"nobody"}]
  /\ lapsed \subseteq slots /\ evicted \subseteq Steps
  /\ waiters \in [Homes -> Seq(Steps)] /\ \A h \in Homes : IsInjective(waiters[h])
  /\ served \in [Homes -> Seq(Keys)] /\ \A h \in Homes : IsInjective(served[h])
  /\ used \in [Homes -> Nat] /\ \A h \in Homes : used[h] <= policy.rate
  /\ tracks \in [Engines -> SUBSET Steps]
  /\ passed \in [Homes -> [Steps -> SUBSET Keys]] /\ hurt \in SUBSET (Faults \X (1..MaxQueueFaults))

QueueInit ==
  /\ fleet \in SUBSET Engines \ {{}} /\ shared \in BOOLEAN /\ stable \in BOOLEAN /\ (stable => shared)
  /\ policy \in [fair : BOOLEAN, lifo : BOOLEAN, concurrency : Concurrencies, rate : RateLimits]
  /\ phase = [s \in Steps |-> "calling"] /\ attempt = [s \in Steps |-> 0]
  /\ count = [e \in Engines |-> 0] /\ slots = {} /\ owner = [s \in Steps |-> "nobody"]
  /\ lapsed = {} /\ evicted = {}
  /\ waiters = [h \in Homes |-> <<>>] /\ served = [h \in Homes |-> <<>>]
  /\ used = [h \in Homes |-> 0] /\ tracks = [e \in Engines |-> {}]
  /\ passed = [h \in Homes |-> [s \in Steps |-> {}]] /\ hurt = {}

-----------------------------------------------------------------------------
(* The queue.                                                              *)

\* Mutant: an acquire takes any slot that is not its caller's own.
ValidIfOwn(e) == {s \in slots : owner[s] = e}

\* What is left of the shared slots by an acquire of e: it refreshes the liveness key of
\* its own process, and drops the slots whose owner's key is gone, alive or not.
Valid(e)     == {s \in slots : s \in lapsed => owner[s] = e}
EvictedBy(e) == evicted \cup {s \in slots \ Valid(e) : owner[s] # "nobody"}

InUse(e) == IF shared THEN Cardinality(Valid(e)) ELSE count[e]
Full(e)  == policy.concurrency > 0 /\ InUse(e) >= policy.concurrency
Spent(h) == policy.rate > 0 /\ used[h] >= policy.rate

\* Mutant: a waiter that asks again is one more waiter.
RegisteredAgain(h, s) == Append(waiters[h], s)

\* The waiters once the caller is among them; one that was keeps its place.
Registered(h, s) == IF Contains(waiters[h], s) THEN waiters[h] ELSE Append(waiters[h], s)

ServedAt(h, k) == IF Contains(served[h], k) THEN CHOOSE i \in DOMAIN served[h] : served[h][i] = k ELSE 0

\* Mutant: the arrival decides among waiters of one priority, whatever their keys.
BetterByArrival(h, ws, i, j) ==
  LET p == PriorityOf[ws[i]]  q == PriorityOf[ws[j]]
  IN  p > q \/ (p = q /\ IF policy.lifo THEN i > j ELSE i < j)

\* Higher priority; then, if asked for, the key served longest ago; then arrival.
Better(h, ws, i, j) ==
  LET p == PriorityOf[ws[i]]          q == PriorityOf[ws[j]]
      a == ServedAt(h, KeyOf[ws[i]])  b == ServedAt(h, KeyOf[ws[j]])
  IN  \/ p > q
      \/ p = q /\ policy.fair /\ a < b
      \/ p = q /\ (policy.fair => a = b) /\ (IF policy.lifo THEN i > j ELSE i < j)

\* With waiters about, a caller joins them, and goes ahead only if none is better.
IsNext(h, s) ==
  LET ws == Registered(h, s)
  IN  \A i, j \in DOMAIN ws : ws[j] = s => ~Better(h, ws, i, j)

\* The keys' order is kept only where it is read.
Serve(h, s) ==
  served' = IF policy.fair THEN [served EXCEPT ![h] = Append(RemoveFirst(@, KeyOf[s]), KeyOf[s])] ELSE served

\* The history of what passed a waiter by; it starts again when its key is served.
Pass(h, s) ==
  passed' = [passed EXCEPT ![h] = [w \in Steps |->
    IF ~policy.fair \/ KeyOf[w] = KeyOf[s] \/ ~Contains(waiters[h], w) THEN {} ELSE @[w] \cup {KeyOf[s]}]]

Asking(s) == phase[s] \in {"calling", "waiting"}

\* No slot, no budget in the window, or not the next: the run suspends till a
\* retry. A call that is refused by the window alone is not registered.
Block(s, e) ==
  LET h == Home(e)
  IN  /\ Asking(s) /\ (Spent(h) \/ Full(e) \/ ~IsNext(h, s))
      /\ slots' = Valid(e) /\ lapsed' = {} /\ evicted' = EvictedBy(e)
      /\ waiters' = IF Spent(h) THEN waiters ELSE [waiters EXCEPT ![h] = Registered(h, s)]
      /\ phase' = [phase EXCEPT ![s] = "waiting"]
      /\ UNCHANGED <<setting, attempt, count, owner, served, used, tracks, passed, hurt>>

\* A shared slot is filed under the call's id and its taker's, an own one only counted.
Take(s, e) ==
  /\ IF shared THEN slots' = Valid(e) \cup {s} /\ UNCHANGED count
     ELSE count' = [count EXCEPT ![e] = @ + 1] /\ UNCHANGED slots
  /\ lapsed' = {} /\ evicted' = EvictedBy(e) \ {s}
  /\ owner' = [owner EXCEPT ![s] = e]

\* The call takes a slot, and the engine remembers to give it back.
AdmitStep(s, e) ==
  LET h == Home(e)
  IN  /\ Asking(s) /\ ~Spent(h) /\ ~Full(e) /\ IsNext(h, s) /\ attempt[s] < MaxAttempts
      /\ Take(s, e) /\ Serve(h, s) /\ Pass(h, s)
      /\ waiters' = [waiters EXCEPT ![h] = RemoveFirst(@, s)]
      /\ used' = IF policy.rate > 0 THEN [used EXCEPT ![h] = @ + 1] ELSE used
      /\ tracks' = [tracks EXCEPT ![e] = @ \cup {s}]
      /\ phase' = [phase EXCEPT ![s] = "admitted"] /\ attempt' = [attempt EXCEPT ![s] = @ + 1]
      /\ UNCHANGED <<setting, hurt>>

WindowTurns(h) ==
  /\ used[h] > 0 /\ used' = [used EXCEPT ![h] = 0]
  /\ UNCHANGED <<setting, phase, attempt, count, slots, owner, filing, waiters, served, tracks, passed, hurt>>

-----------------------------------------------------------------------------
(* The engines.                                                            *)

\* The pending checkpoint, and the task.
SendStep(s) ==
  /\ phase[s] = "admitted" /\ phase' = [phase EXCEPT ![s] = "sent"]
  /\ UNCHANGED <<setting, attempt, books, tracks, passed, hurt>>

\* Mutant: a result frees a slot on whatever engine consumes it, tracked or not.
ReleaseAlways(s, e) ==
  /\ tracks' = [tracks EXCEPT ![e] = @ \ {s}] /\ UNCHANGED <<owner, evicted>> /\ lapsed' = {}
  /\ IF shared THEN UNCHANGED count /\ \E t \in slots \cup {s} : slots' = slots \ {t}
     ELSE count' = [count EXCEPT ![e] = IF @ = 0 THEN 0 ELSE @ - 1] /\ UNCHANGED slots

\* Mutant: the engine forgets the slot and does not give it back.
ReleaseForgets(s, e) ==
  tracks' = [tracks EXCEPT ![e] = @ \ {s}] /\ UNCHANGED <<count, slots, owner, filing>>

\* releaseQueueSlot: only an engine that took a slot for the call knows of it.
Release(s, e) ==
  IF s \in tracks[e]
  THEN /\ tracks' = [tracks EXCEPT ![e] = @ \ {s}] /\ owner' = [owner EXCEPT ![s] = "nobody"]
       /\ lapsed' = lapsed \ {s} /\ evicted' = evicted \ {s}
       /\ IF shared THEN slots' = slots \ {s} /\ UNCHANGED count
          ELSE count' = [count EXCEPT ![e] = IF @ = 0 THEN 0 ELSE @ - 1] /\ UNCHANGED slots
  ELSE UNCHANGED <<tracks, count, slots, owner, filing>>

\* A result of a pending step frees the slot and settles the step, or ends an
\* attempt that is tried again; of a cancelled run it only frees the slot.
ConsumeStep(s, e) ==
  /\ phase[s] \in {"sent", "late"} /\ Release(s, e)
  /\ \/ phase[s] = "sent" /\ phase' = [phase EXCEPT ![s] = "settled"]
     \/ phase[s] = "sent" /\ attempt[s] < MaxAttempts /\ phase' = [phase EXCEPT ![s] = "calling"]
     \/ phase[s] = "late" /\ phase' = [phase EXCEPT ![s] = "gone"]
  /\ UNCHANGED <<setting, attempt, waiters, served, used, passed, hurt>>

-----------------------------------------------------------------------------
(* What goes wrong.                                                        *)

Hurt(fault) ==
  /\ Cardinality(hurt) < MaxQueueFaults
  /\ hurt' = hurt \cup {<<fault, Cardinality(hurt) + 1>>}

Suffered == {f[1] : f \in hurt}

\* The process dies: its own accounting and its memory of slots are gone, the runs it
\* was driving ask again, and its shared slots belong to nobody; but where it comes back
\* under the same id, they are the slots of a process that lives.
CrashEngine(e) ==
  /\ Hurt("crash")
  /\ tracks' = [tracks EXCEPT ![e] = {}]
  /\ LET lost == {s \in Steps : phase[s] = "admitted" /\ owner[s] = e}
     IN  /\ phase' = [s \in Steps |-> IF s \in lost THEN "calling" ELSE phase[s]]
         /\ attempt' = [s \in Steps |-> IF s \in lost THEN attempt[s] - 1 ELSE attempt[s]]
  /\ owner' = [s \in Steps |-> IF owner[s] = e /\ ~stable THEN "nobody" ELSE owner[s]]
  /\ IF shared THEN UNCHANGED <<count, waiters, served, used, passed>>
     ELSE /\ count' = [count EXCEPT ![e] = 0]
          /\ waiters' = [waiters EXCEPT ![e] = <<>>] /\ served' = [served EXCEPT ![e] = <<>>]
          /\ used' = [used EXCEPT ![e] = 0] /\ passed' = [passed EXCEPT ![e] = [s \in Steps |-> {}]]
  /\ UNCHANGED <<setting, slots, filing>>

\* From now on no liveness key vouches for the owner of these slots.
KeyLapses(set) ==
  /\ shared /\ set # {} /\ lapsed' = lapsed \cup set
  /\ UNCHANGED <<setting, phase, attempt, count, slots, owner, evicted, waiters, served, used, tracks, passed>>

\* The liveness key of a dead process runs out,
KeyEnds(s) == KeyLapses({s} \cap {t \in slots \ lapsed : owner[t] = "nobody"}) /\ UNCHANGED hurt

\* or that of one which lives, but stalls or cannot reach Redis for `instanceTtlMs`.
LapseKey(e) == KeyLapses({t \in slots \ lapsed : owner[t] = e}) /\ Hurt("lapse")

\* A heartbeat gets through again; what was reclaimed meanwhile stays so.
Heartbeat(e) ==
  /\ \E s \in lapsed : owner[s] = e
  /\ lapsed' = {s \in lapsed : owner[s] # e}
  /\ UNCHANGED <<setting, phase, attempt, count, slots, owner, evicted, waiters, served, used, tracks, passed, hurt>>

Unregister(s) ==
  /\ shared /\ Contains(waiters["fleet"], s)
  /\ waiters' = [waiters EXCEPT !["fleet"] = RemoveFirst(@, s)]
  /\ passed' = [passed EXCEPT !["fleet"][s] = {}]
  /\ UNCHANGED <<setting, phase, attempt, count, slots, owner, filing, served, used, tracks>>

\* The shared accounting forgets a waiter that has stopped asking,
Forget(s) == ~Asking(s) /\ Unregister(s) /\ UNCHANGED hurt

\* or one that has not asked for three retry times.
Expire(s) == Asking(s) /\ Unregister(s) /\ Hurt("expiry")

\* The run is cancelled; a task under way still answers.
CancelStep(s) ==
  /\ Hurt("cancel") /\ phase[s] \in {"waiting", "sent"}
  /\ phase' = [phase EXCEPT ![s] = IF phase[s] = "sent" THEN "late" ELSE "gone"]
  /\ UNCHANGED <<setting, attempt, books, tracks, passed>>

\* The pending checkpoint is not stored, or the turn has lost its lease: the slot
\* is taken, and the call is made again.
StoreFails(s) ==
  /\ Hurt("store") /\ phase[s] = "admitted"
  /\ phase' = [phase EXCEPT ![s] = "calling"] /\ attempt' = [attempt EXCEPT ![s] = @ - 1]
  /\ UNCHANGED <<setting, books, tracks, passed>>

QueueNext ==
  \/ \E s \in Steps :
       \/ \E e \in fleet : Block(s, e) \/ AdmitStep(s, e) \/ ConsumeStep(s, e)
       \/ SendStep(s) \/ KeyEnds(s) \/ Forget(s) \/ Expire(s) \/ CancelStep(s) \/ StoreFails(s)
  \/ \E h \in Homes : WindowTurns(h)
  \/ \E e \in fleet : CrashEngine(e) \/ LapseKey(e) \/ Heartbeat(e)

QueueSpec == QueueInit /\ [][QueueNext]_queueVars

\* What comes next of a call: never two of asking, sending and answering.
Proceed(s) == SendStep(s) \/ \E e \in fleet : Block(s, e) \/ AdmitStep(s, e) \/ ConsumeStep(s, e)

\* Pollers retry a blocked call, tasks are sent and answered, windows and
\* liveness keys run out.
QueueFairness ==
  /\ \A s \in Steps :
       /\ WF_queueVars(Proceed(s)) /\ WF_queueVars(KeyEnds(s) \/ Forget(s))
  /\ \A h \in Homes : WF_queueVars(WindowTurns(h))

-----------------------------------------------------------------------------
\* The calls in flight that live processes have dispatched under one accounting,
Dispatched(h) == {s \in InFlight : \E e \in fleet : Home(e) = h /\ owner[s] = e}

\* and those of them whose slot has not been reclaimed.
Running(h) == Dispatched(h) \ evicted

\* No more steps are in flight than the queue allows: on one engine of those it dispatched,
\* or with the shared backend in the fleet of those whose dispatcher lives and has not
\* looked dead; a call counts again from its next slot on.
CapKept == policy.concurrency > 0 => \A h \in Homes : Cardinality(Running(h)) <= policy.concurrency

\* Not so in the code (README, 7): a process that lives keeps its slots, whatever its key does.
CapOfLiving == policy.concurrency > 0 => \A h \in Homes : Cardinality(Dispatched(h)) <= policy.concurrency

\* With key fairness no key is served twice while another of the same priority
\* waits and is served neither before nor in between.
NoKeyMonopoly ==
  [][\A s \in Steps, e \in fleet :
       LET h == Home(e)
       IN  AdmitStep(s, e) /\ policy.fair =>
             \A i \in DOMAIN waiters[h] :
               LET w == waiters[h][i]
               IN  PriorityOf[w] = PriorityOf[s] => KeyOf[s] \notin passed[h][w]]_queueVars

\* What one process with a store that answers may suffer, and every call is served:
\* crashes, unless the shared backend takes it for the same process afterwards; and with
\* the shared backend cancels, late retries and lapses of its key too.
Survivable ==
  /\ Cardinality(fleet) = 1
  /\ Suffered \subseteq (IF stable THEN {} ELSE {"crash"}) \cup (IF shared THEN {"cancel", "expiry", "lapse"} ELSE {})
QueueServes == []Survivable => <>[](\A s \in Steps : phase[s] \in {"settled", "gone"})

\* Not so in the code (README, 7): a slot is held from the admission of a call until its result lands.
SlotsAreInFlight ==
  \A e \in fleet : InUse(e) <= Cardinality(InFlight)

\* Not so in the code (README, 7): a waiter that is registered is one that will ask.
WaitersAsk == \A h \in Homes : \A s \in Range(waiters[h]) : phase[s] # "gone"
=============================================================================
