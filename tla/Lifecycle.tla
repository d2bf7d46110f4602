------------------------------ MODULE Lifecycle ------------------------------
(***************************************************************************)
(* The lifecycle events of one run: the marker its terminal write carries   *)
(* (withLifecycleMarker), the publishers that start the subscribers and     *)
(* settle the marker (publishLifecycle, sweepLifecycleEvents,               *)
(* healLifecycleEvents, all through publishSettledLocked, and               *)
(* dropOrphanedSubscribers), and the requeue that makes the run end again   *)
(* (packages/core/src/engine.ts, lifecycle-events.ts).                     *)
(*                                                                         *)
(* One action is one store call, or one start of a subscriber.              *)
(* Abstractions: an engine runs one publisher at a time; a subscriber       *)
(* always wants the event (no `where`) and starts a run of its own (no      *)
(* debounce); the clock is the run's `age`, in the intervals the code       *)
(* tells apart; every engine first saw a late announcement recently.        *)
(***************************************************************************)
EXTENDS Integers, FiniteSets

CONSTANTS
  Engines,     \* the processes of the fleet
  Subs,        \* the subscribers of the run's workflow
  On,          \* per subscriber: the engines that have it
  KindsOf,     \* per subscriber: the endings it wants
  Early,       \* the subscribers every engine has seen announced
  MaxRequeues, \* bound: requeues of the run
  MaxLifecycleFaults \* bound: crashes, lapsed leases, failed reads and starts

Kinds == {"completed", "failed"}

ASSUME LifecycleAssumption ==
  /\ On \in [Subs -> SUBSET Engines] /\ KindsOf \in [Subs -> SUBSET Kinds]
  /\ Early \subseteq Subs /\ MaxRequeues \in Nat /\ MaxLifecycleFaults \in Nat
  /\ "free" \notin Engines

VARIABLES
  ending,    \* how the run ended, or "live"
  age,       \* since then: in its grace, in the heal window, past the orphan limit
  tags,      \* the run's lifecycle tags
  read,      \* those the turn that will settle the run has read
  lease,     \* the publisher that holds the run's lease
  announced, \* subscribers the fleet announces
  pub,       \* per engine: its publisher
  healed,    \* per engine: subscribers it has healed
  started,   \* the subscribers' runs, by kind and subscriber
  told,      \* history: failures to start that were reported, likewise
  due,       \* history: the subscribers the marker of the last ending stands for
  clean,     \* history: no requeue crossed a publisher or an unresolved marker, and no publish
             \* that could not read the fleet shared the run with another
  requeues, mishaps \* history: requeues and faults so far

lifecycleVars ==
  <<ending, age, tags, read, lease, announced, pub, healed, started, told, due, clean, requeues, mishaps>>

Ages   == {"fresh", "window", "old"}
Modes  == {"live", "sweep", "heal", "drop"}
Stages == {"idle", "fleet", "lock", "start", "write"}

Marker == [pending : BOOLEAN, owed : SUBSET Subs, triggered : SUBSET Subs, failed : SUBSET Subs]
NoMarker == [pending |-> FALSE, owed |-> {}, triggered |-> {}, failed |-> {}]

Publisher ==
  [at : Stages, mode : Modes, kind : Kinds, listed : Kinds, targets : SUBSET Subs, todo : SUBSET Subs,
   reached : SUBSET Subs, failed : SUBSET Subs, owe : SUBSET Subs, keep : BOOLEAN, before : Marker]
Idle ==
  [at |-> "idle", mode |-> "live", kind |-> "failed", listed |-> "failed", targets |-> {}, todo |-> {},
   reached |-> {}, failed |-> {}, owe |-> {}, keep |-> FALSE, before |-> NoMarker]

LifecycleTypeOK ==
  /\ ending \in Kinds \cup {"live"} /\ age \in Ages /\ tags \in Marker /\ read \in Marker
  /\ lease \in Engines \cup {"free"} /\ announced \in SUBSET Subs
  /\ pub \in [Engines -> Publisher] /\ healed \in [Engines -> SUBSET Subs]
  /\ started \subseteq {x \in Kinds \X Subs : x[1] \in KindsOf[x[2]]} /\ told \subseteq Kinds \X Subs
  /\ due \subseteq Subs /\ clean \in BOOLEAN
  /\ requeues \in 0..MaxRequeues /\ mishaps \in 0..MaxLifecycleFaults

LifecycleInit ==
  /\ ending = "live" /\ age = "fresh" /\ tags = NoMarker /\ read = NoMarker /\ lease = "free" /\ announced = Early
  /\ pub = [e \in Engines |-> Idle] /\ healed = [e \in Engines |-> {}]
  /\ started = {} /\ told = {} /\ due = {} /\ clean = TRUE /\ requeues = 0 /\ mishaps = 0

Wanting(k)  == {s \in Subs : k \in KindsOf[s]}
Local(e, k) == {s \in Wanting(k) : e \in On[s]}
Done        == tags.triggered \cup tags.failed
Unresolved  == tags.pending /\ tags.owed = {}
Publishing  == \E e \in Engines : pub[e].at # "idle"

\* A publisher that goes on beside another one (its lease lapsed), one of them keeping
\* the marker unresolved.
Blurred(e, keep) == \E f \in Engines \ {e} : pub[f].at \in {"start", "write"} /\ (keep \/ pub[f].keep)

Mishap == mishaps < MaxLifecycleFaults /\ mishaps' = mishaps + 1

-----------------------------------------------------------------------------
(* The run.                                                                *)

\* Mutant: a settling engine that cannot read the fleet marks its own subscribers only.
MarkLocal(e, k, usable, seen) ==
  LET subs == (IF usable THEN seen \cap Wanting(k) ELSE {}) \cup Local(e, k)
      marked == [read EXCEPT !.pending = @ \/ subs # {}, !.owed = @ \cup subs]
  IN  IF marked = read THEN tags ELSE marked

\* withLifecycleMarker: with a usable read of the fleet, an owed tag per
\* subscriber it knows; without one, the pending tag alone. They are added to the
\* tags the turn read, and written unless they are among those already.
Mark(e, k, usable, seen) ==
  LET subs == (seen \cap Wanting(k)) \cup Local(e, k)
      marked == IF ~usable THEN [read EXCEPT !.pending = TRUE]
                ELSE [read EXCEPT !.pending = @ \/ subs # {}, !.owed = @ \cup subs]
  IN  IF marked = read THEN tags ELSE marked

\* The terminal write carries the marker. The read may be older than the last
\* announcement. With subscribers of its own the engine goes on to publish.
Settle(e, k, usable, seen) ==
  /\ ending = "live" /\ Early \subseteq seen /\ seen \subseteq announced
  /\ ending' = k /\ age' = "fresh"
  /\ tags' = Mark(e, k, usable, seen) /\ read' = NoMarker
  /\ due' = IF usable THEN (seen \cap Wanting(k)) \cup Local(e, k) ELSE announced \cap Wanting(k)
  /\ clean' = (clean /\ (usable \/ requeues = 0))
  /\ pub' = IF pub[e].at = "idle" /\ Local(e, k) # {} THEN [pub EXCEPT ![e].at = "lock"] ELSE pub
  /\ UNCHANGED <<lease, announced, healed, started, told, requeues, mishaps>>

Grow ==
  /\ ending # "live" /\ age # "old"
  /\ age' = IF age = "fresh" THEN "window" ELSE "old"
  /\ UNCHANGED <<ending, tags, read, lease, announced, pub, healed, started, told, due, clean, requeues, mishaps>>

Announce(s) ==
  /\ s \notin announced /\ announced' = announced \cup {s}
  /\ UNCHANGED <<ending, age, tags, read, lease, pub, healed, started, told, due, clean, requeues, mishaps>>

\* A turn of the run begins, with the row it reads.
BeginTurn ==
  /\ ending = "live" /\ read # tags /\ read' = tags
  /\ UNCHANGED <<ending, age, tags, lease, announced, pub, healed, started, told, due, clean, requeues, mishaps>>

\* requeue, of a run in any status, keeps the tags, and clears the lease whoever holds it.
RequeueSettled ==
  /\ requeues < MaxRequeues /\ requeues' = requeues + 1
  /\ ending' = "live" /\ read' = IF ending = "live" THEN read ELSE tags
  /\ lease' = "free" /\ due' = {} /\ clean' = (clean /\ ~Publishing)
  /\ UNCHANGED <<age, tags, announced, pub, healed, started, told, mishaps>>

-----------------------------------------------------------------------------
(* The publishers.                                                         *)

Set(e, p) == pub' = [pub EXCEPT ![e] = p]

\* The sweep takes a marked run that is out of its grace.
Sweep(e) ==
  /\ pub[e].at = "idle" /\ ending # "live" /\ age # "fresh" /\ tags.pending
  /\ Set(e, [Idle EXCEPT !.at = "lock", !.mode = "sweep", !.listed = ending])
  /\ UNCHANGED <<ending, age, tags, read, lease, announced, healed, started, told, due, clean, requeues, mishaps>>

\* Mutant: owed subscribers that nobody has are kept.
AfterNothing(e) == Idle

\* After a sweep's publish come the orphans, once the run is old.
After(e) ==
  IF pub[e].mode = "sweep" /\ age = "old"
  THEN [Idle EXCEPT !.at = "fleet", !.mode = "drop", !.listed = pub[e].listed] ELSE Idle

Missing(e) == ((announced \cap Wanting(ending)) \cup Local(e, ending)) \ (tags.owed \cup Done \cup healed[e])

\* The heal pass takes a resolved run in its window that misses a subscriber, and
\* remembers that it did (once the publish is through; a publish that is lost is not).
Heal(e) ==
  /\ pub[e].at = "idle" /\ ending # "live" /\ age = "window" /\ ~Unresolved /\ Missing(e) # {}
  /\ Set(e, [Idle EXCEPT !.at = "lock", !.mode = "heal", !.owe = Missing(e)])
  /\ UNCHANGED <<ending, age, tags, read, lease, announced, healed, started, told, due, clean, requeues, mishaps>>

\* Another publisher has the run: left for the next tick.
Busy(e) ==
  /\ pub[e].at = "lock" /\ lease # "free" /\ Set(e, Idle)
  /\ UNCHANGED <<ending, age, tags, read, lease, announced, healed, started, told, due, clean, requeues, mishaps>>

\* Mutant: whoever is owed is started with the ending there is now.
TargetsOwed(e, ok) ==
  LET full == (IF ok THEN (announced \cap Wanting(ending)) ELSE {}) \cup Local(e, ending)
  IN  IF pub[e].mode = "heal" THEN pub[e].owe \cap Local(e, ending)
      ELSE IF Unresolved THEN (full \ Done) \cap Local(e, ending) ELSE {s \in tags.owed : e \in On[s]}

\* Whom this publish starts, and whom it leaves to the engines that have them.
Targets(e, ok) ==
  LET k == ending
      full == (IF ok THEN (announced \cap Wanting(k)) ELSE {}) \cup Local(e, k)
  IN  IF pub[e].mode = "heal" THEN pub[e].owe \cap Local(e, k)
      ELSE IF Unresolved THEN (full \ Done) \cap Local(e, k) ELSE tags.owed \cap Local(e, k)
Owes(e, ok) ==
  IF pub[e].mode = "heal" THEN pub[e].owe \ Local(e, ending)
  ELSE IF Unresolved /\ ok THEN (announced \cap Wanting(ending)) \ (Done \cup Local(e, ending)) ELSE {}

\* publishSettledLocked takes the lease, reads the run and the fleet, and stops
\* if there is nothing for it to do. A failed read counts as a mishap.
Decide(e) ==
  /\ pub[e].at = "lock" /\ pub[e].mode # "drop" /\ lease = "free"
  /\ \E ok \in BOOLEAN :
       /\ IF ok THEN UNCHANGED mishaps ELSE Mishap
       /\ LET targets == Targets(e, ok)
              owe == Owes(e, ok)
              resolved == pub[e].mode # "heal" /\ Unresolved /\ ok
          IN  IF ending = "live" \/ (targets = {} /\ owe = {} /\ ~resolved)
              THEN Set(e, After(e)) /\ UNCHANGED <<lease, clean>>
              ELSE /\ lease' = e /\ clean' = (clean /\ ~Blurred(e, Unresolved /\ ~resolved))
                   /\ Set(e, [Idle EXCEPT !.at = "start", !.mode = pub[e].mode, !.kind = ending,
                                !.listed = pub[e].listed, !.targets = targets,
                                !.todo = targets, !.owe = owe, !.keep = Unresolved /\ ~resolved])
  /\ UNCHANGED <<ending, age, tags, read, announced, healed, started, told, due, requeues>>

\* A subscriber's run has a deterministic id: starting it again is nothing. Or
\* its start throws.
StartSub(e, s) ==
  /\ pub[e].at = "start" /\ s \in pub[e].todo
  /\ \/ /\ started' = started \cup {<<pub[e].kind, s>>} /\ UNCHANGED mishaps
        /\ Set(e, [pub[e] EXCEPT !.todo = @ \ {s}, !.reached = @ \cup {s}])
     \/ /\ Mishap /\ UNCHANGED started
        /\ Set(e, [pub[e] EXCEPT !.todo = @ \ {s}, !.failed = @ \cup {s}])
  /\ UNCHANGED <<ending, age, tags, read, lease, announced, healed, told, due, clean, requeues>>

\* Mutant: the tags read before the starts are written back.
RereadNot(e) ==
  /\ pub[e].at = "start" /\ pub[e].todo = {}
  /\ Set(e, [pub[e] EXCEPT !.at = "write", !.before = [NoMarker EXCEPT !.pending = tags.pending]])
  /\ UNCHANGED <<ending, age, tags, read, lease, announced, healed, started, told, due, clean, requeues, mishaps>>

\* The run is read again before its tags are written.
Reread(e) ==
  /\ pub[e].at = "start" /\ pub[e].todo = {}
  /\ Set(e, [pub[e] EXCEPT !.at = "write", !.before = tags])
  /\ UNCHANGED <<ending, age, tags, read, lease, announced, healed, started, told, due, clean, requeues, mishaps>>

\* dropOrphanedSubscribers reads the fleet before it has the lease; unread, it gives up.
ReadFleet(e) ==
  /\ pub[e].at = "fleet"
  /\ \/ Set(e, [pub[e] EXCEPT !.at = "lock", !.owe = announced]) /\ UNCHANGED mishaps
     \/ Set(e, Idle) /\ Mishap
  /\ UNCHANGED <<ending, age, tags, read, lease, announced, healed, started, told, due, clean, requeues>>

\* Under the lease it reads the run's tags, but not whether it is settled still:
\* owed subscribers that nobody had for the ending that the sweep listed are given up.
DecideDrop(e) ==
  /\ pub[e].at = "lock" /\ pub[e].mode = "drop" /\ lease = "free"
  /\ LET k == pub[e].listed
         orphans == tags.owed \ ((pub[e].owe \cap Wanting(k)) \cup Local(e, k))
     IN  IF orphans = {} THEN Set(e, Idle) /\ UNCHANGED <<lease, clean>>
         ELSE /\ lease' = e /\ clean' = (clean /\ ~Blurred(e, FALSE))
              /\ Set(e, [Idle EXCEPT !.at = "write", !.mode = "drop", !.kind = k, !.targets = orphans,
                           !.failed = orphans, !.before = tags])
  /\ UNCHANGED <<ending, age, tags, read, announced, healed, started, told, due, requeues, mishaps>>

\* Mutant: the pending tag goes with this engine's own subscribers.
SettledEarly(p) ==
  LET owed == (p.before.owed \ p.targets) \cup p.owe
  IN  [pending |-> p.keep, owed |-> owed, triggered |-> p.before.triggered \cup p.reached,
       failed |-> (p.before.failed \ p.reached) \cup p.failed]

\* What a publish leaves of the marker it read.
Settled(p) ==
  LET owed == (p.before.owed \ p.targets) \cup p.owe
  IN  [pending |-> owed # {} \/ p.keep, owed |-> owed, triggered |-> p.before.triggered \cup p.reached,
       failed |-> (p.before.failed \ p.reached) \cup p.failed]

\* The tags are written whatever the run has become, the failures that are new
\* are reported, and the lease is released by its owner.
WriteMarker(e) ==
  LET p == pub[e]
  IN  /\ p.at = "write" /\ Set(e, After(e))
      /\ tags' = Settled(p)
      /\ told' = told \cup {<<p.kind, s>> : s \in p.failed \ p.before.failed}
      /\ healed' = IF p.mode = "heal" THEN [healed EXCEPT ![e] = @ \cup p.targets \cup p.owe] ELSE healed
      /\ lease' = IF lease = e THEN "free" ELSE lease
      /\ UNCHANGED <<ending, age, read, announced, started, due, clean, requeues, mishaps>>

-----------------------------------------------------------------------------
\* The process of a publisher dies: what it held lapses, what it healed is forgotten.
CrashPublisher(e) ==
  /\ Mishap /\ pub[e].at # "idle" /\ Set(e, Idle)
  /\ lease' = IF lease = e THEN "free" ELSE lease
  /\ healed' = [healed EXCEPT ![e] = {}]
  /\ UNCHANGED <<ending, age, tags, read, announced, started, told, due, clean, requeues>>

\* A publish that takes longer than the lease goes on without it.
LeaseLapses ==
  /\ Mishap /\ lease # "free" /\ lease' = "free"
  /\ UNCHANGED <<ending, age, tags, read, announced, pub, healed, started, told, due, clean, requeues>>

Publish(e) == Decide(e) \/ DecideDrop(e)
Advance(e) == (\E s \in Subs : StartSub(e, s)) \/ Reread(e) \/ WriteMarker(e) \/ ReadFleet(e)

LifecycleNext ==
  \/ \E e \in Engines :
       \/ \E k \in Kinds, usable \in BOOLEAN, seen \in SUBSET Subs : Settle(e, k, usable, seen)
       \/ Sweep(e) \/ Heal(e) \/ Busy(e) \/ Publish(e) \/ Advance(e) \/ CrashPublisher(e)
  \/ Grow \/ BeginTurn \/ RequeueSettled \/ LeaseLapses \/ (\E s \in Subs : Announce(s))

LifecycleSpec == LifecycleInit /\ [][LifecycleNext]_lifecycleVars

\* Every idle engine sweeps, and in the end gets the lease; a publish goes on; time passes.
LifecycleFairness ==
  /\ WF_lifecycleVars(Grow)
  /\ \A e \in Engines :
       /\ WF_lifecycleVars(Sweep(e) \/ Advance(e)) /\ SF_lifecycleVars(Publish(e))

-----------------------------------------------------------------------------
\* A subscriber is told of the last ending: its run is started, or its failure to
\* start is reported or on record.
Told(s) == <<ending, s>> \in started \cup told \/ s \in tags.failed

\* A settled run has a record of whom its event is still owed to: while the history
\* is clean, a subscriber the marker stood for is told, is owed, or is to be resolved,
\* whichever publishers work on the run at once, die, or outlive their lease.
OwedUntilTold ==
  clean /\ ending # "live" => \A s \in due : Told(s) \/ s \in tags.owed \/ Unresolved

\* In the end each of them is told: no crash, lapsed lease, lost publisher or
\* unread fleet leaves one waiting.
EventuallyTold == <>[](clean /\ ending # "live" => \A s \in due : Told(s))

\* The marker, which keeps a run from being pruned, goes in the end.
MarkerGoes == <>[](ending # "live" => ~tags.pending)

\* Not so in the code (README, 7): the record is as complete for a run that was requeued and ends again.
EveryEndingTold ==
  ending # "live" => \A s \in due : Told(s) \/ s \in tags.owed \/ Unresolved
=============================================================================
