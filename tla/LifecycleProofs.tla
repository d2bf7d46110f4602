--------------------------- MODULE LifecycleProofs --------------------------
(***************************************************************************)
(* Proofs about Lifecycle for any number of engines, subscribers, requeues  *)
(* and faults: the state is well formed, a subscriber is started for the    *)
(* endings it wants only, and a settled run has a record of whom its event  *)
(* is still owed to. The argument for the record: a publisher writes tags   *)
(* it read after its starts, so what it overwrites is at worst an older     *)
(* record; that one was complete too, unless it was still unresolved, and   *)
(* then the publisher has resolved it itself or is alone with it.          *)
(***************************************************************************)
EXTENDS Lifecycle, TLAPS

-----------------------------------------------------------------------------
(* The state is well formed.                                               *)

\* Whom a publisher is to start wants the ending it publishes.
WantedOnly == \A e \in Engines : pub[e].at = "start" => pub[e].todo \subseteq Wanting(pub[e].kind)

LifecycleShape == LifecycleTypeOK /\ WantedOnly

LEMMA IdleType == Idle \in Publisher /\ Idle.at = "idle"
BY DEF Idle, Publisher, Stages, Modes, Kinds, NoMarker, Marker

LEMMA LocalTypes ==
  ASSUME NEW e, NEW k
  PROVE  Local(e, k) \subseteq Wanting(k) /\ Wanting(k) \subseteq Subs
BY DEF Local, Wanting

LEMMA TargetTypes ==
  ASSUME LifecycleTypeOK, NEW e \in Engines, NEW ok \in BOOLEAN
  PROVE  Targets(e, ok) \subseteq Wanting(ending) /\ Targets(e, ok) \subseteq Subs /\ Owes(e, ok) \subseteq Subs
<1>1. pub[e].owe \subseteq Subs /\ tags.owed \subseteq Subs
  BY DEF LifecycleTypeOK, Publisher, Marker
<1>2. Local(e, ending) \subseteq Wanting(ending) /\ Wanting(ending) \subseteq Subs
  BY LocalTypes
<1> QED
  BY <1>1, <1>2 DEF Targets, Owes

LEMMA AfterType ==
  ASSUME LifecycleTypeOK, NEW e \in Engines
  PROVE  After(e) \in Publisher /\ After(e).at # "start"
<1>1. pub[e].listed \in Kinds
  BY DEF LifecycleTypeOK, Publisher
<1>2. [Idle EXCEPT !.at = "fleet", !.mode = "drop", !.listed = pub[e].listed] \in Publisher
  BY <1>1, IdleType DEF Publisher, Stages, Modes
<1>3. [Idle EXCEPT !.at = "fleet", !.mode = "drop", !.listed = pub[e].listed].at = "fleet"
  BY DEF Idle
<1> QED
  BY <1>2, <1>3, IdleType DEF After

LEMMA MarkType ==
  ASSUME LifecycleTypeOK, NEW e \in Engines, NEW k \in Kinds, NEW usable \in BOOLEAN, NEW seen \in SUBSET Subs
  PROVE  Mark(e, k, usable, seen) \in Marker
<1> DEFINE subs == (seen \cap Wanting(k)) \cup Local(e, k)
           bare == [read EXCEPT !.pending = TRUE]
           full == [read EXCEPT !.pending = @ \/ subs # {}, !.owed = @ \cup subs]
<1>1. subs \subseteq Subs
  BY LocalTypes
<1>2. read \in Marker /\ tags \in Marker
  BY DEF LifecycleTypeOK
<1>3. Mark(e, k, usable, seen) \in {tags, bare, full}
  BY DEF Mark
<1> HIDE DEF subs
<1>4. bare \in Marker /\ full \in Marker
  BY <1>1, <1>2 DEF Marker
<1> QED
  BY <1>2, <1>3, <1>4

LEMMA SettledType ==
  ASSUME NEW p \in Publisher
  PROVE  Settled(p) \in Marker
<1>1. p.before \in Marker /\ p.keep \in BOOLEAN
  BY DEF Publisher
<1>2. p.targets \subseteq Subs /\ p.owe \subseteq Subs /\ p.reached \subseteq Subs /\ p.failed \subseteq Subs
  BY DEF Publisher
<1> QED
  BY <1>1, <1>2 DEF Settled, Marker

\* A publisher goes on: the rest of the shape is as it was.
LEMMA PublisherSet ==
  ASSUME LifecycleShape, NEW e \in Engines, NEW p \in Publisher, Set(e, p),
         p.at = "start" => p.todo \subseteq Wanting(p.kind)
  PROVE  pub' \in [Engines -> Publisher] /\ WantedOnly'
<1>1. pub' = [pub EXCEPT ![e] = p] /\ pub \in [Engines -> Publisher]
  BY DEF Set, LifecycleShape, LifecycleTypeOK
<1>2. \A k : Wanting(k)' = Wanting(k)
  BY DEF Wanting
<1> QED
  BY <1>1, <1>2 DEF LifecycleShape, WantedOnly

LEMMA ShapeInit == LifecycleInit => LifecycleShape
<1> SUFFICES ASSUME LifecycleInit PROVE LifecycleShape
  OBVIOUS
<1>1. NoMarker \in Marker
  BY DEF NoMarker, Marker
<1> QED
  BY <1>1, IdleType, LifecycleAssumption DEF LifecycleInit, LifecycleShape, LifecycleTypeOK, WantedOnly, Ages

LEMMA ShapeStep == LifecycleShape /\ [LifecycleNext]_lifecycleVars => LifecycleShape'
<1> SUFFICES ASSUME LifecycleShape, [LifecycleNext]_lifecycleVars PROVE LifecycleShape'
  OBVIOUS
<1>0. mishaps \in Nat /\ (Mishap => mishaps' \in 0..MaxLifecycleFaults)
  BY LifecycleAssumption DEF LifecycleShape, LifecycleTypeOK, Mishap
<1> USE DEF LifecycleShape
<1>1. ASSUME NEW e \in Engines, NEW k \in Kinds, NEW usable \in BOOLEAN, NEW seen \in SUBSET Subs,
             Settle(e, k, usable, seen)
      PROVE  LifecycleShape'
  <2>1. tags' \in Marker /\ read' \in Marker
    <3>1. NoMarker \in Marker
      BY DEF NoMarker, Marker
    <3> QED
      BY <1>1, <3>1, MarkType DEF Settle
  <2>2. due' \subseteq Subs
    BY <1>1, LocalTypes DEF Settle, LifecycleTypeOK
  <2>3. pub' \in [Engines -> Publisher] /\ WantedOnly'
    <3>1. CASE pub' = pub
      BY <3>1 DEF LifecycleTypeOK, WantedOnly, Wanting
    <3>2. CASE pub' = [pub EXCEPT ![e].at = "lock"]
      <4>1. [pub[e] EXCEPT !.at = "lock"] \in Publisher /\ [pub[e] EXCEPT !.at = "lock"].at = "lock"
        BY DEF LifecycleTypeOK, Publisher, Stages
      <4>2. Set(e, [pub[e] EXCEPT !.at = "lock"])
        BY <3>2 DEF Set
      <4> QED
        BY <4>1, <4>2, PublisherSet
    <3> QED
      BY <1>1, <3>1, <3>2 DEF Settle
  <2>4. clean' \in BOOLEAN /\ ending' = k /\ age' = "fresh"
        /\ UNCHANGED <<lease, announced, healed, started, told, requeues, mishaps>>
    BY <1>1 DEF Settle
  <2> QED
    BY <2>1, <2>2, <2>3, <2>4 DEF LifecycleTypeOK, Ages
<1>2. ASSUME NEW e \in Engines, Sweep(e) PROVE LifecycleShape'
  <2> DEFINE p == [Idle EXCEPT !.at = "lock", !.mode = "sweep", !.listed = ending]
  <2>1. p \in Publisher /\ p.at = "lock"
    BY <1>2, IdleType DEF Sweep, LifecycleTypeOK, Publisher, Stages, Modes
  <2>2. Set(e, p)
    BY <1>2 DEF Sweep
  <2> HIDE DEF p
  <2>3. pub' \in [Engines -> Publisher] /\ WantedOnly'
    BY <2>1, <2>2, PublisherSet
  <2> QED
    BY <1>2, <2>3 DEF Sweep, LifecycleTypeOK
<1>3. ASSUME NEW e \in Engines, Heal(e) PROVE LifecycleShape'
  <2> DEFINE p == [Idle EXCEPT !.at = "lock", !.mode = "heal", !.owe = Missing(e)]
  <2>1. p \in Publisher /\ p.at = "lock"
    <3>1. Missing(e) \subseteq Subs
      BY LocalTypes DEF Missing, LifecycleTypeOK
    <3> QED
      BY <3>1, IdleType DEF Publisher, Stages, Modes
  <2>2. Set(e, p)
    BY <1>3 DEF Heal
  <2> HIDE DEF p
  <2>3. pub' \in [Engines -> Publisher] /\ WantedOnly'
    BY <2>1, <2>2, PublisherSet
  <2> QED
    BY <1>3, <2>3 DEF Heal, LifecycleTypeOK
<1>4. ASSUME NEW e \in Engines, Busy(e) PROVE LifecycleShape'
  <2>1. pub' \in [Engines -> Publisher] /\ WantedOnly'
    BY <1>4, IdleType, PublisherSet DEF Busy
  <2> QED
    BY <1>4, <2>1 DEF Busy, LifecycleTypeOK
<1>5. ASSUME NEW e \in Engines, Decide(e) PROVE LifecycleShape'
  <2>1. mishaps' \in 0..MaxLifecycleFaults
    BY <1>0, <1>5 DEF Decide, LifecycleTypeOK
  <2>2. UNCHANGED <<ending, age, tags, read, announced, healed, started, told, due, requeues>>
    BY <1>5 DEF Decide
  <2>3. PICK ok \in BOOLEAN :
          LET targets == Targets(e, ok)
              owe == Owes(e, ok)
              resolved == pub[e].mode # "heal" /\ Unresolved /\ ok
          IN  IF ending = "live" \/ (targets = {} /\ owe = {} /\ ~resolved)
              THEN Set(e, After(e)) /\ UNCHANGED <<lease, clean>>
              ELSE /\ lease' = e /\ clean' = (clean /\ ~Blurred(e, Unresolved /\ ~resolved))
                   /\ Set(e, [Idle EXCEPT !.at = "start", !.mode = pub[e].mode, !.kind = ending,
                                !.listed = pub[e].listed, !.targets = targets,
                                !.todo = targets, !.owe = owe, !.keep = Unresolved /\ ~resolved])
    BY <1>5 DEF Decide
  <2> DEFINE resolved == pub[e].mode # "heal" /\ Unresolved /\ ok
             p == [Idle EXCEPT !.at = "start", !.mode = pub[e].mode, !.kind = ending,
                     !.listed = pub[e].listed, !.targets = Targets(e, ok),
                     !.todo = Targets(e, ok), !.owe = Owes(e, ok), !.keep = Unresolved /\ ~resolved]
  <2>4. CASE Set(e, After(e)) /\ UNCHANGED <<lease, clean>>
    <3>1. pub' \in [Engines -> Publisher] /\ WantedOnly'
      BY <2>4, AfterType, PublisherSet
    <3> QED
      BY <2>1, <2>2, <2>4, <3>1 DEF LifecycleTypeOK
  <2>5. CASE ending # "live" /\ lease' = e /\ clean' \in BOOLEAN /\ Set(e, p)
    <3>1. ending \in Kinds /\ pub[e].mode \in Modes /\ pub[e].listed \in Kinds
      BY <2>5 DEF LifecycleTypeOK, Publisher
    <3>2. Targets(e, ok) \subseteq Wanting(ending) /\ Targets(e, ok) \subseteq Subs /\ Owes(e, ok) \subseteq Subs
      BY TargetTypes
    <3>3. (Unresolved /\ ~resolved) \in BOOLEAN
      OBVIOUS
    <3>4. p \in Publisher /\ p.kind = ending /\ p.todo = Targets(e, ok)
      BY <3>1, <3>2, <3>3, IdleType DEF Publisher, Stages
    <3> HIDE DEF p
    <3>5. pub' \in [Engines -> Publisher] /\ WantedOnly'
      BY <2>5, <3>2, <3>4, PublisherSet
    <3> QED
      BY <2>1, <2>2, <2>5, <3>5 DEF LifecycleTypeOK
  <2> QED
    BY <2>3, <2>4, <2>5
<1>6. ASSUME NEW e \in Engines, DecideDrop(e) PROVE LifecycleShape'
  <2> DEFINE orphans == tags.owed \ ((pub[e].owe \cap Wanting(pub[e].listed)) \cup Local(e, pub[e].listed))
             p == [Idle EXCEPT !.at = "write", !.mode = "drop", !.kind = pub[e].listed, !.targets = orphans,
                     !.failed = orphans, !.before = tags]
  <2>1. orphans \subseteq Subs /\ tags \in Marker /\ pub[e].listed \in Kinds
    BY DEF LifecycleTypeOK, Publisher, Marker
  <2> HIDE DEF orphans
  <2>2. p \in Publisher /\ p.at = "write"
    BY <2>1, IdleType DEF Publisher, Stages, Modes
  <2> HIDE DEF p
  <2>3. UNCHANGED <<ending, age, tags, read, announced, healed, started, told, due, requeues, mishaps>>
    BY <1>6 DEF DecideDrop
  <2>4. \/ Set(e, Idle) /\ UNCHANGED <<lease, clean>>
        \/ Set(e, p) /\ lease' = e /\ clean' \in BOOLEAN
    BY <1>6 DEF DecideDrop, orphans, p
  <2>5. pub' \in [Engines -> Publisher] /\ WantedOnly'
    BY <2>2, <2>4, IdleType, PublisherSet
  <2> QED
    BY <2>3, <2>4, <2>5 DEF LifecycleTypeOK
<1>7. ASSUME NEW e \in Engines, NEW s \in Subs, StartSub(e, s) PROVE LifecycleShape'
  <2> DEFINE p == [pub[e] EXCEPT !.todo = @ \ {s}, !.reached = @ \cup {s}]
             q == [pub[e] EXCEPT !.todo = @ \ {s}, !.failed = @ \cup {s}]
  <2>1. pub[e] \in Publisher /\ pub[e].at = "start" /\ s \in pub[e].todo /\ pub[e].todo \subseteq Wanting(pub[e].kind)
    BY <1>7 DEF StartSub, LifecycleTypeOK, WantedOnly
  <2>2. p \in Publisher /\ p.kind = pub[e].kind /\ p.todo \subseteq pub[e].todo
    BY <2>1 DEF Publisher
  <2>3. q \in Publisher /\ q.kind = pub[e].kind /\ q.todo \subseteq pub[e].todo
    BY <2>1 DEF Publisher
  <2> HIDE DEF p, q
  <2>4. UNCHANGED <<ending, age, tags, read, lease, announced, healed, told, due, clean, requeues>>
    BY <1>7 DEF StartSub
  <2>5. pub[e].kind \in Kinds /\ pub[e].kind \in KindsOf[s]
    BY <2>1 DEF Publisher, Wanting
  <2>6. /\ started' \subseteq started \cup {<<pub[e].kind, s>>} /\ mishaps' \in 0..MaxLifecycleFaults
        /\ Set(e, p) \/ Set(e, q)
    BY <1>0, <1>7 DEF StartSub, LifecycleTypeOK, p, q
  <2>7. pub' \in [Engines -> Publisher] /\ WantedOnly'
    BY <2>1, <2>2, <2>3, <2>6, PublisherSet
  <2>8. started' \subseteq {x \in Kinds \X Subs : x[1] \in KindsOf[x[2]]}
    BY <2>5, <2>6 DEF LifecycleTypeOK
  <2> QED
    BY <2>4, <2>6, <2>7, <2>8 DEF LifecycleTypeOK
<1>8. ASSUME NEW e \in Engines, Reread(e) PROVE LifecycleShape'
  <2> DEFINE p == [pub[e] EXCEPT !.at = "write", !.before = tags]
  <2>1. p \in Publisher /\ p.at = "write"
    <3>1. pub[e] \in Publisher /\ tags \in Marker
      BY DEF LifecycleTypeOK
    <3> QED
      BY ONLY <3>1 DEF p, Publisher, Stages
  <2>2. Set(e, p)
    BY <1>8 DEF Reread
  <2> HIDE DEF p
  <2>3. pub' \in [Engines -> Publisher] /\ WantedOnly'
    BY <2>1, <2>2, PublisherSet
  <2> QED
    BY <1>8, <2>3 DEF Reread, LifecycleTypeOK
<1>9. ASSUME NEW e \in Engines, WriteMarker(e) PROVE LifecycleShape'
  <2>1. pub' \in [Engines -> Publisher] /\ WantedOnly'
    BY <1>9, AfterType, PublisherSet DEF WriteMarker
  <2>2. pub[e] \in Publisher /\ pub[e].kind \in Kinds /\ pub[e].failed \subseteq Subs
        /\ pub[e].targets \subseteq Subs /\ pub[e].owe \subseteq Subs
    BY DEF LifecycleTypeOK, Publisher
  <2>3. tags' \in Marker
    BY <1>9, <2>2, SettledType DEF WriteMarker
  <2>4. told' \subseteq Kinds \X Subs
    BY <1>9, <2>2 DEF WriteMarker, LifecycleTypeOK
  <2>5. healed' \in [Engines -> SUBSET Subs] /\ lease' \in Engines \cup {"free"}
    BY <1>9, <2>2 DEF WriteMarker, LifecycleTypeOK
  <2>6. UNCHANGED <<ending, age, read, announced, started, due, clean, requeues, mishaps>>
    BY <1>9 DEF WriteMarker
  <2> QED
    BY <2>1, <2>3, <2>4, <2>5, <2>6 DEF LifecycleTypeOK
<1>10. ASSUME NEW e \in Engines, CrashPublisher(e) PROVE LifecycleShape'
  <2>1. pub' \in [Engines -> Publisher] /\ WantedOnly'
    BY <1>10, IdleType, PublisherSet DEF CrashPublisher
  <2> QED
    BY <1>0, <1>10, <2>1 DEF CrashPublisher, LifecycleTypeOK
<1>17. ASSUME NEW e \in Engines, ReadFleet(e) PROVE LifecycleShape'
  <2> DEFINE p == [pub[e] EXCEPT !.at = "lock", !.owe = announced]
  <2>1. p \in Publisher /\ p.at = "lock"
    <3>1. pub[e] \in Publisher /\ announced \subseteq Subs
      BY DEF LifecycleTypeOK
    <3> QED
      BY ONLY <3>1 DEF p, Publisher, Stages
  <2> HIDE DEF p
  <2>2. UNCHANGED <<ending, age, tags, read, lease, announced, healed, started, told, due, clean, requeues>>
    BY <1>17 DEF ReadFleet
  <2>3. mishaps' \in 0..MaxLifecycleFaults /\ (Set(e, p) \/ Set(e, Idle))
    BY <1>0, <1>17 DEF ReadFleet, LifecycleTypeOK, p
  <2>4. pub' \in [Engines -> Publisher] /\ WantedOnly'
    BY <2>1, <2>3, IdleType, PublisherSet
  <2> QED
    BY <2>2, <2>3, <2>4 DEF LifecycleTypeOK
<1>11. ASSUME UNCHANGED pub PROVE WantedOnly'
  BY <1>11 DEF WantedOnly, Wanting
<1>12. CASE Grow
  BY <1>11, <1>12 DEF Grow, LifecycleTypeOK, Ages
<1>13. CASE RequeueSettled
  <2>1. requeues' \in 0..MaxRequeues
    BY <1>13, LifecycleAssumption DEF RequeueSettled, LifecycleTypeOK
  <2> QED
    BY <1>11, <1>13, <2>1 DEF RequeueSettled, LifecycleTypeOK
<1>14. CASE LeaseLapses
  BY <1>0, <1>11, <1>14 DEF LeaseLapses, LifecycleTypeOK
<1>15. ASSUME NEW s \in Subs, Announce(s) PROVE LifecycleShape'
  BY <1>11, <1>15 DEF Announce, LifecycleTypeOK
<1>16. CASE UNCHANGED lifecycleVars
  BY <1>11, <1>16 DEF lifecycleVars, LifecycleTypeOK
<1>18. CASE BeginTurn
  BY <1>11, <1>18 DEF BeginTurn, LifecycleTypeOK
<1> QED
  BY <1>1, <1>2, <1>3, <1>4, <1>5, <1>6, <1>7, <1>8, <1>9, <1>10, <1>12, <1>13, <1>14, <1>15, <1>16, <1>17, <1>18
     DEF LifecycleNext, Publish, Advance

\* The state is well formed, and a subscriber is started for the endings it wants only
\* (publishSettledLocked, lifecycleSubscribersIn).
THEOREM LifecycleTypes == LifecycleSpec => []LifecycleTypeOK
<1>1. LifecycleShape => LifecycleTypeOK
  BY DEF LifecycleShape
<1> QED
  BY <1>1, ShapeInit, ShapeStep, PTL DEF LifecycleSpec

-----------------------------------------------------------------------------
(* The record: its inductive invariant.                                    *)

At(p)    == p.at \in {"start", "write"}
Unres(m) == m.pending /\ m.owed = {}
Heard(s) == <<ending, s>> \in started \cup told

\* A marker accounts for a subscriber, or leaves it to be resolved.
Covers(m, s) == Heard(s) \/ s \in m.failed \/ s \in m.owed \/ Unres(m)

\* What a marker says was done for the run's only ending was done.
Reported(m) == requeues = 0 => \A s \in m.triggered \cup m.failed : Heard(s)

\* The publisher is one of this ending.
Present(p) ==
  /\ At(p) => p.kind = ending
  /\ p.at = "idle" => p.mode = "live"
  /\ p.at = "fleet" => p.mode = "drop"
  /\ p.mode = "sweep" /\ p.at # "idle" => p.listed = ending
  /\ p.mode = "drop" /\ p.at \in {"fleet", "lock"} => p.listed = ending

\* Whoever it took on is started, or failed, or yet to come.
Accounted(p) ==
  At(p) => /\ p.targets \subseteq p.todo \cup p.reached \cup p.failed
           /\ p.at = "write" => p.todo = {}
           /\ \A s \in p.reached : <<ending, s>> \in started

\* A publisher that keeps the marker unresolved has the run for itself.
Alone(e) ==
  At(pub[e]) /\ pub[e].keep =>
    Unresolved /\ pub[e].owe = {} /\ \A f \in Engines \ {e} : ~At(pub[f])

\* Any other has resolved the marker, or found it resolved.
Resolves(p) == \A s \in due : Heard(s) \/ s \in p.targets \cup p.owe
Sound(p) ==
  /\ p.at = "lock" /\ p.mode = "heal" => ~Unresolved
  /\ At(p) /\ ~p.keep => Resolves(p) \/ (~Unresolved /\ (p.at = "write" => ~Unres(p.before)))

\* The tags it read were a record, too.
ReadRecord(p) == p.at = "write" => (\A s \in due : Covers(p.before, s)) /\ Reported(p.before)

PublisherOK(e) ==
  Present(pub[e]) /\ Accounted(pub[e]) /\ Alone(e) /\ Sound(pub[e]) /\ ReadRecord(pub[e])

\* An unresolved marker is one of the run's only ending, for subscribers announced.
Resolvable == Unresolved => due = {} \/ (requeues = 0 /\ due \subseteq announced \cap Wanting(ending))

TagsOK == (\A s \in due : Covers(tags, s)) /\ Reported(tags) /\ Resolvable

Record ==
  clean =>
    /\ ending = "live" => /\ \A e \in Engines : pub[e].at = "idle" /\ pub[e].mode = "live"
                          /\ read = tags /\ (requeues = 0 => tags = NoMarker)
    /\ ending # "live" => TagsOK /\ \A e \in Engines : PublisherOK(e)

-----------------------------------------------------------------------------
(* The record is kept.                                                     *)

LEMMA RecordInit == LifecycleInit => Record
BY DEF LifecycleInit, Record, Idle

LEMMA CleanStays == [LifecycleNext]_lifecycleVars => (clean' => clean)
<1> SUFFICES ASSUME [LifecycleNext]_lifecycleVars, clean' PROVE clean
  OBVIOUS
<1>1. ASSUME NEW e \in Engines, NEW k \in Kinds, NEW usable \in BOOLEAN, NEW seen \in SUBSET Subs,
             Settle(e, k, usable, seen)
      PROVE  clean
  BY <1>1 DEF Settle
<1>2. ASSUME NEW e \in Engines, Sweep(e) \/ Heal(e) \/ Busy(e) \/ CrashPublisher(e) PROVE clean
  BY <1>2 DEF Sweep, Heal, Busy, CrashPublisher
<1>3. ASSUME NEW e \in Engines, Decide(e) PROVE clean
  BY <1>3 DEF Decide
<1>4. ASSUME NEW e \in Engines, DecideDrop(e) PROVE clean
  BY <1>4 DEF DecideDrop
<1>5. ASSUME NEW e \in Engines, Advance(e) PROVE clean
  BY <1>5 DEF Advance, StartSub, Reread, WriteMarker, ReadFleet
<1>6. CASE Grow \/ BeginTurn \/ LeaseLapses \/ (\E s \in Subs : Announce(s)) \/ UNCHANGED lifecycleVars
  BY <1>6 DEF Grow, BeginTurn, LeaseLapses, Announce, lifecycleVars
<1>7. CASE RequeueSettled
  BY <1>7 DEF RequeueSettled
<1> QED
  BY <1>1, <1>2, <1>3, <1>4, <1>5, <1>6, <1>7 DEF LifecycleNext, Publish

\* A publisher that another one's step leaves alone.
LEMMA OthersStay ==
  ASSUME NEW e \in Engines, PublisherOK(e), pub'[e] = pub[e], UNCHANGED <<ending, due, requeues>>,
         started \subseteq started', told \subseteq told', Unresolved' => Unresolved,
         At(pub[e]) /\ pub[e].keep => Unresolved' /\ \A f \in Engines \ {e} : ~At(pub'[f])
  PROVE  PublisherOK(e)'
<1> DEFINE p == pub[e]
<1>1. \A s : Heard(s) => Heard(s)'
  BY DEF Heard
<1>2. Present(pub[e])' /\ Accounted(pub[e])'
  BY DEF PublisherOK, Present, Accounted, At
<1>3. Alone(e)'
  BY DEF PublisherOK, Alone, At
<1>4. Sound(pub[e])'
  BY <1>1 DEF PublisherOK, Sound, Resolves, At, Unres
<1>5. ReadRecord(pub[e])'
  BY <1>1 DEF PublisherOK, ReadRecord, Covers, Reported, Unres
<1> QED
  BY <1>2, <1>3, <1>4, <1>5 DEF PublisherOK

LEMMA TagsStay ==
  ASSUME TagsOK, UNCHANGED <<ending, due, requeues, tags>>, started \subseteq started', told \subseteq told',
         announced \subseteq announced'
  PROVE  TagsOK'
<1>1. \A s : Heard(s) => Heard(s)'
  BY DEF Heard
<1>2. Wanting(ending)' = Wanting(ending)
  BY DEF Wanting
<1> QED
  BY <1>1, <1>2 DEF TagsOK, Covers, Reported, Resolvable, Unresolved, Unres

\* One publisher goes on, and the tags stay.
LEMMA OneGoesOn ==
  ASSUME LifecycleShape, ending # "live", clean, Record,
         UNCHANGED <<ending, due, requeues, tags>>, started \subseteq started', told \subseteq told',
         announced \subseteq announced',
         NEW e \in Engines, NEW p, Set(e, p), PublisherOK(e)',
         At(p) => At(pub[e]) \/ \A f \in Engines \ {e} : ~(At(pub[f]) /\ pub[f].keep)
  PROVE  Record'
<1>1. pub' = [pub EXCEPT ![e] = p] /\ pub \in [Engines -> Publisher]
  BY DEF Set, LifecycleShape, LifecycleTypeOK
<1>2. TagsOK'
  BY TagsStay DEF Record
<1>3. ASSUME NEW f \in Engines \ {e} PROVE PublisherOK(f)'
  <2>1. pub'[f] = pub[f] /\ PublisherOK(f)
    BY <1>1 DEF Record
  <2>2. Unresolved' <=> Unresolved
    BY DEF Unresolved
  <2>3. At(pub[f]) /\ pub[f].keep => Unresolved' /\ \A g \in Engines \ {f} : ~At(pub'[g])
    <3> SUFFICES ASSUME At(pub[f]), pub[f].keep, NEW g \in Engines \ {f}, At(pub'[g])
                 PROVE  FALSE
      BY <2>1, <2>2 DEF PublisherOK, Alone
    <3>1. ~At(pub[g]) /\ ~At(pub[e])
      BY <2>1 DEF PublisherOK, Alone
    <3> QED
      BY <1>1, <3>1 DEF At
  <2> QED
    BY <2>1, <2>2, <2>3, OthersStay
<1> QED
  BY <1>2, <1>3 DEF Record

\* A publisher that has nothing under way.
LEMMA Resting ==
  ASSUME NEW e \in Engines, pub'[e].at \in {"idle", "fleet", "lock"},
         pub'[e].at = "idle" => pub'[e].mode = "live",
         pub'[e].at = "fleet" => pub'[e].mode = "drop",
         pub'[e].at = "lock" /\ pub'[e].mode = "heal" => ~Unresolved',
         pub'[e].at # "idle" /\ pub'[e].mode \in {"sweep", "drop"} => pub'[e].listed = ending'
  PROVE  PublisherOK(e)'
BY DEF PublisherOK, Present, Accounted, Alone, Sound, ReadRecord, At

LEMMA AfterRests ==
  ASSUME LifecycleShape, NEW e \in Engines, PublisherOK(e), pub[e].at # "idle", UNCHANGED ending, pub'[e] = After(e)
  PROVE  PublisherOK(e)'
<1>1. CASE pub[e].mode = "sweep" /\ age = "old"
  <2>1. /\ pub'[e].at = "fleet" /\ pub'[e].mode = "drop" /\ pub'[e].listed = pub[e].listed
    BY <1>1 DEF After, Idle
  <2> QED
    BY <1>1, <2>1, Resting DEF PublisherOK, Present
<1>2. CASE ~(pub[e].mode = "sweep" /\ age = "old")
  BY <1>2, Resting DEF After, Idle
<1> QED
  BY <1>1, <1>2

LEMMA SetIs ==
  ASSUME LifecycleShape, NEW e \in Engines, NEW p, Set(e, p)
  PROVE  pub'[e] = p /\ \A f \in Engines \ {e} : pub'[f] = pub[f]
BY DEF Set, LifecycleShape, LifecycleTypeOK

\* In a record, a publisher at work has a run that is settled.
LEMMA AtWork ==
  ASSUME Record, clean, NEW e \in Engines, pub[e].at # "idle"
  PROVE  ending # "live" /\ PublisherOK(e)
BY DEF Record

LEMMA RecordDecide ==
  ASSUME LifecycleShape, Record, clean, clean', NEW e \in Engines, Decide(e)
  PROVE  Record'
<1>0. pub[e].at = "lock" /\ ending # "live" /\ PublisherOK(e) /\ TagsOK
  BY AtWork DEF Decide, Record
<1>1. UNCHANGED <<ending, age, tags, read, announced, healed, started, told, due, requeues>>
  BY DEF Decide
<1>2. PICK ok \in BOOLEAN :
        LET targets == Targets(e, ok)
            owe == Owes(e, ok)
            resolved == pub[e].mode # "heal" /\ Unresolved /\ ok
        IN  IF ending = "live" \/ (targets = {} /\ owe = {} /\ ~resolved)
            THEN Set(e, After(e)) /\ UNCHANGED <<lease, clean>>
            ELSE /\ lease' = e /\ clean' = (clean /\ ~Blurred(e, Unresolved /\ ~resolved))
                 /\ Set(e, [Idle EXCEPT !.at = "start", !.mode = pub[e].mode, !.kind = ending,
                              !.listed = pub[e].listed, !.targets = targets,
                              !.todo = targets, !.owe = owe, !.keep = Unresolved /\ ~resolved])
  BY DEF Decide
<1> DEFINE keep == Unresolved /\ ~(pub[e].mode # "heal" /\ Unresolved /\ ok)
           p == [Idle EXCEPT !.at = "start", !.mode = pub[e].mode, !.kind = ending,
                   !.listed = pub[e].listed, !.targets = Targets(e, ok),
                   !.todo = Targets(e, ok), !.owe = Owes(e, ok), !.keep = keep]
<1>3. CASE Set(e, After(e))
  <2>1. pub'[e] = After(e)
    BY <1>3, SetIs
  <2>2. PublisherOK(e)'
    BY <1>0, <1>1, <2>1, AfterRests
  <2>3. ~At(After(e))
    BY DEF After, Idle, At
  <2> QED
    BY <1>0, <1>1, <1>3, <2>2, <2>3, OneGoesOn
<1>4. CASE ~Blurred(e, keep) /\ Set(e, p)
  <2>1. /\ p.at = "start" /\ p.mode = pub[e].mode /\ p.kind = ending /\ p.listed = pub[e].listed
        /\ p.targets = Targets(e, ok) /\ p.todo = Targets(e, ok) /\ p.reached = {} /\ p.failed = {}
        /\ p.owe = Owes(e, ok) /\ p.keep = keep
    BY DEF Idle
  <2>2. pub'[e] = p
    BY <1>4, SetIs
  <2>3. \A f \in Engines \ {e} : pub'[f] = pub[f] /\ (At(pub[f]) => ~keep /\ ~pub[f].keep)
    BY <1>4, SetIs DEF Blurred, At
  <2> HIDE DEF p
  <2>4. Unresolved' = Unresolved /\ (\A s : Heard(s)' = Heard(s))
    BY <1>1 DEF Unresolved, Heard
  <2>5. pub[e].mode = "heal" => ~Unresolved
    BY <1>0 DEF PublisherOK, Sound
  <2>6. keep => Owes(e, ok) = {}
    BY <2>5 DEF Owes
  <2>7. Alone(e)'
    BY <2>1, <2>2, <2>3, <2>4, <2>6 DEF Alone
  <2>8. Present(pub[e])' /\ Accounted(pub[e])' /\ ReadRecord(pub[e])'
    BY <1>0, <1>1, <2>1, <2>2 DEF PublisherOK, Present, Accounted, ReadRecord, At
  <2>9. Unresolved /\ ~keep => \A s \in due : Heard(s) \/ s \in Targets(e, ok) \cup Owes(e, ok)
    <3> SUFFICES ASSUME Unresolved, ~keep, NEW s \in due, ~Heard(s)
                 PROVE  s \in Targets(e, ok) \cup Owes(e, ok)
      OBVIOUS
    <3>1. pub[e].mode # "heal" /\ ok
      OBVIOUS
    <3>2. requeues = 0 /\ s \in announced \cap Wanting(ending)
      BY <1>0 DEF TagsOK, Resolvable
    <3>3. s \notin Done
      BY <1>0, <3>2 DEF TagsOK, Reported, Done
    <3> QED
      BY <3>1, <3>2, <3>3 DEF Targets, Owes
  <2>10. Sound(pub[e])'
    <3>1. ~keep => Unresolved \/ ~Unresolved'
      BY <2>4
    <3> HIDE DEF keep
    <3> QED
      BY <1>1, <2>1, <2>2, <2>4, <2>9 DEF Sound, Resolves
  <2>11. PublisherOK(e)'
    BY <2>7, <2>8, <2>10 DEF PublisherOK
  <2> QED
    BY <1>0, <1>1, <1>4, <2>3, <2>11, OneGoesOn
<1> QED
  BY <1>0, <1>2, <1>3, <1>4

LEMMA RecordDrop ==
  ASSUME LifecycleShape, Record, clean, clean', NEW e \in Engines, DecideDrop(e)
  PROVE  Record'
<1>0. pub[e].at = "lock" /\ pub[e].mode = "drop" /\ ending # "live" /\ PublisherOK(e) /\ TagsOK
  BY AtWork DEF DecideDrop, Record
<1>1. UNCHANGED <<ending, age, tags, read, announced, healed, started, told, due, requeues, mishaps>>
  BY DEF DecideDrop
<1> DEFINE orphans == tags.owed \ ((pub[e].owe \cap Wanting(pub[e].listed)) \cup Local(e, pub[e].listed))
           p == [Idle EXCEPT !.at = "write", !.mode = "drop", !.kind = pub[e].listed, !.targets = orphans,
                   !.failed = orphans, !.before = tags]
<1>2. \/ Set(e, Idle)
      \/ Set(e, p) /\ orphans # {} /\ ~Blurred(e, FALSE)
  BY DEF DecideDrop
<1>3. CASE Set(e, Idle)
  <2>1. pub'[e] = Idle
    BY <1>3, SetIs
  <2>2. PublisherOK(e)' /\ ~At(Idle)
    BY <2>1, Resting DEF Idle, At
  <2> QED
    BY <1>0, <1>1, <1>3, <2>2, OneGoesOn
<1>4. CASE Set(e, p) /\ orphans # {} /\ ~Blurred(e, FALSE)
  <2>1. ~Unresolved
    BY <1>4 DEF Unresolved
  <2> HIDE DEF orphans
  <2>2. /\ p.at = "write" /\ p.mode = "drop" /\ p.kind = pub[e].listed /\ p.targets = orphans
        /\ p.todo = {} /\ p.reached = {} /\ p.failed = orphans /\ ~p.keep /\ p.before = tags
    BY DEF Idle
  <2>3. pub'[e] = p
    BY <1>4, SetIs
  <2> HIDE DEF p
  <2>4. pub[e].listed = ending
    BY <1>0 DEF PublisherOK, Present
  <2>5. Present(pub[e])'
    BY <1>1, <2>2, <2>3, <2>4 DEF Present
  <2>6. Accounted(pub[e])' /\ Alone(e)' /\ Sound(pub[e])'
    BY <1>1, <2>1, <2>2, <2>3 DEF Accounted, Alone, Sound, At, Unresolved, Unres
  <2>7. ReadRecord(pub[e])'
    BY <1>0, <1>1, <2>2, <2>3 DEF ReadRecord, TagsOK, Covers, Reported, Heard, Unres
  <2>8. PublisherOK(e)' /\ \A f \in Engines \ {e} : ~(At(pub[f]) /\ pub[f].keep)
    BY <1>4, <2>5, <2>6, <2>7 DEF PublisherOK, Blurred, At
  <2> QED
    BY <1>0, <1>1, <1>4, <2>8, OneGoesOn
<1> QED
  BY <1>2, <1>3, <1>4

LEMMA RecordStart ==
  ASSUME LifecycleShape, Record, clean, NEW e \in Engines, NEW s \in Subs, StartSub(e, s)
  PROVE  Record'
<1>0. pub[e].at = "start" /\ ending # "live" /\ PublisherOK(e) /\ TagsOK /\ pub[e] \in Publisher
  BY AtWork DEF StartSub, Record, LifecycleShape, LifecycleTypeOK
<1>1. UNCHANGED <<ending, age, tags, read, lease, announced, healed, told, due, clean, requeues>>
  BY DEF StartSub
<1>2. pub[e].kind = ending
  BY <1>0 DEF PublisherOK, Present, At
<1>3. PICK p : /\ Set(e, p) /\ started \subseteq started'
               /\ \/ p = [pub[e] EXCEPT !.todo = @ \ {s}, !.reached = @ \cup {s}] /\ <<ending, s>> \in started'
                  \/ p = [pub[e] EXCEPT !.todo = @ \ {s}, !.failed = @ \cup {s}]
  BY <1>2 DEF StartSub
<1>4. /\ p.at = "start" /\ p.mode = pub[e].mode /\ p.kind = ending /\ p.listed = pub[e].listed
      /\ p.targets = pub[e].targets /\ p.owe = pub[e].owe /\ p.keep = pub[e].keep
      /\ pub[e].todo \cup pub[e].reached \cup pub[e].failed \subseteq p.todo \cup p.reached \cup p.failed
      /\ \A x \in p.reached : x \in pub[e].reached \/ (x = s /\ <<ending, s>> \in started')
  <2>1. CASE p = [pub[e] EXCEPT !.todo = @ \ {s}, !.reached = @ \cup {s}] /\ <<ending, s>> \in started'
    BY <1>0, <1>2, <2>1 DEF Publisher
  <2>2. CASE p = [pub[e] EXCEPT !.todo = @ \ {s}, !.failed = @ \cup {s}]
    BY <1>0, <1>2, <2>2 DEF Publisher
  <2> QED
    BY <1>3, <2>1, <2>2
<1>5. pub'[e] = p /\ \A f \in Engines \ {e} : pub'[f] = pub[f]
  BY <1>3, SetIs
<1>6. Unresolved' = Unresolved /\ \A x : Heard(x) => Heard(x)'
  BY <1>1, <1>3 DEF Unresolved, Heard
<1>7. Present(pub[e])' /\ ReadRecord(pub[e])'
  BY <1>0, <1>1, <1>4, <1>5 DEF PublisherOK, Present, ReadRecord, At
<1>8. Accounted(pub[e])'
  BY <1>0, <1>1, <1>3, <1>4, <1>5 DEF PublisherOK, Accounted, At
<1>9. Alone(e)'
  BY <1>0, <1>4, <1>5, <1>6 DEF PublisherOK, Alone, At
<1>10. Sound(pub[e])'
  BY <1>0, <1>1, <1>4, <1>5, <1>6 DEF PublisherOK, Sound, Resolves, At
<1>11. PublisherOK(e)' /\ At(pub[e])
  BY <1>0, <1>7, <1>8, <1>9, <1>10 DEF PublisherOK, At
<1> QED
  BY <1>0, <1>1, <1>3, <1>11, OneGoesOn

LEMMA RecordReread ==
  ASSUME LifecycleShape, Record, clean, NEW e \in Engines, Reread(e)
  PROVE  Record'
<1>0. /\ pub[e].at = "start" /\ pub[e].todo = {} /\ ending # "live" /\ PublisherOK(e) /\ TagsOK
      /\ pub[e] \in Publisher
  BY AtWork DEF Reread, Record, LifecycleShape, LifecycleTypeOK
<1>1. UNCHANGED <<ending, age, tags, read, lease, announced, healed, started, told, due, clean, requeues, mishaps>>
  BY DEF Reread
<1> DEFINE p == [pub[e] EXCEPT !.at = "write", !.before = tags]
<1>2. Set(e, p)
  BY DEF Reread
<1>3. /\ p.at = "write" /\ p.mode = pub[e].mode /\ p.kind = pub[e].kind /\ p.listed = pub[e].listed
      /\ p.targets = pub[e].targets /\ p.todo = {} /\ p.reached = pub[e].reached /\ p.failed = pub[e].failed
      /\ p.owe = pub[e].owe /\ p.keep = pub[e].keep /\ p.before = tags
  BY <1>0 DEF Publisher
<1> HIDE DEF p
<1>4. pub'[e] = p /\ \A f \in Engines \ {e} : pub'[f] = pub[f]
  BY <1>2, SetIs
<1>5. Unresolved' = Unresolved /\ \A x : Heard(x)' = Heard(x)
  BY <1>1 DEF Unresolved, Heard
<1>6. Present(pub[e])' /\ Accounted(pub[e])'
  BY <1>0, <1>1, <1>3, <1>4 DEF PublisherOK, Present, Accounted, At
<1>7. Alone(e)'
  BY <1>0, <1>3, <1>4, <1>5 DEF PublisherOK, Alone, At
<1>8. Sound(pub[e])'
  BY <1>0, <1>1, <1>3, <1>4, <1>5 DEF PublisherOK, Sound, Resolves, At, Unresolved, Unres
<1>9. ReadRecord(pub[e])'
  BY <1>0, <1>1, <1>3, <1>4, <1>5 DEF ReadRecord, TagsOK, Covers, Reported, Unres
<1>10. PublisherOK(e)' /\ At(pub[e])
  BY <1>0, <1>6, <1>7, <1>8, <1>9 DEF PublisherOK, At
<1> QED
  BY <1>0, <1>1, <1>2, <1>10, OneGoesOn

\* What a publisher writes is a record of this ending.
LEMMA RecordWrite ==
  ASSUME LifecycleShape, Record, clean, NEW e \in Engines, WriteMarker(e)
  PROVE  Record'
<1> DEFINE p == pub[e]
<1>0. p.at = "write" /\ ending # "live" /\ PublisherOK(e) /\ TagsOK /\ At(p)
  BY AtWork DEF WriteMarker, Record, At
<1>1. /\ UNCHANGED <<ending, age, announced, started, due, clean, requeues, mishaps>>
      /\ tags' = Settled(p) /\ told' = told \cup {<<p.kind, s>> : s \in p.failed \ p.before.failed}
  BY DEF WriteMarker
<1>2. /\ tags'.pending = (tags'.owed # {} \/ p.keep)
      /\ tags'.owed = (p.before.owed \ p.targets) \cup p.owe
      /\ tags'.triggered = p.before.triggered \cup p.reached
      /\ tags'.failed = (p.before.failed \ p.reached) \cup p.failed
  BY <1>1 DEF Settled
<1>3. /\ p.kind = ending /\ p.targets \subseteq p.reached \cup p.failed
      /\ \A s \in p.reached : <<ending, s>> \in started
  BY <1>0 DEF PublisherOK, Present, Accounted
<1>4. pub'[e] = After(e) /\ \A f \in Engines \ {e} : pub'[f] = pub[f]
  BY SetIs DEF WriteMarker
<1>5. \A s : Heard(s) => Heard(s)'
  BY <1>1 DEF Heard
<1>6. Unresolved' => p.keep /\ Unresolved
  BY <1>0, <1>2 DEF Unresolved, PublisherOK, Alone
<1>7. TagsOK'
  <2>1. ASSUME NEW s \in due PROVE Covers(tags, s)'
    <3>1. CASE Heard(s)
      BY <1>5, <3>1 DEF Covers
    <3>2. CASE s \in p.targets
      BY <1>2, <1>3, <1>5, <3>2 DEF Covers, Heard
    <3>3. CASE s \in p.owe
      BY <1>2, <3>3 DEF Covers
    <3>4. CASE s \in p.before.failed
      BY <1>2, <1>3, <1>5, <3>4 DEF Covers, Heard
    <3>5. CASE s \in p.before.owed /\ s \notin p.targets
      BY <1>2, <3>5 DEF Covers
    <3>6. CASE Unres(p.before) /\ p.keep
      <4>1. p.owe = {}
        BY <1>0, <3>6 DEF PublisherOK, Alone
      <4>2. tags'.owed = {} /\ tags'.pending
        BY <1>2, <3>6, <4>1 DEF Unres
      <4> QED
        BY <4>2 DEF Covers, Unres
    <3>7. CASE Unres(p.before) /\ ~p.keep
      <4>1. Resolves(p)
        BY <1>0, <3>7 DEF PublisherOK, Sound
      <4> QED
        BY <3>1, <3>2, <3>3, <4>1 DEF Resolves
    <3>8. Covers(p.before, s)
      BY <1>0 DEF PublisherOK, ReadRecord
    <3> QED
      BY <3>1, <3>2, <3>3, <3>4, <3>5, <3>6, <3>7, <3>8 DEF Covers
  <2>2. Reported(tags)'
    <3> SUFFICES ASSUME requeues = 0, NEW s \in tags'.triggered \cup tags'.failed PROVE Heard(s)'
      BY <1>1 DEF Reported
    <3>1. CASE s \in p.before.triggered \cup p.before.failed
      BY <1>0, <1>5, <3>1 DEF PublisherOK, ReadRecord, Reported
    <3>2. CASE s \in p.reached
      BY <1>3, <1>5, <3>2 DEF Heard
    <3>3. CASE s \in p.failed /\ s \notin p.before.failed
      BY <1>1, <1>3, <3>3 DEF Heard
    <3> QED
      BY <1>2, <3>1, <3>2, <3>3
  <2>3. Resolvable'
    BY <1>0, <1>1, <1>6 DEF TagsOK, Resolvable, Wanting
  <2> QED
    BY <1>1, <2>1, <2>2, <2>3 DEF TagsOK
<1>8. PublisherOK(e)'
  BY <1>0, <1>1, <1>4, AfterRests
<1>9. ASSUME NEW f \in Engines \ {e} PROVE PublisherOK(f)'
  <2>1. PublisherOK(f) /\ pub'[f] = pub[f]
    BY <1>0, <1>4 DEF Record
  <2>2. ~(At(pub[f]) /\ pub[f].keep)
    BY <1>0, <2>1 DEF PublisherOK, Alone
  <2> QED
    BY <1>1, <1>6, <2>1, <2>2, OthersStay
<1> QED
  BY <1>0, <1>1, <1>7, <1>8, <1>9 DEF Record

LEMMA RecordSettle ==
  ASSUME LifecycleShape, Record, clean, clean', NEW e \in Engines, NEW k \in Kinds, NEW usable \in BOOLEAN,
         NEW seen \in SUBSET Subs, Settle(e, k, usable, seen)
  PROVE  Record'
<1> DEFINE subs == (seen \cap Wanting(k)) \cup Local(e, k)
<1>1. /\ ending = "live" /\ ending' = k /\ k # "live" /\ tags' = Mark(e, k, usable, seen)
      /\ due' = (IF usable THEN subs ELSE announced \cap Wanting(k)) /\ (usable \/ requeues = 0)
      /\ UNCHANGED <<announced, started, told, requeues>> /\ tags \in Marker
  BY DEF Settle, Kinds, LifecycleShape, LifecycleTypeOK
<1>2. /\ \A f \in Engines : pub[f].at = "idle" /\ pub[f].mode = "live"
      /\ read = tags /\ (requeues = 0 => tags = NoMarker)
  BY <1>1 DEF Record
<1>3. ASSUME NEW f \in Engines PROVE PublisherOK(f)'
  <2>1. pub'[f].at \in {"idle", "lock"} /\ pub'[f].mode = "live"
    BY <1>2 DEF Settle, LifecycleShape, LifecycleTypeOK, Publisher
  <2> QED
    BY <2>1, Resting
<1>4. TagsOK'
  <2>1. CASE usable
    <3>1. tags' = [tags EXCEPT !.pending = @ \/ subs # {}, !.owed = @ \cup subs]
      BY <1>1, <1>2, <2>1 DEF Mark
    <3> HIDE DEF subs
    <3>2. /\ tags'.owed = tags.owed \cup subs /\ tags'.triggered = tags.triggered /\ tags'.failed = tags.failed
          /\ due' = subs
      BY <1>1, <2>1, <3>1 DEF Marker
    <3>3. \A s \in due' : s \in tags'.owed
      BY <3>2
    <3>4. Reported(tags)'
      BY <1>1, <1>2, <3>2 DEF Reported, NoMarker
    <3>5. Resolvable'
      BY <3>2 DEF Resolvable, Unresolved
    <3> QED
      BY <3>3, <3>4, <3>5 DEF TagsOK, Covers
  <2>2. CASE ~usable
    <3>1. requeues = 0 /\ tags = NoMarker /\ tags' = [tags EXCEPT !.pending = TRUE]
      BY <1>1, <1>2, <2>2 DEF Mark
    <3>2. tags'.pending /\ tags'.owed = {} /\ tags'.triggered = {} /\ tags'.failed = {}
      BY <3>1 DEF NoMarker
    <3>3. due' \subseteq announced' \cap Wanting(ending)' /\ requeues' = 0
      BY <1>1, <2>2, <3>1 DEF Wanting
    <3> QED
      BY <3>2, <3>3 DEF TagsOK, Covers, Unres, Reported, Resolvable
  <2> QED
    BY <2>1, <2>2
<1> QED
  BY <1>1, <1>3, <1>4 DEF Record

LEMMA RecordRests ==
  ASSUME LifecycleShape, Record, clean, NEW e \in Engines,
         Sweep(e) \/ Heal(e) \/ Busy(e) \/ CrashPublisher(e) \/ ReadFleet(e)
  PROVE  Record'
<1>0. ending # "live"
  BY AtWork DEF Sweep, Heal, Busy, CrashPublisher, ReadFleet
<1>1. UNCHANGED <<ending, tags, announced, started, told, due, requeues>>
  BY DEF Sweep, Heal, Busy, CrashPublisher, ReadFleet
<1>2. Unresolved' = Unresolved
  BY <1>1 DEF Unresolved
<1>3. PICK p : /\ Set(e, p) /\ p.at \in {"idle", "lock"}
               /\ p.at = "idle" => p.mode = "live"
               /\ p.at = "lock" /\ p.mode = "heal" => ~Unresolved
               /\ p.at = "lock" /\ p.mode \in {"sweep", "drop"} => p.listed = ending
  <2>1. CASE Sweep(e)
    <3> DEFINE q == [Idle EXCEPT !.at = "lock", !.mode = "sweep", !.listed = ending]
    <3>1. q.at = "lock" /\ q.mode = "sweep" /\ q.listed = ending
      BY DEF Idle
    <3>2. Set(e, q)
      BY <2>1 DEF Sweep
    <3> HIDE DEF q
    <3> QED
      BY <3>1, <3>2
  <2>2. CASE Heal(e)
    <3> DEFINE q == [Idle EXCEPT !.at = "lock", !.mode = "heal", !.owe = Missing(e)]
    <3>1. q.at = "lock" /\ q.mode = "heal"
      BY DEF Idle
    <3>2. Set(e, q) /\ ~Unresolved
      BY <2>2 DEF Heal
    <3> HIDE DEF q
    <3> QED
      BY <3>1, <3>2
  <2>4. CASE ReadFleet(e)
    <3> DEFINE q == [pub[e] EXCEPT !.at = "lock", !.owe = announced]
    <3>1. pub[e] \in Publisher /\ PublisherOK(e) /\ pub[e].at = "fleet"
      BY <2>4, AtWork DEF ReadFleet, LifecycleShape, LifecycleTypeOK
    <3>2. q.at = "lock" /\ q.mode = pub[e].mode /\ q.listed = pub[e].listed
      BY <3>1 DEF Publisher
    <3>3. Set(e, q) \/ Set(e, Idle)
      BY <2>4 DEF ReadFleet
    <3>4. pub[e].mode = "drop" /\ pub[e].listed = ending
      BY <3>1 DEF PublisherOK, Present
    <3>5. Idle.at = "idle" /\ Idle.mode = "live"
      BY DEF Idle
    <3> HIDE DEF q
    <3> QED
      BY <3>2, <3>3, <3>4, <3>5
  <2>3. CASE Busy(e) \/ CrashPublisher(e)
    <3>1. Set(e, Idle)
      BY <2>3 DEF Busy, CrashPublisher
    <3>2. Idle.at = "idle" /\ Idle.mode = "live"
      BY DEF Idle
    <3> QED
      BY <3>1, <3>2
  <2> QED
    BY <2>1, <2>2, <2>3, <2>4
<1>4. pub'[e] = p
  BY <1>3, SetIs
<1>5. PublisherOK(e)' /\ ~At(p)
  BY <1>1, <1>2, <1>3, <1>4, Resting DEF At
<1> QED
  BY <1>0, <1>1, <1>3, <1>5, OneGoesOn

\* Time passes, subscribers are announced, a lease lapses.
LEMMA RecordElse ==
  ASSUME LifecycleShape, Record, clean,
         UNCHANGED <<ending, tags, pub, started, told, due, requeues>>, announced \subseteq announced',
         read' \in {read, tags}
  PROVE  Record'
<1>1. CASE ending = "live"
  BY <1>1 DEF Record
<1>2. CASE ending # "live"
  <2>1. TagsOK'
    BY <1>2, TagsStay DEF Record
  <2>2. ASSUME NEW e \in Engines PROVE PublisherOK(e)'
    <3>1. PublisherOK(e) /\ Unresolved' = Unresolved
      BY <1>2 DEF Record, Unresolved
    <3>2. At(pub[e]) /\ pub[e].keep => Unresolved' /\ \A f \in Engines \ {e} : ~At(pub'[f])
      BY <3>1 DEF PublisherOK, Alone
    <3> QED
      BY <3>1, <3>2, OthersStay
  <2> QED
    BY <1>2, <2>1, <2>2 DEF Record
<1> QED
  BY <1>1, <1>2

LEMMA RecordRequeue ==
  ASSUME LifecycleShape, Record, clean, clean', RequeueSettled
  PROVE  Record'
<1>1. /\ ending' = "live" /\ requeues' = requeues + 1 /\ pub' = pub /\ ~Publishing /\ tags' = tags
      /\ read' = IF ending = "live" THEN read ELSE tags
  BY DEF RequeueSettled
<1>2. requeues' # 0
  BY <1>1, LifecycleAssumption DEF LifecycleShape, LifecycleTypeOK
<1>3. \A e \in Engines : pub[e].at = "idle" /\ pub[e].mode = "live"
  BY <1>1 DEF Publishing, Record, PublisherOK, Present
<1>4. read' = tags'
  BY <1>1 DEF Record
<1> QED
  BY <1>1, <1>2, <1>3, <1>4 DEF Record

LEMMA RecordStep == LifecycleShape /\ Record /\ [LifecycleNext]_lifecycleVars => Record'
<1> SUFFICES ASSUME LifecycleShape, Record, [LifecycleNext]_lifecycleVars, clean' PROVE Record'
  BY DEF Record
<1>0. clean
  BY CleanStays
<1>1. ASSUME NEW e \in Engines, NEW k \in Kinds, NEW usable \in BOOLEAN, NEW seen \in SUBSET Subs,
             Settle(e, k, usable, seen)
      PROVE  Record'
  BY <1>0, <1>1, RecordSettle
<1>2. ASSUME NEW e \in Engines, Sweep(e) \/ Heal(e) \/ Busy(e) \/ CrashPublisher(e) PROVE Record'
  BY <1>0, <1>2, RecordRests
<1>3. ASSUME NEW e \in Engines, Publish(e) PROVE Record'
  BY <1>0, <1>3, RecordDecide, RecordDrop DEF Publish
<1>4. ASSUME NEW e \in Engines, Advance(e) PROVE Record'
  BY <1>0, <1>4, RecordStart, RecordReread, RecordWrite, RecordRests DEF Advance
<1>5. CASE Grow \/ BeginTurn \/ LeaseLapses \/ (\E s \in Subs : Announce(s)) \/ UNCHANGED lifecycleVars
  <2>1. /\ UNCHANGED <<ending, tags, pub, started, told, due, requeues>> /\ announced \subseteq announced'
        /\ read' \in {read, tags}
    BY <1>5 DEF Grow, BeginTurn, LeaseLapses, Announce, lifecycleVars
  <2> QED
    BY <1>0, <2>1, RecordElse
<1>6. CASE RequeueSettled
  BY <1>0, <1>6, RecordRequeue
<1> QED
  BY <1>1, <1>2, <1>3, <1>4, <1>5, <1>6 DEF LifecycleNext

\* While the history is clean, a settled run has a record of whom its event is still owed to,
\* whichever publishers work on the run at once, die, or outlive their lease
\* (publishSettledLocked, withLifecycleMarker).
THEOREM RecordKept == LifecycleSpec => []OwedUntilTold
<1>1. Record => OwedUntilTold
  BY DEF Record, TagsOK, Covers, Heard, Unres, Unresolved, OwedUntilTold, Told
<1> QED
  BY <1>1, ShapeInit, ShapeStep, RecordInit, RecordStep, PTL DEF LifecycleSpec
=============================================================================
