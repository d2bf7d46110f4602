----------------------- MODULE SignalRendezvousProofs -----------------------
(***************************************************************************)
(* Proofs that a signal is delivered at most once, and that, without a     *)
(* crash, no waiter is left beside a buffered payload or by a wait that    *)
(* has timed out, for any number of senders, of waits and of crashes, and  *)
(* whatever the timer poller does; and that a token signalled once loses   *)
(* nothing until something crashes.                                        *)
(***************************************************************************)
EXTENDS SignalRendezvous, SequenceTheorems, TLAPS

-----------------------------------------------------------------------------
(* The invariant: a payload is in one place at a time. It moves from its   *)
(* sender to the buffer or to whoever took it, and from there to the one   *)
(* wait that records or returns it; no step puts it back.                  *)

Unsent(p)      == call[p] \in {"take", "buffer"}
Buffered(p)    == \E k \in 1..Len(buffer) : buffer[k] = p
Carried(p)     == \E s \in Senders : payload[s] = p
Recorded(p, i) == cp[i] = p \/ replay[i] = p \/ p \in seen[i]

OnePlace ==
  \A p \in Senders :
    /\ Unsent(p) => ~Buffered(p) /\ ~Carried(p) /\ took # p
    /\ Buffered(p) => ~Carried(p) /\ took # p
    /\ Carried(p) => took # p
    /\ Unsent(p) \/ Buffered(p) \/ Carried(p) \/ (took = p /\ at # "remove") =>
         \A i \in Seqs : ~Recorded(p, i)
    /\ took = p /\ at = "remove" => \A i \in Seqs \ {seq} : ~Recorded(p, i)
    /\ \A i, j \in Seqs : Recorded(p, i) /\ Recorded(p, j) => i = j

BufferDistinct == \A k, l \in 1..Len(buffer) : buffer[k] = buffer[l] => k = l

CarriersDistinct ==
  \A s \in Senders : /\ payload[s] # None <=> call[s] = "deliver"
                     /\ \A t \in Senders : payload[s] = payload[t] /\ payload[s] # None => s = t

TookWhen == took # None <=> at \in {"write", "rewrite", "remove", "unregister", "resolve"}
TypeInv  == TypeOK /\ TookWhen

PlaceInv == TypeInv /\ OnePlace /\ BufferDistinct /\ CarriersDistinct

-----------------------------------------------------------------------------
(* What the buffer holds after its oldest payload is taken, or one added.  *)

LEMMA HeadTaken ==
  ASSUME buffer \in Seq(Senders), buffer # <<>>, BufferDistinct, buffer' = Tail(buffer)
  PROVE  /\ Head(buffer) \in Senders /\ Buffered(Head(buffer))
         /\ buffer' \in Seq(Senders) /\ BufferDistinct'
         /\ \A p : Buffered(p)' <=> Buffered(p) /\ p # Head(buffer)
<1>1. /\ Head(buffer) = buffer[1] /\ Head(buffer) \in Senders
      /\ Len(buffer) \in Nat \ {0} /\ buffer' \in Seq(Senders) /\ Len(buffer') = Len(buffer) - 1
      /\ \A k \in 1..Len(buffer') : buffer'[k] = buffer[k + 1]
  BY HeadTailProperties, EmptySeq, LenProperties
<1>2. Buffered(Head(buffer))
  BY <1>1 DEF Buffered
<1>3. BufferDistinct'
  BY <1>1 DEF BufferDistinct
<1>4. ASSUME NEW p PROVE Buffered(p)' <=> Buffered(p) /\ p # Head(buffer)
  <2>1. ASSUME NEW k \in 1..Len(buffer'), buffer'[k] = p
        PROVE  Buffered(p) /\ p # Head(buffer)
    <3>1. k + 1 \in 1..Len(buffer) /\ buffer[k + 1] = p /\ k + 1 # 1
      BY <1>1, <2>1
    <3> QED
      BY <1>1, <3>1 DEF Buffered, BufferDistinct
  <2>2. ASSUME NEW k \in 1..Len(buffer), buffer[k] = p, p # Head(buffer)
        PROVE  Buffered(p)'
    <3>1. k - 1 \in 1..Len(buffer') /\ buffer'[k - 1] = p
      BY <1>1, <2>2
    <3> QED
      BY <3>1 DEF Buffered
  <2> QED
    BY <2>1, <2>2 DEF Buffered
<1> QED
  BY <1>1, <1>2, <1>3, <1>4

LEMMA BufferTyped ==
  ASSUME buffer \in Seq(Senders), buffer # <<>>
  PROVE  Head(buffer) \in Senders /\ Tail(buffer) \in Seq(Senders)
BY HeadTailProperties

LEMMA PayloadAdded ==
  ASSUME NEW s \in Senders, buffer \in Seq(Senders), BufferDistinct, ~Buffered(s),
         buffer' = Append(buffer, s)
  PROVE  /\ buffer' \in Seq(Senders) /\ BufferDistinct'
         /\ \A p : Buffered(p)' <=> Buffered(p) \/ p = s
<1>1. /\ buffer' \in Seq(Senders) /\ Len(buffer) \in Nat /\ Len(buffer') = Len(buffer) + 1
      /\ \A k \in 1..Len(buffer) : buffer'[k] = buffer[k]
      /\ buffer'[Len(buffer) + 1] = s
  BY AppendProperties, LenProperties
<1>2. BufferDistinct'
  BY <1>1 DEF BufferDistinct, Buffered
<1>3. ASSUME NEW p PROVE Buffered(p)' <=> Buffered(p) \/ p = s
  <2>1. Buffered(p)' => Buffered(p) \/ p = s
    BY <1>1 DEF Buffered
  <2>2. Buffered(p) \/ p = s => Buffered(p)'
    BY <1>1 DEF Buffered
  <2> QED
    BY <2>1, <2>2
<1> QED
  BY <1>1, <1>2, <1>3

LEMMA BufferKept ==
  ASSUME UNCHANGED buffer, BufferDistinct
  PROVE  BufferDistinct' /\ \A p : Buffered(p)' <=> Buffered(p)
BY DEF BufferDistinct, Buffered

-----------------------------------------------------------------------------
LEMMA PlaceInit == Init => PlaceInv
<1> SUFFICES ASSUME Init PROVE PlaceInv
  OBVIOUS
<1> USE SignalAssumption DEF Init
<1>1. TypeOK
  <2>1. buffer \in Seq(Senders) /\ waiter \in 0..NumWaits /\ row \in 0..NumWaits
    OBVIOUS
  <2>2. seq \in Seqs /\ crashes \in 0..MaxCrashes
    BY DEF Seqs
  <2>3. call \in [Senders -> Calls] /\ target \in [Senders -> 0..NumWaits]
    BY DEF Calls
  <2> QED
    BY <2>1, <2>2, <2>3 DEF TypeOK, Seqs
<1>2. buffer = <<>> /\ Len(buffer) = 0
  OBVIOUS
<1> QED
  BY <1>1, <1>2 DEF PlaceInv, TypeInv, OnePlace, BufferDistinct, CarriersDistinct, TookWhen, Buffered,
              Carried, Recorded, Seqs

LEMMA TargetTyped ==
  ASSUME NEW s \in Senders, target \in [Senders -> 0..NumWaits], Forget(s) \/ UNCHANGED target
  PROVE  target' \in [Senders -> 0..NumWaits]
<1>1. 0 \in 0..NumWaits
  BY SignalAssumption
<1> QED
  BY <1>1 DEF Forget

LEMMA TypeStep == TypeInv /\ [Next]_vars => TypeInv'
<1> SUFFICES ASSUME TypeInv, [Next]_vars PROVE TypeInv'
  OBVIOUS
<1> USE SignalAssumption
    DEF TypeInv, TookWhen, TypeOK, Seqs, Calls, Reconciling, Turning, vars, store, run, poller, calls, hist, Return,
        Checkpoint, Step
<1>1. CASE BeginTurn
  <2>1. at' \in {"idle"} \cup Reconciling \cup Turning
    BY <1>1 DEF BeginTurn
  <2>2. seq' \in Seqs
    BY <1>1 DEF BeginTurn
  <2>3. took' \in Senders \cup {None} /\ TookWhen'
    BY <1>1 DEF BeginTurn
  <2> QED
    BY <1>1, <2>1, <2>2, <2>3 DEF BeginTurn
<1>2. CASE StartTurn
  BY <1>2 DEF StartTurn, Entry
<1>3. CASE ReadCheckpoint
  <2>1. Checkpoint \in Senders \cup {None}
    BY <1>3 DEF ReadCheckpoint, GoOn, Entry
  <2>2. at' \in {"idle"} \cup Reconciling \cup Turning
    BY <1>3 DEF ReadCheckpoint, GoOn, Entry
  <2>3. seq' \in Seqs
    BY <1>3 DEF ReadCheckpoint, GoOn, Entry
  <2>4. seen' \in [Seqs -> SUBSET Senders]
    BY <1>3, <2>1 DEF ReadCheckpoint
  <2>5. took' \in Senders \cup {None} /\ TookWhen'
    BY <1>3 DEF ReadCheckpoint, GoOn, Entry
  <2> QED
    BY <1>3, <2>1, <2>2, <2>3, <2>4, <2>5 DEF ReadCheckpoint, GoOn, Entry
<1>4. CASE TakeBuffered
  <2>1. at' \in {"idle"} \cup Reconciling \cup Turning
    BY BufferTyped, <1>4 DEF TakeBuffered, NothingTaken
  <2>2. buffer' \in Seq(Senders)
    BY BufferTyped, <1>4 DEF TakeBuffered, NothingTaken
  <2>3. took' \in Senders \cup {None} /\ TookWhen'
    BY BufferTyped, <1>4 DEF TakeBuffered, NothingTaken
  <2> QED
    BY BufferTyped, <1>4, <2>1, <2>2, <2>3 DEF TakeBuffered, NothingTaken
<1>5. CASE PutWaiter
  BY <1>5 DEF PutWaiter
<1>6. CASE WriteConsumed
  <2>1. at' \in {"idle"} \cup Reconciling \cup Turning
    BY <1>6 DEF WriteConsumed, GoOn, Entry
  <2>2. seq' \in Seqs
    BY <1>6 DEF WriteConsumed, GoOn, Entry
  <2>3. cp' \in [Seqs -> Senders \cup {None}]
    BY <1>6 DEF WriteConsumed, GoOn, Entry
  <2>4. seen' \in [Seqs -> SUBSET Senders]
    <3>1. took \in Senders
      BY <1>6 DEF WriteConsumed
    <3>2. UNCHANGED seen \/ seen' = [seen EXCEPT ![seq] = @ \cup {took}]
      BY <1>6 DEF WriteConsumed
    <3> QED
      BY <3>1, <3>2
  <2>5. took' \in Senders \cup {None} /\ TookWhen'
    BY <1>6 DEF WriteConsumed, GoOn, Entry
  <2> QED
    BY <1>6, <2>1, <2>2, <2>3, <2>4, <2>5 DEF WriteConsumed, GoOn, Entry
<1>7. CASE RemoveWaiter
  <2>1. at' \in {"idle"} \cup Reconciling \cup Turning
    BY <1>7 DEF RemoveWaiter, GoOn, Entry
  <2>2. seq' \in Seqs
    BY <1>7 DEF RemoveWaiter, GoOn, Entry
  <2>3. waiter' \in 0..NumWaits
    BY <1>7 DEF RemoveWaiter, GoOn, Entry
  <2>4. seen' \in [Seqs -> SUBSET Senders]
    BY <1>7 DEF RemoveWaiter
  <2>5. took' \in Senders \cup {None} /\ TookWhen'
    BY <1>7 DEF RemoveWaiter, GoOn, Entry
  <2> QED
    BY <1>7, <2>1, <2>2, <2>3, <2>4, <2>5 DEF RemoveWaiter, GoOn, Entry
<1>8. CASE ReconcileTake
  <2>1. at' \in {"idle"} \cup Reconciling \cup Turning
    BY BufferTyped, <1>8 DEF ReconcileTake
  <2>2. seq' \in Seqs
    BY BufferTyped, <1>8 DEF ReconcileTake
  <2>3. buffer' \in Seq(Senders)
    BY BufferTyped, <1>8 DEF ReconcileTake
  <2>4. took' \in Senders \cup {None} /\ TookWhen'
    BY BufferTyped, <1>8 DEF ReconcileTake
  <2> QED
    BY BufferTyped, <1>8, <2>1, <2>2, <2>3, <2>4 DEF ReconcileTake
<1>9. CASE Unregister
  BY <1>9 DEF Unregister
<1>10. CASE Resolve
  BY <1>10 DEF Resolve
<1>11. CASE ListDue
  BY <1>11 DEF ListDue
<1>12. CASE ListRow
  BY <1>12 DEF ListRow
<1>13. CASE LockDue
  BY <1>13 DEF LockDue
<1>14. CASE CrashTurn
  <2>1. at' \in {"idle"} \cup Reconciling \cup Turning
    BY <1>14 DEF CrashTurn
  <2>2. seq' \in Seqs
    BY <1>14 DEF CrashTurn
  <2>3. crashes' \in 0..MaxCrashes
    BY <1>14 DEF CrashTurn
  <2>4. took' \in Senders \cup {None} /\ TookWhen' /\ woken' \in BOOLEAN
    BY <1>14 DEF CrashTurn
  <2> QED
    BY <1>14, <2>1, <2>2, <2>3, <2>4 DEF CrashTurn
<1>15. ASSUME NEW s \in Senders, TakeWaiter(s) PROVE TypeInv'
  <2>1. waiter' \in 0..NumWaits /\ target' \in [Senders -> 0..NumWaits]
    BY <1>15 DEF TakeWaiter
  <2>2. call' \in [Senders -> Calls]
    BY <1>15 DEF TakeWaiter
  <2>3. payload' \in [Senders -> Senders \cup {None}]
    BY <1>15 DEF TakeWaiter
  <2> QED
    BY <1>15, <2>1, <2>2, <2>3 DEF TakeWaiter
<1>16. ASSUME NEW s \in Senders, BufferSignal(s) PROVE TypeInv'
  BY AppendProperties, <1>16 DEF BufferSignal
<1>17. ASSUME NEW s \in Senders, RetakeWaiter(s) PROVE TypeInv'
  BY <1>17 DEF RetakeWaiter
<1>18. ASSUME NEW s \in Senders, ReclaimBuffered(s) PROVE TypeInv'
  <2>1. buffer' \in Seq(Senders)
    BY BufferTyped, <1>18 DEF ReclaimBuffered
  <2>2. \E c \in Calls : Step(s, c)
    BY BufferTyped, <1>18 DEF ReclaimBuffered
  <2>3. call' \in [Senders -> Calls]
    BY BufferTyped, <1>18, <2>2 DEF ReclaimBuffered
  <2>4. payload' \in [Senders -> Senders \cup {None}]
    <3>1. UNCHANGED payload \/ (buffer # <<>> /\ payload' = [payload EXCEPT ![s] = Head(buffer)])
      BY <1>18 DEF ReclaimBuffered
    <3>2. ASSUME buffer # <<>>, payload' = [payload EXCEPT ![s] = Head(buffer)]
          PROVE  payload' \in [Senders -> Senders \cup {None}]
      BY BufferTyped, <3>2
    <3> QED
      BY <3>1, <3>2
  <2>5. target' \in [Senders -> 0..NumWaits]
    BY TargetTyped, <1>18 DEF ReclaimBuffered
  <2>6. UNCHANGED <<waiter, cp, deadline, finished>> /\ UNCHANGED run /\ UNCHANGED poller /\ UNCHANGED hist
    BY <1>18 DEF ReclaimBuffered
  <2>7. TookWhen'
    BY <2>6
  <2>8. TypeOK'
    BY <2>1, <2>3, <2>4, <2>5, <2>6
  <2> QED
    BY <2>7, <2>8
<1>19. ASSUME NEW s \in Senders, Deliver(s) PROVE TypeInv'
  <2>1. target' \in [Senders -> 0..NumWaits]
    BY TargetTyped, <1>19 DEF Deliver
  <2>2. /\ cp' \in [Seqs -> Senders \cup {None}] /\ call' \in [Senders -> Calls]
        /\ payload' \in [Senders -> Senders \cup {None}]
        /\ UNCHANGED <<waiter, buffer, deadline, finished>> /\ UNCHANGED run /\ UNCHANGED poller
        /\ UNCHANGED hist
    BY <1>19 DEF Deliver
  <2>3. TookWhen'
    BY <2>2
  <2>4. TypeOK'
    BY <2>1, <2>2
  <2> QED
    BY <2>3, <2>4
<1>20. ASSUME NEW s \in Senders, Wake(s) PROVE TypeInv'
  BY <1>20 DEF Wake
<1>21. ASSUME NEW s \in Senders, CrashCall(s) PROVE TypeInv'
  <2>1. target' \in [Senders -> 0..NumWaits]
    BY TargetTyped, <1>21 DEF CrashCall
  <2>2. /\ call' \in [Senders -> Calls] /\ payload' \in [Senders -> Senders \cup {None}]
        /\ crashes' \in 0..MaxCrashes
        /\ UNCHANGED store /\ UNCHANGED run /\ UNCHANGED poller /\ UNCHANGED <<seen, timed>>
    BY <1>21 DEF CrashCall
  <2>3. TookWhen'
    BY <2>2
  <2>4. TypeOK'
    BY <2>1, <2>2
  <2> QED
    BY <2>3, <2>4
<1>22. CASE StampDeadline
  <2>1. deadline' \in [Seqs -> {"none", "ahead", "past"}]
    BY <1>22 DEF StampDeadline
  <2> QED
    BY <1>22, <2>1 DEF StampDeadline
<1>23. CASE ExpireWait
  <2>1. at' \in {"idle"} \cup Reconciling \cup Turning /\ TookWhen'
    BY <1>23 DEF ExpireWait, GoOn, Entry
  <2>2. seq' \in Seqs
    BY <1>23 DEF ExpireWait, GoOn, Entry
  <2>3. waiter' \in 0..NumWaits /\ crashes' \in 0..MaxCrashes
    BY <1>23 DEF ExpireWait, GoOn, Entry
  <2>4. timed' \subseteq Seqs
    BY <1>23 DEF ExpireWait, GoOn, Entry
  <2> QED
    BY <1>23, <2>1, <2>2, <2>3, <2>4 DEF ExpireWait, GoOn, Entry
<1>24. ASSUME NEW i \in Seqs, DeadlinePasses(i) PROVE TypeInv'
  <2>1. deadline' \in [Seqs -> {"none", "ahead", "past"}]
    BY <1>24 DEF DeadlinePasses
  <2> QED
    BY <1>24, <2>1 DEF DeadlinePasses
<1>25. CASE UNCHANGED vars
  BY <1>25
<1> QED
  BY <1>1, <1>2, <1>3, <1>4, <1>5, <1>6, <1>7, <1>8, <1>9, <1>10, <1>11,
     <1>12, <1>13, <1>14, <1>15, <1>16, <1>17, <1>18, <1>19, <1>20, <1>21,
     <1>22, <1>23, <1>24, <1>25
     DEF Next, TurnStep, PollStep, CallStep

\* A checkpoint that is read again is recorded already.
LEMMA ReadKeepsPlace ==
  ASSUME PlaceInv, ReadCheckpoint, Checkpoint # None
  PROVE  OnePlace'
<1>1. /\ UNCHANGED <<buffer, payload, call, took, cp, replay>> /\ took = None /\ seq \in Seqs
      /\ seen \in [Seqs -> SUBSET Senders] /\ seen' = [seen EXCEPT ![seq] = @ \cup {Checkpoint}]
  BY DEF ReadCheckpoint, Return, GoOn, PlaceInv, TypeInv, TypeOK, TookWhen, calls
<1>2. ASSUME NEW p \in Senders, NEW i \in Seqs PROVE Recorded(p, i)' <=> Recorded(p, i)
  BY <1>1 DEF Recorded, Checkpoint
<1>3. \A p : /\ Unsent(p)' <=> Unsent(p)
             /\ Buffered(p)' <=> Buffered(p)
             /\ Carried(p)' <=> Carried(p)
  BY <1>1 DEF Unsent, Buffered, Carried
<1> QED
  BY <1>1, <1>2, <1>3, SignalAssumption DEF PlaceInv, OnePlace

\* A payload taken from the buffer gets the place of the wait it resolves.
LEMMA WriteKeepsPlace ==
  ASSUME PlaceInv, WriteConsumed, at = "write"
  PROVE  OnePlace'
<1>1. /\ UNCHANGED <<buffer, payload, call, replay>> /\ took \in Senders /\ took' = None /\ seq \in Seqs
      /\ cp \in [Seqs -> Senders \cup {None}] /\ cp' = [cp EXCEPT ![seq] = took]
      /\ seen \in [Seqs -> SUBSET Senders] /\ seen' = [seen EXCEPT ![seq] = @ \cup {took}]
  BY DEF WriteConsumed, Return, GoOn, PlaceInv, TypeInv, TypeOK, TookWhen, calls
<1>2. ASSUME NEW p \in Senders, NEW i \in Seqs, Recorded(p, i)'
      PROVE  Recorded(p, i) \/ (p = took /\ i = seq)
  BY <1>1, <1>2 DEF Recorded
<1>3. \A p : /\ Unsent(p)' <=> Unsent(p)
             /\ Buffered(p)' <=> Buffered(p)
             /\ Carried(p)' <=> Carried(p)
  BY <1>1 DEF Unsent, Buffered, Carried
<1>4. at # "remove"
  OBVIOUS
<1> QED
  BY <1>1, <1>2, <1>3, <1>4, SignalAssumption DEF PlaceInv, OnePlace

LEMMA PlaceStep ==
  ASSUME PlaceInv, TypeInv', [Next]_vars
  PROVE  PlaceInv'
<1> USE SignalAssumption
    DEF PlaceInv, OnePlace, CarriersDistinct, TookWhen, Unsent, Carried, Recorded,
        vars, store, run, poller, calls, hist, Return, Checkpoint, Step, Forget
<1>0. /\ buffer \in Seq(Senders) /\ seq \in Seqs /\ took \in Senders \cup {None} /\ TookWhen
      /\ cp \in [Seqs -> Senders \cup {None}] /\ replay \in [Seqs -> Senders \cup {None}]
      /\ seen \in [Seqs -> SUBSET Senders] /\ payload \in [Senders -> Senders \cup {None}]
      /\ call \in [Senders -> Calls]
  BY DEF TypeInv, TypeOK
<1> USE <1>0
<1>1. CASE BeginTurn
  BY BufferKept, <1>1 DEF BeginTurn
<1>2. CASE StartTurn
  BY BufferKept, <1>2 DEF StartTurn, Entry
<1>3. CASE ReadCheckpoint
  <2>1. BufferDistinct'
    BY ReadKeepsPlace, BufferKept, <1>3 DEF ReadCheckpoint, GoOn, Entry
  <2>2. CarriersDistinct'
    BY ReadKeepsPlace, BufferKept, <1>3 DEF ReadCheckpoint, GoOn, Entry
  <2>3. CASE Checkpoint = None
    BY ReadKeepsPlace, BufferKept, <1>3, <2>3 DEF ReadCheckpoint, GoOn, Entry
  <2>4. CASE Checkpoint # None
    BY ReadKeepsPlace, BufferKept, <1>3, <2>4 DEF ReadCheckpoint, GoOn, Entry
  <2> QED
    BY ReadKeepsPlace, BufferKept, <1>3, <2>1, <2>2, <2>3, <2>4 DEF ReadCheckpoint, GoOn, Entry
<1>4. CASE TakeBuffered
  <2>1. BufferDistinct'
    BY HeadTaken, BufferKept, <1>4 DEF TakeBuffered, NothingTaken
  <2>2. CarriersDistinct'
    BY HeadTaken, BufferKept, <1>4 DEF TakeBuffered, NothingTaken
  <2>3. OnePlace'
    BY HeadTaken, BufferKept, <1>4 DEF TakeBuffered, NothingTaken
  <2> QED
    BY HeadTaken, BufferKept, <1>4, <2>1, <2>2, <2>3 DEF TakeBuffered, NothingTaken
<1>5. CASE PutWaiter
  BY BufferKept, <1>5 DEF PutWaiter
<1>6. CASE WriteConsumed
  <2>1. BufferDistinct'
    BY WriteKeepsPlace, BufferKept, <1>6 DEF WriteConsumed, GoOn, Entry
  <2>2. CarriersDistinct'
    BY WriteKeepsPlace, BufferKept, <1>6 DEF WriteConsumed, GoOn, Entry
  <2>3. CASE at = "write"
    BY WriteKeepsPlace, BufferKept, <1>6, <2>3 DEF WriteConsumed, GoOn, Entry
  <2>4. CASE at = "rewrite"
    BY WriteKeepsPlace, BufferKept, <1>6, <2>4 DEF WriteConsumed, GoOn, Entry
  <2> QED
    BY WriteKeepsPlace, BufferKept, <1>6, <2>1, <2>2, <2>3, <2>4 DEF WriteConsumed, GoOn, Entry
<1>7. CASE RemoveWaiter
  BY BufferKept, <1>7 DEF RemoveWaiter, GoOn, Entry
<1>8. CASE ReconcileTake
  <2>1. BufferDistinct'
    BY HeadTaken, BufferKept, <1>8 DEF ReconcileTake
  <2>2. CarriersDistinct'
    BY HeadTaken, BufferKept, <1>8 DEF ReconcileTake
  <2>3. OnePlace'
    BY HeadTaken, BufferKept, <1>8 DEF ReconcileTake
  <2> QED
    BY HeadTaken, BufferKept, <1>8, <2>1, <2>2, <2>3 DEF ReconcileTake
<1>9. CASE Unregister
  BY BufferKept, <1>9 DEF Unregister
<1>10. CASE Resolve
  BY BufferKept, <1>10 DEF Resolve
<1>11. CASE ListDue
  BY BufferKept, <1>11 DEF ListDue
<1>12. CASE ListRow
  BY BufferKept, <1>12 DEF ListRow
<1>13. CASE LockDue
  BY BufferKept, <1>13 DEF LockDue
<1>14. CASE CrashTurn
  BY BufferKept, <1>14 DEF CrashTurn
<1>15. ASSUME NEW s \in Senders, TakeWaiter(s) PROVE PlaceInv'
  <2>1. BufferDistinct'
    BY BufferKept, <1>15 DEF TakeWaiter
  <2>2. CarriersDistinct'
    BY BufferKept, <1>15 DEF TakeWaiter
  <2>3. OnePlace'
    BY BufferKept, <1>15 DEF TakeWaiter
  <2> QED
    BY BufferKept, <1>15, <2>1, <2>2, <2>3 DEF TakeWaiter
<1>16. ASSUME NEW s \in Senders, BufferSignal(s) PROVE PlaceInv'
  BY PayloadAdded, <1>16 DEF BufferSignal
<1>17. ASSUME NEW s \in Senders, RetakeWaiter(s) PROVE PlaceInv'
  BY BufferKept, <1>17 DEF RetakeWaiter
<1>18. ASSUME NEW s \in Senders, ReclaimBuffered(s) PROVE PlaceInv'
  <2>1. BufferDistinct'
    BY HeadTaken, BufferKept, <1>18 DEF ReclaimBuffered
  <2>2. CarriersDistinct'
    BY HeadTaken, BufferKept, <1>18 DEF ReclaimBuffered
  <2>3. OnePlace'
    BY HeadTaken, BufferKept, <1>18 DEF ReclaimBuffered
  <2> QED
    BY HeadTaken, BufferKept, <1>18, <2>1, <2>2, <2>3 DEF ReclaimBuffered
<1>19. ASSUME NEW s \in Senders, Deliver(s) PROVE PlaceInv'
  BY BufferKept, <1>19 DEF Deliver
<1>20. ASSUME NEW s \in Senders, Wake(s) PROVE PlaceInv'
  BY BufferKept, <1>20 DEF Wake
<1>21. ASSUME NEW s \in Senders, CrashCall(s) PROVE PlaceInv'
  BY BufferKept, <1>21 DEF CrashCall
<1>22. CASE StampDeadline
  BY BufferKept, <1>22 DEF StampDeadline
<1>23. CASE ExpireWait
  <2>1. BufferDistinct'
    BY BufferKept, <1>23 DEF ExpireWait, GoOn, Entry
  <2>2. CarriersDistinct'
    BY BufferKept, <1>23 DEF ExpireWait, GoOn, Entry
  <2>3. OnePlace'
    BY BufferKept, <1>23 DEF ExpireWait, GoOn, Entry
  <2> QED
    BY <2>1, <2>2, <2>3
<1>24. ASSUME NEW i \in Seqs, DeadlinePasses(i) PROVE PlaceInv'
  BY BufferKept, <1>24 DEF DeadlinePasses
<1>25. CASE UNCHANGED vars
  BY BufferKept, <1>25
<1> QED
  BY <1>1, <1>2, <1>3, <1>4, <1>5, <1>6, <1>7, <1>8, <1>9, <1>10, <1>11,
     <1>12, <1>13, <1>14, <1>15, <1>16, <1>17, <1>18, <1>19, <1>20, <1>21,
     <1>22, <1>23, <1>24, <1>25
     DEF Next, TurnStep, PollStep, CallStep

-----------------------------------------------------------------------------
(* The two sides meet: whoever completes the pair of a waiter and a        *)
(* payload has yet to look for the other.                                  *)

Looking == at # "idle" \/ woken \/ \E s \in Senders : call[s] = "retake"

Meet == crashes = 0 /\ ~finished /\ waiter # 0 /\ buffer # <<>> => Looking

\* A turn that suspends looked at the buffer last; one that goes on is still looking.
LEMMA TurnMeets ==
  ASSUME TypeInv, Meet, TurnStep \/ PollStep
  PROVE  Meet'
<1> USE DEF Meet, Looking
<1>1. CASE BeginTurn \/ PutWaiter \/ Unregister \/ Resolve \/ ReconcileTake
  BY <1>1 DEF BeginTurn, PutWaiter, Unregister, Resolve, ReconcileTake
<1>2. CASE StartTurn
  BY <1>2 DEF StartTurn, Entry, store, calls, hist
<1>3. CASE ReadCheckpoint \/ WriteConsumed \/ RemoveWaiter \/ ExpireWait \/ StampDeadline
  BY <1>3 DEF ReadCheckpoint, WriteConsumed, RemoveWaiter, ExpireWait, StampDeadline, Return, GoOn, Entry
<1>4. CASE TakeBuffered
  BY <1>4 DEF TakeBuffered, NothingTaken
<1>5. CASE PollStep
  BY <1>5 DEF PollStep, ListDue, ListRow, LockDue, store, run, calls, hist
<1> QED
  BY <1>1, <1>2, <1>3, <1>4, <1>5 DEF TurnStep

\* A sender that buffers looks for a waiter next, and takes the one it finds.
LEMMA SenderMeets ==
  ASSUME TypeInv, Meet, NEW s \in Senders, CallStep(s)
  PROVE  Meet'
<1> USE DEF Meet, Looking, Step, Forget, TypeInv, TypeOK
<1>1. CASE TakeWaiter(s) \/ RetakeWaiter(s)
  BY <1>1 DEF TakeWaiter, RetakeWaiter
<1>2. CASE BufferSignal(s)
  BY <1>2 DEF BufferSignal
<1>3. CASE ReclaimBuffered(s)
  <2>1. buffer' # <<>> => buffer # <<>>
    BY <1>3 DEF ReclaimBuffered
  <2> QED
    BY <1>3, <2>1 DEF ReclaimBuffered, run, hist
<1>4. CASE Deliver(s) \/ Wake(s)
  BY <1>4 DEF Deliver, Wake, store, run, hist
<1> QED
  BY <1>1, <1>2, <1>3, <1>4 DEF CallStep

LEMMA MeetStep ==
  ASSUME TypeInv, Meet, [Next]_vars
  PROVE  Meet'
<1>1. CASE TurnStep \/ PollStep
  BY <1>1, TurnMeets
<1>2. CASE \E s \in Senders : CallStep(s)
  BY <1>2, SenderMeets
<1>3. CASE CrashTurn \/ \E s \in Senders : CrashCall(s)
  <2>1. crashes' = crashes + 1
    BY <1>3 DEF CrashTurn, CrashCall
  <2>2. crashes \in Nat
    BY SignalAssumption DEF TypeInv, TypeOK
  <2> QED
    BY <2>1, <2>2 DEF Meet
<1>4. CASE \E i \in Seqs : DeadlinePasses(i)
  BY <1>4 DEF DeadlinePasses, Meet, Looking, run, calls, hist
<1>5. CASE UNCHANGED vars
  BY <1>5 DEF Meet, Looking, vars, store, run, calls, hist
<1> QED
  BY <1>1, <1>2, <1>3, <1>4, <1>5 DEF Next

-----------------------------------------------------------------------------
(* A wait that has timed out registers no more: its deadline stays past,   *)
(* and a turn that goes on to register found it ahead.                     *)

Unregistered ==
  /\ \A i \in timed : deadline[i] = "past"
  /\ at = "put" => seq \notin timed
  /\ at = "expire" => deadline[seq] = "past"
  /\ crashes = 0 => waiter \notin timed

LEMMA UnregisteredStep ==
  ASSUME TypeInv, Unregistered, [Next]_vars
  PROVE  Unregistered'
<1> USE DEF TypeInv, TypeOK, Unregistered
<1>0. timed \subseteq Seqs /\ 0 \notin Seqs /\ crashes \in Nat
  BY SignalAssumption DEF Seqs
<1>1. CASE BeginTurn \/ PutWaiter \/ Unregister \/ Resolve \/ ReconcileTake
  BY <1>0, <1>1 DEF BeginTurn, PutWaiter, Unregister, Resolve, ReconcileTake, store, hist
<1>2. CASE StartTurn \/ StampDeadline
  BY <1>0, <1>2 DEF StartTurn, StampDeadline, Entry, store, hist
<1>3. CASE ReadCheckpoint \/ WriteConsumed \/ RemoveWaiter
  BY <1>0, <1>3 DEF ReadCheckpoint, WriteConsumed, RemoveWaiter, Return, GoOn, Entry
<1>4. CASE TakeBuffered
  BY <1>0, <1>4 DEF TakeBuffered, NothingTaken, hist
<1>5. CASE ExpireWait
  BY <1>0, <1>5 DEF ExpireWait, GoOn, Entry
<1>6. CASE PollStep
  BY <1>0, <1>6 DEF PollStep, ListDue, ListRow, LockDue, store, run, hist
<1>7. ASSUME NEW s \in Senders, CallStep(s) PROVE Unregistered'
  BY <1>0, <1>7 DEF CallStep, TakeWaiter, BufferSignal, RetakeWaiter, ReclaimBuffered, Deliver, Wake, Step,
     store, run, hist
<1>8. CASE CrashTurn \/ \E s \in Senders : CrashCall(s)
  <2>1. crashes' = crashes + 1
    BY <1>8 DEF CrashTurn, CrashCall
  <2>2. /\ UNCHANGED <<timed, deadline>>
        /\ at' \notin {"put", "expire"} \/ UNCHANGED <<at, seq>>
    BY <1>8 DEF CrashTurn, CrashCall, store, run
  <2>3. crashes' # 0
    BY <1>0, <2>1
  <2> QED
    BY <2>2, <2>3
<1>9. ASSUME NEW i \in Seqs, DeadlinePasses(i) PROVE Unregistered'
  BY <1>0, <1>9 DEF DeadlinePasses, run, hist
<1>10. CASE UNCHANGED vars
  BY <1>10 DEF vars, store, run, hist
<1> QED
  BY <1>1, <1>2, <1>3, <1>4, <1>5, <1>6, <1>7, <1>8, <1>9, <1>10 DEF Next, TurnStep

-----------------------------------------------------------------------------
(* One call: nobody else can take its payload for another wait, or record  *)
(* something over it.                                                      *)

Parked == at = "idle" /\ ~woken /\ ~finished

\* The one payload of the token is buffered, with the turn, with its sender, or recorded.
Somewhere(c) == buffer # <<>> \/ took # None \/ payload[c] # None \/ \E i \in Seqs : cp[i] # None

\* The run parks once its waiter row is there and the buffer was empty; a row gone by
\* then was taken by the call, which delivers, or found the payload taken.
Lone(c) ==
  crashes = 0 =>
    /\ call[c] \in {"reclaim", "deliver"} => target[c] # 0
    /\ call[c] \notin {"take", "buffer"} => Somewhere(c)
    /\ (at = "retake" \/ Parked) /\ waiter = 0 => call[c] \notin {"take", "buffer", "retake"}
    /\ Parked /\ waiter = 0 /\ buffer # <<>> => call[c] = "reclaim"
    /\ at = "remove" => \E i \in Seqs : cp[i] # None

\* A checkpoint that is written stays written.
LEMMA RecordStays ==
  ASSUME TypeInv, NEW k \in Nat, NEW p \in Senders, cp' = [cp EXCEPT ![k] = p]
  PROVE  /\ (\E i \in Seqs : cp[i] # None) => \E i \in Seqs : cp'[i] # None
         /\ k \in Seqs => \E i \in Seqs : cp'[i] # None
<1>1. p # None /\ cp \in [Seqs -> Senders \cup {None}]
  BY SignalAssumption DEF TypeInv, TypeOK
<1> QED
  BY <1>1

\* One sender's payload is alone in the buffer.
LEMMA OneBuffered ==
  ASSUME PlaceInv, NEW c \in Senders, Senders = {c}, buffer # <<>>
  PROVE  Head(buffer) = c /\ 1 \in 1..Len(buffer) /\ buffer[1] = c /\ Tail(buffer) = <<>>
<1>1. buffer \in Seq(Senders) /\ BufferDistinct
  BY DEF PlaceInv, TypeInv, TypeOK
<1>2. /\ Head(buffer) = buffer[1] /\ Head(buffer) \in Senders
      /\ Len(buffer) \in Nat \ {0} /\ Tail(buffer) \in Seq(Senders) /\ Len(Tail(buffer)) = Len(buffer) - 1
      /\ \A k \in 1..Len(buffer) : buffer[k] \in Senders
  BY <1>1, HeadTailProperties, EmptySeq, LenProperties, ElementOfSeq
<1>3. Len(buffer) = 1
  <2>1. ASSUME Len(buffer) > 1 PROVE FALSE
    <3>1. 1 \in 1..Len(buffer) /\ 2 \in 1..Len(buffer)
      BY <1>2, <2>1
    <3>2. buffer[1] = c /\ buffer[2] = c
      BY <1>2, <3>1
    <3> QED
      BY <1>1, <3>1, <3>2 DEF BufferDistinct
  <2> QED
    BY <1>2, <2>1
<1>4. Tail(buffer) = <<>>
  <2>1. Len(Tail(buffer)) = 0
    BY <1>2, <1>3
  <2> QED
    BY <1>2, <2>1, EmptySeq
<1> QED
  BY <1>2, <1>3, <1>4

LEMMA LoneTurn ==
  ASSUME PlaceInv, NEW c \in Senders, Senders = {c}, Lone(c), TurnStep \/ PollStep
  PROVE  Lone(c)'
<1> SUFFICES ASSUME crashes' = 0 PROVE Lone(c)'
  BY DEF Lone
<1> USE DEF Lone, Somewhere, Parked
<1>1. /\ crashes = 0 \/ ExpireWait
      /\ took # None <=> at \in {"write", "rewrite", "remove", "unregister", "resolve"}
      /\ took \in Senders \cup {None} /\ buffer \in Seq(Senders) /\ None \notin Senders /\ seq \in Seqs /\ seq \in Nat
      /\ seq # 0 /\ waiter \in Nat /\ crashes \in Nat
  BY SignalAssumption
     DEF PlaceInv, TypeInv, TypeOK, TookWhen, Seqs, TurnStep, PollStep, BeginTurn, StartTurn, StampDeadline,
         ReadCheckpoint, TakeBuffered, PutWaiter, WriteConsumed, RemoveWaiter, ReconcileTake, Unregister,
         Resolve, ListDue, ListRow, LockDue, hist
<1>2. CASE BeginTurn \/ PutWaiter \/ Unregister
  BY <1>1, <1>2 DEF BeginTurn, PutWaiter, Unregister, store, calls, hist
<1>3. CASE StartTurn \/ StampDeadline
  BY <1>1, <1>3 DEF StartTurn, StampDeadline, Entry, store, calls, hist
<1>4. CASE ReadCheckpoint
  BY <1>1, <1>4 DEF ReadCheckpoint, Return, GoOn, Entry, calls
<1>5. CASE ExpireWait
  <2>1. crashes = 0
    BY <1>1, <1>5 DEF ExpireWait
  <2> QED
    BY <1>1, <1>5, <2>1 DEF ExpireWait, GoOn, Entry, calls
<1>6. CASE TakeBuffered \/ ReconcileTake
  <2>1. buffer # <<>> => Head(buffer) # None
    BY <1>1, BufferTyped
  <2>2. buffer = <<>> => UNCHANGED buffer
    BY <1>6 DEF TakeBuffered, ReconcileTake
  <2> QED
    BY <1>1, <1>6, <2>1, <2>2 DEF TakeBuffered, ReconcileTake, NothingTaken, calls, hist
<1>7. CASE WriteConsumed \/ Resolve
  <2>1. took \in Senders /\ cp' = [cp EXCEPT ![seq] = took]
    BY <1>1, <1>7 DEF WriteConsumed, Resolve
  <2>2. \E i \in Seqs : cp'[i] # None
    BY <1>1, <2>1, RecordStays DEF PlaceInv
  <2>3. /\ UNCHANGED <<buffer, call, target, payload, waiter>>
        /\ at' # "retake" /\ (at' = "idle" => finished')
    BY <1>7 DEF WriteConsumed, Resolve, Return, GoOn, Entry, calls
  <2>4. crashes = 0
    BY <1>1, <1>7 DEF WriteConsumed, Resolve, ExpireWait
  <2> QED
    BY <2>2, <2>3, <2>4
<1>8. CASE RemoveWaiter
  BY <1>1, <1>8 DEF RemoveWaiter, Return, GoOn, Entry, calls
<1>9. CASE PollStep
  BY <1>1, <1>9 DEF PollStep, ListDue, ListRow, LockDue, store, run, calls, hist
<1> QED
  BY <1>2, <1>3, <1>4, <1>5, <1>6, <1>7, <1>8, <1>9 DEF TurnStep

LEMMA LoneCall ==
  ASSUME PlaceInv, NEW c \in Senders, Senders = {c}, Lone(c), CallStep(c)
  PROVE  Lone(c)'
<1> SUFFICES ASSUME crashes = 0, crashes' = 0 PROVE Lone(c)'
  BY DEF Lone, CallStep, TakeWaiter, BufferSignal, RetakeWaiter, ReclaimBuffered, Deliver, Wake, hist
<1> USE DEF Lone, Somewhere, Parked, Step, Forget
<1>1. /\ call \in [Senders -> Calls] /\ target \in [Senders -> 0..NumWaits] /\ payload \in [Senders -> Senders \cup {None}]
      /\ buffer \in Seq(Senders) /\ None \notin Senders /\ waiter \in 0..NumWaits
      /\ payload[c] # None <=> call[c] = "deliver"
  BY SignalAssumption DEF PlaceInv, TypeInv, TypeOK, CarriersDistinct
<1>0. call[c] \in {"take", "deliver"} => buffer = <<>>
  <2>1. buffer # <<>> => Buffered(c)
    BY OneBuffered DEF Buffered
  <2>2. call[c] = "deliver" => payload[c] = c
    BY <1>1
  <2> QED
    BY <2>1, <2>2 DEF PlaceInv, OnePlace, Unsent, Carried
<1>2. CASE TakeWaiter(c)
  <2>1. /\ waiter' = 0 /\ UNCHANGED <<buffer, cp, finished, at, woken>>
        /\ call'[c] = (IF waiter = 0 THEN "buffer" ELSE "deliver")
        /\ payload'[c] = (IF waiter = 0 THEN None ELSE c) /\ target'[c] = waiter
    BY <1>1, <1>2 DEF TakeWaiter, run
  <2>2. call[c] = "take" /\ c # None
    BY <1>1, <1>2 DEF TakeWaiter
  <2>3. CASE waiter = 0
    BY <2>1, <2>2, <2>3
  <2>4. CASE waiter # 0
    BY <1>0, <2>1, <2>2, <2>4
  <2> QED
    BY <2>3, <2>4
<1>3. CASE BufferSignal(c)
  <2>1. buffer' # <<>>
    BY <1>1, <1>3 DEF BufferSignal
  <2>2. call'[c] = "retake" /\ UNCHANGED <<waiter, cp, finished, at, woken, target, payload>>
    BY <1>1, <1>3 DEF BufferSignal, run
  <2> QED
    BY <1>3, <2>1, <2>2 DEF BufferSignal
<1>4. CASE RetakeWaiter(c)
  BY <1>1, <1>4 DEF RetakeWaiter, run, hist
<1>5. CASE ReclaimBuffered(c)
  <2>1. CASE buffer = <<>>
    BY <1>1, <1>5, <2>1 DEF ReclaimBuffered, run, hist
  <2>2. CASE buffer # <<>>
    <3>1. Head(buffer) # None /\ Tail(buffer) = <<>>
      BY <1>1, <2>2, OneBuffered
    <3>2. call'[c] = "deliver" /\ payload'[c] # None /\ buffer' = <<>> /\ UNCHANGED <<waiter, cp, finished, at, woken, target>>
      BY <1>1, <1>5, <2>2, <3>1 DEF ReclaimBuffered, run
    <3> QED
      BY <1>5, <3>2 DEF ReclaimBuffered
  <2> QED
    BY <2>1, <2>2
<1>6. CASE Deliver(c)
  <2>1. call[c] = "deliver" /\ payload[c] \in Senders /\ cp' = [cp EXCEPT ![target[c]] = payload[c]]
    BY <1>1, <1>6 DEF Deliver
  <2>2. target[c] \in Seqs /\ target[c] \in Nat
    BY <1>1, <2>1, SignalAssumption DEF Seqs
  <2>3. TypeInv
    BY DEF PlaceInv
  <2>4. \E i \in Seqs : cp'[i] # None
    BY <2>1, <2>2, <2>3, RecordStays
  <2>5. call'[c] = "wake" /\ UNCHANGED <<waiter, buffer, finished, at, woken>>
    BY <1>1, <1>6 DEF Deliver, run
  <2> QED
    BY <1>0, <2>1, <2>4, <2>5
<1>7. CASE Wake(c)
  BY <1>1, <1>7 DEF Wake, store
<1> QED
  BY <1>2, <1>3, <1>4, <1>5, <1>6, <1>7 DEF CallStep

LEMMA LoneStep ==
  ASSUME PlaceInv, NEW c \in Senders, Senders = {c}, Lone(c), [Next]_vars
  PROVE  Lone(c)'
<1>1. CASE TurnStep \/ PollStep
  BY <1>1, LoneTurn
<1>2. CASE \E s \in Senders : CallStep(s)
  BY <1>2, LoneCall
<1>3. CASE CrashTurn \/ \E s \in Senders : CrashCall(s)
  <2>1. crashes' = crashes + 1
    BY <1>3 DEF CrashTurn, CrashCall
  <2>2. crashes \in Nat
    BY SignalAssumption DEF PlaceInv, TypeInv, TypeOK
  <2> QED
    BY <2>1, <2>2 DEF Lone
<1>4. CASE \E i \in Seqs : DeadlinePasses(i)
  BY <1>4 DEF DeadlinePasses, Lone, Somewhere, Parked, run, calls, hist
<1>5. CASE UNCHANGED vars
  BY <1>5 DEF Lone, Somewhere, Parked, vars, store, run, calls, hist
<1> QED
  BY <1>1, <1>2, <1>3, <1>4, <1>5 DEF Next

-----------------------------------------------------------------------------
(* The theorems.                                                           *)

\* The records of a token keep their shape whatever the order of the calls.
THEOREM TypeCorrect == Spec => []TypeOK
<1>1. Init => TypeInv
  BY PlaceInit DEF PlaceInv
<1>2. TypeInv => TypeOK
  BY DEF TypeInv
<1> QED
  BY <1>1, <1>2, TypeStep, PTL DEF Spec

\* No payload resolves two waits, and no two waits return it: the destructive
\* takes of `signal`, `consumeBuffered` and the reconcile sweep arbitrate.
THEOREM Delivery == Spec => []DeliveredOnce
<1>1. PlaceInv /\ [Next]_vars => PlaceInv'
  BY TypeStep, PlaceStep DEF PlaceInv
<1>2. PlaceInv => DeliveredOnce
  BY DEF PlaceInv, TypeInv, OnePlace, DeliveredOnce, Recorded, TypeOK
<1> QED
  BY PlaceInit, <1>1, <1>2, PTL DEF Spec

\* Without a crash, check-put-recheck and take-buffer-retake never leave a waiter and a payload
\* behind that nobody will pair (waitForSignal, signal).
THEOREM PairMeets == Spec => []NoStrandedPair
<1>1. Init => TypeInv /\ Meet
  BY PlaceInit DEF PlaceInv, Init, Meet
<1>2. TypeInv /\ Meet /\ [Next]_vars => (TypeInv /\ Meet)'
  BY TypeStep, MeetStep
<1>3. Meet => NoStrandedPair
  BY DEF Meet, Looking, NoStrandedPair, Quiet
<1> QED
  BY <1>1, <1>2, <1>3, PTL DEF Spec

\* Without a crash, a bounded wait that timed out never has its row in the store again: a later
\* signal is not taken for it (waitForSignal).
THEOREM TimedOutForgotten == Spec => []TimedOutUnregistered
<1>1. Init => TypeInv /\ Unregistered
  BY PlaceInit DEF PlaceInv, Init, Unregistered
<1>2. TypeInv /\ Unregistered /\ [Next]_vars => (TypeInv /\ Unregistered)'
  BY TypeStep, UnregisteredStep
<1>3. Unregistered => TimedOutUnregistered
  BY DEF Unregistered, TimedOutUnregistered
<1> QED
  BY <1>1, <1>2, <1>3, PTL DEF Spec

\* A token that is signalled once keeps what is promised of every signal, in any order of
\* the calls and of the sweep, until something crashes: the payload is not lost, and the run
\* does not stay suspended beside it. It takes a second call to lose either (README, 7).
THEOREM OneSignalArrives ==
  ASSUME NEW c, Senders = {c}
  PROVE  Spec => [](crashes = 0 => SignalNotLost /\ NoLostWake)
<1>1. Init => PlaceInv /\ Meet /\ Lone(c)
  BY PlaceInit DEF Init, Meet, Lone, Somewhere, Parked
<1>2. PlaceInv /\ Meet /\ Lone(c) /\ [Next]_vars => (PlaceInv /\ Meet /\ Lone(c))'
  BY TypeStep, PlaceStep, MeetStep, LoneStep DEF PlaceInv
<1>3. PlaceInv /\ Meet /\ Lone(c) => (crashes = 0 => SignalNotLost /\ NoLostWake)
  <2> SUFFICES ASSUME PlaceInv, Meet, Lone(c), crashes = 0 PROVE SignalNotLost /\ NoLostWake
    OBVIOUS
  <2>1. /\ cp \in [Seqs -> Senders \cup {None}] /\ took \in Senders \cup {None}
        /\ payload \in [Senders -> Senders \cup {None}]
    BY DEF PlaceInv, TypeInv, TypeOK
  <2>2. buffer # <<>> => 1 \in 1..Len(buffer) /\ buffer[1] = c
    BY OneBuffered
  <2>3. SignalNotLost
    BY <2>1, <2>2 DEF SignalNotLost, Lone, Somewhere
  <2>4. ASSUME Quiet, ~finished, buffer # <<>> PROVE FALSE
    <3>1. Parked /\ call[c] \notin {"retake", "reclaim"} /\ ~Looking
      BY <2>4 DEF Quiet, Parked, Looking
    <3> QED
      BY <2>4, <3>1 DEF Lone, Meet
  <2> QED
    BY <2>3, <2>4 DEF NoLostWake
<1> QED
  BY <1>1, <1>2, <1>3, PTL DEF Spec

=============================================================================
