--------------------------- MODULE RunLeaseProofs ---------------------------
(***************************************************************************)
(* Proofs about RunLease, for any number of instances, of steps and of     *)
(* disturbances.                                                           *)
(*                                                                         *)
(* Typing holds whatever happens to the run. The lease theorems are about  *)
(* a run that plain cancels befall, up to the first crash (Quiet); so is   *)
(* the one about what may overtake an outcome, and for a run nothing       *)
(* happens to, nothing may. No more holds (README, 7).                     *)
(***************************************************************************)
EXTENDS RunLease, TLAPS

Quiet == Disturbances \subseteq {"cancel", "crash"}
Undisturbed == Disturbances = {}

Held(e) == owner = e /\ live

-----------------------------------------------------------------------------
(* The typing invariant: a step is in flight only while one is left.       *)

StepLeft == inflight => done < MaxSteps
TypeInv  == TypeOK /\ StepLeft

(* The lease invariant.                                                    *)

\* A turn about to start from the snapshot of a run nobody started.
FreshPCs == {"mine", "other", "prove", "trylock", "start"}
FreshCarrier(e) == pc[e] \in FreshPCs /\ carried[e] = "pending"
Unstarted == status = "pending" \/ \E e \in Engines : FreshCarrier(e)

\* Until the run starts nothing has been dispatched that could wake it: only the
\* poll job that locked it comes near it, and it keeps the lease all the way.
UnstartedClean ==
  Unstarted =>
    /\ done = 0 /\ ~inflight /\ undo = "none"
    /\ \A e \in Engines :
         /\ rewake[e] = "idle" /\ ~queued[e] /\ ~fenced[e]
         /\ pc[e] \in {"idle", "read", "mine", "start"}
         /\ pc[e] # "idle" => Held(e) /\ job[e] = "await" /\ (pc[e] # "start" => reserved[e])
         /\ pc[e] \in FreshPCs => carried[e] = "pending"
         /\ job[e] = "picked" => Held(e) /\ pc[e] = "idle"

\* While the run can still change, whoever executes it holds the lease, and so
\* does whoever locked it for its next turn.
LiveLease ==
  status \notin Terminal =>
    \A e \in Engines :
      /\ ~fenced[e]
      /\ pc[e] \in Executing => Held(e)
      /\ pc[e] = "mine" /\ (reserved[e] \/ job[e] = "picked") => Held(e)

\* Only the first turn reads `running`: a run resumed from a suspension stays
\* `suspended` in the store. No wake is being tried again meanwhile.
RunningTurn ==
  status = "running" => /\ \E e \in Engines : pc[e] \in {"body", "settle"}
                        /\ \A e \in Engines : rewake[e] \in {"idle", "retry"}

\* The body ends once all its steps are done, the same way in every turn.
Outcome ==
  /\ \A e \in Engines :
       pc[e] = "settle" /\ carried[e] # "suspended" => done = MaxSteps /\ carried[e] = verdict
  /\ status \in {"completed", "failed"} =>
       /\ done = MaxSteps /\ status = verdict
       /\ \A e \in Engines : pc[e] = "settle" => carried[e] = verdict

\* Nobody undoes or requeues the run.
NoUndo ==
  /\ status \notin {"cancelling", "dead"}
  /\ \A e \in Engines : op[e] \in {"idle", "cancel"} /\ ~cancelRequested[e]
                        /\ carried[e] # "cancelling"

\* Nothing crashed, so no poll job finds an orphan, and nothing is counted.
QuietJobs == /\ ~stale /\ attempts = 0
             /\ \A e \in Engines : job[e] \in {"idle", "pick", "picked", "await"}

\* Without a cancel either, the run is still pending when its first turn starts.
FreshLive ==
  Undisturbed => /\ status # "cancelled" /\ \A e \in Engines : op[e] = "idle"
                 /\ \A e \in Engines : FreshCarrier(e) => status = "pending"

LeaseInv == /\ TypeInv /\ UnstartedClean /\ LiveLease /\ RunningTurn /\ Outcome /\ NoUndo
            /\ QuietJobs /\ FreshLive

-----------------------------------------------------------------------------
(* Typing.                                                                 *)

LEMMA TypeInit == Init => TypeInv
<1> SUFFICES ASSUME Init PROVE TypeInv
  OBVIOUS
<1> USE RunLeaseAssumption DEF Init, Statuses, Terminal, PCs, Jobs, OpStates, Rewakes
<1>1. done \in 0..MaxSteps /\ disturbed \in 0..MaxDisturbances /\ attempts \in Nat /\ crashes \in Nat
  OBVIOUS
<1>2. pc \in [Engines -> PCs] /\ job \in [Engines -> Jobs] /\ op \in [Engines -> OpStates]
  OBVIOUS
<1>3. carried \in [Engines -> Statuses] /\ rewake \in [Engines -> Rewakes]
  OBVIOUS
<1>4. reserved \in [Engines -> BOOLEAN] /\ queued \in [Engines -> BOOLEAN]
  OBVIOUS
<1>5. fenced \in [Engines -> BOOLEAN] /\ cancelRequested \in [Engines -> BOOLEAN]
  OBVIOUS
<1> QED
  BY <1>1, <1>2, <1>3, <1>4, <1>5 DEF TypeInv, TypeOK, StepLeft

\* What the gate operations do to the turn they meet.
LEMMA GateTyped ==
  ASSUME TypeOK, NEW e \in Engines, Arrive(e) \/ OpenGate(e) \/ \E b \in BOOLEAN : Leave(e, b)
  PROVE  pc' \in [Engines -> PCs] /\ queued' \in [Engines -> BOOLEAN]
<1>1. pc \in [Engines -> PCs] /\ queued \in [Engines -> BOOLEAN] /\ {"read", "idle"} \subseteq PCs
  BY DEF TypeOK, PCs
<1>2. CASE Arrive(e)
  BY <1>1, <1>2 DEF Arrive
<1>3. ASSUME NEW b \in BOOLEAN, Leave(e, b)
      PROVE  pc' \in [Engines -> PCs] /\ queued' \in [Engines -> BOOLEAN]
  BY <1>1, <1>3 DEF Leave
<1>4. CASE OpenGate(e)
  BY <1>1, <1>3, <1>4 DEF OpenGate
<1> QED
  BY <1>2, <1>3, <1>4

LEMMA LapseTyped == TypeInv /\ Lapse => TypeInv'
<1>1. TypeOK /\ Lapse => TypeOK'
  BY Zenon DEF TypeOK, Lapse, step, turn, tasks, env
<1>2. StepLeft /\ Lapse => StepLeft'
  BY DEF StepLeft, Lapse, step
<1> QED
  BY <1>1, <1>2 DEF TypeInv

\* The step a result settles was left to do.
LEMMA StepSettled ==
  ASSUME TypeInv, inflight, inflight' = FALSE, done' = done + 1
  PROVE  inflight' \in BOOLEAN /\ done' \in 0..MaxSteps /\ StepLeft'
<1>1. done \in 0..MaxSteps /\ done < MaxSteps /\ MaxSteps \in Nat
  BY RunLeaseAssumption DEF TypeInv, TypeOK, StepLeft
<1>2. done' \in 0..MaxSteps
  BY <1>1
<1>3. inflight' \in BOOLEAN /\ StepLeft'
  BY Zenon DEF StepLeft
<1> QED
  BY <1>2, <1>3

LEMMA TypeStep == TypeInv /\ [Next]_vars => TypeInv'
<1> SUFFICES ASSUME TypeInv, [Next]_vars PROVE TypeInv'
  OBVIOUS
<1> USE RunLeaseAssumption
    DEF TypeInv, TypeOK, StepLeft,
        Statuses, Terminal, PCs, Jobs, OpStates, Rewakes, Executing, Recovering,
        vars, row, lease, step, turn, tasks, env, Goto, SetJob, SetOp, SetRewake, LeaseFree, TakeLease, ReleaseLease, RenewLease, LockJob, NewOp, Disturb
<1>1. ASSUME NEW e \in Engines, ReadRun(e) PROVE TypeInv'
  <2>1. pc' \in [Engines -> PCs] /\ queued' \in [Engines -> BOOLEAN]
    <3>1. CASE Leave(e, FALSE)
      BY <3>1, GateTyped
    <3> QED
      BY <1>1, <3>1 DEF ReadRun
  <2>2. carried' \in [Engines -> Statuses]
    BY <1>1 DEF ReadRun
  <2>3. UNCHANGED <<step, reserved, fenced, cancelRequested, tasks, env>>
    BY <1>1, Zenon DEF ReadRun
  <2>4. UNCHANGED <<status, owner, live, stale, attempts>>
    BY <1>1 DEF ReadRun
  <2>5. StepLeft'
    BY <2>3
  <2> HIDE DEF Statuses, PCs, Jobs, OpStates, Rewakes
  <2>6. TypeOK'
    BY <2>1, <2>2, <2>3, <2>4, Zenon
  <2> QED
    BY <2>5, <2>6
<1>2. ASSUME NEW e \in Engines, ChooseLock(e) PROVE TypeInv'
  BY <1>2 DEF ChooseLock
<1>3. ASSUME NEW e \in Engines, ProveOwnLease(e) PROVE TypeInv'
  <2>1. owner' \in Engines \cup {None} /\ live' \in BOOLEAN /\ stale' \in BOOLEAN
    BY <1>3 DEF ProveOwnLease
  <2>2. pc' \in [Engines -> PCs]
    BY <1>3 DEF ProveOwnLease
  <2> QED
    BY <1>3, <2>1, <2>2 DEF ProveOwnLease
<1>4. ASSUME NEW e \in Engines, TryLock(e) PROVE TypeInv'
  <2>1. owner' \in Engines \cup {None} /\ live' \in BOOLEAN /\ stale' \in BOOLEAN
    BY <1>4 DEF TryLock
  <2>2. pc' \in [Engines -> PCs] /\ queued' \in [Engines -> BOOLEAN]
    <3>1. CASE Leave(e, FALSE)
      BY <3>1, GateTyped
    <3> QED
      BY <1>4, <3>1 DEF TryLock
  <2>3. carried' \in [Engines -> Statuses]
    BY <1>4 DEF TryLock
  <2>4. rewake' \in [Engines -> Rewakes]
    BY <1>4 DEF TryLock
  <2>5. kept' \in BOOLEAN
    BY <1>4 DEF TryLock
  <2>6. job' \in [Engines -> Jobs] /\ op' \in [Engines -> OpStates] /\ settledBy' \in Engines \cup {None}
    BY <1>4 DEF TryLock
  <2>7. TypeOK'
    BY <1>4, <2>1, <2>2, <2>3, <2>4, <2>5, <2>6, Zenon DEF TryLock
  <2>8. StepLeft'
    BY <1>4, SMT DEF TryLock
  <2> QED
    BY <2>7, <2>8
<1>5. ASSUME NEW e \in Engines, StartTurn(e) PROVE TypeInv'
  BY <1>5 DEF StartTurn
<1>6. ASSUME NEW e \in Engines, RunBody(e) PROVE TypeInv'
  BY <1>6 DEF RunBody
<1>7. ASSUME NEW e \in Engines, SettleRun(e) PROVE TypeInv'
  BY <1>7 DEF SettleRun, MayWrite, SettleEligible, SuspendEligible
<1>8. ASSUME NEW e \in Engines, ReleaseTurn(e) PROVE TypeInv'
  <2>1. owner' \in Engines \cup {None} /\ live' \in BOOLEAN /\ stale' \in BOOLEAN
    BY <1>8 DEF ReleaseTurn
  <2>2. pc' \in [Engines -> PCs] /\ queued' \in [Engines -> BOOLEAN]
    BY <1>8, GateTyped DEF ReleaseTurn
  <2>3. carried' \in [Engines -> Statuses] /\ fenced' \in [Engines -> BOOLEAN]
    BY <1>8 DEF ReleaseTurn
  <2>4. rewake' \in [Engines -> Rewakes]
    BY <1>8 DEF ReleaseTurn
  <2> QED
    BY <1>8, <2>1, <2>2, <2>3, <2>4 DEF ReleaseTurn
<1>9. ASSUME NEW e \in Engines, RenewTurn(e) PROVE TypeInv'
  <2>1. owner' \in Engines \cup {None} /\ live' \in BOOLEAN /\ stale' \in BOOLEAN
    BY <1>9 DEF RenewTurn
  <2>2. fenced' \in [Engines -> BOOLEAN]
    BY <1>9 DEF RenewTurn
  <2> QED
    BY <1>9, <2>1, <2>2 DEF RenewTurn
<1>10. ASSUME NEW e \in Engines, RemoteResult(e) PROVE TypeInv'
  <2>1. pc' \in [Engines -> PCs] /\ queued' \in [Engines -> BOOLEAN]
    BY <1>10, GateTyped DEF RemoteResult
  <2>2. settledBy' \in Engines \cup {None} /\ undo' \in {"none", "inflight", "done"}
    BY <1>10 DEF RemoteResult
  <2>3. inflight' \in BOOLEAN /\ done' \in 0..MaxSteps /\ StepLeft'
    <3>1. CASE inflight /\ inflight' = FALSE /\ done' = done + 1
      BY <3>1, StepSettled
    <3>2. CASE UNCHANGED <<inflight, done>>
      BY <3>2
    <3> QED
      BY <1>10, <3>1, <3>2, Zenon DEF RemoteResult
  <2>4. TypeOK'
    BY <1>10, <2>1, <2>2, <2>3, Zenon DEF RemoteResult
  <2> QED
    BY <2>3, <2>4
<1>11. ASSUME NEW e \in Engines, Redelivery(e) PROVE TypeInv'
  <2>1. pc' \in [Engines -> PCs] /\ queued' \in [Engines -> BOOLEAN]
    BY <1>11, GateTyped DEF Redelivery
  <2> QED
    BY <1>11, <2>1 DEF Redelivery
<1>12. ASSUME NEW e \in Engines, RewakeCheck(e) PROVE TypeInv'
  BY <1>12 DEF RewakeCheck
<1>13. ASSUME NEW e \in Engines, RewakeLock(e) PROVE TypeInv'
  <2>1. owner' \in Engines \cup {None} /\ live' \in BOOLEAN /\ stale' \in BOOLEAN
    BY <1>13 DEF RewakeLock
  <2>2. rewake' \in [Engines -> Rewakes]
    BY <1>13 DEF RewakeLock
  <2> QED
    BY <1>13, <2>1, <2>2 DEF RewakeLock
<1>14. ASSUME NEW e \in Engines, RewakeResume(e) PROVE TypeInv'
  <2>1. owner' \in Engines \cup {None} /\ live' \in BOOLEAN /\ stale' \in BOOLEAN
    BY <1>14 DEF RewakeResume
  <2>2. pc' \in [Engines -> PCs] /\ queued' \in [Engines -> BOOLEAN]
    BY <1>14, GateTyped DEF RewakeResume
  <2>3. rewake' \in [Engines -> Rewakes]
    BY <1>14 DEF RewakeResume
  <2> QED
    BY <1>14, <2>1, <2>2, <2>3 DEF RewakeResume
<1>15. ASSUME NEW e \in Engines, RewakeDone(e) PROVE TypeInv'
  BY <1>15 DEF RewakeDone
<1>16. ASSUME NEW e \in Engines, ListWork(e) PROVE TypeInv'
  BY <1>16 DEF ListWork
<1>17. ASSUME NEW e \in Engines, ListOrphan(e) PROVE TypeInv'
  BY <1>17 DEF ListOrphan
<1>18. ASSUME NEW e \in Engines, PickLock(e) PROVE TypeInv'
  <2>1. owner' \in Engines \cup {None} /\ live' \in BOOLEAN /\ stale' \in BOOLEAN
    BY <1>18 DEF PickLock
  <2>2. job' \in [Engines -> Jobs]
    BY <1>18 DEF PickLock
  <2> QED
    BY <1>18, <2>1, <2>2 DEF PickLock
<1>19. ASSUME NEW e \in Engines, PickResume(e) PROVE TypeInv'
  <2>1. pc' \in [Engines -> PCs] /\ queued' \in [Engines -> BOOLEAN]
    BY <1>19, GateTyped DEF PickResume
  <2>2. job' \in [Engines -> Jobs]
    BY <1>19 DEF PickResume
  <2>3. reserved' \in [Engines -> BOOLEAN]
    BY <1>19 DEF PickResume
  <2> QED
    BY <1>19, <2>1, <2>2, <2>3 DEF PickResume
<1>20. ASSUME NEW e \in Engines, PickDone(e) PROVE TypeInv'
  BY <1>20 DEF PickDone
<1>21. ASSUME NEW e \in Engines, RecoverLock(e) PROVE TypeInv'
  <2>1. owner' \in Engines \cup {None} /\ live' \in BOOLEAN /\ stale' \in BOOLEAN
    BY <1>21 DEF RecoverLock
  <2>2. job' \in [Engines -> Jobs]
    BY <1>21 DEF RecoverLock
  <2> QED
    BY <1>21, <2>1, <2>2 DEF RecoverLock
<1>22. ASSUME NEW e \in Engines, Reclaim(e) PROVE TypeInv'
  <2>1. owner' \in Engines \cup {None} /\ live' \in BOOLEAN /\ stale' \in BOOLEAN
    BY <1>22 DEF Reclaim
  <2>2. pc' \in [Engines -> PCs] /\ queued' \in [Engines -> BOOLEAN]
    BY <1>22 DEF Reclaim
  <2>3. job' \in [Engines -> Jobs]
    BY <1>22 DEF Reclaim
  <2> QED
    BY <1>22, <2>1, <2>2, <2>3 DEF Reclaim
<1>23. ASSUME NEW e \in Engines, Decide(e) PROVE TypeInv'
  <2>1. owner' \in Engines \cup {None} /\ live' \in BOOLEAN /\ stale' \in BOOLEAN
    BY <1>23 DEF Decide
  <2>2. pc' \in [Engines -> PCs] /\ queued' \in [Engines -> BOOLEAN]
    BY <1>23, GateTyped DEF Decide
  <2>3. job' \in [Engines -> Jobs]
    BY <1>23 DEF Decide
  <2> QED
    BY <1>23, <2>1, <2>2, <2>3 DEF Decide
<1>24. ASSUME NEW e \in Engines, Park(e) PROVE TypeInv'
  BY <1>24 DEF Park
<1>25. ASSUME NEW e \in Engines, CountRecovery(e) PROVE TypeInv'
  BY <1>25 DEF CountRecovery
<1>26. ASSUME NEW e \in Engines, RecoverRelease(e) PROVE TypeInv'
  <2>1. owner' \in Engines \cup {None} /\ live' \in BOOLEAN /\ stale' \in BOOLEAN
    BY <1>26 DEF RecoverRelease
  <2>2. pc' \in [Engines -> PCs] /\ queued' \in [Engines -> BOOLEAN]
    BY <1>26, GateTyped DEF RecoverRelease
  <2>3. job' \in [Engines -> Jobs]
    BY <1>26 DEF RecoverRelease
  <2> QED
    BY <1>26, <2>1, <2>2, <2>3 DEF RecoverRelease
<1>27. ASSUME NEW e \in Engines, Repend(e) PROVE TypeInv'
  <2>1. pc' \in [Engines -> PCs] /\ queued' \in [Engines -> BOOLEAN]
    BY <1>27, GateTyped DEF Repend
  <2>2. job' \in [Engines -> Jobs]
    BY <1>27 DEF Repend
  <2> QED
    BY <1>27, <2>1, <2>2 DEF Repend
<1>28. ASSUME NEW e \in Engines, CancelRead(e) PROVE TypeInv'
  BY <1>28 DEF CancelRead
<1>29. ASSUME NEW e \in Engines, CancelWrite(e) PROVE TypeInv'
  BY <1>29 DEF CancelWrite
<1>30. ASSUME NEW e \in Engines, CompensateRead(e) PROVE TypeInv'
  BY <1>30 DEF CompensateRead
<1>31. ASSUME NEW e \in Engines, CompensateWrite(e) PROVE TypeInv'
  <2>1. pc' \in [Engines -> PCs] /\ queued' \in [Engines -> BOOLEAN]
    BY <1>31, GateTyped DEF CompensateWrite
  <2>2. op' \in [Engines -> OpStates]
    BY <1>31 DEF CompensateWrite
  <2> QED
    BY <1>31, <2>1, <2>2 DEF CompensateWrite
<1>32. ASSUME NEW e \in Engines, RequeueRead(e) PROVE TypeInv'
  BY <1>32 DEF RequeueRead
<1>33. ASSUME NEW e \in Engines, RequeueRelease(e) PROVE TypeInv'
  <2>1. owner' \in Engines \cup {None} /\ live' \in BOOLEAN /\ stale' \in BOOLEAN
    BY <1>33 DEF RequeueRelease
  <2>2. op' \in [Engines -> OpStates]
    BY <1>33 DEF RequeueRelease
  <2> QED
    BY <1>33, <2>1, <2>2 DEF RequeueRelease
<1>34. ASSUME NEW e \in Engines, RequeueWrite(e) PROVE TypeInv'
  BY <1>34 DEF RequeueWrite
<1>35. ASSUME NEW e \in Engines, Crash(e) PROVE TypeInv'
  BY <1>35 DEF Crash
<1>36. CASE ForeignResume
  <2>1. disturbed' \in 0..MaxDisturbances
    BY <1>36 DEF ForeignResume
  <2> QED
    BY <1>36, <2>1 DEF ForeignResume
<1>37. CASE Lapse
  BY <1>37, LapseTyped
<1>38. CASE Stall
  <2>1. disturbed' \in 0..MaxDisturbances
    BY <1>38 DEF Stall
  <2>2. owner' \in Engines \cup {None} /\ live' \in BOOLEAN /\ stale' \in BOOLEAN
    BY <1>38 DEF Stall
  <2> QED
    BY <1>38, <2>1, <2>2 DEF Stall
<1>39. CASE UNCHANGED vars
  BY <1>39
<1> HIDE DEF TypeInv, TypeOK, StepLeft,
        Statuses, Terminal, PCs, Jobs, OpStates, Rewakes, Executing, Recovering,
        vars, row, lease, step, turn, tasks, env, Goto, SetJob, SetOp, SetRewake, LeaseFree,
        TakeLease, ReleaseLease, RenewLease, LockJob, NewOp, Disturb
<1>40. ASSUME NEW e \in Engines, TurnStep(e) \/ RewakeStep(e) \/ OpStep(e) PROVE TypeInv'
  BY <1>1, <1>2, <1>3, <1>4, <1>5, <1>6, <1>7, <1>8, <1>12, <1>13, <1>14, <1>15,
     <1>29, <1>31, <1>33, <1>34, <1>40 DEF TurnStep, RewakeStep, OpStep
<1>41. ASSUME NEW e \in Engines, JobStep(e) PROVE TypeInv'
  BY <1>18, <1>19, <1>20, <1>21, <1>22, <1>23, <1>24, <1>25, <1>26, <1>27, <1>41 DEF JobStep
<1>42. ASSUME NEW e \in Engines, EngineStep(e) PROVE TypeInv'
  BY <1>9, <1>10, <1>11, <1>16, <1>17, <1>28, <1>30, <1>32, <1>35, <1>40, <1>41, <1>42
     DEF EngineStep
<1> QED
  BY <1>36, <1>37, <1>38, <1>39, <1>42 DEF Next

-----------------------------------------------------------------------------
(* The lease invariant.                                                    *)

LEMMA LeaseInit == Init => LeaseInv
<1> SUFFICES ASSUME Init PROVE LeaseInv
  OBVIOUS
<1>1. TypeInv
  BY TypeInit
<1> QED
  BY <1>1 DEF Init, LeaseInv, UnstartedClean, LiveLease, RunningTurn, Outcome, NoUndo, QuietJobs,
              FreshLive, FreshCarrier, Executing, Recovering, Terminal, FreshPCs

LEMMA LeaseStep ==
  ASSUME Quiet, LeaseInv, TypeInv', [Next]_vars, crashes' = 0
  PROVE  LeaseInv'
<1> USE RunLeaseAssumption
    DEF LeaseInv, Unstarted, UnstartedClean, LiveLease, RunningTurn, Outcome, NoUndo, QuietJobs,
        FreshLive, FreshCarrier, FreshPCs, Quiet, Undisturbed, Held, TypeInv, TypeOK, StepLeft,
        Statuses, Terminal, PCs, Jobs, OpStates, Rewakes, Executing, Recovering,
        vars, row, lease, step, turn, tasks, env, Goto, SetJob, SetOp, SetRewake, Leave, Arrive,
        OpenGate, LeaseFree, TakeLease, ReleaseLease, RenewLease, LockJob, NewOp, Disturb
<1>1. ASSUME NEW e \in Engines, ReadRun(e) PROVE LeaseInv'
  BY <1>1 DEF ReadRun
<1>2. ASSUME NEW e \in Engines, ChooseLock(e) PROVE LeaseInv'
  BY <1>2 DEF ChooseLock
<1>3. ASSUME NEW e \in Engines, ProveOwnLease(e) PROVE LeaseInv'
  BY <1>3 DEF ProveOwnLease
<1>4. ASSUME NEW e \in Engines, TryLock(e) PROVE LeaseInv'
  BY <1>4, SMTT(20) DEF TryLock
<1>5. ASSUME NEW e \in Engines, StartTurn(e) PROVE LeaseInv'
  BY <1>5 DEF StartTurn
<1>6. ASSUME NEW e \in Engines, RunBody(e) PROVE LeaseInv'
  BY <1>6 DEF RunBody
<1>7. ASSUME NEW e \in Engines, SettleRun(e) PROVE LeaseInv'
  BY <1>7 DEF SettleRun, MayWrite, SettleEligible, SuspendEligible
<1>8. ASSUME NEW e \in Engines, ReleaseTurn(e) PROVE LeaseInv'
  BY <1>8 DEF ReleaseTurn
<1>9. ASSUME NEW e \in Engines, RenewTurn(e) PROVE LeaseInv'
  BY <1>9 DEF RenewTurn
<1>10. ASSUME NEW e \in Engines, RemoteResult(e) PROVE LeaseInv'
  BY <1>10 DEF RemoteResult
<1>11. ASSUME NEW e \in Engines, Redelivery(e) PROVE LeaseInv'
  BY <1>11 DEF Redelivery
<1>12. ASSUME NEW e \in Engines, RewakeCheck(e) PROVE LeaseInv'
  BY <1>12 DEF RewakeCheck
<1>13. ASSUME NEW e \in Engines, RewakeLock(e) PROVE LeaseInv'
  BY <1>13 DEF RewakeLock
<1>14. ASSUME NEW e \in Engines, RewakeResume(e) PROVE LeaseInv'
  BY <1>14 DEF RewakeResume
<1>15. ASSUME NEW e \in Engines, RewakeDone(e) PROVE LeaseInv'
  BY <1>15 DEF RewakeDone
<1>16. ASSUME NEW e \in Engines, ListWork(e) PROVE LeaseInv'
  BY <1>16 DEF ListWork
<1>17. ASSUME NEW e \in Engines, ListOrphan(e) PROVE LeaseInv'
  BY <1>17 DEF ListOrphan
<1>18. ASSUME NEW e \in Engines, PickLock(e) PROVE LeaseInv'
  BY <1>18 DEF PickLock
<1>19. ASSUME NEW e \in Engines, PickResume(e) PROVE LeaseInv'
  BY <1>19 DEF PickResume
<1>20. ASSUME NEW e \in Engines, PickDone(e) PROVE LeaseInv'
  BY <1>20 DEF PickDone
<1>21. ASSUME NEW e \in Engines, RecoverLock(e) PROVE LeaseInv'
  BY <1>21 DEF RecoverLock
<1>22. ASSUME NEW e \in Engines, Reclaim(e) PROVE LeaseInv'
  BY <1>22 DEF Reclaim
<1>23. ASSUME NEW e \in Engines, Decide(e) PROVE LeaseInv'
  BY <1>23 DEF Decide
<1>24. ASSUME NEW e \in Engines, Park(e) PROVE LeaseInv'
  BY <1>24 DEF Park
<1>25. ASSUME NEW e \in Engines, CountRecovery(e) PROVE LeaseInv'
  BY <1>25 DEF CountRecovery
<1>26. ASSUME NEW e \in Engines, RecoverRelease(e) PROVE LeaseInv'
  BY <1>26 DEF RecoverRelease
<1>27. ASSUME NEW e \in Engines, Repend(e) PROVE LeaseInv'
  BY <1>27 DEF Repend
<1>28. ASSUME NEW e \in Engines, CancelRead(e) PROVE LeaseInv'
  BY <1>28 DEF CancelRead
<1>29. ASSUME NEW e \in Engines, CancelWrite(e) PROVE LeaseInv'
  BY <1>29 DEF CancelWrite
<1>30. ASSUME NEW e \in Engines, CompensateRead(e) PROVE LeaseInv'
  BY <1>30 DEF CompensateRead
<1>31. ASSUME NEW e \in Engines, CompensateWrite(e) PROVE LeaseInv'
  BY <1>31 DEF CompensateWrite
<1>32. ASSUME NEW e \in Engines, RequeueRead(e) PROVE LeaseInv'
  BY <1>32 DEF RequeueRead
<1>33. ASSUME NEW e \in Engines, RequeueRelease(e) PROVE LeaseInv'
  BY <1>33 DEF RequeueRelease
<1>34. ASSUME NEW e \in Engines, RequeueWrite(e) PROVE LeaseInv'
  BY <1>34 DEF RequeueWrite
<1>35. ASSUME NEW e \in Engines, Crash(e) PROVE LeaseInv'
  BY <1>35 DEF Crash
<1>36. CASE ForeignResume
  BY <1>36 DEF ForeignResume
<1>37. CASE Lapse
  BY <1>37 DEF Lapse, Using
<1>38. CASE Stall
  BY <1>38 DEF Stall
<1>39. CASE UNCHANGED vars
  BY <1>39
<1> HIDE DEF LeaseInv, Unstarted, UnstartedClean, LiveLease, RunningTurn, Outcome, NoUndo, QuietJobs,
        FreshLive, FreshCarrier, FreshPCs, Quiet, Undisturbed, Held, TypeInv, TypeOK, StepLeft,
        Statuses, Terminal, PCs, Jobs, OpStates, Rewakes, Executing, Recovering,
        vars, row, lease, step, turn, tasks, env, Goto, SetJob, SetOp, SetRewake, Leave, Arrive,
        OpenGate, LeaseFree, TakeLease, ReleaseLease, RenewLease, LockJob, NewOp, Disturb
<1>40. ASSUME NEW e \in Engines, TurnStep(e) \/ RewakeStep(e) \/ OpStep(e) PROVE LeaseInv'
  BY <1>1, <1>2, <1>3, <1>4, <1>5, <1>6, <1>7, <1>8, <1>12, <1>13, <1>14, <1>15,
     <1>29, <1>31, <1>33, <1>34, <1>40 DEF TurnStep, RewakeStep, OpStep
<1>41. ASSUME NEW e \in Engines, JobStep(e) PROVE LeaseInv'
  BY <1>18, <1>19, <1>20, <1>21, <1>22, <1>23, <1>24, <1>25, <1>26, <1>27, <1>41 DEF JobStep
<1>42. ASSUME NEW e \in Engines, EngineStep(e) PROVE LeaseInv'
  BY <1>9, <1>10, <1>11, <1>16, <1>17, <1>28, <1>30, <1>32, <1>35, <1>40, <1>41, <1>42
     DEF EngineStep
<1> QED
  BY <1>36, <1>37, <1>38, <1>39, <1>42 DEF Next

-----------------------------------------------------------------------------
(* The theorems.                                                           *)

\* The row, the checkpoints and every instance's state stay what the code
\* takes them for, whatever happens to the run.
THEOREM TypeCorrect == Spec => []TypeOK
<1>1. TypeInv => TypeOK
  BY DEF TypeInv
<1> QED
  BY TypeInit, TypeStep, <1>1, PTL DEF Spec

\* Crashes are counted, and nothing else changes their number.
LEMMA CrashesCount ==
  ASSUME [Next]_vars
  PROVE  crashes' = crashes \/ ("crash" \in Disturbances /\ crashes' = crashes + 1)
<1> USE DEF vars, env
<1>1. ASSUME NEW e \in Engines, TurnStep(e) \/ JobStep(e) \/ RewakeStep(e) \/ OpStep(e)
      PROVE  UNCHANGED crashes
  BY <1>1
     DEF TurnStep, ReadRun, ChooseLock, ProveOwnLease, TryLock, StartTurn, RunBody, SettleRun,
         ReleaseTurn, JobStep, PickLock, PickResume, PickDone, RecoverLock, LockJob, Reclaim,
         Decide, Park, CountRecovery, RecoverRelease, Repend, RewakeStep, RewakeCheck,
         RewakeLock, RewakeResume, RewakeDone, OpStep, CancelWrite, CompensateWrite,
         RequeueRelease, RequeueWrite
<1>2. ASSUME NEW e \in Engines, EngineStep(e), ~Crash(e)
      PROVE  UNCHANGED crashes
  BY <1>1, <1>2
     DEF EngineStep, RenewTurn, RemoteResult, Redelivery, ListWork, ListOrphan, CancelRead,
         CompensateRead, RequeueRead, NewOp
<1>3. ASSUME NEW e \in Engines, Crash(e)
      PROVE  "crash" \in Disturbances /\ crashes' = crashes + 1
  BY <1>3 DEF Crash, Disturb
<1> QED
  BY <1>2, <1>3 DEF Next, ForeignResume, Lapse, Stall

\* The inductive invariant the lease theorems follow from holds up to the first
\* crash.
THEOREM LeaseInvariant ==
  ASSUME Quiet
  PROVE  Spec => [](crashes = 0 => LeaseInv)
<1> DEFINE UntilCrash == TypeInv /\ (crashes = 0 => LeaseInv)
<1>1. Init => UntilCrash
  BY TypeInit, LeaseInit
<1>2. UntilCrash /\ [Next]_vars => UntilCrash'
  <2> SUFFICES ASSUME UntilCrash, [Next]_vars PROVE UntilCrash'
    OBVIOUS
  <2>1. TypeInv'
    BY TypeStep
  <2>2. crashes \in Nat /\ (crashes' = 0 => crashes = 0)
    BY CrashesCount DEF TypeInv, TypeOK
  <2>3. ASSUME crashes' = 0 PROVE LeaseInv'
    BY <2>1, <2>2, <2>3, LeaseStep
  <2> QED
    BY <2>1, <2>3
<1>3. UntilCrash => (crashes = 0 => LeaseInv)
  OBVIOUS
<1> HIDE DEF UntilCrash
<1> QED
  BY <1>1, <1>2, <1>3, PTL DEF Spec

\* Where crashes are no disturbance, none is counted.
LEMMA NoCrashes ==
  ASSUME Quiet, "crash" \notin Disturbances
  PROVE  Spec => []LeaseInv
<1> DEFINE NoneYet == crashes = 0
<1>1. Init => NoneYet
  BY DEF Init
<1>2. NoneYet /\ [Next]_vars => NoneYet'
  BY CrashesCount
<1>3. Spec => [](NoneYet => LeaseInv)
  BY LeaseInvariant
<1> HIDE DEF NoneYet
<1> QED
  BY <1>1, <1>2, <1>3, PTL DEF Spec

\* The run lease admits one executor while the run can still change: two turns
\* never overlap, whatever the instances, the poll jobs, the results arriving
\* anywhere and the plain cancels, as long as no process has died.
THEOREM MutualExclusion ==
  ASSUME Quiet
  PROVE  Spec => [](crashes = 0 => OneLiveExecutor)
<1>1. LeaseInv => OneLiveExecutor
  BY DEF LeaseInv, LiveLease, OneLiveExecutor, OneExecutor, Held
<1> QED
  BY LeaseInvariant, <1>1, PTL

\* A run nothing has killed reads `running` only while its lease is held, so
\* recovery cannot take it for an orphan.
THEOREM RunningHeld ==
  ASSUME Quiet
  PROVE  Spec => []RunningIsHeld
<1>1. (crashes = 0 => LeaseInv) => RunningIsHeld
  BY RunLeaseAssumption
     DEF LeaseInv, TypeInv, TypeOK, LiveLease, RunningTurn, RunningIsHeld, Held, Executing, Terminal
<1> QED
  BY LeaseInvariant, <1>1, PTL

\* ... and so it never charges such a run's budget, let alone dead-letters it.
THEOREM CountedAfterCrash ==
  ASSUME Quiet
  PROVE  Spec => []CountedOnlyAfterCrash
<1>1. TypeOK /\ (crashes = 0 => LeaseInv) => CountedOnlyAfterCrash
  BY DEF TypeOK, LeaseInv, QuietJobs, NoUndo, CountedOnlyAfterCrash
<1> QED
  BY LeaseInvariant, TypeCorrect, <1>1, PTL

\* What may overtake the outcome of a run that plain cancels befall: a cancel that
\* read the run before it ended, or a turn about to start from a snapshot of the
\* run still pending, whose markStarted compares nothing.
LateCancel(e) == op[e] = "cancel" /\ op'[e] = "idle" /\ status' = "cancelled"
LateStart(e)  ==
  pc[e] = "start" /\ pc'[e] = "body" /\ carried[e] = "pending" /\ status' = "running"
OvertakenOnlyByRace ==
  [][crashes' = 0 /\ status \in Terminal /\ status' # status
       => \E e \in Engines : LateCancel(e) \/ LateStart(e)]_vars

LEMMA OvertakeStep ==
  ASSUME LeaseInv, Next, status \in Terminal, status' # status
  PROVE  \E e \in Engines : LateCancel(e) \/ LateStart(e)
<1> USE RunLeaseAssumption
    DEF LeaseInv, Outcome, NoUndo, QuietJobs, Terminal, Executing, Recovering, row
<1>1. ASSUME NEW e \in Engines, StartTurn(e) PROVE LateStart(e)
  BY <1>1 DEF StartTurn, LateStart, Goto, TypeInv, TypeOK
<1>2. ASSUME NEW e \in Engines, SettleRun(e) PROVE UNCHANGED status
  BY <1>2 DEF SettleRun, MayWrite, SettleEligible, SuspendEligible, TypeInv, TypeOK
<1>3. ASSUME NEW e \in Engines, Park(e) \/ CountRecovery(e) \/ Repend(e) PROVE UNCHANGED status
  BY <1>3 DEF Park, CountRecovery, Repend
<1>4. ASSUME NEW e \in Engines, OpStep(e) PROVE LateCancel(e)
  BY <1>4 DEF OpStep, CancelWrite, CompensateWrite, RequeueRelease, RequeueWrite, LateCancel,
             SetOp, TypeInv, TypeOK
<1>5. ASSUME NEW e \in Engines, TurnStep(e) PROVE LateStart(e)
  BY <1>1, <1>2, <1>5
     DEF TurnStep, ReadRun, ChooseLock, ProveOwnLease, TryLock, RunBody, ReleaseTurn
<1>6. ASSUME NEW e \in Engines, JobStep(e) PROVE UNCHANGED status
  BY <1>3, <1>6
     DEF JobStep, PickLock, PickResume, PickDone, RecoverLock, LockJob, Reclaim, Decide,
         RecoverRelease
<1>7. ASSUME NEW e \in Engines, EngineStep(e) PROVE LateCancel(e) \/ LateStart(e)
  BY <1>4, <1>5, <1>6, <1>7
     DEF EngineStep, RenewTurn, RemoteResult, Redelivery, RewakeStep, RewakeCheck, RewakeLock,
         RewakeResume, RewakeDone, ListWork, ListOrphan, CancelRead, CompensateRead, RequeueRead,
         Crash
<1> QED
  BY <1>7 DEF Next, ForeignResume, Lapse, Stall

\* Cancels in any number and any order undo an outcome in these two ways only: a
\* turn that settles late, a result or a poll job that comes late undoes none.
THEOREM OutcomeOvertaken ==
  ASSUME Quiet
  PROVE  Spec => OvertakenOnlyByRace
<1> DEFINE Late == \E e \in Engines : LateCancel(e) \/ LateStart(e)
           Over == [crashes' = 0 /\ status \in Terminal /\ status' # status => Late]_vars
<1>1. TypeInv /\ (crashes = 0 => LeaseInv) /\ [Next]_vars => Over
  <2> SUFFICES ASSUME TypeInv, crashes = 0 => LeaseInv, Next, crashes' = 0,
                      status \in Terminal, status' # status
               PROVE  Late
    BY DEF vars, row
  <2>1. LeaseInv
    BY CrashesCount DEF TypeInv, TypeOK
  <2> QED
    BY <2>1, OvertakeStep
<1>2. Spec => []TypeInv
  BY TypeInit, TypeStep, PTL DEF Spec
<1> QED
  BY LeaseInvariant, <1>1, <1>2, PTL DEF Spec, OvertakenOnlyByRace

\* Left alone, a finished run keeps its outcome: a turn that starts late, from
\* a snapshot older than that outcome, changes nothing.
THEOREM OutcomeIsFinal ==
  ASSUME Undisturbed
  PROVE  Spec => TerminalIsFinal
<1>1. LeaseInv /\ [Next]_vars => [(status \in Terminal) => UNCHANGED status]_vars
  <2> SUFFICES ASSUME LeaseInv, Next, status \in Terminal, status' # status PROVE FALSE
    BY DEF vars
  <2>1. PICK e \in Engines : LateCancel(e) \/ LateStart(e)
    BY OvertakeStep
  <2>2. op[e] = "idle" /\ (FreshCarrier(e) => status = "pending")
    BY DEF LeaseInv, FreshLive
  <2> QED
    BY <2>1, <2>2 DEF LateCancel, LateStart, FreshCarrier, FreshPCs, Terminal
<1>2. Quiet /\ "crash" \notin Disturbances
  BY DEF Quiet, Undisturbed
<1> QED
  BY NoCrashes, <1>1, <1>2, PTL DEF Spec, TerminalIsFinal

=============================================================================
