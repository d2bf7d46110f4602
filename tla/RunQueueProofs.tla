--------------------------- MODULE RunQueueProofs ---------------------------
(***************************************************************************)
(* Proofs about RunQueue for any number of engines, turns, wakes, results   *)
(* and faults: the state is well formed, and a turn that may still write    *)
(* holds the lease. The argument: on one engine the lease is held for one   *)
(* thing at a time, a claim, a pickup or a turn, and whichever it is, the   *)
(* lease is the engine's while it lasts.                                    *)
(***************************************************************************)
EXTENDS RunQueue, TLAPS

-----------------------------------------------------------------------------
(* The inductive invariant.                                                *)

Claiming(e) == poll[e] \in {"locked", "patched", "missed"}
Picking(e)  == pick[e] = "locked" \/ mine[e]
Running(e)  == turn[e] \in {"run", "release"} /\ ~fenced[e]
Proven(e)   == turn[e] = "proved" /\ proof[e]

\* The lease is this engine's, for one thing.
OneUse(e) ==
  /\ Claiming(e) \/ Picking(e) \/ Running(e) \/ Proven(e) => holder = e
  /\ ~(Claiming(e) /\ Picking(e)) /\ ~(Claiming(e) /\ (Running(e) \/ Proven(e)))
  /\ ~(Picking(e) /\ (Running(e) \/ Proven(e)))
  /\ mine[e] => pick[e] = "await"
  /\ turn[e] \in {"prove", "proved"} /\ proof[e] => poll[e] \notin Claims

LeaseInv == misled \/ \A e \in Engines : OneUse(e)
-----------------------------------------------------------------------------
(* The state is well formed.                                               *)

LEMMA TypesInit == QueueInit => RunQueueTypeOK
<1> SUFFICES ASSUME QueueInit PROVE RunQueueTypeOK
  OBVIOUS
<1> USE RunQueueAssumption DEF QueueInit
<1>1. left \in 0..Turns /\ queue \in 0..MaxQueue /\ faults \in 0..MaxFaults /\ results \in 0..MaxResults
  OBVIOUS
<1>2. poll \in [Engines -> {"idle"} \cup Claims]
  OBVIOUS
<1> QED
  BY <1>1, <1>2 DEF RunQueueTypeOK

LEMMA OneLess ==
  ASSUME NEW n \in Nat, NEW k \in 0..n
  PROVE  (IF k > 0 THEN k - 1 ELSE 0) \in 0..n
OBVIOUS

\* A wake or a result asks for a turn.
LEMMA ResumeTypes ==
  ASSUME RunQueueTypeOK, NEW e \in Engines, Resume(e), UNCHANGED fenced
  PROVE  /\ turn' \in [Engines -> {"idle", "read", "own", "other", "prove", "proved", "trylock", "run", "release"}]
         /\ again' \in [Engines -> BOOLEAN]
         /\ \A f \in Engines : fenced'[f] => turn'[f] \in {"run", "release"}
<1>1. CASE turn[e] = "idle"
  BY <1>1 DEF RunQueueTypeOK, Resume
<1>2. CASE turn[e] # "idle"
  BY <1>2 DEF RunQueueTypeOK, Resume
<1> QED
  BY <1>1, <1>2

\* A turn that was not fenced ends.
LEMMA EndTurnTypes ==
  ASSUME RunQueueTypeOK, NEW e \in Engines, EndTurn(e), ~fenced[e], UNCHANGED fenced
  PROVE  /\ turn' \in [Engines -> {"idle", "read", "own", "other", "prove", "proved", "trylock", "run", "release"}]
         /\ again' \in [Engines -> BOOLEAN] /\ mine' \in [Engines -> BOOLEAN]
         /\ pick' \in [Engines -> {"idle", "lock", "relock", "locked", "await"}]
         /\ \A f \in Engines : fenced'[f] => turn'[f] \in {"run", "release"}
<1>1. again' \in [Engines -> BOOLEAN]
  BY DEF RunQueueTypeOK, EndTurn
<1>2. CASE again[e] /\ ~Draining(e)
  <2>1. turn' = [turn EXCEPT ![e] = "read"] /\ mine' = [mine EXCEPT ![e] = @ /\ TRUE] /\ pick' = [pick EXCEPT ![e] = @]
    BY <1>2 DEF EndTurn
  <2> QED
    BY <1>1, <2>1 DEF RunQueueTypeOK
<1>3. CASE ~(again[e] /\ ~Draining(e))
  <2>1. /\ turn' = [turn EXCEPT ![e] = "idle"] /\ mine' = [mine EXCEPT ![e] = @ /\ FALSE]
        /\ pick' = [pick EXCEPT ![e] = IF @ = "await" THEN "idle" ELSE @]
    BY <1>3 DEF EndTurn
  <2> QED
    BY <1>1, <2>1 DEF RunQueueTypeOK
<1> QED
  BY <1>2, <1>3

LEMMA TypesStep == RunQueueTypeOK /\ [QueueNext]_queueVars => RunQueueTypeOK'
<1> SUFFICES ASSUME RunQueueTypeOK, [QueueNext]_queueVars PROVE RunQueueTypeOK'
  OBVIOUS
<1> USE RunQueueAssumption DEF RunQueueTypeOK, Claims, row, task, env
<1>1. ASSUME NEW e \in Engines, Mark(e) PROVE RunQueueTypeOK'
  BY <1>1 DEF Mark, Step, Draining
<1>2. ASSUME NEW e \in Engines, ClaimLock(e) PROVE RunQueueTypeOK'
  BY <1>2 DEF ClaimLock, Step
<1>3. ASSUME NEW e \in Engines, Push(e) PROVE RunQueueTypeOK'
  BY <1>3 DEF Push, Step
<1>4. ASSUME NEW e \in Engines, ClaimRelease(e) PROVE RunQueueTypeOK'
  BY <1>4 DEF ClaimRelease, Step
<1>5. ASSUME NEW e \in Engines, Unmark(e) PROVE RunQueueTypeOK'
  BY <1>5 DEF Unmark, Step
<1>6. ASSUME NEW e \in Engines, Send(e) PROVE RunQueueTypeOK'
  BY <1>6 DEF Send, Step
<1>7. ASSUME NEW e \in Engines, SendRefused(e) PROVE RunQueueTypeOK'
  BY <1>7 DEF SendRefused, Step
<1>8. ASSUME NEW e \in Engines, Consume(e) PROVE RunQueueTypeOK'
  <2>1. queue' \in 0..MaxQueue /\ pick' \in [Engines -> {"idle", "lock", "relock", "locked", "await"}]
    BY <1>8 DEF Consume, SetPick
  <2>2. CASE left > 0 /\ ~due
    <3>1. Resume(e) /\ UNCHANGED fenced
      BY <1>8, <2>2 DEF Consume
    <3> QED
      BY <1>8, <2>1, <3>1, ResumeTypes DEF Consume
  <2>3. CASE ~(left > 0 /\ ~due)
    BY <1>8, <2>1, <2>3 DEF Consume
  <2> QED
    BY <2>2, <2>3
<1>9. ASSUME NEW e \in Engines, PickLock(e) PROVE RunQueueTypeOK'
  BY <1>9 DEF PickLock, Draining, SetPick
<1>10. ASSUME NEW e \in Engines, PickResume(e) PROVE RunQueueTypeOK'
  <2>1. pick' \in [Engines -> {"idle", "lock", "relock", "locked", "await"}] /\ mine' \in [Engines -> BOOLEAN]
    BY <1>10 DEF PickResume, SetPick
  <2>2. CASE Draining(e)
    <3>1. holder' = "free" /\ UNCHANGED <<turn, again, mine>>
      BY <1>10, <2>2 DEF PickResume
    <3> QED
      BY <1>10, <2>1, <3>1 DEF PickResume
  <2>3. CASE ~Draining(e)
    <3>1. Resume(e) /\ UNCHANGED <<holder, fenced>>
      BY <1>10, <2>3 DEF PickResume
    <3> QED
      BY <1>10, <2>1, <3>1, ResumeTypes DEF PickResume
  <2> QED
    BY <2>2, <2>3
<1>11. ASSUME NEW e \in Engines, Result(e) PROVE RunQueueTypeOK'
  <2>1. Resume(e) /\ UNCHANGED fenced
    BY <1>11 DEF Result
  <2>2. results' \in 0..MaxResults
    BY <1>11 DEF Result
  <2> QED
    BY <1>11, <2>1, <2>2, ResumeTypes DEF Result
<1>12. ASSUME NEW e \in Engines, Read(e) PROVE RunQueueTypeOK'
  <2>1. CASE left = 0
    <3>1. EndTurn(e) /\ ~fenced[e] /\ UNCHANGED fenced
      BY <1>12, <2>1 DEF Read
    <3> QED
      BY <1>12, <3>1, EndTurnTypes DEF Read
  <2>2. CASE left # 0
    BY <1>12, <2>2 DEF Read, To
  <2> QED
    BY <2>1, <2>2
<1>13. ASSUME NEW e \in Engines, Choose(e) PROVE RunQueueTypeOK'
  BY <1>13 DEF Choose, To
<1>14. ASSUME NEW e \in Engines, Renew(e) PROVE RunQueueTypeOK'
  BY <1>14 DEF Renew, To
<1>15. ASSUME NEW e \in Engines, Proved(e) PROVE RunQueueTypeOK'
  BY <1>15 DEF Proved, To
<1>16. ASSUME NEW e \in Engines, TryLock(e) PROVE RunQueueTypeOK'
  <2>1. CASE holder = "free"
    BY <1>16, <2>1 DEF TryLock, To
  <2>2. CASE holder # "free"
    <3>1. EndTurn(e) /\ ~fenced[e] /\ UNCHANGED fenced
      BY <1>16, <2>2 DEF TryLock
    <3>2. timer' \in [Engines -> BOOLEAN]
      BY <1>16 DEF TryLock, Draining
    <3> QED
      BY <1>16, <2>2, <3>1, <3>2, EndTurnTypes DEF TryLock
  <2> QED
    BY <2>1, <2>2
<1>17. ASSUME NEW e \in Engines, Run(e) PROVE RunQueueTypeOK'
  <2>1. left' \in 0..Turns /\ due' \in BOOLEAN
    <3>1. CASE fenced[e]
      BY <1>17, <3>1 DEF Run
    <3>2. CASE ~fenced[e]
      <4>1. left' = (IF left > 0 THEN left - 1 ELSE 0) /\ due' = FALSE
        BY <1>17, <3>2 DEF Run
      <4>2. Turns \in Nat /\ left \in 0..Turns
        OBVIOUS
      <4> QED
        BY ONLY <4>1, <4>2, OneLess
    <3> QED
      BY <3>1, <3>2
  <2>2. turn' = [turn EXCEPT ![e] = "release"]
    BY <1>17 DEF Run, To
  <2> QED
    BY <1>17, <2>1, <2>2 DEF Run
<1>18. ASSUME NEW e \in Engines, Release(e) PROVE RunQueueTypeOK'
  BY <1>18 DEF Release, EndTurn, Draining
<1>19. ASSUME NEW e \in Engines, Recheck(e) PROVE RunQueueTypeOK'
  BY <1>19 DEF Recheck, Draining
<1>20. ASSUME NEW e \in Engines, BeginDrain(e) PROVE RunQueueTypeOK'
  BY <1>20 DEF BeginDrain
<1>21. ASSUME NEW e \in Engines, DrainOver(e) PROVE RunQueueTypeOK'
  BY <1>21 DEF DrainOver
<1>22. ASSUME NEW e \in Engines, Exit(e) PROVE RunQueueTypeOK'
  BY <1>22 DEF Exit
<1>23. ASSUME NEW e \in Engines, Lapse(e) PROVE RunQueueTypeOK'
  BY <1>23 DEF Lapse, Up
<1>24. ASSUME TimerOver PROVE RunQueueTypeOK'
  BY <1>24 DEF TimerOver, Looking
<1>25. ASSUME LoseWake PROVE RunQueueTypeOK'
  BY <1>25 DEF LoseWake
<1>26. ASSUME UNCHANGED queueVars PROVE RunQueueTypeOK'
  BY <1>26 DEF queueVars
<1>27. QED
  BY <1>1, <1>2, <1>3, <1>4, <1>5, <1>6, <1>7, <1>8, <1>9, <1>10, <1>11, <1>12, <1>13, <1>14, <1>15, <1>16, <1>17, <1>18, <1>19, <1>20, <1>21, <1>22, <1>23, <1>24, <1>25, <1>26 DEF QueueNext, HandOff, Pickup, Turn

\* The state is well formed, and only a turn at work is ever fenced (execute, drain).
THEOREM QueueTypes == QueueSpec => []RunQueueTypeOK
BY TypesInit, TypesStep, PTL DEF QueueSpec

-----------------------------------------------------------------------------
(* The lease is held for one thing at a time.                              *)

LEMMA LeaseInit == QueueInit => LeaseInv
BY DEF QueueInit, LeaseInv, OneUse, Claiming, Picking, Running, Proven

\* Only a renewal tells a misled turn, and it forgets none.
LEMMA MisledStays == [QueueNext]_queueVars => (misled => misled')
<1> USE DEF env
<1>1. ASSUME NEW e \in Engines, HandOff(e) \/ SendRefused(e) PROVE UNCHANGED misled
  BY <1>1 DEF HandOff, Mark, ClaimLock, Push, ClaimRelease, Unmark, Send, SendRefused
<1>2. ASSUME NEW e \in Engines, Consume(e) \/ Pickup(e) \/ Result(e) \/ Recheck(e) PROVE UNCHANGED misled
  BY <1>2 DEF Consume, Pickup, PickLock, PickResume, Result, Recheck
<1>3. ASSUME NEW e \in Engines, Renew(e) PROVE misled => misled'
  BY <1>3 DEF Renew
<1>4. ASSUME NEW e \in Engines, Turn(e), ~Renew(e) PROVE UNCHANGED misled
  BY <1>4 DEF Turn, Read, Choose, Proved, TryLock, Run, Release
<1>5. ASSUME NEW e \in Engines, BeginDrain(e) \/ DrainOver(e) \/ Exit(e) \/ Lapse(e) PROVE UNCHANGED misled
  BY <1>5 DEF BeginDrain, DrainOver, Exit, Lapse
<1>6. ASSUME TimerOver \/ LoseWake \/ UNCHANGED queueVars PROVE UNCHANGED misled
  BY <1>6 DEF TimerOver, LoseWake, queueVars
<1> QED
  BY <1>1, <1>2, <1>3, <1>4, <1>5, <1>6 DEF QueueNext

LEMMA LeaseStep == RunQueueTypeOK /\ LeaseInv /\ [QueueNext]_queueVars => LeaseInv'
<1> SUFFICES ASSUME RunQueueTypeOK, LeaseInv, ~misled', [QueueNext]_queueVars,
                    NEW f \in Engines
             PROVE  OneUse(f)'
  BY DEF LeaseInv
<1>0. ~misled /\ \A e \in Engines : OneUse(e)
  BY MisledStays DEF LeaseInv
<1> USE <1>0, RunQueueAssumption DEF RunQueueTypeOK, Claims, row, task, env, OneUse, Claiming, Picking, Running, Proven
<1>1. ASSUME NEW e \in Engines, Mark(e) PROVE OneUse(f)'
  BY <1>1 DEF Mark, Step, Draining
<1>2. ASSUME NEW e \in Engines, ClaimLock(e) PROVE OneUse(f)'
  BY <1>2 DEF ClaimLock, Step
<1>3. ASSUME NEW e \in Engines, Push(e) PROVE OneUse(f)'
  BY <1>3 DEF Push, Step
<1>4. ASSUME NEW e \in Engines, ClaimRelease(e) PROVE OneUse(f)'
  BY <1>4 DEF ClaimRelease, Step
<1>5. ASSUME NEW e \in Engines, Unmark(e) PROVE OneUse(f)'
  BY <1>5 DEF Unmark, Step
<1>6. ASSUME NEW e \in Engines, Send(e) PROVE OneUse(f)'
  BY <1>6 DEF Send, Step
<1>7. ASSUME NEW e \in Engines, SendRefused(e) PROVE OneUse(f)'
  BY <1>7 DEF SendRefused, Step
<1>8. ASSUME NEW e \in Engines, Consume(e) PROVE OneUse(f)'
  BY <1>8 DEF Consume, Draining, SetPick, Resume
<1>9. ASSUME NEW e \in Engines, PickLock(e) PROVE OneUse(f)'
  BY <1>9 DEF PickLock, Draining, SetPick
<1>10. ASSUME NEW e \in Engines, PickResume(e) PROVE OneUse(f)'
  BY <1>10 DEF PickResume, Draining, SetPick, Resume
<1>11. ASSUME NEW e \in Engines, Result(e) PROVE OneUse(f)'
  BY <1>11 DEF Result, Up, Resume
<1>12. ASSUME NEW e \in Engines, Read(e) PROVE OneUse(f)'
  BY <1>12 DEF Read, To, EndTurn, Draining
<1>13. ASSUME NEW e \in Engines, Choose(e) PROVE OneUse(f)'
  BY <1>13 DEF Choose, To
<1>14. ASSUME NEW e \in Engines, Renew(e) PROVE OneUse(f)'
  BY <1>14 DEF Renew, To
<1>15. ASSUME NEW e \in Engines, Proved(e) PROVE OneUse(f)'
  BY <1>15 DEF Proved, To
<1>16. ASSUME NEW e \in Engines, TryLock(e) PROVE OneUse(f)'
  BY <1>16 DEF TryLock, To, EndTurn, Draining
<1>17. ASSUME NEW e \in Engines, Run(e) PROVE OneUse(f)'
  BY <1>17 DEF Run, To
<1>18. ASSUME NEW e \in Engines, Release(e) PROVE OneUse(f)'
  BY <1>18 DEF Release, EndTurn, Draining
<1>19. ASSUME NEW e \in Engines, Recheck(e) PROVE OneUse(f)'
  BY <1>19 DEF Recheck, Draining
<1>20. ASSUME NEW e \in Engines, BeginDrain(e) PROVE OneUse(f)'
  BY <1>20 DEF BeginDrain
<1>21. ASSUME NEW e \in Engines, DrainOver(e) PROVE OneUse(f)'
  BY <1>21 DEF DrainOver
<1>22. ASSUME NEW e \in Engines, Exit(e) PROVE OneUse(f)'
  BY <1>22 DEF Exit
<1>23. ASSUME NEW e \in Engines, Lapse(e) PROVE OneUse(f)'
  BY <1>23 DEF Lapse, Up
<1>24. ASSUME TimerOver PROVE OneUse(f)'
  BY <1>24 DEF TimerOver, Looking
<1>25. ASSUME LoseWake PROVE OneUse(f)'
  BY <1>25 DEF LoseWake
<1>26. ASSUME UNCHANGED queueVars PROVE OneUse(f)'
  BY <1>26 DEF queueVars
<1>27. QED
  BY <1>1, <1>2, <1>3, <1>4, <1>5, <1>6, <1>7, <1>8, <1>9, <1>10, <1>11, <1>12, <1>13, <1>14, <1>15, <1>16, <1>17, <1>18, <1>19, <1>20, <1>21, <1>22, <1>23, <1>24, <1>25, <1>26 DEF QueueNext, HandOff, Pickup, Turn

\* A turn that may still write holds the run's lease: no claim of its own instance, no release
\* elsewhere and no shutdown takes it away (execute, handOffDue, releaseInflightLeases).
THEOREM TurnKeepsLease == QueueSpec => []TurnHoldsLease
<1>1. LeaseInv => TurnHoldsLease
  BY DEF LeaseInv, TurnHoldsLease, LeaseHeld, OneUse, Running
<1> QED
  BY <1>1, QueueTypes, LeaseInit, LeaseStep, PTL DEF QueueSpec
=============================================================================
