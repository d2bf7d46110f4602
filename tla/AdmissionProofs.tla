--------------------------- MODULE AdmissionProofs ---------------------------
(***************************************************************************)
(* Proofs about the two gates of the engine, for any number of calls, runs, *)
(* engines and faults.                                                     *)
(*                                                                         *)
(* SingletonGate, for any `limit` and depth of the backlog: the state is    *)
(* well formed, at most `limit` runs of the key carry the admitted marker,  *)
(* and the backlog is overshot by the racing starts at most. The argument:  *)
(* a run that is over carries no marker, whoever is past the gate carries   *)
(* the admitted one, and only a claim, which counts, hands it out. With    *)
(* one slot, no run of the key is denied it while nobody has it.           *)
(*                                                                         *)
(* StepQueue, for any `concurrency`, rate and priorities, both accountings: *)
(* the state is well formed, the cap is kept, and no key passes a waiter    *)
(* twice. The argument: whoever dispatched a call in flight, lives and was  *)
(* not reclaimed from has its slot, filed or remembered, and no accounting  *)
(* counts more slots than its limit; and the keys that passed a waiter by   *)
(* stand behind its own in the order of service, so that the waiter would   *)
(* have been better.                                                       *)
(* On one engine, the slots taken are those of calls in flight.            *)
(***************************************************************************)
EXTENDS SingletonGate, StepQueue, TLAPS, FiniteSetTheorems, SequenceTheorems

-----------------------------------------------------------------------------
(* SingletonGate: the inductive invariant.                                 *)

\* A marker is carried by an active run only.
MarkedActive == \A r \in Runs : row[r].status \notin Active => row[r].tag = "none"

\* In a fleet of one version, a run past the gate carries the admitted marker.
BeganAdmitted ==
  ~mixed => began \subseteq Admitted /\ \A r \in Runs : turn[r] \notin {"oldstart", "scan"}

\* A turn that is to mark a run has read no marker, and there is none still: only the
\* turns of a run give it one.
StartsUnmarked == \A r \in Runs : turn[r] = "start" => row[r].tag = "none"

GateShape == GateTypeOK /\ MarkedActive /\ BeganAdmitted /\ StartsUnmarked

SlotsHeld == Cardinality(Admitted) <= limit

\* While nothing fails, a turn is a turn of an active run, and the starts past the
\* check are paid for.
BacklogPaid ==
  faults = 0 =>
    /\ \A r \in Runs : turn[r] # "idle" => row[r].status \in Active
    /\ Cardinality(With(Active)) + starts <= limit + MaxQueueDepth + MaxStarts - 1

-----------------------------------------------------------------------------
(* Sets of runs.                                                           *)

LEMMA FiniteRuns ==
  ASSUME NEW S \in SUBSET Runs
  PROVE  IsFiniteSet(S) /\ Cardinality(S) \in Nat
<1>1. IsFiniteSet(Runs)
  BY SingletonGateAssumption, FS_Interval DEF Runs
<1> QED
  BY <1>1, FS_Subset, FS_CardinalityType

LEMMA FewerRuns ==
  ASSUME NEW S \in SUBSET Runs, NEW T \in SUBSET S
  PROVE  Cardinality(T) <= Cardinality(S) /\ Cardinality(S) \in Nat /\ Cardinality(T) \in Nat
<1>1. T \in SUBSET Runs
  OBVIOUS
<1> QED
  BY <1>1, FiniteRuns, FS_Subset

LEMMA OneRunMore ==
  ASSUME NEW S \in SUBSET Runs, NEW r \in Runs, NEW T \in SUBSET (S \cup {r})
  PROVE  Cardinality(T) <= Cardinality(S) + 1 /\ Cardinality(S) \in Nat /\ Cardinality(T) \in Nat
<1>1. S \cup {r} \in SUBSET Runs
  OBVIOUS
<1>2. Cardinality(S \cup {r}) <= Cardinality(S) + 1 /\ Cardinality(S) \in Nat
  BY FiniteRuns, FS_AddElement
<1>3. Cardinality(T) <= Cardinality(S \cup {r}) /\ Cardinality(S \cup {r}) \in Nat /\ Cardinality(T) \in Nat
  BY <1>1, FewerRuns
<1> QED
  BY <1>2, <1>3

\* A run among the oldest n takes a place: there is one.
LEMMA OldestPlace ==
  ASSUME NEW S \in SUBSET Runs, NEW n \in Int, NEW r \in Oldest(S, n)
  PROVE  n > 0
<1>1. {q \in S : q < r} \in SUBSET Runs /\ Cardinality({q \in S : q < r}) < n
  BY DEF Oldest
<1> QED
  BY <1>1, FiniteRuns

-----------------------------------------------------------------------------
(* The shape of the state.                                                 *)

LEMMA ShapeInit == GateInit => GateShape
BY SingletonGateAssumption DEF GateInit, GateShape, GateTypeOK, MarkedActive, BeganAdmitted, StartsUnmarked, NoRun, Active,
   Markers, Wakes, Turns, Runs

\* A run that waits for a timer.
Waiting(w, t) == [w EXCEPT !.status = t, !.wake = "timer"]

LEMMA WaitingRow ==
  ASSUME NEW w \in [status : Active \cup {"absent", "over"}, tag : Markers, wake : Wakes], NEW t \in Active
  PROVE  Waiting(w, t) \in [status : Active \cup {"absent", "over"}, tag : Markers, wake : Wakes]
BY DEF Waiting, Wakes

\* A run that has been started, with its marker.
Started(w, m) == [w EXCEPT !.status = "running", !.tag = m]

LEMMA StartedRow ==
  ASSUME NEW w \in [status : Active \cup {"absent", "over"}, tag : Markers, wake : Wakes], NEW m \in Markers
  PROVE  Started(w, m) \in [status : Active \cup {"absent", "over"}, tag : Markers, wake : Wakes]
BY DEF Started, Active

LEMMA ShapeStep == GateShape /\ [GateNext]_gateVars => GateShape'
<1> SUFFICES ASSUME GateShape, [GateNext]_gateVars PROVE GateShape'
  OBVIOUS
<1> USE SingletonGateAssumption DEF GateShape, GateTypeOK, MarkedActive, BeganAdmitted, StartsUnmarked, Admitted,
        With, Active, Markers, Wakes, Turns, config
<1>1. CASE AssertCapacity
  BY <1>1 DEF AssertCapacity
<1>2. ASSUME NEW r \in Runs, CreateRun(r) PROVE GateShape'
  <2>1. starts' \in 0..MaxStarts /\ row[r].status = "absent" /\ row[r].tag = "none"
    BY <1>2 DEF CreateRun
  <2>2. CASE row' = [row EXCEPT ![r].status = "pending"] /\ UNCHANGED ahead
    <3>1. row' \in [Runs -> [status : Active \cup {"absent", "over"}, tag : Markers, wake : Wakes]]
      BY <2>2
    <3>2. UNCHANGED <<turn, notices, began, faults, limit, mixed>>
      BY <1>2 DEF CreateRun
    <3>3. MarkedActive' /\ Admitted' = Admitted
      BY <2>1, <2>2
    <3> QED
      BY <2>1, <2>2, <3>1, <3>2, <3>3
  <2>3. CASE row' = [row EXCEPT ![r] = [status |-> "suspended", tag |-> "none", wake |-> "date"]]
             /\ ahead' = [ahead EXCEPT ![r] = TRUE]
    BY <1>2, <2>1, <2>3 DEF CreateRun
  <2> QED
    BY <1>2, <2>2, <2>3 DEF CreateRun
<1>3. ASSUME NEW r \in Runs, DatePasses(r) PROVE GateShape'
  BY <1>3 DEF DatePasses
<1>4. ASSUME NEW r \in Runs, TakeTurn(r) PROVE GateShape'
  BY <1>4 DEF TakeTurn, Goto
<1>5. ASSUME NEW r \in Runs, MarkStarted(r) PROVE GateShape'
  <2>1. PICK m \in Markers : /\ row' = [row EXCEPT ![r] = Started(row[r], m)]
                             /\ m = row[r].tag \/ row[r].tag = "none"
    BY <1>5 DEF MarkStarted, Started
  <2>2. turn' = [turn EXCEPT ![r] = "gate"]
    BY <1>5 DEF MarkStarted, Goto
  <2>3. BeganAdmitted'
    BY <1>5, <2>1, <2>2 DEF MarkStarted, Started
  <2>4. row' \in [Runs -> [status : Active \cup {"absent", "over"}, tag : Markers, wake : Wakes]]
    <3>1. Started(row[r], m) \in [status : Active \cup {"absent", "over"}, tag : Markers, wake : Wakes]
      BY StartedRow
    <3> QED
      BY <2>1, <3>1
  <2>5. MarkedActive' /\ StartsUnmarked'
    BY <2>1, <2>2 DEF Started
  <2> QED
    BY <1>5, <2>2, <2>3, <2>4, <2>5 DEF MarkStarted
<1>6. ASSUME NEW r \in Runs, Admit(r) PROVE GateShape'
  <2>1. row[r].status \in Active
    BY <1>6 DEF Admit, Admissible
  <2> QED
    BY <1>6, <2>1 DEF Admit, Goto
<1>7. ASSUME NEW r \in Runs, Deny(r) PROVE GateShape'
  <2>1. row[r].status \in Active => row[r].tag # "admitted"
    BY <1>7 DEF Deny, Admissible
  <2> QED
    BY <1>7, <2>1 DEF Deny, Goto, Track
<1>8. ASSUME NEW r \in Runs, OldStart(r) PROVE GateShape'
  BY <1>8 DEF OldStart, Goto
<1>9. ASSUME NEW r \in Runs, OldScan(r) PROVE GateShape'
  <2>1. CASE r \in Oldest(With(Scanned), limit)
    BY <1>9, <2>1 DEF OldScan, Goto
  <2>2. CASE r \notin Oldest(With(Scanned), limit)
    <3>1. turn' = [turn EXCEPT ![r] = "idle"] /\ mixed
      BY <1>9, <2>2 DEF OldScan, Goto
    <3>2. CASE row[r].status \in Active
      <4>1. row' = [row EXCEPT ![r] = Waiting(row[r], "suspended")]
        BY <1>9, <2>2, <3>2 DEF OldScan, Waiting
      <4>2. Waiting(row[r], "suspended") \in [status : Active \cup {"absent", "over"}, tag : Markers, wake : Wakes]
        BY WaitingRow
      <4>3. UNCHANGED <<ahead, starts, notices, began, faults, limit, mixed>>
        BY <1>9, <2>2 DEF OldScan
      <4>4. MarkedActive'
        BY <3>2, <4>1 DEF Waiting
      <4> QED
        BY <3>1, <4>1, <4>2, <4>3, <4>4
    <3>3. CASE row[r].status \notin Active
      BY <1>9, <2>2, <3>1, <3>3 DEF OldScan
    <3> QED
      BY <3>2, <3>3
  <2> QED
    BY <2>1, <2>2
<1>10. ASSUME NEW r \in Runs, Park(r) PROVE GateShape'
  <2>1. turn' = [turn EXCEPT ![r] = "idle"]
    BY <1>10 DEF Park, Goto
  <2>2. CASE UNCHANGED row
    BY <1>10, <2>1, <2>2 DEF Park
  <2>3. ASSUME NEW t \in {"suspended", "blocked"}, row[r].status \in {"pending", "running", "suspended", "blocked"},
               row' = [row EXCEPT ![r].status = t, ![r].wake = "timer"]
        PROVE  GateShape'
    <3>1. row' \in [Runs -> [status : Active \cup {"absent", "over"}, tag : Markers, wake : Wakes]]
      <4>1. row' = [row EXCEPT ![r] = Waiting(row[r], t)]
        BY <2>3 DEF Waiting
      <4>2. Waiting(row[r], t) \in [status : Active \cup {"absent", "over"}, tag : Markers, wake : Wakes]
        BY <2>3, WaitingRow
      <4> QED
        BY <4>1, <4>2
    <3>2. UNCHANGED <<ahead, starts, notices, began, faults, limit, mixed>>
      BY <1>10 DEF Park
    <3>3. Admitted' = Admitted
      BY <2>3
    <3>4. MarkedActive'
      BY <2>3
    <3>5. BeganAdmitted'
      BY <2>1, <3>2, <3>3
    <3>6. StartsUnmarked'
      BY <2>1, <2>3
    <3> QED
      BY ONLY GateTypeOK, <3>6, <2>1, <3>1, <3>2, <3>4, <3>5 DEF GateShape, GateTypeOK, Turns
  <2> QED
    BY <1>10, <2>2, <2>3 DEF Park
<1>11. ASSUME NEW r \in Runs, SettleGated(r) PROVE GateShape'
  BY <1>11 DEF SettleGated, Over, WakeNext, Oldest, Goto
<1>12. ASSUME NEW r \in Runs, StampWake(r) PROVE GateShape'
  BY <1>12 DEF StampWake
<1>13. ASSUME NEW r \in Runs, CancelGated(r) PROVE GateShape'
  BY <1>13 DEF CancelGated, GateFault, Over, WakeNext, Oldest
<1>14. ASSUME NEW r \in Runs, CancelCompensating(r) PROVE GateShape'
  BY <1>14 DEF CancelCompensating, GateFault
<1>15. ASSUME NEW r \in Runs, RequeueGated(r) PROVE GateShape'
  BY <1>15 DEF RequeueGated, GateFault
<1>16. ASSUME NEW r \in Runs, LoseTurn(r) PROVE GateShape'
  BY <1>16 DEF LoseTurn, GateFault, Goto
<1>17. CASE UNCHANGED gateVars
  BY <1>17 DEF gateVars
<1> QED
  BY <1>1, <1>2, <1>3, <1>4, <1>5, <1>6, <1>7, <1>8, <1>9, <1>10, <1>11, <1>12, <1>13, <1>14, <1>15, <1>16, <1>17
     DEF GateNext, Advance, Claim

LEMMA LimitStays == [GateNext]_gateVars => limit' = limit
BY DEF GateNext, gateVars, config, AssertCapacity, CreateRun, DatePasses, TakeTurn, Advance, Claim, MarkStarted,
   Admit, Deny, OldStart, OldScan, Park, SettleGated, StampWake, CancelGated, CancelCompensating, RequeueGated,
   LoseTurn

LEMMA FaultsStay == GateShape /\ [GateNext]_gateVars /\ faults' = 0 => faults = 0
<1> SUFFICES ASSUME GateShape, [GateNext]_gateVars, faults' = 0 PROVE faults = 0
  OBVIOUS
<1>1. faults \in Nat
  BY SingletonGateAssumption DEF GateShape, GateTypeOK
<1>2. CASE GateFault
  BY <1>1, <1>2 DEF GateFault
<1>3. CASE ~GateFault
  BY <1>3 DEF GateNext, gateVars, AssertCapacity, CreateRun, DatePasses, TakeTurn, Advance, Claim, MarkStarted,
     Admit, Deny, OldStart, OldScan, Park, SettleGated, StampWake, CancelGated, CancelCompensating, RequeueGated,
     LoseTurn
<1> QED
  BY <1>2, <1>3

\* The state is well formed (Run, singletonAdmissionTags).
THEOREM GateTypes == GateSpec => []GateTypeOK
<1>1. GateShape => GateTypeOK
  BY DEF GateShape
<1> QED
  BY <1>1, ShapeInit, ShapeStep, PTL DEF GateSpec

-----------------------------------------------------------------------------
(* The slots.                                                              *)

LEMMA AdmittedRuns == Admitted \in SUBSET Runs /\ Cardinality(Admitted) \in Nat
<1>1. Admitted \in SUBSET Runs
  BY DEF Admitted, With
<1> QED
  BY <1>1, FiniteRuns

\* Only a claim hands out the marker.
LEMMA AdmittedElsewhere ==
  ASSUME GateShape, [GateNext]_gateVars, \A r \in Runs : ~Admit(r)
  PROVE  Admitted' \subseteq Admitted
<1> SUFFICES ASSUME NEW q \in Runs, row'[q].tag = "admitted", row'[q].status \in Active
             PROVE  row[q].tag = "admitted" /\ row[q].status \in Active
  BY DEF Admitted, With
<1> USE DEF GateShape, GateTypeOK, MarkedActive, Active, Markers, config
<1>1. CASE AssertCapacity
  BY <1>1 DEF AssertCapacity
<1>2. ASSUME NEW r \in Runs, CreateRun(r) PROVE row[q].tag = "admitted" /\ row[q].status \in Active
  BY <1>2 DEF CreateRun
<1>3. ASSUME NEW r \in Runs, DatePasses(r) PROVE row[q].tag = "admitted" /\ row[q].status \in Active
  BY <1>3 DEF DatePasses
<1>4. ASSUME NEW r \in Runs, TakeTurn(r) PROVE row[q].tag = "admitted" /\ row[q].status \in Active
  BY <1>4 DEF TakeTurn
<1>5. ASSUME NEW r \in Runs, MarkStarted(r) PROVE row[q].tag = "admitted" /\ row[q].status \in Active
  BY <1>5 DEF MarkStarted, StartsUnmarked
<1>6. ASSUME NEW r \in Runs, Deny(r) PROVE row[q].tag = "admitted" /\ row[q].status \in Active
  BY <1>6 DEF Deny, Admissible, Track
<1>7. ASSUME NEW r \in Runs, OldStart(r) PROVE row[q].tag = "admitted" /\ row[q].status \in Active
  BY <1>7 DEF OldStart
<1>8. ASSUME NEW r \in Runs, OldScan(r) PROVE row[q].tag = "admitted" /\ row[q].status \in Active
  BY <1>8 DEF OldScan
<1>9. ASSUME NEW r \in Runs, Park(r) PROVE row[q].tag = "admitted" /\ row[q].status \in Active
  <2>1. CASE UNCHANGED row
    BY <2>1
  <2>2. ASSUME NEW t \in {"suspended", "blocked"}, row[r].status \in {"pending", "running", "suspended", "blocked"},
               row' = [row EXCEPT ![r].status = t, ![r].wake = "timer"]
        PROVE  row[q].tag = "admitted" /\ row[q].status \in Active
    BY <2>2
  <2> QED
    BY <1>9, <2>1, <2>2 DEF Park
<1>10. ASSUME NEW r \in Runs, SettleGated(r) \/ CancelGated(r) PROVE row[q].tag = "admitted" /\ row[q].status \in Active
  BY <1>10 DEF SettleGated, CancelGated, Over
<1>11. ASSUME NEW r \in Runs, StampWake(r) PROVE row[q].tag = "admitted" /\ row[q].status \in Active
  BY <1>11 DEF StampWake
<1>12. ASSUME NEW r \in Runs, CancelCompensating(r) PROVE row[q].tag = "admitted" /\ row[q].status \in Active
  BY <1>12 DEF CancelCompensating
<1>13. ASSUME NEW r \in Runs, RequeueGated(r) PROVE row[q].tag = "admitted" /\ row[q].status \in Active
  BY <1>13 DEF RequeueGated
<1>14. ASSUME NEW r \in Runs, LoseTurn(r) PROVE row[q].tag = "admitted" /\ row[q].status \in Active
  BY <1>14 DEF LoseTurn
<1>15. CASE UNCHANGED gateVars
  BY <1>15 DEF gateVars
<1> QED
  BY <1>1, <1>2, <1>3, <1>4, <1>5, <1>6, <1>7, <1>8, <1>9, <1>10, <1>11, <1>12, <1>13, <1>14, <1>15
     DEF GateNext, Advance, Claim

\* A claim counts the slots: there is one left for a run that had none.
LEMMA AdmitCounts ==
  ASSUME GateShape, NEW r \in Runs, Admit(r), Cardinality(Admitted) <= limit
  PROVE  Cardinality(Admitted') <= limit
<1>1. Admitted' \subseteq Admitted \cup {r}
  BY DEF GateShape, GateTypeOK, Admit, Admissible, Admitted, With
<1>2. limit \in Nat
  BY SingletonGateAssumption DEF GateShape, GateTypeOK
<1>3. CASE row[r].tag = "admitted"
  <2>1. Admitted' \subseteq Admitted
    BY <1>1, <1>3 DEF Admit, Admissible, Admitted, With
  <2> QED
    BY <1>2, <2>1, AdmittedRuns, FewerRuns
<1>4. CASE row[r].tag # "admitted"
  <2>1. PICK n : /\ n = limit - Cardinality(Admitted) - Cardinality(Legacy(r))
                 /\ r \in Oldest(With(Active) \ (Admitted \cup Legacy(r)), n)
    BY <1>4 DEF Admit, Admissible
  <2>2. Cardinality(Legacy(r)) \in Nat
    <3>1. Legacy(r) \in SUBSET Runs
      BY DEF Legacy, With
    <3> QED
      BY <3>1, FiniteRuns
  <2>3. n \in Int
    BY <1>2, <2>1, <2>2, AdmittedRuns
  <2>4. With(Active) \ (Admitted \cup Legacy(r)) \in SUBSET Runs
    BY DEF With
  <2>5. n > 0
    BY <2>1, <2>3, <2>4, OldestPlace
  <2>6. Cardinality(Admitted) + 1 <= limit
    BY <1>2, <2>1, <2>2, <2>5, AdmittedRuns
  <2>7. Cardinality(Admitted') <= Cardinality(Admitted) + 1 /\ Cardinality(Admitted') \in Nat
    BY <1>1, AdmittedRuns, OneRunMore
  <2> QED
    BY <1>2, <2>6, <2>7, AdmittedRuns
<1> QED
  BY <1>3, <1>4

LEMMA SlotsInit == GateInit => SlotsHeld
<1> SUFFICES ASSUME GateInit PROVE Cardinality(Admitted) <= limit
  BY DEF SlotsHeld
<1>1. Admitted = {}
  BY DEF GateInit, Admitted, With, Active, NoRun
<1>2. limit \in Nat
  BY SingletonGateAssumption DEF GateInit
<1> QED
  BY <1>1, <1>2, FS_EmptySet

LEMMA SlotsStep == GateShape /\ SlotsHeld /\ [GateNext]_gateVars => SlotsHeld'
<1> SUFFICES ASSUME GateShape, Cardinality(Admitted) <= limit, [GateNext]_gateVars
             PROVE  Cardinality(Admitted') <= limit'
  BY DEF SlotsHeld, Admitted, With, Active
<1>1. limit' = limit /\ limit \in Nat
  BY LimitStays, SingletonGateAssumption DEF GateShape, GateTypeOK
<1>2. CASE \E r \in Runs : Admit(r)
  BY <1>1, <1>2, AdmitCounts
<1>3. CASE \A r \in Runs : ~Admit(r)
  <2>1. Admitted' \subseteq Admitted
    BY <1>3, AdmittedElsewhere
  <2> QED
    BY <1>1, <2>1, AdmittedRuns, FewerRuns
<1> QED
  BY <1>2, <1>3

\* At most `limit` runs of a key carry the admitted marker, and in a fleet of one version at
\* most that many are past the gate and not settled (SingletonGate.admit, requeue, cancel).
THEOREM SlotsKept == GateSpec => []AtMostLimit
<1>1. GateShape /\ SlotsHeld => AtMostLimit
  <2> SUFFICES ASSUME GateShape, Cardinality(Admitted) <= limit, ~mixed PROVE Cardinality(began) <= limit
    BY DEF AtMostLimit, SlotsHeld
  <2>1. began \in SUBSET Admitted /\ limit \in Nat
    BY SingletonGateAssumption DEF GateShape, GateTypeOK, BeganAdmitted
  <2> QED
    BY <2>1, AdmittedRuns, FewerRuns
<1> QED
  BY <1>1, ShapeInit, ShapeStep, SlotsInit, SlotsStep, PTL DEF GateSpec

-----------------------------------------------------------------------------
(* The backlog.                                                            *)

LEMMA ActiveRuns == With(Active) \in SUBSET Runs /\ Cardinality(With(Active)) \in Nat
<1>1. With(Active) \in SUBSET Runs
  BY DEF With
<1> QED
  BY <1>1, FiniteRuns

\* A step with which the backlog does not grow.
Quiet ==
  /\ With(Active)' \subseteq With(Active) /\ starts' = starts
  /\ \A q \in Runs : turn'[q] # "idle" => row'[q].status \in Active

LEMMA QuietStep ==
  ASSUME GateShape, BacklogPaid, [GateNext]_gateVars, faults = 0, faults' = 0, ~AssertCapacity,
         \A r \in Runs : ~CreateRun(r)
  PROVE  Quiet
<1> USE DEF GateShape, GateTypeOK, BacklogPaid, Quiet, With, Active, config, Goto
<1>1. ASSUME NEW r \in Runs, DatePasses(r) PROVE Quiet
  BY <1>1 DEF DatePasses
<1>2. ASSUME NEW r \in Runs, TakeTurn(r) PROVE Quiet
  BY <1>2 DEF TakeTurn
<1>3. ASSUME NEW r \in Runs, MarkStarted(r) PROVE Quiet
  BY <1>3 DEF MarkStarted
<1>4. ASSUME NEW r \in Runs, Admit(r) PROVE Quiet
  BY <1>4 DEF Admit
<1>5. ASSUME NEW r \in Runs, Deny(r) PROVE Quiet
  BY <1>5 DEF Deny
<1>6. ASSUME NEW r \in Runs, OldStart(r) PROVE Quiet
  BY <1>6 DEF OldStart
<1>7. ASSUME NEW r \in Runs, OldScan(r) PROVE Quiet
  BY <1>7 DEF OldScan
<1>8. ASSUME NEW r \in Runs, Park(r) PROVE Quiet
  BY <1>8 DEF Park
<1>9. ASSUME NEW r \in Runs, SettleGated(r) PROVE Quiet
  BY <1>9 DEF SettleGated, Over
<1>10. ASSUME NEW r \in Runs, StampWake(r) PROVE Quiet
  BY <1>10 DEF StampWake
<1>11. ASSUME GateFault PROVE FALSE
  BY <1>11 DEF GateFault
<1>12. CASE UNCHANGED gateVars
  BY <1>12 DEF gateVars
<1> QED
  BY <1>1, <1>2, <1>3, <1>4, <1>5, <1>6, <1>7, <1>8, <1>9, <1>10, <1>11, <1>12
     DEF GateNext, Advance, Claim, CancelGated, CancelCompensating, RequeueGated, LoseTurn

LEMMA BacklogInit == GateInit => BacklogPaid
<1> SUFFICES ASSUME GateInit PROVE BacklogPaid
  OBVIOUS
<1>1. With(Active) = {}
  BY DEF GateInit, With, Active, NoRun
<1>2. limit \in Nat \ {0} /\ MaxQueueDepth \in Nat /\ MaxStarts \in Nat \ {0}
  BY SingletonGateAssumption DEF GateInit
<1>3. \A r \in Runs : turn[r] = "idle"
  BY DEF GateInit
<1>4. starts = 0
  BY DEF GateInit
<1> QED
  BY <1>1, <1>2, <1>3, <1>4, FS_EmptySet DEF BacklogPaid

LEMMA BacklogStep == GateShape /\ BacklogPaid /\ [GateNext]_gateVars => BacklogPaid'
<1> SUFFICES ASSUME GateShape, BacklogPaid, [GateNext]_gateVars, faults' = 0
             PROVE  /\ \A q \in Runs : turn'[q] # "idle" => row'[q].status \in Active
                    /\ Cardinality(With(Active)') + starts' <= limit' + MaxQueueDepth + MaxStarts - 1
  BY DEF BacklogPaid, With, Active
<1>1. faults = 0 /\ limit' = limit
  BY FaultsStay, LimitStays
<1>2. /\ limit \in Nat /\ MaxQueueDepth \in Nat /\ MaxStarts \in Nat /\ starts \in 0..MaxStarts
      /\ Cardinality(With(Active)) \in Nat
  BY ActiveRuns, SingletonGateAssumption DEF GateShape, GateTypeOK
<1>3. /\ \A q \in Runs : turn[q] # "idle" => row[q].status \in Active
      /\ Cardinality(With(Active)) + starts <= limit + MaxQueueDepth + MaxStarts - 1
  BY <1>1 DEF BacklogPaid
<1>4. CASE AssertCapacity
  <2>1. /\ starts < MaxStarts /\ Cardinality(With(Active)) < limit + MaxQueueDepth /\ starts' = starts + 1
        /\ turn' = turn /\ row' = row
    BY <1>4 DEF AssertCapacity
  <2>2. With(Active)' = With(Active)
    BY <2>1 DEF With, Active
  <2>3. Cardinality(With(Active)) + (starts + 1) <= limit + MaxQueueDepth + MaxStarts - 1
    BY <1>2, <2>1
  <2> QED
    BY <1>1, <1>3, <2>1, <2>2, <2>3
<1>5. ASSUME NEW r \in Runs, CreateRun(r)
      PROVE  /\ \A q \in Runs : turn'[q] # "idle" => row'[q].status \in Active
             /\ Cardinality(With(Active)') + starts' <= limit' + MaxQueueDepth + MaxStarts - 1
  <2>1. starts' = starts - 1 /\ turn' = turn
    BY <1>5 DEF CreateRun
  <2>2. With(Active)' \in SUBSET (With(Active) \cup {r})
    BY <1>5 DEF GateShape, GateTypeOK, CreateRun, With, Active
  <2>3. \A q \in Runs : turn'[q] # "idle" => row'[q].status \in Active
    BY <1>3, <1>5, <2>1 DEF GateShape, GateTypeOK, CreateRun, Active
  <2>4. Cardinality(With(Active)') <= Cardinality(With(Active)) + 1 /\ Cardinality(With(Active)') \in Nat
    BY <2>2, ActiveRuns, OneRunMore
  <2> QED
    BY <1>1, <1>2, <1>3, <2>1, <2>3, <2>4
<1>6. CASE ~AssertCapacity /\ \A r \in Runs : ~CreateRun(r)
  <2>1. Quiet
    BY <1>1, <1>6, QuietStep
  <2>2. Cardinality(With(Active)') <= Cardinality(With(Active)) /\ Cardinality(With(Active)') \in Nat
    BY <2>1, ActiveRuns, FewerRuns DEF Quiet
  <2> QED
    BY <1>1, <1>2, <1>3, <2>1, <2>2 DEF Quiet
<1> QED
  BY <1>4, <1>5, <1>6

\* Starts that race past the capacity check overshoot the backlog by their number at most
\* (assertCapacity, createRun).
THEOREM BacklogKept == GateSpec => []BacklogBounded
<1>1. GateShape /\ BacklogPaid => BacklogBounded
  <2> SUFFICES ASSUME GateShape, BacklogPaid, faults = 0
               PROVE  Cardinality(With(Active)) <= limit + MaxQueueDepth + MaxStarts - 1
    BY DEF BacklogBounded
  <2>1. /\ limit \in Nat /\ MaxQueueDepth \in Nat /\ MaxStarts \in Nat /\ starts \in Nat
        /\ Cardinality(With(Active)) \in Nat
    BY ActiveRuns, SingletonGateAssumption DEF GateShape, GateTypeOK
  <2> QED
    BY <2>1 DEF BacklogPaid
<1> QED
  BY <1>1, ShapeInit, ShapeStep, BacklogInit, BacklogStep, PTL DEF GateSpec

-----------------------------------------------------------------------------
(* Denials.                                                                *)

\* requeue is called only for runs that are over, and whose last turn is (the code asks
\* neither of its caller).
RequeueOfOver(r) == RequeueGated(r) => row[r].status = "over" /\ turn[r] = "idle"

\* Where no start is delayed: a run that has started carries a marker, a run that was
\* parked blocked and a run in its body carry the admitted one, a pending one none, and
\* no turn is past the marking of a pending run.
MarkedStarted ==
  /\ \A r \in Runs : ~ahead[r]
  /\ ~mixed => \A r \in Runs :
       /\ row[r].status = "pending" => row[r].tag = "none"
       /\ turn[r] # "restart"
       /\ row[r].status \in Scanned \cup {"blocked"} => row[r].tag # "none"
       /\ row[r].status = "blocked" => row[r].tag = "admitted"
       /\ turn[r] \in {"gate", "body"} => row[r].status # "pending"
       /\ turn[r] # "idle" => row[r].status # "absent"
       /\ turn[r] = "body" => row[r].status \in {"cancelling", "over"} \/ row[r].tag = "admitted"

LEMMA MarkedInit == GateInit => MarkedStarted
BY DEF GateInit, MarkedStarted, NoRun, Scanned

LEMMA MarkedStep ==
  ASSUME MaxDelayed = 0, GateShape, MarkedStarted, [GateNext]_gateVars,
         [\A r \in Runs : RequeueOfOver(r)]_gateVars
  PROVE  MarkedStarted'
<1> USE DEF GateShape, GateTypeOK, BeganAdmitted, MarkedStarted, Active, Markers, Turns, Scanned, config
<1>1. CASE AssertCapacity
  BY <1>1 DEF AssertCapacity
<1>2. ASSUME NEW r \in Runs, CreateRun(r) PROVE MarkedStarted'
  <2>1. ~(Cardinality({q \in Runs : ahead[q]}) < MaxDelayed)
    <3>1. Cardinality({q \in Runs : ahead[q]}) \in Nat
      BY FiniteRuns
    <3> QED
      BY <3>1
  <2>2. row[r].status = "absent" /\ row' = [row EXCEPT ![r].status = "pending"] /\ UNCHANGED <<ahead, turn, mixed>>
    BY <1>2, <2>1 DEF CreateRun
  <2>3. row[r].tag = "none"
    BY <2>2 DEF MarkedActive
  <2> QED
    BY <2>2, <2>3
<1>3. ASSUME NEW r \in Runs, DatePasses(r) PROVE MarkedStarted'
  BY <1>3 DEF DatePasses
<1>4. ASSUME NEW r \in Runs, TakeTurn(r) PROVE MarkedStarted'
  BY <1>4 DEF TakeTurn, Goto
<1>5. ASSUME NEW r \in Runs, MarkStarted(r) PROVE MarkedStarted'
  BY <1>5 DEF MarkStarted, Goto
<1>6. ASSUME NEW r \in Runs, Admit(r) PROVE MarkedStarted'
  BY <1>6 DEF Admit, Goto
<1>7. ASSUME NEW r \in Runs, Deny(r) PROVE MarkedStarted'
  BY <1>7 DEF Deny, Goto, Track
<1>8. ASSUME NEW r \in Runs, OldStart(r) \/ OldScan(r) PROVE MarkedStarted'
  BY <1>8 DEF OldStart, OldScan
<1>9. ASSUME NEW r \in Runs, Park(r) PROVE MarkedStarted'
  <2>1. turn[r] = "body" /\ turn' = [turn EXCEPT ![r] = "idle"] /\ UNCHANGED <<ahead, mixed>>
    BY <1>9 DEF Park, Goto
  <2>2. CASE UNCHANGED row
    BY <2>1, <2>2
  <2>3. ASSUME NEW t \in {"suspended", "blocked"}, row[r].status \in {"pending", "running", "suspended", "blocked"},
               row' = [row EXCEPT ![r].status = t, ![r].wake = "timer"]
        PROVE  MarkedStarted'
    <3>1. ~mixed => row[r].tag = "admitted" /\ row'[r].tag = "admitted" /\ row'[r].status = t /\ turn'[r] = "idle"
      BY <2>1, <2>3
    <3>2. \A q \in Runs : q # r => row'[q] = row[q] /\ turn'[q] = turn[q]
      BY <2>1, <2>3
    <3> QED
      BY <2>1, <3>1, <3>2
  <2> QED
    BY <1>9, <2>2, <2>3 DEF Park
<1>10. ASSUME NEW r \in Runs, SettleGated(r) PROVE MarkedStarted'
  BY <1>10 DEF SettleGated, Over, Goto
<1>11. ASSUME NEW r \in Runs, StampWake(r) PROVE MarkedStarted'
  BY <1>11 DEF StampWake
<1>12. ASSUME NEW r \in Runs, CancelGated(r) PROVE MarkedStarted'
  BY <1>12 DEF CancelGated, Over
<1>13. ASSUME NEW r \in Runs, CancelCompensating(r) PROVE MarkedStarted'
  BY <1>13 DEF CancelCompensating
<1>14. ASSUME NEW r \in Runs, RequeueGated(r) PROVE MarkedStarted'
  <2>1. CASE UNCHANGED gateVars
    BY <2>1 DEF gateVars
  <2>2. CASE ~UNCHANGED gateVars
    <3>1. row[r].status = "over" /\ turn[r] = "idle"
      BY <1>14, <2>2 DEF RequeueOfOver
    <3> QED
      BY <1>14, <3>1 DEF RequeueGated, MarkedActive
  <2> QED
    BY <2>1, <2>2
<1>15. ASSUME NEW r \in Runs, LoseTurn(r) PROVE MarkedStarted'
  BY <1>15 DEF LoseTurn, Goto
<1>16. CASE UNCHANGED gateVars
  BY <1>16 DEF gateVars
<1> QED
  BY <1>1, <1>2, <1>3, <1>4, <1>5, <1>6, <1>7, <1>8, <1>9, <1>10, <1>11, <1>12, <1>13, <1>14, <1>15, <1>16
     DEF GateNext, Advance, Claim

\* With one slot, a run that may hold it unmarked is older than the claimer.
LEMMA DeniedForAnother ==
  ASSUME GateShape, MarkedStarted, limit = 1, ~mixed, NEW r \in Runs, turn[r] = "gate",
         row[r].status \in Active \ {"cancelling"}, Admitted = {}, {q \in With(Active) : q < r} = {}
  PROVE  Admissible(r)
<1>1. r \in With(Scanned) /\ r \in With(Active) /\ row[r].tag # "admitted"
  BY DEF MarkedStarted, Scanned, Active, With, Admitted
<1>2. Legacy(r) = {}
  <2> SUFFICES ASSUME NEW q \in Legacy(r) PROVE FALSE
    OBVIOUS
  <2>1. q \in With(Scanned) /\ q # r /\ q \in With(Active) /\ q \in Oldest(With(Scanned), 1)
    BY DEF Legacy, MarkedStarted, With, Scanned, Active
  <2>2. {p \in With(Scanned) : p < q} \in SUBSET Runs /\ Cardinality({p \in With(Scanned) : p < q}) < 1
    BY <2>1 DEF Oldest, With
  <2>3. {p \in With(Scanned) : p < q} = {}
    BY <2>2, FiniteRuns, FS_EmptySet
  <2>4. q \in Int /\ r \in Int /\ ~(r < q)
    BY <1>1, <2>1, <2>3 DEF Runs, With
  <2> QED
    BY <2>1, <2>4
<1>3. {q \in With(Active) \ (Admitted \cup Legacy(r)) : q < r} = {}
  OBVIOUS
<1>4. r \in Oldest(With(Active) \ (Admitted \cup Legacy(r)), limit - Cardinality(Admitted) - Cardinality(Legacy(r)))
  BY <1>1, <1>2, <1>3, FS_EmptySet DEF Oldest
<1> QED
  BY <1>4 DEF Admissible

\* A key with one slot (the default), none of whose starts is delayed, and none of whose
\* runs is requeued before it is over: a claim is denied only while another run holds the
\* slot, or an older one is there to take it. The rules for the older replicas' runs
\* (legacySingletonHolders) keep a slot empty in no such fleet.
THEOREM OneSlotIsNeverIdle ==
  ASSUME MaxDelayed = 0, Limits = {1}
  PROVE  GateSpec /\ [][\A r \in Runs : RequeueOfOver(r)]_gateVars => DeniedOnlyWhenFull
<1>1. GateInit => GateShape /\ MarkedStarted
  BY ShapeInit, MarkedInit
<1> DEFINE ForOver == \A r \in Runs : RequeueOfOver(r)
<1>2. GateShape /\ MarkedStarted /\ [GateNext]_gateVars /\ [ForOver]_gateVars => (GateShape /\ MarkedStarted)'
  BY ShapeStep, MarkedStep
<1> DEFINE Fair == \A r \in Runs : Deny(r) /\ ~mixed /\ row[r].status \in Active \ {"cancelling"}
                     => Cardinality(Admitted \cup {q \in With(Active) : q < r}) >= limit
<1>3. GateShape /\ MarkedStarted => Fair
  <2> SUFFICES ASSUME GateShape, MarkedStarted, NEW r \in Runs, Deny(r), ~mixed,
                      row[r].status \in Active \ {"cancelling"}
               PROVE  Cardinality(Admitted \cup {q \in With(Active) : q < r}) >= limit
    OBVIOUS
  <2>1. limit = 1 /\ turn[r] = "gate" /\ ~Admissible(r)
    BY DEF GateShape, GateTypeOK, Deny
  <2>2. Admitted \cup {q \in With(Active) : q < r} # {}
    BY <2>1, DeniedForAnother
  <2>3. Admitted \cup {q \in With(Active) : q < r} \in SUBSET Runs
    BY DEF Admitted, With
  <2> QED
    BY <2>1, <2>2, <2>3, FiniteRuns, FS_EmptySet
<1>4. GateShape /\ MarkedStarted => [Fair]_gateVars
  BY <1>3
<1> HIDE DEF Fair, ForOver
<1>5. GateSpec /\ [][ForOver]_gateVars => [][Fair]_gateVars
  BY <1>1, <1>2, <1>4, PTL DEF GateSpec
<1> QED
  BY <1>5, PTL DEF DeniedOnlyWhenFull, Fair, ForOver

-----------------------------------------------------------------------------
(* Sequences without repetition.                                           *)

\* Where an entry stands; 0 when it is not there.
Place(q, x) == IF Contains(q, x) THEN CHOOSE i \in DOMAIN q : q[i] = x ELSE 0

LEMMA PlaceOf ==
  ASSUME NEW S, NEW q \in Seq(S), IsInjective(q), NEW x
  PROVE  /\ ~Contains(q, x) => Place(q, x) = 0
         /\ \A i \in 1..Len(q) : q[i] = x => Contains(q, x) /\ Place(q, x) = i
         /\ Contains(q, x) => Place(q, x) \in 1..Len(q) /\ q[Place(q, x)] = x
<1>1. DOMAIN q = 1..Len(q)
  BY LenProperties
<1> QED
  BY <1>1 DEF Place, Contains, IsInjective

\* The first place of an entry, as the library looks for it.
LEMMA FirstPlace ==
  ASSUME NEW S, NEW q \in Seq(S), IsInjective(q), NEW i \in 1..Len(q)
  PROVE  RemoveFirst(q, q[i]) = SubSeq(q, 1, i - 1) \o SubSeq(q, i + 1, Len(q))
<1>1. DOMAIN q = 1..Len(q)
  BY LenProperties
<1>2. {j \in 1..Len(q) : q[j] = q[i]} = {i}
  BY <1>1 DEF IsInjective
<1>3. Min({i}) = i
  BY DEF Min
<1> QED
  BY <1>2, <1>3 DEF RemoveFirst, SelectInSeq, RemoveAt

\* Without an entry: the others in their order.
LEMMA WithoutOne ==
  ASSUME NEW S, NEW q \in Seq(S), IsInjective(q), NEW i \in 1..Len(q)
  PROVE  /\ RemoveFirst(q, q[i]) \in Seq(S) /\ Len(RemoveFirst(q, q[i])) = Len(q) - 1
         /\ \A j \in 1..Len(q) - 1 : RemoveFirst(q, q[i])[j] = IF j < i THEN q[j] ELSE q[j + 1]
<1> DEFINE a == SubSeq(q, 1, i - 1)  b == SubSeq(q, i + 1, Len(q))
<1>0. Len(q) \in Nat /\ i - 1 \in Int /\ i + 1 \in Int /\ 1 \in Int
  BY LenProperties
<1>1. (\A j \in 1..i - 1 : q[j] \in S) /\ (\A j \in i + 1..Len(q) : q[j] \in S)
  BY <1>0, ElementOfSeq
<1>2. a \in Seq(S) /\ Len(a) = i - 1 /\ \A j \in 1..i - 1 : a[j] = q[j]
  BY <1>0, <1>1, SubSeqProperties
<1>3. b \in Seq(S) /\ Len(b) = Len(q) - i /\ \A j \in 1..Len(q) - i : b[j] = q[i + j]
  <2>1. /\ b \in Seq(S) /\ Len(b) = (IF i + 1 <= Len(q) THEN Len(q) - (i + 1) + 1 ELSE 0)
        /\ \A j \in 1..Len(q) - (i + 1) + 1 : b[j] = q[i + 1 + j - 1]
    BY <1>0, <1>1, SubSeqProperties
  <2> QED
    BY <2>1, <1>0
<1>4. /\ a \o b \in Seq(S) /\ Len(a \o b) = Len(a) + Len(b)
      /\ \A j \in 1..Len(a) + Len(b) : (a \o b)[j] = IF j <= Len(a) THEN a[j] ELSE b[j - Len(a)]
  BY <1>2, <1>3, ConcatProperties
<1>5. RemoveFirst(q, q[i]) = a \o b
  BY FirstPlace
<1> HIDE DEF a, b
<1>6. ASSUME NEW j \in 1..Len(q) - 1 PROVE (a \o b)[j] = IF j < i THEN q[j] ELSE q[j + 1]
  <2>1. CASE j < i
    BY <2>1, <1>0, <1>2, <1>3, <1>4
  <2>2. CASE ~(j < i)
    <3>1. (a \o b)[j] = b[j - (i - 1)] /\ j - (i - 1) \in 1..Len(q) - i
      BY <2>2, <1>0, <1>2, <1>3, <1>4
    <3>2. i + (j - (i - 1)) = j + 1
      BY <1>0
    <3> QED
      BY <2>2, <3>1, <3>2, <1>3
  <2> QED
    BY <2>1, <2>2
<1>7. Len(a \o b) = Len(q) - 1
  BY <1>0, <1>2, <1>3, <1>4
<1> QED
  BY <1>4, <1>5, <1>6, <1>7

\* Without an entry that may be there: what is left, once each.
LEMMA Without ==
  ASSUME NEW S, NEW q \in Seq(S), IsInjective(q), NEW x
  PROVE  /\ RemoveFirst(q, x) \in Seq(S) /\ IsInjective(RemoveFirst(q, x))
         /\ \A y : Contains(RemoveFirst(q, x), y) <=> Contains(q, y) /\ y # x
<1> DEFINE r == RemoveFirst(q, x)
<1>0. Len(q) \in Nat /\ DOMAIN q = 1..Len(q)
  BY LenProperties
<1>1. CASE ~Contains(q, x)
  <2>1. r = q
    BY <1>1 DEF RemoveFirst, Contains
  <2> QED
    BY <2>1, <1>1
<1>2. CASE Contains(q, x)
  <2>1. PICK i \in 1..Len(q) : q[i] = x
    BY <1>2 DEF Contains
  <2>2. /\ r \in Seq(S) /\ Len(r) = Len(q) - 1
        /\ \A j \in 1..Len(q) - 1 : r[j] = IF j < i THEN q[j] ELSE q[j + 1]
    BY <2>1, WithoutOne
  <2>3. DOMAIN r = 1..Len(q) - 1
    BY <2>2, LenProperties
  <2> HIDE DEF r
  <2>4. IsInjective(r)
    <3> SUFFICES ASSUME NEW j \in 1..Len(q) - 1, NEW k \in 1..Len(q) - 1, r[j] = r[k]
                 PROVE  j = k
      BY <2>3 DEF IsInjective
    <3> DEFINE up(m) == IF m < i THEN m ELSE m + 1
    <3>1. up(j) \in 1..Len(q) /\ up(k) \in 1..Len(q)
      BY <1>0
    <3>2. r[j] = q[up(j)] /\ r[k] = q[up(k)]
      BY <2>2
    <3>3. up(j) = up(k)
      BY <1>0, <3>1, <3>2 DEF IsInjective
    <3> QED
      BY <1>0, <3>3
  <2>5. ASSUME NEW y PROVE Contains(r, y) <=> Contains(q, y) /\ y # x
    <3>1. ASSUME Contains(r, y) PROVE Contains(q, y) /\ y # x
      <4>1. PICK j \in 1..Len(q) - 1 : r[j] = y
        BY <2>2, <3>1 DEF Contains
      <4>2. PICK k \in 1..Len(q) : k # i /\ q[k] = y
        <5>1. CASE j < i
          <6>1. j \in 1..Len(q) /\ q[j] = y
            BY <1>0, <2>2, <4>1, <5>1
          <6> QED
            BY <5>1, <6>1
        <5>2. CASE ~(j < i)
          <6>1. j + 1 \in 1..Len(q) /\ j + 1 # i /\ q[j + 1] = y
            BY <1>0, <2>2, <4>1, <5>2
          <6> QED
            BY <6>1
        <5> QED
          BY <5>1, <5>2
      <4> QED
        BY <4>2, <2>1, <1>0 DEF Contains, IsInjective
    <3>2. ASSUME Contains(q, y), y # x PROVE Contains(r, y)
      <4>1. PICK k \in 1..Len(q) : q[k] = y
        BY <3>2 DEF Contains
      <4>2. k # i
        BY <4>1, <2>1, <3>2
      <4>3. CASE k < i
        <5>1. k \in 1..Len(q) - 1 /\ r[k] = y
          BY <1>0, <2>2, <4>1, <4>3
        <5> QED
          BY <5>1, <2>2 DEF Contains
      <4>4. CASE k > i
        <5>1. k - 1 \in 1..Len(q) - 1 /\ ~(k - 1 < i) /\ k - 1 + 1 = k
          BY <1>0, <4>4
        <5>2. r[k - 1] = y
          BY <5>1, <2>2, <4>1
        <5> QED
          BY <5>1, <5>2, <2>2 DEF Contains
      <4> QED
        BY <1>0, <4>2, <4>3, <4>4
    <3> QED
      BY <3>1, <3>2
  <2> QED
    BY <2>2, <2>4, <2>5 DEF r
<1> QED
  BY <1>1, <1>2

\* One more entry at the end.
LEMMA OneMore ==
  ASSUME NEW S, NEW q \in Seq(S), IsInjective(q), NEW x \in S, ~Contains(q, x)
  PROVE  /\ Append(q, x) \in Seq(S) /\ IsInjective(Append(q, x))
         /\ \A y : Contains(Append(q, x), y) <=> Contains(q, y) \/ y = x
<1> DEFINE r == Append(q, x)
<1>0. Len(q) \in Nat /\ DOMAIN q = 1..Len(q)
  BY LenProperties
<1>1. r \in Seq(S) /\ Len(r) = Len(q) + 1 /\ (\A i \in 1..Len(q) : r[i] = q[i]) /\ r[Len(q) + 1] = x
  BY AppendProperties
<1>2. DOMAIN r = 1..Len(q) + 1
  BY <1>1, LenProperties
<1> HIDE DEF r
<1>3. \A i \in 1..Len(q) + 1 : i \in 1..Len(q) \/ i = Len(q) + 1
  BY <1>0
<1>4. \A i \in 1..Len(q) : i \in 1..Len(q) + 1
  BY <1>0
<1>5. Len(q) + 1 \in 1..Len(q) + 1
  BY <1>0
<1>6. IsInjective(r)
  <2> SUFFICES ASSUME NEW j \in 1..Len(q) + 1, NEW k \in 1..Len(q) + 1, r[j] = r[k]
               PROVE  j = k
    BY <1>2 DEF IsInjective
  <2> QED
    BY <1>0, <1>1, <1>3 DEF IsInjective, Contains
<1>7. \A y : Contains(r, y) <=> Contains(q, y) \/ y = x
  BY <1>1, <1>3, <1>4, <1>5 DEF Contains
<1> QED
  BY <1>1, <1>6, <1>7 DEF r

\* An entry moved to the end: it stands last, and the others in their order.
LEMMA MovedLast ==
  ASSUME NEW S, NEW q \in Seq(S), IsInjective(q), NEW x \in S, NEW r, r = Append(RemoveFirst(q, x), x)
  PROVE  /\ r \in Seq(S) /\ IsInjective(r)
         /\ \A y \in S \ {x} : Place(r, y) < Place(r, x)
         /\ \A y \in S \ {x}, z \in S \ {x} : Place(q, y) < Place(q, z) => Place(r, y) < Place(r, z)
<1> DEFINE m == RemoveFirst(q, x)
<1>1. m \in Seq(S) /\ IsInjective(m) /\ \A y : Contains(m, y) <=> Contains(q, y) /\ y # x
  BY Without
<1>2. r \in Seq(S) /\ IsInjective(r) /\ \A y : Contains(r, y) <=> Contains(q, y) \/ y = x
  BY <1>1, OneMore
<1>3. /\ Len(m) \in Nat /\ Len(r) = Len(m) + 1 /\ (\A i \in 1..Len(m) : r[i] = m[i]) /\ r[Len(m) + 1] = x
  BY <1>1, AppendProperties, LenProperties
<1> HIDE DEF m
<1>4. Place(r, x) = Len(m) + 1
  <2>1. Len(m) + 1 \in 1..Len(r)
    BY <1>3
  <2> QED
    BY <2>1, <1>2, <1>3, PlaceOf
<1>5. ASSUME NEW y \in S \ {x} PROVE Place(r, y) = Place(m, y) /\ Place(m, y) \in 0..Len(m)
  <2>1. CASE Contains(m, y)
    <3>1. Place(m, y) \in 1..Len(m) /\ m[Place(m, y)] = y
      BY <2>1, <1>1, PlaceOf
    <3>2. Place(m, y) \in 1..Len(r) /\ r[Place(m, y)] = y
      BY <3>1, <1>3
    <3>3. Place(r, y) = Place(m, y)
      BY <3>2, <1>2, PlaceOf
    <3> QED
      BY <3>1, <3>3
  <2>2. CASE ~Contains(m, y)
    <3>1. ~Contains(r, y)
      BY <2>2, <1>1, <1>2
    <3>2. Place(r, y) = 0 /\ Place(m, y) = 0
      BY <2>2, <3>1, <1>1, <1>2, PlaceOf
    <3> QED
      BY <3>2, <1>3
  <2> QED
    BY <2>1, <2>2
<1>6. ASSUME NEW y \in S \ {x}, NEW z \in S \ {x}, Place(q, y) < Place(q, z)
      PROVE  Place(m, y) < Place(m, z)
  <2>1. CASE ~Contains(q, x)
    <3>1. m = q
      BY <2>1 DEF m, RemoveFirst, Contains
    <3> QED
      BY <3>1, <1>6
  <2>2. CASE Contains(q, x)
    <3>1. PICK i \in 1..Len(q) : q[i] = x
      BY <2>2 DEF Contains
    <3>2. /\ Len(m) = Len(q) - 1
          /\ \A j \in 1..Len(q) - 1 : m[j] = IF j < i THEN q[j] ELSE q[j + 1]
      BY <3>1, WithoutOne DEF m
    <3>3. ASSUME NEW w \in S \ {x}
          PROVE  /\ Place(q, w) \in 0..Len(q) /\ Place(q, w) # i
                 /\ Place(m, w) = IF Place(q, w) < i THEN Place(q, w) ELSE Place(q, w) - 1
      <4>1. CASE Contains(q, w)
        <5>1. Place(q, w) \in 1..Len(q) /\ q[Place(q, w)] = w /\ Place(q, w) # i
          BY <4>1, <3>1, PlaceOf
        <5> DEFINE p == Place(q, w)
        <5>2. CASE p < i
          <6>1. p \in 1..Len(m) /\ m[p] = w
            BY <5>1, <5>2, <3>2
          <6> QED
            BY <6>1, <5>1, <5>2, <1>1, PlaceOf
        <5>3. CASE p > i
          <6>1. p - 1 \in 1..Len(m) /\ ~(p - 1 < i) /\ p - 1 + 1 = p
            BY <5>1, <5>3, <3>2
          <6>2. m[p - 1] = w
            BY <6>1, <5>1, <3>2
          <6>3. Place(m, w) = p - 1
            BY <6>1, <6>2, <1>1, PlaceOf
          <6> QED
            BY <6>3, <5>1, <5>3
        <5> QED
          BY <5>1, <5>2, <5>3
      <4>2. CASE ~Contains(q, w)
        <5>1. Place(q, w) = 0 /\ Place(m, w) = 0
          BY <4>2, <1>1, PlaceOf
        <5> QED
          BY <5>1
      <4> QED
        BY <4>1, <4>2
    <3> QED
      BY <1>6, <3>3
  <2> QED
    BY <2>1, <2>2
<1> QED
  BY <1>2, <1>3, <1>4, <1>5, <1>6

-----------------------------------------------------------------------------
(* StepQueue: the shape of the state.                                      *)

\* A call that is admitted has begun an attempt.
Begun == \A s \in Steps : phase[s] = "admitted" => attempt[s] > 0

QueueShape == QueueTypeOK /\ Begun

LEMMA QueueShapeInit == QueueInit => QueueShape
<1> SUFFICES ASSUME QueueInit PROVE QueueShape
  OBVIOUS
<1>1. <<>> \in Seq(Steps) /\ <<>> \in Seq(Keys) /\ IsInjective(<<>>)
  BY EmptySeq, LenProperties DEF IsInjective
<1>2. waiters \in [Homes -> Seq(Steps)] /\ \A h \in Homes : IsInjective(waiters[h])
  BY <1>1 DEF QueueInit
<1>3. served \in [Homes -> Seq(Keys)] /\ \A h \in Homes : IsInjective(served[h])
  BY <1>1 DEF QueueInit
<1>4. used \in [Homes -> Nat] /\ \A h \in Homes : used[h] <= policy.rate
  BY StepQueueAssumption DEF QueueInit
<1>5. passed \in [Homes -> [Steps -> SUBSET Keys]] /\ tracks \in [Engines -> SUBSET Steps] /\ hurt = {}
  BY DEF QueueInit
<1>6. phase \in [Steps -> Phases] /\ attempt \in [Steps -> 0..MaxAttempts] /\ Begun
  BY StepQueueAssumption DEF QueueInit, Phases, Begun
<1>7. /\ count \in [Engines -> Nat] /\ slots \subseteq Steps /\ owner \in [Steps -> Engines \cup {"nobody"}]
      /\ lapsed \subseteq slots /\ evicted \subseteq Steps
  BY DEF QueueInit
<1>8. fleet \in SUBSET Engines \ {{}} /\ shared \in BOOLEAN /\ stable \in BOOLEAN /\ (stable => shared)
      /\ policy \in [fair : BOOLEAN, lifo : BOOLEAN, concurrency : Concurrencies, rate : RateLimits]
  BY DEF QueueInit
<1> QED
  BY <1>2, <1>3, <1>4, <1>5, <1>6, <1>7, <1>8 DEF QueueShape, QueueTypeOK

\* The caller is among the waiters it joins, and the others stay.
LEMMA RegisteredWaits ==
  ASSUME QueueTypeOK, NEW h \in Homes, NEW s \in Steps
  PROVE  /\ Registered(h, s) \in Seq(Steps) /\ IsInjective(Registered(h, s))
         /\ \A w : Contains(Registered(h, s), w) <=> Contains(waiters[h], w) \/ w = s
<1>1. waiters[h] \in Seq(Steps) /\ IsInjective(waiters[h])
  BY DEF QueueTypeOK
<1> QED
  BY <1>1, OneMore DEF Registered

\* What a fault adds to the history.
LEMMA HurtTyped ==
  ASSUME QueueTypeOK, NEW fault \in Faults, Hurt(fault)
  PROVE  (hurt \in SUBSET (Faults \X (1..MaxQueueFaults)))'
<1>1. IsFiniteSet(Faults \X (1..MaxQueueFaults))
  <2>1. IsFiniteSet(1..MaxQueueFaults)
    BY StepQueueAssumption, FS_Interval
  <2>2. IsFiniteSet(Faults)
    <3>1. IsFiniteSet({} \cup {"crash"})
      BY FS_EmptySet, FS_AddElement
    <3>2. IsFiniteSet({} \cup {"crash"} \cup {"cancel"})
      BY <3>1, FS_AddElement
    <3>3. IsFiniteSet({} \cup {"crash"} \cup {"cancel"} \cup {"store"})
      BY <3>2, FS_AddElement
    <3>4. IsFiniteSet({} \cup {"crash"} \cup {"cancel"} \cup {"store"} \cup {"expiry"})
      BY <3>3, FS_AddElement
    <3>5. IsFiniteSet({} \cup {"crash"} \cup {"cancel"} \cup {"store"} \cup {"expiry"} \cup {"lapse"})
      BY <3>4, FS_AddElement
    <3>6. Faults = {} \cup {"crash"} \cup {"cancel"} \cup {"store"} \cup {"expiry"} \cup {"lapse"}
      BY DEF Faults
    <3> QED
      BY <3>5, <3>6
  <2> QED
    BY <2>1, <2>2, FS_Product
<1>2. Cardinality(hurt) \in Nat
  BY <1>1, FS_Subset, FS_CardinalityType DEF QueueTypeOK
<1>3. Cardinality(hurt) + 1 \in 1..MaxQueueFaults
  BY <1>2, StepQueueAssumption DEF Hurt
<1> QED
  BY <1>3 DEF Hurt, QueueTypeOK

LEMMA HomeTyped ==
  ASSUME NEW e \in Engines
  PROVE  Home(e) \in Homes
BY DEF Home, Homes

\* An acquire drops slots, and takes none; what it reclaims from the living is remembered.
LEMMA Reclaimed ==
  ASSUME QueueTypeOK, NEW e \in Engines
  PROVE  /\ Valid(e) \subseteq slots /\ evicted \subseteq EvictedBy(e) /\ EvictedBy(e) \subseteq Steps
         /\ \A s \in slots : s \in Valid(e) \/ owner[s] = "nobody" \/ s \in EvictedBy(e)
BY DEF Valid, EvictedBy, QueueTypeOK

\* No step changes the setting, and a state where nothing changes keeps its shape.
LEMMA QueueShapeStep ==
  ASSUME QueueShape, [QueueNext]_queueVars
  PROVE  QueueShape'
<1>0. QueueTypeOK /\ Begun
  BY DEF QueueShape
<1>1. /\ fleet \in SUBSET Engines \ {{}} /\ shared \in BOOLEAN /\ stable \in BOOLEAN /\ (stable => shared)
      /\ policy \in [fair : BOOLEAN, lifo : BOOLEAN, concurrency : Concurrencies, rate : RateLimits]
      /\ phase \in [Steps -> Phases] /\ attempt \in [Steps -> 0..MaxAttempts]
      /\ count \in [Engines -> Nat] /\ slots \subseteq Steps /\ owner \in [Steps -> Engines \cup {"nobody"}]
      /\ lapsed \subseteq slots /\ evicted \subseteq Steps
      /\ waiters \in [Homes -> Seq(Steps)] /\ \A h \in Homes : IsInjective(waiters[h])
      /\ served \in [Homes -> Seq(Keys)] /\ \A h \in Homes : IsInjective(served[h])
      /\ used \in [Homes -> Nat] /\ \A h \in Homes : used[h] <= policy.rate
      /\ tracks \in [Engines -> SUBSET Steps]
      /\ passed \in [Homes -> [Steps -> SUBSET Keys]] /\ hurt \in SUBSET (Faults \X (1..MaxQueueFaults))
  BY <1>0 DEF QueueTypeOK
<1>2. MaxAttempts \in Nat /\ RateLimits \subseteq Nat /\ \A s \in Steps : KeyOf[s] \in Keys
  BY StepQueueAssumption DEF Keys
<1>3. \A e \in fleet : e \in Engines /\ Home(e) \in Homes
  BY <1>1, HomeTyped
<1> DEFINE Calls    == phase \in [Steps -> Phases] /\ attempt \in [Steps -> 0..MaxAttempts] /\ Begun
           Slots    == /\ count \in [Engines -> Nat] /\ slots \subseteq Steps
                       /\ owner \in [Steps -> Engines \cup {"nobody"}] /\ tracks \in [Engines -> SUBSET Steps]
           Filed    == lapsed \subseteq slots /\ evicted \subseteq Steps
           Lines    == waiters \in [Homes -> Seq(Steps)] /\ \A h \in Homes : IsInjective(waiters[h])
           Order    == served \in [Homes -> Seq(Keys)] /\ \A h \in Homes : IsInjective(served[h])
           Windows  == used \in [Homes -> Nat] /\ \A h \in Homes : used[h] <= policy.rate
           History  == passed \in [Homes -> [Steps -> SUBSET Keys]]
           Faulted  == hurt \in SUBSET (Faults \X (1..MaxQueueFaults))
<1>4. Calls /\ Slots /\ Filed /\ Lines /\ Order /\ Windows /\ History /\ Faulted
  BY <1>0, <1>1
<1>5. SUFFICES UNCHANGED setting /\ Calls' /\ Slots' /\ Filed' /\ Lines' /\ Order' /\ Windows' /\ History' /\ Faulted'
  BY <1>1 DEF QueueShape, QueueTypeOK, setting
<1>6. CASE UNCHANGED queueVars
  BY <1>4, <1>6 DEF queueVars, setting, books, filing, Begun
<1>7. ASSUME NEW s \in Steps, NEW e \in fleet, Block(s, e)
      PROVE  UNCHANGED setting /\ Calls' /\ Slots' /\ Filed' /\ Lines' /\ Order' /\ Windows' /\ History' /\ Faulted'
  <2>1. UNCHANGED <<setting, attempt, count, owner, served, used, tracks, passed, hurt>>
    BY <1>7 DEF Block
  <2>filed. Slots' /\ Filed'
    <3>1. slots' = Valid(e) /\ lapsed' = {} /\ evicted' = EvictedBy(e)
      BY <1>7 DEF Block
    <3> QED
      BY <1>0, <1>1, <1>3, <2>1, <3>1, Reclaimed
  <2>2. Calls'
    BY <1>1, <1>0, <1>7, <2>1 DEF Block, Begun, Phases
  <2>3. Lines'
    <3>1. Registered(Home(e), s) \in Seq(Steps) /\ IsInjective(Registered(Home(e), s))
      BY <1>0, <1>3, RegisteredWaits
    <3>2. waiters' = waiters \/ waiters' = [waiters EXCEPT ![Home(e)] = Registered(Home(e), s)]
      BY <1>7 DEF Block
    <3> QED
      BY <1>1, <1>3, <3>1, <3>2
  <2> QED
    BY <1>1, <2>1, <2>filed, <2>2, <2>3 DEF setting
<1>8. ASSUME NEW s \in Steps, NEW e \in fleet, AdmitStep(s, e)
      PROVE  UNCHANGED setting /\ Calls' /\ Slots' /\ Filed' /\ Lines' /\ Order' /\ Windows' /\ History' /\ Faulted'
  <2> DEFINE h == Home(e)
  <2>1. UNCHANGED <<setting, hurt>>
    BY <1>8 DEF AdmitStep
  <2>2. Calls'
    <3>1. phase' = [phase EXCEPT ![s] = "admitted"] /\ attempt' = [attempt EXCEPT ![s] = @ + 1] /\ attempt[s] < MaxAttempts
      BY <1>8 DEF AdmitStep
    <3> QED
      BY <1>0, <1>1, <1>2, <3>1 DEF Begun, Phases
  <2>3. Slots' /\ Filed'
    <3>1. Take(s, e) /\ tracks' = [tracks EXCEPT ![e] = @ \cup {s}]
      BY <1>8 DEF AdmitStep
    <3>filed. Filed'
      BY <1>0, <1>1, <1>3, <3>1, Reclaimed DEF Take
    <3>2. (count \in [Engines -> Nat])' /\ (slots \subseteq Steps)'
      <4>1. UNCHANGED count \/ count' = [count EXCEPT ![e] = count[e] + 1]
        BY <1>1, <1>3, <3>1 DEF Take
      <4>2. slots' \subseteq slots \cup {s}
        BY <1>0, <1>3, <3>1, Reclaimed DEF Take
      <4> QED
        BY <1>1, <1>3, <4>1, <4>2
    <3>3. (owner \in [Steps -> Engines \cup {"nobody"}])' /\ (tracks \in [Engines -> SUBSET Steps])'
      BY <1>1, <1>3, <3>1 DEF Take
    <3> QED
      BY <3>2, <3>3, <3>filed
  <2>4. Lines'
    <3>1. waiters' = [waiters EXCEPT ![h] = RemoveFirst(waiters[h], s)]
      BY <1>1, <1>3, <1>8 DEF AdmitStep
    <3>2. RemoveFirst(waiters[h], s) \in Seq(Steps) /\ IsInjective(RemoveFirst(waiters[h], s))
      BY <1>1, <1>3, Without
    <3> QED
      BY <1>1, <1>3, <3>1, <3>2
  <2>5. Order'
    <3>1. served' = served \/ served' = [served EXCEPT ![h] = Append(RemoveFirst(served[h], KeyOf[s]), KeyOf[s])]
      BY <1>1, <1>3, <1>8 DEF AdmitStep, Serve
    <3>2. /\ Append(RemoveFirst(served[h], KeyOf[s]), KeyOf[s]) \in Seq(Keys)
          /\ IsInjective(Append(RemoveFirst(served[h], KeyOf[s]), KeyOf[s]))
      <4>1. served[h] \in Seq(Keys) /\ IsInjective(served[h]) /\ KeyOf[s] \in Keys
        BY <1>1, <1>2, <1>3
      <4> QED
        BY <4>1, MovedLast
    <3> QED
      BY <1>1, <1>3, <3>1, <3>2
  <2>6. Windows'
    <3>1. /\ used' = (IF policy.rate > 0 THEN [used EXCEPT ![h] = @ + 1] ELSE used)
          /\ (policy.rate > 0 => ~(used[h] >= policy.rate)) /\ UNCHANGED policy
      BY <1>8 DEF AdmitStep, Spent, setting
    <3>2. policy.rate \in Nat
      BY <1>1, <1>2
    <3> QED
      BY <1>1, <1>3, <3>1, <3>2
  <2>7. History'
    BY <1>1, <1>2, <1>3, <1>8 DEF AdmitStep, Pass
  <2> QED
    BY <1>1, <2>1, <2>2, <2>3, <2>4, <2>5, <2>6, <2>7 DEF setting
<1>9. ASSUME NEW s \in Steps, NEW e \in fleet, ConsumeStep(s, e)
      PROVE  UNCHANGED setting /\ Calls' /\ Slots' /\ Filed' /\ Lines' /\ Order' /\ Windows' /\ History' /\ Faulted'
  <2>1. UNCHANGED <<setting, attempt, waiters, served, used, passed, hurt>>
    BY <1>9 DEF ConsumeStep
  <2>2. Calls'
    BY <1>0, <1>1, <1>9, <2>1 DEF ConsumeStep, Begun, Phases
  <2>3. Slots' /\ Filed'
    <3>1. Release(s, e)
      BY <1>9 DEF ConsumeStep
    <3>filed. Filed'
      BY <1>1, <3>1 DEF Release, filing
    <3>2. UNCHANGED count \/ count' = [count EXCEPT ![e] = IF count[e] = 0 THEN 0 ELSE count[e] - 1]
      BY <1>1, <1>3, <3>1 DEF Release
    <3>3. (count \in [Engines -> Nat])' /\ (slots \subseteq Steps)'
      BY <1>1, <1>3, <3>1, <3>2 DEF Release
    <3>4. /\ UNCHANGED owner \/ owner' = [owner EXCEPT ![s] = "nobody"]
          /\ UNCHANGED tracks \/ tracks' = [tracks EXCEPT ![e] = tracks[e] \ {s}]
      BY <1>1, <1>3, <3>1 DEF Release
    <3>5. (owner \in [Steps -> Engines \cup {"nobody"}])'
      BY <1>1, <3>4
    <3>6. (tracks \in [Engines -> SUBSET Steps])'
      <4>1. tracks[e] \ {s} \in SUBSET Steps /\ e \in Engines
        BY <1>1, <1>3
      <4>2. CASE UNCHANGED tracks
        BY <1>1, <4>2
      <4>3. CASE tracks' = [tracks EXCEPT ![e] = tracks[e] \ {s}]
        BY <1>1, <4>1, <4>3
      <4> QED
        BY <3>4, <4>2, <4>3
    <3> QED
      BY <3>3, <3>5, <3>6, <3>filed
  <2> QED
    BY <1>1, <2>1, <2>2, <2>3 DEF setting
<1>10. ASSUME NEW s \in Steps, SendStep(s)
       PROVE  UNCHANGED setting /\ Calls' /\ Slots' /\ Filed' /\ Lines' /\ Order' /\ Windows' /\ History' /\ Faulted'
  <2>1. Calls'
    BY <1>0, <1>1, <1>10 DEF SendStep, Begun, Phases
  <2> QED
    BY <1>1, <1>10, <2>1 DEF SendStep, books, filing, setting
<1>11. ASSUME NEW set \in SUBSET slots, KeyLapses(set), UNCHANGED hurt \/ Hurt("lapse")
       PROVE  UNCHANGED setting /\ Calls' /\ Slots' /\ Filed' /\ Lines' /\ Order' /\ Windows' /\ History' /\ Faulted'
  <2>1. Faulted'
    BY <1>0, <1>1, <1>11, HurtTyped DEF Faults
  <2> QED
    BY <1>0, <1>1, <1>11, <2>1 DEF KeyLapses, setting, Begun
<1>keys. ASSUME NEW s \in Steps, KeyEnds(s)
         PROVE  UNCHANGED setting /\ Calls' /\ Slots' /\ Filed' /\ Lines' /\ Order' /\ Windows' /\ History' /\ Faulted'
  <2>1. {s} \cap {t \in slots \ lapsed : owner[t] = "nobody"} \in SUBSET slots
    OBVIOUS
  <2> QED
    BY <1>11, <1>keys, <2>1 DEF KeyEnds
<1>lapse. ASSUME NEW e \in fleet, LapseKey(e)
          PROVE  UNCHANGED setting /\ Calls' /\ Slots' /\ Filed' /\ Lines' /\ Order' /\ Windows' /\ History' /\ Faulted'
  <2>1. {t \in slots \ lapsed : owner[t] = e} \in SUBSET slots
    OBVIOUS
  <2> QED
    BY <1>11, <1>lapse, <2>1 DEF LapseKey
<1>beat. ASSUME NEW e \in fleet, Heartbeat(e)
         PROVE  UNCHANGED setting /\ Calls' /\ Slots' /\ Filed' /\ Lines' /\ Order' /\ Windows' /\ History' /\ Faulted'
  BY <1>0, <1>1, <1>beat DEF Heartbeat, setting, Begun
<1>12. ASSUME NEW s \in Steps, Unregister(s), UNCHANGED hurt \/ Hurt("expiry")
       PROVE  UNCHANGED setting /\ Calls' /\ Slots' /\ Filed' /\ Lines' /\ Order' /\ Windows' /\ History' /\ Faulted'
  <2>1. UNCHANGED <<setting, phase, attempt, count, slots, owner, filing, served, used, tracks>>
    BY <1>12 DEF Unregister
  <2>2. "fleet" \in Homes
    BY DEF Homes
  <2>3. Lines'
    <3>1. waiters' = [waiters EXCEPT !["fleet"] = RemoveFirst(waiters["fleet"], s)]
      BY <1>1, <1>12, <2>2 DEF Unregister
    <3>2. RemoveFirst(waiters["fleet"], s) \in Seq(Steps) /\ IsInjective(RemoveFirst(waiters["fleet"], s))
      BY <1>1, <2>2, Without
    <3> QED
      BY <1>1, <2>2, <3>1, <3>2
  <2>4. History'
    BY <1>1, <1>12, <2>2 DEF Unregister
  <2>5. Faulted'
    BY <1>0, <1>1, <1>12, HurtTyped DEF Faults
  <2>6. Calls'
    BY <1>0, <1>1, <2>1 DEF Begun
  <2> QED
    BY <1>1, <2>1, <2>3, <2>4, <2>5, <2>6 DEF setting, filing
<1>13. ASSUME NEW s \in Steps, CancelStep(s)
       PROVE  UNCHANGED setting /\ Calls' /\ Slots' /\ Filed' /\ Lines' /\ Order' /\ Windows' /\ History' /\ Faulted'
  <2>1. Faulted'
    BY <1>0, <1>13, HurtTyped DEF CancelStep, Faults
  <2>2. Calls'
    BY <1>0, <1>1, <1>13 DEF CancelStep, Begun, Phases
  <2> QED
    BY <1>1, <1>13, <2>1, <2>2 DEF CancelStep, books, filing, setting
<1>14. ASSUME NEW s \in Steps, StoreFails(s)
       PROVE  UNCHANGED setting /\ Calls' /\ Slots' /\ Filed' /\ Lines' /\ Order' /\ Windows' /\ History' /\ Faulted'
  <2>1. Faulted'
    BY <1>0, <1>14, HurtTyped DEF StoreFails, Faults
  <2>2. Calls'
    BY <1>0, <1>1, <1>2, <1>14 DEF StoreFails, Begun, Phases
  <2> QED
    BY <1>1, <1>14, <2>1, <2>2 DEF StoreFails, books, filing, setting
<1>15. ASSUME NEW h \in Homes, WindowTurns(h)
       PROVE  UNCHANGED setting /\ Calls' /\ Slots' /\ Filed' /\ Lines' /\ Order' /\ Windows' /\ History' /\ Faulted'
  <2>1. Windows'
    <3>1. policy.rate \in Nat
      BY <1>1, <1>2
    <3> QED
      BY <1>1, <1>15, <3>1 DEF WindowTurns, setting
  <2> QED
    BY <1>0, <1>1, <1>15, <2>1 DEF WindowTurns, filing, setting, Begun
<1>16. ASSUME NEW e \in fleet, CrashEngine(e)
       PROVE  UNCHANGED setting /\ Calls' /\ Slots' /\ Filed' /\ Lines' /\ Order' /\ Windows' /\ History' /\ Faulted'
  <2>0. e \in Engines /\ e \in Homes /\ <<>> \in Seq(Steps) /\ <<>> \in Seq(Keys) /\ IsInjective(<<>>)
    BY <1>3, EmptySeq, LenProperties DEF IsInjective, Homes
  <2>1. UNCHANGED <<setting, slots, filing>>
    BY <1>16 DEF CrashEngine
  <2>2. Faulted'
    BY <1>0, <1>16, HurtTyped DEF CrashEngine, Faults
  <2>3. Calls'
    <3> DEFINE lost == {s \in Steps : phase[s] = "admitted" /\ owner[s] = e}
    <3>1. /\ phase' = [s \in Steps |-> IF s \in lost THEN "calling" ELSE phase[s]]
          /\ attempt' = [s \in Steps |-> IF s \in lost THEN attempt[s] - 1 ELSE attempt[s]]
      BY <1>16 DEF CrashEngine
    <3>2. \A s \in lost : attempt[s] > 0
      BY <1>0 DEF Begun
    <3> QED
      BY <1>0, <1>1, <1>2, <3>1, <3>2 DEF Begun, Phases
  <2>4. Slots'
    <3>1. UNCHANGED count \/ count' = [count EXCEPT ![e] = 0]
      BY <1>16 DEF CrashEngine
    <3>2. (count \in [Engines -> Nat])' /\ (slots \subseteq Steps)'
      BY <1>1, <2>0, <2>1, <3>1
    <3>3. /\ tracks' = [tracks EXCEPT ![e] = {}]
          /\ owner' = [s \in Steps |-> IF owner[s] = e /\ ~stable THEN "nobody" ELSE owner[s]]
      BY <1>16 DEF CrashEngine
    <3>4. (owner \in [Steps -> Engines \cup {"nobody"}])' /\ (tracks \in [Engines -> SUBSET Steps])'
      BY <1>1, <2>0, <3>3
    <3> QED
      BY <3>2, <3>4
  <2>5. Lines'
    <3>1. waiters' = waiters \/ waiters' = [waiters EXCEPT ![e] = <<>>]
      BY <1>16 DEF CrashEngine
    <3> QED
      BY <1>1, <2>0, <3>1
  <2>6. Order'
    <3>1. served' = served \/ served' = [served EXCEPT ![e] = <<>>]
      BY <1>16 DEF CrashEngine
    <3> QED
      BY <1>1, <2>0, <3>1
  <2>7. Windows'
    <3>1. policy.rate \in Nat /\ UNCHANGED policy
      BY <1>1, <1>2, <2>1 DEF setting
    <3>2. used' = used \/ used' = [used EXCEPT ![e] = 0]
      BY <1>16 DEF CrashEngine
    <3>3. CASE used' = [used EXCEPT ![e] = 0]
      <4>1. \A h \in Homes : used'[h] = IF h = e THEN 0 ELSE used[h]
        BY <1>1, <2>0, <3>3
      <4> QED
        BY <1>1, <2>0, <3>1, <3>3, <4>1
    <3> QED
      BY <1>1, <3>1, <3>2, <3>3
  <2>8. History'
    <3>1. passed' = passed \/ passed' = [passed EXCEPT ![e] = [s \in Steps |-> {}]]
      BY <1>16 DEF CrashEngine
    <3> QED
      BY <1>1, <2>0, <3>1
  <2> QED
    BY <1>1, <2>1, <2>2, <2>3, <2>4, <2>5, <2>6, <2>7, <2>8 DEF filing
<1> QED
  BY <1>6, <1>7, <1>8, <1>9, <1>10, <1>keys, <1>lapse, <1>beat, <1>12, <1>13, <1>14, <1>15, <1>16
     DEF QueueNext, Forget, Expire

-----------------------------------------------------------------------------
(* The slots.                                                              *)

\* No accounting counts more than its limit, an engine remembers no more calls than it
\* counts, and a call in flight whose dispatcher lives has its slot filed or remembered,
\* unless the slot was reclaimed from it.
SlotsHeldBy ==
  /\ policy.concurrency > 0 =>
       Cardinality(slots) <= policy.concurrency /\ \A e \in Engines : count[e] <= policy.concurrency
  /\ ~shared => \A e \in Engines : Cardinality(tracks[e]) <= count[e]
  /\ \A s \in InFlight \ evicted : owner[s] # "nobody" => s \in (IF shared THEN slots ELSE tracks[owner[s]])

LEMMA FiniteCalls ==
  ASSUME NEW S \in SUBSET Steps
  PROVE  IsFiniteSet(S) /\ Cardinality(S) \in Nat
BY StepQueueAssumption, FS_Subset, FS_CardinalityType

LEMMA FewerCalls ==
  ASSUME NEW S \in SUBSET Steps, NEW T \in SUBSET S
  PROVE  Cardinality(T) <= Cardinality(S) /\ Cardinality(S) \in Nat /\ Cardinality(T) \in Nat
<1>1. T \in SUBSET Steps
  OBVIOUS
<1> QED
  BY <1>1, FiniteCalls, FS_Subset

LEMMA OneCallMore ==
  ASSUME NEW S \in SUBSET Steps, NEW s \in Steps
  PROVE  Cardinality(S \cup {s}) <= Cardinality(S) + 1 /\ Cardinality(S) \in Nat /\ Cardinality(S \cup {s}) \in Nat
<1>1. S \cup {s} \in SUBSET Steps
  OBVIOUS
<1> QED
  BY <1>1, FiniteCalls, FS_AddElement

LEMMA OneCallLess ==
  ASSUME NEW S \in SUBSET Steps, NEW s \in S
  PROVE  Cardinality(S \ {s}) = Cardinality(S) - 1 /\ Cardinality(S) \in Nat
BY FiniteCalls, FS_RemoveElement

\* With its slot a call is one of those counted: the cap follows.
LEMMA HeldIsCapped ==
  ASSUME QueueShape, SlotsHeldBy
  PROVE  CapKept
<1> SUFFICES ASSUME policy.concurrency > 0, NEW h \in Homes PROVE Cardinality(Running(h)) <= policy.concurrency
  BY DEF CapKept
<1>0. /\ policy.concurrency \in Nat /\ tracks \in [Engines -> SUBSET Steps] /\ count \in [Engines -> Nat]
      /\ slots \in SUBSET Steps /\ fleet \subseteq Engines
  BY StepQueueAssumption DEF QueueShape, QueueTypeOK
<1>1. CASE shared
  <2>1. Running(h) \subseteq slots
    BY <1>0, <1>1, StepQueueAssumption DEF Running, Dispatched, SlotsHeldBy
  <2> QED
    BY <1>0, <2>1, FewerCalls DEF SlotsHeldBy
<1>2. CASE ~shared /\ h \in Engines
  <2>1. Running(h) \subseteq tracks[h]
    BY <1>0, <1>2, StepQueueAssumption DEF Running, Dispatched, SlotsHeldBy, Home
  <2>2. /\ Cardinality(Running(h)) <= Cardinality(tracks[h])
        /\ Cardinality(Running(h)) \in Nat /\ Cardinality(tracks[h]) \in Nat
    BY <1>0, <1>2, <2>1, FewerCalls
  <2>3. Cardinality(tracks[h]) <= count[h] /\ count[h] <= policy.concurrency /\ count[h] \in Nat
    BY <1>0, <1>2 DEF SlotsHeldBy
  <2> QED
    BY <1>0, <2>2, <2>3
<1>3. CASE ~shared /\ h \notin Engines
  <2>1. Running(h) = {}
    BY <1>0, <1>3 DEF Running, Dispatched, Home
  <2> QED
    BY <1>0, <2>1, FS_EmptySet
<1> QED
  BY <1>1, <1>2, <1>3

LEMMA HeldInit == QueueInit => SlotsHeldBy
<1> SUFFICES ASSUME QueueInit PROVE SlotsHeldBy
  OBVIOUS
<1>1. Cardinality({}) = 0
  BY FS_EmptySet
<1>2. InFlight = {}
  BY DEF InFlight, QueueInit
<1>3. policy.concurrency \in Nat
  BY StepQueueAssumption DEF QueueInit
<1> QED
  BY <1>1, <1>2, <1>3 DEF SlotsHeldBy, QueueInit

\* A slot is taken below the limit only, and the engine that takes it remembers the call.
LEMMA HeldByAdmit ==
  ASSUME QueueShape, SlotsHeldBy, NEW s \in Steps, NEW e \in fleet, AdmitStep(s, e)
  PROVE  SlotsHeldBy'
<1>1. /\ policy.concurrency \in Nat /\ tracks \in [Engines -> SUBSET Steps] /\ count \in [Engines -> Nat]
      /\ slots \in SUBSET Steps /\ evicted \in SUBSET Steps /\ e \in Engines /\ shared \in BOOLEAN
      /\ owner \in [Steps -> Engines \cup {"nobody"}] /\ phase \in [Steps -> Phases]
  BY StepQueueAssumption DEF QueueShape, QueueTypeOK
<1>2. /\ UNCHANGED <<policy, shared>> /\ (policy.concurrency > 0 => ~(InUse(e) >= policy.concurrency))
      /\ tracks' = [tracks EXCEPT ![e] = tracks[e] \cup {s}]
      /\ owner' = [owner EXCEPT ![s] = e] /\ phase' = [phase EXCEPT ![s] = "admitted"]
  BY <1>1 DEF AdmitStep, Take, Full, setting
<1>book. /\ Valid(e) \in SUBSET slots /\ evicted' = EvictedBy(e) \ {s}
         /\ \A t \in slots : t \in Valid(e) \/ owner[t] = "nobody" \/ t \in EvictedBy(e)
         /\ evicted \subseteq EvictedBy(e)
  BY <1>1, Reclaimed DEF AdmitStep, Take, QueueShape
<1>3. ASSUME NEW t \in InFlight' \ evicted', t # s PROVE t \in InFlight \ evicted /\ t \notin EvictedBy(e) /\ owner'[t] = owner[t]
  <2>1. t \in Steps /\ phase'[t] \in {"admitted", "sent", "late"}
    BY DEF InFlight
  <2>2. phase'[t] = phase[t] /\ owner'[t] = owner[t]
    BY <1>1, <1>2, <1>3, <2>1
  <2> QED
    BY <1>3, <1>book, <2>1, <2>2 DEF InFlight
<1>4. s \in Steps /\ owner'[s] = e /\ s \in tracks'[e]
  BY <1>1, <1>2
<1>5. CASE shared
  <2>1. slots' = Valid(e) \cup {s} /\ UNCHANGED count
    BY <1>5 DEF AdmitStep, Take
  <2>2. policy.concurrency > 0 => Cardinality(slots') <= policy.concurrency
    <3>1. Valid(e) \in SUBSET Steps
      BY <1>1, <1>book
    <3> QED
      BY <1>1, <1>2, <1>5, <2>1, <3>1, OneCallMore DEF InUse
  <2>3. ASSUME NEW t \in InFlight' \ evicted', owner'[t] # "nobody" PROVE t \in slots'
    <3>1. CASE t = s
      BY <2>1, <3>1
    <3>2. CASE t # s
      <4>1. t \in InFlight \ evicted /\ t \notin EvictedBy(e) /\ owner[t] # "nobody"
        BY <1>3, <2>3, <3>2
      <4>2. t \in slots
        BY <1>5, <4>1 DEF SlotsHeldBy
      <4> QED
        BY <1>book, <2>1, <4>1, <4>2
    <3> QED
      BY <3>1, <3>2
  <2> QED
    BY <1>2, <1>5, <2>1, <2>2, <2>3 DEF SlotsHeldBy
<1>6. CASE ~shared
  <2>1. count' = [count EXCEPT ![e] = count[e] + 1] /\ UNCHANGED slots
    BY <1>1, <1>6 DEF AdmitStep, Take
  <2>2. policy.concurrency > 0 => ~(count[e] >= policy.concurrency)
    BY <1>2, <1>6 DEF InUse, Home
  <2>3. policy.concurrency > 0 => \A d \in Engines : count'[d] <= policy.concurrency
    BY <1>1, <2>1, <2>2 DEF SlotsHeldBy
  <2>4. Cardinality(tracks[e] \cup {s}) <= Cardinality(tracks[e]) + 1 /\ Cardinality(tracks[e]) \in Nat
        /\ Cardinality(tracks[e] \cup {s}) \in Nat
    BY <1>1, OneCallMore
  <2>5. ASSUME NEW d \in Engines PROVE Cardinality(tracks'[d]) <= count'[d]
    <3>1. CASE d = e
      <4>1. tracks'[e] = tracks[e] \cup {s} /\ count'[e] = count[e] + 1 /\ Cardinality(tracks[e]) <= count[e]
            /\ count[e] \in Nat
        BY <1>1, <1>2, <1>6, <2>1 DEF SlotsHeldBy
      <4> QED
        BY <3>1, <4>1, <2>4
    <3>2. CASE d # e
      BY <1>1, <1>2, <1>6, <2>1, <3>2 DEF SlotsHeldBy
    <3> QED
      BY <3>1, <3>2
  <2>6. ASSUME NEW t \in InFlight' \ evicted', owner'[t] # "nobody" PROVE t \in tracks'[owner'[t]]
    <3>1. CASE t = s
      BY <1>4, <3>1
    <3>2. CASE t # s
      <4>1. t \in InFlight \ evicted /\ owner'[t] = owner[t] /\ t \in Steps
        BY <1>3, <3>2 DEF InFlight
      <4>2. owner[t] \in Engines /\ t \in tracks[owner[t]]
        BY <1>1, <1>6, <2>6, <4>1 DEF SlotsHeldBy
      <4> QED
        BY <1>1, <1>2, <4>1, <4>2
    <3> QED
      BY <3>1, <3>2
  <2> QED
    BY <1>2, <1>6, <2>1, <2>3, <2>5, <2>6 DEF SlotsHeldBy
<1> QED
  BY <1>1, <1>5, <1>6

\* A slot is given back for the call whose result has landed.
LEMMA HeldByConsume ==
  ASSUME QueueShape, SlotsHeldBy, NEW s \in Steps, NEW e \in fleet, ConsumeStep(s, e)
  PROVE  SlotsHeldBy'
<1>1. /\ policy.concurrency \in Nat /\ tracks \in [Engines -> SUBSET Steps] /\ count \in [Engines -> Nat]
      /\ slots \in SUBSET Steps /\ e \in Engines /\ shared \in BOOLEAN
      /\ owner \in [Steps -> Engines \cup {"nobody"}] /\ phase \in [Steps -> Phases]
  BY StepQueueAssumption DEF QueueShape, QueueTypeOK
<1>2. UNCHANGED <<policy, shared>> /\ Release(s, e)
  BY DEF ConsumeStep, setting
<1>3. ASSUME NEW t \in InFlight' \ evicted' PROVE t \in InFlight \ evicted /\ t # s /\ t \in Steps
  <2>1. t \in InFlight /\ t # s /\ t \in Steps
    BY <1>1, <1>3 DEF ConsumeStep, InFlight
  <2>2. UNCHANGED evicted \/ evicted' = evicted \ {s}
    BY <1>2 DEF Release, filing
  <2> QED
    BY <1>3, <2>1, <2>2
<1>4. CASE s \notin tracks[e]
  <2>1. UNCHANGED <<tracks, count, slots, owner>>
    BY <1>2, <1>4 DEF Release
  <2> QED
    BY <1>2, <1>3, <2>1 DEF SlotsHeldBy
<1>5. CASE s \in tracks[e]
  <2>1. tracks' = [tracks EXCEPT ![e] = tracks[e] \ {s}] /\ owner' = [owner EXCEPT ![s] = "nobody"]
    BY <1>1, <1>2, <1>5 DEF Release
  <2>2. CASE shared
    <3>1. slots' = slots \ {s} /\ UNCHANGED count
      BY <1>2, <1>5, <2>2 DEF Release
    <3>2. Cardinality(slots') <= Cardinality(slots) /\ Cardinality(slots) \in Nat /\ Cardinality(slots') \in Nat
      BY <1>1, <3>1, FewerCalls
    <3>3. ASSUME NEW t \in InFlight' \ evicted', owner'[t] # "nobody" PROVE t \in slots'
      BY <1>1, <1>3, <2>1, <2>2, <3>1, <3>3 DEF SlotsHeldBy
    <3>4. policy.concurrency > 0 => Cardinality(slots') <= policy.concurrency
      BY <1>1, <3>2 DEF SlotsHeldBy
    <3> QED
      BY <1>2, <2>2, <3>1, <3>3, <3>4 DEF SlotsHeldBy
  <2>3. CASE ~shared
    <3>1. Cardinality(tracks[e] \ {s}) = Cardinality(tracks[e]) - 1 /\ Cardinality(tracks[e]) \in Nat
          /\ Cardinality(tracks[e] \ {s}) \in Nat
      <4>1. tracks[e] \in SUBSET Steps /\ tracks[e] \ {s} \in SUBSET Steps
        BY <1>1
      <4> QED
        BY <1>5, <4>1, OneCallLess, FiniteCalls
    <3>2. Cardinality(tracks[e]) <= count[e] /\ count[e] \in Nat /\ count[e] # 0
      BY <1>1, <2>3, <3>1 DEF SlotsHeldBy
    <3>3. count' = [count EXCEPT ![e] = count[e] - 1] /\ UNCHANGED slots
      BY <1>1, <1>2, <1>5, <2>3, <3>2 DEF Release
    <3>4. policy.concurrency > 0 => \A d \in Engines : count'[d] <= policy.concurrency
      BY <1>1, <3>2, <3>3 DEF SlotsHeldBy
    <3>5. ASSUME NEW d \in Engines PROVE Cardinality(tracks'[d]) <= count'[d]
      <4>1. CASE d = e
        <5>1. tracks'[e] = tracks[e] \ {s} /\ count'[e] = count[e] - 1
          BY <1>1, <2>1, <3>3
        <5> QED
          BY <4>1, <5>1, <3>1, <3>2
      <4>2. CASE d # e
        BY <1>1, <2>1, <2>3, <3>3, <4>2 DEF SlotsHeldBy
      <4> QED
        BY <4>1, <4>2
    <3>6. ASSUME NEW t \in InFlight' \ evicted', owner'[t] # "nobody" PROVE t \in tracks'[owner'[t]]
      <4>1. t \in InFlight \ evicted /\ t # s /\ owner'[t] = owner[t] /\ t \in Steps
        BY <1>1, <1>3, <2>1
      <4>2. owner[t] \in Engines /\ t \in tracks[owner[t]]
        BY <1>1, <2>3, <3>6, <4>1 DEF SlotsHeldBy
      <4> QED
        BY <1>1, <2>1, <4>1, <4>2
    <3> QED
      BY <1>2, <2>3, <3>3, <3>4, <3>5, <3>6 DEF SlotsHeldBy
  <2> QED
    BY <1>1, <2>2, <2>3
<1> QED
  BY <1>4, <1>5

\* The death of a process takes its count, its memory and its claim to slots at once.
LEMMA HeldByCrash ==
  ASSUME QueueShape, SlotsHeldBy, NEW e \in fleet, CrashEngine(e)
  PROVE  SlotsHeldBy'
<1>1. /\ policy.concurrency \in Nat /\ tracks \in [Engines -> SUBSET Steps] /\ count \in [Engines -> Nat]
      /\ e \in Engines /\ (stable => shared) /\ owner \in [Steps -> Engines \cup {"nobody"}] /\ phase \in [Steps -> Phases]
  BY StepQueueAssumption DEF QueueShape, QueueTypeOK
<1>2. /\ UNCHANGED <<policy, shared, slots, evicted>> /\ tracks' = [tracks EXCEPT ![e] = {}]
      /\ owner' = [s \in Steps |-> IF owner[s] = e /\ ~stable THEN "nobody" ELSE owner[s]]
      /\ IF shared THEN UNCHANGED count ELSE count' = [count EXCEPT ![e] = 0]
      /\ phase' = [s \in Steps |-> IF phase[s] = "admitted" /\ owner[s] = e THEN "calling" ELSE phase[s]]
  BY DEF CrashEngine, setting, filing
<1>3. \A t \in InFlight' \ evicted' : t \in InFlight \ evicted /\ t \in Steps
  BY <1>1, <1>2 DEF InFlight
<1>4. ASSUME NEW t \in InFlight' \ evicted', owner'[t] # "nobody"
      PROVE  t \in InFlight \ evicted /\ owner'[t] = owner[t] /\ (stable \/ owner[t] # e) /\ owner[t] \in Engines
  BY <1>1, <1>2, <1>3, <1>4
<1>5. policy.concurrency > 0 => \A d \in Engines : count'[d] <= policy.concurrency
  BY <1>1, <1>2 DEF SlotsHeldBy
<1>6. CASE shared
  BY <1>2, <1>4, <1>5, <1>6 DEF SlotsHeldBy
<1>7. CASE ~shared
  <2>1. ASSUME NEW d \in Engines PROVE Cardinality(tracks'[d]) <= count'[d]
    <3>1. CASE d = e
      <4>1. tracks'[e] = {} /\ count'[e] = 0
        BY <1>1, <1>2, <1>7
      <4> QED
        BY <3>1, <4>1, FS_EmptySet
    <3>2. CASE d # e
      BY <1>1, <1>2, <1>7, <3>2 DEF SlotsHeldBy
    <3> QED
      BY <3>1, <3>2
  <2>2. ASSUME NEW t \in InFlight' \ evicted', owner'[t] # "nobody" PROVE t \in tracks'[owner'[t]]
    <3>1. t \in tracks[owner[t]]
      BY <1>4, <1>7, <2>2 DEF SlotsHeldBy
    <3> QED
      BY <1>1, <1>2, <1>4, <1>7, <2>2, <3>1
  <2> QED
    BY <1>2, <1>5, <1>7, <2>1, <2>2 DEF SlotsHeldBy
<1> QED
  BY <1>6, <1>7

LEMMA HeldStep ==
  ASSUME QueueShape, SlotsHeldBy, [QueueNext]_queueVars
  PROVE  SlotsHeldBy'
<1>1. /\ policy.concurrency \in Nat /\ slots \in SUBSET Steps /\ fleet \subseteq Engines
      /\ owner \in [Steps -> Engines \cup {"nobody"}] /\ phase \in [Steps -> Phases]
  BY StepQueueAssumption DEF QueueShape, QueueTypeOK
<1>2. ASSUME UNCHANGED <<policy, shared, count, slots, owner, evicted, tracks>>, InFlight' \subseteq InFlight
      PROVE  SlotsHeldBy'
  BY <1>2 DEF SlotsHeldBy
<1>3. CASE UNCHANGED queueVars
  <2>1. InFlight' \subseteq InFlight
    BY <1>3 DEF queueVars, InFlight
  <2> QED
    BY <1>2, <1>3, <2>1 DEF queueVars, setting, books, filing
<1>4. ASSUME NEW s \in Steps, NEW e \in fleet, Block(s, e) PROVE SlotsHeldBy'
  <2>1. InFlight' \subseteq InFlight
    BY <1>1, <1>4 DEF Block, InFlight
  <2>2. /\ UNCHANGED <<policy, shared, count, owner, tracks>> /\ slots' = Valid(e) /\ evicted' = EvictedBy(e)
        /\ Valid(e) \in SUBSET slots /\ evicted \subseteq EvictedBy(e)
        /\ \A t \in slots : t \in Valid(e) \/ owner[t] = "nobody" \/ t \in EvictedBy(e)
    BY <1>1, <1>4, Reclaimed DEF Block, setting, QueueShape
  <2>3. Cardinality(slots') <= Cardinality(slots) /\ Cardinality(slots) \in Nat /\ Cardinality(slots') \in Nat
    BY <1>1, <2>2, FewerCalls
  <2>4. policy.concurrency > 0 => Cardinality(slots') <= policy.concurrency
    BY <1>1, <2>3 DEF SlotsHeldBy
  <2>5. ASSUME NEW t \in InFlight' \ evicted', owner[t] # "nobody"
        PROVE  t \in (IF shared THEN slots' ELSE tracks[owner[t]])
    <3>1. t \in InFlight \ evicted /\ t \notin EvictedBy(e)
      BY <2>1, <2>2
    <3> QED
      BY <2>2, <2>5, <3>1 DEF SlotsHeldBy
  <2> QED
    BY <2>2, <2>4, <2>5 DEF SlotsHeldBy
<1>5. ASSUME NEW s \in Steps, SendStep(s) \/ CancelStep(s) \/ StoreFails(s) PROVE SlotsHeldBy'
  <2>1. InFlight' \subseteq InFlight
    BY <1>1, <1>5 DEF SendStep, CancelStep, StoreFails, InFlight
  <2> QED
    BY <1>2, <1>5, <2>1 DEF SendStep, CancelStep, StoreFails, setting, books, filing
<1>6. ASSUME \/ \E s \in Steps : KeyEnds(s)
             \/ \E e \in fleet : LapseKey(e) \/ Heartbeat(e)
      PROVE  SlotsHeldBy'
  <2>1. UNCHANGED <<policy, shared, phase, count, slots, owner, evicted, tracks>>
    BY <1>6 DEF KeyEnds, LapseKey, KeyLapses, Heartbeat, setting
  <2> QED
    BY <1>2, <2>1 DEF InFlight
<1>7. ASSUME NEW s \in Steps, Unregister(s) PROVE SlotsHeldBy'
  <2>1. InFlight' \subseteq InFlight
    BY <1>7 DEF Unregister, InFlight
  <2> QED
    BY <1>2, <1>7, <2>1 DEF Unregister, setting, filing
<1>8. ASSUME NEW h \in Homes, WindowTurns(h) PROVE SlotsHeldBy'
  <2>1. InFlight' \subseteq InFlight
    BY <1>8 DEF WindowTurns, InFlight
  <2> QED
    BY <1>2, <1>8, <2>1 DEF WindowTurns, setting, filing
<1> QED
  BY <1>3, <1>4, <1>5, <1>6, <1>7, <1>8, HeldByAdmit, HeldByConsume, HeldByCrash DEF QueueNext, Forget, Expire

\* The queue's state is well formed.
THEOREM QueueTyped == QueueSpec => []QueueTypeOK
<1>1. QueueShape => QueueTypeOK
  BY DEF QueueShape
<1> QED
  BY QueueShapeInit, QueueShapeStep, <1>1, PTL DEF QueueSpec

\* No more steps are in flight than the queue allows, of those whose dispatcher lives and
\* whose slot was not reclaimed for a lapsed liveness key (the acquire script).
THEOREM QueueCapHolds == QueueSpec => []CapKept
<1>1. QueueInit => QueueShape /\ SlotsHeldBy
  BY QueueShapeInit, HeldInit
<1>2. QueueShape /\ SlotsHeldBy /\ [QueueNext]_queueVars => (QueueShape /\ SlotsHeldBy)'
  BY QueueShapeStep, HeldStep
<1>3. QueueShape /\ SlotsHeldBy => CapKept
  BY HeldIsCapped
<1> QED
  BY <1>1, <1>2, <1>3, PTL DEF QueueSpec

-----------------------------------------------------------------------------
(* Slots that are given back.                                              *)

\* What may not have happened: a turn that could not store its step, or a process that
\* was taken for the one before it.
Traceable == "store" \notin Suffered /\ (stable => "crash" \notin Suffered)

\* Where one engine consumes every result and the store answers, and it does not come back
\* from the dead under its old admission id, no slot leaks: its own
\* accounting counts no more of them than calls are in flight, and a slot filed in the
\* shared one is that of a call in flight or of a process that died (releaseQueueSlot).
NoSlotLeaks ==
  Traceable =>
    \A e \in fleet : fleet = {e} =>
      IF shared THEN {s \in slots : owner[s] # "nobody"} \subseteq InFlight
                ELSE count[e] <= Cardinality(InFlight)

\* The engine remembers the calls it counts, or has filed, and these are in flight.
SlotsKnown ==
  Traceable =>
    \A e \in fleet : fleet = {e} =>
      /\ tracks[e] \subseteq InFlight
      /\ ~shared => count[e] = Cardinality(tracks[e])
      /\ \A s \in Steps : owner[s] \in {e, "nobody"}
      /\ shared => \A s \in slots : owner[s] # "nobody" => s \in tracks[e]

LEMMA KnownInit == QueueInit => SlotsKnown
<1> SUFFICES ASSUME QueueInit PROVE SlotsKnown
  OBVIOUS
<1>1. \A e \in fleet : tracks[e] = {} /\ count[e] = 0 /\ slots = {}
  BY DEF QueueInit
<1>2. \A s \in Steps : owner[s] = "nobody"
  BY DEF QueueInit
<1> QED
  BY <1>1, <1>2, FS_EmptySet DEF SlotsKnown

LEMMA KnownByAdmit ==
  ASSUME QueueShape, SlotsKnown, NEW s \in Steps, NEW e \in fleet, AdmitStep(s, e)
  PROVE  SlotsKnown'
<1> SUFFICES ASSUME Traceable, fleet = {e}
             PROVE  /\ tracks'[e] \subseteq InFlight'
                    /\ ~shared => count'[e] = Cardinality(tracks'[e])
                    /\ \A t \in Steps : owner'[t] \in {e, "nobody"}
                    /\ shared => \A t \in slots' : owner'[t] # "nobody" => t \in tracks'[e]
  BY DEF SlotsKnown, AdmitStep, setting, Suffered, Traceable
<1>1. /\ tracks \in [Engines -> SUBSET Steps] /\ count \in [Engines -> Nat] /\ slots \in SUBSET Steps
      /\ e \in Engines /\ shared \in BOOLEAN
      /\ owner \in [Steps -> Engines \cup {"nobody"}] /\ phase \in [Steps -> Phases]
  BY StepQueueAssumption DEF QueueShape, QueueTypeOK
<1>2. /\ Asking(s) /\ tracks'[e] = tracks[e] \cup {s}
      /\ owner' = [owner EXCEPT ![s] = e] /\ phase' = [phase EXCEPT ![s] = "admitted"]
  BY <1>1 DEF AdmitStep, Take
<1>3. tracks[e] \subseteq InFlight /\ s \notin tracks[e]
  BY <1>2 DEF SlotsKnown, InFlight, Asking
<1>4. tracks'[e] \subseteq InFlight'
  <2>1. ASSUME NEW t \in tracks[e] PROVE t \in InFlight'
    BY <1>1, <1>2, <1>3, <2>1 DEF InFlight
  <2>2. s \in InFlight'
    BY <1>1, <1>2 DEF InFlight
  <2> QED
    BY <1>2, <2>1, <2>2
<1>own. \A t \in Steps : owner'[t] \in {e, "nobody"}
  BY <1>1, <1>2 DEF SlotsKnown
<1>5. CASE shared
  <2>1. slots' \subseteq slots \cup {s} /\ \A t \in slots : owner[t] # "nobody" => t \in tracks[e]
    BY <1>1, <1>5, Reclaimed DEF AdmitStep, Take, SlotsKnown, QueueShape
  <2> QED
    BY <1>1, <1>2, <1>4, <1>5, <1>own, <2>1
<1>6. CASE ~shared
  <2>1. count'[e] = count[e] + 1 /\ count[e] = Cardinality(tracks[e])
    BY <1>1, <1>6 DEF AdmitStep, Take, SlotsKnown
  <2>2. Cardinality(tracks[e] \cup {s}) = Cardinality(tracks[e]) + 1
    BY <1>1, <1>3, FiniteCalls, FS_AddElement
  <2> QED
    BY <1>2, <1>4, <1>6, <1>own, <2>1, <2>2
<1> QED
  BY <1>1, <1>5, <1>6

LEMMA KnownByConsume ==
  ASSUME QueueShape, SlotsKnown, NEW s \in Steps, NEW e \in fleet, ConsumeStep(s, e)
  PROVE  SlotsKnown'
<1> SUFFICES ASSUME Traceable, fleet = {e}
             PROVE  /\ tracks'[e] \subseteq InFlight'
                    /\ ~shared => count'[e] = Cardinality(tracks'[e])
                    /\ \A t \in Steps : owner'[t] \in {e, "nobody"}
                    /\ shared => \A t \in slots' : owner'[t] # "nobody" => t \in tracks'[e]
  BY DEF SlotsKnown, ConsumeStep, setting, Suffered, Traceable
<1>1. /\ tracks \in [Engines -> SUBSET Steps] /\ count \in [Engines -> Nat] /\ slots \in SUBSET Steps
      /\ e \in Engines /\ shared \in BOOLEAN
      /\ owner \in [Steps -> Engines \cup {"nobody"}] /\ phase \in [Steps -> Phases]
  BY StepQueueAssumption DEF QueueShape, QueueTypeOK
<1>2. /\ Release(s, e) /\ tracks[e] \subseteq InFlight
      /\ ~shared => count[e] = Cardinality(tracks[e])
      /\ shared => \A t \in slots : owner[t] # "nobody" => t \in tracks[e]
  BY DEF ConsumeStep, SlotsKnown
<1>3. ASSUME NEW t \in InFlight, t # s PROVE t \in InFlight'
  <2>1. \E p \in Phases : phase' = [phase EXCEPT ![s] = p]
    BY DEF ConsumeStep, Phases
  <2> QED
    BY <1>1, <1>3, <2>1 DEF InFlight
<1>own. \A t \in Steps : owner'[t] \in {e, "nobody"}
  <2>1. \A t \in Steps : owner[t] \in {e, "nobody"}
    BY DEF SlotsKnown
  <2> QED
    BY <1>1, <1>2, <2>1 DEF Release
<1>4. CASE s \notin tracks[e]
  <2>1. UNCHANGED <<tracks, count, slots, owner>>
    BY <1>2, <1>4 DEF Release
  <2> QED
    BY <1>2, <1>3, <1>4, <1>own, <2>1
<1>5. CASE s \in tracks[e]
  <2>1. tracks'[e] = tracks[e] \ {s} /\ owner' = [owner EXCEPT ![s] = "nobody"]
    BY <1>1, <1>2, <1>5 DEF Release
  <2>2. tracks'[e] \subseteq InFlight'
    BY <1>2, <1>3, <2>1
  <2>3. CASE shared
    <3>1. slots' = slots \ {s}
      BY <1>2, <1>5, <2>3 DEF Release
    <3> QED
      BY <1>1, <1>2, <1>own, <2>1, <2>2, <2>3, <3>1
  <2>4. CASE ~shared
    <3>1. Cardinality(tracks[e] \ {s}) = Cardinality(tracks[e]) - 1 /\ Cardinality(tracks[e]) \in Nat
          /\ Cardinality(tracks[e] \ {s}) \in Nat
      <4>1. tracks[e] \in SUBSET Steps /\ tracks[e] \ {s} \in SUBSET Steps
        BY <1>1
      <4> QED
        BY <1>5, <4>1, OneCallLess, FiniteCalls
    <3>2. count[e] = Cardinality(tracks[e]) /\ count[e] # 0
      BY <1>2, <2>4, <3>1
    <3>3. count'[e] = count[e] - 1
      BY <1>1, <1>2, <1>5, <2>4, <3>2 DEF Release
    <3> QED
      BY <1>own, <2>1, <2>2, <2>4, <3>1, <3>2, <3>3
  <2> QED
    BY <1>1, <2>3, <2>4
<1> QED
  BY <1>4, <1>5

\* The calls a dead process had sent are in flight still, and no longer remembered.
LEMMA KnownByCrash ==
  ASSUME QueueShape, SlotsKnown, NEW e \in fleet, CrashEngine(e)
  PROVE  SlotsKnown'
<1>1. /\ tracks \in [Engines -> SUBSET Steps] /\ count \in [Engines -> Nat] /\ slots \in SUBSET Steps
      /\ e \in Engines /\ owner \in [Steps -> Engines \cup {"nobody"}]
  BY StepQueueAssumption DEF QueueShape, QueueTypeOK
<1>2. Traceable' => Traceable /\ ~stable
  <2>1. UNCHANGED stable /\ <<"crash", Cardinality(hurt) + 1>> \in hurt' /\ hurt \subseteq hurt'
    BY DEF CrashEngine, Hurt, setting
  <2> QED
    BY <2>1 DEF Traceable, Suffered
<1>3. tracks'[e] = {} /\ (~shared => count'[e] = 0) /\ UNCHANGED <<fleet, shared, slots>>
      /\ owner' = [s \in Steps |-> IF owner[s] = e /\ ~stable THEN "nobody" ELSE owner[s]]
  BY <1>1 DEF CrashEngine, setting
<1>4. ASSUME Traceable, ~stable, fleet = {e}, NEW t \in Steps PROVE owner'[t] = "nobody"
  <2>1. owner[t] \in {e, "nobody"}
    BY <1>4 DEF SlotsKnown
  <2> QED
    BY <1>3, <1>4, <2>1
<1>5. SUFFICES ASSUME Traceable, ~stable, fleet = {e}
               PROVE  /\ tracks'[e] \subseteq InFlight' /\ (~shared => count'[e] = Cardinality(tracks'[e]))
                      /\ \A t \in Steps : owner'[t] \in {e, "nobody"}
                      /\ shared => \A t \in slots' : owner'[t] # "nobody" => t \in tracks'[e]
  BY <1>2, <1>3 DEF SlotsKnown
<1> QED
  BY <1>1, <1>3, <1>4, <1>5, FS_EmptySet

LEMMA KnownStep ==
  ASSUME QueueShape, SlotsKnown, [QueueNext]_queueVars
  PROVE  SlotsKnown'
<1>1. /\ slots \in SUBSET Steps /\ fleet \subseteq Engines /\ hurt \in SUBSET (Faults \X (1..MaxQueueFaults))
      /\ phase \in [Steps -> Phases]
  BY DEF QueueShape, QueueTypeOK
<1>2. ASSUME UNCHANGED <<fleet, shared, stable, count, owner, tracks>>, slots' \subseteq slots, hurt \subseteq hurt',
             \A s \in InFlight : s \in InFlight'
      PROVE  SlotsKnown'
  <2>1. Traceable' => Traceable
    BY <1>2 DEF Suffered, Traceable
  <2> QED
    BY <1>2, <2>1 DEF SlotsKnown
<1>3. CASE UNCHANGED queueVars
  BY <1>2, <1>3 DEF queueVars, setting, books, InFlight
<1>4. ASSUME NEW s \in Steps, NEW e \in fleet, Block(s, e) PROVE SlotsKnown'
  <2>1. \A t \in InFlight : t \in InFlight'
    BY <1>1, <1>4 DEF Block, Asking, InFlight
  <2> QED
    BY <1>1, <1>2, <1>4, <2>1, Reclaimed DEF Block, setting, QueueShape
<1>5. ASSUME NEW s \in Steps, SendStep(s) \/ CancelStep(s) PROVE SlotsKnown'
  <2>1. \A t \in InFlight : t \in InFlight'
    BY <1>1, <1>5 DEF SendStep, CancelStep, InFlight
  <2> QED
    BY <1>2, <1>5, <2>1 DEF SendStep, CancelStep, Hurt, setting, books
<1>6. ASSUME NEW s \in Steps, StoreFails(s) PROVE SlotsKnown'
  <2>1. "store" \in Suffered'
    <3>1. <<"store", Cardinality(hurt) + 1>> \in hurt'
      BY <1>6 DEF StoreFails, Hurt
    <3> QED
      BY <3>1 DEF Suffered
  <2> QED
    BY <2>1 DEF SlotsKnown, Traceable
<1>7. ASSUME \/ \E s \in Steps : KeyEnds(s)
             \/ \E e \in fleet : LapseKey(e) \/ Heartbeat(e)
      PROVE  SlotsKnown'
  BY <1>2, <1>7 DEF KeyEnds, LapseKey, KeyLapses, Heartbeat, Hurt, setting, InFlight
<1>8. ASSUME NEW s \in Steps, Forget(s) \/ Expire(s) PROVE SlotsKnown'
  BY <1>2, <1>8 DEF Forget, Expire, Hurt, Unregister, setting, InFlight
<1>9. ASSUME NEW h \in Homes, WindowTurns(h) PROVE SlotsKnown'
  BY <1>2, <1>9 DEF WindowTurns, setting, InFlight
<1> QED
  BY <1>3, <1>4, <1>5, <1>6, <1>7, <1>8, <1>9, KnownByAdmit, KnownByConsume, KnownByCrash DEF QueueNext

\* On one engine whose store answers, whatever it suffers else, the queue does not shrink
\* for good: the leaks are those of a slot taken by one engine and a result that lands on
\* another, of a slot taken by a turn that could not store its step, and of the slots of a
\* process that came back under its old id.
THEOREM OneEngineLeaksNoSlot == QueueSpec => []NoSlotLeaks
<1>1. QueueInit => QueueShape /\ SlotsKnown
  BY QueueShapeInit, KnownInit
<1>2. QueueShape /\ SlotsKnown /\ [QueueNext]_queueVars => (QueueShape /\ SlotsKnown)'
  BY QueueShapeStep, KnownStep
<1>3. QueueShape /\ SlotsKnown => NoSlotLeaks
  <2> SUFFICES ASSUME QueueShape, SlotsKnown, Traceable, NEW e \in fleet, fleet = {e}
               PROVE  IF shared THEN {s \in slots : owner[s] # "nobody"} \subseteq InFlight
                                ELSE count[e] <= Cardinality(InFlight)
    BY DEF NoSlotLeaks
  <2>1. tracks[e] \subseteq InFlight /\ InFlight \in SUBSET Steps
    BY DEF SlotsKnown, InFlight
  <2>2. CASE shared
    BY <2>1, <2>2 DEF SlotsKnown
  <2>3. CASE ~shared
    BY <2>1, <2>3, FewerCalls DEF SlotsKnown
  <2> QED
    BY <2>2, <2>3
<1> QED
  BY <1>1, <1>2, <1>3, PTL DEF QueueSpec

-----------------------------------------------------------------------------
(* The order of the keys.                                                  *)

\* What has passed a waiter by was served after the waiter's own key; nothing has passed
\* one that does not wait, or a queue without key fairness.
PassedAreLater ==
  \A h \in Homes, w \in Steps :
    /\ ~policy.fair \/ ~Contains(waiters[h], w) => passed[h][w] = {}
    /\ \A k \in passed[h][w] : ServedAt(h, KeyOf[w]) < ServedAt(h, k)

LEMMA ServedPlace ==
  ASSUME NEW h, NEW k
  PROVE  ServedAt(h, k) = Place(served[h], k)
BY DEF ServedAt, Place

LEMMA PassedInit == QueueInit => PassedAreLater
<1> SUFFICES ASSUME QueueInit PROVE PassedAreLater
  OBVIOUS
<1>1. \A h \in Homes, w \in Steps : passed[h][w] = {}
  BY DEF QueueInit
<1> QED
  BY <1>1 DEF PassedAreLater

\* The key served moves to the end, and is added to what has passed the other waiters.
LEMMA PassedByAdmit ==
  ASSUME QueueShape, PassedAreLater, NEW s \in Steps, NEW e \in fleet, AdmitStep(s, e)
  PROVE  PassedAreLater'
<1> DEFINE h == Home(e)  c == KeyOf[s]
<1>1. /\ h \in Homes /\ waiters \in [Homes -> Seq(Steps)] /\ IsInjective(waiters[h])
      /\ served \in [Homes -> Seq(Keys)] /\ IsInjective(served[h]) /\ passed \in [Homes -> [Steps -> SUBSET Keys]]
  BY HomeTyped DEF QueueShape, QueueTypeOK
<1>2. UNCHANGED policy /\ Serve(h, s) /\ Pass(h, s) /\ waiters' = [waiters EXCEPT ![h] = RemoveFirst(waiters[h], s)]
  BY <1>1 DEF AdmitStep, setting
<1>3. c \in Keys /\ \A w \in Steps : KeyOf[w] \in Keys
  BY DEF Keys
<1>4. passed' = [passed EXCEPT ![h] = [w \in Steps |->
        IF ~policy.fair \/ KeyOf[w] = c \/ ~Contains(waiters[h], w) THEN {} ELSE passed[h][w] \cup {c}]]
  BY <1>1, <1>2 DEF Pass
<1>5. waiters[h] \in Seq(Steps) /\ served[h] \in Seq(Keys)
  BY <1>1
<1> HIDE DEF h
<1> SUFFICES ASSUME NEW d \in Homes, NEW w \in Steps
    PROVE  /\ ~policy.fair \/ ~Contains(waiters'[d], w) => passed'[d][w] = {}
           /\ \A k \in passed'[d][w] : Place(served'[d], KeyOf[w]) < Place(served'[d], k)
  BY <1>2, ServedPlace DEF PassedAreLater, ServedAt, Place
<1>6. CASE d # h
  <2>1. waiters'[d] = waiters[d] /\ passed'[d] = passed[d]
    BY <1>1, <1>2, <1>4, <1>6
  <2>2. served'[d] = served[d]
    BY <1>1, <1>2, <1>6 DEF Serve
  <2> QED
    BY <2>1, <2>2, ServedPlace DEF PassedAreLater
<1>7. CASE d = h
  <2>1. passed'[h][w] = IF ~policy.fair \/ KeyOf[w] = c \/ ~Contains(waiters[h], w) THEN {} ELSE passed[h][w] \cup {c}
    BY <1>1, <1>4
  <2>2. CASE ~policy.fair \/ KeyOf[w] = c \/ ~Contains(waiters[h], w)
    BY <1>7, <2>1, <2>2
  <2>3. CASE policy.fair /\ KeyOf[w] # c /\ Contains(waiters[h], w)
    <3>1. Contains(waiters'[h], w)
      <4>1. waiters'[h] = RemoveFirst(waiters[h], s) /\ w # s
        BY <1>1, <1>2, <2>3
      <4> QED
        BY <1>1, <1>5, <2>3, <4>1, Without
    <3>2. served'[h] = Append(RemoveFirst(served[h], c), c)
      BY <1>1, <1>2, <2>3 DEF Serve
    <3>3. /\ \A y \in Keys \ {c} : Place(served'[h], y) < Place(served'[h], c)
          /\ \A y \in Keys \ {c}, z \in Keys \ {c} :
               Place(served[h], y) < Place(served[h], z) => Place(served'[h], y) < Place(served'[h], z)
      <4>1. IsInjective(served[h]) /\ served[h] \in Seq(Keys) /\ c \in Keys
        BY <1>1, <1>3, <1>5
      <4> HIDE DEF c
      <4> QED
        BY <4>1, <3>2, MovedLast
    <3>4. ASSUME NEW k \in passed[h][w] PROVE k \in Keys /\ Place(served[h], KeyOf[w]) < Place(served[h], k)
      BY <1>1, ServedPlace DEF PassedAreLater
    <3>5. KeyOf[w] \in Keys \ {c}
      BY <1>3, <2>3
    <3>6. ASSUME NEW k \in passed[h][w] \cup {c} PROVE Place(served'[h], KeyOf[w]) < Place(served'[h], k)
      <4>1. CASE k = c
        BY <3>3, <3>5, <4>1
      <4>2. CASE k # c
        BY <3>3, <3>4, <3>5, <4>2
      <4> QED
        BY <4>1, <4>2
    <3> QED
      BY <1>7, <2>1, <2>3, <3>1, <3>6
  <2> QED
    BY <2>2, <2>3
<1> QED
  BY <1>6, <1>7

LEMMA PassedStep ==
  ASSUME QueueShape, PassedAreLater, [QueueNext]_queueVars
  PROVE  PassedAreLater'
<1>1. /\ waiters \in [Homes -> Seq(Steps)] /\ (\A h \in Homes : IsInjective(waiters[h]))
      /\ served \in [Homes -> Seq(Keys)] /\ passed \in [Homes -> [Steps -> SUBSET Keys]] /\ fleet \subseteq Engines
  BY DEF QueueShape, QueueTypeOK
<1>2. ASSUME UNCHANGED <<policy, waiters, served, passed>> PROVE PassedAreLater'
  BY <1>2 DEF PassedAreLater, ServedAt
<1>3. CASE UNCHANGED queueVars
  BY <1>2, <1>3 DEF queueVars, setting, books
<1>4. ASSUME NEW s \in Steps, NEW e \in fleet, Block(s, e) PROVE PassedAreLater'
  <2>1. Home(e) \in Homes /\ UNCHANGED <<policy, served, passed>>
    BY <1>1, <1>4, HomeTyped DEF Block, setting
  <2>2. ASSUME NEW h \in Homes, NEW w \in Steps, Contains(waiters[h], w) PROVE Contains(waiters'[h], w)
    <3>1. waiters'[h] = waiters[h] \/ waiters'[h] = Registered(h, s)
      BY <1>1, <1>4, <2>1 DEF Block
    <3> QED
      BY <2>2, <3>1, RegisteredWaits DEF QueueShape
  <2> QED
    BY <2>1, <2>2 DEF PassedAreLater, ServedAt
<1>5. ASSUME NEW s \in Steps, NEW e \in fleet, ConsumeStep(s, e) PROVE PassedAreLater'
  BY <1>2, <1>5 DEF ConsumeStep, setting
<1>6. ASSUME NEW s \in Steps, SendStep(s) \/ CancelStep(s) \/ StoreFails(s) \/ KeyEnds(s) PROVE PassedAreLater'
  BY <1>2, <1>6 DEF SendStep, CancelStep, StoreFails, KeyEnds, KeyLapses, setting, books
<1>keys. ASSUME NEW e \in fleet, LapseKey(e) \/ Heartbeat(e) PROVE PassedAreLater'
  BY <1>2, <1>keys DEF LapseKey, KeyLapses, Heartbeat, setting
<1>7. ASSUME NEW h \in Homes, WindowTurns(h) PROVE PassedAreLater'
  BY <1>2, <1>7 DEF WindowTurns, setting
<1>8. ASSUME NEW s \in Steps, Unregister(s) PROVE PassedAreLater'
  <2>1. /\ UNCHANGED <<policy, served>> /\ waiters' = [waiters EXCEPT !["fleet"] = RemoveFirst(waiters["fleet"], s)]
        /\ passed' = [passed EXCEPT !["fleet"][s] = {}] /\ "fleet" \in Homes
    BY <1>1, <1>8 DEF Unregister, setting, Homes
  <2>2. ASSUME NEW h \in Homes, NEW w \in Steps
        PROVE  passed'[h][w] = {} \/ (passed'[h][w] = passed[h][w] /\ (Contains(waiters[h], w) => Contains(waiters'[h], w)))
    <3>1. CASE h = "fleet" /\ w = s
      BY <1>1, <2>1, <3>1
    <3>2. CASE h = "fleet" /\ w # s
      <4>1. passed'[h][w] = passed[h][w] /\ waiters'[h] = RemoveFirst(waiters[h], s)
        BY <1>1, <2>1, <3>2
      <4> QED
        BY <1>1, <3>2, <4>1, Without
    <3>3. CASE h # "fleet"
      BY <1>1, <2>1, <3>3
    <3> QED
      BY <3>1, <3>2, <3>3
  <2>3. ASSUME NEW h \in Homes, NEW w \in Steps
        PROVE  /\ ~policy.fair \/ ~Contains(waiters'[h], w) => passed'[h][w] = {}
               /\ \A k \in passed'[h][w] : Place(served[h], KeyOf[w]) < Place(served[h], k)
    BY <2>2, ServedPlace DEF PassedAreLater
  <2>4. \A h \in Homes, k \in Keys : ServedAt(h, k)' = Place(served[h], k)
    BY <2>1 DEF ServedAt, Place
  <2>5. ASSUME NEW h \in Homes, NEW w \in Steps
        PROVE  \A k \in passed'[h][w] : ServedAt(h, KeyOf[w])' < ServedAt(h, k)'
    <3>1. KeyOf[w] \in Keys /\ \A k \in passed'[h][w] : k \in Keys
      BY <1>1, <2>2 DEF Keys
    <3> QED
      BY <2>3, <2>4, <3>1
  <2> QED
    BY <2>1, <2>3, <2>5 DEF PassedAreLater
<1>9. ASSUME NEW e \in fleet, CrashEngine(e) PROVE PassedAreLater'
  <2>1. UNCHANGED policy /\ e \in Homes
    BY <1>1, <1>9 DEF CrashEngine, setting, Homes
  <2>2. CASE shared
    BY <1>2, <1>9, <2>1, <2>2 DEF CrashEngine
  <2>3. CASE ~shared
    <3>1. /\ waiters' = [waiters EXCEPT ![e] = <<>>] /\ served' = [served EXCEPT ![e] = <<>>]
          /\ passed' = [passed EXCEPT ![e] = [s \in Steps |-> {}]]
      BY <1>9, <2>3 DEF CrashEngine
    <3>2. ASSUME NEW h \in Homes, NEW w \in Steps
          PROVE  /\ ~policy.fair \/ ~Contains(waiters'[h], w) => passed'[h][w] = {}
                 /\ \A k \in passed'[h][w] : Place(served'[h], KeyOf[w]) < Place(served'[h], k)
      <4>1. CASE h = e
        BY <1>1, <2>1, <3>1, <4>1
      <4>2. CASE h # e
        <5>1. waiters'[h] = waiters[h] /\ served'[h] = served[h] /\ passed'[h] = passed[h]
          BY <1>1, <3>1, <4>2
        <5> QED
          BY <5>1, ServedPlace DEF PassedAreLater
      <4> QED
        BY <4>1, <4>2
    <3> QED
      BY <2>1, <3>2 DEF PassedAreLater, ServedAt, Place
  <2> QED
    BY <2>2, <2>3
<1> QED
  BY <1>3, <1>4, <1>5, <1>6, <1>7, <1>8, <1>9, <1>keys, PassedByAdmit DEF QueueNext, Forget, Expire

\* A waiter that the admitted key has passed by would have been better.
LEMMA NextWasNotPassed ==
  ASSUME QueueShape, PassedAreLater, NEW s \in Steps, NEW e \in fleet, AdmitStep(s, e), policy.fair,
         NEW i \in DOMAIN waiters[Home(e)], PriorityOf[waiters[Home(e)][i]] = PriorityOf[s]
  PROVE  KeyOf[s] \notin passed[Home(e)][waiters[Home(e)][i]]
<1> DEFINE h == Home(e)  ws == Registered(h, s)  w == waiters[h][i]
<1>1. h \in Homes /\ waiters[h] \in Seq(Steps) /\ IsNext(h, s)
  BY HomeTyped DEF QueueShape, QueueTypeOK, AdmitStep
<1>2. w \in Steps /\ Contains(waiters[h], w)
  BY <1>1, LenProperties, ElementOfSeq DEF Contains
<1>3. ws \in Seq(Steps) /\ Contains(ws, w) /\ Contains(ws, s)
  BY <1>1, <1>2, RegisteredWaits DEF QueueShape
<1>4. DOMAIN ws = 1..Len(ws)
  BY <1>3, LenProperties
<1>5. PICK k \in DOMAIN ws, j \in DOMAIN ws : ws[k] = w /\ ws[j] = s
  BY <1>3, <1>4 DEF Contains
<1>6. ~Better(h, ws, k, j)
  BY <1>1, <1>5 DEF IsNext
<1>7. ~(ServedAt(h, KeyOf[w]) < ServedAt(h, KeyOf[s]))
  BY <1>5, <1>6 DEF Better
<1> QED
  BY <1>1, <1>2, <1>7 DEF PassedAreLater

\* With key fairness no key is served twice while another of its priority waits.
THEOREM NoKeyIsPassedTwice == QueueSpec => NoKeyMonopoly
<1>1. QueueInit => QueueShape /\ PassedAreLater
  BY QueueShapeInit, PassedInit
<1>2. QueueShape /\ PassedAreLater /\ [QueueNext]_queueVars => (QueueShape /\ PassedAreLater)'
  BY QueueShapeStep, PassedStep
<1>3. QueueShape /\ PassedAreLater =>
        [\A s \in Steps, e \in fleet :
           LET h == Home(e)
           IN  AdmitStep(s, e) /\ policy.fair =>
                 \A i \in DOMAIN waiters[h] :
                   LET w == waiters[h][i]
                   IN  PriorityOf[w] = PriorityOf[s] => KeyOf[s] \notin passed[h][w]]_queueVars
  BY NextWasNotPassed
<1> QED
  BY <1>1, <1>2, <1>3, PTL DEF QueueSpec, NoKeyMonopoly
=============================================================================
