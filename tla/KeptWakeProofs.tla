--------------------------- MODULE KeptWakeProofs ---------------------------
(***************************************************************************)
(* Proofs about KeptWake for any number of engines, facts, requests and     *)
(* crashes: the state is well formed, each request in the store has an id   *)
(* of its own, and, unless an instance crashed, no request outlives its     *)
(* run. The argument for the last: whatever is kept once the run is done is *)
(* kept by an engine that will look at the run again, or dropped by the one *)
(* that ended it.                                                          *)
(***************************************************************************)
EXTENDS KeptWake, TLAPS

-----------------------------------------------------------------------------
(* The inductive invariants.                                               *)

\* A request is for a reason.
RequestsReasoned == \A t \in tasks : t.do = "buffer" => t.ask \in {"fan", "generic"}

\* Who will drop request k of a finished run.
Dropper(t, k) == t.do = "clear" \/ (t.do = "look" /\ k.id \in t.ids)

KeptCovered == dead = {} /\ row.status = "done" => \A k \in kept : \E t \in tasks : Dropper(t, k)

-----------------------------------------------------------------------------
(* The state is well formed.                                               *)

LEMMA NoTurnType == NoTurn \in Turns
BY DEF NoTurn, Turns

LEMMA LockTurnType == [NoTurn EXCEPT !.at = "lock"] \in Turns
BY DEF NoTurn, Turns

LEMMA ResumeTypes ==
  ASSUME WakeTypeOK, NEW e \in Engines, NEW why \in Reasons, Resume(e, why)
  PROVE  turn' \in [Engines -> Turns] /\ again' \in [Engines -> BOOLEAN] /\ reason' \in [Engines -> Reasons]
<1>1. Noted(reason[e], why) \in Reasons
  BY DEF WakeTypeOK, Noted
<1>2. reason' \in [Engines -> Reasons]
  BY <1>1 DEF WakeTypeOK, Resume
<1>3. turn' \in [Engines -> Turns] /\ again' \in [Engines -> BOOLEAN]
  <2>1. CASE turn[e].at = "idle"
    BY <2>1, LockTurnType DEF WakeTypeOK, Resume
  <2>2. CASE turn[e].at # "idle"
    BY <2>2 DEF WakeTypeOK, Resume
  <2> QED
    BY <2>1, <2>2
<1> QED
  BY <1>2, <1>3

LEMMA EndTurnTypes ==
  ASSUME WakeTypeOK, NEW e \in Engines, EndTurn(e)
  PROVE  turn' \in [Engines -> Turns] /\ again' \in [Engines -> BOOLEAN]
BY NoTurnType, LockTurnType DEF WakeTypeOK, EndTurn

LEMMA DroppedTypes ==
  ASSUME WakeTypeOK, RequestsReasoned, NEW e \in Engines, Dropped(e)
  PROVE  /\ tasks' \subseteq Tasks /\ flags' \in [Engines -> SUBSET {"timer", "requested", "fired"}]
         /\ RequestsReasoned'
<1> DEFINE why == IF reason[e] = "none" THEN "generic" ELSE reason[e]
<1>1. why \in {"fan", "generic"} /\ why \in Reasons
  BY DEF WakeTypeOK, Reasons
<1>2. Task(e, "buffer", why, {}, FALSE) \in Tasks /\ Task(e, "buffer", why, {}, FALSE).ask = why
  BY <1>1 DEF Task, Tasks
<1>3. flags' \in [Engines -> SUBSET {"timer", "requested", "fired"}]
  BY DEF WakeTypeOK, Dropped
<1>4. tasks' = tasks \/ tasks' = tasks \cup {Task(e, "buffer", why, {}, FALSE)}
  BY DEF Dropped
<1> HIDE DEF why
<1> QED
  BY <1>1, <1>2, <1>3, <1>4 DEF WakeTypeOK, RequestsReasoned

WakeShape == WakeTypeOK /\ RequestsReasoned

LEMMA ShapeInit == WakeInit => WakeShape
<1> SUFFICES ASSUME WakeInit PROVE WakeShape
  OBVIOUS
<1> USE KeptWakeAssumption DEF WakeInit
<1>1. [NoTurn EXCEPT !.at = "note"] \in Turns /\ NoTurn \in Turns
  BY DEF NoTurn, Turns
<1>2. turn \in [Engines -> Turns]
  BY <1>1
<1>3. fact \in [Facts -> Engines \cup {"out", "in"}]
  OBVIOUS
<1> QED
  BY <1>2, <1>3 DEF WakeShape, WakeTypeOK, RequestsReasoned, Reasons

\* The background tasks keep the shape.
LEMMA TaskStep ==
  ASSUME WakeShape, NEW t \in tasks, DoTask(t)
  PROVE  WakeShape'
<1> USE DEF WakeShape
<1>0. t \in Tasks /\ t.by \in Engines /\ t.ids \in SUBSET Ids /\ t.ask \in Reasons
  BY DEF WakeTypeOK, Tasks
<1>1. ASSUME BufferRequest(t) PROVE WakeShape'
  <2>1. PICK id \in Ids : /\ \A k \in kept : k.id # id
                          /\ kept' = kept \cup {[id |-> id, ask |-> t.ask]}
                          /\ tasks' = (tasks \ {t}) \cup {[t EXCEPT !.do = "look", !.ids = {id}]}
    BY <1>1 DEF BufferRequest, Become
  <2>2. t.ask \in {"fan", "generic"}
    BY <1>1 DEF BufferRequest, RequestsReasoned
  <2>3. [t EXCEPT !.do = "look", !.ids = {id}] \in Tasks /\ [t EXCEPT !.do = "look", !.ids = {id}].do = "look"
    BY <1>0 DEF Tasks
  <2>4. kept' \subseteq [id : Ids, ask : {"fan", "generic"}] /\ \A x, y \in kept' : x.id = y.id => x = y
    BY <2>1, <2>2 DEF WakeTypeOK
  <2>5. tasks' \subseteq Tasks /\ RequestsReasoned'
    BY <2>1, <2>3 DEF WakeTypeOK, RequestsReasoned
  <2> QED
    BY <1>1, <2>4, <2>5 DEF BufferRequest, WakeTypeOK
<1>2. ASSUME LookAgain(t) PROVE WakeShape'
  BY <1>0, <1>2 DEF LookAgain, Finish, WakeTypeOK, RequestsReasoned
<1>3. ASSUME Honor(t) PROVE WakeShape'
  <2>1. Task(t.by, "wake", "generic", {}, FALSE) \in Tasks /\ Task(t.by, "wake", "generic", {}, FALSE).do = "wake"
    BY <1>0 DEF Task, Tasks, Reasons
  <2>2. kept' \subseteq kept /\ UNCHANGED <<row, start, fact, turn, again, reason, flags, dead>>
    BY <1>3 DEF Honor
  <2>3. tasks' \subseteq tasks \cup {Task(t.by, "wake", "generic", {}, FALSE)}
    BY <1>3 DEF Honor, Finish, Become
  <2> QED
    BY <2>1, <2>2, <2>3 DEF WakeTypeOK, RequestsReasoned
<1>4. ASSUME HonorWake(t) PROVE WakeShape'
  <2>1. turn' \in [Engines -> Turns] /\ again' \in [Engines -> BOOLEAN] /\ reason' \in [Engines -> Reasons]
    BY <1>0, <1>4, ResumeTypes DEF HonorWake, Reasons
  <2>2. row' = row \/ row' = [row EXCEPT !.due = "lease"]
    BY <1>4 DEF HonorWake
  <2>3. tasks' \subseteq tasks /\ UNCHANGED <<start, fact, kept, flags, dead>>
    BY <1>4 DEF HonorWake, Finish
  <2> QED
    BY <2>1, <2>2, <2>3 DEF WakeTypeOK, RequestsReasoned
<1>5. ASSUME Clear(t) PROVE WakeShape'
  BY <1>5 DEF Clear, Finish, WakeTypeOK, RequestsReasoned
<1>6. ASSUME Redrive(t) PROVE WakeShape'
  <2>1. [t EXCEPT !.do = "take"] \in Tasks /\ [t EXCEPT !.do = "take"].do = "take"
    BY <1>0 DEF Tasks
  <2>2. tasks' \subseteq tasks \cup {[t EXCEPT !.do = "take"]}
    BY <1>6 DEF Redrive, Finish, Become
  <2>3. UNCHANGED <<row, start, fact, kept, turn, again, reason, flags, dead>>
    BY <1>6 DEF Redrive
  <2> QED
    BY <2>1, <2>2, <2>3 DEF WakeTypeOK, RequestsReasoned
<1>7. ASSUME RedriveTake(t) PROVE WakeShape'
  <2>1. tasks' \subseteq tasks /\ UNCHANGED <<start, fact, kept, flags, dead>>
    BY <1>7 DEF RedriveTake, Finish
  <2>2. CASE TakeAndResume(t.by)
    <3>1. turn' \in [Engines -> Turns] /\ again' \in [Engines -> BOOLEAN] /\ reason' \in [Engines -> Reasons]
      BY <1>0, <2>2, ResumeTypes DEF TakeAndResume, Reasons
    <3> QED
      BY <1>0, <2>1, <2>2, <3>1 DEF TakeAndResume, WakeTypeOK, RequestsReasoned
  <2>3. CASE NoResume /\ UNCHANGED row
    BY <2>1, <2>3 DEF NoResume, WakeTypeOK, RequestsReasoned
  <2> QED
    BY <1>7, <2>2, <2>3 DEF RedriveTake
<1>8. ASSUME RecheckList(t) PROVE WakeShape'
  <2>1. [t EXCEPT !.do = "take"] \in Tasks /\ [t EXCEPT !.do = "take"].do = "take"
    BY <1>0 DEF Tasks
  <2>2. tasks' \subseteq tasks \cup {[t EXCEPT !.do = "take"]}
    BY <1>8 DEF RecheckList, Finish, Become
  <2>3. UNCHANGED <<row, start, fact, kept, turn, again, reason, flags, dead>>
    BY <1>8 DEF RecheckList
  <2> QED
    BY <2>1, <2>2, <2>3 DEF WakeTypeOK, RequestsReasoned
<1> QED
  BY <1>1, <1>2, <1>3, <1>4, <1>5, <1>6, <1>7, <1>8 DEF DoTask

LEMMA TurnStep ==
  ASSUME WakeShape, NEW e \in Engines, DoTurn(e)
  PROVE  WakeShape'
<1> USE DEF WakeShape
<1>0. turn[e] \in Turns /\ turn[e].served \in SUBSET Ids /\ turn[e].read \in BOOLEAN
  BY DEF WakeTypeOK, Turns
<1>1. ASSUME Lock(e) PROVE WakeShape'
  <2>1. reason' \in [Engines -> Reasons] /\ UNCHANGED <<start, fact, kept, dead>>
    BY <1>1 DEF Lock, WakeTypeOK, Reasons
  <2>2. CASE row.status # "done" /\ row.holder \in {"free", e}
    <3>1. turn' = [turn EXCEPT ![e] = [@ EXCEPT !.at = "note"]] /\ row' = [row EXCEPT !.holder = e]
          /\ UNCHANGED <<again, tasks, flags>>
      BY <1>1, <2>2 DEF Lock
    <3>2. [turn[e] EXCEPT !.at = "note"] \in Turns
      BY <1>0 DEF Turns
    <3> QED
      BY <2>1, <3>1, <3>2 DEF WakeTypeOK, RequestsReasoned
  <2>3. CASE ~(row.status # "done" /\ row.holder \in {"free", e})
    <3>1. turn' \in [Engines -> Turns] /\ again' \in [Engines -> BOOLEAN] /\ UNCHANGED row
      BY <1>1, <2>3, EndTurnTypes DEF Lock
    <3>2. CASE UNCHANGED <<tasks, flags>>
      BY <2>1, <3>1, <3>2 DEF WakeTypeOK, RequestsReasoned
    <3>3. CASE Dropped(e)
      BY <2>1, <3>1, <3>3, DroppedTypes DEF WakeTypeOK
    <3> QED
      BY <1>1, <2>3, <3>2, <3>3 DEF Lock
  <2> QED
    BY <2>2, <2>3
<1>2. ASSUME Note(e) PROVE WakeShape'
  <2>1. {k.id : k \in kept} \in SUBSET Ids
    BY DEF WakeTypeOK
  <2>2. [turn[e] EXCEPT !.served = {k.id : k \in kept}, !.at = "read"] \in Turns
    BY <1>0, <2>1 DEF Turns
  <2>3. turn' = [turn EXCEPT ![e] = [@ EXCEPT !.served = {k.id : k \in kept}, !.at = "read"]]
    BY <1>2 DEF Note
  <2>4. turn' \in [Engines -> Turns]
    BY <2>2, <2>3 DEF WakeTypeOK
  <2>5. UNCHANGED <<row, start, fact, kept, again, reason, tasks, flags, dead>>
    BY <1>2 DEF Note
  <2> QED
    BY <2>4, <2>5 DEF WakeTypeOK, RequestsReasoned
<1>3. ASSUME Read(e) PROVE WakeShape'
  <2> DEFINE new == [turn[e] EXCEPT !.read = ~Pending, !.at = IF Pending THEN "suspend" ELSE "complete"]
  <2>1. new \in Turns
    <3>1. CASE Pending
      BY <1>0, <3>1 DEF Turns
    <3>2. CASE ~Pending
      BY <1>0, <3>2 DEF Turns
    <3> QED
      BY <3>1, <3>2
  <2>2. turn' = [turn EXCEPT ![e] = new]
    BY <1>3 DEF Read
  <2>3. UNCHANGED <<row, start, fact, kept, again, reason, tasks, flags, dead>>
    BY <1>3 DEF Read
  <2> HIDE DEF new
  <2> QED
    BY <2>1, <2>2, <2>3 DEF WakeTypeOK, RequestsReasoned
<1>4. ASSUME Suspend(e) PROVE WakeShape'
  <2>1. [turn[e] EXCEPT !.at = "due"] \in Turns
    BY <1>0 DEF Turns
  <2>2. turn' = [turn EXCEPT ![e] = [@ EXCEPT !.at = "due"]]
    BY <1>4 DEF Suspend
  <2>3. turn' \in [Engines -> Turns]
    BY <2>1, <2>2 DEF WakeTypeOK
  <2>4. row' = [row EXCEPT !.status = "suspended", !.due = "net"]
        /\ UNCHANGED <<start, fact, kept, again, reason, tasks, flags, dead>>
    BY <1>4 DEF Suspend
  <2> QED
    BY <2>3, <2>4 DEF WakeTypeOK, RequestsReasoned
<1>5. ASSUME KeepDue(e) PROVE WakeShape'
  <2>1. [turn[e] EXCEPT !.at = "release"] \in Turns
    BY <1>0 DEF Turns
  <2>2. turn' = [turn EXCEPT ![e] = [@ EXCEPT !.at = "release"]]
    BY <1>5 DEF KeepDue
  <2>3. row' = row \/ row' = [row EXCEPT !.due = "lease"]
    BY <1>5 DEF KeepDue
  <2>4. UNCHANGED <<start, fact, kept, again, reason, tasks, flags, dead>>
    BY <1>5 DEF KeepDue
  <2> QED
    BY <2>1, <2>2, <2>3, <2>4 DEF WakeTypeOK, RequestsReasoned
<1>6. ASSUME Release(e) PROVE WakeShape'
  <2> DEFINE honor == Task(e, "honor", "generic", turn[e].served, turn[e].read)
             redrive == Task(e, "redrive", "generic", {}, FALSE)
  <2>1. honor \in Tasks /\ honor.do = "honor" /\ redrive \in Tasks /\ redrive.do = "redrive"
    BY <1>0 DEF Task, Tasks, Reasons
  <2>2. tasks' \subseteq tasks \cup {honor, redrive}
    BY <1>6 DEF Release
  <2>3. turn' \in [Engines -> Turns] /\ again' \in [Engines -> BOOLEAN]
    BY <1>6, EndTurnTypes DEF Release
  <2>4. row' = [row EXCEPT !.holder = "free"] /\ UNCHANGED <<start, fact, kept, reason, flags, dead>>
    BY <1>6 DEF Release
  <2> HIDE DEF honor, redrive
  <2> QED
    BY <2>1, <2>2, <2>3, <2>4 DEF WakeTypeOK, RequestsReasoned
<1>7. ASSUME Complete(e) PROVE WakeShape'
  <2>1. Task(e, "clear", "generic", {}, FALSE) \in Tasks /\ Task(e, "clear", "generic", {}, FALSE).do = "clear"
    BY DEF Task, Tasks, Reasons
  <2>2. turn' \in [Engines -> Turns] /\ again' \in [Engines -> BOOLEAN]
    BY <1>7, EndTurnTypes DEF Complete
  <2>3. /\ row' = [status |-> "done", due |-> "no", holder |-> "free"]
        /\ tasks' = tasks \cup {Task(e, "clear", "generic", {}, FALSE)}
        /\ UNCHANGED <<start, fact, kept, reason, flags, dead>>
    BY <1>7 DEF Complete
  <2> QED
    BY <2>1, <2>2, <2>3 DEF WakeTypeOK, RequestsReasoned
<1> QED
  BY <1>1, <1>2, <1>3, <1>4, <1>5, <1>6, <1>7 DEF DoTurn

LEMMA ShapeStep == WakeShape /\ [WakeNext]_wakeVars => WakeShape'
<1> SUFFICES ASSUME WakeShape, [WakeNext]_wakeVars PROVE WakeShape'
  OBVIOUS
<1> USE DEF WakeShape
<1>1. ASSUME NEW e \in Engines, NEW f \in Facts, Land(e, f) PROVE WakeShape'
  BY <1>1 DEF Land, WakeTypeOK, RequestsReasoned
<1>2. ASSUME NEW e \in Engines, NEW f \in Facts, AskWake(e, f) PROVE WakeShape'
  <2>1. fact' \in [Facts -> Engines \cup {"out", "in"}] /\ UNCHANGED <<row, start, kept, tasks, dead>>
    BY <1>2 DEF AskWake, WakeTypeOK
  <2>2. CASE start.fan /\ Pending
    BY <1>2, <2>1, <2>2 DEF AskWake, NoResume, WakeTypeOK, RequestsReasoned
  <2>3. CASE ~(start.fan /\ Pending)
    <3>1. flags' \in [Engines -> SUBSET {"timer", "requested", "fired"}]
      BY <1>2, <2>3 DEF AskWake, WakeTypeOK
    <3>2. Resume(e, IF start.fan THEN "fan" ELSE "generic")
      BY <1>2, <2>3 DEF AskWake
    <3>3. (IF start.fan THEN "fan" ELSE "generic") \in Reasons
      BY DEF Reasons
    <3>4. turn' \in [Engines -> Turns] /\ again' \in [Engines -> BOOLEAN] /\ reason' \in [Engines -> Reasons]
      BY <3>2, <3>3, ResumeTypes
    <3> QED
      BY <2>1, <3>1, <3>4 DEF WakeTypeOK, RequestsReasoned
  <2> QED
    BY <2>2, <2>3
<1>3. ASSUME NEW e \in Engines, DoTurn(e) PROVE WakeShape'
  BY <1>3, TurnStep
<1>4. ASSUME NEW e \in Engines, DoTasks(e) PROVE WakeShape'
  BY <1>4, TaskStep DEF DoTasks
<1>5. ASSUME NEW e \in Engines, TakeAndResume(e) \/ (NoResume /\ UNCHANGED row),
             flags' \in [Engines -> SUBSET {"timer", "requested", "fired"}],
             UNCHANGED <<start, fact, kept, tasks, dead>>
      PROVE  WakeShape'
  <2>1. CASE TakeAndResume(e)
    <3>1. turn' \in [Engines -> Turns] /\ again' \in [Engines -> BOOLEAN] /\ reason' \in [Engines -> Reasons]
      BY <2>1, ResumeTypes DEF TakeAndResume, Reasons
    <3> QED
      BY <1>5, <2>1, <3>1 DEF TakeAndResume, WakeTypeOK, RequestsReasoned
  <2>2. CASE NoResume /\ UNCHANGED row
    BY <1>5, <2>2 DEF NoResume, WakeTypeOK, RequestsReasoned
  <2> QED
    BY <1>5, <2>1, <2>2
<1>6. ASSUME NEW e \in Engines, Recheck(e) PROVE WakeShape'
  <2>1. flags' \in [Engines -> SUBSET {"timer", "requested", "fired"}]
    BY <1>6 DEF Recheck, WakeTypeOK
  <2>2. Task(e, "list", "generic", {}, FALSE) \in Tasks /\ Task(e, "list", "generic", {}, FALSE).do = "list"
    BY DEF Task, Tasks, Reasons
  <2>3. tasks' \subseteq tasks \cup {Task(e, "list", "generic", {}, FALSE)}
    BY <1>6 DEF Recheck
  <2>4. UNCHANGED <<row, start, fact, kept, turn, again, reason, dead>>
    BY <1>6 DEF Recheck
  <2> QED
    BY <2>1, <2>2, <2>3, <2>4 DEF WakeTypeOK, RequestsReasoned
<1>7. ASSUME NEW e \in Engines, PollDue(e) PROVE WakeShape'
  BY <1>5, <1>7 DEF PollDue, WakeTypeOK
<1>8. ASSUME NEW e \in Engines, Recover(e) PROVE WakeShape'
  <2>1. turn' \in [Engines -> Turns] /\ again' \in [Engines -> BOOLEAN] /\ reason' \in [Engines -> Reasons]
    BY <1>8, ResumeTypes DEF Recover, Reasons
  <2> QED
    BY <1>8, <2>1 DEF Recover, WakeTypeOK, RequestsReasoned
<1>9. ASSUME NEW e \in Engines, CrashEngine(e) PROVE WakeShape'
  <2>1. row' = [row EXCEPT !.holder = "lapsing"] \/ row' = row
    BY <1>9 DEF CrashEngine
  <2>2. fact' \in [Facts -> Engines \cup {"out", "in"}] /\ dead' \subseteq Engines /\ tasks' \subseteq tasks
    BY <1>9 DEF CrashEngine, WakeTypeOK
  <2>3. turn' \in [Engines -> Turns] /\ again' \in [Engines -> BOOLEAN]
        /\ reason' \in [Engines -> Reasons] /\ flags' \in [Engines -> SUBSET {"timer", "requested", "fired"}]
    BY <1>9, NoTurnType DEF CrashEngine, WakeTypeOK, Reasons
  <2>4. UNCHANGED <<start, kept>>
    BY <1>9 DEF CrashEngine
  <2> QED
    BY <2>1, <2>2, <2>3, <2>4 DEF WakeTypeOK, RequestsReasoned
<1>10. ASSUME LeaseLapses PROVE WakeShape'
  BY <1>10 DEF LeaseLapses, WakeTypeOK, RequestsReasoned
<1>11. ASSUME UNCHANGED wakeVars PROVE WakeShape'
  BY <1>11 DEF wakeVars, WakeTypeOK, RequestsReasoned
<1> QED
  BY <1>1, <1>2, <1>3, <1>4, <1>6, <1>7, <1>8, <1>9, <1>10, <1>11 DEF WakeNext, Wakes

\* The state is well formed, and each request kept in the store has an id of its own
\* (requestWakeAfterTurn).
THEOREM WakeTypes == WakeSpec => []WakeTypeOK
<1>1. WakeShape => WakeTypeOK
  BY DEF WakeShape
<1> QED
  BY <1>1, ShapeInit, ShapeStep, PTL DEF WakeSpec
-----------------------------------------------------------------------------
(* No request outlives its run.                                            *)

LEMMA CoveredInit == WakeInit => KeptCovered
BY DEF WakeInit, KeptCovered

\* Tasks that come or go, but those that drop a request, and requests that go.
LEMMA CoveredStays ==
  ASSUME KeptCovered, row'.status = "done" => row.status = "done", dead' = {} => dead = {}, kept' \subseteq kept,
         \A t \in tasks : t.do \in {"look", "clear"} => t \in tasks'
  PROVE  KeptCovered'
BY DEF KeptCovered, Dropper

LEMMA CoveredTask ==
  ASSUME WakeShape, KeptCovered, NEW t \in tasks, DoTask(t)
  PROVE  KeptCovered'
<1>0. t \in Tasks
  BY DEF WakeShape, WakeTypeOK
<1>1. ASSUME BufferRequest(t) PROVE KeptCovered'
  <2>1. PICK id \in Ids : /\ kept' = kept \cup {[id |-> id, ask |-> t.ask]}
                          /\ tasks' = (tasks \ {t}) \cup {[t EXCEPT !.do = "look", !.ids = {id}]}
    BY <1>1 DEF BufferRequest, Become
  <2>2. t.do = "buffer" /\ row' = row /\ dead' = dead
    BY <1>1 DEF BufferRequest
  <2>3. [t EXCEPT !.do = "look", !.ids = {id}].do = "look" /\ id \in [t EXCEPT !.do = "look", !.ids = {id}].ids
    BY <1>0 DEF Tasks
  <2> SUFFICES ASSUME dead = {}, row.status = "done", NEW k \in kept'
               PROVE  \E u \in tasks' : Dropper(u, k)
    BY <2>2 DEF KeptCovered, Dropper
  <2>4. CASE k \in kept
    <3>1. PICK u \in tasks : Dropper(u, k)
      BY <2>4 DEF KeptCovered
    <3>2. u \in tasks'
      BY <2>1, <2>2, <3>1 DEF Dropper
    <3> QED
      BY <3>1, <3>2
  <2>5. CASE k \notin kept
    <3>1. k.id = id /\ [t EXCEPT !.do = "look", !.ids = {id}] \in tasks'
      BY <2>1, <2>5
    <3> QED
      BY <2>3, <3>1 DEF Dropper
  <2> QED
    BY <2>4, <2>5
<1>2. ASSUME LookAgain(t) PROVE KeptCovered'
  <2>1. /\ tasks' = tasks \ {t} /\ dead' = dead /\ t.do = "look"
        /\ row' = row \/ row' = [row EXCEPT !.due = "lease"]
        /\ row.status = "done" => kept' = {k \in kept : k.id \notin t.ids}
    BY <1>2 DEF LookAgain, Finish
  <2>2. row'.status = row.status
    BY <2>1 DEF WakeShape, WakeTypeOK
  <2> QED
    BY <2>1, <2>2 DEF KeptCovered, Dropper
<1>3. ASSUME Honor(t) PROVE KeptCovered'
  BY <1>3, CoveredStays DEF Honor, Finish, Become
<1>4. ASSUME HonorWake(t) PROVE KeptCovered'
  <2>1. row'.status = row.status
    BY <1>4 DEF HonorWake, WakeShape, WakeTypeOK
  <2> QED
    BY <1>4, <2>1, CoveredStays DEF HonorWake, Finish
<1>5. ASSUME Clear(t) PROVE KeptCovered'
  BY <1>5 DEF Clear, KeptCovered
<1>6. ASSUME Redrive(t) PROVE KeptCovered'
  BY <1>6, CoveredStays DEF Redrive, Finish, Become
<1>7. ASSUME RedriveTake(t) PROVE KeptCovered'
  <2>1. row'.status = row.status
    BY <1>7 DEF RedriveTake, TakeAndResume, WakeShape, WakeTypeOK
  <2> QED
    BY <1>7, <2>1, CoveredStays DEF RedriveTake, Finish
<1>8. ASSUME RecheckList(t) PROVE KeptCovered'
  BY <1>8, CoveredStays DEF RecheckList, Finish, Become
<1> QED
  BY <1>1, <1>2, <1>3, <1>4, <1>5, <1>6, <1>7, <1>8 DEF DoTask

LEMMA CoveredTurn ==
  ASSUME WakeShape, KeptCovered, NEW e \in Engines, DoTurn(e)
  PROVE  KeptCovered'
<1>1. ASSUME Complete(e) PROVE KeptCovered'
  <2>1. Task(e, "clear", "generic", {}, FALSE) \in tasks' /\ Task(e, "clear", "generic", {}, FALSE).do = "clear"
    BY <1>1 DEF Complete, Task
  <2> QED
    BY <2>1 DEF KeptCovered, Dropper
<1>2. ASSUME Lock(e) PROVE KeptCovered'
  <2>1. row'.status = row.status
    BY <1>2 DEF Lock, WakeShape, WakeTypeOK
  <2> QED
    BY <1>2, <2>1, CoveredStays DEF Lock, Dropped
<1>3. ASSUME Note(e) \/ Read(e) PROVE KeptCovered'
  BY <1>3, CoveredStays DEF Note, Read
<1>4. ASSUME Suspend(e) PROVE KeptCovered'
  BY <1>4, CoveredStays DEF Suspend, WakeShape, WakeTypeOK
<1>5. ASSUME KeepDue(e) PROVE KeptCovered'
  <2>1. row'.status = row.status
    BY <1>5 DEF KeepDue, WakeShape, WakeTypeOK
  <2> QED
    BY <1>5, <2>1, CoveredStays DEF KeepDue
<1>6. ASSUME Release(e) PROVE KeptCovered'
  <2>1. row'.status = row.status
    BY <1>6 DEF Release, WakeShape, WakeTypeOK
  <2> QED
    BY <1>6, <2>1, CoveredStays DEF Release
<1> QED
  BY <1>1, <1>2, <1>3, <1>4, <1>5, <1>6 DEF DoTurn

LEMMA CoveredStep == WakeShape /\ KeptCovered /\ [WakeNext]_wakeVars => KeptCovered'
<1> SUFFICES ASSUME WakeShape, KeptCovered, [WakeNext]_wakeVars PROVE KeptCovered'
  OBVIOUS
<1>1. ASSUME NEW e \in Engines, NEW f \in Facts, Land(e, f) \/ AskWake(e, f) PROVE KeptCovered'
  BY <1>1, CoveredStays DEF Land, AskWake
<1>2. ASSUME NEW e \in Engines, DoTurn(e) PROVE KeptCovered'
  BY <1>2, CoveredTurn
<1>3. ASSUME NEW e \in Engines, DoTasks(e) PROVE KeptCovered'
  BY <1>3, CoveredTask DEF DoTasks
<1>4. ASSUME NEW e \in Engines, Recheck(e) \/ PollDue(e) \/ Recover(e) PROVE KeptCovered'
  <2>1. row'.status = row.status
    BY <1>4 DEF Recheck, PollDue, Recover, TakeAndResume, WakeShape, WakeTypeOK
  <2> QED
    BY <1>4, <2>1, CoveredStays DEF Recheck, PollDue, Recover
<1>5. ASSUME NEW e \in Engines, CrashEngine(e) PROVE KeptCovered'
  BY <1>5 DEF CrashEngine, KeptCovered
<1>6. ASSUME LeaseLapses PROVE KeptCovered'
  <2>1. row'.status = row.status
    BY <1>6 DEF LeaseLapses, WakeShape, WakeTypeOK
  <2> QED
    BY <1>6, <2>1, CoveredStays DEF LeaseLapses
<1>7. ASSUME UNCHANGED wakeVars PROVE KeptCovered'
  BY <1>7, CoveredStays DEF wakeVars
<1> QED
  BY <1>1, <1>2, <1>3, <1>4, <1>5, <1>6, <1>7 DEF WakeNext, Wakes

\* Unless an instance crashed, no request stays once the run is done and nothing is under way
\* for it (requestWakeAfterTurn, clearWakeRequests).
THEOREM NoneKept == WakeSpec => []NoKeptLeft
<1>1. KeptCovered => NoKeptLeft
  BY DEF KeptCovered, NoKeptLeft
<1> QED
  BY <1>1, ShapeInit, ShapeStep, CoveredInit, CoveredStep, PTL DEF WakeSpec
=============================================================================
