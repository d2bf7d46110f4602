--------------------------- MODULE SchedulesProofs ----------------------------
(***************************************************************************)
(* Proofs about Schedules for any number of pollers, clients, calls and    *)
(* faults, and any definitions: the row and what is read of it are well    *)
(* formed, no window is counted twice, pollers only move the schedule on,  *)
(* and no window is started beside a run the row knows. The argument for   *)
(* the count: whoever holds a copy of the row holds one whose fires are    *)
(* windows with a run that lie before the window it will write.            *)
(***************************************************************************)
EXTENDS Schedules, TLAPS, FiniteSetTheorems

-----------------------------------------------------------------------------
(* The inductive invariant.                                                *)

\* The windows before n that have a run.
Upto(f, n) == {w \in Times : f[w] # "none" /\ w < n}

Counted(k, f, n) == k <= Cardinality(Upto(f, n))

\* The last run of a row is there.
Known(r, f) == r.lastRun # None => r.lastRun \in Times /\ f[r.lastRun] # "none"

RowOK(r, f) == Known(r, f) /\ Counted(r.fires, f, r.window) /\ (r.there => r.window <= r.next)

\* The window a fire is about.
About(x) == LatestWindow(x.row.def, x.now)

FireOK(x, f, t) ==
  x.at # "idle" =>
    /\ RowOK(x.row, f) /\ x.row.there /\ x.row.next <= x.now /\ x.now <= t
    /\ x.at = "start" => x.row.window <= About(x)
    /\ x.fired => x.at = "advance" /\ x.row.window <= About(x) /\ f[About(x)] # "none"

CallOK(x, f, t) == Known(x.row, f) /\ Counted(x.row.fires, f, x.now + 1) /\ x.now <= t

RunsPast(f, t) == \A w \in Times : f[w] # "none" => w <= t

ScheduleInv ==
  /\ ScheduleTypeOK
  /\ RunsPast(runs, clock) /\ RowOK(row, runs)
  /\ \A p \in Pollers : FireOK(poller[p], runs, clock)
  /\ \A c \in Clients : CallOK(client[c], runs, clock)

-----------------------------------------------------------------------------
(* Windows.                                                                *)

LEMMA DivFacts ==
  ASSUME NEW e \in Nat \ {0}, NEW t \in Nat
  PROVE  /\ t \div e \in Nat /\ (t \div e) * e \in Nat
         /\ (t \div e) * e <= t /\ t < (t \div e + 1) * e
         /\ ((t \div e) * e) \div e = t \div e
OBVIOUS

LEMMA ModFacts ==
  ASSUME NEW j \in Nat \ {0}, NEW k \in Nat
  PROVE  k % j \in Nat
OBVIOUS

\* The latest window is past, the next one ahead, also seen from the latest.
LEMMA WindowFacts ==
  ASSUME NEW d \in Defs, NEW t \in Times
  PROVE  /\ LatestWindow(d, t) \in Times /\ LatestWindow(d, t) <= t
         /\ NextWindow(d, t) \in Nat /\ t < NextWindow(d, t)
         /\ NextWindow(d, LatestWindow(d, t)) = NextWindow(d, t)
<1>1. d.every \in Nat \ {0} /\ t \in Nat /\ t <= MaxTime /\ MaxTime \in Nat
  BY SchedulesAssumption DEF Times
<1>2. /\ t \div d.every \in Nat /\ (t \div d.every) * d.every \in Nat
      /\ (t \div d.every) * d.every <= t /\ t < (t \div d.every + 1) * d.every
      /\ ((t \div d.every) * d.every) \div d.every = t \div d.every
  BY <1>1, DivFacts
<1>3. (t \div d.every + 1) * d.every \in Nat
  BY <1>1, <1>2
<1>4. LatestWindow(d, t) \in Times
  BY <1>1, <1>2 DEF LatestWindow, Times
<1> QED
  BY <1>2, <1>3, <1>4 DEF LatestWindow, NextWindow

LEMMA JitterNat ==
  ASSUME NEW d \in Defs, NEW w \in Nat
  PROVE  Jitter(d, w) \in Nat
<1>1. d.every \in Nat \ {0} /\ d.jitter \in Nat
  BY SchedulesAssumption
<1>2. w \div d.every \in Nat
  BY <1>1, DivFacts
<1>3. d.jitter # 0 => (w \div d.every) % d.jitter \in Nat
  BY <1>1, <1>2, ModFacts
<1> QED
  BY <1>3 DEF Jitter

-----------------------------------------------------------------------------
(* Counting windows.                                                       *)

\* A run that is there stays there.
Grown(f, g) == \A w \in Times : f[w] # "none" => g[w] # "none"

LEMMA UptoFinite ==
  ASSUME NEW f, NEW n
  PROVE  IsFiniteSet(Upto(f, n)) /\ Cardinality(Upto(f, n)) \in Nat
<1>1. IsFiniteSet(Times)
  BY SchedulesAssumption, FS_Interval DEF Times
<1>2. Upto(f, n) \subseteq Times
  BY DEF Upto
<1> QED
  BY <1>1, <1>2, FS_Subset, FS_CardinalityType

\* More runs, or a later bound, count for no less.
LEMMA CountedMore ==
  ASSUME NEW f, NEW g, Grown(f, g), NEW m \in Int, NEW n \in Int, NEW k \in Nat, Counted(k, f, m),
         \A w \in Times : f[w] # "none" /\ w < m => w < n
  PROVE  Counted(k, g, n)
<1>1. Upto(f, m) \subseteq Upto(g, n)
  BY DEF Upto, Grown
<1>2. Cardinality(Upto(f, m)) <= Cardinality(Upto(g, n))
  BY <1>1, UptoFinite, FS_Subset
<1>3. Cardinality(Upto(f, m)) \in Nat /\ Cardinality(Upto(g, n)) \in Nat
  BY UptoFinite
<1>4. k <= Cardinality(Upto(f, m))
  BY DEF Counted
<1>5. k <= Cardinality(Upto(g, n))
  BY <1>2, <1>3, <1>4
<1> QED
  BY <1>5 DEF Counted

\* A run between the bounds makes room for one more.
LEMMA CountedOneMore ==
  ASSUME NEW f, NEW m \in Int, NEW n \in Int, NEW k \in Nat, Counted(k, f, m),
         NEW w \in Times, f[w] # "none", m <= w, w < n
  PROVE  Counted(k + 1, f, n)
<1>1. w \notin Upto(f, m)
  BY DEF Upto, Times
<1>2. Upto(f, m) \cup {w} \subseteq Upto(f, n)
  BY DEF Upto, Times
<1>3. Cardinality(Upto(f, m) \cup {w}) = Cardinality(Upto(f, m)) + 1
  BY <1>1, UptoFinite, FS_AddElement
<1>4. Cardinality(Upto(f, m) \cup {w}) <= Cardinality(Upto(f, n))
  BY <1>2, UptoFinite, FS_Subset
<1>5. Cardinality(Upto(f, m)) \in Nat /\ Cardinality(Upto(f, n)) \in Nat /\ k <= Cardinality(Upto(f, m))
  BY UptoFinite DEF Counted
<1>6. k + 1 <= Cardinality(Upto(f, n))
  BY <1>3, <1>4, <1>5
<1> QED
  BY <1>6 DEF Counted

LEMMA RowGrows ==
  ASSUME NEW r \in Rows, NEW f, NEW g, Grown(f, g), RowOK(r, f)
  PROVE  RowOK(r, g)
<1>1. r.window \in Int /\ r.fires \in Nat
  BY DEF Rows
<1>2. Counted(r.fires, g, r.window)
  BY <1>1, CountedMore DEF RowOK
<1> QED
  BY <1>2 DEF RowOK, Known, Grown

LEMMA FireGrows ==
  ASSUME NEW x \in Fires, NEW f, NEW g, Grown(f, g), NEW t \in Times, NEW u \in Times, t <= u, FireOK(x, f, t)
  PROVE  FireOK(x, g, u)
<1> SUFFICES ASSUME x.at # "idle" PROVE FireOK(x, g, u)
  BY DEF FireOK
<1>1. x.row \in Rows /\ x.now \in Times /\ x.row.def \in Defs
  BY DEF Fires, Rows
<1>2. RowOK(x.row, g)
  BY <1>1, RowGrows DEF FireOK
<1>3. x.now <= u
  BY <1>1 DEF FireOK, Times
<1>4. About(x) \in Times
  BY <1>1, WindowFacts DEF About
<1> QED
  BY <1>2, <1>3, <1>4 DEF FireOK, Grown

LEMMA CallGrows ==
  ASSUME NEW x \in Calls, NEW f, NEW g, Grown(f, g), NEW t \in Times, NEW u \in Times, t <= u, CallOK(x, f, t)
  PROVE  CallOK(x, g, u)
<1>1. x.row \in Rows /\ x.now \in Times /\ x.row.fires \in Nat /\ x.now + 1 \in Int
  BY DEF Calls, Rows, Times
<1>2. Counted(x.row.fires, g, x.now + 1)
  BY <1>1, CountedMore DEF CallOK
<1>3. x.now <= u
  BY <1>1 DEF CallOK, Times
<1> QED
  BY <1>2, <1>3 DEF CallOK, Known, Grown

-----------------------------------------------------------------------------
(* What the writes put in the row.                                         *)

\* A fire's patch: a later window than it was due for, counted at most once.
LEMMA FiredRowOK ==
  ASSUME ScheduleInv, NEW p \in Pollers, poller[p].at = "advance"
  PROVE  /\ FiredRow(p) \in Rows /\ RowOK(FiredRow(p), runs)
         /\ FiredRow(p).next > poller[p].now
<1> DEFINE x == poller[p]
           d == x.row.def
           n == NextWindow(d, Latest(p))
           j == Jitter(d, n)
<1>1. x \in Fires /\ x.row \in Rows /\ x.now \in Times /\ d \in Defs /\ FireOK(x, runs, clock) /\ row \in Rows
  BY DEF ScheduleInv, ScheduleTypeOK, Fires, Rows
<1>2. /\ Latest(p) = About(x) /\ About(x) \in Times /\ About(x) <= x.now
      /\ n \in Nat /\ x.now < n /\ j \in Nat
  BY <1>1, WindowFacts, JitterNat DEF Latest, About
<1>3. x.row.window \in Int /\ x.row.next \in Int /\ x.row.fires \in Nat /\ x.row.lastRun \in Int
  BY <1>1 DEF Rows
<1>4. /\ Known(x.row, runs) /\ Counted(x.row.fires, runs, x.row.window)
      /\ x.row.window <= x.row.next /\ x.row.next <= x.now
      /\ x.fired => x.row.window <= About(x) /\ runs[About(x)] # "none"
  BY <1>1 DEF FireOK, RowOK
<1>5. About(x) \in Nat /\ x.now \in Nat /\ About(x) # None /\ About(x) \in Int
  BY <1>1, <1>2 DEF Times, None
<1> DEFINE k == x.row.fires + (IF x.fired THEN 1 ELSE 0)
           l == IF x.fired THEN About(x) ELSE x.row.lastRun
<1>6. x.row.window < n /\ About(x) < n
  BY <1>2, <1>3, <1>4, <1>5
<1>7. Counted(k, runs, n)
  <2>1. CASE x.fired
    <3>1. Counted(x.row.fires + 1, runs, n)
      BY <2>1, <1>2, <1>3, <1>4, <1>5, <1>6, CountedOneMore
    <3> QED
      BY <2>1, <3>1
  <2>2. CASE ~x.fired
    <3>1. \A w \in Times : runs[w] # "none" /\ w < x.row.window => w < n
      BY <1>2, <1>3, <1>6 DEF Times
    <3>2. Counted(x.row.fires, runs, n)
      BY <3>1, <1>2, <1>3, <1>4, CountedMore DEF Grown
    <3>3. k = x.row.fires
      BY <2>2, <1>3
    <3> QED
      BY <3>2, <3>3
  <2> QED
    BY <2>1, <2>2
<1>8. k \in Nat /\ l \in Int /\ n + j \in Int /\ n \in Int /\ n <= n + j /\ n + j > x.now
  BY <1>2, <1>3, <1>5
<1>9. l # None => l \in Times /\ runs[l] # "none"
  BY <1>2, <1>4 DEF Known
<1>10. FiredRow(p) = [row EXCEPT !.window = n, !.next = n + j, !.lastRun = l, !.fires = k]
  BY <1>2 DEF FiredRow
<1> HIDE DEF k, l, n, j
<1>11. /\ FiredRow(p) \in Rows /\ FiredRow(p).window = n /\ FiredRow(p).next = n + j
       /\ FiredRow(p).lastRun = l /\ FiredRow(p).fires = k
  BY <1>1, <1>8, <1>10 DEF Rows
<1> QED
  BY <1>7, <1>8, <1>9, <1>11 DEF RowOK, Known

\* A client reads the clock after the row.
LEMMA SinceRead ==
  ASSUME ScheduleInv, NEW c \in Clients, NEW d \in Defs, NEW t \in Since(c)
  PROVE  NextWindow(d, t) \in Nat /\ client[c].now < NextWindow(d, t)
<1>1. client[c].now \in Nat /\ t \in Times /\ t \in Nat /\ client[c].now <= t
  BY DEF ScheduleInv, ScheduleTypeOK, Calls, Since, Times
<1>2. NextWindow(d, t) \in Nat /\ t < NextWindow(d, t)
  BY <1>1, WindowFacts
<1> QED
  BY <1>1, <1>2

\* What a client writes from the row it read: the first window after its time.
LEMMA ClientRowOK ==
  ASSUME ScheduleInv, NEW c \in Clients, NEW d \in Defs, NEW t \in Since(c), NEW r \in Rows,
         NEW n, n = NextWindow(d, t),
         r.window = n, r.next = n + Jitter(d, n), r.fires = client[c].row.fires, r.lastRun = client[c].row.lastRun
  PROVE  RowOK(r, runs)
<1>1. /\ client[c].row \in Rows /\ client[c].now \in Times /\ CallOK(client[c], runs, clock)
  BY DEF ScheduleInv, ScheduleTypeOK, Calls
<1>2. n \in Nat /\ client[c].now < n /\ Jitter(d, n) \in Nat
  BY <1>1, SinceRead, JitterNat
<1>3. client[c].now \in Nat /\ client[c].row.fires \in Nat
  BY <1>1 DEF Times, Rows
<1>4. \A w \in Times : runs[w] # "none" /\ w < client[c].now + 1 => w < n
  BY <1>2, <1>3 DEF Times
<1>5. Counted(r.fires, runs, n)
  BY <1>1, <1>2, <1>3, <1>4, CountedMore DEF CallOK, Grown
<1>6. n <= n + Jitter(d, n)
  BY <1>2
<1> QED
  BY <1>1, <1>5, <1>6 DEF RowOK, Known, CallOK

-----------------------------------------------------------------------------
(* The steps.                                                              *)

LEMMA NoRowOK ==
  /\ NoRow \in Rows /\ \A f : RowOK(NoRow, f) /\ NoRow.there = FALSE
  /\ NoFire \in Fires /\ NoCall \in Calls
<1>1. (CHOOSE d \in Defs : TRUE) \in Defs
  BY SchedulesAssumption
<1>2. NoRow \in Rows
  BY <1>1 DEF NoRow, Rows, None
<1>3. \A f : RowOK(NoRow, f) /\ NoRow.there = FALSE
  <2> TAKE f
  <2>1. 0 <= Cardinality(Upto(f, NoRow.window))
    BY UptoFinite
  <2> QED
    BY <2>1 DEF RowOK, Known, Counted, NoRow
<1>4. 0 \in Times
  BY SchedulesAssumption DEF Times
<1> QED
  BY <1>2, <1>3, <1>4 DEF NoFire, Fires, NoCall, Calls, Ops, PausedOpts

LEMMA NoCallOK ==
  ASSUME NEW f, NEW t \in Times
  PROVE  CallOK(NoCall, f, t) /\ FireOK(NoFire, f, t)
<1>1. 0 <= Cardinality(Upto(f, 1)) /\ 0 <= t
  BY UptoFinite DEF Times
<1> QED
  BY <1>1 DEF CallOK, FireOK, Known, Counted, NoCall, NoFire, NoRow

LEMMA ScheduleInitOK ==
  ASSUME SchedulesInit
  PROVE  ScheduleInv
<1>1. clock \in Times /\ 0 \in 0..MaxCalls /\ 0 \in 0..MaxScheduleFaults
  BY SchedulesAssumption DEF SchedulesInit, Times
<1>2. runs \in [Times -> RunStates] /\ RunsPast(runs, clock)
  BY DEF SchedulesInit, RunStates, RunsPast
<1>3. row \in Rows /\ RowOK(row, runs) /\ row.lastRun = None
  BY NoRowOK DEF SchedulesInit, NoRow
<1>4. poller \in [Pollers -> Fires] /\ client \in [Clients -> Calls]
  BY NoRowOK DEF SchedulesInit
<1>5. /\ \A p \in Pollers : FireOK(poller[p], runs, clock)
      /\ \A c \in Clients : CallOK(client[c], runs, clock)
  BY <1>1, NoCallOK DEF SchedulesInit
<1>6. ScheduleTypeOK
  BY <1>1, <1>2, <1>3, <1>4 DEF ScheduleTypeOK, SchedulesInit
<1> QED
  BY <1>2, <1>3, <1>5, <1>6 DEF ScheduleInv

\* Everyone's copies stay good when the runs grow and time goes on.
LEMMA CopiesGrow ==
  ASSUME ScheduleInv, NEW g, Grown(runs, g), NEW u \in Times, clock <= u
  PROVE  /\ RowOK(row, g)
         /\ \A p \in Pollers : FireOK(poller[p], g, u)
         /\ \A c \in Clients : CallOK(client[c], g, u)
<1>1. /\ clock \in Times /\ row \in Rows
      /\ \A p \in Pollers : poller[p] \in Fires
      /\ \A c \in Clients : client[c] \in Calls
  BY DEF ScheduleInv, ScheduleTypeOK
<1>2. RowOK(row, g)
  BY <1>1, RowGrows DEF ScheduleInv
<1>3. ASSUME NEW p \in Pollers PROVE FireOK(poller[p], g, u)
  BY <1>1, FireGrows DEF ScheduleInv
<1>4. ASSUME NEW c \in Clients PROVE CallOK(client[c], g, u)
  BY <1>1, CallGrows DEF ScheduleInv
<1> QED
  BY <1>2, <1>3, <1>4

LEMMA TickOK ==
  ASSUME ScheduleInv, Tick
  PROVE  ScheduleInv'
<1>1. clock \in Times /\ clock' \in Times /\ clock <= clock'
  BY SchedulesAssumption DEF Tick, ScheduleInv, ScheduleTypeOK, Times
<1>2. /\ RowOK(row, runs)
      /\ \A p \in Pollers : FireOK(poller[p], runs, clock')
      /\ \A c \in Clients : CallOK(client[c], runs, clock')
  BY <1>1, CopiesGrow DEF Grown
<1>3. RunsPast(runs, clock')
  BY <1>1 DEF ScheduleInv, RunsPast, Times
<1>4. ScheduleTypeOK'
  BY <1>1 DEF Tick, ScheduleInv, ScheduleTypeOK
<1>5. runs' = runs /\ row' = row /\ poller' = poller /\ client' = client
  BY DEF Tick
<1> QED
  BY <1>2, <1>3, <1>4, <1>5 DEF ScheduleInv

\* The runs change, and only to be more: everything but the pollers is as before.
LEMMA RunsChangeOK ==
  ASSUME ScheduleInv, runs' \in [Times -> RunStates], Grown(runs, runs'), RunsPast(runs', clock),
         UNCHANGED <<clock, row, client>>, poller' \in [Pollers -> Fires],
         kept' \in BOOLEAN, calls' \in 0..MaxCalls, faults' \in 0..MaxScheduleFaults,
         \A p \in Pollers : FireOK(poller'[p], runs', clock)
  PROVE  ScheduleInv'
<1>1. clock \in Times /\ clock <= clock
  BY DEF ScheduleInv, ScheduleTypeOK, Times
<1>2. RowOK(row, runs') /\ \A c \in Clients : CallOK(client[c], runs', clock)
  BY <1>1, CopiesGrow
<1>3. ScheduleTypeOK'
  BY <1>2 DEF ScheduleInv, ScheduleTypeOK, RowOK, Known
<1> QED
  BY <1>2, <1>3 DEF ScheduleInv

LEMMA FinishRunOK ==
  ASSUME ScheduleInv, NEW w \in Times, FinishRun(w)
  PROVE  ScheduleInv'
<1>1. runs \in [Times -> RunStates] /\ clock \in Times
  BY DEF ScheduleInv, ScheduleTypeOK
<1>2. runs' \in [Times -> RunStates] /\ Grown(runs, runs')
  BY <1>1 DEF FinishRun, RunStates, Grown
<1>3. RunsPast(runs', clock)
  BY <1>1 DEF FinishRun, ScheduleInv, RunsPast
<1>4. \A p \in Pollers : FireOK(poller[p], runs', clock)
  BY <1>1, <1>2, CopiesGrow DEF Times
<1>5. /\ UNCHANGED <<clock, row, client>> /\ poller' = poller
      /\ kept' \in BOOLEAN /\ calls' \in 0..MaxCalls /\ faults' \in 0..MaxScheduleFaults
      /\ poller \in [Pollers -> Fires]
  BY DEF FinishRun, ScheduleInv, ScheduleTypeOK
<1> QED
  BY <1>2, <1>3, <1>4, <1>5, RunsChangeOK

\* A step that leaves the runs alone: the row it leaves is good, and so is the
\* new state of the poller or client that takes it.
LEMMA StepOK ==
  ASSUME ScheduleInv, UNCHANGED <<clock, runs>>, row' \in Rows, RowOK(row', runs),
         poller' \in [Pollers -> Fires], client' \in [Clients -> Calls],
         kept' \in BOOLEAN, calls' \in 0..MaxCalls, faults' \in 0..MaxScheduleFaults,
         \A p \in Pollers : FireOK(poller'[p], runs, clock),
         \A c \in Clients : CallOK(client'[c], runs, clock)
  PROVE  ScheduleInv'
<1>1. ScheduleTypeOK'
  BY DEF ScheduleInv, ScheduleTypeOK, RowOK, Known
<1> QED
  BY <1>1 DEF ScheduleInv

\* What every step finds.
LEMMA Found ==
  ASSUME ScheduleInv
  PROVE  /\ clock \in Times /\ row \in Rows /\ RowOK(row, runs) /\ runs \in [Times -> RunStates]
         /\ poller \in [Pollers -> Fires] /\ client \in [Clients -> Calls]
         /\ kept \in BOOLEAN /\ calls \in 0..MaxCalls /\ faults \in 0..MaxScheduleFaults
         /\ \A p \in Pollers : FireOK(poller[p], runs, clock)
         /\ \A c \in Clients : CallOK(client[c], runs, clock)
BY DEF ScheduleInv, ScheduleTypeOK

LEMMA OnePoller ==
  ASSUME ScheduleInv, NEW p \in Pollers, NEW x \in Fires, FireOK(x, runs, clock),
         poller' = [poller EXCEPT ![p] = x]
  PROVE  poller' \in [Pollers -> Fires] /\ \A q \in Pollers : FireOK(poller'[q], runs, clock)
BY Found

LEMMA OneClient ==
  ASSUME ScheduleInv, NEW c \in Clients, NEW x \in Calls, CallOK(x, runs, clock),
         client' = [client EXCEPT ![c] = x]
  PROVE  client' \in [Clients -> Calls] /\ \A b \in Clients : CallOK(client'[b], runs, clock)
BY Found

LEMMA OneMore ==
  ASSUME ScheduleInv
  PROVE  /\ calls < MaxCalls => calls + 1 \in 0..MaxCalls
         /\ faults < MaxScheduleFaults => faults + 1 \in 0..MaxScheduleFaults
BY Found, SchedulesAssumption

LEMMA PollOK ==
  ASSUME ScheduleInv, NEW p \in Pollers, Poll(p)
  PROVE  ScheduleInv'
<1> DEFINE x == [at |-> "check", row |-> row, now |-> clock, fired |-> FALSE]
<1>1. x \in Fires
  BY Found DEF Fires
<1>2. FireOK(x, runs, clock)
  BY Found DEF Poll, Due, FireOK, Times
<1>3. poller' \in [Pollers -> Fires] /\ \A q \in Pollers : FireOK(poller'[q], runs, clock)
  BY <1>1, <1>2, OnePoller DEF Poll
<1>4. kept' \in BOOLEAN /\ UNCHANGED <<clock, row, runs, client, calls, faults>>
  BY Found DEF Poll
<1> QED
  BY <1>3, <1>4, Found, StepOK

LEMMA CheckOK ==
  ASSUME ScheduleInv, NEW p \in Pollers, Check(p)
  PROVE  ScheduleInv'
<1> DEFINE skipped == Missed(p) \/ Early(p) \/ Overlapping(p)
           x == [poller[p] EXCEPT !.at = IF skipped THEN "advance" ELSE "start"]
<1>1. poller[p] \in Fires /\ poller[p].at = "check" /\ FireOK(poller[p], runs, clock)
  BY Found DEF Check
<1>2. poller[p].row.window \in Int /\ poller[p].row.def \in Defs /\ poller[p].now \in Times
  BY <1>1 DEF Fires, Rows
<1>3. About(poller[p]) = Latest(p) /\ Latest(p) \in Int
  BY <1>2, WindowFacts DEF About, Latest, Times
<1>4. ~skipped => poller[p].row.window <= About(poller[p])
  BY <1>2, <1>3 DEF Early
<1> HIDE DEF skipped
<1>5. x \in Fires /\ x.row = poller[p].row /\ x.now = poller[p].now /\ x.fired = poller[p].fired
      /\ x.at = (IF skipped THEN "advance" ELSE "start")
  BY <1>1 DEF Fires
<1>6. About(x) = About(poller[p]) /\ ~poller[p].fired
  BY <1>1, <1>5 DEF About, FireOK
<1>7. FireOK(x, runs, clock)
  BY <1>1, <1>4, <1>5, <1>6 DEF FireOK
<1>8. poller' = [poller EXCEPT ![p] = x]
  BY DEF Check, skipped
<1>9. UNCHANGED <<clock, row, runs, client, kept, calls, faults>>
  BY DEF Check
<1> HIDE DEF x
<1>10. poller' \in [Pollers -> Fires] /\ \A q \in Pollers : FireOK(poller'[q], runs, clock)
  BY <1>5, <1>7, <1>8, OnePoller
<1> QED
  BY <1>9, <1>10, Found, StepOK

\* The fire of p once it started, or found, the run of its window.
LEMMA StartedFire ==
  ASSUME ScheduleInv, NEW p \in Pollers, poller[p].at = "start", NEW b \in BOOLEAN,
         NEW g, Grown(runs, g), b => g[Latest(p)] # "none",
         NEW x, x = [poller[p] EXCEPT !.at = "advance", !.fired = b]
  PROVE  x \in Fires /\ FireOK(x, g, clock)
<1>1. poller[p] \in Fires /\ FireOK(poller[p], runs, clock) /\ clock \in Times /\ clock <= clock
  BY Found DEF Times
<1>2. FireOK(poller[p], g, clock)
  BY <1>1, FireGrows
<1>3. x \in Fires /\ x.row = poller[p].row /\ x.now = poller[p].now /\ x.fired = b /\ x.at = "advance"
  BY <1>1 DEF Fires
<1>4. About(x) = About(poller[p]) /\ About(x) = Latest(p)
  BY <1>3 DEF About, Latest
<1> QED
  BY <1>2, <1>3, <1>4 DEF FireOK

LEMMA StartWindowOK ==
  ASSUME ScheduleInv, NEW p \in Pollers, StartWindow(p)
  PROVE  ScheduleInv'
<1> DEFINE x == [poller[p] EXCEPT !.at = "advance", !.fired = TRUE]
<1>1. /\ poller[p] \in Fires /\ poller[p].at = "start" /\ FireOK(poller[p], runs, clock)
      /\ runs \in [Times -> RunStates] /\ clock \in Times
  BY Found DEF StartWindow
<1>2. poller[p].row.def \in Defs /\ poller[p].now \in Times /\ poller[p].now <= clock
  BY <1>1 DEF Fires, Rows, FireOK
<1>3. Latest(p) \in Times /\ Latest(p) <= poller[p].now
  BY <1>2, WindowFacts DEF Latest
<1>4. Latest(p) <= clock
  BY <1>1, <1>2, <1>3 DEF Times
<1>5. /\ runs' \in [Times -> RunStates] /\ Grown(runs, runs') /\ runs'[Latest(p)] # "none"
      /\ \A w \in Times : w # Latest(p) => runs'[w] = runs[w]
  BY <1>1, <1>3 DEF StartWindow, RunStates, Grown
<1>6. RunsPast(runs', clock)
  BY <1>4, <1>5 DEF ScheduleInv, RunsPast
<1>7. x \in Fires /\ FireOK(x, runs', clock)
  BY <1>1, <1>5, StartedFire
<1>8. poller' = [poller EXCEPT ![p] = x]
  BY DEF StartWindow
<1>9. clock <= clock
  BY <1>1 DEF Times
<1>10. \A q \in Pollers : FireOK(poller[q], runs', clock)
  BY <1>1, <1>5, <1>9, CopiesGrow
<1> HIDE DEF x
<1>11. poller' \in [Pollers -> Fires] /\ \A q \in Pollers : FireOK(poller'[q], runs', clock)
  BY <1>7, <1>8, <1>10, Found
<1>12. /\ UNCHANGED <<clock, row, client>>
       /\ kept' \in BOOLEAN /\ calls' \in 0..MaxCalls /\ faults' \in 0..MaxScheduleFaults
  BY Found DEF StartWindow
<1> QED
  BY <1>5, <1>6, <1>11, <1>12, RunsChangeOK

LEMMA StartFailsOK ==
  ASSUME ScheduleInv, NEW p \in Pollers, StartFails(p)
  PROVE  ScheduleInv'
<1> DEFINE b == runs[Latest(p)] # "none"
           x == [poller[p] EXCEPT !.at = "advance", !.fired = b]
<1>1. x \in Fires /\ FireOK(x, runs, clock)
  BY StartedFire DEF StartFails, Grown
<1>2. poller' = [poller EXCEPT ![p] = x]
  BY DEF StartFails
<1> HIDE DEF x
<1>3. poller' \in [Pollers -> Fires] /\ \A q \in Pollers : FireOK(poller'[q], runs, clock)
  BY <1>1, <1>2, OnePoller
<1>4. faults' \in 0..MaxScheduleFaults /\ UNCHANGED <<clock, row, runs, client, kept, calls>>
  BY OneMore DEF StartFails
<1> QED
  BY <1>3, <1>4, Found, StepOK

LEMMA AdvanceOK ==
  ASSUME ScheduleInv, NEW p \in Pollers, Advance(p)
  PROVE  ScheduleInv'
<1>1. FiredRow(p) \in Rows /\ RowOK(FiredRow(p), runs)
  BY FiredRowOK DEF Advance
<1>2. row' \in Rows /\ RowOK(row', runs)
  BY <1>1, Found DEF Advance
<1>3. NoFire \in Fires /\ FireOK(NoFire, runs, clock)
  BY Found, NoRowOK, NoCallOK
<1>4. poller' \in [Pollers -> Fires] /\ \A q \in Pollers : FireOK(poller'[q], runs, clock)
  BY <1>3, OnePoller DEF Advance
<1>5. kept' \in BOOLEAN /\ UNCHANGED <<clock, runs, client, calls, faults>>
  BY Found DEF Advance
<1> QED
  BY <1>2, <1>4, <1>5, Found, StepOK

LEMMA CrashPollerOK ==
  ASSUME ScheduleInv, NEW p \in Pollers, CrashPoller(p)
  PROVE  ScheduleInv'
<1>1. NoFire \in Fires /\ FireOK(NoFire, runs, clock)
  BY Found, NoRowOK, NoCallOK
<1>2. poller' \in [Pollers -> Fires] /\ \A q \in Pollers : FireOK(poller'[q], runs, clock)
  BY <1>1, OnePoller DEF CrashPoller
<1>3. kept' \in BOOLEAN /\ faults' \in 0..MaxScheduleFaults /\ UNCHANGED <<clock, row, runs, client, calls>>
  BY Found, OneMore DEF CrashPoller
<1> QED
  BY <1>2, <1>3, Found, StepOK

LEMMA ReadRowOK ==
  ASSUME ScheduleInv, NEW c \in Clients, NEW op \in Ops, NEW said \in PausedOpts, ReadRow(c, op, said)
  PROVE  ScheduleInv'
<1> DEFINE x == [op |-> op, said |-> said, row |-> row, now |-> clock]
<1>1. x \in Calls
  BY Found DEF Calls
<1>2. clock + 1 \in Int /\ row.window \in Int /\ row.fires \in Nat /\ clock \in Nat
  BY Found DEF Times, Rows
<1>3. \A w \in Times : runs[w] # "none" => w < clock + 1
  BY <1>2 DEF ScheduleInv, RunsPast, Times
<1>4. Counted(row.fires, runs, clock + 1)
  BY <1>2, <1>3, CountedMore, Found DEF RowOK, Grown
<1>5. CallOK(x, runs, clock)
  BY <1>2, <1>4, Found DEF CallOK, RowOK
<1>6. client' \in [Clients -> Calls] /\ \A b \in Clients : CallOK(client'[b], runs, clock)
  BY <1>1, <1>5, OneClient DEF ReadRow
<1>7. calls' \in 0..MaxCalls /\ UNCHANGED <<clock, row, runs, poller, kept, faults>>
  BY OneMore DEF ReadRow
<1> QED
  BY <1>6, <1>7, Found, StepOK

LEMMA DoneOK ==
  ASSUME ScheduleInv, NEW c \in Clients, Done(c)
  PROVE  client' \in [Clients -> Calls] /\ \A b \in Clients : CallOK(client'[b], runs, clock)
BY Found, NoRowOK, NoCallOK, OneClient DEF Done

LEMMA WriteOK ==
  ASSUME ScheduleInv, NEW c \in Clients, NEW d \in Defs, NEW t \in Since(c), Write(c, d, t)
  PROVE  ScheduleInv'
<1> DEFINE n == NextWindow(d, t)
           r == Written(c, d, Paused(c), t)
<1>1. client[c] \in Calls /\ client[c].row \in Rows /\ Paused(c) \in BOOLEAN
  BY Found DEF Calls, Rows, Paused
<1>2. n \in Nat /\ Jitter(d, n) \in Nat
  BY SinceRead, JitterNat
<1>3. n \in Int /\ n + Jitter(d, n) \in Int
  BY <1>2
<1>4. r = [client[c].row EXCEPT !.there = TRUE, !.def = d, !.paused = Paused(c),
                                !.window = n, !.next = n + Jitter(d, n)]
  BY DEF Written
<1> HIDE DEF n, r
<1>5. /\ r \in Rows /\ r.window = n /\ r.next = n + Jitter(d, n)
      /\ r.fires = client[c].row.fires /\ r.lastRun = client[c].row.lastRun
  BY <1>1, <1>3, <1>4 DEF Rows
<1>6. RowOK(r, runs)
  BY <1>5, ClientRowOK DEF n
<1>7. /\ row' = r /\ kept' \in BOOLEAN /\ Done(c)
      /\ UNCHANGED <<clock, runs, poller, calls, faults>>
  BY Found DEF Write, KeptBy, r
<1>8. client' \in [Clients -> Calls] /\ \A b \in Clients : CallOK(client'[b], runs, clock)
  BY <1>7, DoneOK
<1> QED
  BY <1>5, <1>6, <1>7, <1>8, Found, StepOK

LEMMA PauseOK ==
  ASSUME ScheduleInv, NEW c \in Clients, Pause(c)
  PROVE  ScheduleInv'
<1>1. client[c].row.def \in Defs /\ row \in Rows /\ RowOK(row, runs)
  BY Found DEF Calls, Rows
<1>2. /\ row' \in Rows /\ row'.window = row.window /\ row'.next = row.next /\ row'.there = row.there
      /\ row'.fires = row.fires /\ row'.lastRun = row.lastRun
  BY <1>1 DEF Pause, Rows
<1>3. RowOK(row', runs)
  BY <1>1, <1>2 DEF RowOK, Known
<1>4. Done(c) /\ UNCHANGED <<clock, runs, poller, kept, calls, faults>>
  BY DEF Pause
<1>5. client' \in [Clients -> Calls] /\ \A b \in Clients : CallOK(client'[b], runs, clock)
  BY <1>4, DoneOK
<1> QED
  BY <1>2, <1>3, <1>4, <1>5, Found, StepOK

LEMMA ResumeOK ==
  ASSUME ScheduleInv, NEW c \in Clients, NEW t \in Since(c), Resume(c, t)
  PROVE  ScheduleInv'
<1> DEFINE d == client[c].row.def
           n == NextWindow(d, t)
           r == ResumedRow(c, t)
<1>1. client[c] \in Calls /\ client[c].row \in Rows /\ d \in Defs /\ row \in Rows
  BY Found DEF Calls, Rows
<1>2. n \in Nat /\ Jitter(d, n) \in Nat
  BY <1>1, SinceRead, JitterNat
<1>3. n \in Int /\ n + Jitter(d, n) \in Int /\ client[c].row.fires \in Nat /\ client[c].row.lastRun \in Int
  BY <1>1, <1>2 DEF Rows
<1>4. r = [row EXCEPT !.paused = FALSE, !.window = n, !.next = n + Jitter(d, n),
                      !.lastRun = client[c].row.lastRun, !.fires = client[c].row.fires]
  BY DEF ResumedRow
<1> HIDE DEF n, r
<1>5. /\ r \in Rows /\ r.window = n /\ r.next = n + Jitter(d, n)
      /\ r.fires = client[c].row.fires /\ r.lastRun = client[c].row.lastRun
  BY <1>1, <1>3, <1>4 DEF Rows
<1>6. RowOK(r, runs)
  BY <1>1, <1>5, ClientRowOK DEF n
<1>7. /\ row' = (IF row.there THEN r ELSE row) /\ kept' \in BOOLEAN /\ Done(c)
      /\ UNCHANGED <<clock, runs, poller, calls, faults>>
  BY Found DEF Resume, KeptBy, r
<1>8. row' \in Rows /\ RowOK(row', runs)
  BY <1>5, <1>6, <1>7, Found
<1>9. client' \in [Clients -> Calls] /\ \A b \in Clients : CallOK(client'[b], runs, clock)
  BY <1>7, DoneOK
<1> QED
  BY <1>7, <1>8, <1>9, Found, StepOK

\* A step of a client.
Call(c) ==
  \/ \E op \in Ops \ {"none"}, said \in PausedOpts : ReadRow(c, op, said)
  \/ Pause(c)
  \/ \E now \in Since(c) : Resume(c, now) \/ \E d \in Defs : Write(c, d, now)

LEMMA DeleteOK ==
  ASSUME ScheduleInv, Delete
  PROVE  ScheduleInv'
<1>1. row' \in Rows /\ RowOK(row', runs) /\ kept' \in BOOLEAN /\ calls' \in 0..MaxCalls
  BY NoRowOK, OneMore, Found DEF Delete
<1>2. UNCHANGED <<clock, runs, poller, client, faults>>
  BY DEF Delete
<1> QED
  BY <1>1, <1>2, Found, StepOK

LEMMA ScheduleNextOK ==
  ASSUME ScheduleInv, [SchedulesNext]_schedVars
  PROVE  ScheduleInv'
<1>1. CASE Tick \/ Delete
  BY <1>1, TickOK, DeleteOK
<1>2. CASE \E w \in Times : FinishRun(w)
  BY <1>2, FinishRunOK
<1>3. CASE \E p \in Pollers : Poll(p) \/ Fire(p) \/ StartFails(p) \/ CrashPoller(p)
  <2>1. PICK p \in Pollers : Poll(p) \/ Fire(p) \/ StartFails(p) \/ CrashPoller(p)
    BY <1>3
  <2> QED
    BY <2>1, PollOK, CheckOK, StartWindowOK, AdvanceOK, StartFailsOK, CrashPollerOK DEF Fire
<1>4. CASE \E c \in Clients : Call(c)
  <2>1. PICK c \in Clients : Call(c)
    BY <1>4
  <2> QED
    BY <2>1, ReadRowOK, PauseOK, ResumeOK, WriteOK DEF Call
<1>5. CASE UNCHANGED schedVars
  BY <1>5 DEF schedVars, ScheduleInv, ScheduleTypeOK
<1> QED
  BY <1>1, <1>2, <1>3, <1>4, <1>5 DEF SchedulesNext, Call

LEMMA ScheduleInvAlways == SchedulesSpec => []ScheduleInv
<1>1. SchedulesInit => ScheduleInv
  BY ScheduleInitOK
<1>2. ScheduleInv /\ [SchedulesNext]_schedVars => ScheduleInv'
  BY ScheduleNextOK
<1> QED
  BY <1>1, <1>2, PTL DEF SchedulesSpec

-----------------------------------------------------------------------------
(* Overlap: what a fire knows of the runs before its window.               *)

\* The last run of a row is before the window the row waits for.
Behind(r) == r.lastRun # None => r.lastRun < r.window

LastRunPast ==
  /\ Behind(row)
  /\ \A p \in Pollers : poller[p].at # "idle" => Behind(poller[p].row)
  /\ \A c \in Clients : client[c].row.lastRun <= client[c].now

\* A fire that is to start its window found the last run over.
CheckedOver ==
  \A p \in Pollers : poller[p].at = "start" /\ poller[p].row.def.skip /\ poller[p].row.lastRun \in Times =>
    runs[poller[p].row.lastRun] # "live"

\* All fires under way are of one window.
OneWindow ==
  \A p, q \in Pollers : poller[p].at # "idle" /\ poller[q].at # "idle" => About(poller[p]) = About(poller[q])

\* No run is later than the last one the row knows, but for a fire that has yet to write it.
RowKnows ==
  \A w \in Times : runs[w] # "none" =>
    \/ w <= row.lastRun
    \/ \E p \in Pollers : poller[p].at # "idle" /\ poller[p].fired /\ About(poller[p]) = w

\* A fire read of the last run before its window, and the row has learnt of that window's only since.
FireKnows(x, r, f) ==
  x.at # "idle" =>
    /\ \A w \in Times : f[w] # "none" /\ w < About(x) => w <= x.row.lastRun
    /\ r.lastRun <= x.row.lastRun \/ r.lastRun <= About(x)

OverlapInv ==
  /\ LastRunPast /\ CheckedOver
  /\ kept => OneWindow /\ RowKnows /\ \A p \in Pollers : FireKnows(poller[p], row, runs)

\* The numbers a fire compares.
LEMMA FireNumbers ==
  ASSUME ScheduleInv, NEW p \in Pollers
  PROVE  /\ poller[p] \in Fires /\ poller[p].row \in Rows /\ poller[p].row.def \in Defs /\ poller[p].now \in Times
         /\ poller[p].row.lastRun \in Int /\ poller[p].row.window \in Int /\ poller[p].row.next \in Int
         /\ About(poller[p]) = Latest(p) /\ About(poller[p]) \in Times /\ About(poller[p]) \in Int
         /\ poller[p].now \in Int
<1>1. poller[p] \in Fires /\ poller[p].row \in Rows /\ poller[p].row.def \in Defs /\ poller[p].now \in Times
  BY Found DEF Fires, Rows
<1>2. About(poller[p]) = Latest(p) /\ About(poller[p]) \in Times
  BY <1>1, WindowFacts DEF About, Latest
<1> QED
  BY <1>1, <1>2 DEF Rows, Times

\* A step of the clock, of a run's end, or of a client: it leaves the fires alone, and the
\* last run the row knows, or else the row is known to be behind.
LEMMA FiresLeftAlone ==
  ASSUME ScheduleInv, OverlapInv, poller' = poller, kept' => kept /\ row'.lastRun = row.lastRun,
         \A w \in Times : (runs'[w] # "none" <=> runs[w] # "none") /\ (runs'[w] = "live" => runs[w] = "live"),
         Behind(row'), \A c \in Clients : client'[c].row.lastRun <= client'[c].now
  PROVE  OverlapInv'
<1>1. LastRunPast' /\ CheckedOver'
  BY DEF OverlapInv, LastRunPast, CheckedOver
<1>2. ASSUME kept' PROVE OneWindow' /\ RowKnows'
  BY <1>2 DEF OverlapInv, OneWindow, RowKnows, About
<1>3. ASSUME kept', NEW p \in Pollers PROVE FireKnows(poller'[p], row', runs')
  BY <1>3 DEF OverlapInv, FireKnows
<1> QED
  BY <1>1, <1>2, <1>3 DEF OverlapInv

LEMMA OverlapInit == SchedulesInit => OverlapInv
<1> SUFFICES ASSUME SchedulesInit PROVE OverlapInv
  OBVIOUS
<1>1. NoRow.lastRun = None /\ NoFire.at = "idle" /\ NoCall.row.lastRun = None /\ NoCall.now = 0
  BY DEF NoRow, NoFire, NoCall
<1>2. LastRunPast
  BY <1>1 DEF SchedulesInit, LastRunPast, Behind, None
<1>3. CheckedOver /\ OneWindow /\ \A p \in Pollers : FireKnows(poller[p], row, runs)
  BY <1>1 DEF SchedulesInit, CheckedOver, OneWindow, FireKnows
<1>4. RowKnows
  BY DEF SchedulesInit, RowKnows
<1> QED
  BY <1>2, <1>3, <1>4 DEF OverlapInv

LEMMA OverlapTick ==
  ASSUME ScheduleInv, OverlapInv, Tick \/ Delete \/ \E w \in Times : FinishRun(w)
  PROVE  OverlapInv'
<1>1. CASE Tick
  BY <1>1, FiresLeftAlone DEF Tick, OverlapInv, LastRunPast
<1>2. CASE Delete
  <2>1. NoRow.lastRun = None
    BY DEF NoRow
  <2> QED
    BY <1>2, <2>1, FiresLeftAlone DEF Delete, OverlapInv, LastRunPast, Behind
<1>3. CASE \E w \in Times : FinishRun(w)
  <2>1. PICK w \in Times : FinishRun(w)
    BY <1>3
  <2>2. \A v \in Times : (runs'[v] # "none" <=> runs[v] # "none") /\ (runs'[v] = "live" => runs[v] = "live")
    BY <2>1, Found DEF FinishRun
  <2> QED
    BY <2>1, <2>2, FiresLeftAlone DEF FinishRun, OverlapInv, LastRunPast
<1> QED
  BY <1>1, <1>2, <1>3

\* A client writes the first window after the time it read the row.
LEMMA ClientBehind ==
  ASSUME ScheduleInv, OverlapInv, NEW c \in Clients, NEW d \in Defs, NEW t \in Since(c), NEW r,
         r.window = NextWindow(d, t), r.lastRun = client[c].row.lastRun
  PROVE  Behind(r)
<1>1. client[c] \in Calls /\ client[c].now \in Times /\ client[c].row.lastRun \in Int
  BY Found DEF Calls, Rows
<1>2. client[c].now < r.window /\ r.window \in Int /\ client[c].now \in Int
  BY <1>1, SinceRead DEF Times
<1>3. client[c].row.lastRun <= client[c].now
  BY DEF OverlapInv, LastRunPast
<1> QED
  BY <1>1, <1>2, <1>3 DEF Behind

LEMMA OverlapClient ==
  ASSUME ScheduleInv, OverlapInv, NEW c \in Clients, Call(c)
  PROVE  OverlapInv'
<1>1. client \in [Clients -> Calls] /\ client[c] \in Calls /\ client[c].row \in Rows /\ row \in Rows
      /\ client[c].row.def \in Defs
  BY Found DEF Calls, Rows
<1>2. /\ NoCall.row.lastRun <= NoCall.now
      /\ \A b \in Clients : client[b].row.lastRun <= client[b].now
      /\ Behind(row)
  BY DEF NoCall, NoRow, None, OverlapInv, LastRunPast
<1>3. Done(c) => \A b \in Clients : client'[b].row.lastRun <= client'[b].now
  BY <1>1, <1>2 DEF Done
<1>4. CASE \E op \in Ops \ {"none"}, said \in PausedOpts : ReadRow(c, op, said)
  <2>1. PICK op \in Ops \ {"none"}, said \in PausedOpts : ReadRow(c, op, said)
    BY <1>4
  <2>2. row.lastRun <= clock
    <3>1. row.lastRun # None => row.lastRun <= clock
      BY Found DEF RowOK, Known, ScheduleInv, RunsPast
    <3>2. clock \in Nat
      BY Found DEF Times
    <3> QED
      BY <3>1, <3>2 DEF None
  <2>3. \A b \in Clients : client'[b].row.lastRun <= client'[b].now
    BY <1>1, <1>2, <2>1, <2>2 DEF ReadRow
  <2> QED
    BY <1>2, <2>1, <2>3, FiresLeftAlone DEF ReadRow
<1>5. CASE Pause(c)
  <2>1. row'.lastRun = row.lastRun /\ row'.window = row.window
    BY <1>1, <1>5 DEF Pause, Rows
  <2>2. Behind(row')
    BY <1>2, <2>1 DEF Behind
  <2> QED
    BY <1>3, <1>5, <2>1, <2>2, FiresLeftAlone DEF Pause
<1>6. ASSUME NEW t \in Since(c), Resume(c, t) PROVE OverlapInv'
  <2> DEFINE n == NextWindow(client[c].row.def, t)
             r == ResumedRow(c, t)
  <2>1. r.window = n /\ r.lastRun = client[c].row.lastRun
    BY <1>1 DEF ResumedRow, Rows
  <2>2. Behind(r)
    BY <1>1, <2>1, ClientBehind
  <2>3. row' = (IF row.there THEN r ELSE row)
    BY <1>6 DEF Resume
  <2> HIDE DEF r
  <2>4. Behind(row') /\ (kept' => kept /\ row'.lastRun = row.lastRun)
    BY <1>2, <1>6, <2>1, <2>2, <2>3 DEF Resume, KeptBy
  <2> QED
    BY <1>3, <1>6, <2>4, FiresLeftAlone DEF Resume
<1>7. ASSUME NEW t \in Since(c), NEW d \in Defs, Write(c, d, t) PROVE OverlapInv'
  <2>1. Write(c, d, t)
    BY <1>7
  <2> DEFINE n == NextWindow(d, t)
             r == Written(c, d, Paused(c), t)
  <2>2. r.window = n /\ r.lastRun = client[c].row.lastRun
    BY <1>1 DEF Written, Rows
  <2>3. Behind(r)
    BY <2>2, ClientBehind
  <2>4. row' = r
    BY <2>1 DEF Write
  <2> HIDE DEF r
  <2>5. Behind(row') /\ (kept' => kept /\ row'.lastRun = row.lastRun)
    BY <2>1, <2>2, <2>3, <2>4 DEF Write, KeptBy
  <2> QED
    BY <1>3, <2>1, <2>5, FiresLeftAlone DEF Write
<1> QED
  BY <1>4, <1>5, <1>6, <1>7 DEF Call

LEMMA OverlapPoll ==
  ASSUME ScheduleInv, OverlapInv, NEW p \in Pollers, Poll(p)
  PROVE  OverlapInv'
<1> DEFINE x == [at |-> "check", row |-> row, now |-> clock, fired |-> FALSE]
<1>1. /\ poller[p].at = "idle" /\ poller' = [poller EXCEPT ![p] = x] /\ poller \in [Pollers -> Fires]
      /\ UNCHANGED <<clock, row, runs, client>>
      /\ kept' = (kept /\ \A q \in Pollers : poller[q].at # "idle" => Latest(q) = LatestWindow(row.def, clock))
  BY Found DEF Poll
<1>2. poller'[p] = x /\ \A q \in Pollers \ {p} : poller'[q] = poller[q]
  BY <1>1
<1>3. x.at = "check" /\ x.row = row /\ x.fired = FALSE /\ About(x) = LatestWindow(row.def, clock)
  BY DEF About
<1> HIDE DEF x
<1>4. LastRunPast' /\ CheckedOver'
  BY <1>1, <1>2, <1>3 DEF OverlapInv, LastRunPast, CheckedOver
<1>5. row \in Rows /\ clock \in Times /\ row.lastRun \in Int
  BY Found DEF Rows
<1>6. LatestWindow(row.def, clock) \in Times
  BY <1>5, WindowFacts DEF Rows
<1>7. kept' => kept /\ \A q \in Pollers \ {p} : poller[q].at # "idle" => About(poller[q]) = About(x)
  BY <1>1, <1>3, FireNumbers
<1>8. ASSUME kept' PROVE OneWindow'
  BY <1>2, <1>3, <1>7, <1>8 DEF OverlapInv, OneWindow
<1>9. ASSUME kept' PROVE RowKnows'
  <2>1. \A q \in Pollers : poller[q].at # "idle" => q # p /\ poller'[q] = poller[q]
    BY <1>1, <1>2
  <2> QED
    BY <1>1, <1>7, <1>9, <2>1 DEF OverlapInv, RowKnows
<1>10. ASSUME kept' PROVE FireKnows(x, row, runs)
  <2>1. ASSUME NEW w \in Times, runs[w] # "none", w < About(x) PROVE w <= row.lastRun
    <3>1. CASE w <= row.lastRun
      BY <3>1
    <3>2. CASE \E q \in Pollers : poller[q].at # "idle" /\ poller[q].fired /\ About(poller[q]) = w
      BY <1>1, <1>3, <1>6, <1>7, <1>10, <2>1, <3>2 DEF Times
    <3> QED
      BY <1>7, <1>10, <2>1, <3>1, <3>2 DEF OverlapInv, RowKnows
  <2> QED
    BY <1>3, <1>5, <2>1 DEF FireKnows
<1>11. ASSUME kept', NEW q \in Pollers PROVE FireKnows(poller'[q], row', runs')
  BY <1>1, <1>2, <1>7, <1>10, <1>11 DEF OverlapInv
<1> QED
  BY <1>4, <1>8, <1>9, <1>11 DEF OverlapInv

LEMMA OverlapCheck ==
  ASSUME ScheduleInv, OverlapInv, NEW p \in Pollers, Check(p)
  PROVE  OverlapInv'
<1> DEFINE skipped == Missed(p) \/ Early(p) \/ Overlapping(p)
           x == [poller[p] EXCEPT !.at = IF skipped THEN "advance" ELSE "start"]
<1>1. /\ poller[p].at = "check" /\ poller' = [poller EXCEPT ![p] = x] /\ poller \in [Pollers -> Fires]
      /\ UNCHANGED <<clock, row, runs, client, kept>>
  BY Found DEF Check
<1>2. poller[p] \in Fires
  BY <1>1
<1>3. x.row = poller[p].row /\ x.now = poller[p].now /\ x.fired = poller[p].fired /\ x.at # "idle"
      /\ (x.at = "start" => ~Overlapping(p))
  BY <1>2 DEF Fires
<1> HIDE DEF x, skipped
<1>4. poller'[p] = x /\ \A q \in Pollers \ {p} : poller'[q] = poller[q]
  BY <1>1
<1>5. About(x) = About(poller[p]) /\ poller[p].at # "idle"
  BY <1>1, <1>3 DEF About
<1>6. LastRunPast' /\ CheckedOver'
  BY <1>1, <1>3, <1>4, <1>5 DEF OverlapInv, LastRunPast, CheckedOver, Overlapping
<1>7. \A q \in Pollers : /\ poller'[q].at # "idle" <=> poller[q].at # "idle"
                         /\ poller'[q].fired = poller[q].fired /\ About(poller'[q]) = About(poller[q])
                         /\ poller'[q].row = poller[q].row
  BY <1>3, <1>4, <1>5
<1>8. ASSUME kept' PROVE OneWindow' /\ RowKnows'
  BY <1>1, <1>7, <1>8 DEF OverlapInv, OneWindow, RowKnows
<1>9. ASSUME kept', NEW q \in Pollers PROVE FireKnows(poller'[q], row', runs')
  BY <1>1, <1>7, <1>9 DEF OverlapInv, FireKnows
<1> QED
  BY <1>6, <1>8, <1>9 DEF OverlapInv

LEMMA OverlapStart ==
  ASSUME ScheduleInv, OverlapInv, NEW p \in Pollers, StartWindow(p) \/ StartFails(p)
  PROVE  OverlapInv'
<1> DEFINE b == IF StartWindow(p) THEN TRUE ELSE runs[Latest(p)] # "none"
           x == [poller[p] EXCEPT !.at = "advance", !.fired = b]
<1>1. /\ poller[p].at = "start" /\ poller[p] \in Fires
      /\ UNCHANGED <<row, client, kept>> /\ poller' = [poller EXCEPT ![p] = x]
      /\ poller \in [Pollers -> Fires]
  BY Found DEF StartWindow, StartFails
<1>2. /\ x.row = poller[p].row /\ x.now = poller[p].now /\ x.at = "advance" /\ x.fired = b
      /\ poller'[p] = x /\ \A q \in Pollers \ {p} : poller'[q] = poller[q]
  BY <1>1 DEF Fires
<1>3. About(x) = About(poller[p]) /\ About(x) = Latest(p) /\ Latest(p) \in Times
  BY <1>2, FireNumbers DEF About
<1>4. ~poller[p].fired
  BY <1>1, Found DEF FireOK
<1>5. \A w \in Times : /\ w # Latest(p) => runs'[w] = runs[w]
                       /\ runs[w] # "none" => runs'[w] = runs[w]
                       /\ runs'[w] # "none" /\ runs[w] = "none" => w = Latest(p) /\ b
  BY <1>3, Found DEF StartWindow, StartFails
<1> HIDE DEF x, b
<1>6. LastRunPast'
  BY <1>1, <1>2 DEF OverlapInv, LastRunPast
<1>7. CheckedOver'
  <2> SUFFICES ASSUME NEW q \in Pollers, poller'[q].at = "start", poller'[q].row.def.skip,
                      poller'[q].row.lastRun \in Times
               PROVE  runs'[poller'[q].row.lastRun] # "live"
    BY DEF CheckedOver
  <2>1. q # p /\ poller'[q] = poller[q]
    BY <1>2
  <2>2. runs[poller[q].row.lastRun] # "none" /\ runs[poller[q].row.lastRun] # "live"
    BY <2>1, Found DEF FireOK, RowOK, Known, OverlapInv, CheckedOver, Times, None
  <2> QED
    BY <1>5, <2>1, <2>2
<1>8. \A q \in Pollers : /\ poller'[q].at # "idle" <=> poller[q].at # "idle"
                         /\ poller[q].fired => poller'[q].fired
                         /\ About(poller'[q]) = About(poller[q]) /\ poller'[q].row = poller[q].row
  BY <1>1, <1>2, <1>3, <1>4
<1>9. ASSUME kept' PROVE OneWindow'
  BY <1>1, <1>8, <1>9 DEF OverlapInv, OneWindow
<1>10. ASSUME kept' PROVE RowKnows'
  <2> SUFFICES ASSUME NEW w \in Times, runs'[w] # "none"
               PROVE  \/ w <= row'.lastRun
                      \/ \E q \in Pollers : poller'[q].at # "idle" /\ poller'[q].fired /\ About(poller'[q]) = w
    BY DEF RowKnows
  <2>1. CASE runs[w] # "none"
    BY <1>1, <1>8, <1>10, <2>1 DEF OverlapInv, RowKnows
  <2>2. CASE runs[w] = "none"
    <3>1. w = Latest(p) /\ b
      BY <1>5, <2>2
    <3>2. poller'[p].at # "idle" /\ poller'[p].fired /\ About(poller'[p]) = w
      BY <1>2, <1>3, <3>1
    <3> QED
      BY <3>2
  <2> QED
    BY <2>1, <2>2
<1>11. ASSUME kept', NEW q \in Pollers PROVE FireKnows(poller'[q], row', runs')
  <2> SUFFICES ASSUME poller[q].at # "idle"
               PROVE  /\ \A w \in Times : runs'[w] # "none" /\ w < About(poller[q]) => w <= poller[q].row.lastRun
                      /\ row.lastRun <= poller[q].row.lastRun \/ row.lastRun <= About(poller[q])
    BY <1>1, <1>8 DEF FireKnows
  <2>1. About(poller[q]) = Latest(p)
    BY <1>1, <1>3, <1>11 DEF OverlapInv, OneWindow
  <2>2. \A w \in Times : runs'[w] # "none" /\ w < About(poller[q]) => runs[w] # "none"
    BY <1>3, <1>5, <2>1 DEF Times
  <2> QED
    BY <1>1, <1>11, <2>2 DEF OverlapInv, FireKnows
<1> QED
  BY <1>6, <1>7, <1>9, <1>10, <1>11 DEF OverlapInv

LEMMA OverlapAdvance ==
  ASSUME ScheduleInv, OverlapInv, NEW p \in Pollers, Advance(p)
  PROVE  OverlapInv'
<1> DEFINE x == poller[p]
           n == NextWindow(x.row.def, Latest(p))
<1>1. /\ x.at = "advance" /\ poller' = [poller EXCEPT ![p] = NoFire] /\ poller \in [Pollers -> Fires]
      /\ UNCHANGED <<clock, runs, client>> /\ row' = (IF Wins(p) THEN FiredRow(p) ELSE row)
      /\ kept' = (kept /\ row'.lastRun = (IF x.fired THEN Latest(p) ELSE row.lastRun))
  BY Found DEF Advance
<1>2. poller'[p] = NoFire /\ NoFire.at = "idle" /\ \A q \in Pollers \ {p} : poller'[q] = poller[q]
  BY <1>1 DEF NoFire
<1>3. /\ Latest(p) \in Int /\ Latest(p) = About(x) /\ x.row.lastRun \in Int /\ x.row.window \in Int
      /\ x.row.next \in Int /\ x.now \in Int
  BY FireNumbers
<1>4. row \in Rows /\ row.lastRun \in Int
  BY Found DEF Rows
<1>5. /\ x.row.window <= x.row.next /\ x.row.next <= x.now
      /\ x.fired => x.row.window <= Latest(p)
      /\ x.row.lastRun # None => x.row.lastRun < x.row.window
  BY <1>1, <1>3, Found DEF FireOK, RowOK, OverlapInv, LastRunPast, Behind
<1>6. n \in Int /\ x.now < n /\ Latest(p) < n
  <2>1. n = NextWindow(x.row.def, x.now) /\ n \in Nat /\ x.now < n /\ Latest(p) <= x.now
    BY FireNumbers, WindowFacts DEF Latest
  <2> QED
    BY <1>3, <2>1
<1>7. FiredRow(p).window = n /\ FiredRow(p).lastRun = (IF x.fired THEN Latest(p) ELSE x.row.lastRun)
  BY <1>4 DEF FiredRow, Rows
<1> HIDE DEF n
<1>8. Behind(FiredRow(p))
  BY <1>3, <1>5, <1>6, <1>7 DEF Behind
<1>9. LastRunPast' /\ CheckedOver'
  BY <1>1, <1>2, <1>8 DEF OverlapInv, LastRunPast, CheckedOver
<1>10. ASSUME kept' PROVE OneWindow'
  BY <1>1, <1>2, <1>10 DEF OverlapInv, OneWindow
\* What the row knew, it knows: no later run is put back by an earlier one.
<1>11. ASSUME kept', x.fired PROVE row'.lastRun = Latest(p) /\ row.lastRun <= Latest(p)
  <2>1. row'.lastRun = Latest(p) /\ (row.lastRun <= x.row.lastRun \/ row.lastRun <= Latest(p))
    BY <1>1, <1>3, <1>11 DEF OverlapInv, FireKnows
  <2>2. x.row.lastRun <= Latest(p)
    BY <1>3, <1>5, <1>11, FireNumbers DEF None, Times
  <2> QED
    BY <1>3, <1>4, <2>1, <2>2
<1>12. ASSUME kept' PROVE RowKnows'
  <2> SUFFICES ASSUME NEW w \in Times, runs[w] # "none",
                      ~\E q \in Pollers : poller'[q].at # "idle" /\ poller'[q].fired /\ About(poller'[q]) = w
               PROVE  w <= row'.lastRun
    BY <1>1 DEF RowKnows
  <2>1. kept /\ (w <= row.lastRun \/ (x.fired /\ Latest(p) = w))
    BY <1>1, <1>2, <1>3, <1>12 DEF OverlapInv, RowKnows
  <2>2. CASE x.fired
    BY <1>3, <1>4, <1>11, <1>12, <2>1, <2>2 DEF Times
  <2>3. CASE ~x.fired
    BY <1>1, <1>12, <2>1, <2>3
  <2> QED
    BY <2>2, <2>3
<1>13. ASSUME kept', NEW q \in Pollers PROVE FireKnows(poller'[q], row', runs')
  <2> SUFFICES ASSUME q # p, poller[q].at # "idle"
               PROVE  row'.lastRun <= poller[q].row.lastRun \/ row'.lastRun <= About(poller[q])
    BY <1>1, <1>2, <1>13 DEF OverlapInv, FireKnows
  <2>1. CASE x.fired
    <3>1. About(poller[q]) = Latest(p)
      BY <1>1, <1>3, <1>13 DEF OverlapInv, OneWindow
    <3> QED
      BY <1>3, <1>11, <1>13, <2>1, <3>1
  <2>2. CASE ~x.fired
    BY <1>1, <1>13, <2>2 DEF OverlapInv, FireKnows
  <2> QED
    BY <2>1, <2>2
<1> QED
  BY <1>9, <1>10, <1>12, <1>13 DEF OverlapInv

LEMMA OverlapCrash ==
  ASSUME ScheduleInv, OverlapInv, NEW p \in Pollers, CrashPoller(p)
  PROVE  OverlapInv'
<1>1. /\ poller' = [poller EXCEPT ![p] = NoFire] /\ poller \in [Pollers -> Fires]
      /\ UNCHANGED <<clock, row, runs, client>> /\ kept' = (kept /\ ~poller[p].fired)
  BY Found DEF CrashPoller
<1>2. poller'[p] = NoFire /\ NoFire.at = "idle" /\ \A q \in Pollers \ {p} : poller'[q] = poller[q]
  BY <1>1 DEF NoFire
<1>3. LastRunPast' /\ CheckedOver'
  BY <1>1, <1>2 DEF OverlapInv, LastRunPast, CheckedOver
<1>4. ASSUME kept' PROVE OneWindow'
  BY <1>1, <1>2, <1>4 DEF OverlapInv, OneWindow
<1>5. ASSUME kept' PROVE RowKnows'
  <2>1. \A q \in Pollers : poller[q].fired => poller'[q] = poller[q]
    BY <1>1, <1>2, <1>5
  <2> QED
    BY <1>1, <1>5, <2>1 DEF OverlapInv, RowKnows
<1>6. ASSUME kept', NEW q \in Pollers PROVE FireKnows(poller'[q], row', runs')
  BY <1>1, <1>2, <1>6 DEF OverlapInv, FireKnows
<1> QED
  BY <1>3, <1>4, <1>5, <1>6 DEF OverlapInv

LEMMA OverlapStutter ==
  ASSUME OverlapInv, UNCHANGED schedVars
  PROVE  OverlapInv'
<1>1. UNCHANGED <<row, runs, poller, client, kept>>
  BY DEF schedVars
<1>2. LastRunPast' /\ CheckedOver' /\ (kept' => OneWindow' /\ RowKnows')
  BY <1>1 DEF OverlapInv, LastRunPast, CheckedOver, OneWindow, RowKnows
<1>3. ASSUME kept', NEW q \in Pollers PROVE FireKnows(poller'[q], row', runs')
  BY <1>1, <1>3 DEF OverlapInv
<1> QED
  BY <1>2, <1>3 DEF OverlapInv

LEMMA OverlapNext ==
  ASSUME ScheduleInv, OverlapInv, [SchedulesNext]_schedVars
  PROVE  OverlapInv'
<1>1. CASE \E p \in Pollers : Poll(p) \/ Fire(p) \/ StartFails(p) \/ CrashPoller(p)
  BY <1>1, OverlapPoll, OverlapCheck, OverlapStart, OverlapAdvance, OverlapCrash DEF Fire
<1>2. CASE \E c \in Clients : Call(c)
  BY <1>2, OverlapClient
<1>3. CASE Tick \/ Delete \/ \E w \in Times : FinishRun(w)
  BY <1>3, OverlapTick
<1>4. CASE UNCHANGED schedVars
  BY <1>4, OverlapStutter
<1> QED
  BY <1>1, <1>2, <1>3, <1>4 DEF SchedulesNext, Call

\* The run before the window is the last one the fire read, which it found over.
LEMMA StartSkips ==
  ASSUME ScheduleInv, OverlapInv, NEW p \in Pollers, StartWindow(p), kept, poller[p].row.def.skip, runs' # runs,
         NEW w \in Times, w < Latest(p), runs[w] = "live"
  PROVE  \E v \in Times : w < v /\ v < Latest(p) /\ runs[v] # "none"
<1> DEFINE l == poller[p].row.lastRun
<1>1. /\ poller[p].at = "start" /\ About(poller[p]) = Latest(p) /\ l \in Int
      /\ Latest(p) \in Int /\ poller[p].row.window \in Int /\ w \in Int /\ w >= 0
  BY FireNumbers DEF StartWindow, Times
<1>2. w <= l
  BY <1>1 DEF OverlapInv, FireKnows
<1>3. l # None
  BY <1>1, <1>2 DEF None
<1>4. l \in Times /\ runs[l] # "none" /\ l < poller[p].row.window /\ poller[p].row.window <= Latest(p)
  BY <1>1, <1>3, Found DEF FireOK, RowOK, Known, OverlapInv, LastRunPast, Behind
<1>5. runs[l] # "live"
  BY <1>1, <1>4 DEF OverlapInv, CheckedOver
<1>6. w < l /\ l < Latest(p)
  BY <1>1, <1>2, <1>4, <1>5
<1> QED
  BY <1>4, <1>6

-----------------------------------------------------------------------------
(* The theorems.                                                           *)

\* The row, and everything a poller or client read of it, is well formed, and its
\* last run is there (fire, write, pause, resume).
THEOREM ScheduleTypes == SchedulesSpec => []ScheduleTypeOK
<1>1. ScheduleInv => ScheduleTypeOK
  BY DEF ScheduleInv
<1> QED
  BY <1>1, ScheduleInvAlways, PTL

\* `fires` never counts a window twice, however fires, blind writes and crashes
\* of any number of pollers and clients cross (fire's state patch).
THEOREM FiresCountedOnce == SchedulesSpec => []CountedOnce
<1>1. ScheduleInv => CountedOnce
  BY DEF ScheduleInv, RowOK, Counted, Upto, CountedOnce
<1> QED
  BY <1>1, ScheduleInvAlways, PTL

\* A poller moves the schedule on and never back: updateSchedule's compare-and-set
\* keeps out the one whose fire is old.
THEOREM PollersMoveOn == SchedulesSpec => PollersForward
<1> DEFINE On == \A p \in Pollers : Advance(p) /\ row' # row => row'.next > row.next /\ row'.next > poller[p].now
<1>1. ASSUME ScheduleInv, NEW p \in Pollers, Advance(p), row' # row
      PROVE  row'.next > row.next /\ row'.next > poller[p].now
  <2>1. row' = FiredRow(p) /\ row.next = poller[p].row.next /\ poller[p].at = "advance"
    BY <1>1 DEF Advance, Wins
  <2>2. FiredRow(p) \in Rows /\ FiredRow(p).next > poller[p].now
    BY <1>1, <2>1, FiredRowOK
  <2>3. /\ poller[p] \in Fires /\ FireOK(poller[p], runs, clock) /\ row \in Rows
    BY <1>1, Found
  <2>4. poller[p].row.next <= poller[p].now /\ poller[p].now \in Int /\ row.next \in Int
    BY <2>1, <2>3 DEF FireOK, Fires, Rows, Times
  <2>5. FiredRow(p).next \in Int
    BY <2>2 DEF Rows
  <2> QED
    BY <2>1, <2>2, <2>4, <2>5
<1>2. ScheduleInv => On
  BY <1>1
<1>3. ScheduleInv /\ [SchedulesNext]_schedVars => [On]_schedVars
  BY <1>2
<1> QED
  BY <1>3, ScheduleInvAlways, PTL DEF SchedulesSpec, PollersForward

\* While the row knows the schedule's runs, a window is not started beside the run before it
\* (overlapping, fire), whatever clients write meanwhile.
THEOREM OverlapSkipped == SchedulesSpec => SkipsOverlap
<1>1. SchedulesInit => OverlapInv
  BY OverlapInit
<1>2. ScheduleInv /\ OverlapInv /\ [SchedulesNext]_schedVars => OverlapInv'
  BY OverlapNext
<1> DEFINE A == \A p \in Pollers : StartWindow(p) /\ kept /\ poller[p].row.def.skip /\ runs' # runs =>
                  \A w \in Times : w < Latest(p) /\ runs[w] = "live" =>
                    \E v \in Times : w < v /\ v < Latest(p) /\ runs[v] # "none"
<1>3. ScheduleInv /\ OverlapInv /\ [SchedulesNext]_schedVars => [A]_schedVars
  BY StartSkips
<1>4. SkipsOverlap <=> [][A]_schedVars
  BY DEF SkipsOverlap
<1> QED
  BY <1>1, <1>2, <1>3, <1>4, ScheduleInvAlways, PTL DEF SchedulesSpec
=============================================================================
