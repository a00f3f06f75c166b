-------------------------- MODULE RetentionProofs --------------------------
(***************************************************************************)
(* What holds of Retention for any number of runs and targets, any         *)
(* periods, any interleaving, any failing call and any kill.  Each theorem *)
(* names what else it needs: a clock that nobody steps, names of which     *)
(* none is another one and a dash (NoTwins), names and buckets that the    *)
(* store does not escape (Unescaped), runs that keep apart (Apart).        *)
(***************************************************************************)
EXTENDS Retention, FiniteSetTheorems, TLAPS

\* The types the argument needs; TypeOK bounds them, which it does not need.
Shape ==
    /\ now \in Nat
    /\ store \in [Locations -> SUBSET (Names \X Exts \X Nat)]
    /\ pc \in [Runs -> {"idle"} \cup Live \cup Ended]
    /\ stamp \in [Runs -> Nat]
    /\ delivered \in [Runs -> SUBSET Locations]
    /\ sweepNow \in [Runs -> Nat]
    /\ expired \in [Runs -> SUBSET (Names \X Exts \X Nat)]

\* A run that has not started has delivered nothing, so that taking its
\* stamp renames no archive.
IdleEmpty == \A r \in Runs : pc[r] = "idle" => delivered[r] = {}

\* The clock reading of a cleanup lies in the past.
SweepInPast == \A r \in Runs : sweepNow[r] <= now

\* What a run is about to delete was older than its period at that reading.
ExpiredOld ==
    \A r \in Runs : \A a \in expired[r] :
        /\ PeriodOf[r] # Unlimited
        /\ a[3] * TicksPerSecond < sweepNow[r] - PeriodOf[r] * TicksPerSecond

\* No --name in use is another one with a dash appended.
NoTwins == \A r \in Runs, n \in Names : <<NameOf[r], n>> \notin Dashed

RInv == Shape /\ IdleEmpty /\ SweepInPast /\ ExpiredOld /\ FreshArchiveKept

\* A second has as many ticks, and a period as many seconds, as we think.
LEMMA Products ==
  /\ \A s \in Nat : s * TicksPerSecond \in Nat
  /\ \A r \in Runs : PeriodOf[r] # Unlimited => PeriodOf[r] * TicksPerSecond \in Nat
  <1>1. TicksPerSecond \in Nat
    BY TicksAssumption
  <1>2. \A s \in Nat : s * TicksPerSecond \in Nat
    BY <1>1
  <1>3. \A r \in Runs : PeriodOf[r] # Unlimited => PeriodOf[r] \in Nat
    BY PeriodAssumption
  <1> QED
    BY <1>2, <1>3

LEMMA RInvInit == Init => RInv
  BY DEF Init, RInv, Shape, IdleEmpty, SweepInPast, ExpiredOld, FreshArchiveKept

\* An archive within every period is in no run's list of expired ones.
LEMMA FreshNotExpired ==
  ASSUME RInv, NEW r \in Runs, NEW q \in Runs,
         WithinEveryPeriod(now - stamp[r] * TicksPerSecond)
  PROVE  Own(r) \notin expired[q]
  <1> SUFFICES ASSUME Own(r) \in expired[q] PROVE FALSE
    OBVIOUS
  <1> DEFINE x == stamp[r] * TicksPerSecond
             y == PeriodOf[q] * TicksPerSecond
  <1>1. PeriodOf[q] # Unlimited /\ x < sweepNow[q] - y
    BY DEF RInv, ExpiredOld, Own
  <1>2. now - x <= y
    BY <1>1 DEF WithinEveryPeriod
  <1>3. x \in Nat /\ y \in Nat
    BY <1>1, Products DEF RInv, Shape
  <1>4. sweepNow[q] <= now /\ now \in Nat /\ sweepNow[q] \in Nat
    BY DEF RInv, Shape, SweepInPast
  <1> HIDE DEF x, y
  <1> QED
    BY <1>1, <1>2, <1>3, <1>4

\* Steps that leave the clock, the archives and their stamps alone.
LEMMA FreshQuiet ==
  ASSUME RInv, UNCHANGED <<now, store, stamp, delivered>>
  PROVE  FreshArchiveKept'
  BY DEF RInv, FreshArchiveKept, WithinEveryPeriod, Own

LEMMA RInvStep == RInv /\ "clock" \notin Faults /\ NoTwins /\ [Next]_vars => RInv'
  <1> SUFFICES ASSUME RInv, "clock" \notin Faults, NoTwins, [Next]_vars PROVE RInv'
    OBVIOUS
  <1>0. Shape /\ IdleEmpty /\ SweepInPast /\ ExpiredOld /\ FreshArchiveKept
    BY DEF RInv
  <1> USE DEF runVars, Goto, Live, Ended
  <1>1. ASSUME NEW r \in Runs, Start(r) PROVE RInv'
    <2>1. Stamp(now) \in Nat
      BY <1>0, TicksAssumption DEF Shape, Stamp
    <2>2. Shape' /\ IdleEmpty' /\ SweepInPast' /\ ExpiredOld'
      BY <1>0, <1>1, <2>1 DEF Start, Shape, IdleEmpty, SweepInPast, ExpiredOld
    <2>3. FreshArchiveKept'
      <3>1. delivered[r] = {} /\ delivered' = delivered /\ store' = store /\ now' = now
        BY <1>0, <1>1 DEF Start, IdleEmpty
      <3>2. \A q \in Runs \ {r} : stamp'[q] = stamp[q]
        BY <1>0, <1>1 DEF Start, Shape
      <3> QED
        BY <1>0, <3>1, <3>2 DEF FreshArchiveKept, WithinEveryPeriod, Own
    <2> QED
      BY <2>2, <2>3 DEF RInv
  <1>2. ASSUME NEW r \in Runs,
               Preflight(r) \/ Work(r) \/ WorkFails(r) \/ FailRun(r) \/ Return(r) \/ Kill(r)
        PROVE  RInv'
    <2>1. /\ UNCHANGED <<now, store, stamp, delivered, sweepNow, expired>>
          /\ pc' \in [Runs -> {"idle"} \cup Live \cup Ended]
          /\ \A q \in Runs : pc'[q] = "idle" => pc[q] = "idle"
      BY <1>0, <1>2 DEF Preflight, Work, WorkFails, FailRun, Return, Kill, Shape
    <2>2. FreshArchiveKept'
      BY <2>1, FreshQuiet
    <2> QED
      BY <1>0, <2>1, <2>2 DEF RInv, Shape, IdleEmpty, SweepInPast, ExpiredOld
  <1>3. ASSUME NEW r \in Runs, NEW l \in Locations, Deliver(r, l) PROVE RInv'
    <2>1. /\ pc[r] = "deliver" /\ UNCHANGED <<now, pc, stamp, sweepNow, expired>>
          /\ store' = [store EXCEPT ![l] = @ \cup {Own(r)}]
          /\ delivered' = [delivered EXCEPT ![r] = @ \cup {l}]
      BY <1>3 DEF Deliver
    <2>2. Own(r) \in Names \X Exts \X Nat
      BY <1>0, NameOfAssumption, ExtOfAssumption DEF Own, Shape
    <2>3. Shape' /\ IdleEmpty' /\ SweepInPast' /\ ExpiredOld'
      BY <1>0, <2>1, <2>2 DEF Shape, IdleEmpty, SweepInPast, ExpiredOld
    <2>4. FreshArchiveKept'
      <3>1. \A q \in Runs : \A k \in delivered'[q] : k \in delivered[q] \/ (q = r /\ k = l)
        BY <1>0, <2>1 DEF Shape
      <3>2. Own(r) \in store'[l] /\ \A k \in Locations : store[k] \subseteq store'[k]
        BY <1>0, <2>1 DEF Shape
      <3>3. \A q \in Runs : delivered[q] \subseteq Locations
        BY <1>0 DEF Shape
      <3> QED
        BY <1>0, <2>1, <3>1, <3>2, <3>3 DEF FreshArchiveKept, WithinEveryPeriod, Own
    <2> QED
      BY <2>3, <2>4 DEF RInv
  <1>4. ASSUME NEW r \in Runs, NEW l \in Locations, DeliverFails(r, l) \/ ListFails(r, l)
        PROVE  RInv'
    <2>1. UNCHANGED <<now, store, pc, stamp, delivered, sweepNow, expired>>
      BY <1>4 DEF DeliverFails, ListFails
    <2>2. FreshArchiveKept'
      BY <2>1, FreshQuiet
    <2> QED
      BY <1>0, <2>1, <2>2 DEF RInv, Shape, IdleEmpty, SweepInPast, ExpiredOld
  <1>5. ASSUME NEW r \in Runs, BeginSweep(r) PROVE RInv'
    <2>1. /\ pc[r] = "deliver" /\ pc' = [pc EXCEPT ![r] = "sweep"]
          /\ sweepNow' = [sweepNow EXCEPT ![r] = now]
          /\ UNCHANGED <<now, store, stamp, delivered, expired>>
      BY <1>5 DEF BeginSweep
    <2>2. Shape' /\ IdleEmpty' /\ SweepInPast'
      BY <1>0, <2>1 DEF Shape, IdleEmpty, SweepInPast
    <2>3. ASSUME NEW q \in Runs, NEW a \in expired'[q]
          PROVE  /\ PeriodOf[q] # Unlimited
                 /\ a[3] * TicksPerSecond < sweepNow'[q] - PeriodOf[q] * TicksPerSecond
      <3> DEFINE x == a[3] * TicksPerSecond
                 y == PeriodOf[q] * TicksPerSecond
      <3>1. PeriodOf[q] # Unlimited /\ x < sweepNow[q] - y
        BY <1>0, <2>1, <2>3 DEF ExpiredOld
      <3>2. sweepNow[q] <= sweepNow'[q] /\ sweepNow[q] \in Nat /\ sweepNow'[q] \in Nat
        BY <1>0, <2>1, <2>2 DEF SweepInPast, Shape
      <3>3. x \in Nat /\ y \in Nat
        <4>1. a[3] \in Nat
          BY <1>0, <2>1, <2>3 DEF Shape
        <4> QED
          BY <3>1, <4>1, Products
      <3> HIDE DEF x, y
      <3>4. x < sweepNow'[q] - y
        BY <3>1, <3>2, <3>3
      <3> QED
        BY <3>1, <3>4 DEF x, y
    <2>4. ExpiredOld'
      BY <2>3 DEF ExpiredOld
    <2>5. FreshArchiveKept'
      BY <2>1, FreshQuiet
    <2> QED
      BY <2>2, <2>4, <2>5 DEF RInv
  <1>6. ASSUME NEW r \in Runs, NEW l \in Locations, List(r, l) PROVE RInv'
    <2>1. PICK over : expired' = [expired EXCEPT ![r] = Expired(r, l, sweepNow[r]) \ over]
      BY <1>6 DEF List
    <2>0. UNCHANGED <<now, store, pc, stamp, delivered, sweepNow>>
      BY <1>6 DEF List
    <2>2. Expired(r, l, sweepNow[r]) \subseteq store[l]
      BY DEF Expired
    <2>3. Shape' /\ IdleEmpty' /\ SweepInPast'
      BY <1>0, <2>0, <2>1, <2>2 DEF Shape, IdleEmpty, SweepInPast
    <2>4. \A a \in Expired(r, l, sweepNow[r]) :
             /\ PeriodOf[r] # Unlimited
             /\ a[3] * TicksPerSecond < sweepNow[r] - PeriodOf[r] * TicksPerSecond
      <3>1. \A a \in store[l] : a[1] \in Names
        BY <1>0 DEF Shape
      <3>2. \A a \in store[l] : ArchiveStamp(a, NameOf[r]) \subseteq {a[3]}
        BY <3>1 DEF NoTwins, ArchiveStamp
      <3> QED
        BY <3>2 DEF Expired, ShouldDelete
    <2>5. ExpiredOld'
      BY <1>0, <2>0, <2>1, <2>4 DEF ExpiredOld, Shape
    <2>6. FreshArchiveKept'
      BY <2>0, FreshQuiet
    <2> QED
      BY <2>3, <2>5, <2>6 DEF RInv
  <1>7. ASSUME NEW r \in Runs, Delete(r) PROVE RInv'
    <2>1. PICK a \in expired[r] :
             /\ expired' = [expired EXCEPT ![r] = @ \ {a}]
             /\ store' = [l \in Locations |-> IF l \in Hit(r) THEN store[l] \ {a} ELSE store[l]]
      BY <1>7 DEF Delete
    <2>2. UNCHANGED <<now, pc, stamp, delivered, sweepNow>>
      BY <1>7 DEF Delete
    <2>3. \A q \in Runs : expired'[q] \subseteq expired[q]
      BY <1>0, <2>1 DEF Shape
    <2>4. Shape' /\ IdleEmpty' /\ SweepInPast' /\ ExpiredOld'
      BY <1>0, <2>1, <2>2, <2>3 DEF Shape, IdleEmpty, SweepInPast, ExpiredOld
    <2>5. ASSUME NEW q \in Runs, NEW l \in delivered[q],
                 WithinEveryPeriod(now - stamp[q] * TicksPerSecond)
          PROVE  Own(q) \in store'[l]
      <3>1. Own(q) # a
        BY <2>1, <2>5, FreshNotExpired
      <3>2. Own(q) \in store[l] /\ l \in Locations
        BY <1>0, <2>5 DEF FreshArchiveKept, Shape
      <3> QED
        BY <2>1, <3>1, <3>2
    <2>6. FreshArchiveKept'
      BY <2>2, <2>5 DEF FreshArchiveKept, WithinEveryPeriod, Own
    <2> QED
      BY <2>4, <2>6 DEF RInv
  <1>8. ASSUME NEW r \in Runs, DeleteFails(r) PROVE RInv'
    <2>1. UNCHANGED <<now, store, pc, stamp, delivered, sweepNow>>
      BY <1>8 DEF DeleteFails
    <2>2. expired' \in [Runs -> SUBSET (Names \X Exts \X Nat)]
          /\ \A q \in Runs : expired'[q] \subseteq expired[q]
      BY <1>0, <1>8 DEF DeleteFails, Shape
    <2>3. FreshArchiveKept'
      BY <2>1, FreshQuiet
    <2> QED
      BY <1>0, <2>1, <2>2, <2>3 DEF RInv, Shape, IdleEmpty, SweepInPast, ExpiredOld
  <1>9. ASSUME Tick PROVE RInv'
    <2>1. now' = now + 1 /\ UNCHANGED <<store, pc, stamp, delivered, sweepNow, expired>>
      BY <1>9 DEF Tick
    <2>2. Shape' /\ IdleEmpty' /\ SweepInPast' /\ ExpiredOld'
      BY <1>0, <2>1 DEF Shape, IdleEmpty, SweepInPast, ExpiredOld
    <2>3. ASSUME NEW r \in Runs, WithinEveryPeriod(now' - stamp[r] * TicksPerSecond)
          PROVE  WithinEveryPeriod(now - stamp[r] * TicksPerSecond)
      <3> SUFFICES ASSUME NEW q \in Runs, PeriodOf[q] # Unlimited
                   PROVE  now - stamp[r] * TicksPerSecond <= PeriodOf[q] * TicksPerSecond
        BY DEF WithinEveryPeriod
      <3> DEFINE x == stamp[r] * TicksPerSecond
                 y == PeriodOf[q] * TicksPerSecond
      <3>1. now' - x <= y
        BY <2>3 DEF WithinEveryPeriod
      <3>2. x \in Nat /\ y \in Nat /\ now \in Nat
        BY <1>0, Products DEF Shape
      <3> HIDE DEF x, y
      <3>3. now - x <= y
        BY <2>1, <3>1, <3>2
      <3> QED
        BY <3>3 DEF x, y
    <2>4. FreshArchiveKept'
      BY <1>0, <2>1, <2>3 DEF FreshArchiveKept, WithinEveryPeriod, Own
    <2> QED
      BY <2>2, <2>4 DEF RInv
  <1>10. ASSUME UNCHANGED vars PROVE RInv'
    <2>1. UNCHANGED <<now, store, pc, stamp, delivered, sweepNow, expired>>
      BY <1>10 DEF vars
    <2>2. FreshArchiveKept'
      BY <2>1, FreshQuiet
    <2> QED
      BY <1>0, <2>1, <2>2 DEF RInv, Shape, IdleEmpty, SweepInPast, ExpiredOld
  <1> QED
    BY <1>1, <1>2, <1>3, <1>4, <1>5, <1>6, <1>7, <1>8, <1>9, <1>10
    DEF Next, RunStep, Done, ClockStep

\* Retention never takes an archive before its time: for any number of runs
\* that overlap, whatever their periods and whichever of their steps fail or
\* are cut short, a delivered archive whose stamp is within every period, the
\* exact period included, is still where it was delivered (should_delete, and
\* the one clock reading of run's cleanup).  That the clock is right and that
\* no name is another one and a dash are needed: see ForeignKept.
THEOREM FreshAlwaysKept ==
    "clock" \notin Faults /\ NoTwins /\ Spec => []FreshArchiveKept
  <1>1. Init => RInv
    BY RInvInit
  <1>2. RInv => FreshArchiveKept
    BY DEF RInv
  <1>3. CASE ~("clock" \notin Faults /\ NoTwins)
    BY <1>3
  <1>4. CASE "clock" \notin Faults /\ NoTwins
    <2>1. RInv /\ [Next]_vars => RInv'
      BY <1>4, RInvStep
    <2> QED
      BY <1>1, <1>2, <2>1, PTL DEF Spec
  <1> QED
    BY <1>3, <1>4

-----------------------------------------------------------------------------
(* Types, bounds included.                                                 *)

\* Division rounds down, and keeps the order.
LEMMA RoundsDown ==
  ASSUME NEW k \in Nat \ {0}, NEW t \in Nat, NEW m \in Nat, t <= m
  PROVE  /\ t \div k \in 0..(m \div k)
         /\ (t \div k) * k <= t
         /\ t < (t \div k) * k + k
  <1> DEFINE d == t \div k
             e == m \div k
  <1>1. d \in Int /\ t = k * d + (t % k) /\ t % k \in 0..(k-1)
    OBVIOUS
  <1>2. e \in Int /\ m = k * e + (m % k) /\ m % k \in 0..(k-1)
    OBVIOUS
  <1> HIDE DEF d, e
  <1>3. k * d <= t /\ t < k * d + k /\ k * e <= m /\ m < k * e + k
    BY <1>1, <1>2
  <1>4. d >= 0
    BY <1>1, <1>3
  <1>5. d <= e
    <2> SUFFICES ASSUME d >= e + 1 PROVE FALSE
      BY <1>1, <1>2
    <2>1. k * d >= k * (e + 1)
      BY <1>1, <1>2
    <2>2. k * (e + 1) = k * e + k
      BY <1>2
    <2> QED
      BY <1>1, <1>2, <1>3, <2>1, <2>2
  <1>6. k * d = d * k
    BY <1>1
  <1> QED
    BY <1>1, <1>2, <1>3, <1>4, <1>5, <1>6 DEF d, e

\* A stamp is the reading it was cut from, less a fraction of a second.
LEMMA StampCuts ==
  ASSUME NEW t \in Time
  PROVE  /\ Stamp(t) \in Seconds
         /\ Stamp(t) * TicksPerSecond <= t
         /\ t < Stamp(t) * TicksPerSecond + TicksPerSecond
  <1>1. t \in Nat /\ t <= MaxTime /\ MaxTime \in Nat /\ TicksPerSecond \in Nat \ {0}
    BY MaxTimeAssumption, TicksAssumption DEF Time
  <1> QED
    BY <1>1, RoundsDown DEF Stamp, Seconds

LEMMA TypeInit == Init => TypeOK
  <1>1. 0 \in Time
    BY MaxTimeAssumption DEF Time
  <1>2. 0 \in Seconds
    <2>1. Stamp(0) \in Seconds /\ Stamp(0) * TicksPerSecond <= 0
      BY <1>1, StampCuts
    <2>2. Stamp(0) \in Nat /\ TicksPerSecond \in Nat \ {0}
      BY <2>1, TicksAssumption DEF Seconds
    <2> QED
      BY <2>1, <2>2, MaxTimeAssumption DEF Seconds
  <1> QED
    BY <1>1, <1>2 DEF Init, TypeOK

LEMMA OwnIsArchive == TypeOK => \A r \in Runs : Own(r) \in Archives
  BY NameOfAssumption, ExtOfAssumption DEF TypeOK, Own, Archives

LEMMA ExpiredInStore ==
  ASSUME NEW r, NEW l, NEW t
  PROVE  Expired(r, l, t) \subseteq store[l]
  BY DEF Expired

LEMMA TypeStep == TypeOK /\ [Next]_vars => TypeOK'
  <1> SUFFICES ASSUME TypeOK, [Next]_vars PROVE TypeOK'
    OBVIOUS
  <1> USE DEF runVars, Goto, Live, Ended
  <1>1. ASSUME NEW r \in Runs, Start(r) PROVE TypeOK'
    <2>1. now \in Time /\ Stamp(now) \in Seconds
      BY StampCuts DEF TypeOK
    <2> QED
      BY <1>1, <2>1 DEF Start, TypeOK
  <1>2. ASSUME NEW r \in Runs,
               Preflight(r) \/ WorkFails(r) \/ FailRun(r) \/ Return(r) \/ Kill(r)
        PROVE  TypeOK'
    <2>1. UNCHANGED <<now, store, runVars>>
          /\ pc' \in [Runs -> {"idle"} \cup Live \cup Ended]
      BY <1>2 DEF Preflight, WorkFails, FailRun, Return, Kill, TypeOK
    <2> QED
      BY <2>1 DEF TypeOK
  <1>3. ASSUME NEW r \in Runs, Work(r) \/ BeginSweep(r) PROVE TypeOK'
    <2>1. TargetsOf[r] \subseteq Locations
      BY TargetsAssumption
    <2> QED
      BY <1>3, <2>1 DEF Work, BeginSweep, TypeOK
  <1>4. ASSUME NEW r \in Runs, NEW l \in Locations, Deliver(r, l) PROVE TypeOK'
    <2>1. Own(r) \in Archives
      BY OwnIsArchive
    <2> QED
      BY <1>4, <2>1 DEF Deliver, TypeOK
  <1>5. ASSUME NEW r \in Runs, NEW l \in Locations, DeliverFails(r, l) \/ ListFails(r, l)
        PROVE  TypeOK'
    BY <1>5 DEF DeliverFails, ListFails, TypeOK
  <1>6. ASSUME NEW r \in Runs, NEW l \in Locations, List(r, l) PROVE TypeOK'
    <2>1. Expired(r, l, sweepNow[r]) \subseteq Archives
      BY ExpiredInStore DEF TypeOK
    <2>2. PICK over \in PassedOver(r, l) :
             /\ expired' = [expired EXCEPT ![r] = Expired(r, l, sweepNow[r]) \ over]
             /\ skipped' = [skipped EXCEPT ![r] = @ \cup ({l} \X over)]
      BY <1>6 DEF List
    <2>3. over \subseteq Archives
      BY <2>1, <2>2 DEF PassedOver
    <2>4. {l} \X over \subseteq Locations \X Archives
      BY <2>3
    <2>5. /\ expired' \in [Runs -> SUBSET Archives]
          /\ skipped' \in [Runs -> SUBSET (Locations \X Archives)]
      BY <2>1, <2>2, <2>4 DEF TypeOK
    <2>6. /\ UNCHANGED <<now, store, pc, born, stamp, todo, delivered, failures, sweepNow, gaveUp>>
          /\ sweep' = [sweep EXCEPT ![r] = @ \ {l}] /\ at' = [at EXCEPT ![r] = {l}]
      BY <1>6 DEF List
    <2> QED
      BY <2>5, <2>6 DEF TypeOK
  <1>7. ASSUME NEW r \in Runs, Delete(r) \/ DeleteFails(r) PROVE TypeOK'
    <2>1. expired' \in [Runs -> SUBSET Archives]
      BY <1>7 DEF Delete, DeleteFails, TypeOK
    <2>2. store' \in [Locations -> SUBSET Archives]
      BY <1>7 DEF Delete, DeleteFails, TypeOK
    <2>3. gaveUp' \in [Runs -> SUBSET Locations]
      BY <1>7 DEF Delete, DeleteFails, TypeOK
    <2> QED
      BY <1>7, <2>1, <2>2, <2>3 DEF Delete, DeleteFails, TypeOK
  <1>8. ASSUME Tick \/ ClockStep PROVE TypeOK'
    <2>1. now' \in Time
      BY <1>8, MaxTimeAssumption DEF Tick, ClockStep, TypeOK, Time
    <2> QED
      BY <1>8, <2>1 DEF Tick, ClockStep, TypeOK
  <1>9. ASSUME UNCHANGED vars PROVE TypeOK'
    BY <1>9 DEF vars, TypeOK
  <1> QED
    BY <1>1, <1>2, <1>3, <1>4, <1>5, <1>6, <1>7, <1>8, <1>9 DEF Next, RunStep, Done

\* Every variable keeps its type, a stamp the bound that its clock reading
\* has, and nothing but archives of configured names is ever on a target.
THEOREM TypeCorrect == Spec => []TypeOK
  BY TypeInit, TypeStep, PTL DEF Spec

-----------------------------------------------------------------------------
(* Where archives come from, and why they go.                              *)

\* Until its cleanup begins a run has nothing to delete.
NothingYet ==
    \A r \in Runs : pc[r] \in {"idle", "preflight", "work", "deliver"} => expired[r] = {}

OfItsName == \A r \in Runs : \A a \in expired[r] : a[1] = NameOf[r]

DInv == TypeOK /\ Provenance /\ NothingYet /\ ExpiredOld /\ OfItsName

\* A run that has started goes on, and keeps its stamp and what it read.
Onward ==
    \A r \in Runs : pc[r] # "idle" =>
        pc'[r] # "idle" /\ stamp'[r] = stamp[r] /\ born'[r] = born[r]

\* What is new on a target was just delivered.
Arrivals ==
    \A l \in Locations : \A a \in store'[l] :
        a \in store[l] \/ \E r \in Runs : pc[r] = "deliver" /\ a = Own(r)

\* What is gone from a target, a cleanup has deleted.
Departures ==
    \A l \in Locations : \A a \in store[l] \ store'[l] :
        \E r \in Runs : pc[r] = "sweep" /\ l \in Hit(r) /\ a \in expired[r]

\* What a run is to delete, it has just found expired or was to delete before.
Findings ==
    \A r \in Runs : \A a \in expired'[r] :
        /\ sweepNow'[r] = sweepNow[r]
        /\ \/ a \in expired[r]
           \/ pc[r] = "sweep" /\ \E l \in Locations : a \in Expired(r, l, sweepNow[r])

LEMMA RunEffects ==
  ASSUME TypeOK, NothingYet, [Next]_vars
  PROVE  Onward /\ Arrivals /\ Departures /\ Findings
  <1> USE DEF runVars, Goto, Live, Ended
  <1> DEFINE Others == /\ UNCHANGED <<store, sweepNow, expired>>
                       /\ \A q \in Runs : pc[q] # "idle" =>
                            pc'[q] # "idle" /\ stamp'[q] = stamp[q] /\ born'[q] = born[q]
  <1>0. Others => Onward /\ Arrivals /\ Departures /\ Findings
    BY DEF Onward, Arrivals, Departures, Findings
  <1> HIDE DEF Others
  <1>1. ASSUME NEW r \in Runs, Start(r) PROVE Others
    BY <1>1 DEF Start, TypeOK, Others
  <1>2. ASSUME NEW r \in Runs,
               Preflight(r) \/ Work(r) \/ WorkFails(r) \/ FailRun(r) \/ Return(r) \/ Kill(r)
        PROVE  Others
    BY <1>2 DEF Preflight, Work, WorkFails, FailRun, Return, Kill, TypeOK, Others
  <1>3. ASSUME NEW r \in Runs, NEW l \in Locations, DeliverFails(r, l) \/ ListFails(r, l)
        PROVE  Others
    BY <1>3 DEF DeliverFails, ListFails, TypeOK, Others
  <1>4. ASSUME Tick \/ ClockStep \/ UNCHANGED vars PROVE Others
    BY <1>4 DEF Tick, ClockStep, vars, Others
  <1>5. ASSUME NEW r \in Runs, NEW l \in Locations, Deliver(r, l)
        PROVE  Onward /\ Arrivals /\ Departures /\ Findings
    <2>1. /\ pc[r] = "deliver" /\ UNCHANGED <<pc, born, stamp, sweepNow, expired>>
          /\ store' = [store EXCEPT ![l] = @ \cup {Own(r)}]
      BY <1>5 DEF Deliver
    <2>2. Arrivals /\ Departures
      BY <2>1 DEF Arrivals, Departures, TypeOK
    <2> QED
      BY <2>1, <2>2 DEF Onward, Findings
  <1>6. ASSUME NEW r \in Runs, BeginSweep(r)
        PROVE  Onward /\ Arrivals /\ Departures /\ Findings
    <2>1. /\ pc[r] = "deliver" /\ pc' = [pc EXCEPT ![r] = "sweep"]
          /\ sweepNow' = [sweepNow EXCEPT ![r] = now]
          /\ UNCHANGED <<store, born, stamp, expired>>
      BY <1>6 DEF BeginSweep
    <2>2. expired[r] = {}
      BY <2>1 DEF NothingYet
    <2> QED
      BY <2>1, <2>2 DEF Onward, Arrivals, Departures, Findings, TypeOK
  <1>7. ASSUME NEW r \in Runs, NEW l \in Locations, List(r, l)
        PROVE  Onward /\ Arrivals /\ Departures /\ Findings
    <2>1. PICK over : expired' = [expired EXCEPT ![r] = Expired(r, l, sweepNow[r]) \ over]
      BY <1>7 DEF List
    <2>2. pc[r] = "sweep" /\ UNCHANGED <<store, pc, born, stamp, sweepNow>>
      BY <1>7 DEF List
    <2> QED
      BY <2>1, <2>2 DEF Onward, Arrivals, Departures, Findings, TypeOK
  <1>8. ASSUME NEW r \in Runs, Delete(r)
        PROVE  Onward /\ Arrivals /\ Departures /\ Findings
    <2>1. PICK a \in expired[r] :
             /\ expired' = [expired EXCEPT ![r] = @ \ {a}]
             /\ store' = [l \in Locations |-> IF l \in Hit(r) THEN store[l] \ {a} ELSE store[l]]
      BY <1>8 DEF Delete
    <2>2. pc[r] = "sweep" /\ UNCHANGED <<pc, born, stamp, sweepNow>>
      BY <1>8 DEF Delete
    <2>3. Departures
      BY <2>1, <2>2 DEF Departures
    <2> QED
      BY <2>1, <2>2, <2>3 DEF Onward, Arrivals, Findings, TypeOK
  <1>9. ASSUME NEW r \in Runs, DeleteFails(r)
        PROVE  Onward /\ Arrivals /\ Departures /\ Findings
    BY <1>9 DEF DeleteFails, Onward, Arrivals, Departures, Findings, TypeOK
  <1> QED
    BY <1>0, <1>1, <1>2, <1>3, <1>4, <1>5, <1>6, <1>7, <1>8, <1>9 DEF Next, RunStep, Done

LEMMA DatedStep ==
  ASSUME TypeOK, \A r \in Runs : Dated(r), [Next]_vars
  PROVE  \A r \in Runs : Dated(r)'
  <1> USE DEF runVars
  <1>1. ASSUME NEW r \in Runs, Start(r) PROVE \A q \in Runs : Dated(q)'
    <2>1. now \in Time
      BY DEF TypeOK
    <2>2. /\ Stamp(now) * TicksPerSecond <= now
          /\ now < Stamp(now) * TicksPerSecond + TicksPerSecond
      BY <2>1, StampCuts
    <2>3. born' = [born EXCEPT ![r] = now] /\ stamp' = [stamp EXCEPT ![r] = Stamp(now)]
      BY <1>1 DEF Start
    <2>4. ASSUME NEW q \in Runs PROVE Dated(q)'
      <3>1. CASE q = r
        <4>1. born'[r] = now /\ stamp'[r] = Stamp(now)
          BY <2>3 DEF TypeOK
        <4> QED
          BY <2>2, <3>1, <4>1 DEF Dated
      <3>2. CASE q # r
        <4>1. born'[q] = born[q] /\ stamp'[q] = stamp[q]
          BY <2>3, <3>2 DEF TypeOK
        <4> QED
          BY <4>1 DEF Dated
      <3> QED
        BY <3>1, <3>2
    <2> QED
      BY <2>4
  <1>2. ASSUME UNCHANGED <<born, stamp>> PROVE \A q \in Runs : Dated(q)'
    BY <1>2 DEF Dated
  <1>3. UNCHANGED <<born, stamp>> \/ \E r \in Runs : Start(r)
    BY DEF Next, RunStep, Preflight, Work, WorkFails, Deliver, DeliverFails, FailRun,
           BeginSweep, List, ListFails, Delete, DeleteFails, Return, Kill, Tick, ClockStep,
           Done, vars
  <1> QED
    BY <1>1, <1>2, <1>3

LEMMA DInvInit == Init => DInv
  <1> SUFFICES ASSUME Init PROVE DInv
    OBVIOUS
  <1>1. TypeOK
    BY TypeInit
  <1>2. \A r \in Runs : Dated(r)
    <2>1. 0 * TicksPerSecond = 0 /\ TicksPerSecond > 0 /\ TicksPerSecond \in Nat
      BY TicksAssumption
    <2>2. \A r \in Runs : born[r] = 0 /\ stamp[r] = 0
      BY DEF Init
    <2> QED
      BY <2>1, <2>2 DEF Dated
  <1> QED
    BY <1>1, <1>2 DEF Init, DInv, Provenance, NothingYet, ExpiredOld, OfItsName

\* What cleanup finds expired on a target is there, of its name and old.
LEMMA FoundExpired ==
  ASSUME TypeOK, NoTwins, NEW r \in Runs, NEW l \in Locations,
         NEW a \in Expired(r, l, sweepNow[r])
  PROVE  /\ a \in store[l] /\ a[1] = NameOf[r]
         /\ PeriodOf[r] # Unlimited
         /\ a[3] * TicksPerSecond < sweepNow[r] - PeriodOf[r] * TicksPerSecond
  <1>1. a \in store[l] /\ a[1] \in Names
    BY DEF Expired, TypeOK, Archives
  <1>2. ArchiveStamp(a, NameOf[r]) = {s \in {a[3]} : a[1] = NameOf[r]}
    BY <1>1 DEF NoTwins, ArchiveStamp
  <1> QED
    BY <1>1, <1>2 DEF Expired, ShouldDelete

LEMMA DInvStep ==
  ASSUME DInv, NoTwins, [Next]_vars
  PROVE  DInv'
  <1>0. TypeOK /\ Provenance /\ NothingYet /\ ExpiredOld /\ OfItsName
    BY DEF DInv
  <1>1. TypeOK'
    BY <1>0, TypeStep
  <1>2. Onward /\ Arrivals /\ Departures /\ Findings
    BY <1>0, RunEffects
  <1>3. Provenance'
    <2>1. ASSUME NEW a, Minted(a) PROVE Minted(a)'
      BY <1>2, <2>1 DEF Minted, Own, Onward
    <2>2. \A r \in Runs : Dated(r)'
      BY <1>0, DatedStep DEF Provenance
    <2>3. ASSUME NEW l \in Locations, NEW a \in store'[l] PROVE Minted(a)'
      <3>1. CASE a \in store[l]
        BY <1>0, <2>1, <3>1 DEF Provenance
      <3>2. CASE \E r \in Runs : pc[r] = "deliver" /\ a = Own(r)
        <4>1. Minted(a)
          BY <3>2 DEF Minted
        <4> QED
          BY <2>1, <4>1
      <3> QED
        BY <1>2, <3>1, <3>2 DEF Arrivals
    <2>4. ASSUME NEW r \in Runs, NEW a \in expired'[r] PROVE Minted(a)'
      <3>1. Minted(a)
        BY <1>0, <1>2, <2>4, ExpiredInStore DEF Findings, Provenance
      <3> QED
        BY <2>1, <3>1
    <2> QED
      BY <2>2, <2>3, <2>4 DEF Provenance
  <1>4. NothingYet'
    <2> USE <1>0 DEF runVars, Goto, TypeOK, NothingYet
    <2>1. ASSUME NEW r \in Runs, Start(r) PROVE NothingYet'
      BY <2>1 DEF Start
    <2>2. ASSUME NEW r \in Runs,
                 Preflight(r) \/ Work(r) \/ WorkFails(r) \/ FailRun(r) \/ Return(r) \/ Kill(r)
          PROVE  NothingYet'
      BY <2>2 DEF Preflight, Work, WorkFails, FailRun, Return, Kill
    <2>3. ASSUME NEW r \in Runs, NEW l \in Locations,
                 Deliver(r, l) \/ DeliverFails(r, l) \/ ListFails(r, l)
          PROVE  NothingYet'
      BY <2>3 DEF Deliver, DeliverFails, ListFails
    <2>4. ASSUME NEW r \in Runs, BeginSweep(r) PROVE NothingYet'
      BY <2>4 DEF BeginSweep
    <2>5. ASSUME NEW r \in Runs, NEW l \in Locations, List(r, l) PROVE NothingYet'
      BY <2>5 DEF List
    <2>6. ASSUME NEW r \in Runs, Delete(r) \/ DeleteFails(r) PROVE NothingYet'
      BY <2>6 DEF Delete, DeleteFails
    <2>7. ASSUME Tick \/ ClockStep \/ UNCHANGED vars PROVE NothingYet'
      BY <2>7 DEF Tick, ClockStep, vars
    <2> QED
      BY <2>1, <2>2, <2>3, <2>4, <2>5, <2>6, <2>7 DEF Next, RunStep, Done
  <1>5. ASSUME NEW r \in Runs, NEW a \in expired'[r]
        PROVE  /\ a[1] = NameOf[r] /\ PeriodOf[r] # Unlimited
               /\ a[3] * TicksPerSecond < sweepNow'[r] - PeriodOf[r] * TicksPerSecond
    <2>1. CASE a \in expired[r]
      BY <1>0, <1>2, <1>5, <2>1 DEF Findings, ExpiredOld, OfItsName
    <2>2. CASE \E l \in Locations : a \in Expired(r, l, sweepNow[r])
      BY <1>0, <1>2, <1>5, <2>2, FoundExpired DEF Findings
    <2> QED
      BY <1>2, <1>5, <2>1, <2>2 DEF Findings
  <1>6. ExpiredOld' /\ OfItsName'
    BY <1>5 DEF ExpiredOld, OfItsName
  <1> QED
    BY <1>1, <1>3, <1>4, <1>6 DEF DInv

LEMMA DeletedSteps ==
  ASSUME DInv, NoTwins, [Next]_vars, NEW l \in Locations, NEW a \in store[l] \ store'[l]
  PROVE  \E r, q \in Runs :
             /\ pc[r] = "sweep" /\ a = Own(q) /\ a[1] = NameOf[r]
             /\ PeriodOf[r] # Unlimited
             /\ sweepNow[r] - born[q] > PeriodOf[r] * TicksPerSecond - (TicksPerSecond - 1)
  <1>1. PICK r \in Runs : pc[r] = "sweep" /\ a \in expired[r]
    BY RunEffects DEF DInv, Departures
  <1>2. /\ a[1] = NameOf[r] /\ PeriodOf[r] # Unlimited
        /\ a[3] * TicksPerSecond < sweepNow[r] - PeriodOf[r] * TicksPerSecond
    BY <1>1 DEF DInv, OfItsName, ExpiredOld
  <1>3. PICK q \in Runs : a = Own(q)
    BY <1>1 DEF DInv, Provenance, Minted
  <1>4. a[3] = stamp[q]
    BY <1>3 DEF Own
  <1> DEFINE x == stamp[q] * TicksPerSecond
             y == PeriodOf[r] * TicksPerSecond
  <1>5. x \in Int /\ y \in Int
    <2>1. stamp[q] \in Nat
      BY MaxTimeAssumption, TicksAssumption DEF DInv, TypeOK, Seconds
    <2> QED
      BY <1>2, <2>1, Products
  <1>6. sweepNow[r] \in Int /\ born[q] \in Int /\ TicksPerSecond \in Int
    BY MaxTimeAssumption, TicksAssumption DEF DInv, TypeOK, Time
  <1>7. x < sweepNow[r] - y
    BY <1>2, <1>4
  <1>8. born[q] < x + TicksPerSecond
    BY DEF DInv, Provenance, Dated
  <1>9. sweepNow[r] - born[q] > y - (TicksPerSecond - 1)
    <2> HIDE DEF x, y
    <2> QED
      BY <1>5, <1>6, <1>7, <1>8
  <1> QED
    BY <1>1, <1>2, <1>3, <1>9

\* Only age deletes an archive: whatever runs overlap, fail or are killed, and
\* even when the clock is stepped between two readings, what a cleanup takes
\* from a target is an archive some run minted, of the cleanup's own name, and
\* the cleanup's one clock reading is more than the period, less the fraction
\* of a second that the stamp lost, after the reading that stamp was cut from
\* (should_delete; the two cleanup_retention functions).
THEOREM OnlyOldDeleted == NoTwins /\ Spec => DeletedIsOld
  <1>1. Init => DInv
    BY DInvInit
  <1>2. CASE ~NoTwins
    BY <1>2
  <1>3. CASE NoTwins
    <2>1. DInv /\ [Next]_vars => DInv'
      BY <1>3, DInvStep
    <2>2. DInv /\ [Next]_vars =>
            [\A l \in Locations : \A a \in store[l] \ store'[l] :
               \E r, q \in Runs :
                 /\ pc[r] = "sweep" /\ a = Own(q) /\ a[1] = NameOf[r]
                 /\ PeriodOf[r] # Unlimited
                 /\ sweepNow[r] - born[q]
                      > PeriodOf[r] * TicksPerSecond - (TicksPerSecond - 1)]_vars
      BY <1>3, DeletedSteps
    <2> QED
      BY <1>1, <2>1, <2>2, PTL DEF Spec, DeletedIsOld
  <1> QED
    BY <1>2, <1>3

\* Archives under a different --name are left alone, as the README promises,
\* as long as no name is another one and a dash: with such a pair they are not
\* (archive_stamp).
THEOREM OthersLeftAlone == NoTwins /\ Spec => ForeignKept
  <1>1. DeletedIsOld => ForeignKept
    <2>1. [\A l \in Locations : \A a \in store[l] \ store'[l] :
               \E r, q \in Runs :
                 /\ pc[r] = "sweep" /\ a = Own(q) /\ a[1] = NameOf[r]
                 /\ PeriodOf[r] # Unlimited
                 /\ sweepNow[r] - born[q]
                      > PeriodOf[r] * TicksPerSecond - (TicksPerSecond - 1)]_vars
          => [\A l \in Locations : \A a \in store[l] \ store'[l] :
               \E r \in Runs : pc[r] = "sweep" /\ a[1] = NameOf[r]]_vars
      OBVIOUS
    <2> QED
      BY <2>1, PTL DEF DeletedIsOld, ForeignKept
  <1> QED
    BY <1>1, OnlyOldDeleted

-----------------------------------------------------------------------------
(* Runs that keep apart: what a cleanup may rely on.                       *)

\* All that run q knows and is.
Same(q) ==
    /\ pc'[q] = pc[q] /\ stamp'[q] = stamp[q] /\ todo'[q] = todo[q]
    /\ delivered'[q] = delivered[q] /\ failures'[q] = failures[q]
    /\ sweepNow'[q] = sweepNow[q] /\ sweep'[q] = sweep[q] /\ at'[q] = at[q]
    /\ expired'[q] = expired[q] /\ gaveUp'[q] = gaveUp[q] /\ skipped'[q] = skipped[q]

\* A step of one run leaves every other run's variables alone.
LEMMA OthersSame ==
  ASSUME TypeOK, NEW p \in Runs, Start(p) \/ RunStep(p) \/ Kill(p),
         NEW q \in Runs, q # p
  PROVE  Same(q)
  <1> USE DEF TypeOK, runVars, Goto, Same
  <1>1. CASE Start(p) \/ Kill(p)
    BY <1>1 DEF Start, Kill
  <1>2. CASE Preflight(p) \/ WorkFails(p) \/ FailRun(p) \/ Return(p)
    BY <1>2 DEF Preflight, WorkFails, FailRun, Return
  <1>3. CASE Work(p) \/ BeginSweep(p)
    BY <1>3 DEF Work, BeginSweep
  <1>4. CASE \E l \in Locations : Deliver(p, l) \/ DeliverFails(p, l)
    BY <1>4 DEF Deliver, DeliverFails
  <1>5. CASE \E l \in Locations : List(p, l) \/ ListFails(p, l)
    BY <1>5 DEF List, ListFails
  <1>6. CASE Delete(p) \/ DeleteFails(p)
    BY <1>6 DEF Delete, DeleteFails
  <1> QED
    BY <1>1, <1>2, <1>3, <1>4, <1>5, <1>6 DEF RunStep

\* The clock is nobody's.
LEMMA ClockSame ==
  ASSUME Tick \/ ClockStep \/ UNCHANGED vars
  PROVE  store' = store /\ \A q \in Runs : Same(q)
  BY DEF Tick, ClockStep, vars, runVars, Same

LEMMA WhoSteps ==
  ASSUME [Next]_vars
  PROVE  \/ Tick \/ ClockStep \/ UNCHANGED vars
         \/ \E p \in Runs : Start(p) \/ RunStep(p) \/ Kill(p)
  BY DEF Next, Done

LEMMA SameBooks ==
  ASSUME NEW q \in Runs, Same(q), Untouched(q), Settled(q)
  PROVE  Untouched(q)' /\ Settled(q)'
  BY DEF Same, Untouched, Settled

LEMMA LocationsOf == \A r \in Runs : TargetsOf[r] \subseteq Locations
  BY TargetsAssumption

LEMMA BooksStep ==
  ASSUME TypeOK, NEW r \in Runs, Untouched(r), Settled(r),
         Start(r) \/ RunStep(r) \/ Kill(r)
  PROVE  Untouched(r)' /\ Settled(r)'
  <1> USE DEF TypeOK, runVars, Goto, Untouched, Settled, Live, Ended
  <1>1. CASE Start(r)
    BY <1>1 DEF Start
  <1>2. CASE Kill(r)
    BY <1>2 DEF Kill
  <1>3. CASE Preflight(r) \/ WorkFails(r) \/ FailRun(r) \/ Return(r)
    BY <1>3 DEF Preflight, WorkFails, FailRun, Return
  <1>4. CASE Work(r)
    BY <1>4 DEF Work
  <1>5. ASSUME NEW l \in Locations, Deliver(r, l) PROVE Untouched(r)' /\ Settled(r)'
    BY <1>5 DEF Deliver, InOrder
  <1>6. ASSUME NEW l \in Locations, DeliverFails(r, l) PROVE Untouched(r)' /\ Settled(r)'
    BY <1>6 DEF DeliverFails, InOrder
  <1>7. CASE BeginSweep(r)
    BY <1>7 DEF BeginSweep, AllDelivered
  <1>8. ASSUME NEW l \in Locations, List(r, l) PROVE Untouched(r)' /\ Settled(r)'
    BY <1>8 DEF List, InOrder
  <1>9. ASSUME NEW l \in Locations, ListFails(r, l) PROVE Untouched(r)' /\ Settled(r)'
    BY <1>9 DEF ListFails, InOrder
  <1>10. CASE Delete(r)
    BY <1>10 DEF Delete
  <1>11. CASE DeleteFails(r)
    BY <1>11 DEF DeleteFails
  <1> QED
    BY <1>1, <1>2, <1>3, <1>4, <1>5, <1>6, <1>7, <1>8, <1>9, <1>10, <1>11 DEF RunStep

LEMMA NothingYetHolds == (\A r \in Runs : Untouched(r)) => NothingYet
  BY DEF Untouched, NothingYet

\* No step takes an archive from under the run that delivered it.
LEMMA HeldKept ==
  ASSUME TypeOK, CleanupInv, Apart, [Next]_vars,
         NEW r \in LiveRuns, NEW l \in delivered[r]
  PROVE  Own(r) \in store'[l]
  <1> SUFFICES ASSUME Own(r) \notin store'[l] PROVE FALSE
    OBVIOUS
  <1>1. r \in Runs /\ Ledger(r)
    BY DEF LiveRuns, CleanupInv
  <1>2. Own(r) \in store[l] /\ l \in TargetsOf[r] /\ l \in Locations
    BY <1>1, LocationsOf DEF Ledger, Held, Untouched
  <1>3. PICK q \in Runs : pc[q] = "sweep" /\ l \in Hit(q) /\ Own(r) \in expired[q]
    <2>1. NothingYet
      BY NothingYetHolds DEF CleanupInv, Ledger
    <2> QED
      BY <1>2, <2>1, RunEffects DEF Departures
  <1>4. Ledger(q) /\ q \in LiveRuns
    BY <1>3 DEF CleanupInv, LiveRuns, Live
  <1>5. q # r
    BY <1>3, <1>4 DEF Ledger, Earmarked
  <1>6. l \in TargetsOf[q]
    BY <1>3, <1>4 DEF Ledger, Untouched, Hit
  <1>7. NameOf[r] = NameOf[q] \/ <<NameOf[q], NameOf[r]>> \in Dashed
    BY <1>3, <1>4 DEF Ledger, Earmarked, Own
  <1> QED
    BY <1>1, <1>2, <1>4, <1>5, <1>6, <1>7 DEF Apart

\* A run's deliveries are what it has just put there, or had before.
LEMMA Deliveries ==
  ASSUME TypeOK, NEW r \in Runs, Untouched(r), [Next]_vars,
         r \in LiveRuns', NEW l \in delivered'[r]
  PROVE  /\ r \in LiveRuns /\ stamp'[r] = stamp[r]
         /\ l \in delivered[r] \/ Own(r) \in store'[l]
  <1>1. ASSUME Same(r) PROVE r \in LiveRuns /\ stamp'[r] = stamp[r] /\ l \in delivered[r]
    BY <1>1 DEF Same, LiveRuns
  <1>2. CASE Start(r)
    BY <1>2 DEF Start, Untouched
  <1>3. ASSUME NEW k \in Locations, Deliver(r, k)
        PROVE  /\ r \in LiveRuns /\ stamp'[r] = stamp[r]
               /\ l \in delivered[r] \/ Own(r) \in store'[l]
    BY <1>3 DEF Deliver, TypeOK, LiveRuns, Live
  <1>4. CASE UNCHANGED <<stamp, delivered>> /\ pc[r] \in Live
    BY <1>4 DEF LiveRuns
  <1>5. CASE Kill(r) \/ RunStep(r)
    <2>1. \/ \E k \in Locations : Deliver(r, k)
          \/ UNCHANGED <<stamp, delivered>> /\ pc[r] \in Live
      BY <1>5 DEF RunStep, Preflight, Work, WorkFails, DeliverFails, FailRun, BeginSweep,
         List, ListFails, Delete, DeleteFails, Return, Kill, runVars, Live
    <2> QED
      BY <1>3, <1>4, <2>1
  <1> QED
    BY <1>1, <1>2, <1>5, WhoSteps, OthersSame, ClockSame

LEMMA LedgerStep ==
  ASSUME TypeOK, CleanupInv, Apart, [Next]_vars, NEW r \in Runs
  PROVE  Ledger(r)'
  <1>1. Untouched(r) /\ Settled(r) /\ Held(r) /\ Earmarked(r)
    BY DEF CleanupInv, Ledger
  <1>2. Onward /\ Findings
    <2>1. NothingYet
      BY NothingYetHolds DEF CleanupInv, Ledger
    <2> QED
      BY <2>1, RunEffects
  <1>3. Untouched(r)' /\ Settled(r)'
    BY <1>1, WhoSteps, OthersSame, ClockSame, SameBooks, BooksStep
  <1>4. Held(r)'
    <2> SUFFICES ASSUME r \in LiveRuns', NEW l \in delivered'[r]
                 PROVE  Own(r)' \in store'[l]
      BY DEF Held
    <2>1. /\ r \in LiveRuns /\ stamp'[r] = stamp[r]
          /\ l \in delivered[r] \/ Own(r) \in store'[l]
      BY <1>1, Deliveries
    <2>2. Own(r)' = Own(r)
      BY <2>1 DEF Own
    <2> QED
      BY <2>1, <2>2, HeldKept
  <1>5. Earmarked(r)'
    <2> SUFFICES ASSUME NEW a \in expired'[r]
                 PROVE  /\ a # Own(r)'
                        /\ a[1] = NameOf[r] \/ <<NameOf[r], a[1]>> \in Dashed
      BY DEF Earmarked
    <2>1. pc[r] # "idle"
      BY <1>1, <1>2 DEF Findings, Untouched
    <2>2. Own(r)' = Own(r)
      BY <1>2, <2>1 DEF Onward, Own
    <2>3. CASE a \in expired[r]
      BY <1>1, <2>2, <2>3 DEF Earmarked
    <2>4. ASSUME NEW l \in Locations, a \in Expired(r, l, sweepNow[r])
          PROVE  /\ a # Own(r)
                 /\ a[1] = NameOf[r] \/ <<NameOf[r], a[1]>> \in Dashed
      <3>1. PICK s \in ArchiveStamp(a, NameOf[r]) :
              ShouldDelete(stamp[r], s, sweepNow[r], PeriodOf[r])
        BY <2>4 DEF Expired
      <3>2. s # stamp[r]
        BY <3>1 DEF ShouldDelete
      <3>3. CASE a[1] = NameOf[r] /\ s = a[3]
        BY <3>2, <3>3 DEF Own
      <3>4. CASE <<NameOf[r], a[1]>> \in Dashed
        BY <3>4, DashedAssumption DEF Own
      <3> QED
        BY <3>3, <3>4 DEF ArchiveStamp
    <2> QED
      BY <1>2, <2>2, <2>3, <2>4 DEF Findings
  <1> QED
    BY <1>3, <1>4, <1>5 DEF Ledger

\* What is old on a target, its listing finds.
LEMMA OldIsFound ==
  ASSUME TypeOK, Unescaped, NEW r \in Runs, NEW l \in TargetsOf[r], NEW a \in store[l],
         Old(a, r)
  PROVE  a \in Expired(r, l, sweepNow[r])
  <1> DEFINE x == a[3] * TicksPerSecond
             y == PeriodOf[r] * TicksPerSecond
  <1>1. a[1] = NameOf[r] /\ a[3] # stamp[r] /\ sweepNow[r] - x > y /\ PeriodOf[r] # Unlimited
    BY DEF Old
  <1>2. x \in Int /\ y \in Int /\ sweepNow[r] \in Int
    <2>1. a[3] \in Nat
      BY LocationsOf, MaxTimeAssumption, TicksAssumption DEF TypeOK, Archives, Seconds
    <2> QED
      BY <1>1, <2>1, Products, MaxTimeAssumption DEF TypeOK, Time
  <1>3. x < sweepNow[r] - y
    <2> HIDE DEF x, y
    <2> QED
      BY <1>1, <1>2
  <1>4. Legible(a, l)
    BY <1>1 DEF Legible, Unescaped
  <1>5. a[3] \in ArchiveStamp(a, NameOf[r])
    BY <1>1 DEF ArchiveStamp
  <1>6. ShouldDelete(stamp[r], a[3], sweepNow[r], PeriodOf[r])
    BY <1>1, <1>3 DEF ShouldDelete
  <1> QED
    BY <1>4, <1>5, <1>6 DEF Expired

\* What another run does to a target is no old archive of this run's name.
LEMMA SweptByOthers ==
  ASSUME TypeOK, CleanupInv, Apart, [Next]_vars, Unescaped,
         NEW r \in Runs, Swept(r), Same(r)
  PROVE  Swept(r)'
  <1> SUFFICES ASSUME pc'[r] = "sweep",
                      NEW l \in TargetsOf[r] \ (sweep'[r] \cup gaveUp'[r]),
                      NEW a \in store'[l], Old(a, r)'
               PROVE  (a \in expired'[r] /\ l \in at'[r]) \/ <<l, a>> \in skipped'[r]
    BY DEF Swept
  <1>1. pc[r] = "sweep" /\ l \in TargetsOf[r] \ (sweep[r] \cup gaveUp[r]) /\ Old(a, r)
    BY DEF Same, Old
  <1>2. ASSUME a \notin store[l] PROVE FALSE
    <2>1. PICK q \in Runs : pc[q] = "deliver" /\ a = Own(q) /\ l \in TargetsOf[q]
      <3>1. PICK q \in Runs : \E k \in Locations : Deliver(q, k)
        <4>1. store' # store
          BY <1>2
        <4> SUFFICES ASSUME \A q \in Runs : \A k \in Locations : ~Deliver(q, k) PROVE FALSE
          OBVIOUS
        <4>2. \A q \in Runs : Delete(q) => store'[l] \subseteq store[l]
          BY LocationsOf DEF Delete
        <4>3. \A q \in Runs : ~Delete(q)
          BY <1>2, <4>2
        <4> QED
          BY <4>1, <4>3 DEF Next, RunStep, Start, Preflight, Work, WorkFails, DeliverFails,
             FailRun, BeginSweep, List, ListFails, DeleteFails, Return, Kill, Tick, ClockStep,
             Done, vars
      <3>2. PICK k \in Locations : Deliver(q, k)
        BY <3>1
      <3>3. store' = [store EXCEPT ![k] = @ \cup {Own(q)}] /\ pc[q] = "deliver" /\ k \in todo[q]
        BY <3>2 DEF Deliver, InOrder
      <3>4. l = k /\ a = Own(q)
        BY <1>2, <3>3, LocationsOf DEF TypeOK
      <3>5. todo[q] \subseteq TargetsOf[q]
        BY <3>3 DEF CleanupInv, Ledger, Settled
      <3> QED
        BY <3>3, <3>4, <3>5
    <2>2. q # r /\ q \in LiveRuns /\ r \in LiveRuns
      BY <1>1, <2>1 DEF LiveRuns, Live
    <2>3. NameOf[q] # NameOf[r]
      BY <2>1, <2>2 DEF Apart
    <2> QED
      BY <1>1, <2>1, <2>3 DEF Old, Own
  <1> QED
    BY <1>1, <1>2 DEF Swept, Same

LEMMA SweptStep ==
  ASSUME TypeOK, CleanupInv, Apart, Unescaped, [Next]_vars, NEW r \in Runs
  PROVE  Swept(r)'
  <1> USE DEF runVars, Goto
  <1>1. Swept(r) /\ Untouched(r)
    BY DEF CleanupInv, Ledger
  <1>2. CASE Same(r)
    BY <1>1, <1>2, SweptByOthers
  <1>3. CASE pc'[r] # "sweep"
    BY <1>3 DEF Swept
  <1>4. CASE BeginSweep(r)
    <2>1. sweep'[r] = TargetsOf[r]
      BY <1>4 DEF BeginSweep, TypeOK
    <2> QED
      BY <2>1 DEF Swept
  <1>5. ASSUME NEW l \in Locations, List(r, l) PROVE Swept(r)'
    <2>1. /\ expired[r] = {} /\ sweep'[r] = sweep[r] \ {l} /\ at'[r] = {l}
          /\ UNCHANGED <<store, pc, stamp, sweepNow, gaveUp>>
      BY <1>5 DEF List, TypeOK
    <2>2. PICK over : /\ expired'[r] = Expired(r, l, sweepNow[r]) \ over
                      /\ skipped'[r] = skipped[r] \cup ({l} \X over)
      BY <1>5 DEF List, TypeOK
    <2> SUFFICES ASSUME pc[r] = "sweep",
                        NEW k \in TargetsOf[r] \ (sweep'[r] \cup gaveUp[r]),
                        NEW a \in store[k], Old(a, r), <<k, a>> \notin skipped'[r]
                 PROVE  a \in expired'[r] /\ k \in at'[r]
      BY <2>1 DEF Swept, Old
    <2>3. k = l
      BY <1>1, <2>1, <2>2 DEF Swept
    <2>4. a \in Expired(r, l, sweepNow[r])
      BY <2>3, OldIsFound
    <2>5. a \notin over
      BY <2>2, <2>3
    <2> QED
      BY <2>1, <2>2, <2>3, <2>4, <2>5
  <1>6. ASSUME NEW l \in Locations, ListFails(r, l) PROVE Swept(r)'
    <2>1. /\ sweep'[r] = sweep[r] \ {l} /\ gaveUp'[r] = gaveUp[r] \cup {l}
          /\ UNCHANGED <<store, pc, stamp, sweepNow, at, expired, skipped>>
      BY <1>6 DEF ListFails, TypeOK
    <2> QED
      BY <1>1, <2>1 DEF Swept, Old
  <1>7. CASE Delete(r)
    <2>1. PICK d \in expired[r] :
             /\ expired' = [expired EXCEPT ![r] = @ \ {d}]
             /\ store' = [l \in Locations |-> IF l \in Hit(r) THEN store[l] \ {d} ELSE store[l]]
      BY <1>7 DEF Delete
    <2>2. UNCHANGED <<pc, stamp, sweepNow, sweep, at, gaveUp, skipped>>
      BY <1>7 DEF Delete
    <2>3. at[r] = Hit(r)
      BY <1>1 DEF Untouched, Unescaped, Hit
    <2> SUFFICES ASSUME pc[r] = "sweep",
                        NEW k \in TargetsOf[r] \ (sweep[r] \cup gaveUp[r]),
                        NEW a \in store'[k], Old(a, r), <<k, a>> \notin skipped[r]
                 PROVE  a \in expired'[r] /\ k \in at[r]
      BY <2>2 DEF Swept, Old
    <2>4. a \in store[k] /\ (k \in Hit(r) => a # d)
      BY <2>1, LocationsOf
    <2>5. a \in expired[r] /\ k \in at[r]
      BY <1>1, <2>4 DEF Swept
    <2> QED
      BY <2>1, <2>3, <2>4, <2>5 DEF TypeOK
  <1>8. CASE DeleteFails(r)
    <2>1. /\ expired'[r] \subseteq expired[r] /\ gaveUp'[r] = gaveUp[r] \cup at[r]
          /\ UNCHANGED <<store, pc, stamp, sweepNow, sweep, at, skipped>>
      BY <1>8 DEF DeleteFails, TypeOK
    <2> QED
      BY <1>1, <2>1 DEF Swept, Old
  <1>9. ASSUME Start(r) \/ RunStep(r) \/ Kill(r), pc'[r] = "sweep"
        PROVE  \/ BeginSweep(r) \/ Delete(r) \/ DeleteFails(r)
               \/ \E l \in Locations : List(r, l) \/ ListFails(r, l)
    <2>1. ~Start(r) /\ ~Kill(r) /\ ~Preflight(r) /\ ~Work(r) /\ ~WorkFails(r)
          /\ ~FailRun(r) /\ ~Return(r)
      BY <1>9 DEF Start, Kill, Preflight, Work, WorkFails, FailRun, Return, TypeOK
    <2>2. \A l \in Locations : ~Deliver(r, l) /\ ~DeliverFails(r, l)
      BY <1>9 DEF Deliver, DeliverFails
    <2> QED
      BY <1>9, <2>1, <2>2 DEF RunStep
  <1> QED
    BY <1>2, <1>3, <1>4, <1>5, <1>6, <1>7, <1>8, <1>9, WhoSteps, OthersSame, ClockSame

LEMMA CleanupInit == Init => CleanupInv
  BY DEF Init, CleanupInv, Ledger, Untouched, Settled, Held, Earmarked, Swept, LiveRuns, Live

LEMMA CleanupStep == TypeOK /\ CleanupInv /\ Apart /\ [Next]_vars => CleanupInv'
  BY LedgerStep, SweptStep DEF CleanupInv, Unescaped

\* For runs that keep apart, a run's picture of its targets is the true one at
\* every step, whatever fails, is killed or has its clock stepped.
THEOREM CleanupInOrder == []Apart /\ Spec => []CleanupInv
  BY CleanupInit, CleanupStep, TypeCorrect, PTL DEF Spec

\* "This run's own archive is always kept, even if it is older than the
\* period": it is on every target of the run throughout its cleanup, whatever
\* the clock says in between (should_delete's `stamp != own`), as long as no
\* run overlaps it whose name could claim that archive.
THEOREM OwnAlwaysKept == []Apart /\ Spec => []OwnArchiveKept
  <1>1. CleanupInv => OwnArchiveKept
    BY DEF CleanupInv, Ledger, Settled, Held, OwnArchiveKept, LiveRuns, Live
  <1> QED
    BY <1>1, CleanupInOrder, PTL

\* A finished cleanup leaves nothing of its name behind that was past its
\* period, in either extension, on any target it gave no warning for, but what
\* its listing could not tell to be a file: such entries it skips in silence
\* (deliver.rs's file_type), and theirs is the only silence, as long as the
\* store escapes no name and no bucket (list of object_store).
THEOREM CleanupCompletes == Unescaped /\ []Apart /\ Spec => []SweepComplete
  <1>1. CleanupInv /\ Unescaped => SweepComplete
    <2> SUFFICES ASSUME CleanupInv, Unescaped, NEW r \in Runs, SweptAll(r),
                        NEW l \in TargetsOf[r] \ gaveUp[r], NEW a \in store[l], Old(a, r)
                 PROVE  <<l, a>> \in skipped[r]
      BY DEF SweepComplete
    <2>1. Swept(r)
      BY DEF CleanupInv
    <2> QED
      BY <2>1 DEF Swept, SweptAll
  <1>2. CASE ~Unescaped
    BY <1>2
  <1>3. CASE Unescaped
    <2>1. CleanupInv => SweepComplete
      BY <1>1, <1>3
    <2> QED
      BY <2>1, CleanupInOrder, PTL
  <1> QED
    BY <1>2, <1>3

\* Where no entry is passed over, nothing past its period is left in silence.
THEOREM LeftoversAlwaysLogged ==
    "kind" \notin Faults /\ Unescaped /\ []Apart /\ Spec => []LeftoversLogged
  <1> DEFINE NothingOver == \A r \in Runs : skipped[r] = {}
  <1>1. Init => NothingOver
    BY DEF Init
  <1>2. ASSUME "kind" \notin Faults, TypeOK, NothingOver, [Next]_vars PROVE NothingOver'
    <2>1. ASSUME NEW r \in Runs, NEW l \in Locations, List(r, l) PROVE NothingOver'
      <3>1. PICK over \in PassedOver(r, l) :
               skipped' = [skipped EXCEPT ![r] = @ \cup ({l} \X over)]
        BY <2>1 DEF List
      <3>2. {l} \X over = {}
        BY <1>2, <3>1 DEF PassedOver
      <3> QED
        BY <1>2, <3>1, <3>2 DEF TypeOK
    <2>2. ASSUME UNCHANGED skipped PROVE NothingOver'
      BY <1>2, <2>2
    <2> QED
      BY <1>2, <2>1, <2>2 DEF Next, RunStep, Start, Preflight, Work, WorkFails, Deliver,
         DeliverFails, FailRun, BeginSweep, ListFails, Delete, DeleteFails, Return, Kill,
         Tick, ClockStep, Done, vars, runVars
  <1>3. NothingOver /\ SweepComplete => LeftoversLogged
    BY DEF SweepComplete, LeftoversLogged
  <1>4. CASE "kind" \in Faults
    BY <1>4
  <1>5. CASE "kind" \notin Faults
    <2>1. TypeOK /\ NothingOver /\ [Next]_vars => NothingOver'
      BY <1>2, <1>5
    <2> HIDE DEF NothingOver
    <2> QED
      BY <1>1, <1>3, <2>1, TypeCorrect, CleanupCompletes, PTL DEF Spec
  <1> QED
    BY <1>4, <1>5

\* Whoever deletes an archive has its own in place on every target.
LEMMA DeliveredFirst ==
  ASSUME TypeOK, CleanupInv, CleanupInv', [Next]_vars,
         NEW l \in Locations, NEW a \in store[l] \ store'[l]
  PROVE  \E r \in Runs :
             /\ pc[r] = "sweep" /\ l \in at[r] /\ a \in expired[r] \ expired'[r]
             /\ \A k \in TargetsOf[r] : Own(r) \in store'[k]
  <1>1. PICK r \in Runs : Delete(r)
    <2> SUFFICES ASSUME \A r \in Runs : ~Delete(r) PROVE FALSE
      OBVIOUS
    <2>1. \A r \in Runs : \A k \in Locations : Deliver(r, k) => store[l] \subseteq store'[l]
      BY DEF Deliver, TypeOK
    <2>2. store' # store
      OBVIOUS
    <2> QED
      BY <2>1, <2>2 DEF Next, RunStep, Start, Preflight, Work, WorkFails, DeliverFails,
         FailRun, BeginSweep, List, ListFails, DeleteFails, Return, Kill, Tick, ClockStep,
         Done, vars, runVars
  <1>2. PICK d \in expired[r] :
           /\ expired' = [expired EXCEPT ![r] = @ \ {d}]
           /\ store' = [k \in Locations |-> IF k \in Hit(r) THEN store[k] \ {d} ELSE store[k]]
    BY <1>1 DEF Delete
  <1>3. pc[r] = "sweep" /\ UNCHANGED <<pc, stamp, delivered>>
    BY <1>1 DEF Delete
  <1>4. a = d /\ l \in Hit(r)
    BY <1>2
  <1>5. l \in at[r] /\ a \in expired[r] \ expired'[r]
    BY <1>2, <1>4 DEF Hit, TypeOK
  <1>6. \A k \in TargetsOf[r] : Own(r) \in store'[k]
    <2>1. Settled(r)' /\ Held(r)'
      BY DEF CleanupInv, Ledger
    <2> QED
      BY <1>3, <2>1 DEF Settled, Held, LiveRuns, Live, Own
  <1> QED
    BY <1>3, <1>5, <1>6

\* "A failed run deletes nothing": whatever is deleted, the very run whose
\* cleanup deletes it has its own archive on every one of its targets at that
\* moment (run returns on any delivery failure before it comes to its cleanup).
THEOREM DeliversBeforeDeleting == []Apart /\ Spec => DeletesOnlyAfterDelivery
  <1>1. TypeOK /\ CleanupInv /\ CleanupInv' /\ [Next]_vars =>
          [\A l \in Locations : \A a \in store[l] \ store'[l] :
             \E r \in Runs :
               /\ pc[r] = "sweep" /\ l \in at[r] /\ a \in expired[r] \ expired'[r]
               /\ \A k \in TargetsOf[r] : Own(r) \in store'[k]]_vars
    BY DeliveredFirst
  <1> QED
    BY <1>1, TypeCorrect, CleanupInOrder, PTL DEF Spec, DeletesOnlyAfterDelivery

\* A target that holds an archive of some name always will: retention thins a
\* history out but never ends it, though the clock be wrong or the run killed.
THEOREM HistoryNeverEnds == NoTwins /\ []Apart /\ Spec => NeverEmptied
  <1>1. DInv /\ CleanupInv /\ CleanupInv' /\ [Next]_vars =>
          [\A l \in Locations, n \in Names :
              (\E a \in store[l] : a[1] = n) => \E a \in store'[l] : a[1] = n]_vars
    <2> SUFFICES ASSUME DInv, CleanupInv, CleanupInv', [Next]_vars,
                        NEW l \in Locations, NEW a \in store[l]
                 PROVE  \E b \in store'[l] : b[1] = a[1]
      OBVIOUS
    <2>1. CASE a \in store'[l]
      BY <2>1
    <2>2. CASE a \notin store'[l]
      <3>1. PICK r \in Runs :
               /\ l \in at[r] /\ a \in expired[r]
               /\ \A k \in TargetsOf[r] : Own(r) \in store'[k]
        BY <2>2, DeliveredFirst DEF DInv
      <3>2. l \in TargetsOf[r] /\ a[1] = NameOf[r]
        BY <3>1 DEF DInv, OfItsName, CleanupInv, Ledger, Untouched
      <3>3. Own(r)[1] = NameOf[r]
        BY DEF Own
      <3> QED
        BY <3>1, <3>2, <3>3
    <2> QED
      BY <2>1, <2>2
  <1>2. CASE ~NoTwins
    BY <1>2
  <1>3. CASE NoTwins
    <2>1. DInv /\ [Next]_vars => DInv'
      BY <1>3, DInvStep
    <2> QED
      BY <1>1, <2>1, DInvInit, CleanupInOrder, PTL DEF Spec, NeverEmptied
  <1> QED
    BY <1>2, <1>3

\* A run comes alive only when it starts.
LEMMA AliveStep ==
  ASSUME TypeOK, [Next]_vars
  PROVE  \/ LiveRuns' \subseteq LiveRuns
         \/ \E r \in Runs : Start(r) /\ LiveRuns' = LiveRuns \cup {r}
  <1> USE DEF LiveRuns, Live, Ended, Goto, runVars
  <1>1. ASSUME NEW r \in Runs, Start(r) PROVE LiveRuns' = LiveRuns \cup {r}
    BY <1>1 DEF Start, TypeOK
  <1>2. ASSUME NEW r \in Runs, RunStep(r) \/ Kill(r)
        PROVE  pc[r] \in Live /\ \A q \in Runs \ {r} : pc'[q] = pc[q]
    <2>1. pc[r] \in Live
      BY <1>2 DEF RunStep, Preflight, Work, WorkFails, Deliver, DeliverFails, FailRun,
         BeginSweep, List, ListFails, Delete, DeleteFails, Return, Kill
    <2> QED
      BY <1>2, <2>1, OthersSame DEF Same
  <1>3. ASSUME Tick \/ ClockStep \/ UNCHANGED vars PROVE LiveRuns' = LiveRuns
    BY <1>3 DEF Tick, ClockStep, vars
  <1> QED
    BY <1>1, <1>2, <1>3, WhoSteps

\* Runs started one at a time, as by one cron job, keep apart.
THEOREM OneAtATimeKeepsApart == MaxLive <= 1 /\ Spec => []Apart
  <1> DEFINE One == IsFiniteSet(LiveRuns) /\ \A r, q \in LiveRuns : r = q
  <1>1. Init => One
    <2>1. Init => LiveRuns = {}
      BY DEF Init, LiveRuns, Live
    <2> QED
      BY <2>1, FS_EmptySet
  <1>2. ASSUME MaxLive <= 1, TypeOK, One, [Next]_vars PROVE One'
    <2>1. CASE LiveRuns' \subseteq LiveRuns
      BY <1>2, <2>1, FS_Subset
    <2>2. ASSUME NEW r \in Runs, Start(r), LiveRuns' = LiveRuns \cup {r} PROVE One'
      <3>1. Cardinality(LiveRuns) < 1
        BY <1>2, <2>2, MaxLiveAssumption, FS_CardinalityType DEF Start
      <3>2. Cardinality(LiveRuns) = 0
        BY <1>2, <3>1, FS_CardinalityType
      <3>3. LiveRuns = {}
        BY <1>2, <3>2, FS_EmptySet
      <3>4. IsFiniteSet(LiveRuns')
        BY <1>2, <2>2, FS_AddElement
      <3> QED
        BY <2>2, <3>3, <3>4
    <2> QED
      BY <1>2, <2>1, <2>2, AliveStep
  <1>3. One => Apart
    BY DEF Apart
  <1>4. CASE ~(MaxLive <= 1)
    BY <1>4
  <1>5. CASE MaxLive <= 1
    <2>1. TypeOK /\ One /\ [Next]_vars => One'
      BY <1>2, <1>5
    <2> HIDE DEF One
    <2> QED
      BY <1>1, <1>3, <2>1, TypeCorrect, PTL DEF Spec
  <1> QED
    BY <1>4, <1>5

=============================================================================
