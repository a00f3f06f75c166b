----------------------------- MODULE Retention -----------------------------
(***************************************************************************)
(* Stamps, delivery and retention cleanup of runs that share their         *)
(* targets: the order of steps in lib.rs's run, should_delete, and the two *)
(* cleanup_retention functions (deliver.rs, s3.rs).  Delivery of one file  *)
(* is one step here; Delivery.tla opens it up.                             *)
(*                                                                         *)
(* The clock counts ticks, TicksPerSecond of them to the second that a     *)
(* stamp is cut down to; retention periods are in seconds here, for hours  *)
(* and days in the code.                                                   *)
(***************************************************************************)
EXTENDS Integers, FiniteSets

CONSTANTS
    Runs,            \* invocations of run()
    Locals, Buckets, \* target directories and S3 prefixes
    Names, Exts,     \* values of --name, and .tgz or .tgz.gpg
    Dashed,          \* the pairs <<n, m>> of names where m is n and a dash
    Escaped,         \* the names and S3 prefixes that object_store escapes
    Ages,            \* the age of what seems to be from before our era, in seconds
    NameOf, ExtOf,   \* of each run
    TargetsOf,       \* TargetsOf[r]: the directories and buckets of run r
    PeriodOf,        \* PeriodOf[r]: its retention period, or Unlimited
    Unlimited,
    TicksPerSecond,
    MaxTime,         \* bound on the clock, in ticks
    Faults,          \* what may go wrong, a subset of FaultKinds
    MaxLive          \* bound on the runs alive at the same time

FaultKinds == {"head", "work", "deliver", "list", "kind", "delete", "kill", "clock"}
Locations == Locals \cup Buckets

ASSUME NameOfAssumption == NameOf \in [Runs -> Names]
ASSUME ExtOfAssumption == ExtOf \in [Runs -> Exts]
ASSUME DashedAssumption == Dashed \subseteq {p \in Names \X Names : p[1] # p[2]}
ASSUME EscapedAssumption == Escaped \subseteq Names \cup Buckets
ASSUME AgesAssumption == Ages \in Nat /\ \A r \in Runs : PeriodOf[r] # Unlimited => PeriodOf[r] < Ages
ASSUME TargetsAssumption == TargetsOf \in [Runs -> SUBSET Locations]
ASSUME UnlimitedAssumption == Unlimited \notin Nat
ASSUME PeriodAssumption == PeriodOf \in [Runs -> (Nat \ {0}) \cup {Unlimited}]
ASSUME TicksAssumption == TicksPerSecond \in Nat \ {0}
ASSUME MaxTimeAssumption == MaxTime \in Nat
ASSUME FaultsAssumption == Faults \subseteq FaultKinds
ASSUME MaxLiveAssumption == MaxLive \in Nat

VARIABLES
    now,         \* the system clock, UTC
    store,       \* store[l]: the archives at l, as <<name, extension, stamp>>
    pc,          \* where each run is
    born,        \* the tick at which a run read the clock for its stamp
    stamp,       \* that tick cut down to a second
    todo,        \* the targets still to deliver to
    delivered, failures,
    sweepNow,    \* the second clock reading, taken once for all targets
    sweep,       \* the targets still to clean up
    at,          \* the targets whose listing is being worked on: one, or none
    expired,     \* the archives of that listing still to delete
    gaveUp,      \* the targets for which it printed a retention warning
    skipped      \* history: what its listings passed over without a word,
                 \* as <<target, archive>>

runVars == <<born, stamp, todo, delivered, failures, sweepNow, sweep, at, expired, gaveUp,
             skipped>>
vars    == <<now, store, pc, runVars>>

Live  == {"preflight", "work", "deliver", "sweep"}
Ended == {"refused", "failed", "done", "crashed"}

Time     == 0..MaxTime
Seconds  == 0..(MaxTime \div TicksPerSecond)
Archives == Names \X Exts \X Seconds

\* The archive r mints: its final file name.
Own(r) == <<NameOf[r], ExtOf[r], stamp[r]>>

\* stamp(): second precision, rounded down; a bug would round up.
StampUp(t) == (t + TicksPerSecond - 1) \div TicksPerSecond
Stamp(t) == t \div TicksPerSecond

\* should_delete: this run's own stamp is kept, and so is one exactly at the
\* period; bugs would forget the former, or delete the latter.
ShouldDeleteOwn(own, s, t, period) ==
    period # Unlimited /\ s * TicksPerSecond < t - period * TicksPerSecond
ShouldDeleteAtPeriod(own, s, t, period) ==
    s # own /\ period # Unlimited /\ s * TicksPerSecond <= t - period * TicksPerSecond
ShouldDelete(own, s, t, period) ==
    /\ s # own
    /\ period # Unlimited
    /\ s * TicksPerSecond < t - period * TicksPerSecond

\* archive_stamp: the stamp, if any, that is found in an archive's file name
\* when one looks for those of a name.  After `<name>-` the year may come with
\* a sign, for all that time's [year] is told, so that an archive of the name
\* with one dash more passes for one from before our era.
ArchiveStamp(a, name) ==
    {s \in {a[3]} : a[1] = name} \cup {s \in {-Ages} : <<name, a[1]>> \in Dashed}

\* A listing shows a file by its name, and an object by its key, escaped.
Legible(a, l) == l \in Buckets => a[1] \notin Escaped

\* The archives at l that cleanup takes for expired ones of this name, with
\* either extension; a bug would forget the encrypted ones.
ExpiredSameExt(r, l, t) ==
    {a \in store[l] : Legible(a, l) /\ a[2] = ExtOf[r]
        /\ \E s \in ArchiveStamp(a, NameOf[r]) : ShouldDelete(stamp[r], s, t, PeriodOf[r])}
Expired(r, l, t) ==
    {a \in store[l] : Legible(a, l)
        /\ \E s \in ArchiveStamp(a, NameOf[r]) : ShouldDelete(stamp[r], s, t, PeriodOf[r])}

\* A key from a listing is escaped once more when it is deleted: under an
\* escaped prefix, the store finds nothing to delete, which is no error.
Hit(r) == at[r] \ Escaped

\* Local directories come before the bucket, in delivery and in cleanup.
InOrder(l, todoSet) == l \in todoSet /\ (l \in Buckets => todoSet \cap Locals = {})

LiveRuns == {r \in Runs : pc[r] \in Live}

TypeOK ==
    /\ now \in Time
    /\ store \in [Locations -> SUBSET Archives]
    /\ pc \in [Runs -> {"idle"} \cup Live \cup Ended]
    /\ born \in [Runs -> Time] /\ stamp \in [Runs -> Seconds]
    /\ todo \in [Runs -> SUBSET Locations]
    /\ delivered \in [Runs -> SUBSET Locations]
    /\ failures \in [Runs -> SUBSET Locations]
    /\ sweepNow \in [Runs -> Time]
    /\ sweep \in [Runs -> SUBSET Locations]
    /\ at \in [Runs -> SUBSET Locations]
    /\ expired \in [Runs -> SUBSET Archives]
    /\ gaveUp \in [Runs -> SUBSET Locations]
    /\ skipped \in [Runs -> SUBSET (Locations \X Archives)]

Init ==
    /\ now = 0
    /\ store = [l \in Locations |-> {}]
    /\ pc = [r \in Runs |-> "idle"]
    /\ born = [r \in Runs |-> 0] /\ stamp = [r \in Runs |-> 0]
    /\ todo = [r \in Runs |-> {}]
    /\ delivered = [r \in Runs |-> {}]
    /\ failures = [r \in Runs |-> {}]
    /\ sweepNow = [r \in Runs |-> 0]
    /\ sweep = [r \in Runs |-> {}]
    /\ at = [r \in Runs |-> {}]
    /\ expired = [r \in Runs |-> {}]
    /\ gaveUp = [r \in Runs |-> {}]
    /\ skipped = [r \in Runs |-> {}]

-----------------------------------------------------------------------------
Goto(r, l) == pc' = [pc EXCEPT ![r] = l]

\* The stamp is minted at the start, before anything is written.
Start(r) ==
    /\ pc[r] = "idle"
    /\ Cardinality(LiveRuns) < MaxLive
    /\ born' = [born EXCEPT ![r] = now]
    /\ stamp' = [stamp EXCEPT ![r] = Stamp(now)]
    /\ Goto(r, "preflight")
    /\ UNCHANGED <<now, store, todo, delivered, failures, sweepNow, sweep, at, expired, gaveUp, skipped>>

\* The run is refused when a target, or the bucket, holds its file name, or
\* when the bucket does not say whether it does.
NameTaken(r) == \E l \in TargetsOf[r] : Own(r) \in store[l]

Preflight(r) ==
    /\ pc[r] = "preflight"
    /\ \/ ~NameTaken(r) /\ Goto(r, "work")
       \/ NameTaken(r) /\ Goto(r, "refused")
       \/ "head" \in Faults /\ TargetsOf[r] \cap Buckets # {} /\ Goto(r, "refused")
    /\ UNCHANGED <<now, store, runVars>>

\* Snapshot, archive and encryption take as long as they take, or fail.
Work(r) ==
    /\ pc[r] = "work"
    /\ todo' = [todo EXCEPT ![r] = TargetsOf[r]]
    /\ Goto(r, "deliver")
    /\ UNCHANGED <<now, store, born, stamp, delivered, failures, sweepNow, sweep, at, expired, gaveUp, skipped>>

WorkFails(r) ==
    /\ pc[r] = "work"
    /\ "work" \in Faults
    /\ Goto(r, "failed")
    /\ UNCHANGED <<now, store, runVars>>

\* One target: its archive appears whole.
Deliver(r, l) ==
    /\ pc[r] = "deliver"
    /\ InOrder(l, todo[r])
    /\ Own(r) \notin store[l]
    /\ todo' = [todo EXCEPT ![r] = @ \ {l}]
    /\ store' = [store EXCEPT ![l] = @ \cup {Own(r)}]
    /\ delivered' = [delivered EXCEPT ![r] = @ \cup {l}]
    /\ UNCHANGED <<now, pc, born, stamp, failures, sweepNow, sweep, at, expired, gaveUp, skipped>>

\* One target fails, because its name is taken or otherwise; the others go on.
DeliverFails(r, l) ==
    /\ pc[r] = "deliver"
    /\ InOrder(l, todo[r])
    /\ Own(r) \in store[l] \/ "deliver" \in Faults
    /\ todo' = [todo EXCEPT ![r] = @ \ {l}]
    /\ failures' = [failures EXCEPT ![r] = @ \cup {l}]
    /\ UNCHANGED <<now, store, pc, born, stamp, delivered, sweepNow, sweep, at, expired, gaveUp, skipped>>

\* Any failure fails the run; a bug would clean up once something arrived.
SomeDelivered(r) == delivered[r] # {}
AllDelivered(r) == failures[r] = {}

FailRun(r) ==
    /\ pc[r] = "deliver" /\ todo[r] = {}
    /\ ~AllDelivered(r)
    /\ Goto(r, "failed")
    /\ UNCHANGED <<now, store, runVars>>

\* Cleanup follows a complete delivery only, with one more clock reading.
BeginSweep(r) ==
    /\ pc[r] = "deliver" /\ todo[r] = {}
    /\ AllDelivered(r)
    /\ sweepNow' = [sweepNow EXCEPT ![r] = now]
    /\ sweep' = [sweep EXCEPT ![r] = TargetsOf[r]]
    /\ Goto(r, "sweep")
    /\ UNCHANGED <<now, store, born, stamp, todo, delivered, failures, at, expired, gaveUp, skipped>>

\* Cleanup passes over a directory entry whose file_type() fails: such are any
\* of the expired ones.
PassedOver(r, l) ==
    IF "kind" \in Faults /\ l \in Locals THEN SUBSET Expired(r, l, sweepNow[r]) ELSE {{}}

\* The listing of one target, and what of it is to go.
List(r, l) ==
    /\ pc[r] = "sweep" /\ expired[r] = {}
    /\ InOrder(l, sweep[r])
    /\ sweep' = [sweep EXCEPT ![r] = @ \ {l}]
    /\ at' = [at EXCEPT ![r] = {l}]
    /\ \E over \in PassedOver(r, l) :
          /\ expired' = [expired EXCEPT ![r] = Expired(r, l, sweepNow[r]) \ over]
          /\ skipped' = [skipped EXCEPT ![r] = @ \cup ({l} \X over)]
    /\ UNCHANGED <<now, store, pc, born, stamp, todo, delivered, failures, sweepNow, gaveUp>>

\* A target that cannot be listed is left as it is.
ListFails(r, l) ==
    /\ pc[r] = "sweep" /\ expired[r] = {}
    /\ "list" \in Faults
    /\ InOrder(l, sweep[r])
    /\ sweep' = [sweep EXCEPT ![r] = @ \ {l}]
    /\ gaveUp' = [gaveUp EXCEPT ![r] = @ \cup {l}]
    /\ UNCHANGED <<now, store, pc, born, stamp, todo, delivered, failures, sweepNow, at, expired, skipped>>

\* One delete call: it may come too late, or fail, and then only warns.
Delete(r) ==
    /\ pc[r] = "sweep"
    /\ \E a \in expired[r] :
          /\ expired' = [expired EXCEPT ![r] = @ \ {a}]
          /\ store' = [l \in Locations |-> IF l \in Hit(r) THEN store[l] \ {a} ELSE store[l]]
    /\ UNCHANGED <<now, pc, born, stamp, todo, delivered, failures, sweepNow, sweep, at, gaveUp, skipped>>

DeleteFails(r) ==
    /\ pc[r] = "sweep"
    /\ "delete" \in Faults
    /\ \E a \in expired[r] : expired' = [expired EXCEPT ![r] = @ \ {a}]
    /\ gaveUp' = [gaveUp EXCEPT ![r] = @ \cup at[r]]
    /\ UNCHANGED <<now, store, pc, born, stamp, todo, delivered, failures, sweepNow, sweep, at, skipped>>

Return(r) ==
    /\ pc[r] = "sweep" /\ expired[r] = {} /\ sweep[r] = {}
    /\ Goto(r, "done")
    /\ UNCHANGED <<now, store, runVars>>

Kill(r) ==
    /\ pc[r] \in Live
    /\ "kill" \in Faults
    /\ Goto(r, "crashed")
    /\ UNCHANGED <<now, store, runVars>>

Tick ==
    /\ now < MaxTime
    /\ now' = now + 1
    /\ UNCHANGED <<store, pc, runVars>>

\* The clock is stepped, forward or back (NTP, an operator, a resumed VM).
ClockStep ==
    /\ "clock" \in Faults
    /\ now' \in Time
    /\ UNCHANGED <<store, pc, runVars>>

RunStep(r) ==
    \/ Preflight(r) \/ Work(r) \/ WorkFails(r)
    \/ \E l \in Locations : Deliver(r, l) \/ DeliverFails(r, l)
    \/ FailRun(r) \/ BeginSweep(r)
    \/ \E l \in Locations : List(r, l) \/ ListFails(r, l)
    \/ Delete(r) \/ DeleteFails(r) \/ Return(r)

Done == (\A r \in Runs : pc[r] \in Ended) /\ UNCHANGED vars

Next ==
    \/ \E r \in Runs : Start(r) \/ RunStep(r) \/ Kill(r)
    \/ Tick \/ ClockStep
    \/ Done

Spec == Init /\ [][Next]_vars

-----------------------------------------------------------------------------
(* Properties.                                                             *)

\* The youngest age, in ticks, at which any run may delete any archive.
WithinEveryPeriod(age) ==
    \A q \in Runs : PeriodOf[q] # Unlimited => age <= PeriodOf[q] * TicksPerSecond

\* A delivered archive stays where it was delivered for as long as its stamp
\* is within the retention period of every run, exactly at the period too,
\* whatever other runs list, delete and interrupt in between.
FreshArchiveKept ==
    \A r \in Runs : \A l \in delivered[r] :
        WithinEveryPeriod(now - stamp[r] * TicksPerSecond) => Own(r) \in store[l]

\* An archive is deleted for its age only: its run started more than the
\* period, less the fraction of a second lost in the stamp, before the
\* cleanup's reading of the clock.
DeletedIsOld ==
    [][\A l \in Locations : \A a \in store[l] \ store'[l] :
          \E r, q \in Runs :
             /\ pc[r] = "sweep" /\ a = Own(q) /\ a[1] = NameOf[r]
             /\ PeriodOf[r] # Unlimited
             /\ sweepNow[r] - born[q] > PeriodOf[r] * TicksPerSecond - (TicksPerSecond - 1)]_vars

\* "Anything else, including [...] archives under a different --name, is left
\* untouched": what a cleanup deletes is an archive of its own name.
ForeignKept ==
    [][\A l \in Locations : \A a \in store[l] \ store'[l] :
          \E r \in Runs : pc[r] = "sweep" /\ a[1] = NameOf[r]]_vars

\* "A failed run deletes nothing": whatever is deleted, the run that deletes
\* it has its own archive on every one of its targets at that moment, so a
\* cleanup never shortens the history without having extended it.
DeletesOnlyAfterDelivery ==
    [][\A l \in Locations : \A a \in store[l] \ store'[l] :
          \E r \in Runs :
             /\ pc[r] = "sweep" /\ l \in at[r] /\ a \in expired[r] \ expired'[r]
             /\ \A k \in TargetsOf[r] : Own(r) \in store'[k]]_vars

\* A target that holds an archive of some name always will, even when the
\* clock is wrong or a run is killed in the middle of its cleanup.
NeverEmptied ==
    [][\A l \in Locations, n \in Names :
          (\E a \in store[l] : a[1] = n) => \E a \in store'[l] : a[1] = n]_vars

\* "This run's own archive is always kept, even if it is older than the
\* period": from delivery until the run returns.
OwnArchiveKept ==
    \A r \in Runs : pc[r] = "sweep" =>
        \A l \in TargetsOf[r] : Own(r) \in store[l]

\* An archive of r's name, not of its stamp, that was past its period.
Old(a, r) ==
    /\ PeriodOf[r] # Unlimited
    /\ a[1] = NameOf[r] /\ a[3] # stamp[r]
    /\ sweepNow[r] - a[3] * TicksPerSecond > PeriodOf[r] * TicksPerSecond

SweptAll(r) == pc[r] = "sweep" /\ sweep[r] = {} /\ expired[r] = {}

\* A run that reaches the end of its cleanup leaves no archive of its name
\* that was older than the period, in either extension, on any target it
\* printed no warning for, save those that its listing could not tell to be
\* files.
SweepComplete ==
    \A r \in Runs : SweptAll(r) =>
        \A l \in TargetsOf[r] \ gaveUp[r] : \A a \in store[l] :
            Old(a, r) => <<l, a>> \in skipped[r]

\* "A cleanup failure is logged to stderr": the same of every archive, for a
\* directory entry that cleanup fails to look at is a cleanup failure too.
LeftoversLogged ==
    \A r \in Runs : SweptAll(r) =>
        \A l \in TargetsOf[r] \ gaveUp[r] : \A a \in store[l] : ~Old(a, r)

-----------------------------------------------------------------------------
(* The inductive invariant behind the properties of a cleanup.             *)

\* No two runs that overlap and share a target have names of which one could
\* take the other's archives for its own.  One run at a time has it for free.
Apart ==
    \A r, q \in LiveRuns :
        r # q /\ TargetsOf[r] \cap TargetsOf[q] # {}
            => NameOf[r] # NameOf[q] /\ <<NameOf[r], NameOf[q]>> \notin Dashed

\* Before it delivers a run has nothing to its name, before it cleans up it
\* has nothing to delete, and it never leaves its own targets.
Untouched(r) ==
    /\ pc[r] \in {"idle", "preflight", "work"} => delivered[r] = {} /\ failures[r] = {}
    /\ pc[r] \in {"idle", "preflight", "work", "deliver"} => expired[r] = {}
    /\ delivered[r] \cup at[r] \cup sweep[r] \subseteq TargetsOf[r]

\* Every target of a run is still to do, delivered to or failed, and those of
\* a run that cleans up are all delivered to.
Settled(r) ==
    /\ pc[r] = "deliver" => TargetsOf[r] = todo[r] \cup delivered[r] \cup failures[r]
    /\ pc[r] = "sweep" => TargetsOf[r] = delivered[r]

\* A run's archive outlives the run.
Held(r) == r \in LiveRuns => \A l \in delivered[r] : Own(r) \in store[l]

\* What a run is about to delete is of its name, or a dash from it, and is
\* not the archive it has just delivered.
Earmarked(r) ==
    \A a \in expired[r] :
        a # Own(r) /\ (a[1] = NameOf[r] \/ <<NameOf[r], a[1]>> \in Dashed)

\* An old archive on a target that was listed, and not given up, is one that
\* the run is about to delete from there, or has passed over.
Swept(r) ==
    pc[r] = "sweep" =>
        \A l \in TargetsOf[r] \ (sweep[r] \cup gaveUp[r]) : \A a \in store[l] :
            Old(a, r) => (a \in expired[r] /\ l \in at[r]) \/ <<l, a>> \in skipped[r]

\* No run has a name or a bucket that the store escapes.
Unescaped == \A r \in Runs : NameOf[r] \notin Escaped /\ TargetsOf[r] \cap Escaped = {}

Ledger(r) == Untouched(r) /\ Settled(r) /\ Held(r) /\ Earmarked(r)

\* What a run says of its targets is what is there, from its first delivery to
\* the last file its cleanup deletes, whatever fails or is cut short.
CleanupInv == \A r \in Runs : Ledger(r) /\ (Unescaped => Swept(r))

\* Every archive is the one that some run which started has minted, with its
\* clock reading cut down to the second.
Dated(r) ==
    /\ stamp[r] * TicksPerSecond <= born[r]
    /\ born[r] < stamp[r] * TicksPerSecond + TicksPerSecond

Minted(a) == \E q \in Runs : pc[q] # "idle" /\ a = Own(q)

Provenance ==
    /\ \A r \in Runs : Dated(r)
    /\ \A l \in Locations : \A a \in store[l] : Minted(a)
    /\ \A r \in Runs : \A a \in expired[r] : Minted(a)
=============================================================================
