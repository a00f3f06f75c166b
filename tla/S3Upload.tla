------------------------------ MODULE S3Upload ------------------------------
(***************************************************************************)
(* The upload of finished archives to an S3-compatible store (s3.rs), and  *)
(* the store behind it as object_store's client shows it (external): a     *)
(* multipart upload whose parts travel concurrently, a bounded number of   *)
(* them at a time, and which becomes an object only when completed.        *)
(* Any request may fail, with or without having taken effect.              *)
(***************************************************************************)
EXTENDS Naturals, FiniteSets

CONSTANTS
    Runs,        \* invocations of run() with an S3 target
    Keys,        \* object keys <prefix>/<name>-<stamp>.tgz[.gpg]
    KeyOf,       \* KeyOf[r]: the key run r uploads to
    Parts,       \* the number of 5 MiB parts of an artifact
    PartsPerRead, \* how many parts one 8 MiB read can complete, at most
    Capacity,    \* the argument of wait_for_capacity
    MaxLive,     \* how many runs are under way at once, at most
    Faults,      \* what may go wrong, a subset of FaultKinds
    None

FaultKinds == {"head", "work", "initiate", "open", "read", "part", "abort",
               "complete", "answer", "kill"}

ASSUME KeysAssumption == KeyOf \in [Runs -> Keys]
ASSUME PartsAssumption == Parts \in Nat \ {0}
ASSUME ReadAssumption == PartsPerRead \in Nat \ {0}
ASSUME CapacityAssumption == Capacity \in Nat \ {0}
ASSUME MaxLiveAssumption == MaxLive \in Nat \ {0}
ASSUME FaultsAssumption == Faults \subseteq FaultKinds
ASSUME NoneAssumption == None \notin Runs

VARIABLES
    object,      \* object[k]: the run whose artifact the key holds, or None
    orphans,     \* the runs whose parts are in the store, in no object
    stored,      \* stored[r]: the parts of r the store has received
    pc,
    begun,       \* begun[r]: how many parts were handed to a sending task
    flying,      \* flying[r]: the parts whose task has not been reaped
    broken,      \* broken[r]: the parts whose request failed
    outcome,     \* outcome[r]: what upload() returned, or "none"; its error
                 \* "unfinished" is that of finish()
    unaborted    \* history: the runs whose abort failed, which nobody is told

storeVars == <<object, orphans, stored, unaborted>>
vars == <<storeVars, pc, begun, flying, broken, outcome>>

Live  == {"precheck", "work", "recheck", "initiate", "open", "read", "wait",
          "finish", "complete", "abort"}
Ended == {"refused", "failed", "returned", "crashed"}
Part  == 1..Parts

TypeOK ==
    /\ object \in [Keys -> Runs \cup {None}]
    /\ orphans \subseteq Runs
    /\ stored \in [Runs -> SUBSET Part]
    /\ pc \in [Runs -> {"idle"} \cup Live \cup Ended]
    /\ begun \in [Runs -> 0..Parts]
    /\ flying \in [Runs -> SUBSET Part]
    /\ broken \in [Runs -> SUBSET Part]
    /\ outcome \in [Runs -> {"none", "ok", "error", "unfinished"}]
    /\ unaborted \subseteq Runs

Init ==
    /\ object = [k \in Keys |-> None]
    /\ orphans = {}
    /\ stored = [r \in Runs |-> {}]
    /\ pc = [r \in Runs |-> "idle"]
    /\ begun = [r \in Runs |-> 0]
    /\ flying = [r \in Runs |-> {}]
    /\ broken = [r \in Runs |-> {}]
    /\ outcome = [r \in Runs |-> "none"]
    /\ unaborted = {}

-----------------------------------------------------------------------------
Goto(r, l) == pc' = [pc EXCEPT ![r] = l]

\* upload() returns an error or nothing, and run() goes on.
End(r, result) ==
    /\ Goto(r, "returned")
    /\ outcome' = [outcome EXCEPT ![r] = result]

\* ensure_object_free: only NotFound means free; a bug would take any error
\* of the head request for it.
FreeOrUnknown(r) == object[KeyOf[r]] = None \/ "head" \in Faults
Free(r) == object[KeyOf[r]] = None

Begin(r) ==
    /\ pc[r] = "idle"
    /\ Cardinality({q \in Runs : pc[q] \in Live}) < MaxLive
    /\ Goto(r, "precheck")
    /\ UNCHANGED <<storeVars, begun, flying, broken, outcome>>

\* The check of run(), before any work; an error of the request refuses too.
PreCheck(r) ==
    /\ pc[r] = "precheck"
    /\ \/ Free(r) /\ Goto(r, "work")
       \/ (~Free(r) \/ "head" \in Faults) /\ Goto(r, "refused")
    /\ UNCHANGED <<storeVars, begun, flying, broken, outcome>>

\* Snapshot, archive and encryption; local targets that fail stop nothing.
Work(r) ==
    /\ pc[r] = "work"
    /\ Goto(r, "recheck")
    /\ UNCHANGED <<storeVars, begun, flying, broken, outcome>>

WorkFails(r) ==
    /\ pc[r] = "work"
    /\ "work" \in Faults
    /\ Goto(r, "failed")
    /\ UNCHANGED <<storeVars, begun, flying, broken, outcome>>

\* upload() repeats the check.
Recheck(r) ==
    /\ pc[r] = "recheck"
    /\ \/ Free(r) /\ Goto(r, "initiate") /\ UNCHANGED outcome
       \/ (~Free(r) \/ "head" \in Faults) /\ End(r, "error")
    /\ UNCHANGED <<storeVars, begun, flying, broken>>

Initiate(r) ==
    /\ pc[r] = "initiate"
    /\ Goto(r, "open")
    /\ orphans' = orphans \cup {r}
    /\ UNCHANGED <<object, stored, unaborted, begun, flying, broken, outcome>>

InitiateFails(r) ==
    /\ pc[r] = "initiate"
    /\ "initiate" \in Faults
    /\ End(r, "error")
    /\ UNCHANGED <<storeVars, begun, flying, broken>>

Open(r) ==
    /\ pc[r] = "open"
    /\ Goto(r, "read")
    /\ UNCHANGED <<storeVars, begun, flying, broken, outcome>>

\* The artifact cannot be opened: upload() returns and aborts nothing.
OpenFails(r) ==
    /\ pc[r] = "open"
    /\ "open" \in Faults
    /\ End(r, "error")
    /\ UNCHANGED <<storeVars, begun, flying, broken>>

\* The writer starts a task for each of the next n parts, at once and without
\* waiting; a bug would number them from 0.
SendFromZero(r, n) ==
    /\ begun' = [begun EXCEPT ![r] = @ + n]
    /\ flying' = [flying EXCEPT ![r] = @ \cup begun[r]..(begun[r] + n - 1)]
Send(r, n) ==
    /\ begun' = [begun EXCEPT ![r] = @ + n]
    /\ flying' = [flying EXCEPT ![r] = @ \cup (begun[r] + 1)..(begun[r] + n)]

\* A block is read and written. One that completes no part changes nothing
\* here and is not a step of the model.
Read(r) ==
    /\ pc[r] = "read"
    /\ \E n \in 1..PartsPerRead : begun[r] + n <= Parts /\ Send(r, n)
    /\ Goto(r, "wait")
    /\ UNCHANGED <<storeVars, broken, outcome>>

\* End of file: finish() sends what is left in the buffer as the last part.
ReadEof(r) ==
    /\ pc[r] = "read"
    /\ Parts - begun[r] \in {0, 1}
    /\ Send(r, Parts - begun[r])
    /\ Goto(r, "finish")
    /\ UNCHANGED <<storeVars, broken, outcome>>

ReadFails(r) ==
    /\ pc[r] = "read"
    /\ "read" \in Faults
    /\ Goto(r, "abort")
    /\ UNCHANGED <<storeVars, begun, flying, broken, outcome>>

\* The store receives a part, or its request fails.
PartArrives(r, p) ==
    /\ p \in flying[r] \ (stored[r] \cup broken[r])
    /\ pc[r] \in Live \ {"abort"}
    /\ \/ stored' = [stored EXCEPT ![r] = @ \cup {p}] /\ UNCHANGED broken
       \/ /\ "part" \in Faults
          /\ broken' = [broken EXCEPT ![r] = @ \cup {p}]
          /\ UNCHANGED stored
    /\ UNCHANGED <<object, orphans, unaborted, pc, begun, flying, outcome>>

\* wait_for_capacity returns once fewer than Capacity tasks fly; a bug would
\* not wait.
NoNeedToWait(r) == TRUE
HasCapacity(r) == Cardinality(flying[r]) < Capacity

\* It looks at finished tasks only while it has to wait, and finish() until
\* none is left.
Reaping(r) == (pc[r] = "wait" /\ ~HasCapacity(r)) \/ pc[r] = "finish"

Reap(r) ==
    /\ Reaping(r)
    /\ \E p \in flying[r] \cap stored[r] : flying' = [flying EXCEPT ![r] = @ \ {p}]
    /\ UNCHANGED <<storeVars, pc, begun, broken, outcome>>

Wait(r) ==
    /\ pc[r] = "wait"
    /\ HasCapacity(r)
    /\ Goto(r, "read")
    /\ UNCHANGED <<storeVars, begun, flying, broken, outcome>>

\* A failed part surfaces while waiting, and the upload is aborted; bugs would
\* send it again for as long as it fails, or return without the abort.
WaitRetries(r) ==
    /\ pc[r] = "wait" /\ Reaping(r)
    /\ broken[r] \cap flying[r] # {}
    /\ broken' = [broken EXCEPT ![r] = {}]
    /\ UNCHANGED <<storeVars, pc, begun, flying, outcome>>
WaitReturns(r) ==
    /\ pc[r] = "wait" /\ Reaping(r)
    /\ broken[r] \cap flying[r] # {}
    /\ End(r, "error")
    /\ UNCHANGED <<storeVars, begun, flying, broken>>
WaitFails(r) ==
    /\ pc[r] = "wait" /\ Reaping(r)
    /\ broken[r] \cap flying[r] # {}
    /\ Goto(r, "abort")
    /\ UNCHANGED <<storeVars, begun, flying, broken, outcome>>

\* finish() waits for every task; a bug would complete with the parts it has.
SomePartsIn(r) == stored[r] # {}
AllPartsIn(r) == flying[r] = {}

Drained(r) ==
    /\ pc[r] = "finish"
    /\ AllPartsIn(r)
    /\ Goto(r, "complete")
    /\ UNCHANGED <<storeVars, begun, flying, broken, outcome>>

\* A part that failed makes finish() fail; nothing is aborted then.
FinishFails(r) ==
    /\ pc[r] = "finish"
    /\ broken[r] \cap flying[r] # {}
    /\ End(r, "unfinished")
    /\ UNCHANGED <<storeVars, begun, flying, broken>>

\* The store assembles the object under its key, whatever the key held.
Assemble(r) ==
    /\ object' = [object EXCEPT ![KeyOf[r]] = r]
    /\ orphans' = orphans \ {r}

Complete(r) ==
    /\ pc[r] = "complete"
    /\ Assemble(r)
    /\ End(r, "ok")
    /\ UNCHANGED <<stored, unaborted, begun, flying, broken>>

CompleteFails(r) ==
    /\ pc[r] = "complete"
    /\ "complete" \in Faults
    /\ End(r, "unfinished")
    /\ UNCHANGED <<storeVars, begun, flying, broken>>

\* The answer is lost: the object is there and the run reports a failure.
AnswerLost(r) ==
    /\ pc[r] = "complete"
    /\ "answer" \in Faults
    /\ Assemble(r)
    /\ End(r, "unfinished")
    /\ UNCHANGED <<stored, unaborted, begun, flying, broken>>

\* abort() removes what the upload left in the store, or fails and leaves it,
\* and either way upload() returns the error that made it abort.
DropUpload(r) ==
    /\ orphans' = orphans \ {r}
    /\ stored' = [stored EXCEPT ![r] = {}]
    /\ UNCHANGED unaborted
KeepUpload(r) ==
    /\ "abort" \in Faults
    /\ unaborted' = unaborted \cup {r}
    /\ UNCHANGED <<orphans, stored>>

Abort(r) ==
    /\ pc[r] = "abort"
    /\ DropUpload(r) \/ KeepUpload(r)
    /\ End(r, "error")
    /\ UNCHANGED <<object, begun, flying, broken>>

\* A complete request that has left takes effect or not.
Kill(r) ==
    /\ pc[r] \in Live
    /\ "kill" \in Faults
    /\ Goto(r, "crashed")
    /\ \/ UNCHANGED <<object, orphans>>
       \/ pc[r] = "complete" /\ Assemble(r)
    /\ UNCHANGED <<stored, unaborted, begun, flying, broken, outcome>>

RunStep(r) ==
    \/ PreCheck(r) \/ Work(r) \/ WorkFails(r) \/ Recheck(r) \/ Initiate(r)
    \/ InitiateFails(r) \/ Open(r) \/ OpenFails(r) \/ Read(r) \/ ReadEof(r) \/ ReadFails(r)
    \/ Reap(r) \/ Wait(r) \/ WaitFails(r) \/ Drained(r) \/ FinishFails(r)
    \/ Complete(r) \/ CompleteFails(r) \/ AnswerLost(r) \/ Abort(r)

Arrival(r) == \E p \in Part : PartArrives(r, p)

Done == (\A r \in Runs : pc[r] \in Ended) /\ UNCHANGED vars

Next ==
    \/ \E r \in Runs : Begin(r) \/ RunStep(r) \/ Arrival(r) \/ Kill(r)
    \/ Done

Spec == Init /\ [][Next]_vars

\* A run that has begun is scheduled, and the client gives up on a request
\* that is never answered; nothing says that a run begins. A read of the file
\* makes progress, so the loop is left once the file is read.
FairSpec ==
    /\ Spec
    /\ \A r \in Runs : WF_vars(RunStep(r)) /\ WF_vars(Arrival(r))

-----------------------------------------------------------------------------
\* s3.rs, upload(): "a reader never sees a partial object". An object is made
\* only from every part of the artifact, whichever parts arrived in which
\* order, and whatever request failed or was killed half-way.
ObjectsWhole ==
    \A k \in Keys : object[k] # None => stored[object[k]] = Part

\* The bounded in-flight count of upload(): whatever the speed of the store,
\* the parts held in memory number fewer than wait_for_capacity's argument,
\* plus those of one block.
InFlightBounded ==
    \A r \in Runs : Cardinality(flying[r]) <= Capacity - 1 + PartsPerRead

\* README, "No overwrites, ever": an object holds one run's artifact for good.
\* The two head checks are what keeps a run from replacing the object of an
\* earlier one, even one that believes it failed.
NoOverwrite ==
    [][\A k \in Keys : object[k] # None => object'[k] = object[k]]_object

\* upload()'s cleanup: parts that outlast an upload which has returned are
\* those of a finish() that failed, as its error says, or of an abort that did;
\* no failed read, no failed part while waiting and no task still in flight
\* leaves any other.
LeavingsExplained ==
    \A r \in Runs :
        (pc[r] = "returned" /\ r \in orphans /\ stored[r] # {})
            => outcome[r] = "unfinished" \/ r \in unaborted

\* The books of upload() at every step, which the promises above rest on: no
\* part is sent before the artifact is open, every part handed to a task is in
\* the store or still with a task, the last part has been handed out when
\* finish() is entered, no task is left when the upload completes, the writer
\* reads on only below capacity, and no object is made of a run under way.
Early  == {"idle", "precheck", "work", "recheck", "initiate", "open"}
Unsent(r)    == begun[r] = 0 /\ flying[r] = {} /\ stored[r] = {}
SentKept(r)  == 1..begun[r] \subseteq stored[r] \cup flying[r]
Unmade(r)    == \A k \in Keys : object[k] # r
Books(r) ==
    /\ pc[r] \in Early => Unsent(r)
    /\ pc[r] \in {"read", "wait", "finish", "complete"} => SentKept(r)
    /\ pc[r] \in {"finish", "complete"} => begun[r] = Parts
    /\ pc[r] = "complete" => flying[r] = {}
    /\ pc[r] = "read" => Cardinality(flying[r]) < Capacity
    /\ pc[r] \in Live \cup {"idle"} => Unmade(r)
UploadInv == \A r \in Runs : Books(r)

\* A run that has begun ends, whatever part fails and however few tasks may
\* fly: the writer never waits for a task that will not finish.
UploadEnds == \A r \in Runs : pc[r] \in Live ~> pc[r] \in Ended
=============================================================================
