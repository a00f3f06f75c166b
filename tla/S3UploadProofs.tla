--------------------------- MODULE S3UploadProofs ---------------------------
(***************************************************************************)
(* What holds of S3Upload for any number of runs, keys and parts, for any  *)
(* capacity, and whatever requests fail.                                   *)
(***************************************************************************)
EXTENDS S3Upload, FiniteSetTheorems, TLAPS

-----------------------------------------------------------------------------
(* Types: begun never exceeds Parts, so every part sent is one.            *)

LEMMA SendTyped ==
    ASSUME TypeOK, NEW r \in Runs, NEW n \in Nat, begun[r] + n <= Parts, Send(r, n)
    PROVE  /\ begun' \in [Runs -> 0..Parts]
           /\ flying' \in [Runs -> SUBSET Part]
           /\ begun'[r] = begun[r] + n
           /\ flying'[r] = flying[r] \cup (begun[r] + 1)..(begun[r] + n)
           /\ \A q \in Runs \ {r} : begun'[q] = begun[q] /\ flying'[q] = flying[q]
  <1>1. begun[r] \in 0..Parts /\ Parts \in Nat
    BY PartsAssumption DEF TypeOK
  <1>2. begun[r] + n \in 0..Parts /\ (begun[r] + 1)..(begun[r] + n) \subseteq Part
    BY <1>1 DEF Part
  <1> QED
    BY <1>2 DEF TypeOK, Send

LEMMA TypeInit == Init => TypeOK
  BY PartsAssumption DEF Init, TypeOK, Live, Ended

LEMMA TypeStep == TypeOK /\ [Next]_vars => TypeOK'
  <1> SUFFICES ASSUME TypeOK, [Next]_vars PROVE TypeOK'
    OBVIOUS
  <1> USE DEF vars, storeVars, Goto, End, Live, Ended
  <1>1. ASSUME NEW r \in Runs, Begin(r) \/ PreCheck(r) \/ Work(r) \/ WorkFails(r) \/ Recheck(r) PROVE TypeOK'
    BY <1>1 DEF TypeOK, Begin, PreCheck, Work, WorkFails, Recheck
  <1>2. ASSUME NEW r \in Runs, Initiate(r) \/ InitiateFails(r) \/ Open(r) \/ OpenFails(r)
        PROVE  TypeOK'
    BY <1>2 DEF TypeOK, Initiate, InitiateFails, Open, OpenFails
  <1>3. ASSUME NEW r \in Runs, Read(r) PROVE TypeOK'
    <2>1. PICK n \in 1..PartsPerRead : begun[r] + n <= Parts /\ Send(r, n)
      BY <1>3 DEF Read
    <2>2. n \in Nat
      BY ReadAssumption
    <2> QED
      BY <1>3, <2>1, <2>2, SendTyped DEF TypeOK, Read
  <1>4. ASSUME NEW r \in Runs, ReadEof(r) PROVE TypeOK'
    <2>1. Parts - begun[r] \in Nat /\ begun[r] + (Parts - begun[r]) <= Parts
      BY PartsAssumption DEF TypeOK
    <2>2. Send(r, Parts - begun[r])
      BY <1>4 DEF ReadEof
    <2>3. begun' \in [Runs -> 0..Parts] /\ flying' \in [Runs -> SUBSET Part]
      BY <2>1, <2>2, SendTyped
    <2> QED
      BY <1>4, <2>3 DEF TypeOK, ReadEof
  <1>5. ASSUME NEW r \in Runs, Reap(r) PROVE TypeOK'
    BY <1>5 DEF TypeOK, Reap
  <1>6. ASSUME NEW r \in Runs,
               ReadFails(r) \/ Wait(r) \/ WaitFails(r) \/ Drained(r) \/ FinishFails(r)
        PROVE  TypeOK'
    BY <1>6 DEF TypeOK, ReadFails, Wait, WaitFails, Drained, FinishFails
  <1>7. ASSUME NEW r \in Runs, Complete(r) \/ CompleteFails(r) \/ AnswerLost(r) PROVE TypeOK'
    BY <1>7 DEF TypeOK, Complete, CompleteFails, AnswerLost, Assemble
  <1>8. ASSUME NEW r \in Runs, Abort(r) \/ Kill(r) PROVE TypeOK'
    BY <1>8 DEF TypeOK, Abort, DropUpload, KeepUpload, Kill, Assemble
  <1>9. ASSUME NEW r \in Runs, Arrival(r) PROVE TypeOK'
    BY <1>9 DEF TypeOK, Arrival, PartArrives
  <1>10. CASE UNCHANGED vars
    BY <1>10 DEF TypeOK
  <1> QED
    BY <1>1, <1>2, <1>3, <1>4, <1>5, <1>6, <1>7, <1>8, <1>9, <1>10
    DEF Next, RunStep, Done

\* Every variable keeps its type: in particular no more parts are handed out
\* than the artifact has, and each has a number of its own.
THEOREM TypeCorrect == Spec => []TypeOK
  BY TypeInit, TypeStep, PTL DEF Spec

-----------------------------------------------------------------------------
(* The books of upload().  A step of one run leaves the books of the others *)
(* alone: it touches no state of theirs, and an object it makes is its own. *)

SameState(q) ==
    /\ pc'[q] = pc[q]
    /\ begun'[q] = begun[q]
    /\ flying'[q] = flying[q]
    /\ stored'[q] = stored[q]

LEMMA OthersKeepBooks ==
    ASSUME NEW q \in Runs, Books(q), SameState(q),
           NEW r \in Runs, r # q,
           \A k \in Keys : object'[k] \in {object[k], r}
    PROVE  Books(q)'
  BY DEF Books, SameState, Unsent, SentKept, Unmade, Live, Early

\* A run whose step leaves the object map, its parts and its count alone.
LEMMA MoveKeepsBooks ==
    ASSUME NEW r \in Runs, Books(r),
           begun'[r] = begun[r], flying'[r] = flying[r], stored'[r] = stored[r],
           object' = object,
           pc'[r] \in Early => pc[r] \in Early,
           pc'[r] = "read" => pc[r] = "open" \/ Cardinality(flying[r]) < Capacity,
           pc'[r] \in {"read", "wait", "finish", "complete"}
               => pc[r] \in {"open", "read", "wait", "finish", "complete"},
           pc'[r] \in {"finish", "complete"} => pc[r] \in {"finish", "complete"},
           pc'[r] = "complete" => flying[r] = {},
           pc'[r] \in Live \cup {"idle"} => pc[r] \in Live \cup {"idle"}
    PROVE  Books(r)'
  <1>1. pc'[r] \in Early => Unsent(r)'
    BY DEF Books, Unsent
  <1>2. pc'[r] \in {"read", "wait", "finish", "complete"} => SentKept(r)'
    <2>1. pc[r] = "open" => SentKept(r)
      BY DEF Books, SentKept, Unsent, Early
    <2> QED
      BY <2>1 DEF Books, SentKept
  <1>3. pc'[r] = "read" => Cardinality(flying'[r]) < Capacity
    <2>1. pc[r] = "open" => flying[r] = {}
      BY DEF Books, Unsent, Early
    <2> QED
      BY <2>1, FS_EmptySet, CapacityAssumption
  <1>4. pc'[r] \in Live \cup {"idle"} => Unmade(r)'
    BY DEF Books, Unmade
  <1> QED
    BY <1>1, <1>2, <1>3, <1>4 DEF Books

\* The actions that move a run on and send, reap, store and make nothing.
Moves(r) ==
    \/ Begin(r) \/ PreCheck(r) \/ Work(r) \/ WorkFails(r) \/ Recheck(r) \/ Initiate(r)
    \/ InitiateFails(r) \/ Open(r) \/ OpenFails(r) \/ ReadFails(r) \/ Wait(r)
    \/ WaitFails(r) \/ Drained(r) \/ FinishFails(r) \/ CompleteFails(r)

LEMMA MovesKeepBooks ==
    ASSUME TypeOK, UploadInv, NEW r \in Runs, Moves(r)
    PROVE  UploadInv'
  <1> USE DEF storeVars, Goto, End
  <1>1. UNCHANGED <<object, stored, begun, flying>>
    BY DEF Moves, Begin, PreCheck, Work, WorkFails, Recheck, Initiate, InitiateFails, Open,
           OpenFails, ReadFails, Wait, WaitFails, Drained, FinishFails, CompleteFails
  <1>2. \A q \in Runs \ {r} : pc'[q] = pc[q]
    BY DEF TypeOK, Moves, Begin, PreCheck, Work, WorkFails, Recheck, Initiate, InitiateFails,
           Open, OpenFails, ReadFails, Wait, WaitFails, Drained, FinishFails,
           CompleteFails
  <1>3. \A q \in Runs \ {r} : Books(q)'
    BY <1>1, <1>2, OthersKeepBooks DEF UploadInv, SameState
  <1> DEFINE
        l == pc[r]
        m == pc'[r]
        Safe == /\ m \in Early => l \in Early
                /\ m = "read" => l = "open" \/ Cardinality(flying[r]) < Capacity
                /\ m \in {"read", "wait", "finish", "complete"}
                      => l \in {"open", "read", "wait", "finish", "complete"}
                /\ m \in {"finish", "complete"} => l \in {"finish", "complete"}
                /\ m = "complete" => flying[r] = {}
                /\ m \in Live \cup {"idle"} => l \in Live \cup {"idle"}
  <1> USE DEF TypeOK, Early, Live
  <1>4. Begin(r) => Safe
    BY DEF Begin
  <1>5. (PreCheck(r) \/ Work(r) \/ WorkFails(r)) => Safe
    BY DEF PreCheck, Work, WorkFails
  <1>6. Recheck(r) => Safe
    BY DEF Recheck
  <1>7. (Initiate(r) \/ InitiateFails(r)) => Safe
    BY DEF Initiate, InitiateFails
  <1>8. (Open(r) \/ OpenFails(r)) => Safe
    BY DEF Open, OpenFails
  <1>9. (ReadFails(r) \/ WaitFails(r)) => Safe
    BY DEF ReadFails, WaitFails
  <1>10. Wait(r) => Safe
    BY DEF Wait, HasCapacity
  <1>11. Drained(r) => Safe
    BY DEF Drained, AllPartsIn
  <1>12. (FinishFails(r) \/ CompleteFails(r)) => Safe
    BY DEF FinishFails, CompleteFails
  <1> HIDE DEF l, m
  <1>13. Safe
    BY <1>4, <1>5, <1>6, <1>7, <1>8, <1>9, <1>10, <1>11, <1>12 DEF Moves
  <1>14. Books(r)'
    BY <1>1, <1>13, MoveKeepsBooks DEF UploadInv, l, m
  <1> QED
    BY <1>3, <1>14 DEF UploadInv

\* The parts sent with one block are with a task, so nothing sent is lost.
LEMMA SendKeepsParts ==
    ASSUME TypeOK, NEW r \in Runs, NEW n \in Nat, begun[r] + n <= Parts, Send(r, n),
           SentKept(r), stored' = stored
    PROVE  SentKept(r)'
  <1>1. begun[r] \in Nat /\ begun'[r] = begun[r] + n
    BY SendTyped DEF TypeOK
  <1>2. 1..(begun[r] + n) = 1..begun[r] \cup (begun[r] + 1)..(begun[r] + n)
    BY <1>1
  <1> QED
    BY <1>1, <1>2, SendTyped DEF SentKept

LEMMA SendingKeepsBooks ==
    ASSUME TypeOK, UploadInv, NEW r \in Runs, Read(r) \/ ReadEof(r)
    PROVE  UploadInv'
  <1>1. PICK n \in Nat : /\ begun[r] + n <= Parts
                         /\ Send(r, n)
                         /\ pc'[r] = "finish" => begun[r] + n = Parts
    <2>1. CASE Read(r)
      <3>1. PICK n \in 1..PartsPerRead : begun[r] + n <= Parts /\ Send(r, n)
        BY <2>1 DEF Read
      <3>2. n \in Nat /\ pc'[r] = "wait"
        BY <2>1, ReadAssumption DEF Read, Goto, TypeOK
      <3> QED
        BY <3>1, <3>2
    <2>2. CASE ReadEof(r)
      <3>1. Parts - begun[r] \in Nat /\ begun[r] + (Parts - begun[r]) = Parts
        BY PartsAssumption DEF TypeOK
      <3>2. Send(r, Parts - begun[r])
        BY <2>2 DEF ReadEof
      <3> QED
        BY <3>1, <3>2, PartsAssumption
    <2> QED
      BY <2>1, <2>2
  <1>2. /\ pc[r] = "read" /\ UNCHANGED <<object, stored>>
        /\ pc' = [pc EXCEPT ![r] = "wait"] \/ pc' = [pc EXCEPT ![r] = "finish"]
    BY DEF Read, ReadEof, Goto, storeVars
  <1>3. \A q \in Runs \ {r} : SameState(q)
    BY <1>1, <1>2, SendTyped DEF TypeOK, SameState
  <1>4. \A q \in Runs \ {r} : Books(q)'
    BY <1>2, <1>3, OthersKeepBooks DEF UploadInv
  <1>5. pc'[r] \in {"wait", "finish"}
    BY <1>2 DEF TypeOK
  <1>6. SentKept(r)'
    BY <1>1, <1>2, SendKeepsParts DEF UploadInv, Books
  <1>7. pc'[r] = "finish" => begun'[r] = Parts
    BY <1>1, SendTyped
  <1>8. Unmade(r)'
    BY <1>2 DEF UploadInv, Books, Unmade, Live
  <1>9. Books(r)'
    BY <1>5, <1>6, <1>7, <1>8 DEF Books, Early
  <1> QED
    BY <1>4, <1>9 DEF UploadInv

LEMMA ReapKeepsBooks ==
    ASSUME TypeOK, UploadInv, NEW r \in Runs, Reap(r)
    PROVE  UploadInv'
  <1>1. PICK p \in flying[r] \cap stored[r] : flying' = [flying EXCEPT ![r] = @ \ {p}]
    BY DEF Reap
  <1>2. pc[r] \in {"wait", "finish"} /\ UNCHANGED <<object, stored, pc, begun>>
    BY DEF Reap, Reaping, storeVars
  <1>3. flying'[r] = flying[r] \ {p} /\ \A q \in Runs \ {r} : SameState(q)
    BY <1>1, <1>2 DEF TypeOK, SameState
  <1>4. \A q \in Runs \ {r} : Books(q)'
    BY <1>2, <1>3, OthersKeepBooks DEF UploadInv
  <1>5. Books(r)'
    <2>1. SentKept(r)'
      BY <1>1, <1>2, <1>3 DEF UploadInv, Books, SentKept
    <2>2. Unmade(r)'
      BY <1>2 DEF UploadInv, Books, Unmade, Live
    <2> QED
      BY <1>2, <2>1, <2>2 DEF UploadInv, Books, Early
  <1> QED
    BY <1>4, <1>5 DEF UploadInv

\* A part arrives only from a task, which a run that has sent nothing has not.
LEMMA ArrivalKeepsBooks ==
    ASSUME TypeOK, UploadInv, NEW r \in Runs, NEW p \in Part, PartArrives(r, p)
    PROVE  UploadInv'
  <1>1. p \in flying[r] /\ UNCHANGED <<object, pc, begun, flying>>
    BY DEF PartArrives
  <1>2. stored[r] \subseteq stored'[r] /\ \A q \in Runs \ {r} : SameState(q)
    BY <1>1 DEF PartArrives, TypeOK, SameState
  <1>3. \A q \in Runs \ {r} : Books(q)'
    BY <1>1, <1>2, OthersKeepBooks DEF UploadInv
  <1>4. pc[r] \notin Early
    BY <1>1 DEF UploadInv, Books, Unsent
  <1>5. SentKept(r) => SentKept(r)'
    BY <1>1, <1>2 DEF SentKept
  <1>6. Books(r)'
    BY <1>1, <1>4, <1>5 DEF UploadInv, Books, Unmade
  <1> QED
    BY <1>3, <1>6 DEF UploadInv

\* The ends that touch the store: the run is over, so its books are closed.
Closes(r) == Complete(r) \/ AnswerLost(r) \/ Abort(r) \/ Kill(r)

LEMMA ClosingKeepsBooks ==
    ASSUME TypeOK, UploadInv, NEW r \in Runs, Closes(r)
    PROVE  UploadInv'
  <1> USE DEF Closes, Complete, AnswerLost, Abort, Kill, Assemble, DropUpload, KeepUpload, Goto, End
  <1>1. \A k \in Keys : object'[k] \in {object[k], r}
    BY DEF TypeOK
  <1>2. \A q \in Runs \ {r} : SameState(q)
    BY DEF TypeOK, SameState
  <1>3. pc'[r] \in {"returned", "crashed"}
    BY DEF TypeOK
  <1>4. \A q \in Runs \ {r} : Books(q)'
    BY <1>1, <1>2, OthersKeepBooks DEF UploadInv
  <1>5. Books(r)'
    BY <1>3 DEF Books, Early, Live
  <1> QED
    BY <1>4, <1>5 DEF UploadInv

LEMMA BooksInit == Init => UploadInv
  BY NoneAssumption DEF Init, UploadInv, Books, Unsent, Unmade, Early

LEMMA BooksStep == TypeOK /\ UploadInv /\ [Next]_vars => UploadInv'
  <1> SUFFICES ASSUME TypeOK, UploadInv, [Next]_vars PROVE UploadInv'
    OBVIOUS
  <1>1. ASSUME NEW r \in Runs, Begin(r) \/ RunStep(r) \/ Arrival(r) \/ Kill(r)
        PROVE  UploadInv'
    <2>1. CASE Arrival(r)
      BY <2>1, ArrivalKeepsBooks DEF Arrival
    <2>2. CASE Moves(r)
      BY <2>2, MovesKeepBooks
    <2>3. CASE Read(r) \/ ReadEof(r) \/ Reap(r)
      BY <2>3, SendingKeepsBooks, ReapKeepsBooks
    <2>4. CASE Closes(r)
      BY <2>4, ClosingKeepsBooks
    <2> QED
      BY <1>1, <2>1, <2>2, <2>3, <2>4 DEF RunStep, Moves, Closes
  <1>2. CASE UNCHANGED vars
    BY <1>2 DEF vars, storeVars, UploadInv, Books, Unsent, SentKept, Unmade
  <1> QED
    BY <1>1, <1>2 DEF Next, Done

\* The books of upload() are in order at every step, for any number of parts,
\* runs and keys: parts are sent in order, none is lost between a task and the
\* store, and the upload is completed only once no task is left.
THEOREM BooksAlwaysKept == Spec => []UploadInv
  BY TypeInit, TypeStep, BooksInit, BooksStep, PTL DEF Spec

-----------------------------------------------------------------------------
(* What the store holds.                                                   *)

\* A run about to complete has every part of its artifact in the store.
LEMMA CompleteHasParts ==
    ASSUME TypeOK, UploadInv, NEW r \in Runs, pc[r] = "complete"
    PROVE  stored[r] = Part
  <1>1. 1..Parts \subseteq stored[r]
    BY DEF UploadInv, Books, SentKept
  <1> QED
    BY <1>1 DEF TypeOK, Part

LEMMA ObjectsStep == TypeOK /\ UploadInv /\ ObjectsWhole /\ [Next]_vars => ObjectsWhole'
  <1> SUFFICES ASSUME TypeOK, UploadInv, ObjectsWhole, [Next]_vars PROVE ObjectsWhole'
    OBVIOUS
  <1>1. ASSUME NEW r \in Runs, Moves(r) \/ Read(r) \/ ReadEof(r) \/ Reap(r)
        PROVE  UNCHANGED <<object, stored>>
    BY <1>1 DEF Moves, Begin, PreCheck, Work, WorkFails, Recheck, Initiate, InitiateFails, Open,
           OpenFails, ReadFails, Wait, WaitFails, Drained, FinishFails, CompleteFails,
           Read, ReadEof, Reap, storeVars
  <1>2. ASSUME NEW r \in Runs, NEW p \in Part, PartArrives(r, p) PROVE ObjectsWhole'
    <2>1. object' = object /\ stored' \in [Runs -> SUBSET Part]
      BY <1>2 DEF PartArrives, TypeOK
    <2>2. \A q \in Runs : stored[q] \subseteq stored'[q]
      BY <1>2 DEF PartArrives, TypeOK
    <2>3. ASSUME NEW k \in Keys, object'[k] # None PROVE stored'[object'[k]] = Part
      <3>1. object[k] \in Runs /\ stored[object[k]] = Part
        BY <2>1, <2>3 DEF ObjectsWhole, TypeOK
      <3>2. Part \subseteq stored'[object[k]] /\ stored'[object[k]] \in SUBSET Part
        BY <2>1, <2>2, <3>1
      <3> QED
        BY <2>1, <3>2
    <2> QED
      BY <2>3 DEF ObjectsWhole
  <1>3. ASSUME NEW r \in Runs, pc[r] = "complete", stored' = stored,
               object' = object \/ object' = [object EXCEPT ![KeyOf[r]] = r]
        PROVE  ObjectsWhole'
    BY <1>3, CompleteHasParts DEF ObjectsWhole, TypeOK
  <1>4. ASSUME NEW r \in Runs, Complete(r) \/ AnswerLost(r) PROVE ObjectsWhole'
    BY <1>3, <1>4 DEF Complete, AnswerLost, Assemble
  <1>5. ASSUME NEW r \in Runs, Abort(r) PROVE ObjectsWhole'
    <2>1. Unmade(r)
      BY <1>5 DEF Abort, UploadInv, Books, Live
    <2>2. /\ object' = object
          /\ stored' = stored \/ stored' = [stored EXCEPT ![r] = {}]
      BY <1>5 DEF Abort, DropUpload, KeepUpload
    <2>3. ASSUME NEW k \in Keys, object'[k] # None PROVE stored'[object'[k]] = Part
      <3>1. object[k] \in Runs /\ object[k] # r /\ stored[object[k]] = Part
        BY <2>1, <2>2, <2>3 DEF Unmade, TypeOK, ObjectsWhole
      <3>2. stored'[object[k]] = stored[object[k]]
        BY <2>2, <3>1 DEF TypeOK
      <3> QED
        BY <2>2, <3>1, <3>2
    <2> QED
      BY <2>3 DEF ObjectsWhole
  <1>6. ASSUME NEW r \in Runs, Kill(r) PROVE ObjectsWhole'
    <2>1. CASE UNCHANGED object
      BY <1>6, <2>1 DEF Kill, ObjectsWhole
    <2>2. CASE pc[r] = "complete" /\ Assemble(r)
      BY <1>3, <1>6, <2>2 DEF Kill, Assemble
    <2> QED
      BY <1>6, <2>1, <2>2 DEF Kill
  <1>7. CASE UNCHANGED vars
    BY <1>7 DEF vars, storeVars, ObjectsWhole
  <1>8. ASSUME UNCHANGED <<object, stored>> PROVE ObjectsWhole'
    BY <1>8 DEF ObjectsWhole
  <1> QED
    BY <1>1, <1>2, <1>4, <1>5, <1>6, <1>7, <1>8 DEF Next, RunStep, Arrival, Moves, Done

\* "A reader never sees a partial object" (s3.rs, upload): an object holds
\* every part of one artifact, for any number of parts, any capacity and any
\* failure, also when the runs share a key.
THEOREM ObjectsAlwaysWhole == Spec => []ObjectsWhole
  <1>1. Init => ObjectsWhole
    BY DEF Init, ObjectsWhole
  <1> QED
    BY <1>1, ObjectsStep, TypeCorrect, BooksAlwaysKept, PTL DEF Spec

-----------------------------------------------------------------------------
(* How many parts are in flight.                                           *)

LEMMA PartsFinite == IsFiniteSet(Part)
  BY FS_Interval, PartsAssumption DEF Part

LEMMA FlyingFinite ==
    ASSUME TypeOK, NEW r \in Runs
    PROVE  IsFiniteSet(flying[r]) /\ Cardinality(flying[r]) \in Nat
  <1>1. flying[r] \in SUBSET Part
    BY DEF TypeOK
  <1> QED
    BY <1>1, PartsFinite, FS_Subset, FS_CardinalityType

\* Handing out n parts adds at most n to those in flight.
LEMMA SendCounts ==
    ASSUME TypeOK, NEW r \in Runs, NEW n \in Nat, begun[r] + n <= Parts, Send(r, n)
    PROVE  Cardinality(flying'[r]) <= Cardinality(flying[r]) + n
  <1> DEFINE I == (begun[r] + 1)..(begun[r] + n)
  <1>1. begun[r] \in Int
    BY DEF TypeOK
  <1>2. IsFiniteSet(I) /\ Cardinality(I) = n
    BY <1>1, FS_Interval
  <1>3. IsFiniteSet(flying[r]) /\ Cardinality(flying[r]) \in Nat
    BY FlyingFinite
  <1>4. flying'[r] = flying[r] \cup I
    BY SendTyped
  <1>5. Cardinality(flying[r] \cap I) \in Nat
    BY <1>3, FS_Intersection, FS_CardinalityType
  <1>6. Cardinality(flying[r] \cup I)
          = Cardinality(flying[r]) + Cardinality(I) - Cardinality(flying[r] \cap I)
    BY <1>2, <1>3, FS_Union
  <1> QED
    BY <1>2, <1>3, <1>4, <1>5, <1>6

LEMMA InFlightStep == TypeOK /\ UploadInv /\ InFlightBounded /\ [Next]_vars => InFlightBounded'
  <1> SUFFICES ASSUME TypeOK, UploadInv, InFlightBounded, [Next]_vars PROVE InFlightBounded'
    OBVIOUS
  <1>1. ASSUME NEW r \in Runs, NEW n \in Nat, n <= PartsPerRead, pc[r] = "read",
               begun[r] + n <= Parts, Send(r, n)
        PROVE  InFlightBounded'
    <2>1. Cardinality(flying[r]) < Capacity /\ Cardinality(flying[r]) \in Nat
      BY <1>1, FlyingFinite DEF UploadInv, Books
    <2>2. flying'[r] \in SUBSET Part
      BY <1>1, SendTyped
    <2>3. Cardinality(flying'[r]) \in Nat
      BY <2>2, PartsFinite, FS_Subset, FS_CardinalityType
    <2>4. Cardinality(flying'[r]) <= Capacity - 1 + PartsPerRead
      BY <1>1, <2>1, <2>3, SendCounts, CapacityAssumption, ReadAssumption
    <2>5. \A q \in Runs \ {r} : flying'[q] = flying[q]
      BY <1>1, SendTyped
    <2> QED
      BY <2>4, <2>5 DEF InFlightBounded
  <1>2. ASSUME NEW r \in Runs, Read(r) PROVE InFlightBounded'
    <2>1. PICK n \in 1..PartsPerRead : begun[r] + n <= Parts /\ Send(r, n)
      BY <1>2 DEF Read
    <2>2. n \in Nat /\ n <= PartsPerRead /\ pc[r] = "read"
      BY <1>2, ReadAssumption DEF Read
    <2> QED
      BY <1>1, <2>1, <2>2
  <1>3. ASSUME NEW r \in Runs, ReadEof(r) PROVE InFlightBounded'
    <2>1. /\ Parts - begun[r] \in Nat /\ Parts - begun[r] <= PartsPerRead
          /\ begun[r] + (Parts - begun[r]) <= Parts
      BY <1>3, PartsAssumption, ReadAssumption DEF ReadEof, TypeOK
    <2>2. pc[r] = "read" /\ Send(r, Parts - begun[r])
      BY <1>3 DEF ReadEof
    <2> QED
      BY <1>1, <2>1, <2>2
  <1>4. ASSUME NEW r \in Runs, Reap(r) PROVE InFlightBounded'
    <2>1. PICK p \in flying[r] : flying' = [flying EXCEPT ![r] = @ \ {p}]
      BY <1>4 DEF Reap
    <2>2. flying'[r] = flying[r] \ {p} /\ \A q \in Runs \ {r} : flying'[q] = flying[q]
      BY <2>1 DEF TypeOK
    <2>3. Cardinality(flying'[r]) = Cardinality(flying[r]) - 1
      BY <2>2, FlyingFinite, FS_RemoveElement
    <2>4. Cardinality(flying'[r]) <= Capacity - 1 + PartsPerRead
      BY <2>3, FlyingFinite, CapacityAssumption, ReadAssumption DEF InFlightBounded
    <2> QED
      BY <2>2, <2>4 DEF InFlightBounded
  <1>5. ASSUME flying' = flying PROVE InFlightBounded'
    BY <1>5 DEF InFlightBounded
  <1>6. ASSUME NEW r \in Runs, Moves(r) \/ Closes(r) \/ Arrival(r) PROVE flying' = flying
    BY <1>6 DEF Moves, Begin, PreCheck, Work, WorkFails, Recheck, Initiate, InitiateFails, Open,
           OpenFails, ReadFails, Wait, WaitFails, Drained, FinishFails, CompleteFails,
           Closes, Complete, AnswerLost, Abort, Kill, Arrival, PartArrives
  <1>7. CASE UNCHANGED vars
    BY <1>5, <1>7 DEF vars
  <1> QED
    BY <1>2, <1>3, <1>4, <1>5, <1>6, <1>7 DEF Next, RunStep, Moves, Closes, Done

\* The memory of an upload is bounded whatever its size: never more parts in
\* flight than wait_for_capacity allows and one block may add.
THEOREM InFlightAlwaysBounded == Spec => []InFlightBounded
  <1>1. Init => InFlightBounded
    BY FS_EmptySet, CapacityAssumption, ReadAssumption DEF Init, InFlightBounded
  <1> QED
    BY <1>1, InFlightStep, TypeCorrect, BooksAlwaysKept, PTL DEF Spec

-----------------------------------------------------------------------------
(* What a failed upload leaves behind.                                     *)

Left(q) == pc[q] = "returned" /\ q \in orphans /\ stored[q] # {}

LEMMA LeavingsStep ==
    TypeOK /\ UploadInv /\ LeavingsExplained /\ [Next]_vars => LeavingsExplained'
  <1> SUFFICES ASSUME TypeOK, UploadInv, LeavingsExplained, [Next]_vars,
                      NEW q \in Runs, Left(q)'
               PROVE  outcome'[q] = "unfinished" \/ q \in unaborted'
    BY DEF LeavingsExplained, Left
  <1> DEFINE Explained == outcome'[q] = "unfinished" \/ q \in unaborted'
  <1> USE DEF TypeOK, Goto, End, storeVars
  <1>1. ASSUME pc'[q] = pc[q], outcome'[q] = outcome[q], stored'[q] = stored[q],
               q \in orphans, unaborted \subseteq unaborted'
        PROVE  Explained
    BY <1>1 DEF LeavingsExplained, Left
  <1>2. ASSUME NEW r \in Runs, Begin(r) \/ RunStep(r) \/ Arrival(r) \/ Kill(r), r # q
        PROVE  Explained
    <2>1. CASE Moves(r)
      BY <1>1, <1>2, <2>1
      DEF Left, Moves, Begin, PreCheck, Work, WorkFails, Recheck, Initiate, InitiateFails,
          Open, OpenFails, ReadFails, Wait, WaitFails, Drained, FinishFails, CompleteFails
    <2>2. CASE Read(r) \/ ReadEof(r) \/ Reap(r)
      BY <1>1, <1>2, <2>2 DEF Left, Read, ReadEof, Reap, Send
    <2>3. CASE Closes(r)
      BY <1>1, <1>2, <2>3
      DEF Left, Closes, Complete, AnswerLost, Abort, Kill, Assemble, DropUpload, KeepUpload
    <2>4. CASE Arrival(r)
      BY <1>1, <1>2, <2>4 DEF Left, Arrival, PartArrives
    <2> QED
      BY <1>2, <2>1, <2>2, <2>3, <2>4 DEF RunStep, Moves, Closes
  <1>3. ASSUME Begin(q) \/ RunStep(q) \/ Arrival(q) \/ Kill(q) PROVE Explained
    \* It returns before it has sent anything, ...
    <2>1. CASE Recheck(q) \/ InitiateFails(q) \/ OpenFails(q)
      <3>1. pc[q] \in Early /\ stored' = stored
        BY <2>1 DEF Recheck, InitiateFails, OpenFails, Early
      <3> QED
        BY <3>1 DEF UploadInv, Books, Unsent, Left
    \* ... in finish(), ...
    <2>2. CASE FinishFails(q) \/ CompleteFails(q) \/ AnswerLost(q)
      BY <2>2 DEF FinishFails, CompleteFails, AnswerLost
    <2>3. CASE Complete(q)
      BY <2>3 DEF Complete, Assemble, Left
    \* ... or through the abort, which every other failure leads to.
    <2>4. CASE Abort(q)
      BY <2>4 DEF Abort, DropUpload, KeepUpload, Left
    <2>5. pc'[q] = "returned" =>
             ~(\/ Begin(q) \/ PreCheck(q) \/ Work(q) \/ WorkFails(q) \/ Initiate(q)
               \/ Open(q) \/ Read(q) \/ ReadEof(q) \/ ReadFails(q) \/ Reap(q)
               \/ Wait(q) \/ WaitFails(q) \/ Drained(q) \/ Kill(q))
      BY DEF Begin, PreCheck, Work, WorkFails, Initiate, Open, Read, ReadEof, ReadFails,
             Reap, Reaping, Wait, WaitFails, Drained, Kill
    <2>6. CASE Arrival(q)
      BY <2>6 DEF Arrival, PartArrives, Live, Left
    <2> QED
      BY <1>3, <2>1, <2>2, <2>3, <2>4, <2>5, <2>6 DEF RunStep, Left
  <1>4. CASE UNCHANGED vars
    BY <1>1, <1>4 DEF vars, Left
  <1> QED
    BY <1>2, <1>3, <1>4 DEF Next, Done

\* upload() cleans up after itself, for artifacts of any size and whatever
\* fails: parts stay behind a returned upload only where finish() failed, in a
\* part or in the request that completes, or where the abort itself did.
THEOREM LeavingsAlwaysExplained == Spec => []LeavingsExplained
  <1>1. Init => LeavingsExplained
    BY DEF Init, LeavingsExplained
  <1> QED
    BY <1>1, LeavingsStep, TypeCorrect, BooksAlwaysKept, PTL DEF Spec

-----------------------------------------------------------------------------
(* No overwrites.  The two head checks and the multipart upload are not one *)
(* atomic step, so the promise needs that nobody else uploads to the key   *)
(* meanwhile: runs that do not overlap, or that have keys of their own.    *)

LiveRuns == {q \in Runs : pc[q] \in Live}
Uploading == {"initiate", "open", "read", "wait", "finish", "complete", "abort"}

DistinctKeys == \A q, r \in Runs : KeyOf[q] = KeyOf[r] => q = r
NoRivals == MaxLive = 1 \/ DistinctKeys

Alone ==
    /\ IsFiniteSet(LiveRuns)
    /\ \A q, r \in LiveRuns : KeyOf[q] = KeyOf[r] => q = r
KeysStillFree == \A r \in Runs : pc[r] \in Uploading => Free(r)

\* A run gets live only by beginning.
LEMMA LiveStep ==
    TypeOK /\ [Next]_vars =>
        \/ LiveRuns' \subseteq LiveRuns
        \/ \E r \in Runs : Begin(r) /\ LiveRuns' = LiveRuns \cup {r}
  <1> SUFFICES ASSUME TypeOK, [Next]_vars
               PROVE  \/ LiveRuns' \subseteq LiveRuns
                      \/ \E r \in Runs : Begin(r) /\ LiveRuns' = LiveRuns \cup {r}
    OBVIOUS
  <1> USE DEF TypeOK, LiveRuns, Live, Goto, End
  <1>1. ASSUME NEW r \in Runs, Begin(r) PROVE LiveRuns' = LiveRuns \cup {r}
    BY <1>1 DEF Begin
  <1>2. ASSUME NEW r \in Runs, RunStep(r) \/ Arrival(r) \/ Kill(r)
        PROVE  pc[r] \in Live /\ \A q \in Runs \ {r} : pc'[q] = pc[q]
    BY <1>2
    DEF RunStep, PreCheck, Work, WorkFails, Recheck, Initiate, InitiateFails, Open, OpenFails,
        Read, ReadEof, ReadFails, Reap, Reaping, Wait, WaitFails, Drained, FinishFails,
        Complete, CompleteFails, AnswerLost, Abort, Kill, Arrival, PartArrives
  <1>3. ASSUME NEW r \in Runs, RunStep(r) \/ Arrival(r) \/ Kill(r)
        PROVE  LiveRuns' \subseteq LiveRuns
    BY <1>2, <1>3
  <1>4. CASE UNCHANGED vars
    BY <1>4 DEF vars
  <1> QED
    BY <1>1, <1>3, <1>4 DEF Next, Done

LEMMA AloneStep == NoRivals /\ TypeOK /\ Alone /\ [Next]_vars => Alone'
  <1> SUFFICES ASSUME NoRivals, TypeOK, Alone, [Next]_vars PROVE Alone'
    OBVIOUS
  <1>1. CASE LiveRuns' \subseteq LiveRuns
    BY <1>1, FS_Subset DEF Alone
  <1>2. ASSUME NEW r \in Runs, Begin(r), LiveRuns' = LiveRuns \cup {r} PROVE Alone'
    <2>1. IsFiniteSet(LiveRuns')
      BY <1>2, FS_AddElement DEF Alone
    <2>2. CASE MaxLive = 1
      <3>1. Cardinality(LiveRuns) < 1
        BY <1>2, <2>2 DEF Begin, LiveRuns
      <3>2. Cardinality(LiveRuns) = 0
        BY <3>1, FS_CardinalityType DEF Alone
      <3>3. LiveRuns = {}
        BY <3>2, FS_EmptySet DEF Alone
      <3> QED
        BY <1>2, <2>1, <3>3 DEF Alone
    <2>3. CASE DistinctKeys
      BY <2>1, <2>3 DEF Alone, DistinctKeys, LiveRuns
    <2> QED
      BY <2>2, <2>3 DEF NoRivals
  <1> QED
    BY <1>1, <1>2, LiveStep

\* An object is made only by a run about to complete, under its own key.
LEMMA ObjectMaker ==
    ASSUME TypeOK, [Next]_vars
    PROVE  \/ object' = object
           \/ \E r \in Runs : /\ pc[r] = "complete"
                              /\ object' = [object EXCEPT ![KeyOf[r]] = r]
                              /\ pc'[r] \in Ended
                              /\ \A q \in Runs \ {r} : pc'[q] = pc[q]
  <1>1. ASSUME NEW r \in Runs, Moves(r) \/ Read(r) \/ ReadEof(r) \/ Reap(r) \/ Arrival(r)
        PROVE  object' = object
    BY <1>1 DEF Moves, Begin, PreCheck, Work, WorkFails, Recheck, Initiate, InitiateFails, Open,
           OpenFails, ReadFails, Wait, WaitFails, Drained, FinishFails, CompleteFails,
           Read, ReadEof, Reap, Arrival, PartArrives, storeVars
  <1>2. ASSUME NEW r \in Runs, Closes(r), object' # object
        PROVE  /\ pc[r] = "complete"
               /\ object' = [object EXCEPT ![KeyOf[r]] = r]
               /\ pc'[r] \in Ended
               /\ \A q \in Runs \ {r} : pc'[q] = pc[q]
    BY <1>2 DEF TypeOK, Closes, Complete, AnswerLost, Abort, Kill, Assemble, Goto, End, Ended
  <1>3. CASE UNCHANGED vars
    BY <1>3 DEF vars, storeVars
  <1> QED
    BY <1>1, <1>2, <1>3 DEF Next, RunStep, Moves, Closes, Done

\* The upload stage is entered only past the second check of the key.
LEMMA UploadEntry ==
    ASSUME TypeOK, [Next]_vars, NEW q \in Runs, pc'[q] \in Uploading
    PROVE  pc[q] \in Uploading \/ Free(q)
  <1> USE DEF TypeOK, Uploading, Goto, End
  <1>1. ASSUME NEW r \in Runs, Recheck(r) PROVE pc[q] \in Uploading \/ Free(q)
    BY <1>1 DEF Recheck
  <1>2. ASSUME NEW r \in Runs, Begin(r) \/ PreCheck(r) \/ Work(r) \/ WorkFails(r)
        PROVE  pc[q] \in Uploading
    BY <1>2 DEF Begin, PreCheck, Work, WorkFails
  <1>3. ASSUME NEW r \in Runs,
               \/ Initiate(r) \/ InitiateFails(r) \/ Open(r) \/ OpenFails(r)
               \/ Read(r) \/ ReadEof(r) \/ ReadFails(r) \/ Reap(r) \/ Wait(r) \/ WaitFails(r)
               \/ Drained(r) \/ FinishFails(r) \/ CompleteFails(r)
        PROVE  pc[q] \in Uploading
    BY <1>3 DEF Initiate, InitiateFails, Open, OpenFails, Read, ReadEof, ReadFails,
                Reap, Wait, WaitFails, Drained, FinishFails, CompleteFails
  <1>4. ASSUME NEW r \in Runs, Closes(r) \/ Arrival(r) PROVE pc[q] \in Uploading
    BY <1>4 DEF Closes, Complete, AnswerLost, Abort, Kill, Arrival, PartArrives
  <1>5. CASE UNCHANGED vars
    BY <1>5 DEF vars
  <1> QED
    BY <1>1, <1>2, <1>3, <1>4, <1>5 DEF Next, RunStep, Closes, Done

LEMMA KeysFreeStep == TypeOK /\ Alone /\ KeysStillFree /\ [Next]_vars => KeysStillFree'
  <1> SUFFICES ASSUME TypeOK, Alone, KeysStillFree, [Next]_vars,
                      NEW q \in Runs, pc'[q] \in Uploading
               PROVE  object'[KeyOf[q]] = None
    BY DEF KeysStillFree, Free
  <1>1. object[KeyOf[q]] = None
    BY UploadEntry DEF KeysStillFree, Free
  <1>2. CASE object' = object
    BY <1>1, <1>2
  <1>3. ASSUME NEW r \in Runs, pc[r] = "complete", pc'[r] \in Ended,
               object' = [object EXCEPT ![KeyOf[r]] = r],
               \A p \in Runs \ {r} : pc'[p] = pc[p]
        PROVE  object'[KeyOf[q]] = None
    <2>1. q # r
      BY <1>3 DEF Ended, Uploading
    <2>2. q \in LiveRuns /\ r \in LiveRuns
      BY <1>3, <2>1 DEF LiveRuns, Live, Uploading
    <2>3. KeyOf[q] # KeyOf[r]
      BY <2>1, <2>2 DEF Alone
    <2> QED
      BY <1>1, <1>3, <2>3, KeysAssumption DEF TypeOK
  <1> QED
    BY <1>2, <1>3, ObjectMaker

LEMMA OverwriteStep ==
    TypeOK /\ KeysStillFree /\ [Next]_vars
        => [\A k \in Keys : object[k] # None => object'[k] = object[k]]_object
  <1> SUFFICES ASSUME TypeOK, KeysStillFree, [Next]_vars, object' # object,
                      NEW k \in Keys, object[k] # None
               PROVE  object'[k] = object[k]
    OBVIOUS
  <1>1. PICK r \in Runs : pc[r] = "complete" /\ object' = [object EXCEPT ![KeyOf[r]] = r]
    BY ObjectMaker
  <1>2. object[KeyOf[r]] = None
    BY <1>1 DEF KeysStillFree, Free, Uploading
  <1> QED
    BY <1>1, <1>2 DEF TypeOK

\* README, "No overwrites, ever", for S3: as long as the runs of one key do not
\* overlap, an object holds one run's artifact for good, whichever request
\* fails, whichever answer is lost and whenever a run is killed.  That the
\* condition is needed is what S3Upload_race shows.
THEOREM NeverOverwritten == NoRivals /\ Spec => NoOverwrite
  <1>1. CASE NoRivals
    <2>1. Init => Alone /\ KeysStillFree
      <3>1. Init => LiveRuns = {}
        BY DEF Init, LiveRuns, Live
      <3> QED
        BY <3>1, FS_EmptySet DEF Init, Alone, KeysStillFree, Uploading
    <2>2. TypeOK /\ Alone /\ [Next]_vars => Alone'
      BY <1>1, AloneStep
    <2>3. Spec => []Alone
      BY <2>1, <2>2, TypeCorrect, PTL DEF Spec
    <2>4. Spec => []KeysStillFree
      BY <2>1, <2>3, KeysFreeStep, TypeCorrect, PTL DEF Spec
    <2> QED
      BY <2>4, OverwriteStep, TypeCorrect, PTL DEF Spec, NoOverwrite
  <1>2. CASE ~NoRivals
    BY <1>2
  <1> QED
    BY <1>1, <1>2
=============================================================================
