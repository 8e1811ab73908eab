---------------------------- MODULE RWLockProofs ----------------------------
(***************************************************************************)
(* The monitor of RWLock, for any finite set of clients: its type, the     *)
(* exclusion of readers and writers, the agreement of its two fields with  *)
(* the clients' positions, the absence of lost wake-ups, and the step      *)
(* simulation of RWLockSpec.                                               *)
(*                                                                         *)
(* One inductive invariant carries all of them.  Exclusion alone is not    *)
(* inductive: a client that has tested the fields and not yet assigned     *)
(* them relies on nobody else having moved them since, which holds because *)
(* it still owns the mutex (MutexHeld), and on the fields telling the      *)
(* truth about the others (CountsAgree).                                   *)
(***************************************************************************)
EXTENDS RWLock, FiniteSetTheorems, TLAPS

Inside == {"rdTest", "rdCount", "rlCount", "rlNotify",
           "wrTest", "wrTake", "wlClear", "wlNotify"}

\* The mutex belongs to the one client between its two ends.
MutexHeld == \A c \in Clients : pc[c] \in Inside <=> owner = c

\* A client past its test still sees what it tested.
TestStands == \A c \in Clients :
    /\ pc[c] = "rdCount" => ~writer
    /\ pc[c] = "wrTake" => ~writer /\ readers = 0

IInv ==
    /\ TypeOK
    /\ MutexHeld
    /\ CountsAgree
    /\ TestStands
    /\ Exclusion
    /\ NoLostWakeup
-----------------------------------------------------------------------------
\* The set of clients inside is finite, so its cardinality is a number that
\* is zero only when it is empty (the count self._readers stands for).
LEMMA InReadFinite ==
    /\ IsFiniteSet(InRead)
    /\ Cardinality(InRead) \in Nat
    /\ Cardinality(InRead) = 0 <=> InRead = {}
<1>1. IsFiniteSet(InRead)
  BY ClientsAssumption, FS_Subset DEF InRead, Holding
<1>. QED BY <1>1, FS_CardinalityType, FS_EmptySet

\* A step that admits one client adds one to the number of clients inside.
LEMMA AdmitOne ==
    ASSUME TypeOK, NEW c \in Clients,
           ~(pc[c] \in {"reading", "rlEnter", "rlCount"}),
           pc' = [pc EXCEPT ![c] = "reading"]
    PROVE  Cardinality(InRead') = Cardinality(InRead) + 1
<1>1. InRead' = InRead \union {c}
  BY DEF InRead, Holding, TypeOK
<1>2. c \notin InRead
  BY DEF InRead, Holding
<1>. QED BY <1>1, <1>2, InReadFinite, FS_AddElement

\* A step that lets one client out takes one from that number.
LEMMA ReleaseOne ==
    ASSUME TypeOK, NEW c \in Clients, NEW label \in {"idle", "rlNotify"},
           pc[c] = "rlCount",
           pc' = [pc EXCEPT ![c] = label]
    PROVE  /\ Cardinality(InRead') = Cardinality(InRead) - 1
           /\ Cardinality(InRead) > 0
<1>1. InRead' = InRead \ {c}
  BY DEF InRead, Holding, TypeOK
<1>2. c \in InRead
  BY DEF InRead, Holding
<1>3. Cardinality(InRead') = Cardinality(InRead) - 1
  BY <1>1, <1>2, InReadFinite, FS_RemoveElement
<1>. QED BY <1>2, <1>3, InReadFinite
-----------------------------------------------------------------------------
\* The inductive invariant holds of a lock nobody uses yet.
LEMMA InitIInv == Init => IInv
<1>. SUFFICES ASSUME Init PROVE IInv
  OBVIOUS
<1>1. InRead = {} /\ InWrite = {}
  BY DEF Init, InRead, InWrite, Holding
<1>2. TypeOK
  BY DEF Init, TypeOK, Labels
<1>3. MutexHeld
  BY ClientsAssumption DEF Init, MutexHeld, Inside
<1>4. CountsAgree
  BY <1>1, InReadFinite DEF Init, CountsAgree
<1>. QED
  BY <1>1, <1>2, <1>3, <1>4
     DEF IInv, Init, TestStands, Exclusion, NoLostWakeup
-----------------------------------------------------------------------------
\* A call moves its caller between two labels outside the mutex, on the same
\* side of the lock.
LEMMA CallsStep ==
    ASSUME IInv, NEW c \in Clients, Calls(c)
    PROVE  IInv'
<1>. USE DEF IInv, TypeOK, Calls, CallAcquireRead, CallReleaseRead,
             CallAcquireWrite, CallReleaseWrite, Call, At, GoTo
<1>1. InRead' = InRead /\ InWrite' = InWrite
  BY DEF InRead, InWrite, Holding
<1>2. TypeOK'
  BY DEF Labels
<1>3. MutexHeld' /\ TestStands'
  BY DEF MutexHeld, TestStands, Inside
<1>4. CountsAgree' /\ Exclusion'
  BY <1>1 DEF CountsAgree, Exclusion
<1>5. NoLostWakeup'
  BY DEF NoLostWakeup, Holding, ReadBlocked, WriteBlocked
<1>. QED BY <1>2, <1>3, <1>4, <1>5

\* Taking the mutex brings its new owner to the first label inside it.
LEMMA TakesMutexStep ==
    ASSUME IInv, NEW c \in Clients, TakesMutex(c)
    PROVE  IInv'
<1>. USE DEF IInv, TypeOK, TakesMutex, EnterAcquireRead, RewakeRead,
             EnterReleaseRead, EnterAcquireWrite, RewakeWrite,
             EnterReleaseWrite, Rewake, Enter, Lock, At, GoTo
<1>1. InRead' = InRead /\ InWrite' = InWrite
  BY DEF InRead, InWrite, Holding
<1>2. TypeOK'
  BY DEF Labels
<1>3. MutexHeld' /\ TestStands'
  BY ClientsAssumption DEF MutexHeld, TestStands, Inside
<1>4. CountsAgree' /\ Exclusion'
  BY <1>1 DEF CountsAgree, Exclusion
<1>5. NoLostWakeup'
  BY DEF NoLostWakeup, Holding, ReadBlocked, WriteBlocked
<1>. QED BY <1>2, <1>3, <1>4, <1>5

\* The owner of the mutex works: one case per action, and under it one step
\* per conjunct of IInv the action can disturb.
LEMMA HasMutexStep ==
    ASSUME IInv, NEW c \in Clients, HasMutex(c)
    PROVE  IInv'
<1>. USE DEF IInv, TypeOK, At, GoTo
<1>1. CASE TestRead(c)
  <2>. USE <1>1 DEF TestRead, TestLoop, CondWait, Unlock
  <2>1. InRead' = InRead /\ InWrite' = InWrite
    BY DEF InRead, InWrite, Holding
  <2>2. TypeOK'
    BY DEF Labels
  <2>3. MutexHeld'
    BY ClientsAssumption DEF MutexHeld, Inside
  <2>4. CountsAgree' /\ Exclusion'
    BY <2>1 DEF CountsAgree, Exclusion
  <2>5. TestStands'
    BY DEF TestStands, MutexHeld, Inside, ReadBlocked
  <2>6. NoLostWakeup'
    BY DEF NoLostWakeup, Holding, ReadBlocked, WriteBlocked
  <2>. QED BY <2>1, <2>2, <2>3, <2>4, <2>5, <2>6
<1>2. CASE CountReader(c)
  <2>. USE <1>2 DEF CountReader, Unlock
  <2>1. Cardinality(InRead') = Cardinality(InRead) + 1
    BY AdmitOne
  <2>2. TypeOK'
    BY DEF Labels
  <2>3. MutexHeld'
    BY ClientsAssumption DEF MutexHeld, Inside
  <2>4. InWrite' = InWrite /\ InWrite = {}
    BY DEF InWrite, Holding, CountsAgree, TestStands
  <2>5. CountsAgree' /\ Exclusion'
    BY <2>1, <2>4, InReadFinite DEF CountsAgree, Exclusion
  <2>6. TestStands'
    BY DEF TestStands, MutexHeld, Inside
  <2>7. NoLostWakeup'
    BY DEF NoLostWakeup, Holding, ReadBlocked, WriteBlocked
  <2>. QED BY <2>1, <2>2, <2>3, <2>4, <2>5, <2>6, <2>7
<1>3. CASE UncountReader(c)
  <2>. USE <1>3 DEF UncountReader, Unlock
  <2>1. Cardinality(InRead') = Cardinality(InRead) - 1 /\ Cardinality(InRead) > 0
    BY ReleaseOne
  <2>2. TypeOK'
    BY <2>1, InReadFinite DEF Labels, CountsAgree
  <2>3. MutexHeld'
    BY ClientsAssumption DEF MutexHeld, Inside
  <2>4. InWrite' = InWrite /\ InWrite = {}
    BY DEF InWrite, InRead, Holding, Exclusion
  <2>5. CountsAgree' /\ Exclusion'
    BY <2>1, <2>4, InReadFinite DEF CountsAgree, Exclusion
  <2>6. TestStands'
    BY DEF TestStands, MutexHeld, Inside
  <2>7. NoLostWakeup'
    BY <2>2 DEF NoLostWakeup, Holding, ReadBlocked, WriteBlocked
  <2>. QED BY <2>1, <2>2, <2>3, <2>4, <2>5, <2>6, <2>7
<1>4. CASE NotifyLastReader(c)
  <2>. USE <1>4 DEF NotifyLastReader, NotifyFrom, NotifyAll, Unlock
  <2>1. InRead' = InRead /\ InWrite' = InWrite
    BY DEF InRead, InWrite, Holding
  <2>2. TypeOK'
    BY DEF Labels
  <2>3. MutexHeld'
    BY ClientsAssumption DEF MutexHeld, Inside
  <2>4. CountsAgree' /\ Exclusion'
    BY <2>1 DEF CountsAgree, Exclusion
  <2>5. TestStands'
    BY DEF TestStands
  <2>6. NoLostWakeup'
    BY DEF NoLostWakeup
  <2>. QED BY <2>1, <2>2, <2>3, <2>4, <2>5, <2>6
<1>5. CASE TestWrite(c)
  <2>. USE <1>5 DEF TestWrite, TestLoop, CondWait, Unlock
  <2>1. InRead' = InRead /\ InWrite' = InWrite
    BY DEF InRead, InWrite, Holding
  <2>2. TypeOK'
    BY DEF Labels
  <2>3. MutexHeld'
    BY ClientsAssumption DEF MutexHeld, Inside
  <2>4. CountsAgree' /\ Exclusion'
    BY <2>1 DEF CountsAgree, Exclusion
  <2>5. TestStands'
    BY DEF TestStands, MutexHeld, Inside, WriteBlocked
  <2>6. NoLostWakeup'
    BY DEF NoLostWakeup, Holding, ReadBlocked, WriteBlocked
  <2>. QED BY <2>1, <2>2, <2>3, <2>4, <2>5, <2>6
<1>6. CASE TakeWriter(c)
  <2>. USE <1>6 DEF TakeWriter, Unlock
  <2>1. InRead' = InRead /\ InRead = {}
    BY InReadFinite DEF InRead, Holding, CountsAgree, TestStands
  <2>2. TypeOK'
    BY DEF Labels
  <2>3. MutexHeld'
    BY ClientsAssumption DEF MutexHeld, Inside
  <2>4. InWrite = {} /\ InWrite' = {c}
    BY DEF InWrite, Holding, CountsAgree, TestStands
  <2>5. CountsAgree' /\ Exclusion'
    BY <2>1, <2>4 DEF CountsAgree, Exclusion
  <2>6. TestStands'
    BY DEF TestStands, MutexHeld, Inside
  <2>7. NoLostWakeup'
    BY DEF NoLostWakeup, Holding, ReadBlocked, WriteBlocked
  <2>. QED BY <2>1, <2>2, <2>3, <2>4, <2>5, <2>6, <2>7
<1>7. CASE ClearWriter(c)
  <2>. USE <1>7 DEF ClearWriter
  <2>1. InRead' = InRead
    BY DEF InRead, Holding
  <2>2. TypeOK'
    BY DEF Labels
  <2>3. MutexHeld'
    BY ClientsAssumption DEF MutexHeld, Inside
  <2>4. InWrite' = {}
    BY DEF InWrite, Holding, Exclusion
  <2>5. CountsAgree' /\ Exclusion'
    BY <2>1, <2>4 DEF CountsAgree, Exclusion
  <2>6. TestStands'
    BY DEF TestStands, MutexHeld, Inside
  <2>7. NoLostWakeup'
    BY DEF NoLostWakeup, Holding, ReadBlocked, WriteBlocked
  <2>. QED BY <2>1, <2>2, <2>3, <2>4, <2>5, <2>6, <2>7
<1>8. CASE NotifyWriterGone(c)
  <2>. USE <1>8 DEF NotifyWriterGone, NotifyFrom, NotifyAll, Unlock
  <2>1. InRead' = InRead /\ InWrite' = InWrite
    BY DEF InRead, InWrite, Holding
  <2>2. TypeOK'
    BY DEF Labels
  <2>3. MutexHeld'
    BY ClientsAssumption DEF MutexHeld, Inside
  <2>4. CountsAgree' /\ Exclusion'
    BY <2>1 DEF CountsAgree, Exclusion
  <2>5. TestStands'
    BY DEF TestStands
  <2>6. NoLostWakeup'
    BY DEF NoLostWakeup
  <2>. QED BY <2>1, <2>2, <2>3, <2>4, <2>5, <2>6
<1>. QED BY <1>1, <1>2, <1>3, <1>4, <1>5, <1>6, <1>7, <1>8 DEF HasMutex

\* No step of the monitor breaks the inductive invariant.
LEMMA NextIInv == IInv /\ [Next]_vars => IInv'
<1>. SUFFICES ASSUME IInv, [Next]_vars PROVE IInv'
  OBVIOUS
<1>1. CASE Next
  BY <1>1, CallsStep, TakesMutexStep, HasMutexStep DEF Next
<1>2. CASE UNCHANGED vars
  BY <1>2 DEF vars, IInv, TypeOK, MutexHeld, CountsAgree, TestStands,
              Exclusion, NoLostWakeup, InRead, InWrite, Holding, At,
              ReadBlocked, WriteBlocked
<1>. QED BY <1>1, <1>2
-----------------------------------------------------------------------------
\* IInv holds in every reachable state of the lock.
THEOREM Invariance == Spec => []IInv
BY InitIInv, NextIInv, PTL DEF Spec

\* The fields keep their types; self._readers never goes below zero
\* (state.py:97-101).
THEOREM TypeCorrect == Spec => []TypeOK
<1>1. IInv => TypeOK
  BY DEF IInv
<1>. QED BY <1>1, Invariance, PTL

\* Readers and a writer, or two writers, are never inside together, for any
\* finite set of clients (state.py:91-107).
THEOREM MutualExclusion == Spec => []Exclusion
<1>1. IInv => Exclusion
  BY DEF IInv
<1>. QED BY <1>1, Invariance, PTL

\* The count and the flag agree with the clients that are inside.
THEOREM FieldsTellTheTruth == Spec => []CountsAgree
<1>1. IInv => CountsAgree
  BY DEF IInv
<1>. QED BY <1>1, Invariance, PTL

\* Nobody is left in wait() on a condition that has come true, unless its
\* notification is already under way (state.py:100-101, 112).
THEOREM WakeupsReach == Spec => []NoLostWakeup
<1>1. IInv => NoLostWakeup
  BY DEF IInv
<1>. QED BY <1>1, Invariance, PTL
-----------------------------------------------------------------------------
(* The simulation.  An assignment to readers or writer is the abstract     *)
(* step; every other step stutters or is the abstract request.             *)

\* A lock nobody uses maps to one that stands open.
LEMMA InitSimulated == Init => Promise!LockInit
BY DEF Init, Promise!LockInit, ModeAt

\* Every step of the monitor is a step of the promise, or leaves it alone.
LEMMA StepSimulated ==
    ASSUME IInv, [Next]_vars
    PROVE  [Promise!LockNext]_([c \in Clients |-> ModeAt(pc[c])])
<1>. DEFINE m == [c \in Clients |-> ModeAt(pc[c])]
<1>. USE DEF IInv
<1>1. CASE UNCHANGED vars
  BY <1>1 DEF vars, ModeAt
<1>2. ASSUME NEW c \in Clients, Calls(c)
      PROVE  Promise!LockNext \/ m' = m
  <2>. USE <1>2 DEF Call, At, GoTo, TypeOK, ModeAt
  <2>1. CASE CallAcquireRead(c)
    BY <2>1 DEF CallAcquireRead, Promise!LockNext, Promise!AskRead, Promise!Move
  <2>2. CASE CallAcquireWrite(c)
    BY <2>2
       DEF CallAcquireWrite, Promise!LockNext, Promise!AskWrite, Promise!Move
  <2>3. CASE CallReleaseRead(c) \/ CallReleaseWrite(c)
    BY <2>3 DEF CallReleaseRead, CallReleaseWrite
  <2>. QED BY <2>1, <2>2, <2>3 DEF Calls
<1>3. ASSUME NEW c \in Clients, TakesMutex(c)
      PROVE  m' = m
  BY <1>3 DEF TakesMutex, EnterAcquireRead, RewakeRead, EnterReleaseRead,
              EnterAcquireWrite, RewakeWrite, EnterReleaseWrite, Rewake,
              Enter, At, GoTo, TypeOK, ModeAt
<1>4. ASSUME NEW c \in Clients, HasMutex(c)
      PROVE  Promise!LockNext \/ m' = m
  <2>. USE <1>4 DEF At, GoTo, TypeOK, ModeAt
  <2>1. CASE CountReader(c)
    <3>1. Promise!Writers = {}
      BY <2>1 DEF CountReader, Promise!Writers, TestStands, CountsAgree,
                  InWrite, Holding
    <3>. QED BY <2>1, <3>1 DEF CountReader, Promise!LockNext,
                               Promise!GrantRead, Promise!Move
  <2>2. CASE UncountReader(c)
    BY <2>2, ZenonT(30) DEF UncountReader, Promise!LockNext, Promise!LeaveRead,
                          Promise!Move
  <2>3. CASE TakeWriter(c)
    <3>1. Promise!Writers = {} /\ Promise!Readers = {}
      BY <2>3, InReadFinite
         DEF TakeWriter, Promise!Writers, Promise!Readers, TestStands,
             CountsAgree, InRead, InWrite, Holding
    <3>. QED BY <2>3, <3>1 DEF TakeWriter, Promise!LockNext,
                               Promise!GrantWrite, Promise!Move
  <2>4. CASE ClearWriter(c)
    BY <2>4 DEF ClearWriter, Promise!LockNext, Promise!LeaveWrite, Promise!Move
  <2>5. CASE \/ TestRead(c) \/ TestWrite(c)
            \/ NotifyLastReader(c) \/ NotifyWriterGone(c)
    BY <2>5 DEF TestRead, TestWrite, TestLoop, NotifyLastReader,
                NotifyWriterGone, NotifyFrom
  <2>. QED BY <2>1, <2>2, <2>3, <2>4, <2>5 DEF HasMutex
<1>. QED BY <1>1, <1>2, <1>3, <1>4 DEF Next

\* The monitor's steps implement RWLockSpec's, for any finite set of clients
\* (its fairness is checked by TLC).
THEOREM Refinement == Spec => Promise!LockSpec
BY InitSimulated, StepSimulated, Invariance, PTL
   DEF Spec, Promise!LockSpec
=============================================================================
