------------------------------- MODULE RWLock -------------------------------
(***************************************************************************)
(* The reader/writer lock of loop/state.py:77-112 as it is built: a mutex, *)
(* a condition variable over it, a count of readers and a writer flag.     *)
(*                                                                         *)
(* pc[c] says where client c is.  Everything between taking the mutex and  *)
(* giving it back is split at the tests and assignments of the four        *)
(* methods, so the mutex, the loops round wait() and the notifications all *)
(* have work to do.  The labels of a method:                               *)
(*                                                                         *)
(*   acquire_read    rdEnter -> rdTest -> (rdWait -> rdTest)* -> rdCount   *)
(*   release_read    rlEnter -> rlCount [-> rlNotify]                      *)
(*   acquire_write   wrEnter -> wrTest -> (wrWait -> wrTest)* -> wrTake    *)
(*   release_write   wlEnter -> wlClear -> wlNotify                        *)
(***************************************************************************)
EXTENDS Integers, FiniteSets

CONSTANTS Clients,  \* the threads that share the lock
          Nobody    \* the owner of a free mutex

ASSUME ClientsAssumption ==
    /\ IsFiniteSet(Clients)
    /\ Nobody \notin Clients

VARIABLES
    pc,         \* pc[c]: the label client c is at
    owner,      \* the client inside "with self._cond", or Nobody
    waiting,    \* the condition's waiting set: blocked in wait(), not notified
    readers,    \* self._readers
    writer      \* self._writer

vars == <<pc, owner, waiting, readers, writer>>

Labels == {"idle", "rdEnter", "rdTest", "rdWait", "rdCount", "reading",
           "rlEnter", "rlCount", "rlNotify",
           "wrEnter", "wrTest", "wrWait", "wrTake", "writing",
           "wlEnter", "wlClear", "wlNotify"}

\* The two fields and the monitor's queues keep their types; the reader count
\* never goes below zero.
TypeOK ==
    /\ pc \in [Clients -> Labels]
    /\ owner \in Clients \union {Nobody}
    /\ waiting \subseteq Clients
    /\ readers \in Nat
    /\ writer \in BOOLEAN

Init ==
    /\ pc = [c \in Clients |-> "idle"]
    /\ owner = Nobody
    /\ waiting = {}
    /\ readers = 0
    /\ writer = FALSE
-----------------------------------------------------------------------------
At(c, label) == pc[c] = label
GoTo(c, label) == pc' = [pc EXCEPT ![c] = label]

\* threading.Condition over a Lock: wait() gives the mutex back and joins the
\* waiting set in one step; notify_all() empties the set; a notified client
\* takes the mutex again before wait() returns.
Lock(c) == owner = Nobody /\ owner' = c
Unlock == owner' = Nobody
CondWait(c) == waiting' = waiting \union {c} /\ Unlock

NotifyAll == waiting' = {}

\* The caller enters one of the four methods.
Call(c, from, to) ==
    /\ At(c, from)
    /\ GoTo(c, to)
    /\ UNCHANGED <<owner, waiting, readers, writer>>

\* "with self._cond": the mutex is taken on the way in.
Enter(c, from, to) ==
    /\ At(c, from)
    /\ Lock(c)
    /\ GoTo(c, to)
    /\ UNCHANGED <<waiting, readers, writer>>

\* The return from wait(): only once notified.
Rewake(c, from, to) ==
    /\ c \notin waiting
    /\ Enter(c, from, to)

\* "while blocked: self._cond.wait()".
TestLoop(c, test, blocked, wait, go) ==
    /\ At(c, test)
    /\ \/ /\ blocked
          /\ CondWait(c)
          /\ GoTo(c, wait)
       \/ /\ ~blocked
          /\ GoTo(c, go)
          /\ UNCHANGED <<owner, waiting>>
    /\ UNCHANGED <<readers, writer>>
-----------------------------------------------------------------------------
ReadBlocked == writer

\* Fault: acquire_write tests the writer flag only.
WriteBlockedByWriters == writer
WriteBlocked == writer \/ readers > 0

CallAcquireRead(c) == Call(c, "idle", "rdEnter")
EnterAcquireRead(c) == Enter(c, "rdEnter", "rdTest")
TestRead(c) == TestLoop(c, "rdTest", ReadBlocked, "rdWait", "rdCount")
RewakeRead(c) == Rewake(c, "rdWait", "rdTest")

\* Fault: the increment is lost, as if two readers had read the same count.
CountReaderLost(c) ==
    /\ At(c, "rdCount")
    /\ Unlock
    /\ GoTo(c, "reading")
    /\ UNCHANGED <<waiting, readers, writer>>

CountReader(c) ==
    /\ At(c, "rdCount")
    /\ readers' = readers + 1
    /\ Unlock
    /\ GoTo(c, "reading")
    /\ UNCHANGED <<waiting, writer>>

CallReleaseRead(c) == Call(c, "reading", "rlEnter")
EnterReleaseRead(c) == Enter(c, "rlEnter", "rlCount")

\* Fault: the last reader out wakes nobody.
UncountReaderSilently(c) ==
    /\ At(c, "rlCount")
    /\ readers' = readers - 1
    /\ Unlock
    /\ GoTo(c, "idle")
    /\ UNCHANGED <<waiting, writer>>

\* Fault: readers is decremented once too often when others still read.
UncountReaderTwice(c) ==
    /\ At(c, "rlCount")
    /\ readers' = IF readers = 1 THEN 0 ELSE readers - 2
    /\ Unlock
    /\ GoTo(c, "idle")
    /\ UNCHANGED <<waiting, writer>>

UncountReader(c) ==
    /\ At(c, "rlCount")
    /\ readers' = readers - 1
    /\ \/ /\ readers = 1
          /\ GoTo(c, "rlNotify")
          /\ UNCHANGED owner
       \/ /\ readers # 1
          /\ Unlock
          /\ GoTo(c, "idle")
    /\ UNCHANGED <<waiting, writer>>

\* Fault: notify() in place of notify_all().
NotifyOneFrom(c, label) ==
    /\ At(c, label)
    /\ IF waiting = {} THEN UNCHANGED waiting
       ELSE \E w \in waiting : waiting' = waiting \ {w}
    /\ Unlock
    /\ GoTo(c, "idle")
    /\ UNCHANGED <<readers, writer>>

NotifyFrom(c, label) ==
    /\ At(c, label)
    /\ NotifyAll
    /\ Unlock
    /\ GoTo(c, "idle")
    /\ UNCHANGED <<readers, writer>>

NotifyLastReader(c) == NotifyFrom(c, "rlNotify")

CallAcquireWrite(c) == Call(c, "idle", "wrEnter")
EnterAcquireWrite(c) == Enter(c, "wrEnter", "wrTest")
TestWrite(c) == TestLoop(c, "wrTest", WriteBlocked, "wrWait", "wrTake")
RewakeWrite(c) == Rewake(c, "wrWait", "wrTest")

TakeWriter(c) ==
    /\ At(c, "wrTake")
    /\ writer' = TRUE
    /\ Unlock
    /\ GoTo(c, "writing")
    /\ UNCHANGED <<waiting, readers>>

CallReleaseWrite(c) == Call(c, "writing", "wlEnter")
EnterReleaseWrite(c) == Enter(c, "wlEnter", "wlClear")

ClearWriter(c) ==
    /\ At(c, "wlClear")
    /\ writer' = FALSE
    /\ GoTo(c, "wlNotify")
    /\ UNCHANGED <<owner, waiting, readers>>

NotifyWriterGone(c) == NotifyFrom(c, "wlNotify")

\* The caller's choices ...
Calls(c) ==
    \/ CallAcquireRead(c)
    \/ CallReleaseRead(c)
    \/ CallAcquireWrite(c)
    \/ CallReleaseWrite(c)

\* ... the steps that queue for the mutex ...
TakesMutex(c) ==
    \/ EnterAcquireRead(c)
    \/ RewakeRead(c)
    \/ EnterReleaseRead(c)
    \/ EnterAcquireWrite(c)
    \/ RewakeWrite(c)
    \/ EnterReleaseWrite(c)

\* ... and the steps inside it.
HasMutex(c) ==
    \/ TestRead(c)
    \/ CountReader(c)
    \/ UncountReader(c)
    \/ NotifyLastReader(c)
    \/ TestWrite(c)
    \/ TakeWriter(c)
    \/ ClearWriter(c)
    \/ NotifyWriterGone(c)

Next == \E c \in Clients : Calls(c) \/ TakesMutex(c) \/ HasMutex(c)

Spec == Init /\ [][Next]_vars

\* A client inside a method runs on; a client queued on the mutex gets it if
\* the mutex comes free again and again.  Calling a method is the caller's
\* choice and carries no fairness.
Fairness == \A c \in Clients :
    /\ SF_vars(TakesMutex(c))
    /\ WF_vars(HasMutex(c))

FairSpec == Spec /\ Fairness
-----------------------------------------------------------------------------
(* What the lock is for. *)

Holding(labels) == {c \in Clients : pc[c] \in labels}
InRead == Holding({"reading", "rlEnter", "rlCount"})
InWrite == Holding({"writing", "wlEnter", "wlClear"})

\* A client that has returned from acquire_write and not yet cleared the flag
\* shares the lock with nobody, at whatever labels the others stand.
Exclusion ==
    \A w \in InWrite : InRead = {} /\ InWrite = {w}

\* self._readers and self._writer are what the clients' positions say they
\* are: no increment or decrement is lost between two of them, so the lock
\* neither opens under a reader nor stays shut behind one that left.
CountsAgree ==
    /\ readers = Cardinality(InRead)
    /\ writer <=> InWrite # {}

\* No lost wake-up: a client still in wait() has something to wait for (the
\* condition it tests is still true), or whoever made it false is about to
\* notify.
NoLostWakeup ==
    \A c \in waiting :
        \/ /\ At(c, "rdWait")
           /\ ReadBlocked \/ Holding({"wlNotify"}) # {}
        \/ /\ At(c, "wrWait")
           /\ WriteBlocked \/ Holding({"rlNotify", "wlNotify"}) # {}

\* The position of each client as a caller sees it: the lock is taken at the
\* assignment that records it and let go at the one that withdraws it.
ModeAt(label) ==
    IF label \in {"rdEnter", "rdTest", "rdWait", "rdCount"} THEN "wantRead"
    ELSE IF label \in {"reading", "rlEnter", "rlCount"} THEN "read"
    ELSE IF label \in {"wrEnter", "wrTest", "wrWait", "wrTake"} THEN "wantWrite"
    ELSE IF label \in {"writing", "wlEnter", "wlClear"} THEN "write"
    ELSE "none"

Promise == INSTANCE RWLockSpec WITH mode <- [c \in Clients |-> ModeAt(pc[c])]

\* The monitor implements the promise of RWLockSpec, the promise that nobody
\* admissible is left outside included (state.py:80-84).
ImplementsPromise == Promise!FairLockSpec
=============================================================================
