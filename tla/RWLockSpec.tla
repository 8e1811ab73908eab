----------------------------- MODULE RWLockSpec -----------------------------
(***************************************************************************)
(* What a caller of loop/state.py's RWLock is promised, with no monitor in *)
(* sight: each client is outside, waiting for one side of the lock, or     *)
(* holding it.  "Readers admit each other while no writer holds the lock,  *)
(* a writer waits for every reader to leave" (state.py:80-84).             *)
(*                                                                         *)
(* RWLock refines this module, and LoopHarness is built on it.             *)
(***************************************************************************)

CONSTANT Clients    \* the threads that share the lock

VARIABLE mode       \* mode[c]: which side of the lock c wants or holds

Modes == {"none", "wantRead", "read", "wantWrite", "write"}

LockTypeOK == mode \in [Clients -> Modes]

LockInit == mode = [c \in Clients |-> "none"]
-----------------------------------------------------------------------------
Readers == {c \in Clients : mode[c] = "read"}
Writers == {c \in Clients : mode[c] = "write"}

Move(c, from, to) ==
    /\ mode[c] = from
    /\ mode' = [mode EXCEPT ![c] = to]

AskRead(c)  == Move(c, "none", "wantRead")
AskWrite(c) == Move(c, "none", "wantWrite")

\* Definitions marked "fault" are mistakes the properties must notice; nothing
\* uses them.

\* A reader is admitted whenever no writer is inside: a waiting writer does
\* not hold it back.
GrantReadAlways(c) == Move(c, "wantRead", "read")   \* fault: no look at the writer

GrantRead(c) ==
    /\ Writers = {}
    /\ Move(c, "wantRead", "read")

GrantWriteEager(c) ==       \* fault: a writer does not wait for the readers
    /\ Writers = {}
    /\ Move(c, "wantWrite", "write")

GrantWrite(c) ==
    /\ Writers = {}
    /\ Readers = {}
    /\ Move(c, "wantWrite", "write")

LeaveRead(c)  == Move(c, "read", "none")
LeaveWrite(c) == Move(c, "write", "none")

LockNext == \E c \in Clients :
    \/ AskRead(c)
    \/ GrantRead(c)
    \/ LeaveRead(c)
    \/ AskWrite(c)
    \/ GrantWrite(c)
    \/ LeaveWrite(c)

LockSpec == LockInit /\ [][LockNext]_mode

\* Nobody the lock could admit is left outside for ever.  How long a client
\* stays inside is the client's business.
LockFairness == \A c \in Clients :
    /\ WF_mode(GrantRead(c))
    /\ WF_mode(GrantWrite(c))

FairLockSpec == LockSpec /\ LockFairness
-----------------------------------------------------------------------------
\* Mutual exclusion: a writer is alone, whatever its company would be
\* (state.py:93, state.py:105).
LockExclusion ==
    \A w \in Writers : Readers = {} /\ Writers = {w}
=============================================================================
