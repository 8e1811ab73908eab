--------------------------- MODULE StreamSession ----------------------------
(***************************************************************************)
(* A stream session of itb3/stream.py and the two ways its callers drive   *)
(* it: pump (stream.py:91-114; the loop of loop/worker.py:42-75 is the     *)
(* same one) inside a with block, and slices written by hand followed by   *)
(* drain_all.                                                              *)
(*                                                                         *)
(* libitb3 runs the cipher chain beside the caller: it takes slices up to  *)
(* its capacity, turns them into output whenever it likes, and may fail at *)
(* any moment, for good.  The parent Pipeline can be freed by its owner or *)
(* reclaimed once nothing refers to it; the session refers to it.          *)
(***************************************************************************)
EXTENDS Integers, Sequences

CONSTANTS Slices,       \* the source: this many slices of _PUMP_BUF bytes
          Capacity,     \* slices the chain holds before a write blocks
          Drives        \* the ways to drive a session: "pump", "drain_all"

ASSUME StreamAssumption ==
    /\ Slices \in Nat
    /\ Capacity \in Nat \ {0}
    /\ Drives \subseteq {"pump", "drain_all"}

VARIABLES
    drive,      \* which of them this caller uses
    pc,         \* where the caller is
    taken,      \* slices read from the source
    chunk,      \* output units in the caller's hands, read and not delivered
    finished,   \* the finished flag of the last read
    dst,        \* what has reached the destination
    handle,     \* _Session._handle: 0 when there is none
    pyEnded,    \* _Session._ended
    session,    \* the library's session: "none", "open" or "freed"
    frees,      \* the number of ITB_Triple_StreamFree calls on it
    ended,      \* the library has seen end-of-input
    broken,     \* its sticky error
    accepted,   \* slices it has accepted
    produced,   \* output units it has produced
    spool,      \* those not read yet
    parent,     \* the parent Pipeline's handle: "open" or "freed"
    owned,      \* the caller still refers to the parent
    parentFreed,    \* somebody called Pipeline.free
    dropped     \* the session object has been reclaimed

callerVars == <<drive, pc, taken, chunk, finished, dst>>
objectVars == <<handle, pyEnded, dropped>>
libraryVars == <<session, frees, ended, broken, accepted, produced, spool>>
parentVars == <<parent, owned, parentFreed>>
vars == <<callerVars, objectVars, libraryVars, parentVars>>

Terminal == Slices + 1

Labels == {"begin", "source", "write", "drain", "deliver", "end", "final",
           "flush", "leave", "unwind", "done", "raised"}

\* The pump, its session and its parent keep their types; the source is never
\* read past its end.
TypeOK ==
    /\ drive \in Drives
    /\ pc \in Labels
    /\ taken \in 0..Slices
    /\ chunk \in Seq(1..Terminal) /\ dst \in Seq(1..Terminal)
    /\ finished \in BOOLEAN /\ pyEnded \in BOOLEAN /\ dropped \in BOOLEAN
    /\ handle \in {0, 1}
    /\ session \in {"none", "open", "freed"}
    /\ frees \in 0..1
    /\ ended \in BOOLEAN /\ broken \in BOOLEAN
    /\ accepted \in 0..Slices /\ produced \in 0..Terminal
    /\ spool \in Seq(1..Terminal)
    /\ parent \in {"open", "freed"}
    /\ owned \in BOOLEAN /\ parentFreed \in BOOLEAN

Init ==
    /\ drive \in Drives
    /\ pc = "begin"
    /\ taken = 0 /\ chunk = <<>> /\ finished = FALSE /\ dst = <<>>
    /\ handle = 0 /\ pyEnded = FALSE /\ dropped = FALSE
    /\ session = "none" /\ frees = 0
    /\ ended = FALSE /\ broken = FALSE
    /\ accepted = 0 /\ produced = 0 /\ spool = <<>>
    /\ parent = "open" /\ owned = TRUE /\ parentFreed = FALSE
-----------------------------------------------------------------------------
(* The library's side. *)

\* The chain turns what it has accepted into output, one unit at a time, and
\* after the end of input adds the terminal bytes.
Backlog == accepted - produced

ChainProduces ==
    /\ session = "open" /\ ~broken
    /\ \/ Backlog > 0
       \/ ended /\ produced = accepted
    /\ produced' = produced + 1
    /\ spool' = Append(spool, produced + 1)
    /\ UNCHANGED <<session, frees, ended, broken, accepted>>
    /\ UNCHANGED <<callerVars, objectVars, parentVars>>

ChainFails ==
    /\ session = "open" /\ ~broken
    /\ broken' = TRUE
    /\ UNCHANGED <<session, frees, ended, accepted, produced, spool>>
    /\ UNCHANGED <<callerVars, objectVars, parentVars>>

\* A call on the session can succeed; otherwise it returns an error status.
Usable == handle # 0 /\ session = "open" /\ ~broken /\ parent = "open"

Unread(n) == SubSeq(spool, n + 1, Len(spool))
-----------------------------------------------------------------------------
(* The caller's side: one action per call of the pump. *)

GoTo(from, to) == pc = from /\ pc' = to

\* Begin: the constructor pins the parent, then asks for the handle.
Begin ==
    /\ GoTo("begin", "source")
    /\ parent = "open"
    /\ session' = "open"
    /\ handle' = 1
    /\ UNCHANGED <<drive, taken, chunk, finished, dst, pyEnded, dropped>>
    /\ UNCHANGED <<frees, ended, broken, accepted, produced, spool, parentVars>>

BeginRaises ==
    /\ GoTo("begin", "raised")
    /\ UNCHANGED <<drive, taken, chunk, finished, dst>>
    /\ UNCHANGED <<objectVars, libraryVars, parentVars>>

MoreAlways == TRUE          \* fault: end of file is not noticed
More == taken < Slices

ReadSource ==
    /\ \/ /\ More
          /\ GoTo("source", "write")
          /\ taken' = taken + 1
       \/ /\ ~More
          /\ GoTo("source", "end")
          /\ UNCHANGED taken
    /\ UNCHANGED <<drive, chunk, finished, dst>>
    /\ UNCHANGED <<objectVars, libraryVars, parentVars>>

AfterWriteSource == "source"        \* fault: the pump writes on without draining
AfterWrite == IF drive = "pump" THEN "drain" ELSE "source"

\* write() blocks until the chain accepts the slice.
Write ==
    /\ GoTo("write", AfterWrite)
    /\ Usable /\ ~ended
    /\ Backlog < Capacity
    /\ accepted' = accepted + 1
    /\ UNCHANGED <<drive, taken, chunk, finished, dst>>
    /\ UNCHANGED <<session, frees, ended, broken, produced, spool>>
    /\ UNCHANGED <<objectVars, parentVars>>

\* A read hands over some of the spool, all of it or less, and leaves the
\* rest; with an empty spool it hands over nothing.
Take(n) ==
    /\ n = 0 => spool = <<>>
    /\ chunk' = SubSeq(spool, 1, n)
    /\ spool' = Unread(n)

\* Before end() a read never blocks; the drain stops at the first empty one.
DrainRead ==
    /\ pc = "drain"
    /\ Usable
    /\ \E n \in 0..Len(spool) :
        /\ Take(n)
        /\ pc' = IF n = 0 THEN "source" ELSE "deliver"
    /\ finished' = FALSE
    /\ UNCHANGED <<drive, taken, dst, objectVars, parentVars>>
    /\ UNCHANGED <<session, frees, ended, broken, accepted, produced>>

\* The caller may have called end() itself before drain_all does.
EndEarly ==
    /\ pc = "end" /\ drive = "drain_all" /\ ~pyEnded
    /\ Usable
    /\ ended' = TRUE
    /\ pyEnded' = TRUE
    /\ UNCHANGED <<callerVars, parentVars, handle, dropped>>
    /\ UNCHANGED <<session, frees, broken, accepted, produced, spool>>

End ==
    /\ GoTo("end", "final")
    /\ \/ /\ drive = "drain_all" /\ pyEnded
          /\ UNCHANGED <<ended, pyEnded>>
       \/ /\ ~(drive = "drain_all" /\ pyEnded)
          /\ Usable
          /\ ended' = TRUE
          /\ pyEnded' = TRUE
    /\ UNCHANGED <<drive, taken, chunk, finished, dst, handle, dropped>>
    /\ UNCHANGED <<session, frees, broken, accepted, produced, spool, parentVars>>

\* After end() a read of an empty spool blocks for the terminal bytes.  The
\* flag may come with the last of them or with an empty read after it.
Exhausted(n) == produced = Terminal /\ n = Len(spool)

\* Fault: the loop stops at the finished flag before it delivers the chunk.
AfterReadFlag(n, fin) == IF fin THEN "flush" ELSE "deliver"
AfterRead(n, fin) == IF n > 0 THEN "deliver" ELSE "flush"

FinalRead ==
    /\ pc = "final"
    /\ Usable
    /\ \E n \in 0..Len(spool), fin \in BOOLEAN :
        /\ Take(n)
        /\ fin => Exhausted(n)
        /\ n = 0 => fin
        /\ finished' = fin
        /\ pc' = AfterRead(n, fin)
    /\ UNCHANGED <<drive, taken, dst, objectVars, parentVars>>
    /\ UNCHANGED <<session, frees, ended, broken, accepted, produced>>

\* dst.write(chunk), or out += chunk; then back to the loop the read was in.
DeliverChunk ==
    /\ GoTo("deliver", IF ~pyEnded THEN "drain"
                       ELSE IF finished THEN "flush" ELSE "final")
    /\ dst' = dst \o chunk
    /\ chunk' = <<>>
    /\ UNCHANGED <<drive, taken, finished>>
    /\ UNCHANGED <<objectVars, libraryVars, parentVars>>

Flush ==
    /\ GoTo("flush", "leave")
    /\ UNCHANGED <<drive, taken, chunk, finished, dst>>
    /\ UNCHANGED <<objectVars, libraryVars, parentVars>>

\* An exception leaves the pump: a file may have taken part of the chunk.
Unwind ==
    /\ pc' = "unwind"
    /\ \E n \in 0..Len(chunk) :
        dst' = IF pc = "deliver" THEN dst \o SubSeq(chunk, 1, n) ELSE dst
    /\ chunk' = <<>>
    /\ UNCHANGED <<drive, taken, finished>>
    /\ UNCHANGED <<objectVars, libraryVars, parentVars>>

\* check() raises when the session cannot serve the call.
CallRaises ==
    /\ \/ pc \in {"write", "drain", "final"}
       \/ pc = "end" /\ ~(drive = "drain_all" /\ pyEnded)
    /\ ~Usable
    /\ Unwind

\* The files, or the interpreter, may raise anywhere.
Interrupted ==
    /\ pc \in {"source", "write", "drain", "deliver", "end", "final", "flush"}
    /\ Unwind

ForgetNot == UNCHANGED handle       \* fault: free() keeps the handle
Forget == handle' = 0

\* free(): nothing to do without a handle; otherwise the handle is forgotten
\* and the session released.
Free ==
    IF handle = 0 THEN UNCHANGED <<handle, session, frees>>
    ELSE /\ Forget
         /\ session' = "freed"
         /\ frees' = frees + 1

\* __exit__, on the normal way out of the with block and on the other.
Leave ==
    /\ \/ GoTo("leave", "done")
       \/ GoTo("unwind", "raised")
    /\ Free
    /\ UNCHANGED <<drive, taken, chunk, finished, dst, pyEnded, dropped>>
    /\ UNCHANGED <<ended, broken, accepted, produced, spool, parentVars>>

\* __del__ of the session, once the caller has let it go.
DropSession ==
    /\ pc \in {"done", "raised"}
    /\ ~dropped
    /\ dropped' = TRUE
    /\ Free
    /\ UNCHANGED <<callerVars, pyEnded, parentVars>>
    /\ UNCHANGED <<ended, broken, accepted, produced, spool>>
-----------------------------------------------------------------------------
(* The parent Pipeline. *)

DropParent ==
    /\ owned
    /\ owned' = FALSE
    /\ UNCHANGED <<parent, parentFreed, callerVars, objectVars, libraryVars>>

\* The session object refers to its parent from its first line to its end,
\* and until then the frame of encrypt_stream does.
PinnedByFrame == pc = "begin"       \* fault: the session keeps no reference
Pinned == ~dropped

CollectParent ==
    /\ parent = "open"
    /\ ~owned /\ ~Pinned
    /\ parent' = "freed"
    /\ UNCHANGED <<owned, parentFreed, callerVars, objectVars, libraryVars>>

FreeParent ==
    /\ parent = "open" /\ owned
    /\ parent' = "freed"
    /\ parentFreed' = TRUE
    /\ UNCHANGED <<owned, callerVars, objectVars, libraryVars>>

CallerStep ==
    \/ Begin \/ BeginRaises \/ ReadSource \/ Write \/ DrainRead \/ EndEarly
    \/ End \/ FinalRead \/ DeliverChunk \/ Flush \/ CallRaises \/ Leave

Next ==
    \/ CallerStep \/ Interrupted
    \/ ChainProduces \/ ChainFails
    \/ DropSession
    \/ DropParent \/ CollectParent \/ FreeParent

Spec == Init /\ [][Next]_vars

\* The chain works on what it has, and the caller runs unless a call blocks.
FairSpec == Spec /\ WF_vars(CallerStep) /\ WF_vars(ChainProduces)
-----------------------------------------------------------------------------
\* Whatever way the with block is left, the session it opened is released,
\* once, and the object no longer refers to it (stream.py:116-145).
SessionReleased ==
    pc \in {"done", "raised"} =>
        /\ handle = 0
        /\ session # "open"
        /\ frees = (IF session = "freed" THEN 1 ELSE 0)

\* The pump holds a bounded amount however long the source: what the chain
\* can take, and the one slice just accepted (stream.py:91-94).
HeldBounded ==
    drive = "pump" => accepted - Len(dst) <= Capacity + 1

\* No collection takes the parent from under a session; only an explicit free
\* does (stream.py:33-39).
PinHolds ==
    (session = "open" /\ parent = "freed") => parentFreed

\* The pump delivers the transform in order; a normal return means all of it,
\* and it returns or raises unless the source never ends.
Promise == INSTANCE BytePump WITH
    out <- dst,
    status <- IF pc \in {"done", "raised"} THEN pc ELSE "running"

ImplementsPump == Promise!PumpSpec
=============================================================================
