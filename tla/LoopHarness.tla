---------------------------- MODULE LoopHarness -----------------------------
(***************************************************************************)
(* The concurrent part of the loop utility: the main thread of             *)
(* loop/main.py's run (714-776), the worker threads of loop/worker.py and  *)
(* the maintenance of loop/ops.py, over the Pipelines they share.          *)
(*                                                                         *)
(* pipe_lock is the lock of RWLockSpec, which RWLock shows the monitor in  *)
(* loop/state.py to implement; mode is its state.  The shared library is   *)
(* what the harness can tell of it: the set of open handles and the keying *)
(* of each (keying), calls that succeed, that raise, or that return wrong  *)
(* bytes.  A keying stands for the masters a handle currently runs on.     *)
(***************************************************************************)
EXTENDS Integers, FiniteSets, Sequences

CONSTANTS
    Workers,        \* the worker threads
    Shape,          \* cfg.shape: "stream", "message", "one_shot" or "both"
    Iterations,     \* cfg.iterations; 0 selects duration mode
    RekeyEvery,     \* cfg.rekey_every; 0 disables master rotation
    BlobCycleEvery, \* cfg.blob_cycle_every; 0 disables blob reopen
    Handles,        \* the library handles the model may hand out
    Keys,           \* the keyings the model may draw
    None,           \* the Python None, a handle that was never assigned
    Period,         \* bound: in duration mode iteration numbers wrap here
    TallyBound      \* bound: the counters stop counting here

Main == "main"

ASSUME HarnessAssumption ==
    /\ IsFiniteSet(Workers) /\ Workers # {} /\ Main \notin Workers
    /\ Shape \in {"stream", "message", "one_shot", "both"}
    /\ Iterations \in Nat /\ RekeyEvery \in Nat /\ BlobCycleEvery \in Nat
    /\ None \notin Handles \union Keys
    /\ Period \in Nat \ {0} /\ TallyBound \in Nat

\* The wrapped numbering keeps every remainder the code takes of it.
ASSUME PeriodAssumption ==
    /\ Period % 3 = 0
    /\ RekeyEvery > 0 => Period % RekeyEvery = 0
    /\ BlobCycleEvery > 0 => Period % BlobCycleEvery = 0

\* How often the workers come to an interval in a run with a budget.
Occurrences(every) ==
    IF every = 0 THEN 0 ELSE Cardinality(Workers) * ((Iterations - 1) \div every)

\* Such a run ends before a counter stops.
ASSUME TallyAssumption ==
    Iterations > 0 => /\ Iterations <= TallyBound
                      /\ Occurrences(RekeyEvery) <= TallyBound
                      /\ Occurrences(BlobCycleEvery) <= TallyBound

VARIABLES
    mode,       \* the state of pipe_lock (RWLockSpec)
    pc,         \* pc[w]: where worker w is
    it,         \* it[w]: the iteration it is on
    res,        \* res[w]: how its last operation ended
    wire,       \* wire[w]: the handle and keying that encrypted its wire
    job,        \* job[w]: the maintenance it is doing
    todo,       \* todo[w]: the surfaces that maintenance has still to visit
    masters,    \* masters[w]: the masters drawn for a rotation
    fresh,      \* fresh[w]: the handle loaded and not yet swapped in
    iters,      \* iters[w]: Worker.iters
    failed,     \* failed[w]: Worker.failed
    pipe,       \* pipe[s]: the handle of stream_pipe / msg_pipe
    blob,       \* blob[s]: the keying the retained blob carries
    keying,     \* the library's open handles and what each is keyed with
    rekeys, cycles,     \* RunState.rekeys, RunState.blob_cycles
    stop,       \* RunState.stop
    signal,     \* _signal_seen
    expired,    \* the clock has passed the duration deadline
    mainPc,     \* where the main thread is
    arrived,    \* the parties that have reached each barrier
    active,     \* RunState.active
    finish,     \* RunState.finish_ns: "unset", "start" or "last return"
    exit        \* the process: "running", or exited "pass" (code 0),
                \* "fail" (code 1) or "mismatch" (code 3)

lockVars == <<mode>>
workVars == <<pc, it, res, wire, iters, failed>>
careVars == <<job, todo, masters, fresh>>
pipeVars == <<pipe, blob, keying>>
tallyVars == <<rekeys, cycles>>
runVars  == <<signal, expired>>
mainVars == <<mainPc, arrived, active, finish, exit>>
vars == <<lockVars, workVars, careVars, pipeVars, tallyVars, stop, runVars,
          mainVars>>

Lock == INSTANCE RWLockSpec WITH Clients <- Workers
-----------------------------------------------------------------------------
(* What the configuration fixes. *)

\* The Pipelines the shape exercises, in the order the code visits them.
Surfaces ==
    IF Shape = "both" THEN <<"stream", "message">>
    ELSE IF Shape = "message" THEN <<"message">>
    ELSE <<"stream">>

SurfaceSet == {Surfaces[i] : i \in DOMAIN Surfaces}

\* The pools suffice for the Pipelines the run begins with.
ASSUME PoolAssumption ==
    /\ Keys # {}
    /\ \E f \in [SurfaceSet -> Handles] :
            \A s, t \in SurfaceSet : f[s] = f[t] => s = t

\* Under "both" the three entries rotate by iteration number.
ShapeAt(i) ==
    IF Shape = "both" THEN <<"stream", "message", "one_shot">>[(i % 3) + 1]
    ELSE Shape

SurfaceAt(i) == IF ShapeAt(i) = "message" THEN "message" ELSE "stream"

Due(every, i) == every > 0 /\ i % every = 0

NextIt(i) == IF Iterations > 0 THEN i + 1 ELSE (i % Period) + 1

Tally(n) == IF n < TallyBound THEN n + 1 ELSE n

\* What is fresh is new; which fresh value it is does not matter.
AnyOf(S) == CHOOSE x \in S : TRUE

NoWire == [handle |-> None, key |-> None]
Wires == [handle : Handles \union {None}, key : Keys \union {None}]

WorkerLabels == {"new", "iterate", "lockRead", "encrypt", "decrypt", "unlock",
                 "recordEscape", "warmup", "warmupWait", "releaseWait", "loop",
                 "maintain", "afterRekey", "lockWrite", "rekey", "load",
                 "free", "swap", "unlockWrite", "returning", "returned"}

MainLabels == {"starting", "warmupWait", "baseline", "releaseWait", "poll",
               "summary", "freePipes", "exited"}

Results == {"ok", "failed", "escaped"}

\* Every field of the run state and of the workers keeps its type; active
\* counts the workers that have not returned, so it never goes below zero.
TypeOK ==
    /\ Lock!LockTypeOK
    /\ pc \in [Workers -> WorkerLabels]
    /\ it \in [Workers -> Nat]
    /\ res \in [Workers -> Results]
    /\ wire \in [Workers -> Wires]
    /\ job \in [Workers -> {"none", "rekey", "cycle"}]
    /\ todo \in [Workers -> Seq(SurfaceSet)]
    /\ masters \in [Workers -> Keys \union {None}]
    /\ fresh \in [Workers -> Handles \union {None}]
    /\ iters \in [Workers -> Nat]
    /\ failed \in [Workers -> BOOLEAN]
    /\ pipe \in [SurfaceSet -> Handles]
    /\ blob \in [SurfaceSet -> Keys]
    /\ DOMAIN keying \subseteq Handles
    /\ \A h \in DOMAIN keying : keying[h] \in Keys
    /\ rekeys \in Nat /\ cycles \in Nat
    /\ stop \in BOOLEAN /\ signal \in BOOLEAN /\ expired \in BOOLEAN
    /\ mainPc \in MainLabels
    /\ arrived \in [{"warmup", "release"} -> SUBSET (Workers \union {Main})]
    /\ active \in Nat
    /\ finish \in {"unset", "start", "last return"}
    /\ exit \in {"running", "pass", "fail", "mismatch"}

Init ==
    LET k == AnyOf(Keys)
        hs == AnyOf({f \in [SurfaceSet -> Handles] :
                        \A s, t \in SurfaceSet : f[s] = f[t] => s = t})
    IN  /\ pipe = hs
        /\ blob = [s \in SurfaceSet |-> k]
        /\ keying = [h \in {hs[s] : s \in SurfaceSet} |-> k]
        /\ Lock!LockInit
        /\ pc = [w \in Workers |-> "new"]
        /\ it = [w \in Workers |-> 0]
        /\ res = [w \in Workers |-> "ok"]
        /\ wire = [w \in Workers |-> NoWire]
        /\ job = [w \in Workers |-> "none"]
        /\ todo = [w \in Workers |-> <<>>]
        /\ masters = [w \in Workers |-> None]
        /\ fresh = [w \in Workers |-> None]
        /\ iters = [w \in Workers |-> 0]
        /\ failed = [w \in Workers |-> FALSE]
        /\ rekeys = 0 /\ cycles = 0
        /\ stop = FALSE /\ signal = FALSE /\ expired = FALSE
        /\ mainPc = "starting"
        /\ arrived = [b \in {"warmup", "release"} |-> {}]
        /\ active = Cardinality(Workers)
        /\ finish = "unset"
        /\ exit = "running"
-----------------------------------------------------------------------------
(* Steps shared by the threads. *)

At(w, label) == pc[w] = label
GoTo(w, label) == pc' = [pc EXCEPT ![w] = label]

\* threading.Barrier with a party per worker and one for main, used once.
Arrive(barrier, party) ==
    arrived' = [arrived EXCEPT ![barrier] = @ \union {party}]
Open(barrier) == arrived[barrier] = Workers \union {Main}

\* worker_fail: the first error is kept, and the run is asked to stop.
Fail(w) ==
    /\ failed' = [failed EXCEPT ![w] = TRUE]
    /\ stop' = TRUE

\* A call that raises ItbError is recorded on the spot, inside the lock; any
\* other exception unwinds through the lock first and is recorded by
\* worker_main's handler.
Raise(w) ==
    \/ /\ res' = [res EXCEPT ![w] = "failed"]
       /\ Fail(w)
    \/ /\ res' = [res EXCEPT ![w] = "escaped"]
       /\ UNCHANGED <<failed, stop>>
-----------------------------------------------------------------------------
(* One iteration: the whole round-trip under the read lock. *)

\* Ask for the lock, unless the rotating refill before it raises.
BeginIteration(w) ==
    /\ At(w, "iterate")
    /\ \/ /\ Lock!AskRead(w)
          /\ GoTo(w, "lockRead")
          /\ UNCHANGED res
       \/ /\ res' = [res EXCEPT ![w] = "escaped"]
          /\ GoTo(w, "recordEscape")
          /\ UNCHANGED lockVars
    /\ UNCHANGED <<it, wire, iters, failed, stop>>
    /\ UNCHANGED <<careVars, pipeVars, tallyVars, runVars, mainVars>>

EnterRead(w) ==
    /\ At(w, "lockRead")
    /\ Lock!GrantRead(w)
    /\ GoTo(w, "encrypt")
    /\ UNCHANGED <<it, res, wire, iters, failed, stop>>
    /\ UNCHANGED <<careVars, pipeVars, tallyVars, runVars, mainVars>>

Encrypt(w) ==
    /\ At(w, "encrypt")
    /\ LET h == pipe[SurfaceAt(it[w])] IN
       \/ /\ h \in DOMAIN keying
          /\ wire' = [wire EXCEPT ![w] = [handle |-> h, key |-> keying[h]]]
          /\ GoTo(w, "decrypt")
          /\ UNCHANGED <<res, failed, stop>>
       \/ /\ Raise(w)
          /\ GoTo(w, "unlock")
          /\ UNCHANGED wire
    /\ UNCHANGED <<it, iters>>
    /\ UNCHANGED <<lockVars, careVars, pipeVars, tallyVars, runVars, mainVars>>

\* The session shape reads r.stream_pipe again for its decrypt; the others
\* keep the Pipeline they picked.
DecryptHandle(w) ==
    IF ShapeAt(it[w]) = "stream" THEN pipe["stream"] ELSE wire[w].handle

\* The wire decrypts to the plaintext when the handle that opens it is the
\* one that sealed it, on the same keying.
RoundTrip(w) ==
    /\ At(w, "decrypt")
    /\ DecryptHandle(w) = wire[w].handle
    /\ wire[w].handle \in DOMAIN keying
    /\ keying[wire[w].handle] = wire[w].key
    /\ iters' = [iters EXCEPT ![w] = Tally(@)]
    /\ res' = [res EXCEPT ![w] = "ok"]
    /\ wire' = [wire EXCEPT ![w] = NoWire]
    /\ GoTo(w, "unlock")
    /\ UNCHANGED <<it, failed, stop>>
    /\ UNCHANGED <<lockVars, careVars, pipeVars, tallyVars, runVars, mainVars>>

\* The library may fail any call ...
DecryptRaises(w) ==
    /\ At(w, "decrypt")
    /\ Raise(w)
    /\ wire' = [wire EXCEPT ![w] = NoWire]
    /\ GoTo(w, "unlock")
    /\ UNCHANGED <<it, iters>>
    /\ UNCHANGED <<lockVars, careVars, pipeVars, tallyVars, runVars, mainVars>>

\* ... or return wrong bytes: os._exit(3), with nothing unwound.
Mismatch(w) ==
    /\ At(w, "decrypt")
    /\ exit' = "mismatch"
    /\ UNCHANGED <<mainPc, arrived, active, finish, stop>>
    /\ UNCHANGED <<lockVars, workVars, careVars, pipeVars, tallyVars, runVars>>

\* Where a worker goes once an operation has ended and its lock is free.
\* Fault: a worker that fails its warmup returns past the barriers.
AfterOperationReturns(w, next) ==
    IF res[w] = "escaped" THEN "recordEscape"
    ELSE IF res[w] = "failed" THEN "returning"
    ELSE IF it[w] = 0 THEN "warmup"
    ELSE next

AfterOperation(w, next) ==
    IF res[w] = "escaped" THEN "recordEscape"
    ELSE IF it[w] = 0 THEN "warmup"
    ELSE IF res[w] = "failed" THEN "returning"
    ELSE next

\* Fault: a failed iteration leaves without release_read.
LeaveReadIfOk(w) ==
    /\ At(w, "unlock")
    /\ IF res[w] = "ok" THEN Lock!LeaveRead(w) ELSE UNCHANGED lockVars
    /\ GoTo(w, AfterOperation(w, "maintain"))
    /\ UNCHANGED <<it, res, wire, iters, failed, stop>>
    /\ UNCHANGED <<careVars, pipeVars, tallyVars, runVars, mainVars>>

LeaveRead(w) ==
    /\ At(w, "unlock")
    /\ Lock!LeaveRead(w)
    /\ GoTo(w, AfterOperation(w, "maintain"))
    /\ UNCHANGED <<it, res, wire, iters, failed, stop>>
    /\ UNCHANGED <<careVars, pipeVars, tallyVars, runVars, mainVars>>

\* Fault: an exception that is not ItbError ends the worker unrecorded.
RecordEscapeNot(w) ==
    /\ At(w, "recordEscape")
    /\ GoTo(w, IF it[w] = 0 THEN "warmup" ELSE "returning")
    /\ UNCHANGED <<it, res, wire, iters, failed, stop>>
    /\ UNCHANGED <<lockVars, careVars, pipeVars, tallyVars, runVars, mainVars>>

RecordEscape(w) ==
    /\ At(w, "recordEscape")
    /\ Fail(w)
    /\ GoTo(w, IF it[w] = 0 THEN "warmup" ELSE "returning")
    /\ UNCHANGED <<it, res, wire, iters>>
    /\ UNCHANGED <<lockVars, careVars, pipeVars, tallyVars, runVars, mainVars>>
-----------------------------------------------------------------------------
(* The worker loop round the iterations. *)

\* warmup_done.wait(): arrive; when everybody has, go on to release.wait().
ArriveWarmup(w) ==
    /\ At(w, "warmup")
    /\ Arrive("warmup", w)
    /\ GoTo(w, "warmupWait")
    /\ UNCHANGED <<it, res, wire, iters, failed, stop>>
    /\ UNCHANGED <<mainPc, active, finish, exit>>
    /\ UNCHANGED <<lockVars, careVars, pipeVars, tallyVars, runVars>>

ArriveRelease(w) ==
    /\ At(w, "warmupWait")
    /\ Open("warmup")
    /\ Arrive("release", w)
    /\ GoTo(w, "releaseWait")
    /\ UNCHANGED <<it, res, wire, iters, failed, stop>>
    /\ UNCHANGED <<mainPc, active, finish, exit>>
    /\ UNCHANGED <<lockVars, careVars, pipeVars, tallyVars, runVars>>

PassRelease(w) ==
    /\ At(w, "releaseWait")
    /\ Open("release")
    /\ \/ /\ res[w] = "ok"
          /\ GoTo(w, "loop")
          /\ it' = [it EXCEPT ![w] = 1]
       \/ /\ res[w] # "ok"
          /\ GoTo(w, "returning")
          /\ UNCHANGED it
    /\ UNCHANGED <<res, wire, iters, failed, stop>>
    /\ UNCHANGED <<lockVars, careVars, pipeVars, tallyVars, runVars, mainVars>>

BudgetSpentLate(w) ==       \* fault: off by one
    Iterations > 0 /\ it[w] > Iterations

BudgetSpent(w) == Iterations > 0 /\ it[w] >= Iterations

LoopHead(w) ==
    /\ At(w, "loop")
    /\ GoTo(w, IF BudgetSpent(w) \/ stop THEN "returning" ELSE "iterate")
    /\ UNCHANGED <<it, res, wire, iters, failed, stop>>
    /\ UNCHANGED <<lockVars, careVars, pipeVars, tallyVars, runVars, mainVars>>

\* _worker_done: the last worker to return stamps the finish instant.
\* Fault: a worker that failed is counted out twice.
ReturnTwice(w) ==
    /\ At(w, "returning")
    /\ active' = active - (IF failed[w] THEN 2 ELSE 1)
    /\ finish' = IF active = 1 THEN "last return" ELSE finish
    /\ GoTo(w, "returned")
    /\ UNCHANGED <<it, res, wire, iters, failed, stop>>
    /\ UNCHANGED <<mainPc, arrived, exit>>
    /\ UNCHANGED <<lockVars, careVars, pipeVars, tallyVars, runVars>>

Return(w) ==
    /\ At(w, "returning")
    /\ active' = active - 1
    /\ finish' = IF active = 1 THEN "last return" ELSE finish
    /\ GoTo(w, "returned")
    /\ UNCHANGED <<it, res, wire, iters, failed, stop>>
    /\ UNCHANGED <<mainPc, arrived, exit>>
    /\ UNCHANGED <<lockVars, careVars, pipeVars, tallyVars, runVars>>
-----------------------------------------------------------------------------
(* Maintenance (ops.py): rotation, then reopen, each under the write lock. *)

InUse(h) == h \in DOMAIN keying \/ \E w \in Workers : wire[w].handle = h
UnusedHandles == {h \in Handles : ~InUse(h)}

Carries(k) ==
    \/ \E h \in DOMAIN keying : keying[h] = k
    \/ \E s \in SurfaceSet : blob[s] = k
    \/ \E w \in Workers : masters[w] = k \/ wire[w].key = k
UnusedKeys == {k \in Keys : ~Carries(k)}

\* Draw the masters of a rotation, or go on to the reopen.
\* Fault: a rotation is skipped while another worker waits to do one.
MaintainUnlessQueued(w) ==
    /\ At(w, "maintain")
    /\ IF Due(RekeyEvery, it[w]) /\ \A x \in Workers : mode[x] # "wantWrite"
       THEN /\ UnusedKeys # {}
            /\ masters' = [masters EXCEPT ![w] = AnyOf(UnusedKeys)]
            /\ job' = [job EXCEPT ![w] = "rekey"]
            /\ todo' = [todo EXCEPT ![w] = Surfaces]
            /\ Lock!AskWrite(w)
            /\ GoTo(w, "lockWrite")
       ELSE /\ GoTo(w, "afterRekey")
            /\ UNCHANGED <<lockVars, masters, job, todo>>
    /\ UNCHANGED <<it, res, wire, iters, failed, stop, fresh>>
    /\ UNCHANGED <<pipeVars, tallyVars, runVars, mainVars>>

Maintain(w) ==
    /\ At(w, "maintain")
    /\ \/ /\ Due(RekeyEvery, it[w])
          /\ UnusedKeys # {}
          /\ masters' = [masters EXCEPT ![w] = AnyOf(UnusedKeys)]
          /\ job' = [job EXCEPT ![w] = "rekey"]
          /\ todo' = [todo EXCEPT ![w] = Surfaces]
          /\ Lock!AskWrite(w)
          /\ GoTo(w, "lockWrite")
       \/ /\ ~Due(RekeyEvery, it[w])
          /\ GoTo(w, "afterRekey")
          /\ UNCHANGED <<lockVars, masters, job, todo>>
    /\ UNCHANGED <<it, res, wire, iters, failed, stop, fresh>>
    /\ UNCHANGED <<pipeVars, tallyVars, runVars, mainVars>>

AfterRekey(w) ==
    /\ At(w, "afterRekey")
    /\ \/ /\ Due(BlobCycleEvery, it[w])
          /\ job' = [job EXCEPT ![w] = "cycle"]
          /\ todo' = [todo EXCEPT ![w] = Surfaces]
          /\ Lock!AskWrite(w)
          /\ GoTo(w, "lockWrite")
          /\ UNCHANGED it
       \/ /\ ~Due(BlobCycleEvery, it[w])
          /\ job' = [job EXCEPT ![w] = "none"]
          /\ it' = [it EXCEPT ![w] = NextIt(@)]
          /\ GoTo(w, "loop")
          /\ UNCHANGED <<lockVars, todo>>
    /\ UNCHANGED <<res, wire, iters, failed, stop, masters, fresh>>
    /\ UNCHANGED <<pipeVars, tallyVars, runVars, mainVars>>

EnterWrite(w) ==
    /\ At(w, "lockWrite")
    /\ Lock!GrantWrite(w)
    /\ GoTo(w, IF job[w] = "rekey" THEN "rekey" ELSE "load")
    /\ UNCHANGED <<it, res, wire, iters, failed, stop>>
    /\ UNCHANGED <<careVars, pipeVars, tallyVars, runVars, mainVars>>

\* Rekey rotates the masters of the handle and hands back the blob that
\* carries them; the next surface follows, or the count and the lock.
NextSurface(w, more) ==
    /\ todo' = [todo EXCEPT ![w] = Tail(@)]
    /\ GoTo(w, IF Len(todo[w]) > 1 THEN more ELSE "unlockWrite")

\* Fault: the blobs are replaced together, after the last Pipeline's rotation.
RekeyPipeBlobsLast(w) ==
    /\ At(w, "rekey")
    /\ pipe[Head(todo[w])] \in DOMAIN keying
    /\ keying' = [keying EXCEPT ![pipe[Head(todo[w])]] = masters[w]]
    /\ blob' = IF Len(todo[w]) = 1 THEN [s \in SurfaceSet |-> masters[w]] ELSE blob
    /\ NextSurface(w, "rekey")
    /\ rekeys' = IF Len(todo[w]) = 1 THEN Tally(rekeys) ELSE rekeys
    /\ UNCHANGED <<it, res, wire, iters, failed, stop>>
    /\ UNCHANGED <<job, masters, fresh, pipe, cycles>>
    /\ UNCHANGED <<lockVars, runVars, mainVars>>

RekeyPipe(w) ==
    /\ At(w, "rekey")
    /\ LET s == Head(todo[w]) IN
       /\ pipe[s] \in DOMAIN keying
       /\ keying' = [keying EXCEPT ![pipe[s]] = masters[w]]
       /\ blob' = [blob EXCEPT ![s] = masters[w]]
    /\ NextSurface(w, "rekey")
    /\ rekeys' = IF Len(todo[w]) = 1 THEN Tally(rekeys) ELSE rekeys
    /\ UNCHANGED <<it, res, wire, iters, failed, stop>>
    /\ UNCHANGED <<job, masters, fresh, pipe, cycles>>
    /\ UNCHANGED <<lockVars, runVars, mainVars>>

\* A rotation that fails may have taken hold in the library or not: the blob
\* is not replaced either way, and the surfaces left are not visited.
RekeyRaises(w) ==
    /\ At(w, "rekey")
    /\ Raise(w)
    /\ LET h == pipe[Head(todo[w])] IN
       \/ UNCHANGED keying
       \/ /\ h \in DOMAIN keying
          /\ keying' = [keying EXCEPT ![h] = masters[w]]
    /\ GoTo(w, "unlockWrite")
    /\ UNCHANGED <<it, wire, iters, careVars, pipe, blob>>
    /\ UNCHANGED <<lockVars, tallyVars, runVars, mainVars>>

\* Reopen: a fresh handle on the retained blob's keying ...
LoadPipe(w) ==
    /\ At(w, "load")
    /\ UnusedHandles # {}
    /\ LET h == AnyOf(UnusedHandles)
           k == blob[Head(todo[w])] IN
       /\ keying' = [x \in DOMAIN keying \union {h} |->
                        IF x = h THEN k ELSE keying[x]]
       /\ fresh' = [fresh EXCEPT ![w] = h]
    /\ GoTo(w, "free")
    /\ UNCHANGED <<it, res, wire, iters, failed, stop>>
    /\ UNCHANGED <<job, todo, masters, pipe, blob>>
    /\ UNCHANGED <<lockVars, tallyVars, runVars, mainVars>>

LoadRaises(w) ==
    /\ At(w, "load")
    /\ Raise(w)
    /\ GoTo(w, "unlockWrite")
    /\ UNCHANGED <<it, wire, iters, careVars, pipeVars>>
    /\ UNCHANGED <<lockVars, tallyVars, runVars, mainVars>>

Close(h) == keying' = [x \in DOMAIN keying \ {h} |-> keying[x]]

\* ... the running one freed ...
\* Fault: the handle swapped out is not freed.
FreeOldNot(w) ==
    /\ At(w, "free")
    /\ GoTo(w, "swap")
    /\ UNCHANGED <<it, res, wire, iters, failed, stop>>
    /\ UNCHANGED <<careVars, pipeVars>>
    /\ UNCHANGED <<lockVars, tallyVars, runVars, mainVars>>

FreeOld(w) ==
    /\ At(w, "free")
    /\ Close(pipe[Head(todo[w])])
    /\ GoTo(w, "swap")
    /\ UNCHANGED <<it, res, wire, iters, failed, stop>>
    /\ UNCHANGED <<careVars, pipe, blob>>
    /\ UNCHANGED <<lockVars, tallyVars, runVars, mainVars>>

\* ... and the fresh one swapped in.
SwapIn(w) ==
    /\ At(w, "swap")
    /\ pipe' = [pipe EXCEPT ![Head(todo[w])] = fresh[w]]
    /\ fresh' = [fresh EXCEPT ![w] = None]
    /\ NextSurface(w, "load")
    /\ cycles' = IF Len(todo[w]) = 1 THEN Tally(cycles) ELSE cycles
    /\ UNCHANGED <<it, res, wire, iters, failed, stop>>
    /\ UNCHANGED <<job, masters, blob, keying, rekeys>>
    /\ UNCHANGED <<lockVars, runVars, mainVars>>

AfterMaintenance(w) ==
    IF job[w] = "rekey" THEN AfterOperation(w, "afterRekey")
    ELSE AfterOperation(w, "loop")

\* The lock is left whatever happened under it; a worker whose maintenance
\* succeeded goes on, to the reopen or to its next iteration.
LeaveWrite(w) ==
    /\ At(w, "unlockWrite")
    /\ Lock!LeaveWrite(w)
    /\ GoTo(w, AfterMaintenance(w))
    /\ masters' = [masters EXCEPT ![w] = None]
    /\ todo' = [todo EXCEPT ![w] = <<>>]
    /\ \/ /\ res[w] = "ok" /\ job[w] = "cycle"
          /\ it' = [it EXCEPT ![w] = NextIt(@)]
          /\ job' = [job EXCEPT ![w] = "none"]
       \/ /\ ~(res[w] = "ok" /\ job[w] = "cycle")
          /\ UNCHANGED <<it, job>>
    /\ UNCHANGED <<res, wire, iters, failed, stop, fresh>>
    /\ UNCHANGED <<pipeVars, tallyVars, runVars, mainVars>>
-----------------------------------------------------------------------------
(* The main thread. *)

MainGoTo(from, to) == mainPc = from /\ mainPc' = to

\* thread.start(), one worker after another.
StartWorker(w) ==
    /\ mainPc = "starting"
    /\ At(w, "new")
    /\ GoTo(w, "iterate")
    /\ UNCHANGED <<it, res, wire, iters, failed, stop>>
    /\ UNCHANGED <<lockVars, careVars, pipeVars, tallyVars, runVars, mainVars>>

MainArrivesWarmup ==
    /\ \A w \in Workers : ~At(w, "new")
    /\ MainGoTo("starting", "warmupWait")
    /\ Arrive("warmup", Main)
    /\ UNCHANGED <<active, finish, exit, stop>>
    /\ UNCHANGED <<lockVars, workVars, careVars, pipeVars, tallyVars, runVars>>

\* The baselines of the summary are read between the two barriers.
\* Fault: the snapshot does not wait for the warmup.
TakeBaselinesEarly ==
    /\ MainGoTo("warmupWait", "baseline")
    /\ UNCHANGED <<arrived, active, finish, exit, stop>>
    /\ UNCHANGED <<lockVars, workVars, careVars, pipeVars, tallyVars, runVars>>

TakeBaselines ==
    /\ Open("warmup")
    /\ MainGoTo("warmupWait", "baseline")
    /\ UNCHANGED <<arrived, active, finish, exit, stop>>
    /\ UNCHANGED <<lockVars, workVars, careVars, pipeVars, tallyVars, runVars>>

\* start_ns and finish_ns are set, then the gate is opened.
StartClock ==
    /\ MainGoTo("baseline", "releaseWait")
    /\ finish' = "start"
    /\ Arrive("release", Main)
    /\ UNCHANGED <<active, exit, stop>>
    /\ UNCHANGED <<lockVars, workVars, careVars, pipeVars, tallyVars, runVars>>

\* Fault: finish_ns is initialised after the gate.
PassGateStamps ==
    /\ Open("release")
    /\ MainGoTo("releaseWait", "poll")
    /\ finish' = "start"
    /\ UNCHANGED <<arrived, active, exit, stop>>
    /\ UNCHANGED <<lockVars, workVars, careVars, pipeVars, tallyVars, runVars>>

PassGate ==
    /\ Open("release")
    /\ MainGoTo("releaseWait", "poll")
    /\ UNCHANGED <<arrived, active, finish, exit, stop>>
    /\ UNCHANGED <<lockVars, workVars, careVars, pipeVars, tallyVars, runVars>>

\* One turn of the waiting loop, done_cond held.
StopWanted == signal \/ (Iterations = 0 /\ expired)

\* Fault: the waiting loop looks at the deadline only.
PollDeadline ==
    /\ mainPc = "poll"
    /\ active > 0
    /\ stop' = (stop \/ (Iterations = 0 /\ expired))
    /\ UNCHANGED <<lockVars, workVars, careVars, pipeVars, tallyVars, runVars,
                   mainVars>>

Poll ==
    /\ mainPc = "poll"
    /\ active > 0
    /\ stop' = (stop \/ StopWanted)
    /\ UNCHANGED <<lockVars, workVars, careVars, pipeVars, tallyVars, runVars,
                   mainVars>>

\* Every worker has returned and is joined: the summary is printed from the
\* counters, the errors and the finish stamp.
\* Fault: once a stop is requested main no longer waits.
SummariseOnStop ==
    /\ active = 0 \/ stop
    /\ MainGoTo("poll", "summary")
    /\ UNCHANGED <<arrived, active, finish, exit, stop>>
    /\ UNCHANGED <<lockVars, workVars, careVars, pipeVars, tallyVars, runVars>>

Summarise ==
    /\ active = 0
    /\ \A w \in Workers : At(w, "returned")
    /\ MainGoTo("poll", "summary")
    /\ UNCHANGED <<arrived, active, finish, exit, stop>>
    /\ UNCHANGED <<lockVars, workVars, careVars, pipeVars, tallyVars, runVars>>

\* The Pipelines are freed and the verdict becomes the exit code.
Finish ==
    /\ MainGoTo("summary", "exited")
    /\ keying' = [h \in DOMAIN keying \ {pipe[s] : s \in SurfaceSet} |-> keying[h]]
    /\ exit' = IF \E w \in Workers : failed[w] THEN "fail" ELSE "pass"
    /\ UNCHANGED <<arrived, active, finish, stop, pipe, blob>>
    /\ UNCHANGED <<lockVars, workVars, careVars, tallyVars, runVars>>
-----------------------------------------------------------------------------
(* The world outside: a signal at any time, a clock that may run out. *)

SignalArrives ==
    /\ ~signal
    /\ signal' = TRUE
    /\ UNCHANGED <<expired, stop>>
    /\ UNCHANGED <<lockVars, workVars, careVars, pipeVars, tallyVars, mainVars>>

DeadlinePasses ==
    /\ Iterations = 0
    /\ finish # "unset"
    /\ ~expired
    /\ expired' = TRUE
    /\ UNCHANGED <<signal, stop>>
    /\ UNCHANGED <<lockVars, workVars, careVars, pipeVars, tallyVars, mainVars>>

IterationStep(w) ==
    \/ BeginIteration(w) \/ EnterRead(w) \/ Encrypt(w)
    \/ RoundTrip(w) \/ DecryptRaises(w) \/ Mismatch(w)
    \/ LeaveRead(w) \/ RecordEscape(w)

MaintenanceStep(w) ==
    \/ Maintain(w) \/ AfterRekey(w) \/ EnterWrite(w)
    \/ RekeyPipe(w) \/ RekeyRaises(w)
    \/ LoadPipe(w) \/ LoadRaises(w) \/ FreeOld(w) \/ SwapIn(w)
    \/ LeaveWrite(w)

LoopStep(w) ==
    \/ ArriveWarmup(w) \/ ArriveRelease(w) \/ PassRelease(w)
    \/ LoopHead(w) \/ Return(w)

WorkerStep(w) == IterationStep(w) \/ MaintenanceStep(w) \/ LoopStep(w)

MainStep ==
    \/ \E w \in Workers : StartWorker(w)
    \/ MainArrivesWarmup \/ TakeBaselines \/ StartClock \/ PassGate
    \/ Poll \/ Summarise \/ Finish

Running == exit = "running"

Next ==
    \/ /\ Running
       /\ \/ \E w \in Workers : WorkerStep(w)
          \/ MainStep
          \/ SignalArrives
          \/ DeadlinePasses
    \/ ~Running /\ UNCHANGED vars     \* the process is gone

Spec == Init /\ [][Next]_vars

\* Threads that can run do run.  For the two lock grants this is the fairness
\* RWLock is shown to provide; neither the signal nor the clock is forced.
Fairness ==
    /\ \A w \in Workers : WF_vars(Running /\ WorkerStep(w))
    /\ WF_vars(Running /\ MainStep)

FairSpec == Spec /\ Fairness
-----------------------------------------------------------------------------
(* Safety. *)

\* The wire is opened by the handle that sealed it, still open and still on
\* the same keying: no rotation, free or swap has come between an encrypt
\* and its decrypt (worker.py:108-110, ops.py:112-116).
RoundTripKeying ==
    \A w \in Workers : At(w, "decrypt") =>
        /\ DecryptHandle(w) = wire[w].handle
        /\ wire[w].handle \in DOMAIN keying
        /\ keying[wire[w].handle] = wire[w].key

\* Reopening leaks no handle and closes none that is still needed: outside
\* the swap, the open handles are those of the Pipelines, each its own, and
\* the one just loaded.
Loaded == {fresh[w] : w \in Workers} \ {None}

HandlesAccounted ==
    (/\ \A w \in Workers : ~At(w, "swap")
     /\ mainPc # "exited")
    => /\ DOMAIN keying = {pipe[s] : s \in SurfaceSet} \union Loaded
       /\ \A s, t \in SurfaceSet : pipe[s] = pipe[t] => s = t
       /\ \A s \in SurfaceSet : pipe[s] \notin Loaded

\* The surfaces whose retained blob is not of the keying they run on, and the
\* workers whose rotation failed.
Apart == {s \in SurfaceSet : blob[s] # keying[pipe[s]]}
FailedRotations == {w \in Workers : job[w] = "rekey" /\ res[w] # "ok"}

\* While nobody writes, each retained blob carries the keying its Pipeline runs
\* on, so that a reopen changes no keying; and each rotation that failed, on
\* the first surface or after it, leaves one surface apart at the most: those
\* it rotated before have their blobs (state.py:163-166, ops.py:35-52).
BlobIsLiveKeying ==
    Lock!Writers = {} /\ mainPc # "exited" =>
        Cardinality(Apart) <= Cardinality(FailedRotations)

\* The baselines describe a quiet process in which every worker has been
\* through the cipher path once or given up (main.py:720-732).
BaselineIsQuiet ==
    mainPc = "baseline" =>
        \A w \in Workers :
            /\ it[w] = 0
            /\ mode[w] = "none"
            /\ pc[w] \in {"warmupWait", "releaseWait"}
            /\ failed[w] <=> res[w] # "ok"

\* The elapsed time runs to the last worker's return: the stamp main put
\* there before the gate never survives, nor overwrites it (state.py:182-184,
\* main.py:742-757).
ElapsedToLastReturn ==
    mainPc \in {"summary", "exited"} => finish = "last return"

\* An exit code of 0 from a run with an iteration budget and no signal means
\* the whole budget was spent, warmup included, and every rotation and reopen
\* the intervals call for was done.
PassSpentBudget ==
    (exit = "pass" /\ Iterations > 0 /\ ~signal) =>
        /\ \A w \in Workers : iters[w] = Iterations
        /\ rekeys = Occurrences(RekeyEvery)
        /\ cycles = Occurrences(BlobCycleEvery)

\* Whatever way an operation failed, and however many did, the run does not
\* exit 0 (main.py:18-20, worker.py:212-217).
FailureIsReported ==
    (\E w \in Workers : res[w] # "ok") => exit # "pass"

\* Wrong bytes stop the process with the Pipelines as they were: open, and
\* not yet summarised or freed (worker.py:175-179).
MismatchKeepsEvidence ==
    exit = "mismatch" =>
        /\ mainPc \notin {"summary", "exited"}
        /\ \A s \in SurfaceSet : pipe[s] \in DOMAIN keying

\* Every iteration is preceded by a look at the stop request (state.py:178-179:
\* "checked by every worker before it starts an iteration").
StopCheckedBeforeIteration ==
    [][\A w \in Workers :
        (pc[w] # "iterate" /\ pc'[w] = "iterate") => ~stop]_vars
-----------------------------------------------------------------------------
(* Liveness. *)

\* A run with an iteration budget ends, whatever fails on the way.
Terminates == <>(~Running)

\* A signal, or the deadline, ends the run (main.py:34-35, 473-477).
StopEndsRun == StopWanted ~> ~Running

\* A worker that asks for the write side gets it, although readers are
\* preferred: the budget of the others runs out.
WriterGetsIn ==
    \A w \in Workers :
        (mode[w] = "wantWrite") ~> (mode[w] # "wantWrite" \/ ~Running)

\* In a run with no end in sight some waiting writer still gets in: every
\* worker counts to the same interval and comes to wait as well.
SomeWriterGetsIn ==
    (\E w \in Workers : mode[w] = "wantWrite")
        ~> ((\E w \in Workers : mode[w] = "write") \/ ~Running)

=============================================================================
