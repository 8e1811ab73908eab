------------------------- MODULE LoopHarnessProofs --------------------------
(***************************************************************************)
(* Proofs about LoopHarness, for any finite set of workers, any shape and  *)
(* any intervals: the types, exclusion, and what rests on it; the phases   *)
(* of a run; the Pipelines and what maintenance does to them; the budget.  *)
(***************************************************************************)
EXTENDS LoopHarness, FiniteSetTheorems, FunctionTheorems, SequenceTheorems, TLAPS

\* The side of the lock a worker wants or holds at each place.
Inside == {"encrypt", "decrypt", "unlock"}
Writing == {"rekey", "load", "free", "swap", "unlockWrite"}

ModeOf(label) ==
    IF label = "lockRead" THEN "wantRead"
    ELSE IF label \in Inside THEN "read"
    ELSE IF label = "lockWrite" THEN "wantWrite"
    ELSE IF label \in Writing THEN "write"
    ELSE "none"

ModeFits == \A w \in Workers : mode[w] = ModeOf(pc[w])

\* A writer is alone.
Alone ==
    \A w, x \in Workers :
        mode[w] = "write" /\ mode[x] \in {"read", "write"} => w = x

\* A worker in maintenance has what its next steps need.
Equipped ==
    \A w \in Workers :
        /\ pc[w] \in {"lockWrite", "rekey", "load", "free", "swap"}
            => todo[w] # <<>>
        /\ (pc[w] = "rekey" \/ (pc[w] = "lockWrite" /\ job[w] = "rekey"))
            => masters[w] \in Keys
        /\ pc[w] \in {"free", "swap"} <=> fresh[w] # None

\* active counts those still to return.
Out == {w \in Workers : pc[w] # "returned"}
CountedOut == active = Cardinality(Out)

\* The summary is printed, and the Pipelines freed, with every worker back.
AllBack ==
    mainPc \in {"summary", "exited"} => \A w \in Workers : pc[w] = "returned"

\* What is encrypted can be decrypted: the surface's own handle sealed it.
WireFits ==
    \A w \in Workers : pc[w] = "decrypt" =>
        LET h == pipe[SurfaceAt(it[w])] IN
            /\ h \in DOMAIN keying
            /\ wire[w] = [handle |-> h, key |-> keying[h]]

\* A failure is recorded, or on its way through the lock to worker_main's
\* handler.
FailureKept ==
    \A w \in Workers : res[w] # "ok" =>
        \/ failed[w]
        \/ res[w] = "escaped" /\ pc[w] \in {"unlock", "unlockWrite", "recordEscape"}

\* The inductive invariant.
IInv ==
    /\ TypeOK /\ ModeFits /\ Alone /\ Equipped
    /\ CountedOut /\ AllBack /\ WireFits
    /\ FailureKept /\ FailureIsReported
-----------------------------------------------------------------------------
\* The surfaces of a shape are a nonempty sequence, and every iteration falls
\* on one of them (worker.py picks the Pipeline by the shape).
LEMMA SurfaceFacts ==
    /\ Surfaces \in Seq(SurfaceSet) /\ Surfaces # <<>>
    /\ \A i \in Nat : SurfaceAt(i) \in SurfaceSet
    /\ \A i \in Nat : ShapeAt(i) = "stream" => SurfaceAt(i) = "stream"
<1>1. CASE Shape = "both"
  <2>1. Surfaces = <<"stream", "message">>
    BY <1>1 DEF Surfaces
  <2>2. SurfaceSet = {"stream", "message"}
    BY <2>1 DEF SurfaceSet
  <2>3. \A i \in Nat : i % 3 \in 0..2
    OBVIOUS
  <2>. QED BY <1>1, <2>1, <2>2, <2>3 DEF SurfaceAt, ShapeAt
<1>2. CASE Shape = "message"
  <2>1. Surfaces = <<"message">> /\ SurfaceSet = {"message"}
    BY <1>2 DEF Surfaces, SurfaceSet
  <2>. QED BY <1>2, <2>1 DEF SurfaceAt, ShapeAt
<1>3. CASE Shape \notin {"both", "message"}
  <2>1. Surfaces = <<"stream">> /\ SurfaceSet = {"stream"}
    BY <1>3 DEF Surfaces, SurfaceSet
  <2>. QED BY <1>3, <2>1 DEF SurfaceAt, ShapeAt
<1>. QED BY <1>1, <1>2, <1>3

\* A choice from a nonempty set is a member of it.
LEMMA AnyOfIsIn == ASSUME NEW S, S # {} PROVE AnyOf(S) \in S
BY DEF AnyOf

\* The counters and the iteration numbers stay natural numbers.
LEMMA CountersStayNat ==
    ASSUME NEW n \in Nat
    PROVE  Tally(n) \in Nat /\ NextIt(n) \in Nat
<1>1. Tally(n) \in Nat
  BY HarnessAssumption DEF Tally
<1>2. n % Period \in Nat
  BY HarnessAssumption
<1>3. NextIt(n) \in Nat
  BY <1>2, HarnessAssumption DEF NextIt
<1>. QED BY <1>1, <1>3

\* An iteration step (worker.py) keeps every type.
LEMMA IterationTypes ==
    ASSUME TypeOK, NEW w \in Workers, IterationStep(w)
    PROVE  TypeOK'
<1>. USE DEF TypeOK, WorkerLabels, At, GoTo, workVars, careVars, pipeVars,
             tallyVars, runVars, mainVars, lockVars, Lock!LockTypeOK,
             Lock!Modes, Lock!Move
<1>1. CASE BeginIteration(w)
  BY <1>1 DEF BeginIteration, Lock!AskRead, Results
<1>2. CASE EnterRead(w)
  BY <1>2 DEF EnterRead, Lock!GrantRead
<1>3. CASE Encrypt(w)
  <2>1. SurfaceAt(it[w]) \in SurfaceSet
    BY SurfaceFacts
  <2>2. wire' \in [Workers -> Wires]
    <3>1. CASE UNCHANGED wire
      BY <3>1
    <3>2. CASE /\ pipe[SurfaceAt(it[w])] \in DOMAIN keying
               /\ wire' = [wire EXCEPT ![w] =
                              [handle |-> pipe[SurfaceAt(it[w])],
                               key |-> keying[pipe[SurfaceAt(it[w])]]]]
      BY <2>1, <3>2 DEF Wires
    <3>. QED BY <1>3, <3>1, <3>2 DEF Encrypt
  <2>3. res' \in [Workers -> Results] /\ failed' \in [Workers -> BOOLEAN]
        /\ stop' \in BOOLEAN
    BY <1>3 DEF Encrypt, Raise, Fail, Results
  <2>4. pc' \in [Workers -> WorkerLabels]
    BY <1>3, ZenonT(30) DEF Encrypt
  <2>. QED BY <1>3, <2>2, <2>3, <2>4 DEF Encrypt
<1>4. CASE RoundTrip(w)
  <2>1. iters' \in [Workers -> Nat]
    BY <1>4, CountersStayNat DEF RoundTrip
  <2>. QED BY <1>4, <2>1 DEF RoundTrip, Results, Wires, NoWire
<1>5. CASE DecryptRaises(w)
  BY <1>5 DEF DecryptRaises, Raise, Fail, Results, Wires, NoWire
<1>6. CASE Mismatch(w)
  BY <1>6 DEF Mismatch
<1>7. CASE LeaveRead(w)
  BY <1>7 DEF LeaveRead, Lock!LeaveRead, AfterOperation
<1>8. CASE RecordEscape(w)
  BY <1>8 DEF RecordEscape, Fail
<1>. QED BY <1>1, <1>2, <1>3, <1>4, <1>5, <1>6, <1>7, <1>8 DEF IterationStep

\* A step of the worker loop keeps every type: _worker_done never takes
\* active below zero, because it counts the workers still out.
LEMMA LoopTypes ==
    ASSUME TypeOK, CountedOut, NEW w \in Workers, LoopStep(w)
    PROVE  TypeOK'
<1>. USE DEF TypeOK, WorkerLabels, At, GoTo, workVars, careVars, pipeVars,
             tallyVars, runVars, mainVars, lockVars, Lock!LockTypeOK
<1>1. CASE ArriveWarmup(w)
  BY <1>1 DEF ArriveWarmup, Arrive
<1>2. CASE ArriveRelease(w)
  BY <1>2 DEF ArriveRelease, Arrive
<1>3. CASE PassRelease(w)
  <2>1. pc' \in [Workers -> WorkerLabels]
    BY <1>3, ZenonT(30) DEF PassRelease
  <2>2. it' = [it EXCEPT ![w] = 1] \/ it' = it
    BY <1>3 DEF PassRelease
  <2>3. it' \in [Workers -> Nat]
    BY ONLY <2>2, it \in [Workers -> Nat], w \in Workers, 1 \in Nat
  <2>. QED BY <1>3, <2>1, <2>3 DEF PassRelease
<1>4. CASE LoopHead(w)
  BY <1>4 DEF LoopHead
<1>5. CASE Return(w)
  <2>1. active # 0
    <3>1. w \in Out /\ IsFiniteSet(Out)
      BY <1>5, HarnessAssumption, FS_Subset DEF Return, Out
    <3>. QED BY <3>1, FS_EmptySet DEF CountedOut
  <2>2. active' \in Nat
    <3>1. active \in Nat /\ active' = active - 1
      BY <1>5 DEF Return
    <3>. QED BY ONLY <2>1, <3>1
  <2>. QED BY <1>5, <2>2 DEF Return
<1>. QED BY <1>1, <1>2, <1>3, <1>4, <1>5 DEF LoopStep

\* A rotation or reopen step (ops.py) keeps every type, because a worker in
\* maintenance has masters, a surface and a handle when it needs them.
LEMMA MaintenanceTypes ==
    ASSUME TypeOK, Equipped, NEW w \in Workers, MaintenanceStep(w)
    PROVE  TypeOK'
<1>. USE DEF TypeOK, WorkerLabels, At, GoTo, workVars, careVars, pipeVars,
             tallyVars, runVars, mainVars, lockVars, Lock!LockTypeOK,
             Lock!Modes, Lock!Move
<1>a. todo[w] # <<>> => /\ Head(todo[w]) \in SurfaceSet
                        /\ Tail(todo[w]) \in Seq(SurfaceSet)
  BY HeadTailProperties
<1>n. NextIt(it[w]) \in Nat
  BY CountersStayNat
<1>1. CASE Maintain(w)
  <2>1. CASE UnusedKeys # {} /\ masters' = [masters EXCEPT ![w] = AnyOf(UnusedKeys)]
    <3>1. AnyOf(UnusedKeys) \in Keys
      BY <2>1, AnyOfIsIn DEF UnusedKeys
    <3>2. masters' \in [Workers -> Keys \union {None}]
      BY <2>1, <3>1
    <3>3. todo' \in [Workers -> Seq(SurfaceSet)]
      BY <1>1, SurfaceFacts, ZenonT(30) DEF Maintain
    <3>. QED BY <1>1, <3>2, <3>3 DEF Maintain, Lock!AskWrite
  <2>2. CASE UNCHANGED <<lockVars, masters, job, todo>>
    BY <1>1, <2>2 DEF Maintain
  <2>. QED BY <1>1, <2>1, <2>2 DEF Maintain
<1>2. CASE AfterRekey(w)
  <2>1. todo' \in [Workers -> Seq(SurfaceSet)]
    BY <1>2, SurfaceFacts, ZenonT(30) DEF AfterRekey
  <2>2. it' \in [Workers -> Nat]
    BY <1>2, <1>n, ZenonT(30) DEF AfterRekey
  <2>. QED BY <1>2, <2>1, <2>2 DEF AfterRekey, Lock!AskWrite
<1>3. CASE EnterWrite(w)
  BY <1>3 DEF EnterWrite, Lock!GrantWrite
<1>4. CASE RekeyPipe(w)
  <2>1. masters[w] \in Keys /\ todo[w] # <<>>
    BY <1>4 DEF RekeyPipe, Equipped
  <2>2. rekeys' \in Nat
    BY <1>4, CountersStayNat DEF RekeyPipe
  <2>3. todo' \in [Workers -> Seq(SurfaceSet)] /\ pc' \in [Workers -> WorkerLabels]
    BY <1>4, <1>a, <2>1 DEF RekeyPipe, NextSurface
  <2>4. /\ DOMAIN keying' \subseteq Handles
        /\ \A h \in DOMAIN keying' : keying'[h] \in Keys
        /\ blob' \in [SurfaceSet -> Keys]
    BY <1>4, <1>a, <2>1 DEF RekeyPipe
  <2>. QED BY <1>4, <2>2, <2>3, <2>4 DEF RekeyPipe
<1>5. CASE RekeyRaises(w)
  <2>1. masters[w] \in Keys
    BY <1>5 DEF RekeyRaises, Equipped
  <2>2. DOMAIN keying' \subseteq Handles /\ \A h \in DOMAIN keying' : keying'[h] \in Keys
    BY <1>5, <2>1 DEF RekeyRaises
  <2>. QED BY <1>5, <2>2 DEF RekeyRaises, Raise, Fail, Results
<1>6. CASE LoadPipe(w)
  <2>1. /\ AnyOf(UnusedHandles) \in Handles
        /\ blob[Head(todo[w])] \in Keys
    BY <1>6, <1>a, AnyOfIsIn DEF LoadPipe, UnusedHandles, Equipped
  <2>. QED BY <1>6, <2>1 DEF LoadPipe
<1>7. CASE LoadRaises(w)
  BY <1>7 DEF LoadRaises, Raise, Fail, Results
<1>8. CASE FreeOld(w)
  BY <1>8 DEF FreeOld, Close
<1>9. CASE SwapIn(w)
  <2>1. fresh[w] \in Handles /\ todo[w] # <<>>
    BY <1>9 DEF SwapIn, Equipped
  <2>2. cycles' \in Nat
    BY <1>9, CountersStayNat DEF SwapIn
  <2>3. todo' \in [Workers -> Seq(SurfaceSet)] /\ pc' \in [Workers -> WorkerLabels]
    BY <1>9, <1>a, <2>1 DEF SwapIn, NextSurface
  <2>4. pipe' \in [SurfaceSet -> Handles] /\ fresh' \in [Workers -> Handles \union {None}]
    BY <1>9, <1>a, <2>1 DEF SwapIn
  <2>. QED BY <1>9, <2>2, <2>3, <2>4 DEF SwapIn
<1>10. CASE LeaveWrite(w)
  <2>1. it' \in [Workers -> Nat]
    BY <1>10, <1>n DEF LeaveWrite
  <2>2. pc' \in [Workers -> WorkerLabels]
    BY <1>10 DEF LeaveWrite, AfterMaintenance, AfterOperation
  <2>3. /\ masters' \in [Workers -> Keys \union {None}]
        /\ job' \in [Workers -> {"none", "rekey", "cycle"}]
    BY <1>10 DEF LeaveWrite
  <2>4. todo' \in [Workers -> Seq(SurfaceSet)]
    <3>1. <<>> \in Seq(SurfaceSet)
      BY EmptySeq
    <3>2. todo' = [todo EXCEPT ![w] = <<>>]
      BY <1>10 DEF LeaveWrite
    <3>. QED BY ONLY <3>1, <3>2, todo \in [Workers -> Seq(SurfaceSet)],
                w \in Workers
  <2>. QED BY <1>10, <2>1, <2>2, <2>3, <2>4 DEF LeaveWrite, Lock!LeaveWrite
<1>. QED BY <1>1, <1>2, <1>3, <1>4, <1>5, <1>6, <1>7, <1>8, <1>9, <1>10
         DEF MaintenanceStep

\* A step of the main thread, of the signal or of the clock keeps every type.
LEMMA MainTypes ==
    ASSUME TypeOK, MainStep \/ SignalArrives \/ DeadlinePasses
    PROVE  TypeOK'
<1>. USE DEF TypeOK, WorkerLabels, MainLabels, At, GoTo, MainGoTo, workVars,
             careVars, pipeVars, tallyVars, runVars, mainVars, lockVars,
             Lock!LockTypeOK
<1>1. CASE \E w \in Workers : StartWorker(w)
  BY <1>1 DEF StartWorker
<1>2. CASE MainArrivesWarmup
  BY <1>2 DEF MainArrivesWarmup, Arrive
<1>3. CASE TakeBaselines
  BY <1>3 DEF TakeBaselines
<1>4. CASE StartClock
  BY <1>4 DEF StartClock, Arrive
<1>5. CASE PassGate
  BY <1>5 DEF PassGate
<1>6. CASE Poll
  BY <1>6 DEF Poll
<1>7. CASE Summarise
  BY <1>7 DEF Summarise
<1>8. CASE Finish
  BY <1>8 DEF Finish
<1>9. CASE SignalArrives
  BY <1>9 DEF SignalArrives
<1>10. CASE DeadlinePasses
  BY <1>10 DEF DeadlinePasses
<1>. QED BY <1>1, <1>2, <1>3, <1>4, <1>5, <1>6, <1>7, <1>8, <1>9, <1>10
            DEF MainStep
-----------------------------------------------------------------------------
\* The harness moves the lock only by its own operations: every step is one
\* of RWLockSpec or leaves the lock alone.
LEMMA UsesLock == TypeOK /\ [Next]_vars => [Lock!LockNext]_mode
<1>. SUFFICES ASSUME [Next]_vars, mode' # mode PROVE Lock!LockNext
  OBVIOUS
<1>. USE DEF lockVars
<1>1. ASSUME NEW w \in Workers, WorkerStep(w) PROVE Lock!LockNext
  <2>1. CASE IterationStep(w)
    BY <2>1 DEF IterationStep, BeginIteration, EnterRead, Encrypt, RoundTrip,
                DecryptRaises, Mismatch, LeaveRead, RecordEscape, Lock!LockNext
  <2>2. CASE MaintenanceStep(w)
    BY <2>2 DEF MaintenanceStep, Maintain, AfterRekey, EnterWrite, RekeyPipe,
                RekeyRaises, LoadPipe, LoadRaises, FreeOld, SwapIn, LeaveWrite,
                Lock!LockNext
  <2>3. CASE LoopStep(w)
    BY <2>3
       DEF LoopStep, ArriveWarmup, ArriveRelease, PassRelease, LoopHead, Return
  <2>. QED BY <1>1, <2>1, <2>2, <2>3 DEF WorkerStep
<1>2. ~MainStep
  BY DEF MainStep, StartWorker, MainArrivesWarmup, TakeBaselines, StartClock,
         PassGate, Poll, Summarise, Finish
<1>3. ~SignalArrives /\ ~DeadlinePasses
  BY DEF SignalArrives, DeadlinePasses
<1>. QED BY <1>1, <1>2, <1>3 DEF Next, vars

\* The grants of the lock keep a writer alone, whoever asks.
LEMMA StaysAlone ==
    ASSUME TypeOK, Alone, [Lock!LockNext]_mode
    PROVE  Alone'
<1>. USE DEF TypeOK, Lock!LockTypeOK, Lock!Modes, Lock!Move, Alone
<1>1. CASE UNCHANGED mode
  BY <1>1
<1>2. ASSUME NEW w \in Workers, Lock!GrantRead(w) PROVE Alone'
  BY <1>2 DEF Lock!GrantRead, Lock!Writers
<1>3. ASSUME NEW w \in Workers, Lock!GrantWrite(w) PROVE Alone'
  BY <1>3 DEF Lock!GrantWrite, Lock!Writers, Lock!Readers
<1>4. ASSUME NEW w \in Workers,
             \/ Lock!AskRead(w) \/ Lock!LeaveRead(w)
             \/ Lock!AskWrite(w) \/ Lock!LeaveWrite(w)
      PROVE Alone'
  BY <1>4 DEF Lock!AskRead, Lock!LeaveRead, Lock!AskWrite, Lock!LeaveWrite
<1>. QED BY <1>1, <1>2, <1>3, <1>4 DEF Lock!LockNext

\* A worker wants and holds the lock exactly where its code says so: no path,
\* failing or not, leaves a with block with the lock kept or given up twice.
LEMMA StaysFit ==
    ASSUME TypeOK, ModeFits, NEW w \in Workers, WorkerStep(w)
    PROVE  ModeFits'
<1>. USE DEF TypeOK, Lock!LockTypeOK, Lock!Modes, Lock!Move, ModeFits, ModeOf,
             Inside, Writing, At, GoTo, lockVars, workVars
<1>1. CASE IterationStep(w)
  <2>1. CASE BeginIteration(w)
    <3>1. CASE Lock!AskRead(w) /\ GoTo(w, "lockRead")
      BY <3>1 DEF Lock!AskRead
    <3>2. CASE GoTo(w, "recordEscape") /\ UNCHANGED lockVars /\ At(w, "iterate")
      BY <3>2
    <3>. QED BY <2>1, <3>1, <3>2 DEF BeginIteration
  <2>2. CASE EnterRead(w)
    BY <2>2 DEF EnterRead, Lock!GrantRead
  <2>3. CASE Encrypt(w)
    BY <2>3, ZenonT(30) DEF Encrypt
  <2>4. CASE RoundTrip(w) \/ DecryptRaises(w) \/ Mismatch(w)
    BY <2>4, ZenonT(30) DEF RoundTrip, DecryptRaises, Mismatch
  <2>5. CASE LeaveRead(w)
    BY <2>5 DEF LeaveRead, Lock!LeaveRead, AfterOperation
  <2>6. CASE RecordEscape(w)
    BY <2>6 DEF RecordEscape
  <2>. QED BY <1>1, <2>1, <2>2, <2>3, <2>4, <2>5, <2>6 DEF IterationStep
<1>2. CASE MaintenanceStep(w)
  <2>1. CASE Maintain(w)
    <3>1. CASE GoTo(w, "lockWrite") /\ Lock!AskWrite(w)
      BY <3>1 DEF Lock!AskWrite
    <3>2. CASE GoTo(w, "afterRekey") /\ mode' = mode
      BY <2>1, <3>2 DEF Maintain
    <3>. QED BY <2>1, <3>1, <3>2 DEF Maintain
  <2>2. CASE AfterRekey(w)
    <3>1. CASE GoTo(w, "lockWrite") /\ Lock!AskWrite(w)
      BY <3>1 DEF Lock!AskWrite
    <3>2. CASE GoTo(w, "loop") /\ mode' = mode
      BY <2>2, <3>2 DEF AfterRekey
    <3>. QED BY <2>2, <3>1, <3>2 DEF AfterRekey
  <2>3. CASE EnterWrite(w)
    BY <2>3 DEF EnterWrite, Lock!GrantWrite
  <2>4. CASE RekeyPipe(w) \/ RekeyRaises(w)
    BY <2>4, ZenonT(30) DEF RekeyPipe, RekeyRaises, NextSurface
  <2>5. CASE LoadPipe(w) \/ LoadRaises(w)
    BY <2>5, ZenonT(30) DEF LoadPipe, LoadRaises
  <2>6. CASE FreeOld(w)
    BY <2>6 DEF FreeOld
  <2>7. CASE SwapIn(w)
    <3>1. mode' = mode /\ pc[w] = "swap"
          /\ pc' = [pc EXCEPT ![w] = IF Len(todo[w]) > 1 THEN "load" ELSE "unlockWrite"]
      BY <2>7 DEF SwapIn, NextSurface
    <3>. QED BY <3>1
  <2>8. CASE LeaveWrite(w)
    BY <2>8 DEF LeaveWrite, Lock!LeaveWrite, AfterMaintenance, AfterOperation
  <2>. QED BY <1>2, <2>1, <2>2, <2>3, <2>4, <2>5, <2>6, <2>7, <2>8
              DEF MaintenanceStep
<1>3. CASE LoopStep(w)
  <2>1. CASE ArriveWarmup(w)
    BY <2>1 DEF ArriveWarmup
  <2>2. CASE ArriveRelease(w)
    BY <2>2 DEF ArriveRelease
  <2>3. CASE PassRelease(w)
    BY <2>3, ZenonT(30) DEF PassRelease
  <2>4. CASE LoopHead(w)
    BY <2>4 DEF LoopHead
  <2>5. CASE Return(w)
    BY <2>5 DEF Return
  <2>. QED BY <1>3, <2>1, <2>2, <2>3, <2>4, <2>5 DEF LoopStep
<1>. QED BY <1>1, <1>2, <1>3 DEF WorkerStep

\* A step of one worker leaves the fields of every other as they are.
LEMMA OthersUnmoved ==
    ASSUME TypeOK, NEW w \in Workers, WorkerStep(w), NEW x \in Workers, x # w
    PROVE  /\ pc'[x] = pc[x] /\ it'[x] = it[x] /\ res'[x] = res[x]
           /\ wire'[x] = wire[x] /\ failed'[x] = failed[x] /\ iters'[x] = iters[x]
           /\ job'[x] = job[x] /\ todo'[x] = todo[x]
           /\ masters'[x] = masters[x] /\ fresh'[x] = fresh[x]
<1>. USE DEF TypeOK, GoTo, workVars, careVars, lockVars, Fail, Raise
<1>1. CASE IterationStep(w)
  BY <1>1 DEF IterationStep, BeginIteration, EnterRead, Encrypt, RoundTrip,
              DecryptRaises, Mismatch, LeaveRead, RecordEscape
<1>2. CASE Maintain(w) \/ AfterRekey(w) \/ EnterWrite(w) \/ LeaveWrite(w)
  BY <1>2 DEF Maintain, AfterRekey, EnterWrite, LeaveWrite
<1>3. CASE RekeyPipe(w) \/ RekeyRaises(w) \/ LoadPipe(w) \/ LoadRaises(w)
  BY <1>3 DEF RekeyPipe, RekeyRaises, LoadPipe, LoadRaises, NextSurface
<1>4. CASE FreeOld(w) \/ SwapIn(w)
  BY <1>4 DEF FreeOld, SwapIn, NextSurface
<1>5. CASE LoopStep(w)
  BY <1>5
     DEF LoopStep, ArriveWarmup, ArriveRelease, PassRelease, LoopHead, Return
<1>. QED BY <1>1, <1>2, <1>3, <1>4, <1>5 DEF WorkerStep, MaintenanceStep

\* What remains after the first of several surfaces is not empty.
LEMMA LongerThanOne ==
    ASSUME NEW S, NEW s \in Seq(S), Len(s) > 1
    PROVE  Tail(s) # <<>>
<1>1. s # <<>>
  BY EmptySeq
<1>2. Tail(s) \in Seq(S) /\ Len(Tail(s)) = Len(s) - 1
  BY <1>1, HeadTailProperties
<1>3. Len(Tail(s)) # 0
  BY <1>2
<1>. QED BY <1>2, <1>3, EmptySeq

\* A worker in maintenance keeps what its next steps need.
LEMMA StaysEquipped ==
    ASSUME TypeOK, Equipped, NEW w \in Workers, WorkerStep(w)
    PROVE  Equipped'
<1>. DEFINE Fitted(x) ==
        /\ pc[x] \in {"lockWrite", "rekey", "load", "free", "swap"}
            => todo[x] # <<>>
        /\ (pc[x] = "rekey" \/ (pc[x] = "lockWrite" /\ job[x] = "rekey"))
            => masters[x] \in Keys
        /\ pc[x] \in {"free", "swap"} <=> fresh[x] # None
<1>1. \A x \in Workers : Fitted(x)
  BY DEF Equipped
<1>2. SUFFICES Fitted(w)'
  BY <1>1, OthersUnmoved DEF Equipped
<1>. USE <1>1 DEF TypeOK, At, GoTo, workVars, careVars, lockVars, Fail, Raise
<1>3. CASE IterationStep(w)
  <2>1. UNCHANGED careVars
    BY <1>3 DEF IterationStep, BeginIteration, EnterRead, Encrypt, RoundTrip,
                DecryptRaises, Mismatch, LeaveRead, RecordEscape
  <2>2. /\ pc[w] \notin {"free", "swap"}
        /\ \/ pc'[w] = pc[w]
           \/ pc'[w] \notin {"lockWrite", "rekey", "load", "free", "swap"}
    BY <1>3 DEF IterationStep, BeginIteration, EnterRead, Encrypt, RoundTrip,
                DecryptRaises, Mismatch, LeaveRead, RecordEscape, AfterOperation
  <2>. QED BY <2>1, <2>2
<1>4. CASE LoopStep(w)
  <2>1. UNCHANGED careVars
    BY <1>4
       DEF LoopStep, ArriveWarmup, ArriveRelease, PassRelease, LoopHead, Return
  <2>2. /\ pc[w] \notin {"free", "swap"}
        /\ pc'[w] \notin {"lockWrite", "rekey", "load", "free", "swap"}
    BY <1>4
       DEF LoopStep, ArriveWarmup, ArriveRelease, PassRelease, LoopHead, Return
  <2>. QED BY <2>1, <2>2
<1>5. CASE Maintain(w)
  <2>1. CASE UnusedKeys # {} /\ masters' = [masters EXCEPT ![w] = AnyOf(UnusedKeys)]
             /\ todo' = [todo EXCEPT ![w] = Surfaces] /\ GoTo(w, "lockWrite")
    <3>1. AnyOf(UnusedKeys) \in Keys
      BY <2>1, AnyOfIsIn DEF UnusedKeys
    <3>2. fresh' = fresh /\ pc[w] = "maintain"
      BY <1>5 DEF Maintain
    <3>3. pc'[w] = "lockWrite" /\ todo'[w] = Surfaces /\ masters'[w] \in Keys
      BY <2>1, <3>1
    <3>. QED BY <3>2, <3>3, SurfaceFacts
  <2>2. CASE GoTo(w, "afterRekey") /\ UNCHANGED careVars
    BY <1>5, <2>2 DEF Maintain
  <2>. QED BY <1>5, <2>1, <2>2 DEF Maintain
<1>6. CASE AfterRekey(w)
  BY <1>6, SurfaceFacts DEF AfterRekey
<1>7. CASE EnterWrite(w)
  BY <1>7 DEF EnterWrite
<1>a. Len(todo[w]) > 1 => Tail(todo[w]) # <<>>
  <2>1. todo[w] \in Seq(SurfaceSet)
    OBVIOUS
  <2>. QED BY ONLY <2>1, LongerThanOne
<1>8. CASE RekeyPipe(w)
  <2>1. /\ pc[w] = "rekey" /\ todo'[w] = Tail(todo[w])
        /\ pc'[w] = IF Len(todo[w]) > 1 THEN "rekey" ELSE "unlockWrite"
        /\ masters' = masters /\ fresh' = fresh
    BY <1>8 DEF RekeyPipe, NextSurface
  <2>. QED BY <1>a, <2>1
<1>9. CASE SwapIn(w)
  <2>1. /\ todo'[w] = Tail(todo[w])
        /\ pc'[w] = IF Len(todo[w]) > 1 THEN "load" ELSE "unlockWrite"
        /\ fresh'[w] = None
    BY <1>9 DEF SwapIn, NextSurface
  <2>. QED BY <1>a, <2>1
<1>10. CASE RekeyRaises(w)
  BY <1>10 DEF RekeyRaises
<1>11. CASE LoadRaises(w)
  BY <1>11 DEF LoadRaises
<1>12. CASE LoadPipe(w)
  <2>1. AnyOf(UnusedHandles) # None
    BY <1>12, AnyOfIsIn, HarnessAssumption DEF LoadPipe, UnusedHandles
  <2>2. /\ pc[w] = "load" /\ pc'[w] = "free" /\ todo' = todo
        /\ fresh'[w] = AnyOf(UnusedHandles)
    BY <1>12 DEF LoadPipe
  <2>. QED BY <2>1, <2>2
<1>13. CASE FreeOld(w)
  BY <1>13 DEF FreeOld
<1>14. CASE LeaveWrite(w)
  BY <1>14 DEF LeaveWrite, AfterMaintenance, AfterOperation
<1>. QED BY <1>3, <1>4, <1>5, <1>6, <1>7, <1>8, <1>9, <1>10, <1>11, <1>12,
            <1>13,
             <1>14 DEF WorkerStep, MaintenanceStep

\* active goes on counting the workers that are out, and a worker that has
\* returned takes no step.
LEMMA StaysCounted ==
    ASSUME TypeOK, CountedOut, NEW w \in Workers, WorkerStep(w)
    PROVE  CountedOut' /\ pc[w] # "returned"
<1>. USE DEF TypeOK, At, GoTo, workVars, careVars, lockVars, mainVars
<1>1. CASE Return(w)
  <2>1. /\ w \in Out /\ Out' = Out \ {w} /\ active' = active - 1
    BY <1>1 DEF Return, Out
  <2>2. IsFiniteSet(Out)
    BY HarnessAssumption, FS_Subset DEF Out
  <2>3. Cardinality(Out') = Cardinality(Out) - 1
    BY <2>1, <2>2, FS_RemoveElement
  <2>. QED BY <1>1, <2>1, <2>3 DEF CountedOut, Return
<1>2. CASE ~Return(w)
  <2>1. pc[w] # "returned" /\ pc'[w] # "returned" /\ active' = active
    <3>1. CASE IterationStep(w)
      BY <3>1 DEF IterationStep, BeginIteration, EnterRead, Encrypt, RoundTrip,
                  DecryptRaises, Mismatch, LeaveRead, RecordEscape,
                  AfterOperation
    <3>2. CASE MaintenanceStep(w)
      BY <3>2 DEF MaintenanceStep, Maintain, AfterRekey, EnterWrite, RekeyPipe,
                  RekeyRaises, LoadPipe, LoadRaises, FreeOld, SwapIn,
                  LeaveWrite, NextSurface, AfterMaintenance, AfterOperation
    <3>3. CASE LoopStep(w)
      BY <1>2, <3>3
         DEF LoopStep, ArriveWarmup, ArriveRelease, PassRelease, LoopHead
    <3>. QED BY <3>1, <3>2, <3>3 DEF WorkerStep
  <2>2. Out' = Out
    BY <2>1, OthersUnmoved DEF Out
  <2>. QED BY <2>1, <2>2 DEF CountedOut
<1>. QED BY <1>1, <1>2

\* No worker leaves after main has seen them all back.
LEMMA StaysBack ==
    ASSUME TypeOK, CountedOut, AllBack, NEW w \in Workers, WorkerStep(w)
    PROVE  AllBack'
<1>1. pc[w] # "returned"
  BY StaysCounted
<1>2. mainPc' = mainPc
  <2>1. CASE IterationStep(w)
    BY <2>1 DEF IterationStep, BeginIteration, EnterRead, Encrypt, RoundTrip,
                DecryptRaises, Mismatch, LeaveRead, RecordEscape, mainVars
  <2>2. CASE MaintenanceStep(w)
    BY <2>2 DEF MaintenanceStep, Maintain, AfterRekey, EnterWrite, RekeyPipe,
                RekeyRaises, LoadPipe, LoadRaises, FreeOld, SwapIn, LeaveWrite,
                mainVars
  <2>3. CASE LoopStep(w)
    BY <2>3 DEF LoopStep, ArriveWarmup, ArriveRelease, PassRelease, LoopHead,
                Return, mainVars
  <2>. QED BY <2>1, <2>2, <2>3 DEF WorkerStep
<1>. QED BY <1>1, <1>2 DEF AllBack

\* Only a worker inside the write side changes a Pipeline, a blob or a keying.
LEMMA OnlyWritersReach ==
    ASSUME NEW w \in Workers, WorkerStep(w)
    PROVE  UNCHANGED pipeVars \/ pc[w] \in Writing
<1>1. CASE IterationStep(w)
  BY <1>1 DEF IterationStep, BeginIteration, EnterRead, Encrypt, RoundTrip,
              DecryptRaises, Mismatch, LeaveRead, RecordEscape, pipeVars
<1>2. CASE MaintenanceStep(w)
  BY <1>2 DEF MaintenanceStep, Maintain, AfterRekey, EnterWrite, RekeyPipe,
              RekeyRaises, LoadPipe, LoadRaises, FreeOld, SwapIn, LeaveWrite,
              pipeVars, Writing, At
<1>3. CASE LoopStep(w)
  BY <1>3 DEF LoopStep, ArriveWarmup, ArriveRelease, PassRelease, LoopHead,
              Return, pipeVars
<1>. QED BY <1>1, <1>2, <1>3 DEF WorkerStep

\* A wire goes on fitting its Pipeline: whoever could change the Pipeline is
\* a writer, and the reader that holds the wire keeps writers out.
LEMMA WireStaysFit ==
    ASSUME TypeOK, ModeFits, Alone, WireFits, NEW w \in Workers, WorkerStep(w)
    PROVE  WireFits'
<1>. DEFINE Fitting(x) == pc[x] = "decrypt" =>
                LET h == pipe[SurfaceAt(it[x])] IN
                    /\ h \in DOMAIN keying
                    /\ wire[x] = [handle |-> h, key |-> keying[h]]
<1>1. ASSUME NEW x \in Workers, x # w PROVE Fitting(x)'
  <2>1. /\ pc'[x] = pc[x] /\ it'[x] = it[x] /\ wire'[x] = wire[x]
    BY <1>1, OthersUnmoved
  <2>2. SUFFICES ASSUME pc[x] = "decrypt" PROVE UNCHANGED pipeVars
    BY <2>1 DEF WireFits, pipeVars
  <2>3. mode[x] = "read"
    BY <2>2 DEF ModeFits, ModeOf, Inside
  <2>4. mode[w] # "write"
    BY <1>1, <2>3 DEF Alone
  <2>5. pc[w] \notin Writing
    BY <2>4 DEF ModeFits, ModeOf, Inside, Writing
  <2>. QED BY <2>5, OnlyWritersReach
<1>2. Fitting(w)'
  <2>. USE DEF TypeOK, At, GoTo
  <2>1. CASE Encrypt(w)
    <3>1. it' = it /\ pipe' = pipe /\ keying' = keying
      BY <2>1 DEF Encrypt, pipeVars
    <3>2. \/ pc'[w] # "decrypt"
          \/ LET h == pipe[SurfaceAt(it[w])] IN
                /\ h \in DOMAIN keying
                /\ wire'[w] = [handle |-> h, key |-> keying[h]]
      BY <2>1 DEF Encrypt
    <3>. QED BY <3>1, <3>2
  <2>2. CASE Mismatch(w)
    BY <2>2 DEF Mismatch, workVars, pipeVars, WireFits
  <2>3. CASE ~Encrypt(w) /\ ~Mismatch(w)
    <3>1. pc'[w] # "decrypt"
      <4>1. CASE IterationStep(w)
        BY <2>3, <4>1 DEF IterationStep, BeginIteration, EnterRead, RoundTrip,
                    DecryptRaises, LeaveRead, RecordEscape, AfterOperation
      <4>2. CASE MaintenanceStep(w)
        BY <4>2
           DEF MaintenanceStep, Maintain, AfterRekey, EnterWrite, RekeyPipe,
               RekeyRaises, LoadPipe, LoadRaises, FreeOld, SwapIn, LeaveWrite,
               NextSurface, AfterMaintenance, AfterOperation
      <4>3. CASE LoopStep(w)
        BY <4>3
           DEF LoopStep, ArriveWarmup, ArriveRelease, PassRelease, LoopHead,
                    Return
      <4>. QED BY <4>1, <4>2, <4>3 DEF WorkerStep
    <3>. QED BY <3>1
  <2>. QED BY <2>1, <2>2, <2>3
<1>. QED BY <1>1, <1>2 DEF WireFits

\* A failure is never forgotten between the call that failed and the record.
LEMMA FailureStaysKept ==
    ASSUME TypeOK, FailureKept, NEW w \in Workers, WorkerStep(w)
    PROVE  FailureKept'
<1>. DEFINE Kept(x) == res[x] # "ok" =>
            \/ failed[x]
            \/ res[x] = "escaped" /\ pc[x] \in {"unlock", "unlockWrite", "recordEscape"}
<1>1. SUFFICES Kept(w)'
  BY OthersUnmoved DEF FailureKept
<1>2. Kept(w)
  BY DEF FailureKept
<1>. USE <1>2 DEF TypeOK, At, GoTo, Fail
<1>3. CASE Encrypt(w)
  BY <1>3 DEF Encrypt, Raise
<1>4. CASE RoundTrip(w)
  BY <1>4 DEF RoundTrip
<1>5. CASE DecryptRaises(w)
  BY <1>5 DEF DecryptRaises, Raise
<1>6. CASE Mismatch(w)
  BY <1>6 DEF Mismatch, workVars
<1>7. CASE RekeyRaises(w)
  <2>1. pc'[w] = "unlockWrite"
    BY <1>7 DEF RekeyRaises
  <2>2. \/ res'[w] = "failed" /\ failed'[w]
        \/ res'[w] = "escaped"
    BY <1>7 DEF RekeyRaises, Raise, Results
  <2>. QED BY <2>1, <2>2
<1>8. CASE LoadRaises(w)
  BY <1>8 DEF LoadRaises, Raise
<1>9. CASE RecordEscape(w)
  BY <1>9 DEF RecordEscape
<1>10. CASE LeaveRead(w)
  BY <1>10 DEF LeaveRead, AfterOperation
<1>11. CASE LeaveWrite(w)
  BY <1>11 DEF LeaveWrite, AfterMaintenance, AfterOperation
<1>12. CASE BeginIteration(w) \/ EnterRead(w)
  BY <1>12 DEF BeginIteration, EnterRead
<1>13. CASE Maintain(w) \/ AfterRekey(w) \/ EnterWrite(w)
  BY <1>13 DEF Maintain, AfterRekey, EnterWrite
<1>14. CASE RekeyPipe(w) \/ LoadPipe(w) \/ FreeOld(w) \/ SwapIn(w)
  BY <1>14 DEF RekeyPipe, LoadPipe, FreeOld, SwapIn, NextSurface
<1>15. CASE LoopStep(w)
  BY <1>15
     DEF LoopStep, ArriveWarmup, ArriveRelease, PassRelease, LoopHead, Return
<1>. QED BY <1>3, <1>4, <1>5, <1>6, <1>7, <1>8, <1>9, <1>10, <1>11, <1>12,
            <1>13,
             <1>14, <1>15 DEF WorkerStep, IterationStep, MaintenanceStep

\* Every step of a worker keeps the invariant.
LEMMA WorkersPreserve ==
    ASSUME IInv, Running, NEW w \in Workers, WorkerStep(w)
    PROVE  IInv'
<1>. USE DEF IInv
<1>1. [Next]_vars
  BY DEF Next
<1>2. TypeOK'
  BY IterationTypes, MaintenanceTypes, LoopTypes DEF WorkerStep
<1>3. Alone'
  BY <1>1, UsesLock, StaysAlone
<1>4. ModeFits' /\ Equipped' /\ WireFits'
  BY StaysFit, StaysEquipped, WireStaysFit
<1>5. CountedOut' /\ AllBack' /\ FailureKept'
  BY StaysCounted, StaysBack, FailureStaysKept
<1>6. exit' # "pass"
  <2>1. CASE IterationStep(w)
    BY <2>1
       DEF Running, IterationStep, BeginIteration, EnterRead, Encrypt,
           RoundTrip, DecryptRaises, Mismatch, LeaveRead, RecordEscape, mainVars
  <2>2. CASE MaintenanceStep(w)
    BY <2>2
       DEF Running, MaintenanceStep, Maintain, AfterRekey, EnterWrite,
           RekeyPipe, RekeyRaises, LoadPipe, LoadRaises, FreeOld, SwapIn,
           LeaveWrite, mainVars
  <2>3. CASE LoopStep(w)
    BY <2>3
       DEF Running, LoopStep, ArriveWarmup, ArriveRelease, PassRelease,
           LoopHead, Return, mainVars
  <2>. QED BY <2>1, <2>2, <2>3 DEF WorkerStep
<1>. QED BY <1>2, <1>3, <1>4, <1>5, <1>6 DEF FailureIsReported

\* Every step of main, the signal and the clock keeps the invariant: main
\* changes the Pipelines only when every worker is back.
LEMMA OthersPreserve ==
    ASSUME IInv, Running, MainStep \/ SignalArrives \/ DeadlinePasses
    PROVE  IInv'
<1>. USE DEF IInv
<1>1. TypeOK'
  BY MainTypes
<1>2. UNCHANGED <<lockVars, careVars>> /\ UNCHANGED <<it, res, wire, iters, failed>>
      /\ UNCHANGED active
  BY DEF MainStep, StartWorker, MainArrivesWarmup, TakeBaselines, StartClock,
         PassGate, Poll, Summarise, Finish, SignalArrives, DeadlinePasses,
         lockVars, careVars, workVars, mainVars
<1>3. \/ UNCHANGED pc
      \/ \E w \in Workers : pc[w] = "new" /\ pc' = [pc EXCEPT ![w] = "iterate"]
  BY DEF MainStep, StartWorker, MainArrivesWarmup, TakeBaselines, StartClock,
         PassGate, Poll, Summarise, Finish, SignalArrives, DeadlinePasses,
         workVars, At, GoTo
<1>4. \A w \in Workers : \/ pc'[w] = pc[w]
                         \/ pc[w] = "new" /\ pc'[w] = "iterate"
  BY <1>3 DEF TypeOK
<1>5. ModeFits' /\ Alone'
  BY <1>2, <1>4 DEF ModeFits, ModeOf, Inside, Writing, Alone, lockVars
<1>6. Equipped'
  BY <1>2, <1>4 DEF Equipped, careVars
<1>7. CountedOut'
  <2>1. Out' = Out
    BY <1>4 DEF Out
  <2>. QED BY <1>2, <2>1 DEF CountedOut
<1>8. AllBack'
  <2>1. CASE Summarise
    BY <1>4, <2>1 DEF Summarise, At, AllBack
  <2>2. CASE ~Summarise
    <3>1. mainPc' \in {"summary", "exited"} => mainPc \in {"summary", "exited"}
      BY <2>2
         DEF MainStep, StartWorker, MainArrivesWarmup, TakeBaselines,
             StartClock, PassGate, Poll, Finish, SignalArrives, DeadlinePasses,
             MainGoTo, mainVars
    <3>. QED BY <1>4, <3>1 DEF AllBack
  <2>. QED BY <2>1, <2>2
<1>9. WireFits'
  <2>1. CASE Finish
    <3>1. \A w \in Workers : pc[w] = "returned"
      BY <2>1 DEF Finish, MainGoTo, AllBack
    <3>. QED BY <1>4, <3>1 DEF WireFits
  <2>2. CASE ~Finish
    <3>1. UNCHANGED pipeVars
      BY <2>2
         DEF MainStep, StartWorker, MainArrivesWarmup, TakeBaselines,
             StartClock, PassGate, Poll, Summarise, SignalArrives,
             DeadlinePasses, pipeVars
    <3>. QED BY <1>2, <1>4, <3>1 DEF WireFits, pipeVars
  <2>. QED BY <2>1, <2>2
<1>10. FailureKept'
  BY <1>2, <1>4 DEF FailureKept
<1>11. FailureIsReported'
  <2>1. CASE Finish
    <3>1. \A w \in Workers : pc[w] = "returned"
      BY <2>1 DEF Finish, MainGoTo, AllBack
    <3>2. \A w \in Workers : res[w] # "ok" => failed[w]
      BY <3>1 DEF FailureKept
    <3>3. exit' = "pass" => \A w \in Workers : ~failed[w]
      BY <2>1 DEF Finish
    <3>. QED BY <1>2, <3>2, <3>3 DEF FailureIsReported
  <2>2. CASE ~Finish
    <3>1. exit' = exit
      BY <2>2
         DEF MainStep, StartWorker, MainArrivesWarmup, TakeBaselines,
             StartClock, PassGate, Poll, Summarise, SignalArrives,
             DeadlinePasses, mainVars
    <3>. QED BY <3>1 DEF Running, FailureIsReported
  <2>. QED BY <2>1, <2>2
<1>. QED BY <1>1, <1>5, <1>6, <1>7, <1>8, <1>9, <1>10, <1>11

\* The invariant holds when run has opened the Pipelines.
LEMMA InvariantHoldsAtFirst == Init => IInv
<1>. SUFFICES ASSUME Init PROVE IInv
  OBVIOUS
<1>. DEFINE Separate == {f \in [SurfaceSet -> Handles] :
                           \A s, t \in SurfaceSet : f[s] = f[t] => s = t}
            k == AnyOf(Keys)
            hs == AnyOf(Separate)
<1>1. k \in Keys /\ hs \in [SurfaceSet -> Handles]
  <2>1. Separate # {} /\ Keys # {}
    BY PoolAssumption
  <2>2. hs \in Separate /\ k \in Keys
    BY <2>1, AnyOfIsIn
  <2>. QED BY <2>2
<1>2. /\ pipe = hs /\ blob = [s \in SurfaceSet |-> k]
      /\ keying = [h \in {hs[s] : s \in SurfaceSet} |-> k]
  BY DEF Init
<1>3. /\ pipe \in [SurfaceSet -> Handles] /\ blob \in [SurfaceSet -> Keys]
      /\ DOMAIN keying \subseteq Handles
      /\ \A h \in DOMAIN keying : keying[h] \in Keys
  <2>. HIDE DEF k, hs
  <2>. QED BY <1>1, <1>2
<1>4. Cardinality(Workers) \in Nat
  BY HarnessAssumption, FS_CardinalityType
<1>5. todo \in [Workers -> Seq(SurfaceSet)]
  <2>1. <<>> \in Seq(SurfaceSet)
    BY EmptySeq
  <2>. QED BY <2>1 DEF Init
<1>6. TypeOK
  BY <1>3, <1>4, <1>5
     DEF Init, TypeOK, Lock!LockInit, Lock!LockTypeOK, Lock!Modes,
     WorkerLabels, MainLabels, Results, Wires, NoWire
<1>7. ModeFits /\ Alone /\ Equipped /\ AllBack /\ WireFits
  BY DEF Init, Lock!LockInit, ModeFits, ModeOf, Inside, Writing, Alone,
         Equipped, AllBack, WireFits
<1>8. CountedOut
  <2>1. Out = Workers
    BY DEF Init, Out
  <2>. QED BY <2>1 DEF Init, CountedOut
<1>9. FailureKept /\ FailureIsReported
  BY DEF Init, FailureKept, FailureIsReported
<1>. QED BY <1>6, <1>7, <1>8, <1>9 DEF IInv

\* Every step keeps the invariant.
LEMMA InvariantIsInductive == IInv /\ [Next]_vars => IInv'
<1>. SUFFICES ASSUME IInv, [Next]_vars PROVE IInv'
  OBVIOUS
<1>1. CASE UNCHANGED vars
  BY <1>1 DEF vars, lockVars, workVars, careVars, pipeVars, tallyVars, runVars,
     mainVars, IInv, TypeOK, Lock!LockTypeOK, ModeFits, Alone, Equipped,
     CountedOut, Out, AllBack, WireFits, FailureKept, FailureIsReported
<1>2. CASE Running /\ \E w \in Workers : WorkerStep(w)
  BY <1>2, WorkersPreserve
<1>3. CASE Running /\ (MainStep \/ SignalArrives \/ DeadlinePasses)
  BY <1>3, OthersPreserve
<1>. QED BY <1>1, <1>2, <1>3 DEF Next

\* The invariant holds throughout.
LEMMA InvariantHolds == Spec => []IInv
<1>1. Init => IInv
  BY InvariantHoldsAtFirst
<1>2. IInv /\ [Next]_vars => IInv'
  BY InvariantIsInductive
<1>. QED BY <1>1, <1>2, PTL DEF Spec
-----------------------------------------------------------------------------
\* Every field of the run keeps its type, for any number of workers and any
\* intervals; active, which main waits on, never goes below zero
\* (state.py, worker.py _worker_done).
THEOREM HarnessTypeCorrect == Spec => []TypeOK
<1>1. IInv => TypeOK
  BY DEF IInv
<1>. QED BY <1>1, InvariantHolds, PTL

\* The harness is a client the lock's promise is made to: what it does to
\* pipe_lock is a behaviour of RWLockSpec.  RWLockProofs shows the monitor of
\* state.py to implement the same specification.
THEOREM HarnessUsesLock == Spec => Lock!LockSpec
<1>1. Init => Lock!LockInit
  BY DEF Init
<1>2. IInv /\ [Next]_vars => [Lock!LockNext]_mode
  BY UsesLock DEF IInv
<1>. QED BY <1>1, <1>2, InvariantHolds, PTL DEF Spec, Lock!LockSpec

\* While a worker rotates masters or reopens Pipelines no other is inside an
\* iteration or inside maintenance of its own (ops.py:112-116).
THEOREM MaintenanceIsAlone ==
    Spec => [](\A w, x \in Workers :
                  pc[w] \in Writing /\ pc[x] \in Inside \union Writing => w = x)
<1>1. IInv => \A w, x \in Workers :
                pc[w] \in Writing /\ pc[x] \in Inside \union Writing => w = x
  BY DEF IInv, ModeFits, ModeOf, Alone, Inside, Writing
<1>. QED BY <1>1, InvariantHolds, PTL

\* Whatever the shape, the number of workers and the intervals, a wire is
\* opened by the open handle that sealed it, on the keying that sealed it
\* (worker.py:108-110, ops.py:112-116).
THEOREM RoundTripHolds == Spec => []RoundTripKeying
<1>1. IInv => RoundTripKeying
  <2>. SUFFICES ASSUME IInv, NEW w \in Workers, pc[w] = "decrypt"
                PROVE  /\ DecryptHandle(w) = wire[w].handle
                       /\ wire[w].handle \in DOMAIN keying
                       /\ keying[wire[w].handle] = wire[w].key
    BY DEF RoundTripKeying, At
  <2>1. /\ pipe[SurfaceAt(it[w])] \in DOMAIN keying
        /\ wire[w].handle = pipe[SurfaceAt(it[w])]
        /\ wire[w].key = keying[pipe[SurfaceAt(it[w])]]
    <3>1. /\ pipe[SurfaceAt(it[w])] \in DOMAIN keying
          /\ wire[w] = [handle |-> pipe[SurfaceAt(it[w])],
                        key |-> keying[pipe[SurfaceAt(it[w])]]]
      BY DEF IInv, WireFits
    <3>. QED BY ONLY <3>1
  <2>2. it[w] \in Nat
    BY DEF IInv, TypeOK
  <2>3. DecryptHandle(w) = wire[w].handle
    BY <2>1, <2>2, SurfaceFacts DEF DecryptHandle
  <2>. QED BY <2>1, <2>3
<1>. QED BY <1>1, InvariantHolds, PTL

\* A run in which any operation of any worker failed, in whatever way, does
\* not exit 0 (main.py:18-20, worker.py:212-217).
THEOREM FailuresAreReported == Spec => []FailureIsReported
<1>1. IInv => FailureIsReported
  BY DEF IInv
<1>. QED BY <1>1, InvariantHolds, PTL
-----------------------------------------------------------------------------
(***************************************************************************)
(* The phases of a run: the baseline that lies between the two barriers,   *)
(* and the stamp of the last return.                                       *)
(*                                                                         *)
(* Main's place in the release barrier divides the run: until main is      *)
(* there no worker is past its warmup (GateFits), so that the counters     *)
(* main reads describe a quiet process, and active cannot have reached     *)
(* zero when main puts its own stamp on finish.                            *)
(***************************************************************************)

\* Where a worker may be while the release barrier is closed.
Before == {"new", "iterate", "lockRead", "encrypt", "decrypt", "unlock",
           "recordEscape", "warmup", "warmupWait", "releaseWait"}
Released == Main \in arrived["release"]

Waits(w) ==
    /\ pc[w] \in Before /\ it[w] = 0
    /\ w \in arrived["warmup"] => pc[w] \in {"warmupWait", "releaseWait"}

GateFits ==
    /\ mainPc \in {"starting", "warmupWait", "baseline"} => ~Released
    /\ mainPc = "baseline" => Open("warmup")
    /\ ~Released => \A w \in Workers : Waits(w)

\* A failure recorded is one the worker still knows of.
RecordFits(w) ==
    /\ res[w] # "ok" => pc[w] \in {"unlock", "unlockWrite", "recordEscape", "warmup",
            "warmupWait", "releaseWait", "returning", "returned"}
    /\ pc[w] = "recordEscape" => res[w] = "escaped"
    /\ failed[w] => res[w] # "ok"
RecordsFit == \A w \in Workers : RecordFits(w)

LastStamps == active = 0 => finish = "last return"

GInv == IInv /\ GateFits /\ RecordsFit /\ LastStamps
-----------------------------------------------------------------------------
\* No step of a worker loses a failure or invents one.
LEMMA RecordsStayFit ==
    ASSUME TypeOK, RecordsFit, NEW w \in Workers, WorkerStep(w)
    PROVE  RecordsFit'
<1>1. SUFFICES RecordFits(w)'
  BY OthersUnmoved DEF RecordsFit, RecordFits
<1>2. RecordFits(w)
  BY DEF RecordsFit
<1>. USE <1>2 DEF RecordFits, TypeOK, At, GoTo, WorkerLabels, Results
<1>3. CASE BeginIteration(w) \/ EnterRead(w)
  BY <1>3 DEF BeginIteration, EnterRead
<1>4. CASE Encrypt(w)
  BY <1>4 DEF Encrypt, Raise, Fail
<1>5. CASE RoundTrip(w)
  BY <1>5 DEF RoundTrip
<1>6. CASE DecryptRaises(w)
  BY <1>6 DEF DecryptRaises, Raise, Fail
<1>7. CASE Mismatch(w)
  BY <1>7 DEF Mismatch, workVars
<1>8. CASE LeaveRead(w)
  BY <1>8 DEF LeaveRead, AfterOperation
<1>9. CASE RecordEscape(w)
  BY <1>9 DEF RecordEscape, Fail
<1>10. CASE Maintain(w)
  BY <1>10 DEF Maintain
<1>11. CASE AfterRekey(w)
  BY <1>11 DEF AfterRekey
<1>12. CASE EnterWrite(w)
  BY <1>12 DEF EnterWrite
<1>13. CASE RekeyPipe(w)
  BY <1>13 DEF RekeyPipe, NextSurface
<1>14. CASE RekeyRaises(w) \/ LoadRaises(w)
  BY <1>14 DEF RekeyRaises, LoadRaises, Raise, Fail
<1>15. CASE LoadPipe(w) \/ FreeOld(w)
  BY <1>15 DEF LoadPipe, FreeOld
<1>16. CASE SwapIn(w)
  BY <1>16 DEF SwapIn, NextSurface
<1>17. CASE LeaveWrite(w)
  BY <1>17 DEF LeaveWrite, AfterMaintenance, AfterOperation
<1>18. CASE LoopStep(w)
  BY <1>18 DEF LoopStep, ArriveWarmup, ArriveRelease, PassRelease, LoopHead,
     Return
<1>. QED BY <1>3, <1>4, <1>5, <1>7, <1>8, <1>10, <1>11, <1>12, <1>13, <1>14,
            <1>15,
             <1>16, <1>17, <1>18, <1>6, <1>9 DEF WorkerStep, IterationStep, MaintenanceStep

\* Until main is at the release barrier a worker goes no further than that, and
\* none returns.
LEMMA WaitsUntilReleased ==
    ASSUME TypeOK, RecordsFit, NEW w \in Workers, Waits(w), WorkerStep(w), ~Released
    PROVE  /\ Waits(w)' /\ ~Released'
           /\ active' = active /\ finish' = finish /\ pc'[w] # "returned"
<1>0. /\ Main \notin Workers /\ Main # w
      /\ arrived \in [{"warmup", "release"} -> SUBSET (Workers \union {Main})]
      /\ pc \in [Workers -> WorkerLabels] /\ it \in [Workers -> Nat]
      /\ res \in [Workers -> Results] /\ it[w] = 0
  BY HarnessAssumption DEF TypeOK, Waits
<1>. USE <1>0 DEF Waits, Before, Released, At, GoTo
<1>1. CASE IterationStep(w)
  <2>1. UNCHANGED <<arrived, active, finish, it>>
    BY <1>1 DEF IterationStep, BeginIteration, EnterRead, Encrypt, RoundTrip,
                DecryptRaises, Mismatch, LeaveRead, RecordEscape, mainVars,
                workVars
  <2>2. pc'[w] \in Before /\ (pc[w] # "decrypt" => pc[w] \notin {"warmupWait", "releaseWait"})
    BY <1>1 DEF IterationStep, BeginIteration, EnterRead, Encrypt, RoundTrip,
                DecryptRaises, Mismatch, LeaveRead, RecordEscape, workVars,
                AfterOperation, Results
  <2>3. pc[w] \notin {"warmupWait", "releaseWait"}
    BY <2>2
  <2>. QED BY <2>1, <2>2, <2>3
<1>2. CASE MaintenanceStep(w)
  BY <1>2 DEF MaintenanceStep, Maintain, AfterRekey, EnterWrite, RekeyPipe,
              RekeyRaises, LoadPipe, LoadRaises, FreeOld, SwapIn, LeaveWrite
<1>3. CASE ArriveWarmup(w) \/ ArriveRelease(w)
  BY <1>3 DEF ArriveWarmup, ArriveRelease, Arrive
<1>4. CASE PassRelease(w) \/ LoopHead(w) \/ Return(w)
  BY <1>4 DEF PassRelease, LoopHead, Return, Open
<1>. QED BY <1>1, <1>2, <1>3, <1>4 DEF WorkerStep, LoopStep

\* An open barrier stays open, and main in it.
LEMMA GatesOnlyFill ==
    ASSUME TypeOK, NEW w \in Workers, WorkerStep(w)
    PROVE  /\ mainPc' = mainPc
           /\ (Open("warmup") => Open("warmup")')
           /\ (Released => Released')
<1>. USE DEF TypeOK, Released, Open
<1>1. CASE IterationStep(w)
  BY <1>1 DEF IterationStep, BeginIteration, EnterRead, Encrypt, RoundTrip,
              DecryptRaises, Mismatch, LeaveRead, RecordEscape, mainVars
<1>2. CASE MaintenanceStep(w)
  BY <1>2 DEF MaintenanceStep, Maintain, AfterRekey, EnterWrite, RekeyPipe,
              RekeyRaises, LoadPipe, LoadRaises, FreeOld, SwapIn, LeaveWrite,
              mainVars
<1>3. CASE ArriveWarmup(w) \/ ArriveRelease(w)
  BY <1>3 DEF ArriveWarmup, ArriveRelease, Arrive
<1>4. CASE PassRelease(w) \/ LoopHead(w) \/ Return(w)
  BY <1>4 DEF PassRelease, LoopHead, Return, mainVars
<1>. QED BY <1>1, <1>2, <1>3, <1>4 DEF WorkerStep, LoopStep

\* The last worker to return leaves its stamp; no other step of a worker
\* touches stamp or count.
LEMMA LastReturnStamps ==
    ASSUME TypeOK, LastStamps, NEW w \in Workers, WorkerStep(w)
    PROVE  LastStamps'
<1>. USE DEF TypeOK, LastStamps
<1>1. CASE IterationStep(w)
  BY <1>1 DEF IterationStep, BeginIteration, EnterRead, Encrypt, RoundTrip,
              DecryptRaises, Mismatch, LeaveRead, RecordEscape, mainVars
<1>2. CASE MaintenanceStep(w)
  BY <1>2 DEF MaintenanceStep, Maintain, AfterRekey, EnterWrite, RekeyPipe,
              RekeyRaises, LoadPipe, LoadRaises, FreeOld, SwapIn, LeaveWrite,
              mainVars
<1>3. CASE ArriveWarmup(w) \/ ArriveRelease(w) \/ PassRelease(w) \/ LoopHead(w)
  BY <1>3 DEF ArriveWarmup, ArriveRelease, PassRelease, LoopHead, mainVars
<1>4. CASE Return(w)
  <2>1. active \in Nat
    OBVIOUS
  <2>2. active' = active - 1
    BY <1>4 DEF Return
  <2>3. active = 1 => finish' = "last return"
    BY <1>4 DEF Return
  <2>4. active' = 0 => active = 1
    BY ONLY <2>1, <2>2
  <2>. QED BY <2>3, <2>4
<1>. QED BY <1>1, <1>2, <1>3, <1>4 DEF WorkerStep, LoopStep

\* Every step of a worker keeps the invariant.
LEMMA WorkersKeepPhases ==
    ASSUME GInv, Running, NEW w \in Workers, WorkerStep(w)
    PROVE  GInv'
<1>0. IInv /\ TypeOK /\ IInv' /\ GateFits /\ RecordsFit /\ LastStamps
  BY WorkersPreserve DEF GInv, IInv
<1>1. RecordsFit' /\ LastStamps'
  BY <1>0, RecordsStayFit, LastReturnStamps
<1>2. GateFits'
  <2>1. CASE Released
    BY <1>0, <2>1, GatesOnlyFill DEF GateFits
  <2>2. CASE ~Released
    <3>1. \A x \in Workers : Waits(x)
      BY <1>0, <2>2 DEF GateFits
    <3>2. Waits(w)' /\ ~Released'
      BY <1>0, <2>2, <3>1, WaitsUntilReleased
    <3>3. ASSUME NEW x \in Workers, x # w PROVE Waits(x)'
      <4>1. x \in arrived'["warmup"] => x \in arrived["warmup"]
        <5>1. arrived'["warmup"] \subseteq arrived["warmup"] \union {w}
          <6>1. UNCHANGED arrived \/ Arrive("warmup", w) \/ Arrive("release", w)
            BY DEF WorkerStep, IterationStep, BeginIteration, EnterRead,
                   Encrypt, RoundTrip, DecryptRaises, Mismatch, LeaveRead,
                   RecordEscape, MaintenanceStep, Maintain, AfterRekey,
                   EnterWrite, RekeyPipe, RekeyRaises, LoadPipe, LoadRaises,
                   FreeOld, SwapIn, LeaveWrite, LoopStep, ArriveWarmup,
                   ArriveRelease, PassRelease, LoopHead, Return, mainVars
          <6>. QED BY <1>0, <6>1 DEF Arrive, TypeOK
        <5>. QED BY <3>3, <5>1
      <4>. QED BY <1>0, <3>1, <3>3, <4>1, OthersUnmoved DEF Waits
    <3>. QED BY <1>0, <3>2, <3>3, GatesOnlyFill DEF GateFits
  <2>. QED BY <2>1, <2>2
<1>. QED BY <1>0, <1>1, <1>2 DEF GInv

\* Every step of main, the signal and the clock keeps it: main's stamp comes
\* before any worker can have returned.
LEMMA MainKeepsPhases ==
    ASSUME GInv, Running, MainStep \/ SignalArrives \/ DeadlinePasses
    PROVE  GInv'
<1>0. IInv /\ TypeOK /\ IInv' /\ GateFits /\ RecordsFit /\ LastStamps
  BY OthersPreserve DEF GInv, IInv
<1>1. UNCHANGED <<res, failed, it, active>>
  BY DEF MainStep, StartWorker, MainArrivesWarmup, TakeBaselines, StartClock,
         PassGate, Poll, Summarise, Finish, SignalArrives, DeadlinePasses,
         workVars, mainVars
<1>2. \A w \in Workers : pc'[w] = pc[w] \/ (pc[w] = "new" /\ pc'[w] = "iterate")
  BY <1>0
     DEF MainStep, StartWorker, MainArrivesWarmup, TakeBaselines, StartClock,
         PassGate, Poll, Summarise, Finish, SignalArrives, DeadlinePasses,
         workVars, At, GoTo, TypeOK
<1>3. RecordsFit'
  BY <1>0, <1>1, <1>2 DEF RecordsFit, RecordFits
<1>4. /\ \A w \in Workers : w \in arrived'["warmup"] <=> w \in arrived["warmup"]
      /\ arrived["warmup"] \subseteq arrived'["warmup"]
      /\ (arrived'["release"] = arrived["release"] \/ StartClock)
      /\ (arrived'["warmup"] = arrived["warmup"] \/ mainPc' = "warmupWait")
  <2>1. UNCHANGED arrived \/ (MainArrivesWarmup /\ Arrive("warmup", Main))
        \/ (StartClock /\ Arrive("release", Main))
    BY DEF MainStep, StartWorker, MainArrivesWarmup, TakeBaselines, StartClock,
           PassGate, Poll, Summarise, Finish, SignalArrives, DeadlinePasses,
           mainVars
  <2>2. Main \notin Workers
    BY HarnessAssumption
  <2>3. CASE UNCHANGED arrived
    BY <2>3
  <2>4. CASE MainArrivesWarmup /\ Arrive("warmup", Main)
    <3>1. /\ arrived'["warmup"] = arrived["warmup"] \union {Main}
          /\ arrived'["release"] = arrived["release"]
      BY <1>0, <2>4 DEF Arrive, TypeOK
    <3>2. mainPc' = "warmupWait"
      BY <2>4 DEF MainArrivesWarmup, MainGoTo
    <3>. QED BY <2>2, <3>1, <3>2
  <2>5. CASE StartClock /\ Arrive("release", Main)
    BY <1>0, <2>5 DEF Arrive, TypeOK
  <2>. QED BY <2>1, <2>3, <2>4, <2>5
<1>5. GateFits'
  <2>1. CASE StartClock
    <3>1. mainPc' = "releaseWait" /\ Released'
      BY <1>0, <2>1 DEF StartClock, MainGoTo, Released, Arrive, TypeOK
    <3>. QED BY <3>1 DEF GateFits
  <2>2. CASE ~StartClock
    <3>1. Released' = Released
      BY <1>4, <2>2 DEF Released
    <3>2. ~Released => \A w \in Workers : Waits(w)'
      BY <1>0, <1>1, <1>2, <1>4 DEF GateFits, Waits, Before
    <3>3. mainPc' \in {"starting", "warmupWait", "baseline"} =>
             mainPc \in {"starting", "warmupWait", "baseline"}
      BY <1>0, <2>2 DEF MainStep, StartWorker, MainArrivesWarmup, TakeBaselines,
                        PassGate, Poll, Summarise, Finish, SignalArrives,
                        DeadlinePasses, mainVars, MainGoTo
    <3>4. mainPc' = "baseline" => Open("warmup")'
      <4>1. CASE TakeBaselines
        BY <4>1 DEF TakeBaselines, Open
      <4>2. CASE ~TakeBaselines
        BY <1>0, <2>2, <4>2 DEF MainStep, StartWorker, MainArrivesWarmup,
                                PassGate, Poll, Summarise, Finish,
                                SignalArrives, DeadlinePasses, mainVars,
                                MainGoTo, GateFits, Open
      <4>. QED BY <4>1, <4>2
    <3>. QED BY <1>0, <3>1, <3>2, <3>3, <3>4 DEF GateFits
  <2>. QED BY <2>1, <2>2
<1>6. LastStamps'
  <2>1. CASE StartClock
    <3>1. \A w \in Workers : pc[w] # "returned"
      BY <1>0, <2>1 DEF StartClock, MainGoTo, GateFits, Waits, Before
    <3>2. Out # {} /\ IsFiniteSet(Out)
      BY <3>1, HarnessAssumption, FS_Subset DEF Out
    <3>3. active # 0
      BY <1>0, <3>2, FS_EmptySet DEF IInv, CountedOut
    <3>. QED BY <1>1, <3>3 DEF LastStamps
  <2>2. CASE ~StartClock
    <3>1. finish' = finish
      BY <2>2 DEF MainStep, StartWorker, MainArrivesWarmup, TakeBaselines,
                  PassGate, Poll, Summarise, Finish, SignalArrives,
                  DeadlinePasses, mainVars
    <3>. QED BY <1>0, <1>1, <3>1 DEF LastStamps
  <2>. QED BY <2>1, <2>2
<1>. QED BY <1>0, <1>3, <1>5, <1>6 DEF GInv

\* It holds when run starts its workers.
LEMMA PhasesAtFirst == Init => GInv
<1>. SUFFICES ASSUME Init PROVE GInv
  OBVIOUS
<1>1. GateFits
  BY DEF Init, GateFits, Waits, Before, Released
<1>2. RecordsFit
  BY DEF Init, RecordsFit, RecordFits
<1>3. LastStamps
  <2>1. active = Cardinality(Workers) /\ Cardinality(Workers) # 0
    BY HarnessAssumption, FS_EmptySet DEF Init
  <2>. QED BY <2>1 DEF LastStamps
<1>. QED BY <1>1, <1>2, <1>3, InvariantHoldsAtFirst DEF GInv

\* Every step keeps it.
LEMMA PhasesAreInductive == GInv /\ [Next]_vars => GInv'
<1>. SUFFICES ASSUME GInv, [Next]_vars PROVE GInv'
  OBVIOUS
<1>1. CASE UNCHANGED vars
  <2>1. IInv'
    BY <1>1, InvariantIsInductive DEF GInv
  <2>. QED BY <1>1, <2>1 DEF vars, workVars, mainVars, GInv, GateFits, Waits,
                             Released, Open, RecordsFit, RecordFits, LastStamps
<1>2. CASE Running /\ \E w \in Workers : WorkerStep(w)
  BY <1>2, WorkersKeepPhases
<1>3. CASE Running /\ (MainStep \/ SignalArrives \/ DeadlinePasses)
  BY <1>3, MainKeepsPhases
<1>. QED BY <1>1, <1>2, <1>3 DEF Next

\* And throughout.
LEMMA PhasesHold == Spec => []GInv
BY PhasesAtFirst, PhasesAreInductive, PTL DEF Spec
-----------------------------------------------------------------------------
\* The baselines are read from a quiet process in which every worker has been
\* through the cipher path once or given up (main.py:720-732).
THEOREM BaselineStaysQuiet == Spec => []BaselineIsQuiet
<1>1. GInv => BaselineIsQuiet
  <2>. SUFFICES ASSUME GInv, mainPc = "baseline", NEW w \in Workers
                PROVE  /\ it[w] = 0
                       /\ mode[w] = "none"
                       /\ pc[w] \in {"warmupWait", "releaseWait"}
                       /\ failed[w] <=> res[w] # "ok"
    BY DEF BaselineIsQuiet
  <2>1. Waits(w) /\ w \in arrived["warmup"]
    BY DEF GInv, GateFits, Open
  <2>2. it[w] = 0 /\ pc[w] \in {"warmupWait", "releaseWait"}
    BY <2>1 DEF Waits
  <2>3. mode[w] = "none"
    BY <2>2 DEF GInv, IInv, ModeFits, ModeOf, Inside, Writing
  <2>4. failed[w] <=> res[w] # "ok"
    BY <2>2 DEF GInv, IInv, FailureKept, RecordsFit, RecordFits
  <2>. QED BY <2>2, <2>3, <2>4
<1>. QED BY <1>1, PhasesHold, PTL

\* The elapsed time of the summary runs to the last return, whenever that comes
\* (state.py:182-184, main.py:742-757).
THEOREM ElapsedHolds == Spec => []ElapsedToLastReturn
<1>1. GInv => ElapsedToLastReturn
  <2>. SUFFICES ASSUME GInv, mainPc \in {"summary", "exited"}
                PROVE  finish = "last return"
    BY DEF ElapsedToLastReturn
  <2>1. Out = {}
    BY DEF GInv, IInv, AllBack, Out
  <2>2. active = 0
    BY <2>1, FS_EmptySet DEF GInv, IInv, CountedOut
  <2>. QED BY <2>2 DEF GInv, LastStamps
<1>. QED BY <1>1, PhasesHold, PTL
-----------------------------------------------------------------------------
(***************************************************************************)
(* The Pipelines: what the write side of the lock and the order load,      *)
(* free, swap keep of the handles and of the blobs.                        *)
(*                                                                         *)
(* The invariant adds where the open handles are in the middle of a reopen *)
(* (OpenKnown), and that a worker whose call failed does nothing but       *)
(* unwind (FailedUnwinds).  A failed rotation is the only thing that may   *)
(* set a blob and its Pipeline apart, it does so on one surface, and its   *)
(* worker rotates no more (BlobsFit counts them).                          *)
(***************************************************************************)

Pipes == {pipe[s] : s \in SurfaceSet}
Swapping == {w \in Workers : pc[w] = "swap"}

\* What a worker does once its call has failed.
Unwinding == {"unlock", "unlockWrite", "recordEscape", "warmup", "warmupWait",
              "releaseWait", "returning", "returned"}

FailedUnwinds == \A w \in Workers :
    /\ res[w] # "ok" => pc[w] \in Unwinding
    /\ pc[w] = "rekey" => job[w] = "rekey"

PipesApart == \A s, t \in SurfaceSet : pipe[s] = pipe[t] => s = t

\* The handle loaded is nobody's yet and carries the retained blob's keying.
FreshFits ==
    \A w \in Workers : pc[w] \in {"free", "swap"} =>
        /\ fresh[w] \in DOMAIN keying
        /\ fresh[w] \notin Pipes
        /\ keying[fresh[w]] = blob[Head(todo[w])]

\* Between the free and the swap the Pipeline's own handle is closed.
Gone == {pipe[Head(todo[w])] : w \in Swapping}
OpenKnown ==
    mainPc # "exited" => DOMAIN keying = (Pipes \ Gone) \union Loaded

\* The surfaces that are open and apart from their blob: no more of them than
\* rotations that failed.
Parted == {s \in SurfaceSet : pipe[s] \in DOMAIN keying /\ blob[s] # keying[pipe[s]]}
BlobsFit ==
    mainPc # "exited" => Cardinality(Parted) <= Cardinality(FailedRotations)

ExitFits == mainPc = "exited" <=> exit \in {"pass", "fail"}

PInv ==
    /\ IInv
    /\ FailedUnwinds /\ PipesApart /\ FreshFits /\ OpenKnown /\ BlobsFit
    /\ ExitFits /\ MismatchKeepsEvidence
-----------------------------------------------------------------------------
\* While a worker writes no other worker is inside the lock.
LEMMA OneInside ==
    ASSUME IInv, NEW w \in Workers, pc[w] \in Writing, NEW x \in Workers, x # w
    PROVE  pc[x] \notin Inside \union Writing
BY DEF IInv, ModeFits, ModeOf, Alone, Inside, Writing

\* A worker whose call has failed unwinds to its return.
LEMMA StaysUnwinding ==
    ASSUME TypeOK, FailedUnwinds, NEW w \in Workers, WorkerStep(w)
    PROVE  FailedUnwinds'
<1>. DEFINE Fine(x) == /\ res[x] # "ok" => pc[x] \in Unwinding
                       /\ pc[x] = "rekey" => job[x] = "rekey"
<1>1. SUFFICES Fine(w)'
  BY OthersUnmoved DEF FailedUnwinds
<1>2. Fine(w)
  BY DEF FailedUnwinds
<1>. USE <1>2 DEF TypeOK, At, GoTo, Unwinding, WorkerLabels
<1>3. CASE BeginIteration(w) \/ EnterRead(w)
  BY <1>3 DEF BeginIteration, EnterRead
<1>4. CASE Encrypt(w)
  BY <1>4 DEF Encrypt
<1>5. CASE RoundTrip(w) \/ DecryptRaises(w)
  BY <1>5 DEF RoundTrip, DecryptRaises
<1>6. CASE Mismatch(w)
  BY <1>6 DEF Mismatch, workVars, careVars
<1>7. CASE LeaveRead(w) \/ RecordEscape(w)
  BY <1>7 DEF LeaveRead, RecordEscape, AfterOperation, careVars, Results
<1>8. CASE Maintain(w)
  BY <1>8 DEF Maintain
<1>9. CASE AfterRekey(w)
  BY <1>9 DEF AfterRekey
<1>10. CASE EnterWrite(w)
  BY <1>10 DEF EnterWrite, careVars
<1>11. CASE RekeyPipe(w)
  BY <1>11 DEF RekeyPipe, NextSurface
<1>12. CASE RekeyRaises(w) \/ LoadRaises(w)
  BY <1>12 DEF RekeyRaises, LoadRaises
<1>13. CASE LoadPipe(w) \/ FreeOld(w)
  BY <1>13 DEF LoadPipe, FreeOld
<1>14. CASE SwapIn(w)
  BY <1>14 DEF SwapIn, NextSurface
<1>15. CASE LeaveWrite(w)
  BY <1>15 DEF LeaveWrite, AfterMaintenance, AfterOperation, Results
<1>16. CASE LoopStep(w)
  BY <1>16 DEF LoopStep, ArriveWarmup, ArriveRelease, PassRelease, LoopHead,
               Return, careVars
<1>. QED BY <1>3, <1>4, <1>5, <1>6, <1>7, <1>8, <1>9, <1>10, <1>11, <1>12,
            <1>13, <1>14, <1>15, <1>16 DEF WorkerStep, IterationStep, MaintenanceStep

\* There are two surfaces at the most, and finitely many workers.
LEMMA FinitelyMany ==
    ASSUME TypeOK
    PROVE  /\ \A S \in SUBSET SurfaceSet : IsFiniteSet(S)
           /\ \A S \in SUBSET Workers : IsFiniteSet(S)
<1>1. SurfaceSet \subseteq {"stream", "message"}
  BY DEF SurfaceSet, Surfaces
<1>2. IsFiniteSet({"stream", "message"})
  <2>1. IsFiniteSet({"stream"})
    <3>1. {"stream"} = {} \union {"stream"}
      OBVIOUS
    <3>. QED BY <3>1, FS_EmptySet, FS_AddElement
  <2>2. {"stream", "message"} = {"stream"} \union {"message"}
    OBVIOUS
  <2>. QED BY <2>1, <2>2, FS_AddElement
<1>3. IsFiniteSet(Workers)
  BY HarnessAssumption
<1>. QED BY <1>1, <1>2, <1>3, FS_Subset

\* Fewer surfaces apart, or more rotations failed, keep the count.
LEMMA CountKept ==
    ASSUME TypeOK, TypeOK', BlobsFit, mainPc # "exited",
           Parted' \subseteq Parted, FailedRotations \subseteq FailedRotations'
    PROVE  BlobsFit'
<1>1. /\ IsFiniteSet(Parted) /\ IsFiniteSet(FailedRotations')
  BY FinitelyMany DEF Parted, FailedRotations
<1>2. /\ Cardinality(Parted') <= Cardinality(Parted)
      /\ Cardinality(FailedRotations) <= Cardinality(FailedRotations')
      /\ IsFiniteSet(Parted') /\ IsFiniteSet(FailedRotations)
  BY <1>1, FS_Subset
<1>3. /\ Cardinality(Parted) \in Nat /\ Cardinality(Parted') \in Nat
      /\ Cardinality(FailedRotations) \in Nat
      /\ Cardinality(FailedRotations') \in Nat
  BY <1>1, <1>2, FS_CardinalityType
<1>. QED BY <1>2, <1>3 DEF BlobsFit

\* A rotation that failed is not made up for.
LEMMA FailedRotationStays ==
    ASSUME TypeOK, FailedUnwinds, NEW w \in Workers, WorkerStep(w)
    PROVE  FailedRotations \subseteq FailedRotations'
<1>1. SUFFICES ASSUME res[w] # "ok" PROVE res'[w] = res[w] /\ job'[w] = job[w]
  BY OthersUnmoved DEF FailedRotations
<1>2. pc[w] \in Unwinding
  BY <1>1 DEF FailedUnwinds
<1>3. \/ LeaveRead(w) \/ LeaveWrite(w) \/ RecordEscape(w) \/ LoopStep(w)
  BY <1>2 DEF Unwinding, WorkerStep, IterationStep, MaintenanceStep, At,
              BeginIteration, EnterRead, Encrypt, RoundTrip, DecryptRaises,
              Mismatch, Maintain, AfterRekey, EnterWrite, RekeyPipe,
              RekeyRaises, LoadPipe, LoadRaises, FreeOld, SwapIn
<1>. QED BY <1>1, <1>3 DEF LeaveRead, LeaveWrite, RecordEscape, LoopStep,
                           ArriveWarmup, ArriveRelease, PassRelease, LoopHead,
                           Return, careVars

\* Which workers are at the swap changes only by a free or a swap, and the
\* Pipelines, blobs and keyings only by five steps.
Reaches(w) == RekeyPipe(w) \/ RekeyRaises(w) \/ LoadPipe(w) \/ FreeOld(w) \/ SwapIn(w)

LEMMA QuietStep ==
    ASSUME TypeOK, NEW w \in Workers, WorkerStep(w), ~Reaches(w)
    PROVE  /\ UNCHANGED <<pipe, blob, keying, fresh>>
           /\ pc[w] \notin {"free", "swap"} /\ pc'[w] \notin {"free", "swap"}
<1>. USE DEF TypeOK, At, GoTo, careVars, pipeVars
<1>1. CASE IterationStep(w)
  BY <1>1 DEF IterationStep, BeginIteration, EnterRead, Encrypt, RoundTrip,
              DecryptRaises, Mismatch, LeaveRead, RecordEscape, AfterOperation,
              workVars
<1>2. CASE MaintenanceStep(w)
  BY <1>2 DEF Reaches, MaintenanceStep, Maintain, AfterRekey, EnterWrite,
              LoadRaises, LeaveWrite, AfterMaintenance, AfterOperation
<1>3. CASE LoopStep(w)
  BY <1>3
     DEF LoopStep, ArriveWarmup, ArriveRelease, PassRelease, LoopHead, Return
<1>. QED BY <1>1, <1>2, <1>3 DEF WorkerStep

\* Only one worker has a handle loaded or is between the free and the swap.
LEMMA OneReaches ==
    ASSUME IInv, NEW w \in Workers, pc[w] \in Writing
    PROVE  /\ \A x \in Workers \ {w} : pc[x] \notin {"free", "swap"}
           /\ Loaded = {fresh[w]} \ {None}
           /\ Gone = IF pc[w] = "swap" THEN {pipe[Head(todo[w])]} ELSE {}
<1>1. \A x \in Workers \ {w} : pc[x] \notin {"free", "swap"} /\ fresh[x] = None
  BY OneInside DEF IInv, Equipped, Writing
<1>2. Loaded = {fresh[w]} \ {None}
  BY <1>1 DEF Loaded
<1>3. Swapping = IF pc[w] = "swap" THEN {w} ELSE {}
  BY <1>1 DEF Swapping
<1>4. Gone = IF pc[w] = "swap" THEN {pipe[Head(todo[w])]} ELSE {}
  BY <1>3 DEF Gone
<1>. QED BY <1>1, <1>2, <1>4

\* The five steps that reach the Pipelines keep the handles accounted for, and
\* the blobs in step with them unless a rotation fails.
LEMMA ReachStep ==
    ASSUME PInv, Running, NEW w \in Workers, WorkerStep(w), Reaches(w)
    PROVE  PipesApart' /\ FreshFits' /\ OpenKnown' /\ BlobsFit'
<1>. DEFINE s == Head(todo[w])
<1>0. /\ TypeOK /\ IInv /\ IInv' /\ Equipped
      /\ PipesApart /\ FreshFits /\ OpenKnown /\ BlobsFit
      /\ mainPc # "exited"
  BY WorkersPreserve DEF PInv, IInv, ExitFits, Running
<1>1. pc[w] \in Writing
  BY DEF Reaches, RekeyPipe, RekeyRaises, LoadPipe, FreeOld, SwapIn, At, Writing
<1>2. /\ \A x \in Workers \ {w} : pc[x] \notin {"free", "swap"}
      /\ Loaded = {fresh[w]} \ {None}
      /\ Gone = IF pc[w] = "swap" THEN {pipe[s]} ELSE {}
  BY <1>0, <1>1, OneReaches
<1>3. todo[w] # <<>> => s \in SurfaceSet
  <2>1. todo[w] \in Seq(SurfaceSet)
    BY <1>0 DEF TypeOK
  <2>. QED BY <2>1, HeadTailProperties
<1>4. /\ pc[w] = "rekey" \/ pc[w] = "load" \/ pc[w] = "free" \/ pc[w] = "swap"
      /\ s \in SurfaceSet
  BY <1>0, <1>3 DEF Reaches, RekeyPipe, RekeyRaises, LoadPipe, FreeOld, SwapIn,
     At, Equipped
<1>5. /\ pc[w] \in {"free", "swap"} <=> fresh[w] # None
      /\ DOMAIN keying = (Pipes \ Gone) \union Loaded
      /\ pipe \in [SurfaceSet -> Handles] /\ blob \in [SurfaceSet -> Keys]
      /\ pc \in [Workers -> WorkerLabels] /\ fresh \in [Workers -> Handles \union {None}]
  BY <1>0 DEF Equipped, OpenKnown, TypeOK
<1>6. pc'[w] \in Writing
  BY <1>5 DEF Reaches, RekeyPipe, RekeyRaises, LoadPipe, FreeOld, SwapIn,
              NextSurface, GoTo, Writing
<1>7. /\ \A x \in Workers \ {w} : pc'[x] \notin {"free", "swap"}
      /\ Loaded' = {fresh'[w]} \ {None}
      /\ Gone' = IF pc'[w] = "swap" THEN {pipe'[Head(todo'[w])]} ELSE {}
  <2>1. \A x \in Workers \ {w} : pc'[x] \notin {"free", "swap"} /\ fresh'[x] = None
    BY <1>0, <1>2, OthersUnmoved DEF Equipped
  <2>2. Loaded' = {fresh'[w]} \ {None}
    BY <2>1 DEF Loaded
  <2>3. Swapping' = IF pc'[w] = "swap" THEN {w} ELSE {}
    BY <2>1 DEF Swapping
  <2>. QED BY <2>1, <2>2, <2>3 DEF Gone
<1>8. ASSUME Parted' \subseteq Parted PROVE BlobsFit'
  BY <1>0, <1>8, FailedRotationStays, CountKept DEF PInv, IInv
<1>. HIDE DEF s
<1>9. CASE RekeyPipe(w)
  <2>1. /\ pc[w] = "rekey" /\ pc'[w] \notin {"free", "swap"}
        /\ UNCHANGED <<pipe, fresh>>
        /\ pipe[s] \in DOMAIN keying
        /\ keying' = [keying EXCEPT ![pipe[s]] = masters[w]]
        /\ blob' = [blob EXCEPT ![s] = masters[w]]
    BY <1>5, <1>9 DEF RekeyPipe, NextSurface, At, GoTo, s
  <2>2. PipesApart' /\ FreshFits' /\ Pipes' = Pipes
    BY <1>0, <1>7, <2>1 DEF PipesApart, FreshFits, Pipes
  <2>3. OpenKnown'
    BY <1>2, <1>5, <1>7, <2>1, <2>2 DEF OpenKnown
  <2>4. BlobsFit'
    <3>1. SUFFICES ASSUME NEW t \in SurfaceSet, pipe[t] \in DOMAIN keying,
                          blob'[t] # keying'[pipe[t]]
                   PROVE  blob[t] # keying[pipe[t]]
      BY <1>8, <2>1 DEF Parted
    <3>2. t # s
      BY <1>4, <1>5, <2>1, <3>1
    <3>3. pipe[t] # pipe[s]
      BY <1>0, <1>4, <3>2 DEF PipesApart
    <3>. QED BY <1>5, <2>1, <3>1, <3>2, <3>3
  <2>. QED BY <2>2, <2>3, <2>4
<1>10. CASE RekeyRaises(w)
  <2>1. /\ pc[w] = "rekey" /\ pc'[w] \notin {"free", "swap"}
        /\ UNCHANGED <<pipe, fresh, blob>>
        /\ DOMAIN keying' = DOMAIN keying
        /\ \A h \in DOMAIN keying : h # pipe[s] => keying'[h] = keying[h]
        /\ res[w] = "ok" /\ res'[w] # "ok" /\ job'[w] = "rekey"
    BY <1>0, <1>5, <1>10 DEF RekeyRaises, Raise, At, GoTo, careVars, PInv,
                             FailedUnwinds, Unwinding, TypeOK, s
  <2>2. PipesApart' /\ FreshFits' /\ Pipes' = Pipes
    BY <1>0, <1>7, <2>1 DEF PipesApart, FreshFits, Pipes
  <2>3. OpenKnown'
    BY <1>2, <1>5, <1>7, <2>1, <2>2 DEF OpenKnown
  <2>4. Parted' \subseteq Parted \union {s}
    BY <1>0, <1>4, <2>1 DEF Parted, PipesApart
  <2>5. w \notin FailedRotations /\ FailedRotations \union {w} \subseteq FailedRotations'
    BY <1>0, <2>1, FailedRotationStays DEF FailedRotations, PInv
  <2>6. /\ IsFiniteSet(Parted) /\ IsFiniteSet(FailedRotations)
        /\ IsFiniteSet(FailedRotations')
    BY <1>0, FinitelyMany DEF Parted, FailedRotations, IInv
  <2>7. /\ Cardinality(Parted \union {s}) <= Cardinality(Parted) + 1
        /\ IsFiniteSet(Parted \union {s}) /\ Cardinality(Parted) \in Nat
        /\ Cardinality(Parted \union {s}) \in Nat
    <3>1. Cardinality(Parted) \in Nat
      BY <2>6, FS_CardinalityType
    <3>2. /\ IsFiniteSet(Parted \union {s})
          /\ Cardinality(Parted \union {s}) = IF s \in Parted THEN Cardinality(Parted)
                                              ELSE Cardinality(Parted) + 1
      BY <2>6, FS_AddElement
    <3>. QED BY <3>1, <3>2
  <2>8. Cardinality(Parted') <= Cardinality(Parted \union {s})
        /\ IsFiniteSet(Parted')
    BY <2>4, <2>7, FS_Subset
  <2>9. Cardinality(FailedRotations \union {w}) = Cardinality(FailedRotations) + 1
    BY <2>5, <2>6, FS_AddElement
  <2>10. Cardinality(FailedRotations \union {w}) <= Cardinality(FailedRotations')
    BY <2>5, <2>6, FS_Subset
  <2>11. /\ Cardinality(Parted') \in Nat /\ Cardinality(FailedRotations) \in Nat
         /\ Cardinality(FailedRotations') \in Nat
    BY <2>6, <2>8, FS_CardinalityType
  <2>12. Cardinality(Parted) <= Cardinality(FailedRotations)
    BY <1>0 DEF BlobsFit
  <2>13. BlobsFit'
    BY <2>7, <2>8, <2>9, <2>10, <2>11, <2>12 DEF BlobsFit
  <2>. QED BY <2>2, <2>3, <2>13
<1>11. CASE LoadPipe(w)
  <2>. DEFINE h == AnyOf(UnusedHandles)
  <2>1. /\ pc[w] = "load" /\ pc'[w] = "free" /\ UNCHANGED <<pipe, blob, todo>>
        /\ keying' = [x \in DOMAIN keying \union {h} |->
                         IF x = h THEN blob[s] ELSE keying[x]]
        /\ fresh' = [fresh EXCEPT ![w] = h]
    BY <1>5, <1>11 DEF LoadPipe, At, GoTo, s
  <2>2. h \notin DOMAIN keying /\ h # None
    <3>1. h \in UnusedHandles
      BY <1>11, AnyOfIsIn DEF LoadPipe
    <3>. QED BY <3>1, HarnessAssumption DEF UnusedHandles, InUse
  <2>. HIDE DEF h
  <2>3. Gone = {} /\ Loaded = {} /\ fresh'[w] = h /\ Loaded' = {h} /\ Gone' = {}
    BY <1>2, <1>5, <1>7, <2>1, <2>2
  <2>4. DOMAIN keying = Pipes /\ Pipes' = Pipes /\ DOMAIN keying' = DOMAIN keying \union {h}
    BY <1>5, <2>1, <2>3 DEF Pipes
  <2>5. PipesApart' /\ OpenKnown'
    BY <1>0, <2>1, <2>3, <2>4 DEF PipesApart, OpenKnown
  <2>6. FreshFits'
    BY <1>7, <2>1, <2>2, <2>3, <2>4 DEF FreshFits, s
  <2>7. BlobsFit'
    <3>1. \A t \in SurfaceSet : pipe[t] \in DOMAIN keying /\ pipe[t] # h
      BY <2>2, <2>4 DEF Pipes
    <3>2. Parted' \subseteq Parted
      BY <2>1, <3>1 DEF Parted
    <3>. QED BY <1>8, <3>2
  <2>. QED BY <2>5, <2>6, <2>7
<1>12. CASE FreeOld(w)
  <2>1. /\ pc[w] = "free" /\ pc'[w] = "swap" /\ UNCHANGED <<pipe, blob, todo, fresh>>
        /\ keying' = [x \in DOMAIN keying \ {pipe[s]} |-> keying[x]]
    BY <1>5, <1>12 DEF FreeOld, Close, At, GoTo, careVars, s
  <2>2. /\ fresh[w] \in DOMAIN keying /\ fresh[w] \notin Pipes /\ fresh[w] # None
        /\ keying[fresh[w]] = blob[s] /\ pipe[s] \in Pipes
    BY <1>0, <1>4, <1>5, <2>1 DEF FreshFits, s, Pipes
  <2>3. Gone = {} /\ Loaded = {fresh[w]} /\ Loaded' = {fresh[w]} /\ Gone' = {pipe[s]}
        /\ Pipes' = Pipes
    BY <1>2, <1>7, <2>1, <2>2 DEF s, Pipes
  <2>4. PipesApart' /\ OpenKnown'
    BY <1>0, <1>5, <2>1, <2>2, <2>3 DEF PipesApart, OpenKnown
  <2>5. FreshFits'
    BY <1>7, <2>1, <2>2, <2>3 DEF FreshFits, s
  <2>6. Parted' \subseteq Parted
    BY <2>1 DEF Parted
  <2>. QED BY <1>8, <2>4, <2>5, <2>6
<1>13. CASE SwapIn(w)
  <2>1. /\ pc[w] = "swap" /\ pc'[w] \notin {"free", "swap"} /\ UNCHANGED <<blob, keying>>
        /\ pipe' = [pipe EXCEPT ![s] = fresh[w]]
        /\ fresh' = [fresh EXCEPT ![w] = None]
    BY <1>5, <1>13 DEF SwapIn, NextSurface, At, GoTo, s
  <2>2. /\ fresh[w] \in DOMAIN keying /\ fresh[w] \notin Pipes /\ fresh[w] # None
        /\ keying[fresh[w]] = blob[s]
    BY <1>0, <1>5, <2>1 DEF FreshFits, s
  <2>3. Gone = {pipe[s]} /\ Loaded = {fresh[w]} /\ Loaded' = {} /\ Gone' = {}
    BY <1>2, <1>5, <1>7, <2>1, <2>2
  <2>4. pipe'[s] = fresh[w] /\ \A t \in SurfaceSet : t # s => pipe'[t] = pipe[t]
    BY <1>4, <1>5, <2>1
  <2>5. PipesApart'
    BY <1>0, <2>2, <2>4 DEF PipesApart, Pipes
  <2>6. Pipes' = (Pipes \ {pipe[s]}) \union {fresh[w]}
    <3>1. \A t \in SurfaceSet : t # s => pipe[t] # pipe[s]
      BY <1>0, <1>4 DEF PipesApart
    <3>. QED BY <1>4, <2>4, <3>1 DEF Pipes
  <2>7. OpenKnown'
    BY <1>5, <2>1, <2>3, <2>6 DEF OpenKnown
  <2>8. FreshFits'
    BY <1>7, <2>1 DEF FreshFits
  <2>9. Parted' \subseteq Parted
    BY <2>1, <2>2, <2>4 DEF Parted
  <2>. QED BY <1>8, <2>5, <2>7, <2>8, <2>9
<1>. QED BY <1>9, <1>10, <1>11, <1>12, <1>13 DEF Reaches

\* What a worker's step does to the exit code and to main: nothing, but for the
\* exit of a mismatch, which a reader makes.
LEMMA WorkerLeavesMain ==
    ASSUME NEW w \in Workers, WorkerStep(w)
    PROVE  /\ mainPc' = mainPc
           /\ exit' = exit \/ (Mismatch(w) /\ exit' = "mismatch" /\ pc[w] = "decrypt")
<1>1. CASE IterationStep(w)
  BY <1>1 DEF IterationStep, BeginIteration, EnterRead, Encrypt, RoundTrip,
              DecryptRaises, Mismatch, LeaveRead, RecordEscape, mainVars, At
<1>2. CASE MaintenanceStep(w)
  BY <1>2 DEF MaintenanceStep, Maintain, AfterRekey, EnterWrite, RekeyPipe,
              RekeyRaises, LoadPipe, LoadRaises, FreeOld, SwapIn, LeaveWrite,
              mainVars
<1>3. CASE LoopStep(w)
  BY <1>3 DEF LoopStep, ArriveWarmup, ArriveRelease, PassRelease, LoopHead,
              Return, mainVars
<1>. QED BY <1>1, <1>2, <1>3 DEF WorkerStep

\* Every step of a worker keeps the invariant.
LEMMA WorkersKeepPipes ==
    ASSUME PInv, Running, NEW w \in Workers, WorkerStep(w)
    PROVE  PInv'
<1>0. /\ IInv /\ TypeOK /\ FailedUnwinds /\ mainPc # "exited" /\ IInv'
      /\ PipesApart /\ FreshFits /\ OpenKnown /\ BlobsFit
  BY WorkersPreserve DEF PInv, IInv, ExitFits, Running
<1>1. FailedUnwinds'
  BY <1>0, StaysUnwinding
<1>2. PipesApart' /\ FreshFits' /\ OpenKnown' /\ BlobsFit'
  <2>1. CASE Reaches(w)
    BY <2>1, ReachStep
  <2>2. CASE ~Reaches(w)
    <3>1. /\ UNCHANGED <<pipe, blob, keying, fresh>>
          /\ pc[w] \notin {"free", "swap"} /\ pc'[w] \notin {"free", "swap"}
      BY <1>0, <2>2, QuietStep
    <3>2. \A x \in Workers : /\ pc'[x] \in {"free", "swap"} => pc'[x] = pc[x] /\ todo'[x] = todo[x]
                             /\ pc[x] \in {"free", "swap"} => pc'[x] = pc[x] /\ todo'[x] = todo[x]
      BY <1>0, <3>1, OthersUnmoved
    <3>3. PipesApart' /\ FreshFits' /\ Pipes' = Pipes /\ Loaded' = Loaded
      BY <1>0, <3>1, <3>2 DEF PipesApart, FreshFits, Pipes, Loaded
    <3>4. Gone' = Gone
      <4>1. Swapping' = Swapping /\ \A x \in Swapping : todo'[x] = todo[x]
        BY <3>2 DEF Swapping
      <4>. QED BY <3>1, <4>1 DEF Gone
    <3>5. OpenKnown'
      BY <1>0, <3>1, <3>3, <3>4 DEF OpenKnown
    <3>6. BlobsFit'
      <4>1. Parted' \subseteq Parted
        BY <3>1 DEF Parted
      <4>. QED BY <1>0, <4>1, FailedRotationStays, CountKept DEF IInv
    <3>. QED BY <3>3, <3>5, <3>6
  <2>. QED BY <2>1, <2>2
<1>3. ExitFits' /\ MismatchKeepsEvidence'
  <2>1. CASE UNCHANGED exit
    BY <1>0, <2>1, WorkerLeavesMain DEF PInv, ExitFits, Running,
       MismatchKeepsEvidence
  <2>2. CASE Mismatch(w) /\ exit' = "mismatch" /\ pc[w] = "decrypt"
    <3>1. mainPc \notin {"summary", "exited"}
      BY <1>0, <2>2 DEF IInv, AllBack
    <3>2. Swapping = {}
      <4>1. \A x \in Workers : pc[x] \notin Writing
        BY <1>0, <2>2, OneInside DEF Writing, Inside
      <4>. QED BY <4>1 DEF Swapping, Writing
    <3>3. \A s \in SurfaceSet : pipe[s] \in DOMAIN keying
      BY <1>0, <3>2 DEF OpenKnown, Gone, Pipes
    <3>4. UNCHANGED <<pipe, keying, mainPc>>
      BY <2>2 DEF Mismatch, pipeVars
    <3>. QED BY <2>2, <3>1, <3>3, <3>4 DEF ExitFits, MismatchKeepsEvidence
  <2>. QED BY <2>1, <2>2, WorkerLeavesMain
<1>. QED BY <1>0, <1>1, <1>2, <1>3 DEF PInv

\* Every step of main, the signal and the clock keeps it: until the Pipelines
\* are freed, main reaches none of them.
LEMMA MainKeepsPipes ==
    ASSUME PInv, Running, MainStep \/ SignalArrives \/ DeadlinePasses
    PROVE  PInv'
<1>0. IInv /\ TypeOK /\ mainPc # "exited" /\ IInv' /\ PipesApart
  BY OthersPreserve DEF PInv, IInv, ExitFits, Running
<1>1. UNCHANGED <<careVars, res, pipe, blob>>
  BY DEF MainStep, StartWorker, MainArrivesWarmup, TakeBaselines, StartClock,
         PassGate, Poll, Summarise, Finish, SignalArrives, DeadlinePasses,
         careVars, workVars, pipeVars
<1>2. \A w \in Workers : pc'[w] = pc[w] \/ (pc[w] = "new" /\ pc'[w] = "iterate")
  BY <1>0
     DEF MainStep, StartWorker, MainArrivesWarmup, TakeBaselines, StartClock,
         PassGate, Poll, Summarise, Finish, SignalArrives, DeadlinePasses,
         workVars, At, GoTo, TypeOK
<1>3. \A w \in Workers : pc'[w] \in {"free", "swap", "rekey"} <=> pc[w] \in {"free", "swap", "rekey"}
  BY <1>2
<1>4. FailedUnwinds' /\ PipesApart'
  BY <1>0, <1>1, <1>2 DEF PInv, FailedUnwinds, PipesApart, Unwinding, careVars
<1>5. Pipes' = Pipes /\ Loaded' = Loaded /\ Gone' = Gone
  <2>1. Swapping' = Swapping
    BY <1>2 DEF Swapping
  <2>. QED BY <1>1, <2>1 DEF Pipes, Loaded, Gone, careVars
<1>6. CASE Finish
  <2>1. mainPc' = "exited" /\ exit' \in {"pass", "fail"}
    BY <1>6 DEF Finish, MainGoTo
  <2>2. \A w \in Workers : pc'[w] = "returned"
    BY <1>2, <1>6 DEF Finish, MainGoTo, PInv, IInv, AllBack
  <2>. QED BY <1>0, <1>4, <2>1, <2>2
       DEF PInv, FreshFits, OpenKnown, BlobsFit, ExitFits, MismatchKeepsEvidence
<1>7. CASE ~Finish
  <2>1. UNCHANGED <<keying, exit>> /\ mainPc' # "exited"
    BY <1>0, <1>7 DEF MainStep, StartWorker, MainArrivesWarmup, TakeBaselines,
                      StartClock, PassGate, Poll, Summarise, SignalArrives,
                      DeadlinePasses, pipeVars, mainVars, MainGoTo
  <2>2. FreshFits'
    BY <1>1, <1>2, <1>5, <2>1 DEF PInv, FreshFits, careVars
  <2>3. OpenKnown'
    BY <1>0, <1>5, <2>1 DEF PInv, OpenKnown
  <2>4. BlobsFit'
    <3>1. Parted' = Parted /\ FailedRotations' = FailedRotations
      BY <1>1, <2>1 DEF Parted, FailedRotations, careVars
    <3>. QED BY <1>0, <3>1 DEF PInv, BlobsFit
  <2>5. ExitFits' /\ MismatchKeepsEvidence'
    BY <1>0, <2>1 DEF Running, ExitFits, MismatchKeepsEvidence
  <2>. QED BY <1>0, <1>4, <2>2, <2>3, <2>4, <2>5 DEF PInv
<1>. QED BY <1>6, <1>7

\* It holds when run has opened the Pipelines.
LEMMA PipesAtFirst == Init => PInv
<1>. SUFFICES ASSUME Init PROVE PInv
  OBVIOUS
<1>. DEFINE Distinct == {f \in [SurfaceSet -> Handles] :
                            \A s, t \in SurfaceSet : f[s] = f[t] => s = t}
            k == AnyOf(Keys)
            hs == AnyOf(Distinct)
<1>1. hs \in Distinct
  <2>1. Distinct # {}
    BY PoolAssumption
  <2>. QED BY <2>1, AnyOfIsIn
<1>2. /\ pipe = hs /\ blob = [s \in SurfaceSet |-> k]
      /\ keying = [h \in {hs[s] : s \in SurfaceSet} |-> k]
  BY DEF Init
<1>. HIDE DEF k, hs
<1>3. PipesApart
  BY <1>1, <1>2 DEF PipesApart
<1>4. \A w \in Workers : pc[w] = "new" /\ res[w] = "ok" /\ fresh[w] = None
  BY DEF Init
<1>5. Gone = {} /\ Loaded = {}
  BY <1>4 DEF Gone, Swapping, Loaded
<1>6. FailedUnwinds /\ FreshFits /\ OpenKnown
  BY <1>2, <1>4, <1>5 DEF FailedUnwinds, FreshFits, OpenKnown, Pipes
<1>7. BlobsFit
  <2>1. Parted = {} /\ FailedRotations = {}
    BY <1>1, <1>2, <1>4 DEF Parted, FailedRotations
  <2>. QED BY <2>1, FS_EmptySet DEF BlobsFit
<1>8. ExitFits /\ MismatchKeepsEvidence
  BY DEF Init, ExitFits, MismatchKeepsEvidence
<1>. QED BY <1>3, <1>6, <1>7, <1>8, InvariantHoldsAtFirst DEF PInv

\* And throughout.
LEMMA PipesHold == Spec => []PInv
<1>1. PInv /\ [Next]_vars => PInv'
  <2>. SUFFICES ASSUME PInv, [Next]_vars PROVE PInv'
    OBVIOUS
  <2>1. CASE UNCHANGED vars
    <3>1. IInv'
      BY <2>1, InvariantIsInductive DEF PInv
    <3>. QED BY <2>1, <3>1 DEF vars, lockVars, workVars, careVars, pipeVars,
                               mainVars, PInv, FailedUnwinds, PipesApart,
                               FreshFits, OpenKnown, Gone, Swapping, Loaded,
                               Pipes, BlobsFit, Parted, FailedRotations, ExitFits,
                               MismatchKeepsEvidence
  <2>2. CASE Running /\ \E w \in Workers : WorkerStep(w)
    BY <2>2, WorkersKeepPipes
  <2>3. CASE Running /\ (MainStep \/ SignalArrives \/ DeadlinePasses)
    BY <2>3, MainKeepsPipes
  <2>. QED BY <2>1, <2>2, <2>3 DEF Next
<1>. QED BY <1>1, PipesAtFirst, PTL DEF Spec
-----------------------------------------------------------------------------
\* However many reopens run and fail, in any shape, no handle is leaked and none
\* in use is closed (ops.py:72-96).
THEOREM HandlesStayAccounted == Spec => []HandlesAccounted
<1>1. PInv => HandlesAccounted
  <2>. SUFFICES ASSUME PInv, \A w \in Workers : pc[w] # "swap", mainPc # "exited"
                PROVE  /\ DOMAIN keying = Pipes \union Loaded
                       /\ PipesApart
                       /\ \A s \in SurfaceSet : pipe[s] \notin Loaded
    BY DEF HandlesAccounted, At, Pipes, PipesApart
  <2>1. Gone = {}
    BY DEF Gone, Swapping
  <2>2. \A w \in Workers : fresh[w] # None => fresh[w] \notin Pipes
    BY DEF PInv, IInv, Equipped, FreshFits
  <2>3. \A s \in SurfaceSet : pipe[s] \notin Loaded
    BY <2>2 DEF Loaded, Pipes
  <2>. QED BY <2>1, <2>3 DEF PInv, OpenKnown
<1>. QED BY <1>1, PipesHold, PTL

\* However rotations failed, and on whichever surface: no more surfaces are apart
\* from their blob than rotations failed, and none if none did, so that a reopen
\* changes no keying (state.py:163-166, ops.py:35-52).
THEOREM BlobsStayLive == Spec => []BlobIsLiveKeying
<1>1. PInv => BlobIsLiveKeying
  <2>. SUFFICES ASSUME PInv, Lock!Writers = {}, mainPc # "exited"
                PROVE  Cardinality(Apart) <= Cardinality(FailedRotations)
    BY DEF BlobIsLiveKeying
  <2>1. Gone = {}
    BY DEF Gone, Swapping, Lock!Writers, PInv, IInv, ModeFits, ModeOf, Writing,
       Inside
  <2>2. \A s \in SurfaceSet : pipe[s] \in DOMAIN keying
    BY <2>1 DEF PInv, OpenKnown, Pipes
  <2>3. Apart = Parted
    BY <2>2 DEF Apart, Parted
  <2>. QED BY <2>3 DEF PInv, BlobsFit
<1>. QED BY <1>1, PipesHold, PTL

\* Wrong bytes stop the process before anything is freed (worker.py:175-179).
THEOREM EvidenceIsKept == Spec => []MismatchKeepsEvidence
<1>1. PInv => MismatchKeepsEvidence
  BY DEF PInv
<1>. QED BY <1>1, PipesHold, PTL
-----------------------------------------------------------------------------
(***************************************************************************)
(* The budget of a run: what every worker has done when the run passes.    *)
(*                                                                         *)
(* Per worker, the iterations counted are those behind it, and the         *)
(* iteration number says which (BudgetFits).  Over all of them the         *)
(* rotations counted are the pairs of a worker and an iteration whose      *)
(* rotation is behind it (Rotations), a set that grows by one pair at each *)
(* count as long as no worker has failed, and is a product of two sets at  *)
(* the end; reopens likewise.                                              *)
(***************************************************************************)

Warming == {"new", "warmup", "warmupWait", "releaseWait"}
Looping == {"loop", "maintain", "afterRekey", "lockWrite"} \union Writing
Tripped == {"unlock", "warmup", "warmupWait", "releaseWait", "maintain", "afterRekey",
            "lockWrite"} \union Writing

\* A worker is at one of the two maintenances.
During(w, which) == job[w] = which /\ pc[w] \in {"lockWrite"} \union Writing

BudgetFits(w) ==
    /\ it[w] <= Iterations
    /\ pc[w] \in Warming => it[w] = 0
    /\ pc[w] \in Looping => it[w] >= 1
    /\ pc[w] \notin {"loop", "returning", "returned"} => it[w] < Iterations
    /\ res[w] = "ok" => iters[w] = it[w] + (IF pc[w] \in Tripped THEN 1 ELSE 0)
    /\ pc[w] \in {"lockWrite"} \union Writing => job[w] \in {"rekey", "cycle"}
    /\ pc[w] = "rekey" => job[w] = "rekey"
    /\ pc[w] \in {"load", "free", "swap"} => job[w] = "cycle"
    /\ During(w, "rekey") => Due(RekeyEvery, it[w])
    /\ During(w, "cycle") => Due(BlobCycleEvery, it[w])
    /\ (pc[w] \in {"returning", "returned"} /\ res[w] = "ok") =>
            it[w] = Iterations \/ stop

\* The iterations an interval calls for, and what is behind a worker of the one
\* it is on.
Dues(every) == {i \in 1..(Iterations - 1) : Due(every, i)}

Rotated(w) ==
    \/ pc[w] = "afterRekey"
    \/ job[w] = "rekey" /\ pc[w] = "unlockWrite"
    \/ During(w, "cycle")

Reopened(w) == job[w] = "cycle" /\ pc[w] = "unlockWrite"

HasRotated(w, i) == i < it[w] \/ (i = it[w] /\ Rotated(w))
HasReopened(w, i) == i < it[w] \/ (i = it[w] /\ Reopened(w))

Rotations == {p \in Workers \X Dues(RekeyEvery) : HasRotated(p[1], p[2])}
Reopens == {p \in Workers \X Dues(BlobCycleEvery) : HasReopened(p[1], p[2])}

AllWell == \A w \in Workers : res[w] = "ok"

\* Without a signal only a failure asks a run with a budget to stop.
StopFits == stop /\ ~signal => \E w \in Workers : failed[w]

BInv ==
    /\ GInv
    /\ \A w \in Workers : BudgetFits(w)
    /\ AllWell => rekeys = Cardinality(Rotations) /\ cycles = Cardinality(Reopens)
    /\ StopFits
    /\ exit = "pass" => mainPc = "exited"
-----------------------------------------------------------------------------
\* The iterations due are every-th ones, as many as the quotient says.
LEMMA DuesCount ==
    ASSUME NEW every \in Nat, Iterations > 0
    PROVE  /\ IsFiniteSet(Dues(every)) /\ Dues(every) \subseteq Nat
           /\ Cardinality(Workers) * Cardinality(Dues(every)) = Occurrences(every)
           /\ IsFiniteSet(Workers \X Dues(every))
           /\ Cardinality(Workers \X Dues(every)) = Occurrences(every)
<1>1. Iterations - 1 \in Nat /\ IsFiniteSet(Workers) /\ Cardinality(Workers) \in Nat
  BY HarnessAssumption, FS_CardinalityType
<1>2. CASE every = 0
  <2>1. Dues(every) = {}
    BY <1>2 DEF Dues, Due
  <2>2. Cardinality(Workers) * 0 = 0
    BY <1>1
  <2>3. IsFiniteSet(Dues(every)) /\ Cardinality(Dues(every)) = 0
    BY <2>1, FS_EmptySet
  <2>. QED BY <1>1, <1>2, <2>1, <2>2, <2>3, FS_Product DEF Occurrences
<1>3. CASE every # 0
  <2>. DEFINE last == Iterations - 1
              many == last \div every
              f == [j \in 1..many |-> j * every]
  <2>1. every \in Nat \ {0} /\ last \in Nat
    BY <1>1, <1>3
  <2>2. /\ many \in Nat /\ last = every * many + (last % every)
        /\ last % every \in 0..(every - 1)
    <3>1. \A a \in Nat : \A m \in Nat \ {0} :
            a \div m \in Nat /\ a = m * (a \div m) + (a % m) /\ a % m \in 0..(m - 1)
      OBVIOUS
    <3>. QED BY <2>1, <3>1
  <2>3. ASSUME NEW j \in 1..many
        PROVE  j * every \in Dues(every)
    <3>1. PICK q \in Nat : q = many
      BY <2>2
    <3>2. PICK d \in Int, p \in Int : d = j * every /\ p = every * q
      BY <2>1
    <3>3. p - d >= 0 /\ d - every >= 0
      <4>1. (q - j) * every >= 0 /\ (q - j) * every = every * q - j * every
        BY <2>1, <3>1
      <4>2. (j - 1) * every >= 0 /\ (j - 1) * every = j * every - every
        BY <2>1, <2>2
      <4>. QED BY <3>2, <4>1, <4>2
    <3>4. j * every \in 1..last
      <4>1. PICK r \in Nat : last = p + r
        BY <2>1, <2>2, <3>1, <3>2
      <4>2. d >= 1 /\ d <= last
        BY ONLY <2>1, <3>2, <3>3, <4>1, d \in Int, p \in Int
      <4>. QED BY ONLY <3>2, <4>2, d \in Int
    <3>5. (j * every) % every = 0
      <4>1. \A q1 \in Int : \A m \in Nat \ {0} : \A r \in 0..(m - 1) : (q1 * m + r) % m = r
        OBVIOUS
      <4>2. (j * every + 0) % every = 0
        BY <2>1, <4>1
      <4>. QED BY <2>1, <4>2
    <3>. QED BY <2>1, <3>4, <3>5 DEF Dues, Due
  <2>4. ASSUME NEW i \in Dues(every)
        PROVE  \E j \in 1..many : i = f[j]
    <3>1. i \in 1..last /\ i % every = 0
      BY DEF Dues, Due
    <3>2. PICK j \in Nat : i = every * j
      <4>1. \A a \in Nat : \A m \in Nat \ {0} :
            a \div m \in Nat /\ a = m * (a \div m) + (a % m)
        OBVIOUS
      <4>. QED BY <2>1, <3>1, <4>1
    <3>3. PICK q \in Nat : q = many
      BY <2>2
    <3>4. j # 0
      BY <2>1, <3>1, <3>2
    <3>5. j <= q
      <4>1. SUFFICES ASSUME j - q - 1 >= 0 PROVE FALSE
        OBVIOUS
      <4>2. (j - q - 1) * every >= 0
            /\ (j - q - 1) * every = every * j - every * q - every
        BY <2>1, <4>1
      <4>3. PICK p \in Int, r \in 0..(every - 1) : p = every * q /\ last = p + r
        BY <2>1, <2>2, <3>3
      <4>4. i - p - every >= 0 /\ i \in Int /\ i <= last
        BY <3>1, <3>2, <4>2, <4>3
      <4>. QED BY ONLY <2>1, <4>3, <4>4, p \in Int, r \in 0..(every - 1)
    <3>6. j \in 1..many /\ f[j] = i
      BY <2>1, <3>2, <3>3, <3>4, <3>5
    <3>. QED BY <3>6
  <2>5. ASSUME NEW j \in 1..many, NEW k \in 1..many, j * every = k * every
        PROVE  j = k
    <3>1. (j - k) * every = 0
      BY <2>1, <2>2, <2>5
    <3>. QED BY <2>1, <2>2, <3>1
  <2>6. f \in Bijection(1..many, Dues(every))
    <3>1. f \in [1..many -> Dues(every)]
      BY <2>3
    <3>2. f \in Injection(1..many, Dues(every))
      BY <2>5, <3>1, Fun_IsInj
    <3>3. f \in Surjection(1..many, Dues(every))
      BY <2>4, <3>1, Fun_IsSurj
    <3>. QED BY <3>2, <3>3, Fun_IsBij
  <2>7. /\ IsFiniteSet(Dues(every)) /\ Cardinality(Dues(every)) = many
    <3>1. IsFiniteSet(1..many) /\ Cardinality(1..many) = many
      <4>1. \A q \in Nat : IsFiniteSet(1..q) /\ Cardinality(1..q) = q
        BY FS_Interval
      <4>. QED BY ONLY <2>2, <4>1
    <3>2. ExistsBijection(1..many, Dues(every))
      BY <2>6 DEF ExistsBijection
    <3>. QED BY <3>1, <3>2, FS_Bijection
  <2>8. Dues(every) \subseteq Nat
    BY DEF Dues
  <2>. QED BY <1>1, <1>3, <2>7, <2>8, FS_Product DEF Occurrences
<1>. QED BY <1>2, <1>3
\* A worker never withdraws a stop or a failure, asks for a stop only on account
\* of its own failure, and ends no run with 0.
LEMMA StopsForFailure ==
    ASSUME TypeOK, NEW w \in Workers, WorkerStep(w)
    PROVE  /\ stop => stop'
           /\ \A x \in Workers : failed[x] => failed'[x]
           /\ stop' = stop \/ failed'[w]
           /\ mainPc' = mainPc /\ signal' = signal
           /\ exit' = exit \/ exit' = "mismatch"
<1>. USE DEF TypeOK, workVars, mainVars, runVars, Fail, Raise
<1>1. CASE BeginIteration(w) \/ EnterRead(w) \/ Encrypt(w) \/ RoundTrip(w)
  BY <1>1 DEF BeginIteration, EnterRead, Encrypt, RoundTrip
<1>2. CASE DecryptRaises(w) \/ Mismatch(w) \/ LeaveRead(w) \/ RecordEscape(w)
  BY <1>2 DEF DecryptRaises, Mismatch, LeaveRead, RecordEscape
<1>3. CASE Maintain(w) \/ AfterRekey(w) \/ EnterWrite(w) \/ LeaveWrite(w)
  BY <1>3 DEF Maintain, AfterRekey, EnterWrite, LeaveWrite
<1>4. CASE RekeyPipe(w) \/ RekeyRaises(w) \/ LoadPipe(w) \/ LoadRaises(w)
  BY <1>4 DEF RekeyPipe, RekeyRaises, LoadPipe, LoadRaises
<1>5. CASE FreeOld(w) \/ SwapIn(w)
  BY <1>5 DEF FreeOld, SwapIn
<1>6. CASE LoopStep(w)
  BY <1>6
     DEF LoopStep, ArriveWarmup, ArriveRelease, PassRelease, LoopHead, Return
<1>. QED BY <1>1, <1>2, <1>3, <1>4, <1>5, <1>6
         DEF WorkerStep, IterationStep, MaintenanceStep

\* A worker whose last operation ended well has had no other.
LEMMA StaysWell ==
    ASSUME TypeOK, NEW w \in Workers, RecordFits(w), WorkerStep(w), res'[w] = "ok"
    PROVE  /\ res[w] = "ok"
           /\ ~RekeyRaises(w) /\ ~LoadRaises(w) /\ ~DecryptRaises(w) /\ ~RecordEscape(w)
           /\ Encrypt(w) => pc'[w] = "decrypt"
<1>. USE DEF TypeOK, workVars, Raise, Results, At, GoTo
<1>1. ~RekeyRaises(w) /\ ~LoadRaises(w) /\ ~DecryptRaises(w)
  BY DEF RekeyRaises, LoadRaises, DecryptRaises
<1>2. ~RecordEscape(w)
  BY DEF RecordEscape, RecordFits
<1>3. Encrypt(w) => pc'[w] = "decrypt" /\ res[w] = "ok"
  BY DEF Encrypt
<1>4. CASE RoundTrip(w)
  BY <1>1, <1>2, <1>3, <1>4 DEF RoundTrip, RecordFits
<1>5. CASE BeginIteration(w) \/ EnterRead(w) \/ Mismatch(w) \/ LeaveRead(w)
  BY <1>1, <1>2, <1>3, <1>5 DEF BeginIteration, EnterRead, Mismatch, LeaveRead
<1>6. CASE Maintain(w) \/ AfterRekey(w) \/ EnterWrite(w) \/ LeaveWrite(w)
  BY <1>1, <1>2, <1>3, <1>6 DEF Maintain, AfterRekey, EnterWrite, LeaveWrite
<1>7. CASE RekeyPipe(w) \/ LoadPipe(w) \/ FreeOld(w) \/ SwapIn(w)
  BY <1>1, <1>2, <1>3, <1>7 DEF RekeyPipe, LoadPipe, FreeOld, SwapIn
<1>8. CASE LoopStep(w)
  BY <1>1, <1>2, <1>3, <1>8
     DEF LoopStep, ArriveWarmup, ArriveRelease, PassRelease, LoopHead, Return
<1>. QED BY <1>1, <1>2, <1>3, <1>4, <1>5, <1>6, <1>7, <1>8
         DEF WorkerStep, IterationStep, MaintenanceStep

\* What a worker has counted stays what is behind it.
LEMMA BudgetStaysFit ==
    ASSUME TypeOK, RecordsFit, NEW w \in Workers, BudgetFits(w), WorkerStep(w),
           Iterations > 0
    PROVE  BudgetFits(w)'
<1>1. RecordFits(w) /\ (stop => stop')
  BY StopsForFailure DEF RecordsFit
<1>2. /\ it[w] \in Nat /\ iters[w] \in Nat /\ Iterations \in Nat /\ TallyBound \in Nat
      /\ Iterations <= TallyBound /\ NextIt(it[w]) = it[w] + 1
  BY HarnessAssumption, TallyAssumption DEF TypeOK, NextIt
<1>t. /\ pc \in [Workers -> WorkerLabels] /\ it \in [Workers -> Nat]
      /\ res \in [Workers -> Results] /\ iters \in [Workers -> Nat]
      /\ job \in [Workers -> {"none", "rekey", "cycle"}]
  BY DEF TypeOK
<1>. USE DEF At, GoTo, workVars, careVars
<1>3. CASE BeginIteration(w) \/ EnterRead(w)
  BY <1>1, <1>2, <1>t, <1>3
     DEF BeginIteration, EnterRead, BudgetFits, During, Warming, Looping,
     Tripped, Writing
<1>4. CASE Encrypt(w)
  BY <1>1, <1>2, <1>t, <1>4
     DEF Encrypt, Raise, BudgetFits, During, Warming, Looping,
     Tripped, Writing
<1>5. CASE RoundTrip(w)
  <2>1. /\ pc[w] = "decrypt" /\ pc'[w] = "unlock" /\ res'[w] = "ok"
        /\ it'[w] = it[w] /\ job'[w] = job[w] /\ iters'[w] = Tally(iters[w])
    BY <1>t, <1>5 DEF RoundTrip
  <2>2. res[w] = "ok"
    BY <1>1, <2>1 DEF RecordFits
  <2>3. iters[w] = it[w] + 0 /\ it[w] < Iterations
    BY <2>1, <2>2 DEF BudgetFits, Tripped, Writing
  <2>4. iters'[w] = it[w] + 1
    BY <1>2, <2>1, <2>3 DEF Tally
  <2>. QED BY <1>1, <1>2, <2>1, <2>2, <2>4
           DEF BudgetFits, During, Warming, Looping, Tripped, Writing
<1>6. CASE DecryptRaises(w)
  BY <1>1, <1>2, <1>t, <1>6
     DEF DecryptRaises, Raise, BudgetFits, During, Warming, Looping,
     Tripped, Writing
<1>7. CASE Mismatch(w)
  BY <1>1, <1>2, <1>t, <1>7
     DEF Mismatch, BudgetFits, During, Warming, Looping, Tripped, Writing
<1>8. CASE LeaveRead(w)
  <2>1. /\ pc[w] = "unlock" /\ pc'[w] \in {"recordEscape", "returning", "warmup", "maintain"}
        /\ it[w] = 0 => pc'[w] \in {"recordEscape", "warmup"}
        /\ pc'[w] = "warmup" => it[w] = 0
        /\ pc'[w] = "maintain" => it[w] # 0
        /\ pc'[w] \in {"recordEscape", "returning"} => res[w] # "ok"
        /\ it'[w] = it[w] /\ job'[w] = job[w] /\ iters'[w] = iters[w] /\ res'[w] = res[w]
    BY <1>t, <1>8 DEF LeaveRead, AfterOperation
  <2>. QED BY <1>1, <1>2, <2>1
           DEF BudgetFits, During, Warming, Looping, Tripped, Writing
<1>9. CASE RecordEscape(w)
  BY <1>1, <1>2, <1>t, <1>9
     DEF RecordEscape, RecordFits, BudgetFits, During, Warming,
     Looping, Tripped, Writing
<1>10. CASE Maintain(w)
  BY <1>1, <1>2, <1>t, <1>10
     DEF Maintain, BudgetFits, During, Warming, Looping, Tripped, Writing
<1>11. CASE AfterRekey(w)
  <2>1. /\ pc[w] = "afterRekey" /\ res'[w] = res[w] /\ iters'[w] = iters[w]
        /\ \/ /\ pc'[w] = "lockWrite" /\ job'[w] = "cycle" /\ it'[w] = it[w]
              /\ Due(BlobCycleEvery, it[w])
           \/ pc'[w] = "loop" /\ it'[w] = it[w] + 1
    BY <1>2, <1>t, <1>11 DEF AfterRekey
  <2>. QED BY <1>1, <1>2, <2>1
           DEF BudgetFits, During, Warming, Looping, Tripped, Writing
<1>12. CASE EnterWrite(w)
  BY <1>1, <1>2, <1>t, <1>12
     DEF EnterWrite, BudgetFits, During, Warming, Looping,
     Tripped, Writing
<1>13. CASE RekeyPipe(w)
  BY <1>1, <1>2, <1>t, <1>13
     DEF RekeyPipe, NextSurface, BudgetFits, During, Warming,
     Looping, Tripped, Writing
<1>14. CASE RekeyRaises(w) \/ LoadRaises(w)
  BY <1>1, <1>2, <1>t, <1>14
     DEF RekeyRaises, LoadRaises, Raise, BudgetFits, During, Warming,
     Looping, Tripped, Writing
<1>15. CASE LoadPipe(w) \/ FreeOld(w)
  BY <1>1, <1>2, <1>t, <1>15
     DEF LoadPipe, FreeOld, BudgetFits, During, Warming, Looping,
     Tripped, Writing
<1>16. CASE SwapIn(w)
  BY <1>1, <1>2, <1>t, <1>16
     DEF SwapIn, NextSurface, BudgetFits, During, Warming, Looping,
     Tripped, Writing
<1>17. CASE LeaveWrite(w)
  <2>1. /\ pc[w] = "unlockWrite" /\ res'[w] = res[w] /\ iters'[w] = iters[w]
        /\ it[w] # 0 => \/ pc'[w] \in {"recordEscape", "returning"} /\ res[w] # "ok"
                        \/ pc'[w] = "afterRekey" /\ job[w] = "rekey" /\ res[w] = "ok"
                        \/ pc'[w] = "loop" /\ job[w] # "rekey" /\ res[w] = "ok"
        /\ \/ res[w] = "ok" /\ job[w] = "cycle" /\ it'[w] = it[w] + 1
           \/ ~(res[w] = "ok" /\ job[w] = "cycle") /\ it'[w] = it[w]
    BY <1>2, <1>t, <1>17
       DEF LeaveWrite, AfterMaintenance, AfterOperation, Results
  <2>. QED BY <1>1, <1>2, <2>1
           DEF BudgetFits, During, Warming, Looping, Tripped, Writing
<1>18. CASE PassRelease(w)
  <2>1. /\ pc[w] = "releaseWait" /\ res'[w] = res[w] /\ iters'[w] = iters[w]
        /\ \/ res[w] = "ok" /\ pc'[w] = "loop" /\ it'[w] = 1
           \/ res[w] # "ok" /\ pc'[w] = "returning" /\ it'[w] = it[w]
    BY <1>t, <1>18 DEF PassRelease
  <2>. QED BY <1>1, <1>2, <2>1
           DEF BudgetFits, During, Warming, Looping, Tripped, Writing
<1>19. CASE ArriveWarmup(w) \/ ArriveRelease(w)
  BY <1>1, <1>2, <1>t, <1>19
     DEF ArriveWarmup, ArriveRelease, BudgetFits, During, Warming,
     Looping, Tripped, Writing
<1>20. CASE LoopHead(w)
  <2>1. /\ pc[w] = "loop" /\ it'[w] = it[w] /\ res'[w] = res[w] /\ iters'[w] = iters[w]
        /\ \/ pc'[w] = "returning" /\ (it[w] >= Iterations \/ stop)
           \/ pc'[w] = "iterate" /\ it[w] < Iterations
    BY <1>2, <1>t, <1>20 DEF LoopHead, BudgetSpent
  <2>. QED BY <1>1, <1>2, <2>1
           DEF BudgetFits, During, Warming, Looping, Tripped, Writing
<1>21. CASE Return(w)
  BY <1>1, <1>2, <1>t, <1>21
     DEF Return, BudgetFits, During, Warming, Looping, Tripped,
     Writing
<1>. QED BY <1>3, <1>4, <1>5, <1>6, <1>7, <1>8, <1>9, <1>10, <1>11, <1>12,
            <1>13,
             <1>14, <1>15, <1>16, <1>17, <1>18, <1>19, <1>20, <1>21
         DEF WorkerStep, IterationStep, MaintenanceStep, LoopStep

\* A worker at one of its maintenances has a surface to visit.
LEMMA SomeLeft ==
    ASSUME TypeOK, Equipped, NEW w \in Workers, pc[w] \in {"rekey", "swap"}
    PROVE  Len(todo[w]) > 1 \/ Len(todo[w]) = 1
<1>1. todo[w] \in Seq(SurfaceSet) /\ todo[w] # <<>>
  BY DEF TypeOK, Equipped
<1>2. Len(todo[w]) \in Nat /\ Len(todo[w]) # 0
  BY <1>1, EmptySeq, LenProperties
<1>3. \A n \in Nat : n # 0 => n > 1 \/ n = 1
  OBVIOUS
<1>. QED BY <1>2, <1>3

\* Only the last surface of a rotation puts a rotation behind a worker, the one
\* its iteration is due, and counts it.
LEMMA RotationsStep ==
    ASSUME TypeOK, Equipped, NEW w \in Workers, RecordFits(w), BudgetFits(w),
           WorkerStep(w), Iterations > 0, res'[w] = "ok"
    PROVE  \/ /\ \A i \in Dues(RekeyEvery) : HasRotated(w, i)' <=> HasRotated(w, i)
              /\ rekeys' = rekeys
           \/ /\ \A i \in Dues(RekeyEvery) :
                    HasRotated(w, i)' <=> HasRotated(w, i) \/ i = it[w]
              /\ it[w] \in Dues(RekeyEvery) /\ ~HasRotated(w, it[w])
              /\ rekeys' = Tally(rekeys)
<1>1. /\ res[w] = "ok" /\ ~RekeyRaises(w) /\ ~LoadRaises(w) /\ ~DecryptRaises(w)
      /\ ~RecordEscape(w)
      /\ Encrypt(w) => pc'[w] = "decrypt"
  BY StaysWell
<1>2. it[w] \in Nat /\ Iterations \in Nat /\ NextIt(it[w]) = it[w] + 1
  BY HarnessAssumption DEF TypeOK, NextIt
<1>3. \A i \in Dues(RekeyEvery) : i \in Nat /\ i >= 1 /\ Due(RekeyEvery, i)
  BY <1>2 DEF Dues
<1>t. /\ pc \in [Workers -> WorkerLabels] /\ it \in [Workers -> Nat]
      /\ res \in [Workers -> Results]
      /\ job \in [Workers -> {"none", "rekey", "cycle"}]
  BY DEF TypeOK
<1>. DEFINE Same == it'[w] = it[w] /\ (Rotated(w)' <=> Rotated(w)) /\ rekeys' = rekeys
            Past == /\ it'[w] = it[w] + 1 /\ ~Rotated(w)' /\ rekeys' = rekeys
                    /\ Rotated(w) \/ it[w] \notin Dues(RekeyEvery)
            Skip == it'[w] = it[w] /\ rekeys' = rekeys /\ it[w] \notin Dues(RekeyEvery)
            Count == /\ it'[w] = it[w] /\ ~Rotated(w) /\ Rotated(w)'
                     /\ it[w] \in Dues(RekeyEvery) /\ rekeys' = Tally(rekeys)
<1>4. Same \/ Past \/ Skip \/ Count
  <2>. USE DEF Rotated, During, Writing, At, GoTo, workVars, careVars, tallyVars
  <2>1. CASE BeginIteration(w) \/ EnterRead(w) \/ Encrypt(w)
    BY <1>1, <1>t, <2>1 DEF BeginIteration, EnterRead, Encrypt
  <2>2. CASE RoundTrip(w) \/ Mismatch(w)
    BY <1>1, <1>t, <2>2 DEF RoundTrip, Mismatch
  <2>3. CASE LeaveRead(w)
    BY <1>1, <1>t, <2>3 DEF LeaveRead, AfterOperation
  <2>4. CASE Maintain(w)
    BY <1>3, <1>t, <2>4 DEF Maintain
  <2>5. CASE AfterRekey(w)
    BY <1>2, <1>t, <2>5 DEF AfterRekey
  <2>6. CASE EnterWrite(w)
    BY <1>t, <2>6 DEF EnterWrite, BudgetFits
  <2>7. CASE RekeyPipe(w) /\ Len(todo[w]) # 1
    <3>1. Len(todo[w]) > 1
      BY <2>7, SomeLeft DEF RekeyPipe
    <3>2. pc[w] = "rekey" /\ pc'[w] = "rekey" /\ job'[w] = job[w] /\ it'[w] = it[w]
      BY <1>t, <2>7, <3>1 DEF RekeyPipe, NextSurface
    <3>3. rekeys' = rekeys
      BY <2>7 DEF RekeyPipe
    <3>. QED BY <3>2, <3>3 DEF BudgetFits
  <2>8. CASE RekeyPipe(w) /\ Len(todo[w]) = 1
    <3>1. it[w] < Iterations /\ it[w] >= 1 /\ Due(RekeyEvery, it[w])
      BY <2>8 DEF RekeyPipe, BudgetFits, Looping
    <3>2. it[w] \in Dues(RekeyEvery)
      BY <1>2, <3>1 DEF Dues
    <3>. QED BY <1>t, <2>8, <3>2 DEF RekeyPipe, NextSurface, BudgetFits
  <2>9. CASE LoadPipe(w) \/ FreeOld(w)
    BY <1>t, <2>9 DEF LoadPipe, FreeOld, BudgetFits
  <2>10. CASE SwapIn(w)
    BY <1>t, <2>10 DEF SwapIn, NextSurface, BudgetFits
  <2>11. CASE LeaveWrite(w) /\ job[w] = "rekey"
    BY <1>1, <1>2, <1>t, <2>11
       DEF LeaveWrite, AfterMaintenance, AfterOperation, BudgetFits, Looping
  <2>12. CASE LeaveWrite(w) /\ job[w] = "cycle"
    <3>1. pc'[w] = "loop"
      BY <1>1, <1>t, <2>12
         DEF LeaveWrite, AfterMaintenance, AfterOperation, BudgetFits, Looping
    <3>. QED BY <1>1, <1>2, <1>t, <2>12, <3>1 DEF LeaveWrite
  <2>13. CASE PassRelease(w)
    <3>1. it[w] = 0 /\ 0 \notin Dues(RekeyEvery)
      BY <1>3, <2>13 DEF PassRelease, BudgetFits, Warming
    <3>. QED BY <1>1, <1>t, <2>13, <3>1 DEF PassRelease
  <2>14. CASE ArriveWarmup(w) \/ ArriveRelease(w) \/ LoopHead(w) \/ Return(w)
    BY <1>t, <2>14 DEF ArriveWarmup, ArriveRelease, LoopHead, Return
  <2>15. LeaveWrite(w) => job[w] \in {"rekey", "cycle"}
    BY DEF LeaveWrite, BudgetFits
  <2>. QED BY <1>1, <2>1, <2>2, <2>3, <2>4, <2>5, <2>6, <2>7, <2>8, <2>9,
              <2>10, <2>11,
               <2>12, <2>13, <2>14, <2>15
           DEF WorkerStep, IterationStep, MaintenanceStep, LoopStep
<1>5. it'[w] \in Nat
  BY <1>2, <1>4
<1>. QED BY <1>2, <1>3, <1>4, <1>5 DEF HasRotated

\* Only the last surface of a reopen puts a reopen behind a worker, the one its
\* iteration is due, and counts it.
LEMMA ReopensStep ==
    ASSUME TypeOK, Equipped, NEW w \in Workers, RecordFits(w), BudgetFits(w),
           WorkerStep(w), Iterations > 0, res'[w] = "ok"
    PROVE  \/ /\ \A i \in Dues(BlobCycleEvery) : HasReopened(w, i)' <=> HasReopened(w, i)
              /\ cycles' = cycles
           \/ /\ \A i \in Dues(BlobCycleEvery) :
                    HasReopened(w, i)' <=> HasReopened(w, i) \/ i = it[w]
              /\ it[w] \in Dues(BlobCycleEvery) /\ ~HasReopened(w, it[w])
              /\ cycles' = Tally(cycles)
<1>1. /\ res[w] = "ok" /\ ~RekeyRaises(w) /\ ~LoadRaises(w) /\ ~DecryptRaises(w)
      /\ ~RecordEscape(w)
      /\ Encrypt(w) => pc'[w] = "decrypt"
  BY StaysWell
<1>2. it[w] \in Nat /\ Iterations \in Nat /\ NextIt(it[w]) = it[w] + 1
  BY HarnessAssumption DEF TypeOK, NextIt
<1>3. \A i \in Dues(BlobCycleEvery) : i \in Nat /\ i >= 1 /\ Due(BlobCycleEvery, i)
  BY <1>2 DEF Dues
<1>t. /\ pc \in [Workers -> WorkerLabels] /\ it \in [Workers -> Nat]
      /\ res \in [Workers -> Results]
      /\ job \in [Workers -> {"none", "rekey", "cycle"}]
  BY DEF TypeOK
<1>. DEFINE Same == it'[w] = it[w] /\ (Reopened(w)' <=> Reopened(w)) /\ cycles' = cycles
            Past == /\ it'[w] = it[w] + 1 /\ ~Reopened(w)' /\ cycles' = cycles
                    /\ Reopened(w) \/ it[w] \notin Dues(BlobCycleEvery)
            Count == /\ it'[w] = it[w] /\ ~Reopened(w) /\ Reopened(w)'
                     /\ it[w] \in Dues(BlobCycleEvery) /\ cycles' = Tally(cycles)
<1>4. Same \/ Past \/ Count
  <2>. USE DEF Reopened, At, GoTo, workVars, careVars, tallyVars
  <2>1. CASE BeginIteration(w) \/ EnterRead(w) \/ Encrypt(w)
    BY <1>1, <1>t, <2>1 DEF BeginIteration, EnterRead, Encrypt
  <2>2. CASE RoundTrip(w) \/ Mismatch(w)
    BY <1>1, <1>t, <2>2 DEF RoundTrip, Mismatch
  <2>3. CASE LeaveRead(w)
    BY <1>1, <1>t, <2>3 DEF LeaveRead, AfterOperation
  <2>4. CASE Maintain(w)
    BY <1>t, <2>4 DEF Maintain
  <2>5. CASE AfterRekey(w)
    BY <1>2, <1>3, <1>t, <2>5 DEF AfterRekey
  <2>6. CASE EnterWrite(w)
    BY <1>t, <2>6 DEF EnterWrite
  <2>7. CASE RekeyPipe(w)
    BY <1>t, <2>7 DEF RekeyPipe, NextSurface, BudgetFits
  <2>8. CASE SwapIn(w) /\ Len(todo[w]) # 1
    <3>1. Len(todo[w]) > 1
      BY <2>8, SomeLeft DEF SwapIn
    <3>2. pc[w] = "swap" /\ pc'[w] = "load" /\ job'[w] = job[w] /\ it'[w] = it[w]
      BY <1>t, <2>8, <3>1 DEF SwapIn, NextSurface
    <3>3. cycles' = cycles
      BY <2>8 DEF SwapIn
    <3>. QED BY <3>2, <3>3
  <2>9. CASE SwapIn(w) /\ Len(todo[w]) = 1
    <3>1. /\ it[w] < Iterations /\ it[w] >= 1 /\ Due(BlobCycleEvery, it[w])
          /\ job[w] = "cycle"
      BY <2>9 DEF SwapIn, BudgetFits, Looping, During, Writing
    <3>2. it[w] \in Dues(BlobCycleEvery)
      BY <1>2, <3>1 DEF Dues
    <3>. QED BY <1>t, <2>9, <3>1, <3>2 DEF SwapIn, NextSurface
  <2>10. CASE LoadPipe(w) \/ FreeOld(w)
    BY <1>t, <2>10 DEF LoadPipe, FreeOld
  <2>11. CASE LeaveWrite(w) /\ job[w] = "rekey"
    BY <1>1, <1>2, <1>t, <2>11
       DEF LeaveWrite, AfterMaintenance, AfterOperation, BudgetFits, Looping
  <2>12. CASE LeaveWrite(w) /\ job[w] = "cycle"
    BY <1>1, <1>2, <1>t, <2>12 DEF LeaveWrite
  <2>13. CASE PassRelease(w)
    <3>1. it[w] = 0 /\ 0 \notin Dues(BlobCycleEvery)
      BY <1>3, <2>13 DEF PassRelease, BudgetFits, Warming
    <3>. QED BY <1>1, <1>t, <2>13, <3>1 DEF PassRelease
  <2>14. CASE ArriveWarmup(w) \/ ArriveRelease(w) \/ LoopHead(w) \/ Return(w)
    BY <1>t, <2>14 DEF ArriveWarmup, ArriveRelease, LoopHead, Return
  <2>15. LeaveWrite(w) => job[w] \in {"rekey", "cycle"}
    BY DEF LeaveWrite, BudgetFits, Writing
  <2>. QED BY <1>1, <2>1, <2>2, <2>3, <2>4, <2>5, <2>6, <2>7, <2>8, <2>9,
              <2>10, <2>11,
               <2>12, <2>13, <2>14, <2>15
           DEF WorkerStep, IterationStep, MaintenanceStep, LoopStep
<1>5. it'[w] \in Nat
  BY <1>2, <1>4
<1>. QED BY <1>2, <1>3, <1>4, <1>5 DEF HasReopened

\* One more pair of a finite set that the tally has room for is one more count.
LEMMA CountsOneMore ==
    ASSUME NEW S, NEW T, IsFiniteSet(S), Cardinality(S) <= TallyBound, T \subseteq S,
           NEW p \in S, p \notin T
    PROVE  Tally(Cardinality(T)) = Cardinality(T \union {p})
<1>1. IsFiniteSet(T) /\ T \union {p} \subseteq S
  BY FS_Subset
<1>2. /\ Cardinality(T) \in Nat /\ Cardinality(S) \in Nat
      /\ Cardinality(T \union {p}) = Cardinality(T) + 1
  BY <1>1, FS_CardinalityType, FS_AddElement
<1>3. Cardinality(T \union {p}) <= Cardinality(S)
  BY <1>1, FS_Subset
<1>4. TallyBound \in Nat
  BY HarnessAssumption
<1>. QED BY <1>2, <1>3, <1>4 DEF Tally

\* Another worker's step puts nothing behind a worker.
LEMMA OthersBehind ==
    ASSUME TypeOK, NEW w \in Workers, WorkerStep(w), NEW x \in Workers, x # w, NEW i
    PROVE  /\ HasRotated(x, i)' <=> HasRotated(x, i)
           /\ HasReopened(x, i)' <=> HasReopened(x, i)
BY OthersUnmoved DEF HasRotated, HasReopened, Rotated, Reopened, During

\* As long as all is well a worker's step keeps the tallies those of the pairs
\* behind the workers.
LEMMA TalliesStayFit ==
    ASSUME GInv, BInv, NEW w \in Workers, WorkerStep(w), Iterations > 0, AllWell'
    PROVE  rekeys' = Cardinality(Rotations') /\ cycles' = Cardinality(Reopens')
<1>1. TypeOK /\ Equipped /\ RecordFits(w) /\ BudgetFits(w)
  BY DEF GInv, BInv, IInv, RecordsFit
<1>2. res'[w] = "ok"
  BY DEF AllWell
<1>3. AllWell
  <2>1. res[w] = "ok"
    BY <1>1, <1>2, StaysWell
  <2>. QED BY <1>1, <2>1, OthersUnmoved DEF AllWell
<1>4. rekeys = Cardinality(Rotations) /\ cycles = Cardinality(Reopens)
  BY <1>3 DEF BInv
<1>5. rekeys' = Cardinality(Rotations')
  <2>. DEFINE S == Workers \X Dues(RekeyEvery)
  <2>1. Rotations' = {p \in S : HasRotated(p[1], p[2])'}
    BY DEF Rotations, Dues
  <2>2. IsFiniteSet(S) /\ Cardinality(S) <= TallyBound
    BY DuesCount, TallyAssumption, HarnessAssumption
  <2>3. CASE /\ \A i \in Dues(RekeyEvery) : HasRotated(w, i)' <=> HasRotated(w, i)
             /\ rekeys' = rekeys
    <3>1. \A p \in S : HasRotated(p[1], p[2])' <=> HasRotated(p[1], p[2])
      BY <1>1, <2>3, OthersBehind
    <3>2. Rotations' = Rotations
      BY <2>1, <3>1 DEF Rotations
    <3>. QED BY <1>4, <2>3, <3>2
  <2>4. CASE /\ \A i \in Dues(RekeyEvery) :
                    HasRotated(w, i)' <=> HasRotated(w, i) \/ i = it[w]
             /\ it[w] \in Dues(RekeyEvery) /\ ~HasRotated(w, it[w])
             /\ rekeys' = Tally(rekeys)
    <3>. DEFINE q == <<w, it[w]>>
    <3>1. q \in S /\ q \notin Rotations /\ Rotations \subseteq S
      BY <2>4 DEF Rotations
    <3>2. \A p \in S : HasRotated(p[1], p[2])' <=> HasRotated(p[1], p[2]) \/ p = q
      BY <1>1, <2>4, OthersBehind
    <3>3. Rotations' = Rotations \union {q}
      BY <2>1, <3>1, <3>2 DEF Rotations
    <3>4. Tally(Cardinality(Rotations)) = Cardinality(Rotations \union {q})
      BY <2>2, <3>1, CountsOneMore
    <3>. QED BY <1>4, <2>4, <3>3, <3>4
  <2>. QED BY <1>1, <1>2, <2>3, <2>4, RotationsStep
<1>6. cycles' = Cardinality(Reopens')
  <2>. DEFINE S == Workers \X Dues(BlobCycleEvery)
  <2>1. Reopens' = {p \in S : HasReopened(p[1], p[2])'}
    BY DEF Reopens, Dues
  <2>2. IsFiniteSet(S) /\ Cardinality(S) <= TallyBound
    BY DuesCount, TallyAssumption, HarnessAssumption
  <2>3. CASE /\ \A i \in Dues(BlobCycleEvery) : HasReopened(w, i)' <=> HasReopened(w, i)
             /\ cycles' = cycles
    <3>1. \A p \in S : HasReopened(p[1], p[2])' <=> HasReopened(p[1], p[2])
      BY <1>1, <2>3, OthersBehind
    <3>2. Reopens' = Reopens
      BY <2>1, <3>1 DEF Reopens
    <3>. QED BY <1>4, <2>3, <3>2
  <2>4. CASE /\ \A i \in Dues(BlobCycleEvery) :
                    HasReopened(w, i)' <=> HasReopened(w, i) \/ i = it[w]
             /\ it[w] \in Dues(BlobCycleEvery) /\ ~HasReopened(w, it[w])
             /\ cycles' = Tally(cycles)
    <3>. DEFINE q == <<w, it[w]>>
    <3>1. q \in S /\ q \notin Reopens /\ Reopens \subseteq S
      BY <2>4 DEF Reopens
    <3>2. \A p \in S : HasReopened(p[1], p[2])' <=> HasReopened(p[1], p[2]) \/ p = q
      BY <1>1, <2>4, OthersBehind
    <3>3. Reopens' = Reopens \union {q}
      BY <2>1, <3>1, <3>2 DEF Reopens
    <3>4. Tally(Cardinality(Reopens)) = Cardinality(Reopens \union {q})
      BY <2>2, <3>1, CountsOneMore
    <3>. QED BY <1>4, <2>4, <3>3, <3>4
  <2>. QED BY <1>1, <1>2, <2>3, <2>4, ReopensStep
<1>. QED BY <1>5, <1>6

\* Every step of a worker keeps the invariant.
LEMMA WorkersKeepBudget ==
    ASSUME BInv, Running, NEW w \in Workers, WorkerStep(w), Iterations > 0
    PROVE  BInv'
<1>1. GInv /\ GInv' /\ TypeOK /\ RecordsFit /\ BudgetFits(w) /\ StopFits
  BY WorkersKeepPhases DEF BInv, GInv, IInv
<1>2. /\ stop => stop'
      /\ \A x \in Workers : failed[x] => failed'[x]
      /\ stop' = stop \/ failed'[w]
      /\ mainPc' = mainPc /\ signal' = signal
      /\ exit' = exit \/ exit' = "mismatch"
  BY <1>1, StopsForFailure
<1>3. \A x \in Workers : BudgetFits(x)'
  <2>1. BudgetFits(w)'
    BY <1>1, BudgetStaysFit
  <2>2. ASSUME NEW x \in Workers, x # w PROVE BudgetFits(x)'
    BY <1>1, <1>2, <2>2, OthersUnmoved DEF BudgetFits, During, BInv
  <2>. QED BY <2>1, <2>2
<1>4. StopFits'
  BY <1>1, <1>2 DEF StopFits
<1>5. exit' = "pass" => mainPc' = "exited"
  BY <1>2 DEF Running
<1>. QED BY <1>1, <1>3, <1>4, <1>5, TalliesStayFit DEF BInv

\* Every step of main, the signal and the clock keeps it: in a run with a budget
\* main asks for a stop only when the signal did.
LEMMA MainKeepsBudget ==
    ASSUME BInv, Running, MainStep \/ SignalArrives \/ DeadlinePasses, Iterations > 0
    PROVE  BInv'
<1>1. GInv /\ GInv' /\ TypeOK /\ StopFits /\ Iterations # 0
  BY MainKeepsPhases DEF BInv, GInv, IInv
<1>2. UNCHANGED <<it, res, iters, job, failed, rekeys, cycles>>
  BY DEF MainStep, StartWorker, MainArrivesWarmup, TakeBaselines, StartClock,
         PassGate, Poll, Summarise, Finish, SignalArrives, DeadlinePasses,
         workVars, careVars, tallyVars
<1>3. \A w \in Workers : pc'[w] = pc[w] \/ (pc[w] = "new" /\ pc'[w] = "iterate")
  BY <1>1
     DEF MainStep, StartWorker, MainArrivesWarmup, TakeBaselines, StartClock,
         PassGate, Poll, Summarise, Finish, SignalArrives, DeadlinePasses,
         workVars, At, GoTo, TypeOK
<1>4. /\ stop => stop'
      /\ stop' => stop \/ signal'
      /\ signal => signal'
      /\ exit' = "pass" => mainPc' = "exited"
  <2>1. CASE (\E w \in Workers : StartWorker(w)) \/ MainArrivesWarmup \/ TakeBaselines
    BY <2>1
       DEF StartWorker, MainArrivesWarmup, TakeBaselines, runVars, mainVars,
           Running
  <2>2. CASE StartClock \/ PassGate \/ Summarise \/ SignalArrives \/ DeadlinePasses
    BY <2>2 DEF StartClock, PassGate, Summarise, SignalArrives, DeadlinePasses,
       runVars, mainVars, Running
  <2>3. CASE Poll
    BY <1>1, <2>3 DEF Poll, StopWanted, runVars, mainVars, Running
  <2>4. CASE Finish
    BY <2>4 DEF Finish, MainGoTo, runVars
  <2>. QED BY <2>1, <2>2, <2>3, <2>4 DEF MainStep
<1>5. \A w \in Workers : BudgetFits(w)'
  <2>. SUFFICES ASSUME NEW w \in Workers PROVE BudgetFits(w)'
    OBVIOUS
  <2>1. BudgetFits(w)
    BY DEF BInv
  <2>. QED BY <1>2, <1>3, <1>4, <2>1
           DEF BudgetFits, During, Warming, Looping, Tripped, Writing
<1>6. (AllWell => rekeys = Cardinality(Rotations) /\ cycles = Cardinality(Reopens))'
  <2>1. \A w \in Workers : (Rotated(w)' <=> Rotated(w)) /\ (Reopened(w)' <=> Reopened(w))
    BY <1>2, <1>3 DEF Rotated, Reopened, During, Writing
  <2>2. Rotations' = Rotations /\ Reopens' = Reopens
    BY <1>2, <2>1 DEF Rotations, Reopens, HasRotated, HasReopened, Dues
  <2>3. AllWell' <=> AllWell
    BY <1>2 DEF AllWell
  <2>. QED BY <1>2, <2>2, <2>3 DEF BInv
<1>7. StopFits'
  BY <1>1, <1>2, <1>4 DEF StopFits
<1>. QED BY <1>1, <1>4, <1>5, <1>6, <1>7 DEF BInv

\* It holds when run starts its workers.
LEMMA BudgetAtFirst == Init /\ Iterations > 0 => BInv
<1>. SUFFICES ASSUME Init, Iterations > 0 PROVE BInv
  OBVIOUS
<1>1. GInv /\ StopFits /\ exit # "pass"
  BY PhasesAtFirst DEF Init, StopFits
<1>2. \A w \in Workers : BudgetFits(w)
  BY HarnessAssumption
     DEF Init, BudgetFits, During, Warming, Looping, Tripped, Writing
<1>3. Rotations = {} /\ Reopens = {}
  <2>1. \A every : \A i \in Dues(every) : i > 0 /\ i # 0 /\ ~(i < 0)
    BY HarnessAssumption DEF Dues
  <2>. QED BY <2>1
              DEF Init, Rotations, Reopens, HasRotated, HasReopened, Rotated,
                  Reopened, During, Writing
<1>4. rekeys = Cardinality(Rotations) /\ cycles = Cardinality(Reopens)
  BY <1>3, FS_EmptySet DEF Init
<1>. QED BY <1>1, <1>2, <1>4 DEF BInv

\* And throughout a run with a budget.
LEMMA BudgetHolds == Spec => [](Iterations > 0 => BInv)
<1>1. Init => (Iterations > 0 => BInv)
  BY BudgetAtFirst
<1>2. (Iterations > 0 => BInv) /\ [Next]_vars => (Iterations > 0 => BInv)'
  <2>. SUFFICES ASSUME Iterations > 0, BInv, [Next]_vars PROVE BInv'
    OBVIOUS
  <2>1. CASE UNCHANGED vars
    <3>1. GInv'
      BY <2>1, PhasesAreInductive DEF BInv
    <3>2. UNCHANGED <<it, res, iters, job, pc, failed, rekeys, cycles, stop, signal,
                      mainPc, exit>>
      BY <2>1 DEF vars, workVars, careVars, tallyVars, runVars, mainVars
    <3>3. Rotations' = Rotations /\ Reopens' = Reopens
      BY <3>2
         DEF Rotations, Reopens, HasRotated, HasReopened, Rotated, Reopened,
             During, Dues
    <3>4. \A w \in Workers : BudgetFits(w)'
      BY <3>2 DEF BInv, BudgetFits, During
    <3>5. (AllWell' <=> AllWell) /\ (StopFits' <=> StopFits)
      BY <3>2 DEF AllWell, StopFits
    <3>. QED BY <3>1, <3>2, <3>3, <3>4, <3>5 DEF BInv
  <2>2. CASE Running /\ \E w \in Workers : WorkerStep(w)
    BY <2>2, WorkersKeepBudget
  <2>3. CASE Running /\ (MainStep \/ SignalArrives \/ DeadlinePasses)
    BY <2>3, MainKeepsBudget
  <2>. QED BY <2>1, <2>2, <2>3 DEF Next
<1>. QED BY <1>1, <1>2, PTL DEF Spec

\* An exit code of 0 from a run with a budget and no signal says the budget was
\* spent: every worker counted its iterations, warmup included, and every
\* rotation and reopen the intervals call for was done and counted, whatever
\* the number of workers (main.py:18-20, worker.py:190-231, ops.py:36-121).
THEOREM BudgetIsSpent == Spec => []PassSpentBudget
<1>1. (Iterations > 0 => BInv) => PassSpentBudget
  <2>. SUFFICES ASSUME BInv, exit = "pass", Iterations > 0, ~signal
                PROVE  /\ \A w \in Workers : iters[w] = Iterations
                       /\ rekeys = Occurrences(RekeyEvery)
                       /\ cycles = Occurrences(BlobCycleEvery)
    BY DEF PassSpentBudget
  <2>1. /\ \A w \in Workers : pc[w] = "returned" /\ res[w] = "ok" /\ ~failed[w]
        /\ AllWell
    BY DEF BInv, GInv, IInv, AllBack, FailureIsReported, RecordsFit,
           RecordFits, AllWell
  <2>2. ~stop
    BY <2>1 DEF BInv, StopFits
  <2>3. \A w \in Workers : it[w] = Iterations /\ iters[w] = it[w] + 0
    BY <2>1, <2>2 DEF BInv, BudgetFits, Tripped, Writing
  <2>4. Iterations \in Nat /\ RekeyEvery \in Nat /\ BlobCycleEvery \in Nat
    BY HarnessAssumption
  <2>5. \A every : \A i \in Dues(every) : i < Iterations
    BY <2>4 DEF Dues
  <2>6. /\ Rotations = Workers \X Dues(RekeyEvery)
        /\ Reopens = Workers \X Dues(BlobCycleEvery)
    BY <2>3, <2>5 DEF Rotations, Reopens, HasRotated, HasReopened
  <2>7. rekeys = Cardinality(Rotations) /\ cycles = Cardinality(Reopens)
    BY <2>1 DEF BInv
  <2>8. \A w \in Workers : iters[w] = Iterations
    BY <2>3, <2>4
  <2>9. /\ Cardinality(Workers \X Dues(RekeyEvery)) = Occurrences(RekeyEvery)
        /\ Cardinality(Workers \X Dues(BlobCycleEvery)) = Occurrences(BlobCycleEvery)
    BY <2>4, DuesCount
  <2>. QED BY <2>6, <2>7, <2>8, <2>9
<1>. QED BY <1>1, BudgetHolds, PTL

=============================================================================
