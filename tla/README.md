# A TLA+ verification of itb-python

This directory holds TLA+ specifications of the Python binding `itb3` and of the
`loop` utility that exercises it, the TLC configurations that check them on
small instances, and machine-checked (TLAPS) proofs. Every definition is
translated from the Python source; `PROJECT.json` maps each one to its lines.

The cryptography is in the Go shared library `libitb3`, which is not in the
repository. It appears here as the code under `src/` uses it: handles, the
keying behind a handle, statuses, a reported length, a sticky session error, one
diagnostic text per process. Definitions that stand for it are marked external
in the map.

## 1. Inventory

| Part | Source | State | Operations | Hard behaviour | What makes it correct |
|---|---|---|---|---|---|
| Reader/writer lock | `loop/state.py:78-112` | `_readers`, `_writer`, a condition | acquire/release, read/write | interleaving, lost wake-ups, writers starving behind readers | exclusion; honest counters; nobody asleep on a condition that has come true; whoever can be admitted is |
| Worker loop | `loop/worker.py`, `loop/state.py` | `Worker`, shared `RunState` | warmup, iterate, fail, return | barriers, failures of every kind, a stop at any time | a round-trip is never split by a rotation or a reopen; every failure reaches the exit code; the run ends |
| Maintenance | `loop/ops.py` | Pipelines, retained blobs, counters | rotate, reopen | a failure between two surfaces; a handle swapped under others | blob and keying agree; no handle leaks; none in use is freed |
| Launcher | `loop/main.py:614-785` | `RunState`, runtime limits, signal flag | shape the runtime, build, start, baseline, clock, poll, join, summarise, free | stop before the gate; partial construction | the baselines are quiet; elapsed time ends at the last return; workers find what their shape needs |
| Command line | `loop/main.py:100-443`, `loop/size.py` | `Config` | parse | integer widths at the C boundary | a value in force is the value given |
| Payload generator | `loop/payload.py`, `worker.py:115-116` | splitmix64 state of each worker | seed, fill in five modes, refill | 64-bit wrap; workers at different iterations | worker streams are distinct and replayable |
| Summary | `loop/summary.py` | two snapshots of the pools | snapshot, difference, print, verdict | slot layout read from the library; a snapshot may fail | a figure is what the main loop added, or zero; verdict = no failed worker |
| Stream sessions | `itb3/stream.py`, pumps in `pipeline.py`, `worker.py:42-75` | handle, `_ended`, pinned parent | begin, write, read, end, drain, free | the chain runs beside the caller and fails when it likes; finished flag early or late | whole output in order; bounded memory; freed once; parent outlives it |
| FFI core | `itb3/_ffi.py`, `itb3/error.py` | `_SYMS`, `_LOAD_ERROR`; the library's last error | syms, check, last_error | first use from several threads; two-call diagnostic | only declared prototypes are used; a loaded library stays loaded; a text is one whole diagnostic |
| Output buffers | `itb3/pipeline.py:29-77` | a staging buffer | call, retry once, wipe | a rotation or a registration changes the size before the retry | whole output or an error; no blob left in a buffer |
| Pipeline handle | `itb3/pipeline.py` | `_handle` | init, load, save, rekey, cipher, `max_workers`, close, free, `__del__` | several threads; replayed calls | no session lost, freed under its object, or freed twice |
| Registry, options, status | `pipeline.py:395-474`, `opts.py`, `status.py` | the library's catalogue; a list of pairs | register, profiles, inspect, lookup; build | the catalogue grows under a reader | a listing is one whole catalogue |
| Runtime knobs | `itb3/runtime.py` | process-wide, in the library | set/query | a query value is a legal set value elsewhere | as used by the launcher |
| `eitb` | `eitb/eitb.py` | files, what the user has been shown | encrypt, decrypt | file written before the blob is printed; a failure or a kill anywhere | status 0 means the output can be opened; a file changes only to what the cipher returned |
| Tests, benches | `tests/`, `benches/` | - | sequential drivers | - | read as evidence of what is intended |

How they interact: `main.run` shapes the runtime and builds the Pipelines
(`LoopSetup`), then starts the workers. These share the Pipelines, the blobs,
the counters and the stop flag (`LoopHarness`), and keep out of each other's way
with the lock (`RWLockSpec`, implemented by `RWLock`). What they encrypt and
what the summary reads back of the library's pools is `LoopFigures`, over the
phases that the barriers of `LoopHarness` separate. Each cipher call of a worker
goes through a Pipeline method (`PipelineCalls`) or a stream session
(`StreamSession`), and each of those through `syms()` and `check()` (`FfiCore`).
`eitb` (`Eitb`) is another user of the same methods, one process after another
over the same files. `ctypes` releases the interpreter lock during a foreign
call, and the language promises no more for a statement that reads a shared
attribute and then stores it: where threads share state without a lock, the
read, the store and the call are steps of their own (`syms`, `free`, the two
reads of `r.stream_pipe`).

## 2. Modules

| Module | Models | Notes |
|---|---|---|
| `RWLockSpec` | what a caller of the lock is promised | one variable `mode`: who wants, holds, or is outside |
| `RWLock` | the lock, one action per statement between lock operations | mutex `owner`, wait set `waiting`; refines `RWLockSpec` |
| `RWLockProofs` | the theorems about `RWLock` | section 5 |
| `LoopHarness` | workers, maintenance, main thread | takes `RWLockSpec` for the lock |
| `LoopHarnessProofs` | the theorems about `LoopHarness` | section 5 |
| `LoopFigures`, `MCLoopFigures`, `LoopFiguresProofs` | plaintexts of the workers, figures of the pools | words as digits |
| `LoopSetup`, `MCLoopSetup`, `LoopSetupProofs` | `run()` up to the first thread | flags, runtime limits, construction |
| `BytePump` | what a pump promises: the bytes of the whole source in order, or an exception | abstract |
| `StreamSession`, `StreamSessionProofs` | a session, its caller, its parent, the chain | refines `BytePump` |
| `FfiCore`, `MCFfiCore`, `FfiCoreProofs` | library load, statuses, diagnostics | |
| `PipelineCalls`, `MCPipelineCalls`, `PipelineCallsProofs` | one Pipeline shared by threads, and the catalogue | buffers, retry, lifetime |
| `Eitb`, `EitbProofs` | `eitb` processes over files and a terminal | one action per statement |

Correspondence of the less obvious parts:

* **RWLock.** `with self._cond` is the `Lock` on `owner`; `wait()` gives the
  mutex up and joins `waiting` in one step; `notify_all` empties `waiting`; a
  woken thread takes the mutex again and runs the `while` test anew. The test
  and the assignment behind it are two steps, so that only the mutex joins them.
* **LoopHarness.** `pc[w]` stands between two effects other threads could see. A
  cipher call has three outcomes: it succeeds, raises `ItbError`
  (`_cipher_fail`), or something else escapes (the `except BaseException` of
  `worker_main`); the comparison may also find wrong bytes, which ends the
  process (`os._exit(3)`). `wire[w]` remembers which handle and keying sealed
  the wire; that is how a rotation between encrypt and decrypt would show.
  `keying` is the library: the open handles and what each is keyed with; a
  reopened handle takes the keying of the blob it was loaded from. A failed
  rotation may or may not have taken hold. The rotating refill in front of the
  lock can only matter here by raising, the second way `BeginIteration` goes.
  `arrived` is a barrier: the parties that have reached it.
* **StreamSession.** Data are numbered output units, the last (`Terminal`) the
  one that only the end of input produces. The chain's own step
  (`ChainProduces`) runs at any time, `ChainFails` once and for good.
* **FfiCore.** `_SYMS` is the number of the load it came from, so two racing
  loads are two bundles; a bundle is usable when it is in `declared`.
  `CallAgain` is the second call of `version()` and `drbg_auto_tier()`, which
  first ask for a length.
* **PipelineCalls.** A library call either `Gives` (room enough), `WantsMore`
  (reports a length, may have left part of the blob in the buffer) or `Refuses`.
  Every call reads `_handle` anew, as the closures do. `free()` is four steps:
  the test, the read of the handle, the store of 0, the call; `frees[h]` counts
  the calls, and `overlap` remembers that one `free()` read the handle between
  the read and the store of another. An undersized `init` has constructed a
  session and given it up again before it returns, as the docstring says
  (`pipeline.py:114-118`), and may have left its handle in the cell that the
  retry is given too. `profiles`, `lookup`, `inspect` and `hash_names` are one
  operation, a read of a catalogue with `names` registrations in it; `load` and
  `load_f` are one constructor, `save_f` and `max_workers` one call of which
  only the status matters here.
* **LoopSetup.** Integers are unbounded in Python. The library's memory limit is
  a signed integer up to `MaxLimit` (2^63 - 1), its GC percentage and GOMAXPROCS
  are C ints up to `IntMax` (2^31 - 1); `Wrap` is what `ctypes` does between
  them. `opts` are the keystream layers `_build_pipeline` fills in because the
  profile leaves them unnamed. That a record with a palette has a segment size
  as well is an assumption about the library (`SetupAssumption`), whose schedule
  "rejects zero" (`main.py:553-555`); of a record with a palette alone,
  `_fill_keystream_layers` would not fill in the segment.
* **LoopFigures.** A word is `WordLen` digits of base `Base` (eight bytes in the
  code), `Place` the weight of a digit, and a buffer is a sequence of digits.
  `Mix` stands for the output function of splitmix64, of which only its
  injectivity is used. `VectorOf` lays the pool counters out as the library
  does, `PoolDelta` reads them as `summary.py` does.
* **Eitb.** `Steps` lists the statements of a command in their order; each is an
  action, at each the process may fail (`Fail`) or be killed (`Killed`). What a
  file holds is a text, a wire (by the number of the session that sealed it), a
  torn write, or noise. `terminal` is the set of blobs the user has been shown.

Definitions commented "Fault:" are not part of any specification. Each is the
named action or operator with one plausible mistake (a dropped guard, a missing
reset, a swapped order); `PROJECT.json` lists which property notices which.

## 3. Runs

| Run | Instance | Distinct states | Question |
|---|---|---|---|
| `rwlock` | 3 clients | 2,021 | Exclusion, honest fields, no lost wake-up; does the monitor keep the promise, its liveness included? |
| `loop_budget` | 2 workers, both surfaces, 4 iterations, rotation at each, reopen at every second | 338,615 | All safety of the harness; termination; writers get in |
| `loop_duration` | 2 workers, one surface, no budget, rotation at every third | 195,966 | A stop ends the run; rotations happen |
| `loop_warmup_stop` | as `loop_budget`, 2 iterations | - | Violated, see section 6 |
| `loop_setup` | integers up to 7, numbers below, at and above 2^3 and 2^4 | 12,584 | Runtime, layers and Pipelines as the flags ask |
| `loop_memlimit` | same | - | Violated, see section 6 |
| `loop_figures` | 2 workers, words of two octal digits, vectors of 0, 1 and 2 tiers | 3,332,341 | Distinct and replayable plaintexts, true figures |
| `stream_pump` | 4 slices, chain of capacity 2 | 6,198 | Order, completeness, release, bounded memory, return |
| `ffi_core` | 2 threads, diagnostics of different lengths, 3 loads | 148,280 | Racing loads and racing errors |
| `ffi_load_cached` | 1 thread, 2 loads | - | Violated, see section 6 |
| `pipeline_calls` | 2 threads, 2 sessions, blobs of size 1, 2, 3 for a first buffer of 1, one registration | 3,557,555 | Whole outputs, wiped buffers, no session lost or freed twice |
| `eitb` | 2 encryptions and 1 decryption over 2 files | 2,674,976 | What exit status 0 promises, what touches a file |

What the properties say:

* `Exclusion`, `CountsAgree`, `NoLostWakeup`, `ImplementsPromise` (RWLock): the
  lock is exclusive, its two fields are what the positions of the threads say,
  no sleeper is forgotten, and whoever is admissible for good gets in.
* `RoundTripKeying`: a wire is opened by the handle that sealed it, still open,
  still on the same keying. It rests on the lock being held over the whole of
  encrypt, decrypt and compare; without that a sound library looks corrupt.
* `HandlesAccounted`: reopening neither leaks nor frees what is used.
* `BlobIsLiveKeying`: while nobody writes, no more surfaces run on another
  keying than their retained blob's than there are workers whose rotation
  failed. Without a failure that is none, so that a reopen changes no keying;
  with one it is the surface that failed and no other: one that was rotated
  before it in the same round has its new blob already.
* `BaselineIsQuiet`, `ElapsedToLastReturn`, `PassSpentBudget`: the numbers the
  summary prints describe what they claim to.
* `FailureIsReported`, `MismatchKeepsEvidence`: every way an operation fails
  reaches the exit code, and a mismatch ends the process before anything is
  freed.
* `Terminates`, `StopEndsRun`, `WriterGetsIn`, `SomeWriterGetsIn`: liveness.
* `SessionReleased`, `HeldBounded`, `PinHolds`, `ImplementsPump`
  (StreamSession).
* `CallsArePrototyped`, `LoadedStaysLoaded`, `DiagnosticIsHonest` (FfiCore): the
  text of an `ItbError` is the failing call's own unless another call changed
  the diagnostic in between, by failing or by a success that clears it. In that
  case it is a whole diagnostic of another call, or empty, and never cut or a
  mix: the second half of `last_error()` is refused when the buffer is too
  small.
* `OutputIsWhole`, `StagingWiped`, `NothingOrphaned` (PipelineCalls): what a
  method returns is one whole blob or catalogue of the time it ran, although a
  rotation or a registration may come between the undersized call and its retry;
  a session the library keeps is somebody's, and the object's handle is that of
  the session the last call made, not of an attempt that was given up.
* `FreedOnce`: `free()`, `__exit__` and `__del__` together hand a handle to
  `ITB_Triple_Free` once. The exception is in the property: two threads that
  both read the handle before either stores 0 (`pipeline.py:368`) free it twice,
  and what that does is up to the library, which here turns the second down.
* `RuntimeIsShaped`, `ReadyForShape` (LoopSetup). The first speaks of the memory
  limit under auto and under every size the library's integer holds; the other
  plain numbers are what `loop_memlimit` is about.
* `DistinctPlaintexts`: no two seeded workers ever hold the same buffer, however
  far one is ahead; a wire that crossed over to another worker would otherwise
  go unnoticed. It needs a buffer of at least one word, and iterations fewer
  than the increment's multiples take to come near zero (about 2^64 in the
  code).
* `Replayable`: the buffer of an iteration depends on seed, worker and
  iteration, not on the schedule.
* `FiguresAreHonest`: the summary's pool figures are what the main loop added,
  under the right name and beside the right starter width, or all zero.
* `SuccessIsOpenable` (Eitb): after an encryption with status 0 the output is a
  whole wire, and the blob that opens it was printed; after a decryption under a
  MAC the output is what was sealed. Only status 0 promises this: a `save` that
  fails after the write leaves a wire that nobody can open, and an in-place
  encryption that ends so has lost the text. A profile without a MAC turns
  foreign bytes into noise with status 0.
* `OutputOnlyFromCipher`: until the cipher call has returned, the old output
  stays.

### Bounds

* `Iterations = 4` with `RekeyEvery = 1`, `BlobCycleEvery = 2`: a warmup, then
  iterations with a rotation alone, with rotation and reopen, and a last one;
  all three entries of shape "both" occur.
* `Period` wraps iteration numbers in duration mode. The code uses them only by
  remainder (3, the two intervals), and `PeriodAssumption` demands that all
  divide `Period`. `TallyBound` is where counters stop; `TallyAssumption`
  demands that a run with a budget ends before it counts so far.
* `Keys`, `Handles` are pools from which a value not in use is drawn. A keying
  that no handle, blob, wire or thread holds any more may be drawn again. The
  pools are large enough never to run dry (a draw would deadlock, which the loop
  runs check).
* `Slices = 4` against `Capacity = 2`: a write can find the chain full, half
  full and empty, before and after the first output.
* `MaxLoads = 3`: each of two threads can load, and one more could.
* `MaxSessions = 2`, `MaxNames = 1` (PipelineCalls) and a set of three blob
  sizes: a first buffer that fits, one the retry repairs, and one the retry does
  not; the session of an undersized attempt and that of its retry; one
  registration between a listing's call and its retry. Threads are
  interchangeable and the run checks no liveness, so they are a symmetry set.
* `Base = 8`, `WordLen = 2`, `Gamma = 27`: words of 64 values with an increment
  no small multiple of which is near zero, as the golden ratio is in 64 bits.
  Sizes 1 and 3 are less and more than a word. `Iterations = 2` after the warmup
  lets one worker be three refills ahead. Payload modes are varied under one
  vector, vectors under one payload.
* `MaxSessions = 2`, `MaxDecrypts = 1` (Eitb): a wire may be overwritten by
  another session's, or in place, and then decrypted with either blob.
* `MaxLimit = 7`, `IntMax = 7`: the sizes and knobs of `MCLoopSetup` lie at and
  on both sides of the signed maximum (7) and of the range (16). The runtime's
  flags are varied under one profile, profiles and layers under one runtime.

`CHECK_DEADLOCK FALSE` is set where the system stops by design: a pump that has
returned, a Pipeline that has been collected, a launcher that has handed over or
exited, a summary that has been computed. The lock has no last state; the
harness has, and there the specification stutters explicitly, so that a barrier
nobody will open still shows as a deadlock.

### Fairness

* RWLock: strong fairness of taking the mutex (CPython's lock is handed to some
  waiter each time it is released, and is released infinitely often), weak
  fairness of the owner's next statement. A thread need never call the lock.
* RWLockSpec: weak fairness of an admission that stays possible. This is what
  `rwlock` shows the monitor to give, and what the harness assumes of it.
* LoopHarness: weak fairness of each worker and of main while the process runs.
  None for a signal, the deadline, or a failure: they may happen or not.
* StreamSession: weak fairness of the caller and of the chain. None for the
  parent's owner, for interrupts or for failures.

In duration mode an individual writer may be passed over for ever by the others
(`notify_all` wakes them all, in no order), so `loop_duration` checks that some
waiting writer gets in. In budget mode each does.

## 4. Abstract specifications

`RWLockSpec` is implemented by `RWLock` (mapping: the caller's label to the
mode, admitted at the assignment that records it, out at the one that withdraws
it) and used by `LoopHarness`. `BytePump` is implemented by `StreamSession`
(mapping: what has reached the destination, and whether the caller is running,
done, or has seen an exception).

## 5. Proofs

**`RWLockProofs`** proves, for any finite set of clients (`ClientsAssumption`:
the set is finite and `Nobody` is not in it):

* `TypeCorrect`, `MutualExclusion`, `FieldsTellTheTruth`, `WakeupsReach`: the
  four invariants the run `rwlock` checks;
* `Refinement`: every behaviour of the monitor is one of `RWLockSpec`, fairness
  aside.

None of the invariants is inductive. Exclusion needs to know that the writer
flag and the reader count mean what they say; those agree with the positions
only if increments are not lost; they are not lost because a thread between a
test and its assignment owns the mutex, and what it tested still stands. Hence

    IInv == TypeOK /\ MutexHeld /\ CountsAgree /\ TestStands
                   /\ Exclusion /\ NoLostWakeup

`MutexHeld`: a client is at a label inside the monitor exactly when it owns the
mutex. `TestStands`: a client about to count itself in has just seen the field
it tested, and it has not changed. `InitIInv`, `CallsStep`, `TakesMutexStep`,
`HasMutexStep` and `NextIInv` show it inductive: calls move a client outside the
monitor, taking the mutex changes `owner` alone, and only the owner changes
fields. `AdmitOne` and `ReleaseOne` are the two facts about cardinalities.
`StepSimulated` maps each step, and needs `IInv` for the admissions: the
abstract lock admits only when the real one's fields allow it.

**`LoopHarnessProofs`** proves, for any finite nonempty set of workers, any
shape, any iteration budget (or none) and any intervals:

* `HarnessTypeCorrect`: `TypeOK`, including that `active` stays a natural
  number;
* `HarnessUsesLock`: the harness, seen through `mode`, is a behaviour of
  `RWLockSpec`. With `Refinement` above this is what composes the two modules:
  the monitor keeps the promise, the harness uses nothing but the promise;
* `MaintenanceIsAlone`: a worker inside the write side is alone there and has no
  reader beside it;
* `RoundTripHolds`: `RoundTripKeying`;
* `FailuresAreReported`: `FailureIsReported`.

Assumed are `HarnessAssumption`, `PeriodAssumption`, `PoolAssumption` (the pools
of handles and keyings suffice to start a run) and, for the budget only,
`TallyAssumption`. `RoundTripKeying` is not
inductive: that no rotation comes between an encrypt and its decrypt needs
`Alone` (the lock), `ModeFits` (each worker holds the lock exactly over the
labels the code brackets with it, on failing paths too), and `WireFits` (the
wire carries the handle and keying its surface has now). Main changes the
Pipelines as well, at the end; that it does so only with every worker back is
`AllBack`. `FailureIsReported` needs `FailureKept`: a failure is recorded at
once, or is on its way out of the lock to the handler that records it.
`Equipped` and `CountedOut` carry the types through maintenance and through
`_worker_done`. Their conjunction is `IInv`; `WorkersPreserve` and
`OthersPreserve` show it inductive, one lemma per conjunct, by way of
`OthersUnmoved` (a step of one worker leaves the rest alone) and
`OnlyWritersReach` (only a writer changes what Pipelines share).

The same module extends that invariant three times:

* For the handles and the blobs (`PInv`): where the open handles are in the
  middle of a reopen (`FreshFits`, `OpenKnown`, `PipesApart`), that a worker
  whose call failed does nothing but unwind (`FailedUnwinds`), and that a blob
  and its Pipeline are set apart by failed rotations only, one by each
  (`BlobsFit`, a comparison of two cardinalities: `CountKept` for the steps that
  part nothing, `FinitelyMany` for the sets). It yields `HandlesStayAccounted`,
  `BlobsStayLive` and, with `ExitFits`, `EvidenceIsKept`.
* For the phases (`GInv`): main's place in the release barrier divides the run
  (`GateFits`), no failure is lost or invented (`RecordsFit`), and the last
  return leaves the stamp (`LastStamps`). It yields `BaselineStaysQuiet` and
  `ElapsedHolds`.
* For the budget (`BInv`), which yields `BudgetIsSpent`: a run that ends in
  "pass" without a signal has done exactly the rotations and the reopens its
  intervals call for. Each maintenance done is a pair of a worker and an
  iteration: `Rotations` and `Reopens` are the pairs that the workers' places
  put behind them (`BudgetFits` ties places to iterations). While all is well,
  every step that counts adds one pair (`RotationsStep`, `ReopensStep`) and
  every other step none, so that the counters are the cardinalities of those
  sets. Only a failure or a signal stops such a run early (`StopFits`); without
  either each worker is past the whole budget at the end, the sets are the
  products of the workers and the iterations due, and `DuesCount` says how many
  those are.

**`LoopSetupProofs`**, for integers of any width, any command lines and any
installed limits: `TypeCorrect`, `ShapedBeforeSessions` (`RuntimeIsShaped`) and
`PipelinesReady` (`ReadyForShape`). The invariant follows the statements of
`run()`: what the flags asked for is what the library was told (`LimitFits`,
`KnobsFit`), except for numbers it cannot hold (`Holdable`), which `WrapKeeps`
and `WrapRange` delimit; no session exists before the runtime is shaped
(`Sessionless`); and the surfaces built are those visited so far (`Visited`,
`Progress`), each with the layers the options had to name (`LayersFilled`).

**`LoopFiguresProofs`**, for words of any base and length, any number of
workers, any injective `Mix` and any layout of the pools: `TypeCorrect`,
`PlaintextsReplay`, `PlaintextsDiffer`, `FiguresTrue`. A generator moves along
one arithmetic progression of states, so that a plaintext is a function of seed,
worker and iteration (`StatesAddUp`, `FillIs`). Equal plaintexts start with the
same word: digits determine the word (`DigitsDetermine`, on what `PlaceIs` and
`DivisionTwice` say of place values), `Mix` is injective, hence the states were
equal (`BufferTellsState`), which two workers' never are (`StatesDiffer`). For
the last step `GammaAssumption` is needed: within the draws of a run no
generator comes round to where another worker's started. In the code the
increment is 2^64 divided by the golden ratio, whose multiples by k stay at
least about 2^64 / (sqrt(5) k) away from 0, so that it holds for N workers as
long as each has drawn fewer than about 2^64 / (sqrt(5) N) words.
`DeltaOfVectors` shows that the summary reads the vectors, starters included, at
the places where the library wrote them, whatever the number of tiers.

The library's induction theorems are not available for a predicate. The
inductions that `Place` and the digits need are made over sets instead:
`LeastElement` follows from the well-foundedness of the naturals, and
`Induction` from it.

**`FfiCoreProofs`**, for any finite set of threads, any diagnostics, any number
of loads: `TypeCorrect`, `Prototyped`, `StaysLoaded`, `HonestDiagnostic`. The
invariant adds `Declared` (a bundle is declared one step before it is
published), `Unsettled` (a thread that found a bundle never comes back to the
loading path) and `OwnWhileAlone` (until another call changes the diagnostic, it
and its length are the failing call's own).

**`StreamSessionProofs`**, for a source of any length and a chain of any
capacity: `TypeCorrect`, `Released`, `Held`, `Pin`, and `Refinement`, that every
step of the pump is a step of `BytePump` or none of the caller's business. The
invariant follows the units: until an exception unwinds the pump, what was
delivered, what is in the caller's hands and what the chain still keeps are 1,
2, ... up to the last one produced (`OutputOrder`); the chain produces no more
than it was given, and the terminal bytes only after the whole source was
accepted (`InputOrder`).

**`PipelineCallsProofs`**, for any finite set of threads, any keyings and sizes:
`TypeCorrect`, `Whole`, `Wiped`, `Owned`, `OnlyOnce`.
`Ownership` is the life of the object: one constructor at a time, in whose hands
a session is overtaken by nothing on its way to the handle; a handle replaced by
0 names no session again. `Sight`: what a thread's buffer holds, it has seen
since its method began. `Staging`: a buffer holds a blob only between a call and
the look at its status. `Once`: a handle that was freed names a freed session,
and without an overlap at most one thread carries a handle towards
`ITB_Triple_Free`, never one that was freed already.

**`EitbProofs`**, for any paths and texts and any number of processes:
`TypeCorrect`, `StatusZeroIsKept`, `CipherFirst`. `InHand` says what a process
holds at each statement of its command; `EncryptPlaces` and `DecryptPlaces` give
the order of the statements.

### Only model-checked

Liveness (`Terminates`, `StopEndsRun`, `WriterGetsIn`, `SomeWriterGetsIn`), and
the fairness part of `ImplementsPromise` and `ImplementsPump`: the prover does
neither fairness nor ENABLED. Every invariant and every other action property of
a passing run is a theorem.

`TypeOK` of `FfiCore` and `PipelineCalls` is proved and in no run, and
`loop_duration` leaves the invariants to `loop_budget` and to the proofs.

## 6. Where code and documentation disagree

1. **`loop_warmup_stop`** (`worker.py:219`). `state.py:178-179` says the stop
   request is "checked by every worker before it starts an iteration". Iteration
   0, the warmup, starts without a look at it; a worker that comes to it after
   another's warmup has failed still does a whole round-trip. The verdict is
   unaffected.
2. **`ffi_load_cached`** (`_ffi.py:198, 217`). "Load failures are cached and
   re-reported on every call." A library that opens but lacks a prototyped
   symbol ends in `AttributeError`, which `syms()` does not catch: it is not
   cached, and it is not an `ItbError`.
3. **`loop_memlimit`** (`size.py:64`, `main.py:639`). "An explicit --memlimit is
   set as given." A plain number above 2^63 - 1 passes `parse_size`, which only
   tests products, and is cut to 64 bits on its way into the library: a negative
   result only queries, and the run goes on under the limit it found.

## 7. Not modelled

* Contents of ciphertexts, blobs and names, and of plaintexts outside
  `LoopFigures`. What a cipher call does to a message is "right bytes" or "wrong
  bytes".
* Output: log lines, the JSON and text renderings, number formatting.
* `os.urandom` failing, threads that cannot be started, an interrupt between two
  bytecodes of `finally` blocks.
* The wipe of the flat key buffer of `init_keys`, which is a `finally` of its
  own, and the formula `_out_cap`: the first buffer may be too small or not, and
  both cases are explored.
* What the library makes of the number given to `max_workers`. It crosses a C
  int, of which `ctypes` keeps the low 32 bits, so that `max_workers(2**32)`
  asks for 0, which is auto, where the docstring says "larger values are treated
  as 256" (`pipeline.py:294-300`).
* Handles of freed sessions being given out again by the library: `ITB_Triple_*`
  calls with an old handle are turned down.
* `Opts`: a list of pairs rendered as a query string.
* The argv grammar, `parse_duration`, `parse_payload_mode` and the flags that
  are only passed on to `Init`. `main.py` builds a buffer of the size given by
  `--payload-size` with nothing but the parser's test before it, so that a plain
  number of 2^63 or more ends in an `OverflowError` rather than in a usage
  message.
* `read_rss`, the heap profile, the memory figures of the summary.
* The library search path and the content of the prototype table of `_ffi.py`.
* The tests and benchmarks, sequential drivers of the binding.

## 8. Plan

Done, in this order: the lock and its promise, with proofs; the harness over the
promise, with its first proofs; sessions over an abstract pump; the FFI core;
Pipeline calls; the launcher's set-up; `eitb`; the loads, `save_f` and the
catalogue in Pipeline calls; payloads and pool figures; integer widths and
keystream layers in the set-up; the proofs of sessions, FFI core, Pipeline
calls, `eitb`, and of the harness's Pipelines and phases; the proofs of the
set-up, of payloads and figures and of the harness's budget; the frees of a
handle, and the blobs after failed rotations.

Open:

1. `Opts` and `parse_duration` as operators over small inputs.
2. `init_keys` with its key buffer in `PipelineCalls`.
