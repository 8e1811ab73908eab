--------------------------- MODULE PipelineCalls ---------------------------
(***************************************************************************)
(* One Pipeline object of itb3/pipeline.py and the threads that share it:  *)
(* construction, fresh or from a blob, the calls with an output of unknown *)
(* size (save, rekey, the cipher entries and the catalogue's, all through  *)
(* _retry_once or _retry_once_secret), the calls with none (save_f,        *)
(* max_workers, close, register), free, the with block and __del__.        *)
(*                                                                         *)
(* libitb3 is a registry of sessions and a catalogue of profiles.  A call  *)
(* either has room in the caller's buffer, or reports the size it wanted,  *)
(* or fails; each call is atomic there, and between two calls of one       *)
(* thread the others run.  The size of a blob depends on the keying it     *)
(* carries and that of the catalogue on what is registered, so another     *)
(* thread's rotation or registration changes what a retry will need.       *)
(***************************************************************************)
EXTENDS Integers, FiniteSets

CONSTANTS Threads,      \* the threads that share the object
          Versions,     \* the keyings a session may have
          Size,         \* the size of the blob of each
          FloorCap,     \* _BLOB_CAP, or _out_cap of the payload
          OutSizes,     \* the sizes a cipher output may have
          None,         \* no keying, no blob
          MaxSessions,  \* bound: the sessions the model constructs
          MaxNames      \* bound: the profiles registered

ASSUME CallsAssumption ==
    /\ IsFiniteSet(Threads)
    /\ Size \in [Versions -> Nat]
    /\ OutSizes \subseteq Nat
    /\ FloorCap \in Nat /\ MaxSessions \in Nat /\ MaxNames \in Nat
    /\ None \notin Versions \union Nat /\ Versions \intersect Nat = {}

VARIABLES
    pc,         \* where each thread is
    op,         \* the method it is in
    arg,        \* the handle it read off the object for its library call
    again,      \* the library call is the retry
    rc, n,      \* its status and the length it reported
    cap,        \* the capacity of the staging buffer
    staged,     \* what the library left in the staging buffer
    masters,    \* the keying a rekey asks for
    made,       \* a constructor's handle cell
    out,        \* what the method returns
    seen,       \* the keyings and catalogues there were since the method began
    handle,     \* Pipeline._handle
    object,     \* the Python object: "unborn", "making", "live", "dropped"
    sessions,   \* how many sessions libitb3 has handed out
    state,      \* state[h]: "open", "closed" or "freed"
    ver,        \* ver[h]: the keying of session h
    names,      \* how many profiles have been registered
    spilled,    \* a staging buffer was let go with a blob in it
    frees,      \* frees[h]: how often ITB_Triple_Free was called with h
    overlap     \* free() read the handle while another free() had it uncleared

methodVars == <<op, masters, seen>>
bufferVars == <<arg, again, rc, n, cap, staged, made, out, spilled>>
libraryVars == <<sessions, state, ver, frees, names>>
objectVars == <<handle, object, overlap>>
vars == <<pc, methodVars, bufferVars, libraryVars, objectVars>>

Handles == 1..MaxSessions
Labels == {"idle", "read", "call", "status", "returned", "raised",
           "freeRead", "freeClear", "freeCall"}
Constructors == {"init", "load"}
OfSession == {"save", "rekey", "cipher", "saveF", "close"}
OfCatalogue == {"profiles", "register"}
Ops == {"none"} \union Constructors \union OfSession \union OfCatalogue
Content == Versions \union 0..MaxNames      \* of a blob, or of the catalogue
NoOut == [of |-> None, bytes |-> 0]

\* The handle, the buffers and the counters of every call keep their
\* types, and every session is in one state of its life.
TypeOK ==
    /\ pc \in [Threads -> Labels]
    /\ op \in [Threads -> Ops]
    /\ arg \in [Threads -> Handles \union {0}]
    /\ again \in [Threads -> BOOLEAN]
    /\ rc \in [Threads -> {"ok", "small", "error"}]
    /\ n \in [Threads -> Nat] /\ cap \in [Threads -> Nat]
    /\ staged \in [Threads -> Content \union {None}]
    /\ masters \in [Threads -> Versions \union {None}]
    /\ made \in [Threads -> Handles \union {0}]
    /\ out \in [Threads -> [of : Content \union {None}, bytes : Nat]]
    /\ seen \in [Threads -> SUBSET Content]
    /\ handle \in Handles \union {0}
    /\ object \in {"unborn", "making", "live", "dropped"}
    /\ sessions \in 0..MaxSessions
    /\ state \in [1..sessions -> {"open", "closed", "freed"}]
    /\ ver \in [1..sessions -> Versions]
    /\ frees \in [1..sessions -> Nat]
    /\ names \in 0..MaxNames
    /\ spilled \in BOOLEAN /\ overlap \in BOOLEAN

Init ==
    /\ pc = [t \in Threads |-> "idle"]
    /\ op = [t \in Threads |-> "none"]
    /\ arg = [t \in Threads |-> 0]
    /\ again = [t \in Threads |-> FALSE]
    /\ rc = [t \in Threads |-> "ok"]
    /\ n = [t \in Threads |-> 0] /\ cap = [t \in Threads |-> 0]
    /\ staged = [t \in Threads |-> None]
    /\ masters = [t \in Threads |-> None]
    /\ made = [t \in Threads |-> 0]
    /\ out = [t \in Threads |-> NoOut]
    /\ seen = [t \in Threads |-> {}]
    /\ handle = 0 /\ object = "unborn" /\ overlap = FALSE
    /\ sessions = 0 /\ state = <<>> /\ ver = <<>> /\ frees = <<>>
    /\ names = 0
    /\ spilled = FALSE
-----------------------------------------------------------------------------
At(t, label) == pc[t] = label
GoTo(t, label) == pc' = [pc EXCEPT ![t] = label]

Live(h) == h \in 1..sessions /\ state[h] = "open"
Current == {ver[h] : h \in {x \in 1..sessions : state[x] # "freed"}}
           \union {names}

\* The sizes of a blob and of the catalogue's JSON.
SizeOf(x) == IF x \in Versions THEN Size[x] ELSE FloorCap + x

\* The cold-path counterpart of _retry_once serves the methods that return a
\* blob; a method without an output has no buffer.
Secret(t) == op[t] \in {"init", "save", "rekey"}
Buffered(o) == o \in {"init", "save", "rekey", "cipher", "profiles"}

Start(t, o) ==
    /\ op' = [op EXCEPT ![t] = o]
    /\ cap' = [cap EXCEPT ![t] = IF Buffered(o) THEN FloorCap ELSE 0]
    /\ seen' = [seen EXCEPT ![t] = Current]

\* init, init_keys, load, load_f: nobody else has the object yet.
BeginInit(t) ==
    /\ object = "unborn" /\ At(t, "idle")
    /\ sessions < MaxSessions
    /\ object' = "making"
    /\ \E o \in Constructors : Start(t, o)
    /\ GoTo(t, "call")
    /\ UNCHANGED <<masters, handle, overlap, arg, again, rc, n, staged, made>>
    /\ UNCHANGED <<out, spilled, libraryVars>>

BeginMethod(t) ==
    /\ object = "live" /\ At(t, "idle")
    /\ \E o \in OfSession, m \in Versions :
        /\ Start(t, o)
        /\ masters' = IF o = "rekey" THEN [masters EXCEPT ![t] = m] ELSE masters
    /\ GoTo(t, "read")
    /\ UNCHANGED <<arg, again, rc, n, staged, made, out, spilled>>
    /\ UNCHANGED <<libraryVars, objectVars>>

\* profiles, lookup, inspect and hash_names read the catalogue, or a part of
\* it that never changes; register adds to it.  None of them has a handle.
BeginCatalogue(t) ==
    /\ At(t, "idle")
    /\ \E o \in OfCatalogue : Start(t, o)
    /\ GoTo(t, "call")
    /\ UNCHANGED <<masters, arg, again, rc, n, staged, made, out, spilled>>
    /\ UNCHANGED <<libraryVars, objectVars>>

\* Each library call reads self._handle anew.
ReadHandle(t) ==
    /\ At(t, "read")
    /\ arg' = [arg EXCEPT ![t] = handle]
    /\ GoTo(t, "call")
    /\ UNCHANGED <<methodVars, again, rc, n, cap, staged, made, out, spilled>>
    /\ UNCHANGED <<libraryVars, objectVars>>
-----------------------------------------------------------------------------
(* What a library call may do. *)

Report(t, status, length) ==
    /\ rc' = [rc EXCEPT ![t] = status]
    /\ n' = [n EXCEPT ![t] = length]
    /\ GoTo(t, "status")

Fill(t, v) == staged' = [staged EXCEPT ![t] = v]

\* The buffer is large enough: it is filled and the length reported.
Gives(t, v, size) ==
    /\ size <= cap[t]
    /\ Fill(t, v)
    /\ Report(t, "ok", size)

\* It is not: the length wanted, and perhaps a part of the blob, is left.
WantsMore(t, v, size) ==
    /\ size > cap[t]
    /\ \/ Fill(t, v) \/ UNCHANGED staged
    /\ Report(t, "small", size)

\* The method fails; it reports no length, or one no larger than the buffer.
Refuses(t) ==
    /\ \/ Report(t, "error", 0)
       \/ Buffered(op[t]) /\ Report(t, "small", cap[t])
    /\ UNCHANGED staged

SetKeying(h, v) ==
    /\ ver' = [ver EXCEPT ![h] = v]
    /\ seen' = [t \in Threads |-> seen[t] \union {v}]

\* One more session, of the keying v: open, or closed and given up before the
\* call that made it returns.
Extended(f, x) == [h \in 1..(sessions + 1) |-> IF h <= sessions THEN f[h] ELSE x]
Construct(v, life) ==
    /\ sessions < MaxSessions
    /\ sessions' = sessions + 1
    /\ state' = Extended(state, life)
    /\ ver' = Extended(ver, v)
    /\ frees' = Extended(frees, 0)

StoreHandle(t) == made' = [made EXCEPT ![t] = sessions + 1]

\* A session that stays; or an undersized attempt, of whose session only the
\* handle may be left, in the cell the retry is given too.
CallInit(t) ==
    /\ At(t, "call") /\ op[t] = "init"
    /\ \/ \E v \in Versions : /\ Gives(t, v, Size[v])
                              /\ Construct(v, "open")
                              /\ StoreHandle(t)
       \/ \E v \in Versions : /\ WantsMore(t, v, Size[v])
                              /\ Construct(v, "freed")
                              /\ StoreHandle(t) \/ UNCHANGED made
       \/ Refuses(t) /\ UNCHANGED <<sessions, state, ver, frees, made>>
    /\ UNCHANGED <<methodVars, objectVars, names>>
    /\ UNCHANGED <<arg, again, cap, out, spilled>>

CallLoad(t) ==
    /\ At(t, "call") /\ op[t] = "load"
    /\ \/ \E v \in Versions : /\ Report(t, "ok", 0) /\ UNCHANGED staged
                              /\ Construct(v, "open")
                              /\ StoreHandle(t)
       \/ Refuses(t) /\ UNCHANGED <<sessions, state, ver, frees, made>>
    /\ UNCHANGED <<methodVars, objectVars, names>>
    /\ UNCHANGED <<arg, again, cap, out, spilled>>

CallSave(t) ==
    /\ At(t, "call") /\ op[t] = "save"
    /\ \/ /\ Live(arg[t])
          /\ LET v == ver[arg[t]] IN
             Gives(t, v, Size[v]) \/ WantsMore(t, v, Size[v])
       \/ Refuses(t)
    /\ UNCHANGED <<methodVars, libraryVars, objectVars>>
    /\ UNCHANGED <<arg, again, cap, made, out, spilled>>

\* A rotation that does not end in status OK may have taken hold or not.
CallRekey(t) ==
    /\ At(t, "call") /\ op[t] = "rekey"
    /\ \/ /\ Live(arg[t])
          /\ Gives(t, masters[t], Size[masters[t]])
          /\ SetKeying(arg[t], masters[t])
       \/ /\ Live(arg[t])
          /\ WantsMore(t, masters[t], Size[masters[t]]) \/ Refuses(t)
          /\ SetKeying(arg[t], masters[t]) \/ UNCHANGED <<ver, seen>>
       \/ Refuses(t) /\ UNCHANGED <<ver, seen>>
    /\ UNCHANGED <<op, masters, sessions, state, frees, names>>
    /\ UNCHANGED <<objectVars, arg, again, cap, made, out, spilled>>

\* The length of a cipher output is the library's affair, call by call.
CallCipher(t) ==
    /\ At(t, "call") /\ op[t] = "cipher"
    /\ \/ /\ Live(arg[t])
          /\ \E size \in OutSizes : /\ size <= cap[t]
                                    /\ Report(t, "ok", size)
       \/ /\ Live(arg[t])
          /\ \E size \in OutSizes : /\ size > cap[t]
                                    /\ Report(t, "small", size)
       \/ Refuses(t)
    /\ UNCHANGED <<methodVars, libraryVars, objectVars>>
    /\ UNCHANGED <<arg, again, cap, staged, made, out, spilled>>

\* close(): the session's keys are zeroed; its handle stays until freed.
CallClose(t) ==
    /\ At(t, "call") /\ op[t] = "close"
    /\ \/ /\ arg[t] \in 1..sessions /\ state[arg[t]] # "freed"
          /\ state' = [state EXCEPT ![arg[t]] = "closed"]
          /\ Report(t, "ok", 0)
          /\ UNCHANGED staged
       \/ Refuses(t) /\ UNCHANGED state
    /\ UNCHANGED <<methodVars, objectVars, sessions, ver, frees, names>>
    /\ UNCHANGED <<arg, again, cap, made, out, spilled>>

\* save_f(), whose file the library writes: a status and nothing else.  So is
\* max_workers(), which only passes its number on (pipeline.py:294-300).
CallSaveF(t) ==
    /\ At(t, "call") /\ op[t] = "saveF"
    /\ \/ Live(arg[t]) /\ Report(t, "ok", 0) /\ UNCHANGED staged
       \/ Refuses(t)
    /\ UNCHANGED <<methodVars, libraryVars, objectVars>>
    /\ UNCHANGED <<arg, again, cap, made, out, spilled>>

\* Through _json_out.
CallProfiles(t) ==
    /\ At(t, "call") /\ op[t] = "profiles"
    /\ \/ Gives(t, names, SizeOf(names))
       \/ WantsMore(t, names, SizeOf(names))
       \/ Refuses(t)
    /\ UNCHANGED <<methodVars, libraryVars, objectVars>>
    /\ UNCHANGED <<arg, again, cap, made, out, spilled>>

CallRegister(t) ==
    /\ At(t, "call") /\ op[t] = "register"
    /\ \/ /\ names < MaxNames
          /\ names' = names + 1
          /\ seen' = [x \in Threads |-> seen[x] \union {names'}]
          /\ Report(t, "ok", 0) /\ UNCHANGED staged
       \/ Refuses(t) /\ UNCHANGED <<names, seen>>
    /\ UNCHANGED <<op, masters, sessions, state, ver, frees, objectVars>>
    /\ UNCHANGED <<arg, again, cap, made, out, spilled>>

LibraryCall(t) ==
    \/ CallInit(t) \/ CallLoad(t) \/ CallSave(t) \/ CallRekey(t) \/ CallCipher(t)
    \/ CallSaveF(t) \/ CallClose(t) \/ CallProfiles(t) \/ CallRegister(t)
-----------------------------------------------------------------------------
(* The retry, and the way out. *)

MayRetry(t) ==
    /\ ~again[t]
    /\ rc[t] = "small"
    /\ n[t] > cap[t]

\* The buffer in hand is let go: with what is in it, or wiped.
LetGo(t, wiped) ==
    /\ staged' = [staged EXCEPT ![t] = None]
    /\ spilled' = (spilled \/ (Secret(t) /\ ~wiped /\ staged[t] # None))

ReplaceUnwiped(t) == LetGo(t, FALSE)       \* fault
Replace(t) == LetGo(t, TRUE)                \* memset, then a new buffer

\* One more try, with a buffer of the length the library reported; a method
\* of a session reads the handle again.
Retry(t) ==
    /\ At(t, "status") /\ MayRetry(t)
    /\ Replace(t)
    /\ cap' = [cap EXCEPT ![t] = n[t]]
    /\ again' = [again EXCEPT ![t] = TRUE]
    /\ GoTo(t, IF op[t] \in OfSession THEN "read" ELSE "call")
    /\ UNCHANGED <<methodVars, libraryVars, objectVars, arg, rc, n, made, out>>

\* There is no memory for it.
RetryAllocFails(t) ==
    /\ At(t, "status") /\ MayRetry(t)
    /\ LetGo(t, TRUE)
    /\ GoTo(t, "raised")
    /\ UNCHANGED <<methodVars, libraryVars, objectVars, arg, again, rc, n, cap>>
    /\ UNCHANGED <<made, out>>

\* check(rc).
PassesRetried(t) == rc[t] = "ok" \/ again[t]       \* fault: the first rc only
Passes(t) == rc[t] = "ok"

\* buf.raw[:n], which ends where the buffer does; the finally clause wipes it.
Check(t) ==
    /\ At(t, "status") /\ ~MayRetry(t)
    /\ LetGo(t, TRUE)
    /\ \/ /\ Passes(t)
          /\ out' = [out EXCEPT ![t] =
                [of |-> staged[t], bytes |-> IF n[t] < cap[t] THEN n[t] ELSE cap[t]]]
          /\ GoTo(t, "returned")
       \/ /\ ~Passes(t)
          /\ GoTo(t, "raised")
          /\ UNCHANGED out
    /\ UNCHANGED <<methodVars, libraryVars, objectVars, arg, again, rc, n, cap, made>>

Forget(t) ==
    /\ op' = [op EXCEPT ![t] = "none"]
    /\ out' = [out EXCEPT ![t] = NoOut]
    /\ made' = [made EXCEPT ![t] = 0]
    /\ masters' = [masters EXCEPT ![t] = None]
    /\ seen' = [seen EXCEPT ![t] = {}]
    /\ arg' = [arg EXCEPT ![t] = 0]
    /\ again' = [again EXCEPT ![t] = FALSE]
    /\ rc' = [rc EXCEPT ![t] = "ok"]
    /\ n' = [n EXCEPT ![t] = 0]
    /\ cap' = [cap EXCEPT ![t] = 0]
    /\ GoTo(t, "idle")

\* The caller has the result; a constructor's is the object itself.
Return(t) ==
    /\ pc[t] \in {"returned", "raised"}
    /\ IF op[t] \in Constructors
       THEN IF At(t, "returned")
            THEN handle' = made[t] /\ object' = "live"
            ELSE object' = "unborn" /\ UNCHANGED handle
       ELSE UNCHANGED <<handle, object>>
    /\ Forget(t)
    /\ UNCHANGED <<staged, spilled, overlap, libraryVars>>
-----------------------------------------------------------------------------
(* free(), from a caller, from __exit__ and from __del__. *)

FreeTest(t) ==
    /\ object = "live" /\ At(t, "idle")
    /\ handle # 0
    /\ GoTo(t, "freeRead")
    /\ UNCHANGED <<methodVars, bufferVars, libraryVars, objectVars>>

\* The test, the read and the store of 0 are steps of their own.  Another
\* thread may clear the handle after the test, and this one then frees the
\* handle 0, which libitb3 turns down; or read it before the store, and both
\* then free the same.
FreeRead(t) ==
    /\ At(t, "freeRead")
    /\ arg' = [arg EXCEPT ![t] = handle]
    /\ overlap' = (overlap \/ \E u \in Threads : At(u, "freeClear"))
    /\ GoTo(t, "freeClear")
    /\ UNCHANGED <<methodVars, again, rc, n, cap, staged, made, out, spilled>>
    /\ UNCHANGED <<libraryVars, handle, object>>

ClearedNot == handle        \* fault: the handle stays on the object
Cleared == 0

FreeClear(t) ==
    /\ At(t, "freeClear")
    /\ handle' = Cleared
    /\ GoTo(t, "freeCall")
    /\ UNCHANGED <<methodVars, bufferVars, libraryVars, object, overlap>>

\* A handle no longer open is turned down.
Release(h) ==
    /\ state' = [x \in 1..sessions |-> IF x = h THEN "freed" ELSE state[x]]
    /\ frees' = [x \in 1..sessions |-> frees[x] + (IF x = h THEN 1 ELSE 0)]

FreeCall(t) ==
    /\ At(t, "freeCall")
    /\ Release(arg[t])
    /\ arg' = [arg EXCEPT ![t] = 0]
    /\ GoTo(t, "idle")
    /\ UNCHANGED <<methodVars, again, rc, n, cap, staged, made, out, spilled>>
    /\ UNCHANGED <<sessions, ver, names, objectVars>>

\* __del__: no thread refers to the object any more.
Collect ==
    /\ object = "live"
    /\ \A t \in Threads : At(t, "idle")
    /\ object' = "dropped"
    /\ handle' = 0
    /\ Release(handle)
    /\ UNCHANGED <<pc, methodVars, bufferVars, sessions, ver, names, overlap>>

Step(t) ==
    \/ BeginInit(t) \/ BeginMethod(t) \/ BeginCatalogue(t) \/ ReadHandle(t)
    \/ LibraryCall(t)
    \/ Retry(t) \/ RetryAllocFails(t) \/ Check(t) \/ Return(t)
    \/ FreeTest(t) \/ FreeRead(t) \/ FreeClear(t) \/ FreeCall(t)

Next == (\E t \in Threads : Step(t)) \/ Collect

Spec == Init /\ [][Next]_vars
-----------------------------------------------------------------------------
\* What a method returns is one whole blob, or one whole catalogue: of the
\* masters it asked for, after a rekey, and otherwise of what there was at some
\* time while the method ran, in spite of rotations and registrations between
\* the undersized call and its retry (pipeline.py:34-51, 251-292, 404-462).
OutputIsWhole ==
    \A t \in Threads :
        At(t, "returned") /\ op[t] \in {"save", "rekey", "profiles"} =>
            /\ out[t].of \in seen[t]
            /\ out[t].bytes = SizeOf(out[t].of)
            /\ op[t] = "rekey" => out[t].of = masters[t]

\* No staging buffer is let go with a blob in it, on any way out
\* (pipeline.py:60-75: "zeroes the ctypes staging buffer before release").
StagingWiped ==
    /\ ~spilled
    /\ \A t \in Threads : pc[t] \in {"returned", "raised"} => staged[t] = None

\* The handle t has read off the object in order to free it.
Carries(t, h) == pc[t] \in {"freeClear", "freeCall"} /\ arg[t] = h

\* A session libitb3 still keeps is the object's, or in the hands of the
\* thread that constructs or frees it, whatever retries and failures came
\* before; and the object's handle is never that of a freed session, nor that
\* of an undersized attempt the retry was to replace
\* (pipeline.py:112-138, 363-373).
NothingOrphaned ==
    /\ \A h \in 1..sessions : state[h] # "freed" =>
        \/ handle = h
        \/ \E t \in Threads : made[t] = h \/ Carries(t, h)
    /\ handle # 0 => state[handle] # "freed"

\* However often, from wherever and from however many threads a Pipeline is
\* freed, its handle reaches ITB_Triple_Free once, with one exception: two
\* threads both between the read of the handle and the store of 0
\* (pipeline.py:363-373, "Safe to call more than once").
FreedOnce == ~overlap => \A h \in 1..sessions : frees[h] <= 1
=============================================================================
