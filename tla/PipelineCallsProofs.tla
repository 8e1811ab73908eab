------------------------ MODULE PipelineCallsProofs ------------------------
(***************************************************************************)
(* One Pipeline and the threads that share it, for any finite set of       *)
(* threads, any keyings and any sizes: no session is orphaned, no staging  *)
(* buffer is let go with a blob in it, what a method returns is whole, and *)
(* no handle is freed twice but by two threads that read it together.      *)
(*                                                                         *)
(* The life of the object carries the first (Ownership): while one thread  *)
(* constructs it nobody else is in a method of it or frees it, so that a   *)
(* session just made is overtaken by nothing on its way to the handle, and *)
(* the handle, once cleared, never names a session again.  The third rests *)
(* on what a thread has seen (Sight): every keying the session had since   *)
(* the method began, rotations included.  The fourth (Once) follows a      *)
(* handle from the object into the hands of one thread and from there into *)
(* the library.                                                            *)
(***************************************************************************)
EXTENDS PipelineCalls, TLAPS

\* A rekey has the masters it asks for.
Asking == \A t \in Threads : op[t] = "rekey" => masters[t] \in Versions

Typed == TypeOK /\ Asking

\* A blob is in a staging buffer between a call and the look at its status.
Staging ==
    /\ ~spilled
    /\ \A t \in Threads : pc[t] # "status" => staged[t] = None

\* A constructor's cell names a session that is not given up.
Holds(t) == made[t] # 0 /\ state[made[t]] # "freed"

\* Where a thread may be in the life of the object, and when it holds a
\* session nobody else knows of.
Place(t) ==
    /\ op[t] \in Constructors => object = "making"
    /\ op[t] \in OfSession \/ pc[t] \in {"freeRead", "freeClear", "freeCall"} =>
            object = "live"
    /\ pc[t] = "freeClear" /\ handle # 0 => arg[t] = handle
    /\ pc[t] = "freeCall" => handle = 0
    /\ op[t] = "none" <=> pc[t] \in {"idle", "freeRead", "freeClear", "freeCall"}
    /\ made[t] # 0 => op[t] \in Constructors /\ made[t] \in 1..sessions
    /\ Holds(t) <=> /\ op[t] \in Constructors
                    /\ pc[t] = "returned" \/ (pc[t] = "status" /\ rc[t] = "ok")

\* One constructor at a time; and every session is somebody's.
Ownership ==
    /\ object \in {"unborn", "making"} => handle = 0
    /\ handle \in 0..sessions
    /\ \A t, u \in Threads :
        op[t] \in Constructors /\ op[u] \in Constructors => t = u
    /\ \A t \in Threads : Place(t)
    /\ NothingOrphaned

Blobs == {"save", "rekey", "profiles"}

\* What a thread in a method has seen includes what there is now, what the
\* library left in its buffer, and what it returns.
Sees(t) ==
    /\ op[t] \in OfSession =>
        \A h \in 1..sessions : state[h] # "freed" => ver[h] \in seen[t]
    /\ op[t] = "profiles" => names \in seen[t]
    /\ pc[t] = "status" /\ rc[t] = "ok" /\ op[t] \in Blobs =>
        /\ staged[t] \in seen[t]
        /\ n[t] = SizeOf(staged[t])
        /\ n[t] <= cap[t]
        /\ op[t] = "rekey" => staged[t] = masters[t]
    /\ pc[t] = "returned" /\ op[t] \in Blobs =>
        /\ out[t].of \in seen[t]
        /\ out[t].bytes = SizeOf(out[t].of)
        /\ op[t] = "rekey" => out[t].of = masters[t]

Sight == \A t \in Threads : Sees(t)

\* A handle that has been freed is nobody's any more; and without an overlap
\* it is in the hands of one thread before.
Once ==
    /\ \A h \in 1..sessions : frees[h] # 0 => state[h] = "freed"
    /\ ~overlap =>
        /\ FreedOnce
        /\ \A h \in 1..sessions, t \in Threads : Carries(t, h) => frees[h] = 0
        /\ \A h \in Handles, t, u \in Threads :
            Carries(t, h) /\ Carries(u, h) => t = u

IInv == Typed /\ Staging /\ Ownership /\ Sight /\ Once
-----------------------------------------------------------------------------
\* Every blob and every catalogue has a size.
LEMMA Sizes == \A x \in Content : SizeOf(x) \in Nat
BY CallsAssumption DEF Content, SizeOf

\* What there is at any time is content of a known size.
LEMMA Known ==
    ASSUME TypeOK
    PROVE  /\ Current \subseteq Content /\ Versions \subseteq Content
           /\ names \in Content /\ SizeOf(names) \in Nat
           /\ \A v \in Versions : Size[v] \in Nat /\ SizeOf(v) = Size[v]
           /\ \A h : Live(h) => h \in Handles /\ h # 0 /\ ver[h] \in Versions
<1>1. Versions \subseteq Content /\ names \in Content
  BY DEF TypeOK, Content
<1>2. Current \subseteq Content
  <2>1. \A h \in 1..sessions : ver[h] \in Content
    BY <1>1 DEF TypeOK
  <2>. QED BY <1>1, <2>1 DEF Current
<1>3. \A v \in Versions : Size[v] \in Nat /\ SizeOf(v) = Size[v]
  BY CallsAssumption DEF SizeOf
<1>4. \A h : Live(h) => h \in Handles /\ h # 0 /\ ver[h] \in Versions
  BY CallsAssumption DEF TypeOK, Live, Handles
<1>. QED BY <1>1, <1>2, <1>3, <1>4, Sizes

\* What a call of the library leaves alone.
LEMMA CallFrame ==
    ASSUME NEW t \in Threads, LibraryCall(t)
    PROVE  /\ pc[t] = "call"
           /\ UNCHANGED <<op, masters, objectVars, arg, again, cap, out, spilled>>
BY DEF LibraryCall, CallInit, CallLoad, CallSave, CallRekey, CallCipher,
       CallSaveF, CallClose, CallProfiles, CallRegister, At,
       methodVars

\* What it touches, at the thread that makes it and nowhere else: the status
\* and the length, the buffer, and a constructor's handle.
LEMMA CallReports ==
    ASSUME Typed, NEW t \in Threads, LibraryCall(t)
    PROVE  /\ \E status \in {"ok", "small", "error"}, length \in Nat :
                  Report(t, status, length)
           /\ \E x \in Content \union {None} : staged' = [staged EXCEPT ![t] = x]
           /\ \E h \in Handles \union {0} : made' = [made EXCEPT ![t] = h]
<1>. DEFINE Reports == \E status \in {"ok", "small", "error"}, length \in Nat :
                           Report(t, status, length)
            Fills == \E x \in Content \union {None} : staged' = [staged EXCEPT ![t] = x]
            Makes == \E h \in Handles \union {0} : made' = [made EXCEPT ![t] = h]
<1>1. TypeOK /\ 0 \in Nat /\ cap[t] \in Nat
  BY DEF Typed, TypeOK
<1>2. UNCHANGED staged => Fills
  <2>1. staged = [staged EXCEPT ![t] = staged[t]] /\ staged[t] \in Content \union {None}
    BY <1>1 DEF TypeOK
  <2>. QED BY <2>1
<1>3. UNCHANGED made => Makes
  <2>1. made = [made EXCEPT ![t] = made[t]] /\ made[t] \in Handles \union {0}
    BY <1>1 DEF TypeOK
  <2>. QED BY <2>1
<1>4. \A v \in Content : Fill(t, v) => Fills
  BY DEF Fill
<1>5. ASSUME NEW v, NEW life, Construct(v, life), StoreHandle(t) PROVE Makes
  <2>1. sessions + 1 \in Handles
    BY <1>1, <1>5, CallsAssumption DEF Construct, Handles, TypeOK
  <2>. QED BY <1>5, <2>1 DEF StoreHandle
<1>6. Refuses(t) => Reports /\ Fills
  <2>1. Refuses(t) => Reports
    BY <1>1 DEF Refuses
  <2>. QED BY <2>1, <1>2 DEF Refuses
<1>7. ASSUME NEW v \in Content, Gives(t, v, SizeOf(v)) \/ WantsMore(t, v, SizeOf(v))
      PROVE  Reports /\ Fills
  <2>1. SizeOf(v) \in Nat
    BY Sizes
  <2>. HIDE DEF Fills
  <2>. QED BY <1>2, <1>4, <1>7, <2>1 DEF Gives, WantsMore
<1>. HIDE DEF Fills, Makes, Reports
<1>. USE Known, <1>1
<1>8. CASE CallInit(t)
  <2>1. ASSUME NEW v \in Versions,
               \/ Gives(t, v, Size[v]) /\ Construct(v, "open") /\ StoreHandle(t)
               \/ /\ WantsMore(t, v, Size[v]) /\ Construct(v, "freed")
                  /\ StoreHandle(t) \/ UNCHANGED made
        PROVE  Reports /\ Fills /\ Makes
    <3>1. v \in Content /\ Size[v] = SizeOf(v)
      OBVIOUS
    <3>. QED BY <1>3, <1>5, <1>7, <2>1, <3>1
  <2>2. CASE Refuses(t) /\ UNCHANGED made
    BY <1>3, <1>6, <2>2 DEF Reports, Fills, Makes
  <2>. QED BY <1>8, <2>1, <2>2 DEF CallInit, Reports, Fills, Makes
<1>9. CASE CallLoad(t)
  BY <1>2, <1>3, <1>5, <1>6, <1>9 DEF CallLoad, Reports, Fills, Makes
<1>10. CASE CallSaveF(t) \/ CallClose(t) \/ CallRegister(t)
  BY <1>2, <1>3, <1>6, <1>10 DEF CallSaveF, CallClose,
     CallRegister, Reports, Fills, Makes
<1>11. CASE CallSave(t)
  BY <1>3, <1>6, <1>7, <1>11 DEF CallSave, Reports, Fills, Makes
<1>12. CASE CallRekey(t)
  <2>1. masters[t] \in Versions
    BY <1>12 DEF CallRekey, Typed, Asking
  <2>2. masters[t] \in Content /\ Size[masters[t]] = SizeOf(masters[t])
    BY <2>1
  <2>. QED BY <1>3, <1>6, <1>7, <1>12, <2>2 DEF CallRekey, Reports, Fills, Makes
<1>13. CASE CallCipher(t)
  BY <1>2, <1>3, <1>6, <1>13, CallsAssumption DEF CallCipher, Reports, Fills,
     Makes
<1>14. CASE CallProfiles(t)
  BY <1>3, <1>6, <1>7, <1>14 DEF CallProfiles, Reports, Fills, Makes
<1>. QED BY <1>8, <1>9, <1>10, <1>11, <1>12, <1>13, <1>14 DEF LibraryCall,
   Reports, Fills, Makes

\* Only content is ever seen.
LEMMA SeenStep ==
    ASSUME Typed, NEW t \in Threads, Step(t)
    PROVE  seen' \in [Threads -> SUBSET Content]
<1>. USE DEF methodVars
<1>1. seen \in [Threads -> SUBSET Content]
  BY DEF Typed, TypeOK
<1>2. UNCHANGED seen => seen' \in [Threads -> SUBSET Content]
  BY <1>1
<1>3. CASE BeginInit(t) \/ BeginMethod(t) \/ BeginCatalogue(t)
  <2>1. Current \in SUBSET Content
    BY Known DEF Typed
  <2>2. seen' = [seen EXCEPT ![t] = Current]
    BY <1>3 DEF BeginInit, BeginMethod, BeginCatalogue, Start
  <2>. QED BY <1>1, <2>1, <2>2
<1>4. CASE CallRekey(t)
  <2>1. masters[t] \in Content
    BY <1>4, Known DEF CallRekey, Typed, Asking
  <2>. QED BY <1>1, <1>2, <1>4, <2>1 DEF CallRekey, SetKeying
<1>5. CASE CallRegister(t)
  <2>1. names < MaxNames => names + 1 \in Content
    BY CallsAssumption DEF Typed, TypeOK, Content
  <2>2. CASE UNCHANGED seen
    BY <1>2, <2>2
  <2>3. CASE names < MaxNames /\ seen' = [x \in Threads |-> seen[x] \union {names + 1}]
    BY <1>1, <2>1, <2>3
  <2>. QED BY <1>5, <2>2, <2>3 DEF CallRegister
<1>6. CASE \/ ReadHandle(t) \/ Retry(t) \/ RetryAllocFails(t) \/ Check(t)
           \/ FreeTest(t) \/ FreeRead(t) \/ FreeClear(t) \/ FreeCall(t)
  BY <1>2, <1>6
     DEF ReadHandle, Retry, RetryAllocFails, Check, FreeTest, FreeRead, FreeClear,
     FreeCall
<1>7. CASE Return(t)
  BY <1>1, <1>7 DEF Return, Forget
<1>8. CASE \/ CallInit(t) \/ CallLoad(t) \/ CallSave(t) \/ CallCipher(t)
           \/ CallSaveF(t) \/ CallClose(t) \/ CallProfiles(t)
  BY <1>2, <1>8 DEF CallInit, CallLoad, CallSave, CallCipher, CallSaveF,
     CallClose, CallProfiles
<1>. QED BY <1>3, <1>4, <1>5, <1>6, <1>7, <1>8 DEF Step, LibraryCall

\* Every step keeps the types.
LEMMA TypedStep ==
    ASSUME Typed, NEW t \in Threads, Step(t)
    PROVE  Typed'
<1>. USE DEF GoTo, methodVars, bufferVars, libraryVars, objectVars
<1>0. /\ TypeOK /\ Asking /\ FloorCap \in Nat /\ 0 \in Nat
      /\ seen' \in [Threads -> SUBSET Content]
  BY SeenStep, CallsAssumption DEF Typed
<1>1. /\ handle \in Handles \union {0}
      /\ object \in {"unborn", "making", "live", "dropped"}
      /\ sessions \in 0..MaxSessions
      /\ state \in [1..sessions -> {"open", "closed", "freed"}]
      /\ ver \in [1..sessions -> Versions]
      /\ frees \in [1..sessions -> Nat]
      /\ names \in 0..MaxNames
      /\ spilled \in BOOLEAN /\ overlap \in BOOLEAN
  BY <1>0 DEF TypeOK
<1>2. CASE BeginInit(t)
  <2>1. TypeOK'
    <3>1. PICK o \in Constructors : Start(t, o)
      BY <1>2 DEF BeginInit
    <3>2. /\ op' \in [Threads -> Ops] /\ pc' \in [Threads -> Labels]
          /\ cap' \in [Threads -> Nat]
      BY <1>0, <1>2, <3>1 DEF TypeOK, BeginInit, Start, Ops, Labels
    <3>. QED BY <1>0, <1>1, <1>2, <3>2 DEF TypeOK, BeginInit
  <2>2. Asking'
    BY <1>0, <1>2 DEF TypeOK, Asking, BeginInit, Start, Constructors
  <2>. QED BY <2>1, <2>2 DEF Typed
<1>3. CASE BeginMethod(t)
  <2>1. TypeOK'
    <3>1. PICK o \in OfSession, m \in Versions :
             /\ Start(t, o)
             /\ masters' = IF o = "rekey" THEN [masters EXCEPT ![t] = m]
                                         ELSE masters
      BY <1>3 DEF BeginMethod
    <3>2. /\ op' \in [Threads -> Ops] /\ pc' \in [Threads -> Labels]
          /\ cap' \in [Threads -> Nat]
          /\ masters' \in [Threads -> Versions \union {None}]
      BY <1>0, <1>3, <3>1 DEF TypeOK, BeginMethod, Start, Ops, Labels
    <3>. QED BY <1>0, <1>1, <1>3, <3>2 DEF TypeOK, BeginMethod
  <2>2. Asking'
    BY <1>0, <1>3 DEF TypeOK, Asking, BeginMethod, Start
  <2>. QED BY <2>1, <2>2 DEF Typed
<1>4. CASE BeginCatalogue(t) \/ ReadHandle(t)
  <2>1. TypeOK'
    <3>1. CASE BeginCatalogue(t)
      BY <1>0, <3>1 DEF TypeOK, BeginCatalogue, Start, Ops, OfCatalogue, Labels
    <3>2. CASE ReadHandle(t)
      BY <1>0, <3>2 DEF TypeOK, ReadHandle, Labels
    <3>. QED BY <1>4, <3>1, <3>2
  <2>2. Asking'
    BY <1>0, <1>4 DEF TypeOK, Asking, BeginCatalogue, ReadHandle, Start,
       OfCatalogue
  <2>. QED BY <2>1, <2>2 DEF Typed
<1>5. CASE LibraryCall(t)
  <2>1. Asking'
    BY <1>0, <1>5, CallFrame DEF Asking
  <2>2. /\ pc' \in [Threads -> Labels]
        /\ rc' \in [Threads -> {"ok", "small", "error"}]
        /\ n' \in [Threads -> Nat]
        /\ staged' \in [Threads -> Content \union {None}]
        /\ made' \in [Threads -> Handles \union {0}]
    <3>1. PICK status \in {"ok", "small", "error"}, length \in Nat :
                Report(t, status, length)
      BY <1>0, <1>5, CallReports DEF Typed
    <3>2. PICK x \in Content \union {None} : staged' = [staged EXCEPT ![t] = x]
      BY <1>0, <1>5, CallReports DEF Typed
    <3>3. PICK h \in Handles \union {0} : made' = [made EXCEPT ![t] = h]
      BY <1>0, <1>5, CallReports DEF Typed
    <3>. QED BY <1>0, <3>1, <3>2, <3>3 DEF Report, TypeOK, Labels
  <2>3. /\ sessions' \in 0..MaxSessions
        /\ state' \in [1..sessions' -> {"open", "closed", "freed"}]
        /\ ver' \in [1..sessions' -> Versions]
        /\ frees' \in [1..sessions' -> Nat]
        /\ names' \in 0..MaxNames
    <3>1. ASSUME NEW v \in Versions, NEW life \in {"open", "freed"},
                 Construct(v, life), UNCHANGED names
          PROVE  <2>3
      BY <1>1, <3>1, CallsAssumption DEF Construct, Extended
    <3>2. CASE CallInit(t) \/ CallLoad(t)
      BY <1>1, <3>1, <3>2 DEF CallInit, CallLoad
    <3>3. CASE CallSave(t) \/ CallCipher(t) \/ CallSaveF(t) \/ CallProfiles(t)
      BY <1>1, <3>3 DEF CallSave, CallCipher, CallSaveF, CallProfiles
    <3>4. CASE CallRekey(t)
      <4>1. masters[t] \in Versions
        BY <1>0, <3>4 DEF CallRekey, Asking
      <4>. QED BY <1>1, <3>4, <4>1 DEF CallRekey, SetKeying
    <3>6. CASE CallClose(t)
      BY <1>1, <3>6 DEF CallClose
    <3>7. CASE CallRegister(t)
      BY <1>1, <3>7, CallsAssumption DEF CallRegister
    <3>. QED BY <1>5, <3>2, <3>3, <3>4, <3>6, <3>7 DEF LibraryCall
  <2>4. TypeOK'
    BY <1>0, <1>5, <2>2, <2>3, CallFrame DEF TypeOK
  <2>. QED BY <2>1, <2>4 DEF Typed
<1>6. CASE Retry(t)
  <2>1. TypeOK'
    BY <1>0, <1>6 DEF TypeOK, Retry, Replace, LetGo, Labels
  <2>2. Asking'
    BY <1>0, <1>6 DEF Asking, Retry
  <2>. QED BY <2>1, <2>2 DEF Typed
<1>7. CASE RetryAllocFails(t)
  <2>1. TypeOK'
    BY <1>0, <1>7 DEF TypeOK, RetryAllocFails, LetGo, Labels
  <2>2. Asking'
    BY <1>0, <1>7 DEF Asking, RetryAllocFails
  <2>. QED BY <2>1, <2>2 DEF Typed
<1>8. CASE Check(t)
  <2>0. /\ pc' \in [Threads -> Labels]
        /\ out' \in [Threads -> [of : Content \union {None}, bytes : Nat]]
        /\ staged' \in [Threads -> Content \union {None}]
        /\ spilled' \in BOOLEAN
    <3>1. /\ staged' \in [Threads -> Content \union {None}] /\ spilled' \in BOOLEAN
          /\ pc' \in [Threads -> Labels]
      BY <1>0, <1>8 DEF TypeOK, Check, LetGo, Labels
    <3>2. CASE UNCHANGED out
      BY <1>0, <3>1, <3>2 DEF TypeOK
    <3>3. DEFINE whole == [of |-> staged[t],
                           bytes |-> IF n[t] < cap[t] THEN n[t] ELSE cap[t]]
    <3>4. whole \in [of : Content \union {None}, bytes : Nat]
      BY <1>0 DEF TypeOK
    <3>5. CASE out' = [out EXCEPT ![t] = whole]
      <4>. HIDE DEF whole
      <4>. QED BY <1>0, <3>1, <3>4, <3>5 DEF TypeOK
    <3>. QED BY <1>8, <3>2, <3>5 DEF Check
  <2>1. TypeOK'
    BY <1>0, <1>8, <2>0 DEF TypeOK, Check
  <2>2. Asking'
    BY <1>0, <1>8 DEF Asking, Check
  <2>. QED BY <2>1, <2>2 DEF Typed
<1>9. CASE Return(t)
  <2>0. /\ NoOut \in [of : Content \union {None}, bytes : Nat]
        /\ handle' \in Handles \union {0}
        /\ object' \in {"unborn", "making", "live", "dropped"}
    BY <1>0, <1>9 DEF NoOut, TypeOK, Return
  <2>1. TypeOK'
    BY <1>0, <1>9, <2>0 DEF TypeOK, Return, Forget, Labels, Ops
  <2>2. Asking'
    BY <1>0, <1>9 DEF Asking, Return, Forget, TypeOK
  <2>. QED BY <2>1, <2>2 DEF Typed
<1>10. CASE FreeTest(t) \/ FreeRead(t) \/ FreeClear(t) \/ FreeCall(t)
  <2>1. TypeOK'
    <3>1. CASE FreeTest(t)
      BY <1>0, <3>1 DEF TypeOK, FreeTest, Labels
    <3>2. CASE FreeRead(t)
      BY <1>0, <3>2 DEF TypeOK, FreeRead, Labels
    <3>3. CASE FreeClear(t)
      BY <1>0, <3>3 DEF TypeOK, FreeClear, Cleared, Labels
    <3>4. CASE FreeCall(t)
      BY <1>0, <1>1, <3>4 DEF TypeOK, FreeCall, Release, Labels
    <3>. QED BY <1>10, <3>1, <3>2, <3>3, <3>4
  <2>2. Asking'
    BY <1>0, <1>10 DEF Asking, FreeTest, FreeRead, FreeClear, FreeCall
  <2>. QED BY <2>1, <2>2 DEF Typed
<1>. QED BY <1>2, <1>3, <1>4, <1>5, <1>6, <1>7, <1>8, <1>9, <1>10 DEF Step

\* A step of one thread leaves the method and the buffers of the others alone.
LEMMA Others ==
    ASSUME Typed, NEW t \in Threads, Step(t), NEW u \in Threads, u # t
    PROVE  /\ pc'[u] = pc[u] /\ op'[u] = op[u] /\ arg'[u] = arg[u]
           /\ again'[u] = again[u] /\ rc'[u] = rc[u] /\ n'[u] = n[u]
           /\ cap'[u] = cap[u] /\ staged'[u] = staged[u]
           /\ masters'[u] = masters[u] /\ made'[u] = made[u] /\ out'[u] = out[u]
<1>. USE DEF Typed, TypeOK, GoTo, Report, Fill, methodVars, bufferVars,
   libraryVars, objectVars
<1>1. CASE BeginInit(t) \/ BeginMethod(t) \/ BeginCatalogue(t) \/ ReadHandle(t)
  BY <1>1 DEF BeginInit, BeginMethod, BeginCatalogue, Start, ReadHandle
<1>2. CASE LibraryCall(t)
  <2>. USE DEF Gives, WantsMore, Refuses
  <2>1. CASE CallInit(t) \/ CallLoad(t)
    BY <2>1 DEF CallInit, CallLoad, StoreHandle
  <2>2. CASE CallSave(t) \/ CallRekey(t) \/ CallCipher(t) \/ CallSaveF(t)
    BY <2>2 DEF CallSave, CallRekey, CallCipher, CallSaveF
  <2>3. CASE CallClose(t) \/ CallProfiles(t) \/ CallRegister(t)
    BY <2>3 DEF CallClose, CallProfiles, CallRegister
  <2>. QED BY <1>2, <2>1, <2>2, <2>3 DEF LibraryCall
<1>3. CASE Retry(t) \/ RetryAllocFails(t) \/ Check(t) \/ Return(t)
  BY <1>3 DEF Retry, RetryAllocFails, Check, Return, Replace, LetGo, Forget
<1>4. CASE FreeTest(t) \/ FreeRead(t) \/ FreeClear(t) \/ FreeCall(t)
  BY <1>4 DEF FreeTest, FreeRead, FreeClear, FreeCall
<1>. QED BY <1>1, <1>2, <1>3, <1>4 DEF Step


\* Every step leaves a buffer wiped or in the hands of a method that will wipe
\* it (pipeline.py:54-77).
LEMMA StagingStep ==
    ASSUME Typed, Staging, NEW t \in Threads, Step(t)
    PROVE  Staging'
<1>0. TypeOK
  BY DEF Typed
<1>1. ASSUME NEW u \in Threads, u # t, pc'[u] # "status"
      PROVE  staged'[u] = None
  BY <1>1, Others DEF Staging
<1>2. (pc'[t] # "status" => staged'[t] = None) /\ ~spilled'
  <2>. USE <1>0 DEF Staging, TypeOK, GoTo, bufferVars
  <2>1. CASE BeginInit(t) \/ BeginMethod(t) \/ BeginCatalogue(t) \/ ReadHandle(t)
    BY <2>1 DEF BeginInit, BeginMethod, BeginCatalogue, ReadHandle, At
  <2>2. CASE LibraryCall(t)
    <3>1. pc'[t] = "status"
      BY <2>2, CallReports DEF Report
    <3>. QED BY <2>2, <3>1, CallFrame
  <2>3. CASE Retry(t) \/ RetryAllocFails(t) \/ Check(t)
    BY <2>3 DEF Retry, RetryAllocFails, Check, Replace, LetGo
  <2>4. CASE Return(t)
    BY <2>4 DEF Return
  <2>5. CASE FreeTest(t) \/ FreeRead(t) \/ FreeClear(t) \/ FreeCall(t)
    BY <2>5 DEF FreeTest, FreeRead, FreeClear, FreeCall, At
  <2>. QED BY <2>1, <2>2, <2>3, <2>4, <2>5 DEF Step
<1>. QED BY <1>1, <1>2 DEF Staging
-----------------------------------------------------------------------------
\* A session more is given up at once, or that of the constructor that made the
\* step; a session is freed only by the thread that took its handle off the
\* object.
LEMMA SessionsStep ==
    ASSUME Typed, Ownership, NEW t \in Threads, Step(t)
    PROVE  /\ \/ sessions' = sessions
              \/ /\ sessions' = sessions + 1
                 /\ pc[t] = "call" /\ op[t] \in Constructors /\ pc'[t] = "status"
                 /\ \/ state'[sessions'] = "freed"
                    \/ /\ state'[sessions'] = "open"
                       /\ made'[t] = sessions' /\ rc'[t] = "ok"
           /\ \A h \in 1..sessions :
                state'[h] = "freed" <=> \/ state[h] = "freed"
                                        \/ pc[t] = "freeCall" /\ arg[t] = h
<1>0. /\ sessions \in Nat /\ state \in [1..sessions -> {"open", "closed", "freed"}]
      /\ pc \in [Threads -> Labels] /\ rc \in [Threads -> {"ok", "small", "error"}]
      /\ made \in [Threads -> Handles \union {0}]
  BY DEF Typed, TypeOK
<1>1. ASSUME pc[t] # "freeCall", UNCHANGED <<sessions, state>>
      PROVE  /\ sessions' = sessions
             /\ \A h \in 1..sessions : state'[h] = "freed" <=> state[h] = "freed"
  BY <1>1
<1>. USE <1>0, <1>1 DEF At, GoTo, libraryVars
<1>2. CASE BeginInit(t) \/ BeginMethod(t) \/ BeginCatalogue(t) \/ ReadHandle(t)
  BY <1>2 DEF BeginInit, BeginMethod, BeginCatalogue, ReadHandle
<1>3. CASE CallInit(t) \/ CallLoad(t)
  <2>0. pc[t] = "call" /\ op[t] \in Constructors
    BY <1>3 DEF CallInit, CallLoad, Constructors
  <2>1. ASSUME NEW v, NEW life, Construct(v, life)
        PROVE  /\ sessions' = sessions + 1 /\ state'[sessions'] = life
               /\ \A h \in 1..sessions : state'[h] = state[h]
    BY <2>1 DEF Construct, Extended
  <2>2. \A status, length : Report(t, status, length) =>
            pc'[t] = "status" /\ rc'[t] = status
    BY DEF Report
  <2>3. StoreHandle(t) => made'[t] = sessions + 1
    BY DEF StoreHandle
  <2>. QED BY <1>3, <2>0, <2>1, <2>2, <2>3 DEF CallInit, CallLoad, Gives,
     WantsMore
<1>4. CASE \/ CallSave(t) \/ CallRekey(t) \/ CallCipher(t) \/ CallSaveF(t)
           \/ CallProfiles(t) \/ CallRegister(t)
  BY <1>4 DEF CallSave, CallRekey, CallCipher, CallSaveF,
              CallProfiles, CallRegister
<1>5. CASE CallClose(t)
  BY <1>5 DEF CallClose
<1>6. CASE Retry(t) \/ RetryAllocFails(t) \/ Check(t)
  BY <1>6 DEF Retry, RetryAllocFails, Check
<1>7. CASE Return(t) \/ FreeTest(t) \/ FreeRead(t) \/ FreeClear(t)
  BY <1>7 DEF Return, FreeTest, FreeRead, FreeClear
<1>8. CASE FreeCall(t)
  BY <1>8 DEF FreeCall, Release
<1>. QED BY <1>2, <1>3, <1>4, <1>5, <1>6, <1>7, <1>8 DEF Step, LibraryCall

\* The thread of the step stays where it may be.
LEMMA PlaceStep ==
    ASSUME Typed, Ownership, NEW t \in Threads, Step(t)
    PROVE  Place(t)'
<1>0. /\ pc \in [Threads -> Labels] /\ rc \in [Threads -> {"ok", "small", "error"}]
      /\ op \in [Threads -> Ops] /\ sessions \in Nat
      /\ made \in [Threads -> Handles \union {0}]
      /\ arg \in [Threads -> Handles \union {0}]
      /\ Place(t) /\ sessions' \in Nat /\ handle \in 0..sessions
      /\ object \in {"unborn", "making"} => handle = 0
      /\ handle # 0 => state[handle] # "freed"
  <2>1. TypeOK /\ Ownership /\ NothingOrphaned /\ TypeOK'
    BY TypedStep DEF Typed, Ownership
  <2>2. /\ Place(t) /\ handle \in 0..sessions
        /\ object \in {"unborn", "making"} => handle = 0
    BY <2>1 DEF Ownership
  <2>3. sessions \in Nat /\ sessions' \in Nat
    BY <2>1 DEF TypeOK
  <2>4. handle # 0 => state[handle] # "freed"
    BY <2>1 DEF NothingOrphaned
  <2>. QED BY <2>1, <2>2, <2>3, <2>4 DEF TypeOK
<1>. USE <1>0 DEF Place, Constructors, OfSession, OfCatalogue, At, GoTo,
     libraryVars, objectVars, methodVars, bufferVars
<1>1. CASE BeginInit(t) \/ BeginMethod(t)
  <2>1. CASE BeginInit(t)
    BY <2>1 DEF BeginInit, Start, Holds
  <2>2. CASE BeginMethod(t)
    BY <2>2 DEF BeginMethod, Start, Holds
  <2>. QED BY <1>1, <2>1, <2>2
<1>2. CASE BeginCatalogue(t) \/ ReadHandle(t)
  <2>1. CASE BeginCatalogue(t)
    BY <2>1 DEF BeginCatalogue, Start, Holds
  <2>2. CASE ReadHandle(t)
    BY <2>2 DEF ReadHandle, Holds
  <2>. QED BY <1>2, <2>1, <2>2
<1>3. CASE LibraryCall(t)
  <2>1. /\ pc[t] = "call" /\ pc'[t] = "status" /\ ~Holds(t)
        /\ UNCHANGED <<op, handle, object>>
    BY <1>3, CallFrame, CallReports DEF Report
  <2>2. CASE CallInit(t) \/ CallLoad(t)
    <3>1. op[t] \in Constructors /\ op'[t] = op[t]
      BY <2>1, <2>2 DEF CallInit, CallLoad
    <3>2. ASSUME NEW v, NEW life, Construct(v, life)
          PROVE  /\ sessions' = sessions + 1 /\ state'[sessions'] = life
                 /\ \A h \in 1..sessions : state'[h] = state[h]
      BY <3>2 DEF Construct, Extended
    <3>3. \A status, length : Report(t, status, length) => rc'[t] = status
      BY DEF Report
    <3>4. StoreHandle(t) => made'[t] = sessions + 1
      BY DEF StoreHandle
    <3>5. CASE UNCHANGED <<sessions, state, made>> /\ rc'[t] # "ok"
      BY <2>1, <3>1, <3>5 DEF Holds
    <3>6. ASSUME NEW v, Construct(v, "freed"), rc'[t] # "ok",
                 StoreHandle(t) \/ UNCHANGED made
          PROVE  Place(t)'
      BY <2>1, <3>1, <3>2, <3>4, <3>6 DEF Holds
    <3>7. ASSUME NEW v, Construct(v, "open"), rc'[t] = "ok", StoreHandle(t)
          PROVE  Place(t)'
      BY <2>1, <3>1, <3>2, <3>4, <3>7 DEF Holds
    <3>. QED BY <2>2, <3>3, <3>5, <3>6, <3>7 DEF CallInit, CallLoad, Gives,
       WantsMore, Refuses
  <2>3. CASE ~(CallInit(t) \/ CallLoad(t))
    <3>1. op[t] \notin Constructors /\ UNCHANGED made
      BY <1>3, <2>3 DEF LibraryCall, CallSave, CallRekey, CallCipher, CallSaveF,
         CallClose, CallProfiles, CallRegister
    <3>. QED BY <2>1, <3>1 DEF Holds
  <2>. QED BY <2>2, <2>3
<1>4. CASE Retry(t) \/ RetryAllocFails(t)
  BY <1>4 DEF Retry, RetryAllocFails, MayRetry, Holds
<1>5. CASE Check(t)
  BY <1>5 DEF Check, Passes, Holds
<1>6. CASE Return(t)
  BY <1>6 DEF Return, Forget, Holds
<1>7. CASE FreeTest(t) \/ FreeRead(t)
  BY <1>7 DEF FreeTest, FreeRead, Holds
<1>8. CASE FreeClear(t)
  BY <1>8 DEF FreeClear, Cleared, Holds
<1>9. CASE FreeCall(t)
  BY <1>9 DEF FreeCall, Holds
<1>. QED BY <1>1, <1>2, <1>3, <1>4, <1>5, <1>6, <1>7, <1>8, <1>9 DEF Step

\* What a step does to the object and its handle.
LEMMA ObjectStep ==
    ASSUME Typed, Ownership, NEW t \in Threads, Step(t)
    PROVE  \/ UNCHANGED <<handle, object>>
           \/ object = "unborn" /\ object' = "making" /\ UNCHANGED handle
           \/ /\ op[t] \in Constructors /\ op'[t] = "none"
              /\ \/ object' = "unborn" /\ UNCHANGED handle /\ ~Holds(t)
                 \/ object' = "live" /\ handle' = made[t] /\ Holds(t)
              /\ pc[t] \in {"returned", "raised"}
           \/ /\ pc[t] = "freeClear" /\ handle' = 0 /\ UNCHANGED object
              /\ pc'[t] = "freeCall" /\ arg'[t] = arg[t]
<1>0. /\ Place(t) /\ pc \in [Threads -> Labels] /\ op \in [Threads -> Ops]
      /\ arg \in [Threads -> Handles \union {0}]
  BY DEF Ownership, Typed, TypeOK
<1>. USE DEF objectVars, At, GoTo
<1>1. CASE BeginInit(t)
  BY <1>1 DEF BeginInit
<1>2. CASE \/ BeginMethod(t) \/ BeginCatalogue(t) \/ ReadHandle(t)
           \/ Retry(t) \/ RetryAllocFails(t)
           \/ Check(t) \/ FreeTest(t) \/ FreeCall(t)
  BY <1>2 DEF BeginMethod, BeginCatalogue, ReadHandle, Retry, RetryAllocFails,
     Check, FreeTest, FreeCall
<1>3. CASE LibraryCall(t)
  BY <1>3, CallFrame
<1>4. CASE Return(t)
  BY <1>0, <1>4 DEF Return, Forget, Place
<1>5. CASE FreeRead(t) \/ FreeClear(t)
  BY <1>0, <1>5 DEF FreeRead, FreeClear, Cleared, bufferVars
<1>. QED BY <1>1, <1>2, <1>3, <1>4, <1>5 DEF Step

\* Every step leaves every session somebody's (pipeline.py:108-138, 195-249,
\* 363-392).
LEMMA OwnershipStep ==
    ASSUME Typed, Ownership, NEW t \in Threads, Step(t)
    PROVE  Ownership'
<1>0. /\ pc \in [Threads -> Labels] /\ op \in [Threads -> Ops]
      /\ sessions \in Nat /\ sessions' \in Nat
      /\ object \in {"unborn", "making", "live", "dropped"}
      /\ object \in {"unborn", "making"} => handle = 0
      /\ handle \in 0..sessions /\ NothingOrphaned
      /\ \A u \in Threads : Place(u)
  BY TypedStep DEF Typed, TypeOK, Ownership
<1>1. Place(t)'
  BY PlaceStep
<1>2. \A u \in Threads \ {t} :
         pc'[u] = pc[u] /\ op'[u] = op[u] /\ rc'[u] = rc[u]
         /\ made'[u] = made[u] /\ arg'[u] = arg[u]
  BY Others
<1>3. \A u \in Threads \ {t} : Place(u)'
  <2>1. SUFFICES ASSUME NEW u \in Threads, u # t PROVE Place(u)'
    OBVIOUS
  <2>2. Place(u) /\ Place(t) /\ (op[t] \in Constructors => op[u] \notin Constructors)
    BY <1>0, <2>1 DEF Ownership
  <2>3. made[u] # 0 => /\ op[u] \in Constructors /\ made[u] \in 1..sessions'
                       /\ state'[made[u]] = "freed" <=> state[made[u]] = "freed"
    BY <1>0, <2>2, SessionsStep DEF Place, Constructors, OfSession
  <2>4. /\ op[u] \in Constructors => object' = "making"
        /\ op[u] \in OfSession \/ pc[u] \in {"freeRead", "freeClear", "freeCall"} =>
                object' = "live"
        /\ pc[u] = "freeClear" /\ handle' # 0 => arg[u] = handle'
        /\ pc[u] = "freeCall" => handle' = 0
    BY <1>0, <2>2, ObjectStep DEF Place, Constructors, OfSession
  <2>5. Holds(u)' <=> Holds(u)
    BY <1>2, <2>1, <2>3 DEF Holds
  <2>. QED BY <1>2, <2>1, <2>2, <2>3, <2>4, <2>5 DEF Place
<1>4. /\ object' \in {"unborn", "making"} => handle' = 0
      /\ handle' \in 0..sessions'
      /\ handle' # 0 => state'[handle'] # "freed"
  <2>1. Place(t) /\ (handle # 0 => state[handle] # "freed")
    BY <1>0 DEF NothingOrphaned
  <2>. QED BY <1>0, <2>1, ObjectStep, SessionsStep DEF Place, Holds
<1>5. ASSUME NEW u \in Threads, NEW w \in Threads,
             op'[u] \in Constructors, op'[w] \in Constructors
      PROVE  u = w
  <2>1. ASSUME NEW x \in Threads \ {t}, op'[x] \in Constructors, op'[t] \in Constructors
        PROVE  FALSE
    <3>1. op[x] \in Constructors /\ object = "making"
      BY <1>0, <1>2, <2>1 DEF Place
    <3>2. op[t] \notin Constructors
      BY <3>1, <2>1 DEF Ownership
    <3>3. BeginInit(t)
      <4>. USE <1>0, <2>1, <3>2 DEF Constructors, OfSession, OfCatalogue,
                                    methodVars
      <4>1. CASE LibraryCall(t)
        BY <4>1, CallFrame
      <4>2. CASE BeginMethod(t) \/ BeginCatalogue(t) \/ ReadHandle(t)
        BY <4>2 DEF BeginMethod, BeginCatalogue, ReadHandle, Start
      <4>3. CASE Retry(t) \/ RetryAllocFails(t) \/ Check(t) \/ Return(t)
        BY <4>3 DEF Retry, RetryAllocFails, Check, Return, Forget
      <4>4. CASE FreeTest(t) \/ FreeRead(t) \/ FreeClear(t) \/ FreeCall(t)
        BY <4>4 DEF FreeTest, FreeRead, FreeClear, FreeCall
      <4>. QED BY <4>1, <4>2, <4>3, <4>4 DEF Step
    <3>. QED BY <3>1, <3>3 DEF BeginInit
  <2>. QED BY <1>2, <1>5, <2>1 DEF Ownership
<1>. DEFINE Claimed(h) == \E u \in Threads : made'[u] = h \/ Carries(u, h)'
<1>6. ASSUME NEW h \in 1..sessions', state'[h] # "freed", handle' # h
      PROVE  Claimed(h)
  <2>0. Place(t) /\ Place(t)'
    BY <1>0, <1>1
  <2>1. CASE h \notin 1..sessions
    <3>1. made'[t] = h
      BY <1>0, <1>6, <2>1, SessionsStep
    <3>. QED BY <3>1
  <2>2. CASE h \in 1..sessions
    <3>1. state[h] # "freed" /\ ~(pc[t] = "freeCall" /\ arg[t] = h)
      BY <1>6, <2>2, SessionsStep
    <3>2. \/ handle = h
          \/ \E u \in Threads : made[u] = h \/ Carries(u, h)
      BY <1>0, <2>2, <3>1 DEF NothingOrphaned
    <3>3. CASE handle = h
      BY <1>0, <1>6, <2>2, <3>3, ObjectStep, <2>0 DEF Place, Carries
    <3>4. ASSUME NEW u \in Threads, made[u] = h PROVE Claimed(h)
      <4>1. CASE u # t
        BY <1>2, <3>4, <4>1
      <4>2. CASE u = t
        <5>1. CASE made'[t] = made[t]
          BY <3>4, <4>2, <5>1
        <5>2. CASE made'[t] # made[t]
          <6>1. op[t] \in Constructors /\ (pc[t] = "returned" \/ pc[t] = "status")
            BY <1>0, <2>0, <2>2, <3>1, <3>4, <4>2 DEF Place, Holds
          <6>2. Return(t)
            BY <5>2, <6>1, <1>0
               DEF Step, LibraryCall, CallInit, CallLoad, CallSave, CallRekey,
                   CallCipher, CallSaveF, CallClose,
                   CallProfiles, CallRegister, At, BeginInit, BeginMethod,
                   BeginCatalogue, ReadHandle, Retry, RetryAllocFails, Check,
                   FreeTest, FreeRead, FreeClear, FreeCall, bufferVars
          <6>. QED BY <1>0, <1>6, <2>0, <2>2, <3>4, <4>2, <6>1, <6>2 DEF Return,
             Place, At
        <5>. QED BY <5>1, <5>2
      <4>. QED BY <4>1, <4>2
    <3>5. ASSUME NEW u \in Threads, Carries(u, h) PROVE Claimed(h)
      <4>1. CASE u # t
        BY <1>2, <3>5, <4>1 DEF Carries
      <4>2. CASE u = t
        <5>1. FreeClear(t)
          BY <1>0, <3>1, <3>5, <4>2, CallFrame
             DEF Carries, Step, At, BeginInit, BeginMethod, BeginCatalogue,
                 ReadHandle, Retry, RetryAllocFails, Check, Return, FreeTest,
                 FreeRead, FreeCall
        <5>2. pc'[t] = "freeCall" /\ arg'[t] = arg[t]
          BY <1>0, <5>1 DEF FreeClear, GoTo, bufferVars
        <5>. QED BY <3>5, <4>2, <5>2 DEF Carries
      <4>. QED BY <4>1, <4>2
    <3>. QED BY <3>2, <3>3, <3>4, <3>5
  <2>. QED BY <2>1, <2>2
<1>7. NothingOrphaned'
  BY <1>4, <1>6 DEF NothingOrphaned
<1>. QED BY <1>1, <1>3, <1>4, <1>5, <1>7 DEF Ownership
-----------------------------------------------------------------------------
\* What a step brings about is seen by every thread in a method.
LEMMA SeenGrows ==
    ASSUME Typed, NEW t \in Threads, Step(t), NEW u \in Threads,
           u # t \/ LibraryCall(t)
    PROVE  /\ \A x \in seen[u] : x \in seen'[u]
           /\ \A h \in 1..sessions : ver'[h] = ver[h] \/ ver'[h] \in seen'[u]
           /\ names' = names \/ names' \in seen'[u]
<1>0. /\ seen \in [Threads -> SUBSET Content] /\ sessions \in Nat
      /\ ver \in [1..sessions -> Versions]
  BY DEF Typed, TypeOK
<1>. USE <1>0 DEF methodVars, libraryVars
<1>1. CASE BeginInit(t) \/ BeginMethod(t) \/ BeginCatalogue(t) \/ ReadHandle(t)
  <2>1. ~LibraryCall(t)
    BY <1>1 DEF BeginInit, BeginMethod, BeginCatalogue, ReadHandle, LibraryCall,
       At, CallInit, CallLoad, CallSave, CallRekey, CallCipher, CallSaveF,
       CallClose, CallProfiles, CallRegister
  <2>. QED BY <1>1, <2>1 DEF BeginInit, BeginMethod, BeginCatalogue, ReadHandle,
     Start
<1>2. CASE CallInit(t) \/ CallLoad(t)
  BY <1>2 DEF CallInit, CallLoad, Construct, Extended
<1>3. CASE CallRekey(t)
  BY <1>3 DEF CallRekey, SetKeying
<1>4. CASE CallRegister(t)
  BY <1>4 DEF CallRegister
<1>5. CASE \/ CallSave(t) \/ CallCipher(t) \/ CallSaveF(t) \/ CallClose(t)
           \/ CallProfiles(t)
  BY <1>5 DEF CallSave, CallCipher, CallSaveF, CallClose, CallProfiles
<1>6. CASE \/ Retry(t) \/ RetryAllocFails(t) \/ Check(t)
           \/ FreeTest(t) \/ FreeRead(t) \/ FreeClear(t) \/ FreeCall(t)
  BY <1>6 DEF Retry, RetryAllocFails, Check, FreeTest, FreeRead, FreeClear, FreeCall
<1>7. CASE Return(t)
  <2>1. ~LibraryCall(t)
    BY <1>7, CallFrame DEF Return
  <2>. QED BY <1>7, <2>1 DEF Return, Forget
<1>. QED BY <1>1, <1>2, <1>3, <1>4, <1>5, <1>6, <1>7 DEF Step, LibraryCall

\* So what there is after it has been seen.
LEMMA LatestSeen ==
    ASSUME Typed, Ownership, NEW t \in Threads, Step(t), NEW u \in Threads,
           u # t \/ LibraryCall(t), Sees(u)
    PROVE  /\ op[u] \in OfSession =>
                \A h \in 1..sessions' : state'[h] # "freed" => ver'[h] \in seen'[u]
           /\ op[u] = "profiles" => names' \in seen'[u]
<1>1. op[u] = "profiles" => names' \in seen'[u]
  BY SeenGrows DEF Sees
<1>2. ASSUME op[u] \in OfSession, NEW h \in 1..sessions', state'[h] # "freed"
      PROVE  ver'[h] \in seen'[u]
  <2>1. h \in 1..sessions
    BY <1>2, SessionsStep DEF Ownership, Place, Typed, TypeOK
  <2>2. state[h] # "freed"
    BY <1>2, <2>1, SessionsStep
  <2>. QED BY <1>2, <2>1, <2>2, SeenGrows DEF Sees
<1>. QED BY <1>1, <1>2

\* Every step leaves in the buffers, and returns, only what was seen
\* (pipeline.py:34-77, 251-292, 404-462).
LEMMA SightStep ==
    ASSUME Typed, Ownership, Sight, NEW t \in Threads, Step(t)
    PROVE  Sight'
<1>0. /\ pc \in [Threads -> Labels] /\ op \in [Threads -> Ops]
      /\ rc \in [Threads -> {"ok", "small", "error"}]
      /\ n \in [Threads -> Nat] /\ cap \in [Threads -> Nat]
      /\ seen \in [Threads -> SUBSET Content]
      /\ staged \in [Threads -> Content \union {None}]
      /\ out \in [Threads -> [of : Content \union {None}, bytes : Nat]]
      /\ Asking /\ Sees(t)
  BY DEF Typed, TypeOK, Sight
<1>1. ASSUME NEW u \in Threads, u # t
      PROVE  Sees(u)'
  <2>1. Sees(u) /\ \A x \in seen[u] : x \in seen'[u]
    BY <1>1, SeenGrows DEF Sight
  <2>. QED BY <1>1, <2>1, LatestSeen, Others DEF Sees, Blobs, SizeOf
<1>2. Sees(t)'
  <2>. USE DEF At, GoTo
  <2>1. CASE BeginInit(t)
    BY <1>0, <2>1 DEF BeginInit, Start, Sees, Constructors, OfSession
  <2>2. CASE BeginMethod(t)
    BY <1>0, <2>2 DEF BeginMethod, Start, Sees, OfSession, Current, libraryVars
  <2>3. CASE BeginCatalogue(t)
    BY <1>0, <2>3 DEF BeginCatalogue, Start, Sees, OfSession, OfCatalogue,
       Current, libraryVars
  <2>4. CASE ReadHandle(t)
    BY <1>0, <2>4 DEF ReadHandle, Sees, libraryVars, methodVars
  <2>5. CASE LibraryCall(t)
    <3>1. /\ pc'[t] = "status" /\ op'[t] = op[t]
          /\ cap'[t] = cap[t] /\ masters'[t] = masters[t]
      BY <1>0, <2>5, CallFrame, CallReports DEF Report
    <3>2. ASSUME rc'[t] = "ok", op[t] \in Blobs
          PROVE  /\ staged'[t] \in seen'[t]
                 /\ n'[t] = SizeOf(staged'[t])
                 /\ n'[t] <= cap[t]
                 /\ op[t] = "rekey" => staged'[t] = masters[t]
      <4>1. ASSUME NEW v \in Content, Gives(t, v, SizeOf(v))
            PROVE  staged'[t] = v /\ n'[t] = SizeOf(v) /\ n'[t] <= cap[t]
        BY <1>0, <4>1 DEF Gives, Fill, Report
      <4>2. ~Refuses(t) /\ \A v, size : ~WantsMore(t, v, size)
        BY <1>0, <3>2 DEF Refuses, WantsMore, Report
      <4>3. CASE CallSave(t)
        <5>1. Live(arg[t]) /\ op[t] = "save" /\ Gives(t, ver[arg[t]], Size[ver[arg[t]]])
              /\ UNCHANGED seen
          BY <4>2, <4>3 DEF CallSave, methodVars
        <5>2. ver[arg[t]] \in Content /\ Size[ver[arg[t]]] = SizeOf(ver[arg[t]])
          BY <5>1, Known DEF Typed
        <5>3. ver[arg[t]] \in seen[t]
          BY <1>0, <5>1 DEF Sees, OfSession, Live
        <5>. QED BY <4>1, <5>1, <5>2, <5>3
      <4>4. CASE CallRekey(t)
        <5>1. op[t] = "rekey" /\ Gives(t, masters[t], Size[masters[t]])
              /\ SetKeying(arg[t], masters[t])
          BY <4>2, <4>4 DEF CallRekey
        <5>2. masters[t] \in Content /\ Size[masters[t]] = SizeOf(masters[t])
          BY <1>0, <5>1, Known DEF Typed, Asking
        <5>3. masters[t] \in seen'[t]
          BY <1>0, <5>1 DEF SetKeying
        <5>. QED BY <4>1, <5>1, <5>2, <5>3
      <4>5. CASE CallProfiles(t)
        <5>1. op[t] = "profiles" /\ Gives(t, names, SizeOf(names)) /\ UNCHANGED seen
          BY <4>2, <4>5 DEF CallProfiles, methodVars
        <5>. QED BY <1>0, <4>1, <5>1, Known DEF Typed, Sees
      <4>. QED BY <2>5, <3>2, <4>3, <4>4, <4>5
                  DEF LibraryCall, Blobs, CallInit, CallLoad, CallCipher,
                      CallSaveF, CallClose, CallRegister, At
    <3>. QED BY <1>0, <2>5, <3>1, <3>2, LatestSeen DEF Sees
  <2>6. CASE Retry(t) \/ RetryAllocFails(t)
    BY <1>0, <2>6 DEF Retry, RetryAllocFails, Sees, libraryVars, methodVars
  <2>7. CASE Check(t)
    <3>1. /\ UNCHANGED <<op, seen, masters, sessions, state, ver, names>>
          /\ pc[t] = "status" /\ pc'[t] \in {"returned", "raised"}
      BY <1>0, <2>7 DEF Check, libraryVars, methodVars
    <3>2. pc'[t] = "returned" => /\ rc[t] = "ok"
               /\ out'[t] = [of |-> staged[t],
                             bytes |-> IF n[t] < cap[t] THEN n[t] ELSE cap[t]]
      BY <1>0, <2>7 DEF Check, Passes
    <3>3. ASSUME rc[t] = "ok", op[t] \in Blobs
          PROVE  (IF n[t] < cap[t] THEN n[t] ELSE cap[t]) = n[t]
      <4>1. n[t] <= cap[t] /\ n[t] \in Nat /\ cap[t] \in Nat
        BY <1>0, <3>1, <3>3 DEF Sees
      <4>. QED BY <4>1
    <3>4. pc'[t] = "returned" /\ op[t] \in Blobs =>
             out'[t].of = staged[t] /\ out'[t].bytes = n[t]
      BY <3>2, <3>3
    <3>5. pc'[t] = "returned" /\ op[t] \in Blobs =>
             /\ out'[t].of \in seen[t] /\ out'[t].bytes = SizeOf(out'[t].of)
             /\ op[t] = "rekey" => out'[t].of = masters[t]
      BY <1>0, <3>1, <3>2, <3>4 DEF Sees
    <3>. QED BY <1>0, <3>1, <3>5 DEF Sees, SizeOf
  <2>8. CASE Return(t)
    BY <1>0, <2>8 DEF Return, Forget, Sees, OfSession
  <2>9. CASE FreeTest(t) \/ FreeRead(t) \/ FreeClear(t)
    BY <1>0, <2>9 DEF FreeTest, FreeRead, FreeClear, Sees, libraryVars, methodVars
  <2>10. CASE FreeCall(t)
    BY <1>0, <2>10 DEF FreeCall, Sees, Release, methodVars
  <2>. QED BY <2>1, <2>2, <2>3, <2>4, <2>5, <2>6, <2>7, <2>8, <2>9, <2>10
              DEF Step
<1>. QED BY <1>1, <1>2 DEF Sight
-----------------------------------------------------------------------------
\* A handle passes from the object to one thread, from there to the library,
\* and is not seen again (pipeline.py:363-373).
LEMMA OnceStep ==
    ASSUME Typed, Ownership, Once, NEW t \in Threads, Step(t)
    PROVE  Once'
<1>0. /\ pc \in [Threads -> Labels] /\ arg \in [Threads -> Handles \union {0}]
      /\ sessions \in Nat /\ overlap \in BOOLEAN
      /\ frees \in [1..sessions -> Nat] /\ handle \in 0..sessions
      /\ state \in [1..sessions -> {"open", "closed", "freed"}]
      /\ 0 \notin Handles /\ 1..sessions \subseteq Handles
      /\ \A u \in Threads : Place(u)
      /\ handle # 0 => frees[handle] = 0
  BY CallsAssumption DEF Typed, TypeOK, Ownership, NothingOrphaned, Once, Handles
<1>1. ASSUME NEW u \in Threads, u # t, NEW h PROVE Carries(u, h)' <=> Carries(u, h)
  BY <1>1, Others DEF Carries
<1>2. CASE UNCHANGED <<frees, sessions, overlap>> /\ ~At(t, "freeRead")
           /\ ~At(t, "freeCall")
  <2>1. \A h \in 1..sessions : frees[h] # 0 => state'[h] = "freed"
    BY <1>0, <1>2, SessionsStep DEF Once
  <2>2. \A h \in Handles : Carries(t, h)' => Carries(t, h)
    BY <1>0, <1>2, CallReports, CallFrame
       DEF Carries, Step, At, GoTo, Report, BeginInit, BeginMethod,
           BeginCatalogue, ReadHandle, Retry, RetryAllocFails, Check, Return,
           Forget, FreeTest, FreeRead, FreeClear, FreeCall, bufferVars
  <2>3. \A u \in Threads, h \in Handles : Carries(u, h)' => Carries(u, h)
    BY <1>1, <2>2
  <2>4. UNCHANGED <<frees, sessions, overlap>>
    BY <1>2
  <2>5. FreedOnce'
    BY <2>4 DEF Once, FreedOnce
  <2>6. ~overlap => \A u \in Threads, h \in 1..sessions :
            Carries(u, h)' => frees[h] = 0
    BY <1>0, <2>3 DEF Once
  <2>7. ~overlap => \A h \in Handles, u, w \in Threads :
            Carries(u, h)' /\ Carries(w, h)' => u = w
    BY <2>3 DEF Once
  <2>. QED BY <2>1, <2>4, <2>5, <2>6, <2>7 DEF Once
<1>3. ASSUME NEW v, NEW life, Construct(v, life), LibraryCall(t)
      PROVE  Once'
  <2>1. /\ frees' = Extended(frees, 0) /\ sessions' = sessions + 1
        /\ \A h \in 1..sessions : frees'[h] = frees[h]
        /\ frees'[sessions + 1] = 0
    BY <1>0, <1>3 DEF Construct, Extended
  <2>2. \A h \in 1..sessions' : frees'[h] # 0 => state'[h] = "freed"
    BY <1>0, <2>1, SessionsStep DEF Once
  <2>3. \A h : ~Carries(t, h)'
    BY <1>0, <1>3, CallReports DEF Report, GoTo, Carries
  <2>4. overlap' = overlap
    BY <1>3, CallFrame DEF objectVars
  <2>5. \A h \in 1..sessions' : h \in 1..sessions \/ h = sessions + 1
    BY <1>0, <2>1
  <2>. QED BY <1>0, <1>1, <2>1, <2>2, <2>3, <2>4, <2>5 DEF Once, FreedOnce
<1>4. CASE FreeRead(t)
  <2>1. UNCHANGED <<sessions, state, frees, handle>> /\ arg'[t] = handle
        /\ (~overlap' => ~overlap /\ \A u \in Threads : pc[u] # "freeClear")
    BY <1>0, <1>4 DEF FreeRead, At, libraryVars
  <2>2. ASSUME ~overlap', NEW u \in Threads, u # t, NEW h \in Handles, Carries(u, h)
        PROVE  handle = 0
    BY <1>0, <2>1, <2>2 DEF Carries, Place
  <2>3. \A h \in Handles : Carries(t, h)' => handle = h
    BY <2>1 DEF Carries
  <2>. QED BY <1>0, <1>1, <2>1, <2>2, <2>3 DEF Once, FreedOnce
<1>5. CASE FreeCall(t)
  <2>1. /\ UNCHANGED <<sessions, overlap>>
        /\ \A h \in 1..sessions :
             /\ state'[h] = IF h = arg[t] THEN "freed" ELSE state[h]
             /\ frees'[h] = frees[h] + (IF h = arg[t] THEN 1 ELSE 0)
        /\ pc'[t] = "idle" /\ \A h \in 1..sessions : h = arg[t] => Carries(t, h)
    BY <1>0, <1>5 DEF FreeCall, Release, At, GoTo, objectVars, Carries
  <2>2. \A h : ~Carries(t, h)'
    BY <2>1 DEF Carries
  <2>3. ~overlap => \A h \in 1..sessions : h = arg[t] =>
            frees[h] = 0 /\ \A u \in Threads \ {t} : ~Carries(u, h)
    BY <1>0, <2>1 DEF Once
  <2>4. \A h \in 1..sessions : frees[h] \in Nat
    BY <1>0
  <2>5. \A h \in 1..sessions : frees'[h] # 0 => state'[h] = "freed"
    BY <1>0, <2>1, <2>4 DEF Once
  <2>6. ~overlap => \A h \in 1..sessions : frees'[h] <= 1
    BY <2>1, <2>3, <2>4 DEF Once, FreedOnce
  <2>7. ~overlap => \A h \in 1..sessions, u \in Threads :
            Carries(u, h)' => frees'[h] = 0
    BY <1>1, <2>1, <2>2, <2>3, <2>4 DEF Once
  <2>8. ~overlap => \A h \in Handles, u, w \in Threads :
            Carries(u, h)' /\ Carries(w, h)' => u = w
    BY <1>1, <2>2 DEF Once
  <2>. QED BY <2>1, <2>5, <2>6, <2>7, <2>8 DEF Once, FreedOnce
<1>6. \/ UNCHANGED <<frees, sessions, overlap>> /\ ~At(t, "freeRead")
         /\ ~At(t, "freeCall")
      \/ LibraryCall(t) /\ \E v, life : Construct(v, life)
      \/ FreeRead(t) \/ FreeCall(t)
  <2>1. CASE LibraryCall(t)
    BY <2>1, CallFrame
       DEF LibraryCall, CallInit, CallLoad, CallSave, CallRekey, CallCipher,
           CallSaveF, CallClose, CallProfiles, CallRegister, At, libraryVars,
           objectVars
  <2>2. CASE ~LibraryCall(t)
    BY <2>2 DEF Step, At, BeginInit, BeginMethod, BeginCatalogue, ReadHandle,
       Retry, RetryAllocFails, Check, Return, FreeTest, FreeClear, libraryVars,
       objectVars
  <2>. QED BY <2>1, <2>2
<1>. QED BY <1>2, <1>3, <1>4, <1>5, <1>6
-----------------------------------------------------------------------------
\* The object that is not there yet is in order.
LEMMA InitIInv == Init => IInv
<1>. SUFFICES ASSUME Init PROVE IInv
  OBVIOUS
<1>1. Typed
  <2>1. /\ handle \in Handles \union {0} /\ sessions \in 0..MaxSessions
        /\ names \in 0..MaxNames /\ 1..sessions = {}
    BY CallsAssumption DEF Init, Handles
  <2>2. /\ state \in [1..sessions -> {"open", "closed", "freed"}]
        /\ ver \in [1..sessions -> Versions]
        /\ frees \in [1..sessions -> Nat]
    BY <2>1 DEF Init
  <2>. QED BY <2>1, <2>2, CallsAssumption
       DEF Init, Typed, TypeOK, Asking, Labels, Ops, NoOut
<1>2. Staging
  BY DEF Init, Staging
<1>3. Ownership
  BY DEF Init, Ownership, Place, Holds, NothingOrphaned, Constructors, OfSession
<1>4. Sight
  BY DEF Init, Sight, Sees, OfSession
<1>5. Once
  BY DEF Init, Once, FreedOnce, Carries
<1>. QED BY <1>1, <1>2, <1>3, <1>4, <1>5 DEF IInv

\* __del__ frees the session of the object, with no thread in a method.
LEMMA CollectStep == IInv /\ Collect => IInv'
<1>. SUFFICES ASSUME IInv, Collect PROVE IInv'
  OBVIOUS
<1>0. Typed /\ TypeOK /\ Staging /\ Ownership /\ Sight /\ Once
  BY DEF IInv, Typed
<1>1. /\ \A t \in Threads : pc[t] = "idle"
      /\ object' = "dropped" /\ handle' = 0 /\ Release(handle)
      /\ UNCHANGED <<pc, methodVars, bufferVars, sessions, ver, names, overlap>>
  BY DEF Collect, At
<1>. USE DEF methodVars, bufferVars
<1>2. Typed'
  BY <1>0, <1>1 DEF Typed, TypeOK, Asking, Release
<1>3. Staging'
  BY <1>0, <1>1 DEF Staging
<1>4. \A t \in Threads : op[t] = "none" /\ made[t] = 0
  BY <1>0, <1>1 DEF Ownership, Place, Constructors
<1>5. Ownership'
  <2>1. \A h \in 1..sessions : state'[h] = "freed"
    BY <1>0, <1>1, <1>4 DEF Ownership, NothingOrphaned, Release, Carries
  <2>2. \A t \in Threads : Place(t)'
    BY <1>0, <1>1, <1>4 DEF Place, Holds, Constructors, OfSession
  <2>. QED BY <1>0, <1>1, <1>4, <2>1, <2>2
       DEF Ownership, NothingOrphaned, Constructors, Typed, TypeOK
<1>6. Sight'
  BY <1>1, <1>4 DEF Sight, Sees, OfSession, Blobs
<1>7. Once'
  <2>1. /\ handle # 0 => handle \in 1..sessions /\ frees[handle] = 0
        /\ \A h \in 1..sessions :
             /\ state'[h] = IF h = handle THEN "freed" ELSE state[h]
             /\ frees'[h] = frees[h] + (IF h = handle THEN 1 ELSE 0)
             /\ frees[h] \in Nat
    BY <1>0, <1>1 DEF Release, Ownership, NothingOrphaned, Once, TypeOK
  <2>2. \A t \in Threads : \A h : ~Carries(t, h)'
    BY <1>1 DEF Carries
  <2>3. \A h \in 1..sessions : frees'[h] # 0 => state'[h] = "freed"
    BY <1>0, <2>1 DEF Once
  <2>4. ~overlap => \A h \in 1..sessions : frees'[h] <= 1
    BY <1>0, <2>1 DEF Once, FreedOnce
  <2>. QED BY <1>1, <2>2, <2>3, <2>4 DEF Once, FreedOnce
<1>. QED BY <1>2, <1>3, <1>5, <1>6, <1>7 DEF IInv

\* The invariant, whatever the threads and whoever comes first.
THEOREM InductiveInvariant == Spec => []IInv
<1>1. IInv /\ [Next]_vars => IInv'
  <2>. SUFFICES ASSUME IInv, [Next]_vars PROVE IInv'
    OBVIOUS
  <2>1. ASSUME NEW t \in Threads, Step(t) PROVE IInv'
    BY <2>1, TypedStep, StagingStep, OwnershipStep, SightStep, OnceStep DEF IInv
  <2>2. CASE Collect
    BY <2>2, CollectStep
  <2>3. CASE UNCHANGED vars
    BY <2>3 DEF IInv, Typed, TypeOK, Asking, Staging, Ownership, Place,
                Holds, NothingOrphaned, Carries, Sight, Sees, Once, FreedOnce,
                At, vars, methodVars, bufferVars, libraryVars, objectVars
  <2>. QED BY <2>1, <2>2, <2>3 DEF Next
<1>. QED BY InitIInv, <1>1, PTL DEF Spec

\* Handles, buffers, counters and sessions keep their types in every call.
THEOREM TypeCorrect == Spec => []TypeOK
<1>1. IInv => TypeOK
  BY DEF IInv, Typed
<1>. QED BY <1>1, InductiveInvariant, PTL

\* Any number of threads, rotations and registrations: what a method returns is
\* one whole blob or catalogue of the time it ran (pipeline.py:34-51, 251-292,
\* 404-462).
THEOREM Whole == Spec => []OutputIsWhole
<1>1. IInv => OutputIsWhole
  BY DEF IInv, Sight, Sees, Blobs, OutputIsWhole, At
<1>. QED BY <1>1, InductiveInvariant, PTL

\* No way out of any call lets a staging buffer go unwiped (pipeline.py:60-77).
THEOREM Wiped == Spec => []StagingWiped
<1>1. IInv => StagingWiped
  BY DEF IInv, Staging, StagingWiped
<1>. QED BY <1>1, InductiveInvariant, PTL

\* No session outlives everybody who could free it, and the object never names
\* a freed one (pipeline.py:112-138, 363-392).
THEOREM Owned == Spec => []NothingOrphaned
<1>1. IInv => NothingOrphaned
  BY DEF IInv, Ownership
<1>. QED BY <1>1, InductiveInvariant, PTL

\* A handle is freed once, unless two threads read it before either cleared it
\* (pipeline.py:363-373).
THEOREM OnlyOnce == Spec => []FreedOnce
<1>1. IInv => FreedOnce
  BY DEF IInv, Once, FreedOnce
<1>. QED BY <1>1, InductiveInvariant, PTL
=============================================================================
