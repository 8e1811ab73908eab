------------------------------ MODULE FfiCore -------------------------------
(***************************************************************************)
(* The foreign-function core every binding call goes through               *)
(* (itb3/_ffi.py:188-254): syms() loads the library on first use with no   *)
(* lock round it, and check() turns a status into an ItbError whose        *)
(* message last_error() fetches in two calls, a length and a copy.  The    *)
(* diagnostic belongs to the whole process: the last failing call of any   *)
(* thread writes it.                                                       *)
(***************************************************************************)
EXTENDS Integers, FiniteSets

CONSTANTS Threads,      \* the threads that use the binding
          Messages,     \* the diagnostics a failing call may record
          MessageLen,   \* the length of each, in bytes
          NoMessage,    \* the empty diagnostic
          MaxLoads      \* bound: the loads the model lets happen

ASSUME FfiAssumption ==
    /\ IsFiniteSet(Threads)
    /\ NoMessage \notin Messages
    /\ MessageLen \in [Messages -> Nat \ {0}]
    /\ MaxLoads \in Nat \ {0}

VARIABLES
    pc,         \* where each thread is
    _SYMS,      \* the published bundle: 0, or the number of the load it is from
    _LOAD_ERROR,    \* a load failure has been cached
    loads,      \* how many times the library has been opened
    declared,   \* the bundles whose prototypes are all declared
    mine,       \* mine[t]: the bundle t is building or was given
    settled,    \* settled[t]: a bundle was published before t's call began
    lastError,  \* the library's diagnostic
    own,        \* own[t]: the diagnostic t's failing call recorded
    overwritten,    \* overwritten[t]: another call has changed the diagnostic
                    \* since, by failing or by a success that clears it
    need,       \* need[t]: the length reported to t's last_error
    text        \* text[t]: what it copied, and how many bytes of it

loadVars == <<_SYMS, _LOAD_ERROR, loads, declared, mine, settled>>
errorVars == <<lastError, own, overwritten, need, text>>
vars == <<pc, loadVars, errorVars>>

Labels == {"idle", "cached", "load", "declare", "publish", "call", "query",
           "copy", "raised", "loadRaised", "missing"}

NoText == [of |-> NoMessage, bytes |-> 0]
Len1(m) == IF m = NoMessage THEN 1 ELSE MessageLen[m] + 1   \* with its NUL

\* The globals hold what syms() and last_error() put there: no library, a
\* loaded one, or a cached error, and a text with a length of its own.
TypeOK ==
    /\ pc \in [Threads -> Labels]
    /\ loads \in 0..MaxLoads
    /\ _SYMS \in 0..loads
    /\ _LOAD_ERROR \in BOOLEAN
    /\ declared \subseteq 1..loads
    /\ mine \in [Threads -> 0..loads]
    /\ settled \in [Threads -> BOOLEAN]
    /\ lastError \in Messages \union {NoMessage}
    /\ own \in [Threads -> Messages \union {NoMessage}]
    /\ overwritten \in [Threads -> BOOLEAN]
    /\ need \in [Threads -> Nat]
    /\ text \in [Threads -> [of : Messages \union {NoMessage}, bytes : Nat]]

Init ==
    /\ pc = [t \in Threads |-> "idle"]
    /\ _SYMS = 0 /\ _LOAD_ERROR = FALSE
    /\ loads = 0 /\ declared = {}
    /\ mine = [t \in Threads |-> 0]
    /\ settled = [t \in Threads |-> FALSE]
    /\ lastError = NoMessage
    /\ own = [t \in Threads |-> NoMessage]
    /\ overwritten = [t \in Threads |-> FALSE]
    /\ need = [t \in Threads |-> 0]
    /\ text = [t \in Threads |-> NoText]
-----------------------------------------------------------------------------
At(t, label) == pc[t] = label
GoTo(t, label) == pc' = [pc EXCEPT ![t] = label]
Get(t, bundle) == mine' = [mine EXCEPT ![t] = bundle]

KnownUnlessFailed == _SYMS # 0 /\ ~_LOAD_ERROR     \* fault: the failure first
Known == _SYMS # 0

\* syms(): "if _SYMS is not None: return _SYMS".
EnterSyms(t) ==
    /\ At(t, "idle")
    /\ settled' = [settled EXCEPT ![t] = _SYMS # 0]
    /\ \/ /\ Known
          /\ Get(t, _SYMS)
          /\ GoTo(t, "call")
       \/ /\ ~Known
          /\ GoTo(t, "cached")
          /\ UNCHANGED mine
    /\ UNCHANGED <<_SYMS, _LOAD_ERROR, loads, declared, errorVars>>

\* "if _LOAD_ERROR is not None: raise _LOAD_ERROR".
TestLoadError(t) ==
    /\ At(t, "cached")
    /\ GoTo(t, IF _LOAD_ERROR THEN "loadRaised" ELSE "load")
    /\ UNCHANGED <<loadVars, errorVars>>

OpenedPublished == _SYMS' = loads'      \* fault: published as it is opened
Opened == UNCHANGED _SYMS

\* Syms(): the library is opened ...
OpenLibrary(t) ==
    /\ At(t, "load")
    /\ loads < MaxLoads
    /\ loads' = loads + 1
    /\ Opened
    /\ Get(t, loads')
    /\ GoTo(t, "declare")
    /\ UNCHANGED <<_LOAD_ERROR, declared, settled, errorVars>>

\* ... or is not, which is cached ...
OpenFails(t) ==
    /\ At(t, "load")
    /\ _LOAD_ERROR' = TRUE
    /\ GoTo(t, "loadRaised")
    /\ UNCHANGED <<_SYMS, loads, declared, mine, settled, errorVars>>

\* ... every prototype is declared ...
DeclarePrototypes(t) ==
    /\ At(t, "declare")
    /\ declared' = declared \union {mine[t]}
    /\ GoTo(t, "publish")
    /\ UNCHANGED <<_SYMS, _LOAD_ERROR, loads, mine, settled, errorVars>>

\* ... unless one is missing: AttributeError, which nothing caches.
SymbolMissing(t) ==
    /\ At(t, "declare")
    /\ Get(t, 0)
    /\ GoTo(t, "missing")
    /\ UNCHANGED <<_SYMS, _LOAD_ERROR, loads, declared, settled, errorVars>>

\* "_SYMS = Syms()", then "return _SYMS": the bundle of whoever came last.
Publish(t) ==
    /\ At(t, "publish")
    /\ _SYMS' = mine[t]
    /\ GoTo(t, "call")
    /\ UNCHANGED <<_LOAD_ERROR, loads, declared, mine, settled, errorVars>>
-----------------------------------------------------------------------------
\* The call itself: status OK, which may or may not clear the diagnostic ...
CallSucceeds(t) ==
    /\ At(t, "call")
    /\ lastError' \in {lastError, NoMessage}
    /\ overwritten' = [x \in Threads |->
                          overwritten[x] \/ (x # t /\ lastError' # lastError)]
    /\ GoTo(t, "idle")
    /\ UNCHANGED <<loadVars, own, need, text>>

\* ... or a buffer too small, or none at all to learn the length with: the
\* caller makes the call again, and what the first one left as a diagnostic is
\* nobody's ...
CallAgain(t) ==
    /\ At(t, "call")
    /\ \/ UNCHANGED <<lastError, overwritten>>
       \/ /\ lastError' \in Messages
          /\ overwritten' = [x \in Threads |-> overwritten[x] \/ x # t]
    /\ UNCHANGED <<pc, loadVars, own, need, text>>

\* ... or another status, and a diagnostic in the place of the last one.
CallFails(t) ==
    /\ At(t, "call")
    /\ \E m \in Messages :
        /\ lastError' = m
        /\ own' = [own EXCEPT ![t] = m]
    /\ overwritten' = [x \in Threads |-> x # t]
    /\ GoTo(t, "query")
    /\ UNCHANGED <<loadVars, need, text>>

\* last_error(): the length, with "" for an empty diagnostic ...
QueryLength(t) ==
    /\ At(t, "query")
    /\ need' = [need EXCEPT ![t] = Len1(lastError)]
    /\ GoTo(t, IF need'[t] <= 1 THEN "raised" ELSE "copy")
    /\ UNCHANGED <<loadVars, lastError, own, overwritten, text>>

CutAtFirst(t) == need[t] - 1        \* fault: at the length of the first call
CutAt(t) == Len1(lastError) - 1

\* ... then a buffer of that length and the copy.  A diagnostic that has
\* outgrown the buffer is given up; one that has shrunk is cut at the length
\* the second call reports.
CopyText(t) ==
    /\ At(t, "copy")
    /\ text' = [text EXCEPT ![t] =
                  IF Len1(lastError) > need[t] THEN NoText
                  ELSE [of |-> lastError, bytes |-> CutAt(t)]]
    /\ GoTo(t, "raised")
    /\ UNCHANGED <<loadVars, lastError, own, overwritten, need>>

\* The exception reaches the caller, who may call again.
Caught(t) ==
    /\ pc[t] \in {"raised", "loadRaised", "missing"}
    /\ GoTo(t, "idle")
    /\ own' = [own EXCEPT ![t] = NoMessage]
    /\ need' = [need EXCEPT ![t] = 0]
    /\ text' = [text EXCEPT ![t] = NoText]
    /\ UNCHANGED <<loadVars, lastError, overwritten>>

LoadStep(t) ==
    \/ EnterSyms(t) \/ TestLoadError(t) \/ OpenLibrary(t) \/ OpenFails(t)
    \/ DeclarePrototypes(t) \/ SymbolMissing(t) \/ Publish(t)

CallStep(t) ==
    \/ CallSucceeds(t) \/ CallAgain(t) \/ CallFails(t)
    \/ QueryLength(t) \/ CopyText(t) \/ Caught(t)

Next == \E t \in Threads : LoadStep(t) \/ CallStep(t)

Spec == Init /\ [][Next]_vars
-----------------------------------------------------------------------------
\* No call goes through a bundle with a prototype missing, whichever thread
\* built it and however many were building (_ffi.py:3-5, 188-200).
CallsArePrototyped ==
    /\ _SYMS # 0 => _SYMS \in declared
    /\ \A t \in Threads : At(t, "call") => mine[t] \in declared

\* Once a bundle is published no call fails to load again, not even when
\* another thread's attempt fails afterwards and caches its failure.
LoadedStaysLoaded ==
    \A t \in Threads :
        pc[t] \in {"load", "loadRaised", "missing"} => ~settled[t]

\* The message of an ItbError is the failing call's own, whole, unless another
\* call has changed the diagnostic in between, by failing or by a success that
\* clears it; then it is empty or whole, never a cut or a mix (error.py:12-17).
DiagnosticIsHonest ==
    \A t \in Threads : At(t, "raised") =>
        /\ ~overwritten[t] => text[t].of = own[t]
        /\ text[t].of # NoMessage => text[t].bytes = MessageLen[text[t].of]

\* _ffi.py:208-209: "Load failures are cached and re-reported on every call."
\* When the attempt to load ends in an exception the failure has been cached,
\* so that the caller's next call re-reports it and does not load again.
LoadFailureIsCached ==
    [][\A t \in Threads : pc[t] \in {"loadRaised", "missing"} =>
        _LOAD_ERROR]_vars
=============================================================================
