--------------------------- MODULE FfiCoreProofs ---------------------------
(***************************************************************************)
(* The foreign-function core, for any finite set of threads, any set of    *)
(* diagnostics and any number of loads: no call goes through a bundle with *)
(* a prototype missing, a loaded library stays loaded, and the message of  *)
(* an ItbError is honest.                                                  *)
(*                                                                         *)
(* None of the three is inductive.  A call is prototyped because the       *)
(* bundle was declared one step before it was published (Declared); a      *)
(* thread that found a bundle never comes back to the loading path         *)
(* (Unsettled); and a message is honest at the end because, until another  *)
(* call fails, the library's diagnostic and the length reported for it are *)
(* the failing call's own (OwnWhileAlone).                                 *)
(***************************************************************************)
EXTENDS FfiCore, TLAPS

Loading == {"cached", "load", "declare", "publish", "loadRaised", "missing"}

\* What a thread is about to publish, or calls through, is declared; what it
\* is still declaring exists.
Declared ==
    /\ _SYMS # 0 => _SYMS \in declared
    /\ \A t \in Threads :
        /\ pc[t] \in {"publish", "call"} => mine[t] \in declared
        /\ pc[t] = "declare" => mine[t] # 0

Unsettled == \A t \in Threads : pc[t] \in Loading => ~settled[t]

\* A thread between its failing call and its exception still finds what it
\* recorded, unless another call has changed the diagnostic.
OwnWhileAlone ==
    \A t \in Threads :
        /\ pc[t] \in {"query", "copy"} => text[t] = NoText
        /\ pc[t] \in {"query", "copy"} /\ ~overwritten[t] =>
            lastError = own[t] /\ own[t] \in Messages
        /\ pc[t] = "copy" => need[t] > 1
        /\ pc[t] = "copy" /\ ~overwritten[t] => need[t] = Len1(own[t])
        /\ pc[t] = "call" => text[t] = NoText
        /\ pc[t] \in {"idle", "publish", "declare", "load", "cached"} =>
            text[t] = NoText
        /\ pc[t] \in {"loadRaised", "missing"} => text[t] = NoText

IInv == TypeOK /\ Declared /\ Unsettled /\ OwnWhileAlone /\ DiagnosticIsHonest
-----------------------------------------------------------------------------
\* Every diagnostic has a length of at least two with its NUL, the empty one
\* of one (_ffi.py:238-247).
LEMMA Lengths ==
    /\ Len1(NoMessage) = 1
    /\ \A m \in Messages : /\ Len1(m) \in Nat /\ Len1(m) > 1
                           /\ Len1(m) - 1 = MessageLen[m]
                           /\ m # NoMessage
    /\ NoText \in [of : Messages \union {NoMessage}, bytes : Nat]
BY FfiAssumption DEF Len1, NoText

\* Before the first call nothing is loaded and nothing has failed.
LEMMA InitIInv == Init => IInv
<1>. SUFFICES ASSUME Init PROVE IInv
  OBVIOUS
<1>1. TypeOK
  <2>1. loads \in 0..MaxLoads /\ _SYMS \in 0..loads /\ declared \subseteq 1..loads
    BY FfiAssumption DEF Init
  <2>2. mine \in [Threads -> 0..loads] /\ need \in [Threads -> Nat]
    BY DEF Init
  <2>. QED BY <2>1, <2>2, Lengths DEF Init, TypeOK, Labels
<1>. QED BY <1>1 DEF Init, IInv, Declared, Unsettled, Loading, OwnWhileAlone,
             DiagnosticIsHonest, At

\* A step of syms() keeps the invariant (_ffi.py:188-220).
LEMMA LoadKeeps ==
    ASSUME IInv, NEW t \in Threads, LoadStep(t)
    PROVE  IInv'
<1>. USE FfiAssumption DEF At, GoTo, Get, Known, Opened
<1>1. TypeOK'
  <2>1. CASE EnterSyms(t)
    BY <2>1, ZenonT(30) DEF IInv, TypeOK, Labels, EnterSyms, errorVars
  <2>2. CASE TestLoadError(t)
    BY <2>2 DEF IInv, TypeOK, Labels, TestLoadError, loadVars, errorVars
  <2>3. CASE OpenLibrary(t)
    BY <2>3 DEF IInv, TypeOK, Labels, OpenLibrary, errorVars
  <2>4. CASE OpenFails(t)
    BY <2>4 DEF IInv, TypeOK, Labels, OpenFails, errorVars
  <2>5. CASE DeclarePrototypes(t)
    <3>1. mine[t] \in 1..loads
      BY <2>5 DEF IInv, TypeOK, Declared, DeclarePrototypes
    <3>2. declared' \subseteq 1..loads'
      BY <2>5, <3>1 DEF IInv, TypeOK, DeclarePrototypes
    <3>. QED BY <2>5, <3>2
                DEF IInv, TypeOK, Labels, DeclarePrototypes, errorVars
  <2>6. CASE SymbolMissing(t)
    BY <2>6 DEF IInv, TypeOK, Labels, SymbolMissing, errorVars
  <2>7. CASE Publish(t)
    BY <2>7 DEF IInv, TypeOK, Labels, Publish, errorVars
  <2>. QED BY <2>1, <2>2, <2>3, <2>4, <2>5, <2>6, <2>7 DEF LoadStep
<1>2. Declared'
  BY DEF IInv, TypeOK, Declared, LoadStep, EnterSyms, TestLoadError,
         OpenLibrary, OpenFails, DeclarePrototypes, SymbolMissing, Publish,
         loadVars, errorVars
<1>3. Unsettled'
  BY ZenonT(30) DEF IInv, TypeOK, Unsettled, Loading, LoadStep, EnterSyms,
                  TestLoadError, OpenLibrary, OpenFails, DeclarePrototypes,
                  SymbolMissing, Publish, loadVars, errorVars
<1>4. /\ UNCHANGED errorVars
      /\ pc[t] \in {"idle", "cached", "load", "declare", "publish"}
      /\ \E label \in {"call", "cached", "load", "loadRaised", "declare", "publish",
                       "missing"} : pc' = [pc EXCEPT ![t] = label]
  BY DEF LoadStep, EnterSyms, TestLoadError, OpenLibrary, OpenFails,
         DeclarePrototypes, SymbolMissing, Publish
<1>5. OwnWhileAlone'
  BY <1>4 DEF IInv, TypeOK, OwnWhileAlone, errorVars, NoText, Len1
<1>6. DiagnosticIsHonest'
  BY <1>4 DEF IInv, TypeOK, DiagnosticIsHonest, errorVars
<1>. QED BY <1>1, <1>2, <1>3, <1>5, <1>6 DEF IInv

\* A call, its failure and last_error() keep it, whichever other threads are
\* at the same (_ffi.py:223-254).
LEMMA CallKeeps ==
    ASSUME IInv, NEW t \in Threads, CallStep(t)
    PROVE  IInv'
<1>. USE FfiAssumption, Lengths DEF At, GoTo
<1>1. UNCHANGED loadVars
  BY DEF CallStep, CallSucceeds, CallAgain, CallFails, QueryLength, CopyText,
         Caught
<1>2. /\ pc[t] \in {"call", "query", "copy", "raised", "loadRaised", "missing"}
      /\ \/ UNCHANGED pc
         \/ \E label \in {"idle", "query", "copy", "raised"} :
                pc' = [pc EXCEPT ![t] = label]
  BY DEF CallStep, CallSucceeds, CallAgain, CallFails, QueryLength, CopyText,
         Caught
<1>3. Declared' /\ Unsettled'
  BY <1>1, <1>2 DEF IInv, TypeOK, Declared, Unsettled, Loading, loadVars
<1>4. CASE CallSucceeds(t)
  <2>1. TypeOK'
    BY <1>4 DEF IInv, TypeOK, Labels, CallSucceeds, loadVars
  <2>2. OwnWhileAlone' /\ DiagnosticIsHonest'
    BY <1>4 DEF IInv, TypeOK, OwnWhileAlone, DiagnosticIsHonest, CallSucceeds
  <2>. QED BY <1>3, <2>1, <2>2 DEF IInv
<1>5. CASE CallAgain(t)
  <2>1. TypeOK'
    BY <1>5 DEF IInv, TypeOK, Labels, CallAgain, loadVars
  <2>2. OwnWhileAlone' /\ DiagnosticIsHonest'
    BY <1>5 DEF IInv, TypeOK, OwnWhileAlone, DiagnosticIsHonest, CallAgain
  <2>. QED BY <1>3, <2>1, <2>2 DEF IInv
<1>6. CASE CallFails(t)
  <2>1. TypeOK'
    BY <1>6 DEF IInv, TypeOK, Labels, CallFails, loadVars
  <2>2. OwnWhileAlone' /\ DiagnosticIsHonest'
    BY <1>6 DEF IInv, TypeOK, OwnWhileAlone, DiagnosticIsHonest, CallFails
  <2>. QED BY <1>3, <2>1, <2>2 DEF IInv
<1>7. CASE QueryLength(t)
  <2>1. TypeOK'
    BY <1>7 DEF IInv, TypeOK, Labels, QueryLength, loadVars
  <2>2. OwnWhileAlone'
    BY <1>7 DEF IInv, TypeOK, OwnWhileAlone, QueryLength
  <2>3. DiagnosticIsHonest'
    BY <1>7
       DEF IInv, TypeOK, OwnWhileAlone, DiagnosticIsHonest, QueryLength, NoText
  <2>. QED BY <1>3, <2>1, <2>2, <2>3 DEF IInv
<1>8. CASE CopyText(t)
  <2>1. TypeOK'
    BY <1>8 DEF IInv, TypeOK, Labels, CopyText, CutAt, loadVars
  <2>2. OwnWhileAlone'
    BY <1>8 DEF IInv, TypeOK, OwnWhileAlone, CopyText
  <2>3. DiagnosticIsHonest'
    BY <1>8
       DEF IInv, TypeOK, OwnWhileAlone, DiagnosticIsHonest, CopyText, CutAt,
                NoText
  <2>. QED BY <1>3, <2>1, <2>2, <2>3 DEF IInv
<1>9. CASE Caught(t)
  <2>1. TypeOK'
    BY <1>9 DEF IInv, TypeOK, Labels, Caught, loadVars
  <2>2. OwnWhileAlone' /\ DiagnosticIsHonest'
    BY <1>9 DEF IInv, TypeOK, OwnWhileAlone, DiagnosticIsHonest, Caught
  <2>. QED BY <1>3, <2>1, <2>2 DEF IInv
<1>. QED BY <1>4, <1>5, <1>6, <1>7, <1>8, <1>9 DEF CallStep

\* The inductive invariant holds in every state of every behaviour.
LEMMA InductiveInvariant == Spec => []IInv
<1>1. IInv /\ [Next]_vars => IInv'
  <2>. SUFFICES ASSUME IInv, [Next]_vars PROVE IInv'
    OBVIOUS
  <2>1. CASE UNCHANGED vars
    BY <2>1
       DEF IInv, TypeOK, Declared, Unsettled, OwnWhileAlone, DiagnosticIsHonest,
                vars, loadVars, errorVars, At, Len1, NoText
  <2>2. ASSUME NEW t \in Threads, LoadStep(t) \/ CallStep(t) PROVE IInv'
    BY <2>2, LoadKeeps, CallKeeps
  <2>. QED BY <2>1, <2>2 DEF Next
<1>. QED BY InitIInv, <1>1, PTL DEF Spec

\* syms() and last_error() keep their types, however many threads load at
\* once (_ffi.py:203-254).
THEOREM TypeCorrect == Spec => []TypeOK
BY InductiveInvariant, PTL DEF IInv

\* No call goes through a bundle with a prototype missing (_ffi.py:188-220).
THEOREM Prototyped == Spec => []CallsArePrototyped
<1>1. IInv => CallsArePrototyped
  BY DEF IInv, Declared, CallsArePrototyped, At
<1>. QED BY InductiveInvariant, <1>1, PTL

\* A call begun after a bundle was published does not load, and so does not
\* fail to load, again (_ffi.py:207-220).
THEOREM StaysLoaded == Spec => []LoadedStaysLoaded
<1>1. IInv => LoadedStaysLoaded
  BY DEF IInv, Unsettled, Loading, LoadedStaysLoaded
<1>. QED BY InductiveInvariant, <1>1, PTL

\* The message of an ItbError is the failing call's own and whole unless
\* another call has changed the diagnostic in between, by failing or by a
\* success that clears it, and never a cut or a mix (error.py:12-17,
\* _ffi.py:231-247).
THEOREM HonestDiagnostic == Spec => []DiagnosticIsHonest
BY InductiveInvariant, PTL DEF IInv
=============================================================================
