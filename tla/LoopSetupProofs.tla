-------------------------- MODULE LoopSetupProofs --------------------------
(***************************************************************************)
(* Proofs about LoopSetup, for any integer maxima, any command lines and   *)
(* any limits the environment may have installed: the runtime is shaped as *)
(* the flags ask before the first session exists, and the workers find the *)
(* Pipelines their shape visits.                                           *)
(*                                                                         *)
(* Neither is inductive.  The run walks through its stages in one order;   *)
(* what each leaves is said from the stage on that leaves it: the flags    *)
(* kept within the integers (Accepted), the limit (LimitFits), the knobs   *)
(* (KnobsFit), and for the Pipelines which surfaces are done and which are *)
(* still to do (Progress).                                                 *)
(***************************************************************************)
EXTENDS LoopSetup, SequenceTheorems, TLAPS

Building == {"build", "init", "save", "payload", "running"}
Shaped == Building \union {"exit 1"}
PastFlags == {"limit", "record", "knobs"} \union Shaped
PastLimit == {"record", "knobs"} \union Shaped

\* A run past parse_flags has flags that a C int holds, a profile of a surface,
\* and a memory limit that is auto's or what parse_size made of the number.
Accepted ==
    /\ args \in Lines
    /\ pc \in PastFlags =>
        /\ args.gogc \in 0..IntMax /\ args.gomaxprocs \in 0..IntMax
        /\ args.profile \in {"none", "stream", "message"}
        /\ pc = "limit" => memlimit = MemlimitArg
        /\ (args.memlimit # AutoSize /\ args.memlimit.mult > 1) =>
            args.memlimit.digits * args.memlimit.mult \in 0..MaxLimit

\* The library's limit, before and after it is set.
LimitFits ==
    /\ pc \in {"flags", "limit"} => limit = initial.limit
    /\ pc \in PastLimit =>
        /\ args.memlimit = AutoSize =>
            /\ limit # MaxLimit
            /\ initial.limit # MaxLimit => limit = initial.limit
        /\ (args.memlimit # AutoSize /\ Holdable(args.memlimit)) =>
            limit = args.memlimit.digits * args.memlimit.mult
    /\ pc \in {"knobs"} \union Shaped => memlimit = limit

KnobsFit ==
    /\ pc \notin Shaped => gc = initial.gc /\ procs = initial.procs
    /\ pc \in Shaped =>
        /\ gc = (IF args.gogc = 0 THEN initial.gc ELSE args.gogc)
        /\ procs = (IF args.gomaxprocs = 0 THEN initial.procs ELSE args.gomaxprocs)

\* No session before the runtime is shaped, none after a failure.
Sessionless ==
    pc \notin Building => made = None /\ \A s \in Surfaces : pipe[s] = None

Visited ==
    IF shape = "both" THEN Surfaces
    ELSE IF shape = "message" THEN {"message"} ELSE {"stream"}

\* A profile of the operator's is of the one surface the shape is narrowed to.
Narrowed ==
    pc \in PastFlags /\ args.profile # "none" => Visited = {args.profile}

\* The surfaces built and those still to be built are the visited ones.
Progress ==
    /\ pc \in {"flags", "limit", "record", "knobs"} =>
        \A s \in Surfaces : ~blob[s]
    /\ pc \in Building =>
        /\ todo \in {<<>>, <<"stream">>, <<"message">>, <<"stream", "message">>}
        /\ \A i \in 1..Len(todo) : todo[i] \in Visited
        /\ \A s \in Surfaces :
            LET due == \E i \in 1..Len(todo) : todo[i] = s
            IN  /\ pipe[s] = (IF s \in Visited /\ ~due THEN s ELSE None)
                /\ blob[s] <=> (s \in Visited /\ ~due)
    /\ pc \in {"init", "save"} => todo # <<>>
    /\ pc = "save" => made = Head(todo)
    /\ pc \in {"payload", "running"} => todo = <<>>

\* The layers are filled before they are asked for.
LayersFilled == pc \in {"init", "save"} => Keyed

IInv ==
    /\ TypeOK /\ Accepted /\ LimitFits /\ KnobsFit
    /\ Sessionless /\ Narrowed /\ Progress /\ LayersFilled
-----------------------------------------------------------------------------
(* Integers across the boundary. *)

\* ctypes hands a number the C type holds over as it is.
LEMMA WrapKeeps ==
    ASSUME NEW max \in Nat \ {0}, NEW x \in 0..max
    PROVE  Wrap(max, x) = x
<1>1. x % (2 * (max + 1)) = x
  OBVIOUS
<1>. QED BY <1>1 DEF Wrap

\* Whatever the number, what arrives is one the C type holds.
LEMMA WrapRange ==
    ASSUME NEW max \in Nat \ {0}, NEW x \in Int
    PROVE  Wrap(max, x) \in (0 - (max + 1))..max
<1>1. 2 * (max + 1) \in Nat \ {0}
  OBVIOUS
<1>2. x % (2 * (max + 1)) \in 0..(2 * (max + 1) - 1)
  BY <1>1
<1>. QED BY <1>2 DEF Wrap

\* The division in parse_size decides whether the product fits.
LEMMA ProductFits ==
    ASSUME NEW d \in Nat, NEW m \in Nat \ {0}, NEW top \in Nat,
           ~(d > top \div m)
    PROVE  d * m \in 0..top
<1>1. /\ top \div m \in Nat /\ top % m \in Nat
      /\ top = m * (top \div m) + (top % m)
  OBVIOUS
<1>2. PICK q \in Nat : q = top \div m
  BY <1>1
<1>3. d <= q /\ m * q <= top
  BY <1>1, <1>2
<1>4. PICK e \in Nat : q = d + e
  BY <1>3
<1>5. m * q = m * d + m * e /\ m * e \in Nat /\ m * d \in Nat /\ d * m = m * d
  BY <1>4
<1>. QED BY <1>3, <1>5

\* The two one-element lists of SetKnobs, joined.
LEMMA OneAndOne ==
    ASSUME NEW S, NEW x \in S, NEW y \in S
    PROVE  <<x>> \o <<y>> = <<x, y>>
<1>1. <<x>> \in Seq(S) /\ <<y>> \in Seq(S)
  OBVIOUS
<1>2. PICK joined : joined = <<x>> \o <<y>>
  OBVIOUS
<1>3. joined \in Seq(S) /\ Len(joined) = 2 /\ joined[1] = x /\ joined[2] = y
  BY <1>1, <1>2, ConcatProperties
<1>4. PICK pair : pair = <<x, y>>
  OBVIOUS
<1>5. pair \in Seq(S) /\ Len(pair) = 2 /\ pair[1] = x /\ pair[2] = y
  BY <1>4
<1>6. \A i \in 1..Len(joined) : joined[i] = pair[i]
  BY <1>3, <1>5
<1>. QED BY <1>2, <1>3, <1>4, <1>5, <1>6, SeqEqual
-----------------------------------------------------------------------------
(* The steps. *)

LEMMA Maxima ==
    /\ MaxLimit \in Nat \ {0} /\ IntMax \in Nat \ {0}
    /\ None \notin Int /\ None \notin Shapes
    /\ AutoLimit \in 0..(MaxLimit - 1)
  BY SetupAssumption DEF AutoLimit

\* What the command line may hold.
LEMMA LineShape ==
    ASSUME args \in Lines
    PROVE  /\ args.memlimit = AutoSize
                \/ args.memlimit \in [digits : Nat, mult : Nat \ {0}]
           /\ args.shape \in Shapes
           /\ args.gogc \in Int /\ args.gomaxprocs \in Int
           /\ args.profile \in {"none", "stream", "message", "blob-only", "unknown"}
           /\ args.named \subseteq Layers
  BY SetupAssumption

LEMMA AtFirst == Init => IInv
<1>. SUFFICES ASSUME Init PROVE IInv
  OBVIOUS
<1>1. TypeOK
  BY SetupAssumption DEF Init, TypeOK, Surfaces, Layers, Shapes
<1>2. Accepted /\ LimitFits /\ KnobsFit
  BY DEF Init, Accepted, LimitFits, KnobsFit, PastFlags, PastLimit, Shaped,
         Building
<1>3. Sessionless /\ Narrowed /\ Progress /\ LayersFilled
  BY DEF Init, Sessionless, Narrowed, Progress, LayersFilled, PastFlags, Shaped,
     Building
<1>. QED BY <1>1, <1>2, <1>3 DEF IInv

\* parse_flags goes on with a size the library can hold when a suffix was
\* given, and with flags a C int holds (size.py:45-66, main.py:229).
LEMMA ParseFlagsKeeps == ASSUME IInv, ParseFlags PROVE IInv'
<1>. USE DEF IInv
<1>1. /\ args \in Lines /\ pc = "flags" /\ pc' = "limit"
      /\ UNCHANGED <<args, limit, gc, procs, initial, todo, opts, made, pipe, blob>>
  BY DEF ParseFlags, runtimeVars, buildVars, Accepted
<1>2. /\ args.memlimit = AutoSize
           \/ args.memlimit \in [digits : Nat, mult : Nat \ {0}]
      /\ args.shape \in Shapes
      /\ args.gogc \in Int /\ args.gomaxprocs \in Int
      /\ args.profile \in {"none", "stream", "message", "blob-only", "unknown"}
  BY <1>1, LineShape
<1>3. /\ memlimit' = MemlimitArg /\ MemlimitArg # None
      /\ args.gogc \in 0..IntMax /\ args.gomaxprocs \in 0..IntMax
      /\ args.profile \in {"none", "stream", "message"}
      /\ shape' = IF args.profile = "none" THEN args.shape
                  ELSE Narrow(args.shape, args.profile)
  BY <1>2, Maxima DEF ParseFlags, FlagsAccepted, SizeParses, IsInt
<1>4. (args.memlimit # AutoSize /\ args.memlimit.mult > 1) =>
            args.memlimit.digits * args.memlimit.mult \in 0..MaxLimit
  BY <1>2, <1>3, ProductFits, Maxima DEF MemlimitArg, ParseSize
<1>5. MemlimitArg \in Nat
  BY <1>2, <1>3, Maxima DEF MemlimitArg, ParseSize, AutoLimit
<1>6. shape' \in Shapes
  BY <1>2, <1>3 DEF Narrow, Shapes
<1>7. TypeOK'
  <2>1. memlimit' \in Nat /\ memlimit' # None /\ shape' # None
    BY <1>3, <1>5, <1>6, Maxima DEF TypeOK, Shapes
  <2>. QED BY <1>1, <1>6, <2>1 DEF TypeOK
<1>8. MemlimitArg' = MemlimitArg
  BY <1>1 DEF MemlimitArg, AutoLimit
<1>9. Accepted'
  BY <1>1, <1>3, <1>4, <1>8 DEF Accepted
<1>10. Narrowed'
  BY <1>1, <1>3 DEF Narrowed, Narrow, Visited, Surfaces
<1>11. LimitFits' /\ KnobsFit' /\ Sessionless' /\ Progress' /\ LayersFilled'
  BY <1>1
     DEF LimitFits, KnobsFit, Sessionless, Progress, LayersFilled, PastLimit,
     Shaped, Building
<1>. QED BY <1>7, <1>9, <1>10, <1>11

LEMMA FlagsEndKeeps == ASSUME IInv, FlagsEndRun PROVE IInv'
<1>. USE DEF IInv
<1>1. /\ pc = "flags" /\ pc' \in {"exit 0", "exit 2"}
      /\ UNCHANGED <<args, shape, memlimit, limit, gc, procs, initial, todo, opts,
                     made, pipe, blob>>
  BY DEF FlagsEndRun, runtimeVars, buildVars
<1>2. TypeOK'
  BY <1>1 DEF TypeOK
<1>3. Accepted' /\ LimitFits' /\ KnobsFit' /\ Sessionless' /\ Narrowed'
      /\ Progress' /\ LayersFilled'
  BY <1>1 DEF Accepted, LimitFits, KnobsFit, Sessionless, Narrowed, Progress,
     LayersFilled, PastFlags, PastLimit, Shaped, Building
<1>. QED BY <1>2, <1>3

\* A size the library can hold arrives as it was written, an auto size only
\* where the environment has set none (main.py:623-639).
LEMMA SetLimitKeeps == ASSUME IInv, SetLimit PROVE IInv'
<1>. USE DEF IInv
<1>1. /\ pc = "limit" /\ pc' = "record" /\ memlimit = MemlimitArg
      /\ args \in Lines /\ limit = initial.limit
      /\ limit' = IF MustSet THEN LimitAfter(memlimit) ELSE limit
      /\ UNCHANGED <<args, shape, memlimit, gc, procs, initial, todo, opts, made,
                     pipe, blob>>
  BY DEF SetLimit, buildVars, Accepted, LimitFits, PastFlags
<1>2. args.memlimit = AutoSize
        \/ args.memlimit \in [digits : Nat, mult : Nat \ {0}]
  BY <1>1, LineShape
<1>3. memlimit \in Nat /\ limit \in 0..MaxLimit /\ MaxLimit \in Nat \ {0}
  BY <1>1, Maxima DEF TypeOK
<1>4. limit' \in 0..MaxLimit
  BY <1>1, <1>3, WrapRange DEF LimitAfter
<1>5. args.memlimit = AutoSize =>
        /\ limit' # MaxLimit
        /\ initial.limit # MaxLimit => limit' = initial.limit
  <2>1. SUFFICES ASSUME args.memlimit = AutoSize, limit = MaxLimit
                 PROVE  limit' # MaxLimit
    BY <1>1 DEF MustSet
  <2>2. memlimit \in 0..(MaxLimit - 1)
    BY <1>1, <2>1, Maxima DEF MemlimitArg, AutoLimit
  <2>3. Wrap(MaxLimit, memlimit) = memlimit
    BY <1>3, <2>2, WrapKeeps
  <2>. QED BY <1>1, <2>1, <2>2, <2>3 DEF MustSet, LimitAfter
<1>6. (args.memlimit # AutoSize /\ Holdable(args.memlimit)) =>
        limit' = args.memlimit.digits * args.memlimit.mult
  <2>1. SUFFICES ASSUME args.memlimit # AutoSize, Holdable(args.memlimit)
                 PROVE  limit' = args.memlimit.digits * args.memlimit.mult
    OBVIOUS
  <2>2. /\ memlimit = args.memlimit.digits * args.memlimit.mult
        /\ memlimit \in 0..MaxLimit
    <3>0. /\ memlimit = ParseSize(args.memlimit) /\ memlimit \in Nat
          /\ args.memlimit.digits \in Nat /\ args.memlimit.mult \in Nat \ {0}
      BY <1>1, <1>2, <1>3, <2>1 DEF MemlimitArg
    <3>1. CASE args.memlimit.mult > 1
      BY <1>1, <1>3, <2>1, <3>1, Maxima DEF MemlimitArg, ParseSize, Accepted,
         PastFlags
    <3>2. CASE ~(args.memlimit.mult > 1)
      <4>1. args.memlimit.mult = 1 /\ args.memlimit.digits \in 0..MaxLimit
        BY <1>3, <2>1, <3>0, <3>2 DEF Holdable
      <4>. QED BY <3>0, <3>2, <4>1 DEF ParseSize
    <3>. QED BY <3>1, <3>2
  <2>3. Wrap(MaxLimit, memlimit) = memlimit
    BY <1>3, <2>2, WrapKeeps
  <2>. QED BY <1>1, <2>1, <2>2, <2>3 DEF MustSet, LimitAfter
<1>7. TypeOK'
  BY <1>1, <1>4 DEF TypeOK
<1>8. LimitFits'
  BY <1>1, <1>5, <1>6 DEF LimitFits, PastLimit, Shaped, Building
<1>9. Accepted' /\ KnobsFit' /\ Sessionless' /\ Narrowed' /\ Progress' /\ LayersFilled'
  BY <1>1 DEF Accepted, KnobsFit, Sessionless, Narrowed, Visited, Progress,
     LayersFilled, PastFlags, Shaped, Building
<1>. QED BY <1>7, <1>8, <1>9

LEMMA RecordLimitKeeps == ASSUME IInv, RecordLimit PROVE IInv'
<1>. USE DEF IInv
<1>1. /\ pc = "record" /\ pc' = "knobs" /\ memlimit' = limit
      /\ UNCHANGED <<args, shape, limit, gc, procs, initial, todo, opts, made,
                     pipe, blob>>
  BY DEF RecordLimit, runtimeVars, buildVars
<1>2. limit \in Nat
  <2>1. limit \in 0..MaxLimit
    BY DEF TypeOK
  <2>. QED BY <2>1, Maxima
<1>3. TypeOK'
  BY <1>1, <1>2, Maxima DEF TypeOK
<1>4. LimitFits' /\ Accepted'
  BY <1>1 DEF LimitFits, Accepted, PastFlags, PastLimit, Shaped, Building
<1>5. KnobsFit' /\ Sessionless' /\ Narrowed' /\ Progress' /\ LayersFilled'
  BY <1>1 DEF KnobsFit, Sessionless, Narrowed, Visited, Progress, LayersFilled,
     PastFlags, Shaped, Building
<1>. QED BY <1>3, <1>4, <1>5

\* The knobs of a flag that a C int holds are in force as given, and the
\* surfaces to be built are the visited ones, in their order (main.py:640-684).
LEMMA SetKnobsKeeps == ASSUME IInv, SetKnobs PROVE IInv'
<1>. USE DEF IInv
<1>1. /\ pc = "knobs" /\ pc' = "build" /\ shape \in Shapes
      /\ todo' = (IF shape # "message" THEN <<"stream">> ELSE <<>>)
               \o (IF shape \in {"message", "both"} THEN <<"message">> ELSE <<>>)
      /\ gc' = IF args.gogc > 0 THEN PercentAfter(args.gogc) ELSE gc
      /\ procs' = IF args.gomaxprocs > 0 THEN ProcsAfter(args.gomaxprocs) ELSE procs
      /\ UNCHANGED <<args, shape, memlimit, limit, initial, opts, made, pipe, blob>>
  BY DEF SetKnobs, TypeOK
<1>2. args.gogc \in 0..IntMax /\ args.gomaxprocs \in 0..IntMax
  BY <1>1 DEF Accepted, PastFlags
<1>3. /\ Wrap(IntMax, args.gogc) = args.gogc
      /\ Wrap(IntMax, args.gomaxprocs) = args.gomaxprocs
  BY <1>2, Maxima, WrapKeeps
<1>4. /\ gc' = IF args.gogc = 0 THEN initial.gc ELSE args.gogc
      /\ procs' = IF args.gomaxprocs = 0 THEN initial.procs ELSE args.gomaxprocs
  <2>1. gc = initial.gc /\ procs = initial.procs
    BY <1>1 DEF KnobsFit, Shaped, Building
  <2>. QED BY <1>1, <1>2, <1>3, <2>1, Maxima DEF PercentAfter, ProcsAfter
<1>5. \/ /\ shape = "both" /\ todo' = <<"stream", "message">>
         /\ Visited' = Surfaces
      \/ shape = "message" /\ todo' = <<"message">> /\ Visited' = {"message"}
      \/ /\ shape \in {"stream", "one_shot"} /\ todo' = <<"stream">>
         /\ Visited' = {"stream"}
  <2>1. /\ <<"stream">> \o <<"message">> = <<"stream", "message">>
        /\ <<"stream">> \o <<>> = <<"stream">> /\ <<>> \o <<"message">> = <<"message">>
    <3>1. /\ "stream" \in Surfaces /\ "message" \in Surfaces
          /\ <<"stream">> \in Seq(Surfaces) /\ <<"message">> \in Seq(Surfaces)
      BY DEF Surfaces
    <3>2. <<"stream">> \o <<"message">> = <<"stream", "message">>
      BY <3>1, OneAndOne, Zenon
    <3>. QED BY <3>1, <3>2, ConcatEmptySeq
  <2>2. shape' = shape
    BY <1>1
  <2>3. CASE shape = "both"
    <3>1. shape # "message" /\ shape \in {"message", "both"}
      BY <2>3
    <3>2. todo' = <<"stream">> \o <<"message">>
      BY <1>1, <3>1
    <3>. QED BY <2>1, <2>3, <2>2, <3>2 DEF Visited
  <2>4. CASE shape = "message"
    BY <1>1, <2>1, <2>4 DEF Visited
  <2>5. CASE shape \in {"stream", "one_shot"}
    BY <1>1, <2>1, <2>5 DEF Visited
  <2>. QED BY <1>1, <2>3, <2>4, <2>5 DEF Shapes
<1>6. TypeOK'
  <2>1. gc' \in Int /\ procs' \in Int
    <3>1. initial.gc \in Int /\ initial.procs \in Int
      BY DEF TypeOK
    <3>. QED BY <1>2, <1>4, <3>1, Maxima
  <2>2. todo' \in Seq(Surfaces)
    <3>1. {<<"stream", "message">>, <<"message">>, <<"stream">>} \subseteq Seq(Surfaces)
      BY DEF Surfaces
    <3>. QED BY <1>5, <3>1
  <2>. QED BY <1>1, <2>1, <2>2 DEF TypeOK
<1>7. Progress'
  <2>1. \A s \in Surfaces : pipe[s] = None /\ ~blob[s]
    BY <1>1 DEF Sessionless, Progress, Building
  <2>2. \A s \in Surfaces : s \in Visited' <=> \E i \in 1..Len(todo') : todo'[i] = s
    BY <1>5 DEF Surfaces
  <2>3. \A i \in 1..Len(todo') : todo'[i] \in Visited'
    BY <1>5 DEF Surfaces
  <2>. QED BY <1>1, <1>5, <2>1, <2>2, <2>3 DEF Progress
<1>8. KnobsFit'
  BY <1>1, <1>4 DEF KnobsFit, Shaped, Building
<1>9. Accepted' /\ LimitFits' /\ Sessionless' /\ Narrowed' /\ LayersFilled'
  BY <1>1 DEF Accepted, LimitFits, Sessionless, Narrowed, Visited, LayersFilled,
     PastFlags, PastLimit, Shaped, Building
<1>. QED BY <1>6, <1>7, <1>8, <1>9

\* The layers of a profile that are asked for and left unnamed are filled in,
\* and a palette named has its segment named, which is what SetupAssumption
\* says of the library's records (main.py:527-562).
LEMMA FillLayersKeeps == ASSUME IInv, FillLayers PROVE IInv'
<1>. USE DEF IInv
<1>1. /\ pc = "build" /\ pc' = "init" /\ todo # <<>> /\ args \in Lines
      /\ opts' = IF args.profile = "none" THEN {} ELSE FillOf(args.named)
      /\ UNCHANGED <<args, shape, memlimit, limit, gc, procs, initial, todo, made,
                     pipe, blob>>
  BY DEF FillLayers, runtimeVars, Accepted
<1>2. opts' \subseteq Layers
  BY <1>1 DEF FillOf, Layers
<1>3. Keyed'
  <2>1. /\ args.profile = "none" => args.named = Layers
        /\ "palette" \in args.named => "segment" \in args.named
    BY <1>1, SetupAssumption
  <2>. QED BY <1>1, <2>1 DEF Keyed, FillOf, Layers
<1>4. TypeOK'
  BY <1>1, <1>2 DEF TypeOK
<1>5. Accepted' /\ LimitFits' /\ KnobsFit' /\ Sessionless' /\ Narrowed'
  BY <1>1 DEF Accepted, LimitFits, KnobsFit, Sessionless, Narrowed, Visited,
     PastFlags, PastLimit, Shaped, Building
<1>6. Progress' /\ LayersFilled'
  BY <1>1, <1>3 DEF Progress, Visited, LayersFilled, Building
<1>. QED BY <1>4, <1>5, <1>6

\* What is constructed for a surface is of that surface: the shape was narrowed
\* to the profile's (main.py:300-307, 539-548).
LEMMA InitPipelineKeeps == ASSUME IInv, InitPipeline PROVE IInv'
<1>. USE DEF IInv
<1>1. /\ pc = "init" /\ pc' = "save" /\ made' = ProfileFor(Head(todo))
      /\ UNCHANGED <<args, shape, memlimit, limit, gc, procs, initial, todo, opts,
                     pipe, blob>>
  BY DEF InitPipeline, runtimeVars
<1>2. /\ todo \in {<<"stream">>, <<"message">>, <<"stream", "message">>}
      /\ Head(todo) = todo[1] /\ 1 \in 1..Len(todo)
  BY <1>1 DEF Progress, Building
<1>3. Head(todo) \in Visited /\ Head(todo) \in Surfaces
  BY <1>1, <1>2 DEF Progress, Building, Surfaces
<1>4. made' = Head(todo)
  BY <1>1, <1>3 DEF ProfileFor, Narrowed, PastFlags, Shaped, Building
<1>5. TypeOK'
  BY <1>1, <1>3, <1>4 DEF TypeOK
<1>6. Accepted' /\ LimitFits' /\ KnobsFit' /\ Sessionless' /\ Narrowed'
  BY <1>1 DEF Accepted, LimitFits, KnobsFit, Sessionless, Narrowed, Visited,
     PastFlags, PastLimit, Shaped, Building
<1>7. Progress' /\ LayersFilled'
  BY <1>1, <1>4 DEF Progress, Visited, LayersFilled, Keyed, Building
<1>. QED BY <1>5, <1>6, <1>7

LEMMA SavePipelineKeeps == ASSUME IInv, SavePipeline PROVE IInv'
<1>. USE DEF IInv
<1>1. /\ pc = "save" /\ pc' = "build" /\ made = Head(todo)
      /\ pipe' = [pipe EXCEPT ![Head(todo)] = made]
      /\ blob' = [blob EXCEPT ![Head(todo)] = TRUE]
      /\ todo' = Tail(todo) /\ made' = None
      /\ UNCHANGED <<args, shape, memlimit, limit, gc, procs, initial, opts>>
  BY DEF SavePipeline, runtimeVars, Progress
<1>2. \/ todo = <<"stream">> /\ todo' = <<>> /\ made = "stream"
      \/ todo = <<"message">> /\ todo' = <<>> /\ made = "message"
      \/ /\ todo = <<"stream", "message">> /\ todo' = <<"message">>
         /\ made = "stream"
  <2>1. todo \in {<<"stream">>, <<"message">>, <<"stream", "message">>}
    BY <1>1 DEF Progress, Building
  <2>2. /\ Tail(<<"stream">>) = <<>> /\ Tail(<<"message">>) = <<>>
        /\ Tail(<<"stream", "message">>) = <<"message">>
    OBVIOUS
  <2>3. /\ Head(<<"stream">>) = "stream" /\ Head(<<"message">>) = "message"
        /\ Head(<<"stream", "message">>) = "stream"
    OBVIOUS
  <2>4. made = Head(todo) /\ todo' = Tail(todo)
    BY <1>1
  <2>. QED BY <2>1, <2>2, <2>3, <2>4
<1>3. /\ pipe \in [Surfaces -> Surfaces \union {None}]
      /\ blob \in [Surfaces -> BOOLEAN] /\ made \in Surfaces
      /\ pipe' = [pipe EXCEPT ![made] = made] /\ blob' = [blob EXCEPT ![made] = TRUE]
  BY <1>1, <1>2 DEF TypeOK, Surfaces
<1>4. TypeOK'
  <2>1. todo' \in Seq(Surfaces)
    <3>1. <<>> \in Seq(Surfaces) /\ <<"message">> \in Seq(Surfaces)
      BY DEF Surfaces
    <3>. QED BY <1>2, <3>1
  <2>2. /\ pipe' \in [Surfaces -> Surfaces \union {None}]
        /\ blob' \in [Surfaces -> BOOLEAN]
    BY <1>3
  <2>. QED BY <1>1, <2>1, <2>2 DEF TypeOK
<1>5. Accepted' /\ LimitFits' /\ KnobsFit' /\ Sessionless' /\ Narrowed'
      /\ LayersFilled'
  BY <1>1 DEF Accepted, LimitFits, KnobsFit, Sessionless, Narrowed, Visited,
     LayersFilled, PastFlags, PastLimit, Shaped, Building
<1>6. Progress'
  <2>1. Visited' = Visited
    BY <1>1 DEF Visited
  <2>2. \A i \in 1..Len(todo) : todo[i] \in Visited
    BY <1>1 DEF Progress, Building
  <2>3. made \in Visited /\ \A i \in 1..Len(todo') : todo'[i] \in Visited
    BY <1>2, <2>2
  <2>4. \A s \in Surfaces :
            (\E i \in 1..Len(todo) : todo[i] = s)
                <=> s = made \/ (\E i \in 1..Len(todo') : todo'[i] = s)
    BY <1>2 DEF Surfaces
  <2>5. ~ \E i \in 1..Len(todo') : todo'[i] = made
    BY <1>2
  <2>6. \A s \in Surfaces :
            LET due == \E i \in 1..Len(todo') : todo'[i] = s
            IN  /\ pipe'[s] = (IF s \in Visited /\ ~due THEN s ELSE None)
                /\ blob'[s] <=> (s \in Visited /\ ~due)
    BY <1>1, <1>3, <2>3, <2>4, <2>5 DEF Progress, Building
  <2>7. todo' \in {<<>>, <<"stream">>, <<"message">>, <<"stream", "message">>}
    BY <1>2
  <2>. QED BY <1>1, <2>1, <2>3, <2>6, <2>7 DEF Progress
<1>. QED BY <1>4, <1>5, <1>6

LEMMA SetupFailsKeeps == ASSUME IInv, SetupFails PROVE IInv'
<1>. USE DEF IInv
<1>1. /\ pc \in Building /\ pc' = "exit 1" /\ made' = None
      /\ pipe' = [s \in Surfaces |-> None]
      /\ UNCHANGED <<args, shape, memlimit, limit, gc, procs, initial, todo, opts,
                     blob>>
  BY DEF SetupFails, runtimeVars, Building
<1>2. TypeOK'
  BY <1>1 DEF TypeOK, Building
<1>3. Accepted' /\ LimitFits' /\ KnobsFit' /\ Sessionless' /\ Narrowed'
      /\ Progress' /\ LayersFilled'
  BY <1>1 DEF Accepted, LimitFits, KnobsFit, Sessionless, Narrowed, Visited,
     Progress, LayersFilled, PastFlags, PastLimit, Shaped, Building
<1>. QED BY <1>2, <1>3

LEMMA LaunchKeeps == ASSUME IInv, AllBuilt \/ Launch PROVE IInv'
<1>. USE DEF IInv
<1>1. /\ \/ pc = "build" /\ pc' = "payload" /\ todo = <<>>
         \/ pc = "payload" /\ pc' = "running"
      /\ UNCHANGED <<args, shape, memlimit, limit, gc, procs, initial, todo, opts,
                     made, pipe, blob>>
  BY DEF AllBuilt, Launch, runtimeVars, buildVars
<1>2. TypeOK'
  BY <1>1 DEF TypeOK
<1>3. Accepted' /\ LimitFits' /\ KnobsFit' /\ Sessionless' /\ Narrowed'
      /\ LayersFilled'
  BY <1>1 DEF Accepted, LimitFits, KnobsFit, Sessionless, Narrowed, Visited,
     LayersFilled, PastFlags, PastLimit, Shaped, Building
<1>4. Progress'
  <2>1. Visited' = Visited
    BY <1>1 DEF Visited
  <2>2. CASE pc = "build"
    <3>1. \A s \in Surfaces : ~ \E i \in 1..Len(todo) : todo[i] = s
      BY <1>1, <2>2
    <3>. QED BY <1>1, <2>1, <2>2, <3>1 DEF Progress, Building
  <2>3. CASE pc = "payload"
    BY <1>1, <2>1, <2>3 DEF Progress, Building
  <2>. QED BY <1>1, <2>2, <2>3
<1>. QED BY <1>2, <1>3, <1>4

LEMMA InvariantHolds == Spec => []IInv
<1>1. ASSUME IInv, UNCHANGED vars PROVE IInv'
  <2>1. UNCHANGED <<pc, args, shape, memlimit, limit, gc, procs, initial, todo,
                    opts, made, pipe, blob>>
    BY <1>1 DEF vars, runtimeVars, buildVars
  <2>2. TypeOK'
    BY <1>1, <2>1 DEF IInv, TypeOK
  <2>3. Accepted'
    BY <1>1, <2>1 DEF IInv, Accepted, MemlimitArg, AutoLimit
  <2>4. LimitFits' /\ KnobsFit' /\ Sessionless'
    BY <1>1, <2>1 DEF IInv, LimitFits, KnobsFit, Sessionless
  <2>5. Visited' = Visited /\ (Keyed' <=> Keyed)
    BY <2>1 DEF Visited, Keyed
  <2>6. Narrowed' /\ LayersFilled'
    BY <1>1, <2>1, <2>5 DEF IInv, Narrowed, LayersFilled
  <2>7. Progress'
    BY <1>1, <2>1, <2>5 DEF IInv, Progress
  <2>. QED BY <2>2, <2>4, <2>6, <2>7, <2>3 DEF IInv
<1>2. IInv /\ [Next]_vars => IInv'
  BY <1>1, ParseFlagsKeeps, FlagsEndKeeps, SetLimitKeeps, RecordLimitKeeps,
     SetKnobsKeeps, FillLayersKeeps, InitPipelineKeeps, SavePipelineKeeps,
     SetupFailsKeeps, LaunchKeeps DEF Next
<1>. QED BY <1>2, AtFirst, PTL DEF Spec
-----------------------------------------------------------------------------
\* The resolved configuration keeps its types for any maxima and any command
\* lines, and none gets past an unresolved one (main.py:340-443, 614-724).
THEOREM TypeCorrect == Spec => []TypeOK
<1>1. IInv => TypeOK
  BY DEF IInv
<1>. QED BY <1>1, InvariantHolds, PTL

\* Whatever integers the library has and whatever the flags: before the first
\* session exists the limit, the GC percentage and GOMAXPROCS are for good what
\* was asked for, or what the environment had installed, but for a plain
\* --memlimit too large for the library (main.py:623-646).
THEOREM ShapedBeforeSessions == Spec => []RuntimeIsShaped
<1>1. IInv => RuntimeIsShaped
  BY DEF IInv, RuntimeIsShaped, Sessionless, LimitFits, KnobsFit, PastLimit,
     Shaped, Building
<1>. QED BY <1>1, InvariantHolds, PTL

\* The workers find a Pipeline of the right surface, and its blob, for exactly
\* the surfaces they visit, and no layer is engaged without a key
\* (main.py:300-307, 527-562, 671-684).
THEOREM PipelinesReady == Spec => []ReadyForShape
<1>1. IInv => ReadyForShape
  <2>1. SUFFICES ASSUME IInv, pc = "running"
                 PROVE  \A s \in Surfaces :
                            /\ pipe[s] = (IF s \in Visited THEN s ELSE None)
                            /\ blob[s] <=> s \in Visited
    BY DEF IInv, ReadyForShape, LayersFilled, Visited
  <2>2. todo = <<>> /\ Len(todo) = 0
    BY <2>1 DEF IInv, Progress
  <2>. QED BY <2>1, <2>2 DEF IInv, Progress, Building
<1>. QED BY <1>1, InvariantHolds, PTL
=============================================================================
