----------------------------- MODULE LoopSetup -----------------------------
(***************************************************************************)
(* What loop/main.py does before the first worker starts (run, 614-724):   *)
(* the flags that select the Pipelines and the memory limit are resolved,  *)
(* the Go runtime in the library is shaped, and the Pipelines the shape    *)
(* needs are built, each with the blob a reopen will need.  LoopHarness    *)
(* takes over where this module says "running".                            *)
(*                                                                         *)
(* The library's limit is a signed integer up to MaxLimit (2^63 - 1 in the *)
(* code), its other knobs are C ints up to IntMax (2^31 - 1); Python's     *)
(* integers have no width, and ctypes keeps the low bits.                  *)
(***************************************************************************)
EXTENDS Integers, FiniteSets, Sequences

CONSTANTS
    MaxLimit,       \* the int64 maximum, which is no limit at all
    IntMax,         \* the largest C int
    Installed,      \* the limits the environment may have installed
    AutoLarge, AutoSmall,   \* the auto limits, of few and of many workers
    Lines,          \* the command lines
    None            \* the Python None

Shapes == {"stream", "message", "one_shot", "both"}
AutoSize == [digits |-> -1, mult |-> 1]
    \* --memlimit auto; or a number and its suffix

\* A --profile: none, of either surface, without one, or not registered; and
\* what its record names for the keystream layers.
Layers == {"palette", "segment", "outer"}

\* That a palette named has its segment named is assumed of the library's
\* records: its schedule "rejects zero" (main.py:553-555), so that no profile is
\* registered with a palette and no segment size.  Of such a record the loop
\* would not fill in the segment.
ASSUME SetupAssumption ==
    /\ MaxLimit \in Nat \ {0} /\ IntMax \in Nat \ {0}
    /\ Installed \subseteq 0..MaxLimit
    /\ {AutoLarge, AutoSmall} \subseteq 0..(MaxLimit - 1)
    /\ None \notin Int \union Shapes
    /\ \A l \in Lines :
        /\ l.memlimit = AutoSize \/ l.memlimit \in [digits : Nat, mult : Nat \ {0}]
        /\ {l.gogc, l.gomaxprocs} \subseteq Int
        /\ l.shape \in Shapes
        /\ l.profile \in {"none", "stream", "message", "blob-only", "unknown"}
        /\ l.named \subseteq Layers /\ (l.profile = "none" => l.named = Layers)
        /\ "palette" \in l.named => "segment" \in l.named
        /\ {l.parallax, l.wrapper, l.few} \subseteq BOOLEAN

VARIABLES
    pc,         \* where run() is
    args,       \* the command line
    shape,      \* cfg.shape, once resolved
    memlimit,   \* cfg.memlimit
    limit, gc, procs,   \* the library's memory limit, GC percentage, GOMAXPROCS
    initial,    \* what they were when the process started
    todo,       \* the surfaces still to be built
    opts,       \* the layers the options of the next Pipeline name
    made,       \* the session _build_pipeline has and has not returned yet
    pipe,       \* pipe[s]: None, or the surface of the profile it was built with
    blob        \* blob[s]: the retained blob is there

runtimeVars == <<limit, gc, procs, initial>>
buildVars == <<todo, opts, made, pipe, blob>>
vars == <<pc, args, shape, memlimit, runtimeVars, buildVars>>

Surfaces == {"stream", "message"}

\* The resolved configuration keeps its types, and no run goes on with a
\* memory limit or a shape that parse_flags could not resolve.
TypeOK ==
    /\ pc \in {"flags", "limit", "record", "knobs", "build", "init", "save",
               "payload", "running", "exit 0", "exit 1", "exit 2"}
    /\ shape \in Shapes \union {None}
    /\ memlimit \in Nat \union {None}
    /\ pc \notin {"flags", "exit 0", "exit 2"} => memlimit # None /\ shape # None
    /\ limit \in 0..MaxLimit /\ {gc, procs} \subseteq Int
    /\ initial \in [limit : 0..MaxLimit, gc : Int, procs : Int]
    /\ todo \in Seq(Surfaces)
    /\ opts \subseteq Layers
    /\ made \in Surfaces \union {None}
    /\ pipe \in [Surfaces -> Surfaces \union {None}]
    /\ blob \in [Surfaces -> BOOLEAN]

Init ==
    /\ pc = "flags"
    /\ args \in Lines
    /\ shape = None /\ memlimit = None
    /\ limit \in Installed /\ gc = 100 /\ procs = 1
    /\ initial = [limit |-> limit, gc |-> gc, procs |-> procs]
    /\ todo = <<>> /\ opts = {} /\ made = None
    /\ pipe = [s \in Surfaces |-> None]
    /\ blob = [s \in Surfaces |-> FALSE]
-----------------------------------------------------------------------------
(* Integers across the foreign-function boundary. *)

\* ctypes converts a Python integer to a C one by its low bits.
Wrap(max, x) ==
    LET range == 2 * (max + 1)
        low == x % range
    IN  IF low > max THEN low - range ELSE low

\* ITB_SetMemoryLimit: a negative value only queries.
LimitAfter(x) == IF Wrap(MaxLimit, x) < 0 THEN limit ELSE Wrap(MaxLimit, x)

\* ITB_SetGCPercent, and ITB_SetGOMAXPROCS, for which zero is a query as well.
PercentAfter(x) == IF Wrap(IntMax, x) < 0 THEN gc ELSE Wrap(IntMax, x)
ProcsAfter(x) == IF Wrap(IntMax, x) <= 0 THEN procs ELSE Wrap(IntMax, x)

\* _assign: an int flag outside the C range is malformed.
IsInt(x) == x \in (0 - IntMax)..IntMax

\* parse_size: a product too large for the library is refused, a plain number
\* of bytes is taken as it is.
ParseSize(a) ==
    IF a.mult > 1 /\ a.digits > MaxLimit \div a.mult THEN None
    ELSE a.digits * a.mult
-----------------------------------------------------------------------------
(* The flags. *)

\* Fault: a profile's surface does not narrow the shape.
NarrowNot(requested, surface) == requested

\* _narrow_shape.
Narrow(requested, surface) ==
    IF surface = "message" THEN "message"
    ELSE IF requested = "one_shot" THEN "one_shot" ELSE "stream"

AutoLimit == IF args.few THEN AutoLarge ELSE AutoSmall

MemlimitArg ==
    IF args.memlimit = AutoSize THEN AutoLimit ELSE ParseSize(args.memlimit)

\* Fault: the answer of parse_size is taken unseen.
SizeParsesAlways == TRUE
SizeParses == MemlimitArg # None

\* The rules of parse_flags the run state depends on.
FlagsAccepted ==
    /\ SizeParses
    /\ IsInt(args.gogc) /\ args.gogc >= 0
    /\ IsInt(args.gomaxprocs) /\ args.gomaxprocs >= 0
    /\ args.profile \notin {"blob-only", "unknown"}

ParseFlags ==
    /\ pc = "flags" /\ FlagsAccepted
    /\ memlimit' = MemlimitArg
    /\ shape' = IF args.profile = "none" THEN args.shape
                ELSE Narrow(args.shape, args.profile)
    /\ pc' = "limit"
    /\ UNCHANGED <<args, runtimeVars, buildVars>>

\* --help, or a rule is broken: of these flags, or of one the run state does
\* not depend on.
FlagsEndRun ==
    /\ pc = "flags"
    /\ pc' \in {"exit 0", "exit 2"}
    /\ UNCHANGED <<args, shape, memlimit, runtimeVars, buildVars>>
-----------------------------------------------------------------------------
(* The runtime. *)

\* auto leaves a limit the environment installed; a size is set as it is.
MustSetAlways == TRUE       \* fault: auto does not ask first
MustSet == args.memlimit # AutoSize \/ limit = MaxLimit

SetLimit ==
    /\ pc = "limit"
    /\ limit' = IF MustSet THEN LimitAfter(memlimit) ELSE limit
    /\ pc' = "record"
    /\ UNCHANGED <<args, shape, memlimit, gc, procs, initial, buildVars>>

\* cfg.memlimit = set_memory_limit(-1).
RecordLimit ==
    /\ pc = "record"
    /\ memlimit' = limit
    /\ pc' = "knobs"
    /\ UNCHANGED <<args, shape, runtimeVars, buildVars>>

\* A zero flag skips its setter, which would take it for a value.  What the
\* Pipelines are built for follows from the shape.
SetKnobs ==
    /\ pc = "knobs"
    /\ gc' = IF args.gogc > 0 THEN PercentAfter(args.gogc) ELSE gc
    /\ procs' = IF args.gomaxprocs > 0 THEN ProcsAfter(args.gomaxprocs) ELSE procs
    /\ todo' = (IF shape # "message" THEN <<"stream">> ELSE <<>>)
               \o (IF shape \in {"message", "both"} THEN <<"message">> ELSE <<>>)
    /\ pc' = "build"
    /\ UNCHANGED <<args, shape, memlimit, limit, initial, opts, made, pipe, blob>>
-----------------------------------------------------------------------------
(* The Pipelines, one after another. *)

\* The profile a Pipeline is built with: the operator's for both surfaces, or
\* the default of each.
ProfileFor(s) == IF args.profile = "none" THEN s ELSE args.profile

\* _fill_keystream_layers: what the record leaves unnamed of a layer that is
\* asked for.
FillOf(named) ==
    (IF args.parallax /\ "palette" \notin named
     THEN {"palette", "segment"} \ named ELSE {})
    \union (IF args.wrapper /\ "outer" \notin named THEN {"outer"} ELSE {})

FillLayers ==
    /\ pc = "build" /\ todo # <<>>
    /\ opts' = IF args.profile = "none" THEN {} ELSE FillOf(args.named)
    /\ pc' = "init"
    /\ UNCHANGED <<args, shape, memlimit, runtimeVars, todo, made, pipe, blob>>

\* The library constructs no Pipeline with a layer engaged and not keyed.
Keyed ==
    /\ args.parallax => {"palette", "segment"} \subseteq args.named \union opts
    /\ args.wrapper => "outer" \in args.named \union opts

InitPipeline ==
    /\ pc = "init" /\ Keyed
    /\ made' = ProfileFor(Head(todo))
    /\ pc' = "save"
    /\ UNCHANGED <<args, shape, memlimit, runtimeVars, todo, opts, pipe, blob>>

SavePipeline ==
    /\ pc = "save"
    /\ pipe' = [pipe EXCEPT ![Head(todo)] = made]
    /\ blob' = [blob EXCEPT ![Head(todo)] = TRUE]
    /\ todo' = Tail(todo)
    /\ made' = None
    /\ pc' = "build"
    /\ UNCHANGED <<args, shape, memlimit, runtimeVars, opts>>

\* The lookup, either call, the payload buffers or the first pool snapshot
\* fails: run() returns 1 and what it had built goes with its last reference.
SetupFails ==
    /\ pc \in {"init", "save", "payload"} \/ (pc = "build" /\ todo # <<>>)
    /\ pc' = "exit 1"
    /\ made' = None
    /\ pipe' = [s \in Surfaces |-> None]
    /\ UNCHANGED <<args, shape, memlimit, runtimeVars, todo, opts, blob>>

AllBuilt ==
    /\ pc = "build" /\ todo = <<>>
    /\ pc' = "payload"
    /\ UNCHANGED <<args, shape, memlimit, runtimeVars, buildVars>>

Launch ==
    /\ pc = "payload"
    /\ pc' = "running"
    /\ UNCHANGED <<args, shape, memlimit, runtimeVars, buildVars>>

Next ==
    \/ ParseFlags \/ FlagsEndRun \/ SetLimit \/ RecordLimit \/ SetKnobs
    \/ FillLayers \/ InitPipeline \/ SavePipeline \/ SetupFails
    \/ AllBuilt \/ Launch

Spec == Init /\ [][Next]_vars
-----------------------------------------------------------------------------
\* A size whose number of bytes the library can hold: a plain one up to its
\* maximum, or one with a multiplying suffix, of which size.py:64 has refused
\* the ones that would not fit.
Holdable(size) == size.mult > 1 \/ size.digits <= MaxLimit

\* Before any session exists the runtime is shaped for good: the limit the
\* summary will report is the one in force, a limit the environment installed
\* stands under auto and no run under auto is without one, a size the library
\* can hold is in force exactly, and so are the GC percentage and GOMAXPROCS of
\* a flag (main.py:229 has refused the ones a C int would cut), which otherwise
\* stay as the environment set them (main.py:623-646).  What becomes of a plain
\* number it cannot hold is LimitAsGiven's.
RuntimeIsShaped ==
    (made # None \/ \E s \in Surfaces : pipe[s] # None) =>
        /\ memlimit = limit
        /\ args.memlimit = AutoSize =>
            /\ limit # MaxLimit
            /\ initial.limit # MaxLimit => limit = initial.limit
        /\ (args.memlimit # AutoSize /\ Holdable(args.memlimit)) =>
            limit = args.memlimit.digits * args.memlimit.mult
        /\ gc = (IF args.gogc = 0 THEN initial.gc ELSE args.gogc)
        /\ procs = (IF args.gomaxprocs = 0 THEN initial.procs ELSE args.gomaxprocs)

\* The library is never asked for a layer that nothing keys, and the workers
\* find a Pipeline and its blob for exactly the surfaces their iterations will
\* visit, each built with a profile of that surface (main.py:300-307, 527-562,
\* 671-684; the initial states of LoopHarness).
ReadyForShape ==
    /\ pc = "init" => Keyed
    /\ pc = "running" =>
        LET visited == IF shape = "both" THEN Surfaces
                       ELSE IF shape = "message" THEN {"message"} ELSE {"stream"}
        IN  \A s \in Surfaces :
                /\ pipe[s] = (IF s \in visited THEN s ELSE None)
                /\ blob[s] <=> s \in visited

\* main.py:626-627: "an explicit --memlimit is set as given".
LimitAsGiven ==
    (pc = "running" /\ args.memlimit # AutoSize) =>
        limit = args.memlimit.digits * args.memlimit.mult
=============================================================================
