---------------------------- MODULE LoopFigures -----------------------------
(***************************************************************************)
(* What the loop feeds the library and what it reads back: the plaintext   *)
(* of every worker (loop/payload.py, refilled by loop/worker.py), and the  *)
(* pool counters, read as one flat vector through itb3/runtime.py and      *)
(* differenced by loop/summary.py.                                         *)
(*                                                                         *)
(* A word is WordLen digits of base Base (8 bytes in the code); a buffer   *)
(* is a sequence of digits.  The pools are numbered: 0..tiers-1 the hash   *)
(* tiers, tiers the scratch byte pool, tiers+1 the parallax chunk pool.    *)
(* LoopHarness has the barriers that order the phases used here.           *)
(***************************************************************************)
EXTENDS Integers, Sequences, FiniteSets

CONSTANTS N,            \* the workers
          Base, WordLen,    \* a word
          Gamma, Mix,   \* the generator's increment and its output function
          Configs,      \* [seed, size, mode, layout]: the flags, and the library
          RampLen,      \* the letters of the ASCII ramp
          Starter,      \* the starter width of each tier
          Iterations    \* bound: the iterations after the warmup

\* The weight of a digit.
Place[i \in Nat] == IF i = 0 THEN 1 ELSE Base * Place[i - 1]

Modulus == Place[WordLen]
Words == 0..(Modulus - 1)
Workers == 0..(N - 1)
Modes == {"fixed", "rotating", "pattern-zero", "pattern-ff", "pattern-ascii"}

ASSUME FiguresAssumption ==
    /\ Base \in Nat \ {0, 1} /\ WordLen \in Nat \ {0}
    /\ N \in 1..Modulus
    /\ Gamma \in Words
    /\ Mix \in [Words -> Words] /\ \A x, y \in Words : Mix[x] = Mix[y] => x = y
    /\ RampLen \in 1..Base /\ Iterations \in Nat
    /\ \A c \in Configs :
        /\ c.seed \in Words /\ c.size \in Nat \ {0} /\ c.mode \in Modes
        /\ c.layout.tiers \in Nat /\ c.layout.extra \in Int /\ c.layout.extra >= -8
        /\ \A p \in 0..(c.layout.tiers - 1) : Starter[p] \in Nat

Draws(n) == (n + WordLen - 1) \div WordLen

\* The increment is the golden ratio of the modulus: after as many draws as a
\* run makes no generator comes round to where another worker's started.
ASSUME GammaAssumption ==
    \A c \in Configs, k \in 1..(Iterations + 1), d \in (1 - N)..(N - 1) :
        (c.mode = "rotating" /\ c.seed # 0 /\ c.size >= WordLen /\ d # 0) =>
            (k * Draws(c.size) * Gamma + d) % Modulus # 0

VARIABLES
    cfg,        \* the configuration of this run
    rng,        \* rng[w]: the state of w's generator
    plain,      \* plain[w]: w.plaintext
    iter,       \* iter[w]: the iterations w has begun
    pool,       \* pool[p]: its counters, get, new, regrow and bytes
    base,       \* what they were when the main loop began
    warmup, steady,     \* r.pool_warmup, r.pool_steady
    phase

vars == <<cfg, rng, plain, iter, pool, base, warmup, steady, phase>>
-----------------------------------------------------------------------------
(* payload.py *)

SeedWorkerAlike(s, id) == (s + 1) % Modulus \* fault: every worker alike
SeedWorkerWide(s, id) == s + id + 1         \* fault: not masked to a word
SeedWorker(s, id) == (s + id + 1) % Modulus

\* The k-th draw after state s, and the state it leaves.
StateAfter(s, k) == (s + k * Gamma) % Modulus
Draw(s, k) == Mix[StateAfter(s, k)]

Digit(word, i) == (word \div Place[i]) % Base   \* little-endian

\* One word after another, the last one cut to fit.
Buffer(s, n) ==
    [j \in 1..n |-> Digit(Draw(s, ((j - 1) \div WordLen) + 1), (j - 1) % WordLen)]

\* Fault: the state is not advanced past the draws.
FillSeededStuck(s, n) == [buf |-> Buffer(s, n), rng |-> s]

FillSeeded(s, n) == [buf |-> Buffer(s, n), rng |-> StateAfter(s, Draws(n))]

\* The set of what fill_payload may return: one buffer, but for os.urandom,
\* whose contents two buffers stand for.
FillPayload(s, n) ==
    CASE cfg.mode \in {"fixed", "rotating"} /\ cfg.seed # 0 -> {FillSeeded(s, n)}
      [] cfg.mode \in {"fixed", "rotating"} /\ cfg.seed = 0 ->
            {[buf |-> [j \in 1..n |-> d], rng |-> s] : d \in {0, 1}}
      [] cfg.mode = "pattern-zero" -> {[buf |-> [j \in 1..n |-> 0], rng |-> s]}
      [] cfg.mode = "pattern-ff" -> {[buf |-> [j \in 1..n |-> Base - 1], rng |-> s]}
      [] cfg.mode = "pattern-ascii" ->
            {[buf |-> [j \in 1..n |-> (j - 1) % RampLen], rng |-> s]}
-----------------------------------------------------------------------------
(* The pool vector. *)

Pools == 0..(cfg.layout.tiers + 1)
Counters == 1..4        \* get, new, regrow, bytes
Slots == 1 + 5 * cfg.layout.tiers + 8 + cfg.layout.extra

\* ITB_PoolStats: tier i in five slots from 1 + 5*i, then the two byte pools
\* in four slots each; a library may know fewer pools, or more.
VectorOf(counters) ==
    LET T == cfg.layout.tiers
        Slot(i) == CASE i = 0 -> T
                     [] i \in 1..(5 * T) ->
                            IF (i - 1) % 5 = 0 THEN Starter[(i - 1) \div 5]
                            ELSE counters[(i - 1) \div 5][(i - 1) % 5]
                     [] i \in (5 * T + 1)..(5 * T + 8) ->
                            counters[T + ((i - 5 * T - 1) \div 4)]
                                    [((i - 5 * T - 1) % 4) + 1]
                     [] OTHER -> 0
    IN  [j \in 1..Slots |-> Slot(j - 1)]

\* pool_snapshot: the vector, or nothing when the call fails.
Snapshots == {VectorOf(pool), <<>>}

NoFigures == [tiers |-> 0, starter |-> <<>>,
              pool |-> [p \in 0..1 |-> [c \in Counters |-> 0]]]

\* Fault: the starter's slot is not counted in the tail.
TailSlotOff(tiers) == 1 + 4 * tiers

TailSlot(tiers) == 1 + 5 * tiers

\* PoolDelta.__init__: the differences, but for the starter, which is a width
\* and no counter.
PoolDelta(from, to) ==
    LET tiers == to[1]
        Diff(i) == to[i + 1] - from[i + 1]
    IN  IF from = <<>> \/ Len(to) < 9 \/ Len(from) # Len(to) THEN NoFigures
        ELSE IF tiers < 0 \/ 1 + 5 * tiers + 8 > Len(to) THEN NoFigures
        ELSE [tiers |-> tiers,
              starter |-> [p \in 0..(tiers - 1) |-> to[(1 + 5 * p) + 1]],
              pool |-> [p \in 0..(tiers + 1) |-> [c \in Counters |->
                    IF p < tiers THEN Diff(1 + 5 * p + c)
                    ELSE Diff(TailSlot(tiers) + 4 * (p - tiers) + c - 1)]]]
-----------------------------------------------------------------------------
\* run() fills every worker's buffer before it starts one.
Init ==
    /\ cfg \in Configs
    /\ \E fill \in [Workers -> UNION {FillPayload(SeedWorker(cfg.seed, w), cfg.size) : w \in Workers}] :
        /\ \A w \in Workers : fill[w] \in FillPayload(SeedWorker(cfg.seed, w), cfg.size)
        /\ rng = [w \in Workers |-> fill[w].rng]
        /\ plain = [w \in Workers |-> fill[w].buf]
    /\ iter = [w \in Workers |-> 0]
    /\ pool = [p \in Pools |-> [c \in Counters |-> 0]]
    /\ base = pool
    /\ warmup = VectorOf(pool) /\ steady = warmup
    /\ phase = "warmup"

\* The cipher calls of an iteration check a buffer out of some pool: it was
\* there, or is made anew, or grown.
Checkout ==
    \E p \in Pools, c \in {1, 2, 3} :
        pool' = [pool EXCEPT ![p] = [k \in Counters |->
                    @[k] + (IF k = 1 \/ k = c THEN 1
                            ELSE IF k = 4 /\ c # 1 THEN 2 ELSE 0)]]

Iterate(w) ==
    /\ iter[w] = 0 \/ (phase = "loop" /\ iter[w] <= Iterations)
    /\ iter' = [iter EXCEPT ![w] = @ + 1]
    /\ IF cfg.mode = "rotating"
       THEN \E fill \in FillPayload(rng[w], Len(plain[w])) :
            /\ rng' = [rng EXCEPT ![w] = fill.rng]
            /\ plain' = [plain EXCEPT ![w] = fill.buf]
       ELSE UNCHANGED <<rng, plain>>
    /\ Checkout
    /\ UNCHANGED <<cfg, base, warmup, steady, phase>>

\* Past the warmup barrier main takes the baseline, then opens the gate.
TakeBaseline ==
    /\ phase = "warmup" /\ \A w \in Workers : iter[w] = 1
    /\ warmup' \in Snapshots
    /\ base' = pool
    /\ phase' = "loop"
    /\ UNCHANGED <<cfg, rng, plain, iter, pool, steady>>

\* Every worker has returned, with its budget or on a stop.
Finish ==
    /\ phase = "loop"
    /\ steady' \in Snapshots
    /\ phase' = "done"
    /\ UNCHANGED <<cfg, rng, plain, iter, pool, base, warmup>>

Next == (\E w \in Workers : Iterate(w)) \/ TakeBaseline \/ Finish

Spec == Init /\ [][Next]_vars
-----------------------------------------------------------------------------
\* The generators stay within a word, buffers hold digits, counters count up,
\* and a snapshot is a vector or nothing.
TypeOK ==
    /\ rng \in [Workers -> Words]
    /\ plain \in [Workers -> Seq(0..(Base - 1))]
    /\ iter \in [Workers -> 0..(Iterations + 1)]
    /\ pool \in [Pools -> [Counters -> Nat]] /\ base \in [Pools -> [Counters -> Nat]]
    /\ \A p \in Pools, c \in Counters : base[p][c] <= pool[p][c]
    /\ warmup \in Seq(Nat) /\ steady \in Seq(Nat)
    /\ phase \in {"warmup", "loop", "done"}

Seeded == cfg.seed # 0 /\ cfg.mode \in {"fixed", "rotating"}

\* Seeded workers hold pairwise distinct buffers at every moment, however far
\* one has run ahead of another, as long as a buffer holds a whole word: that
\* a wire crossed over to another worker shows as a mismatch depends on it
\* (payload.py:47-56, main.py:686-694).
DistinctPlaintexts ==
    (Seeded /\ cfg.size >= WordLen) =>
        \A v, w \in Workers : v # w => plain[v] # plain[w]

\* The buffer of an iteration is a function of the seed, the worker and the
\* iteration, and of nothing other workers do; it has the size asked for in
\* every cfg.mode (payload.py:47-51, 78-107; worker.py:115-116).
Replayable ==
    \A w \in Workers :
        /\ Len(plain[w]) = cfg.size
        /\ Seeded => LET past == IF cfg.mode = "rotating" THEN iter[w] * Draws(cfg.size) ELSE 0
                         s == StateAfter(SeedWorker(cfg.seed, w), past)
                     IN  /\ plain[w] = Buffer(s, cfg.size)
                         /\ rng[w] = StateAfter(s, Draws(cfg.size))

\* The summary's figure of each counter is what the main loop added to it,
\* without the warmup, under the right pool's name and beside that tier's own
\* starter width, for every number of tiers and with pools this code does not
\* know; or they are all zero, when a snapshot failed or a pool is missing
\* (summary.py:57-103, runtime.py:78-101).
FiguresAreHonest ==
    phase = "done" =>
        PoolDelta(warmup, steady) =
            IF warmup = <<>> \/ steady = <<>> \/ cfg.layout.extra < 0 THEN NoFigures
            ELSE [tiers |-> cfg.layout.tiers,
                  starter |-> [p \in 0..(cfg.layout.tiers - 1) |-> Starter[p]],
                  pool |-> [p \in Pools |->
                                [c \in Counters |-> pool[p][c] - base[p][c]]]]
=============================================================================
