------------------------- MODULE LoopFiguresProofs -------------------------
(***************************************************************************)
(* Proofs about LoopFigures, for any number of workers, any word, any      *)
(* injective output function of the generator and any counts of pools:     *)
(* plaintexts are replayable and pairwise distinct, and the figures of the *)
(* summary are those of the main loop.                                     *)
(*                                                                         *)
(* Replayable is inductive once typed: the refill moves a generator along  *)
(* one arithmetic progression of states.  That plaintexts are distinct     *)
(* follows from it and from what a word is made of: equal buffers begin    *)
(* with the same word (DigitsDetermine), the same word comes of the same   *)
(* state, and two workers' progressions do not meet (GammaAssumption).     *)
(***************************************************************************)
EXTENDS LoopFigures, WellFoundedInduction, SequenceTheorems, TLAPS

-----------------------------------------------------------------------------
(* Induction on the natural numbers, for sets. *)

Less == {pair \in Nat \X Nat : pair[1] < pair[2]}

\* A set of naturals that is not empty has a least element.
LEMMA LeastElement ==
    ASSUME NEW T \in SUBSET Nat, T # {}
    PROVE  \E x \in T : \A y \in T : ~(y < x)
<1>1. IsWellFoundedOn(Less, Nat)
  BY NatLessThanWellFounded DEF OpToRel, Less
<1>2. PICK x \in T : \A y \in T : ~(<<y, x>> \in Less)
  BY WFMin, <1>1, Zenon
<1>3. \A y \in T : <<y, x>> \in Less <=> y < x
  BY DEF Less
<1>. QED BY <1>2, <1>3

\* A set of naturals with zero and with every successor is all of them.
LEMMA Induction ==
    ASSUME NEW T \in SUBSET Nat, 0 \in T, \A n \in T : n + 1 \in T
    PROVE  T = Nat
<1>1. SUFFICES ASSUME Nat \ T # {} PROVE FALSE
  OBVIOUS
<1>2. PICK x \in Nat \ T : \A y \in Nat \ T : ~(y < x)
  BY <1>1, LeastElement
<1>3. x # 0
  BY <1>2
<1>4. x - 1 \in T
  BY <1>2, <1>3
<1>. QED BY <1>2, <1>3, <1>4
-----------------------------------------------------------------------------
(* Division. *)

\* A quotient and a remainder are the division's.
LEMMA DivisionIsUnique ==
    ASSUME NEW m \in Nat \ {0}, NEW q \in Int, NEW r \in 0..(m - 1)
    PROVE  (q * m + r) \div m = q /\ (q * m + r) % m = r
<1>1. \A p \in Int : \A n \in Nat \ {0} : \A s \in 0..(n - 1) : (p * n + s) % n = s
  OBVIOUS
<1>2. \A p \in Int : \A n \in Nat \ {0} : \A s \in 0..(n - 1) : (p * n + s) \div n = p
  OBVIOUS
<1>. QED BY <1>1, <1>2

\* Every division has them.
LEMMA Division ==
    ASSUME NEW a \in Int, NEW m \in Nat \ {0}
    PROVE  \E q \in Int, r \in 0..(m - 1) :
               a = q * m + r /\ a \div m = q /\ a % m = r
<1>1. \A b \in Int : \A n \in Nat \ {0} :
          /\ b = n * (b \div n) + (b % n) /\ b % n \in 0..(n - 1) /\ b \div n \in Int
  OBVIOUS
<1>2. PICK q \in Int : q = a \div m
  BY <1>1
<1>3. PICK r \in 0..(m - 1) : r = a % m
  BY <1>1
<1>4. a = q * m + r
  BY <1>1, <1>2, <1>3
<1>. QED BY <1>2, <1>3, <1>4

\* Whole multiples of the modulus do not show in a remainder.
LEMMA Congruent ==
    ASSUME NEW a \in Int, NEW q \in Int, NEW m \in Nat \ {0}
    PROVE  (a + q * m) % m = a % m
<1>1. PICK p \in Int, r \in 0..(m - 1) : a = p * m + r /\ a % m = r
  BY Division
<1>2. PICK s \in Int : s = p + q
  OBVIOUS
<1>3. a + q * m = s * m + r
  BY <1>1, <1>2
<1>. QED BY <1>1, <1>3, DivisionIsUnique

\* Dividing twice is dividing by the product.
LEMMA DivisionTwice ==
    ASSUME NEW x \in Int, NEW a \in Nat \ {0}, NEW b \in Nat \ {0}
    PROVE  a * b \in Nat \ {0} /\ (x \div a) \div b = x \div (a * b)
<1>1. PICK q \in Int, r \in 0..(a - 1) : x = q * a + r /\ x \div a = q
  BY Division
<1>2. PICK p \in Int, s \in 0..(b - 1) : q = p * b + s /\ q \div b = p
  BY Division
<1>3. PICK m \in Nat \ {0} : m = a * b
  OBVIOUS
<1>4. PICK t : t = s * a + r
  OBVIOUS
<1>5. t \in 0..(m - 1)
  <2>1. s * a >= 0 /\ s * a \in Int
    OBVIOUS
  <2>2. (b - 1 - s) * a >= 0
    OBVIOUS
  <2>3. (b - 1 - s) * a = b * a - a - s * a
    OBVIOUS
  <2>. QED BY <1>3, <1>4, <2>1, <2>2, <2>3
<1>6. x = p * m + t
  <2>1. q * a = (p * b) * a + s * a
    BY <1>2
  <2>2. (p * b) * a = p * m
    BY <1>3
  <2>. QED BY <1>1, <1>4, <2>1, <2>2
<1>7. x \div m = p
  BY <1>5, <1>6, DivisionIsUnique
<1>. QED BY <1>1, <1>2, <1>3, <1>7
-----------------------------------------------------------------------------
(* Words and digits. *)

\* A finite beginning of the table of weights.
Begins(f, n) ==
    /\ f \in [0..n -> Nat] /\ f[0] = 1
    /\ \A i \in 1..n : f[i] = Base * f[i - 1]

LEMMA BeginningExists == \A n \in Nat : \E f : Begins(f, n)
<1>. DEFINE T == {n \in Nat : \E f : Begins(f, n)}
<1>1. 0 \in T
  <2>1. Begins([i \in 0..0 |-> 1], 0)
    BY DEF Begins
  <2>. QED BY <2>1
<1>2. ASSUME NEW n \in T PROVE n + 1 \in T
  <2>1. PICK f : Begins(f, n)
    OBVIOUS
  <2>2. PICK g : g = [i \in 0..(n + 1) |-> IF i = n + 1 THEN Base * f[n] ELSE f[i]]
    OBVIOUS
  <2>3. f[n] \in Nat /\ Base * f[n] \in Nat
    BY <2>1, FiguresAssumption DEF Begins
  <2>4. /\ g \in [0..(n + 1) -> Nat] /\ g[0] = 1 /\ g[n + 1] = Base * f[n]
        /\ \A i \in 0..n : g[i] = f[i]
    BY <2>1, <2>2, <2>3 DEF Begins
  <2>5. \A i \in 1..(n + 1) : g[i] = Base * g[i - 1]
    <3>1. \A i \in 1..n : i \in 0..n /\ i - 1 \in 0..n /\ f[i] = Base * f[i - 1]
      BY <2>1 DEF Begins
    <3>2. \A i \in 1..n : g[i] = Base * g[i - 1]
      BY <2>4, <3>1
    <3>3. (n + 1) - 1 = n /\ n \in 0..n
      OBVIOUS
    <3>4. g[n + 1] = Base * g[(n + 1) - 1]
      BY <2>4, <3>3
    <3>5. \A i \in 1..(n + 1) : i \in 1..n \/ i = n + 1
      OBVIOUS
    <3>. QED BY <3>2, <3>4, <3>5
  <2>6. Begins(g, n + 1)
    BY <2>4, <2>5 DEF Begins
  <2>. QED BY <2>6
<1>3. T = Nat
  <2>. HIDE DEF T
  <2>1. T \in SUBSET Nat
    BY DEF T
  <2>. QED BY <1>1, <1>2, <2>1, Induction
<1>. QED BY <1>3

\* Two beginnings agree as far as both go.
LEMMA BeginningsAgree ==
    ASSUME NEW n \in Nat, NEW m \in Nat, NEW f, NEW g,
           Begins(f, n), Begins(g, m)
    PROVE  \A i \in Nat : i <= n /\ i <= m => f[i] = g[i]
<1>. DEFINE T == {i \in Nat : i <= n /\ i <= m => f[i] = g[i]}
<1>1. 0 \in T
  BY DEF Begins
<1>2. ASSUME NEW i \in T PROVE i + 1 \in T
  <2>1. SUFFICES ASSUME i + 1 <= n, i + 1 <= m PROVE f[i + 1] = g[i + 1]
    OBVIOUS
  <2>2. f[i] = g[i] /\ i + 1 \in 1..n /\ i + 1 \in 1..m /\ (i + 1) - 1 = i
    BY <2>1
  <2>. QED BY <2>2 DEF Begins
<1>3. T = Nat
  <2>. HIDE DEF T
  <2>1. T \in SUBSET Nat
    BY DEF T
  <2>. QED BY <1>1, <1>2, <2>1, Induction
<1>. QED BY <1>3

\* The weights are what their definition says: there is such a function.
LEMMA PlaceIs ==
    /\ Place \in [Nat -> Nat] /\ Place[0] = 1
    /\ \A i \in Nat : Place[i + 1] = Base * Place[i]
<1>. DEFINE Body(h) == [i \in Nat |-> IF i = 0 THEN 1 ELSE Base * h[i - 1]]
            Pick(n) == CHOOSE f : Begins(f, n)
<1>1. \A n \in Nat : Begins(Pick(n), n)
  BY BeginningExists, Zenon
<1>2. PICK whole : whole = [n \in Nat |-> Pick(n)[n]]
  OBVIOUS
<1>3. /\ whole \in [Nat -> Nat] /\ whole[0] = 1
      /\ \A i \in Nat : whole[i + 1] = Base * whole[i]
  <2>. HIDE DEF Pick
  <2>1. \A n \in Nat : whole[n] = Pick(n)[n] /\ Pick(n)[n] \in Nat
    BY <1>1, <1>2 DEF Begins
  <2>2. whole[0] = 1
    BY <1>1, <2>1 DEF Begins
  <2>3. ASSUME NEW i \in Nat PROVE whole[i + 1] = Base * whole[i]
    <3>1. Pick(i + 1)[i + 1] = Base * Pick(i + 1)[i]
      BY <1>1 DEF Begins
    <3>2. Pick(i + 1)[i] = Pick(i)[i]
      BY <1>1, BeginningsAgree
    <3>. QED BY <2>1, <3>1, <3>2
  <2>. QED BY <1>2, <2>1, <2>2, <2>3
<1>4. whole = Body(whole)
  <2>1. \A i \in Nat : whole[i] = Body(whole)[i]
    <3>1. \A i \in Nat : i # 0 => i - 1 \in Nat /\ whole[(i - 1) + 1] = Base * whole[i - 1]
      BY <1>3
    <3>. QED BY <1>3, <3>1
  <2>. QED BY <1>3, <2>1
<1>5. Place = Body(Place)
  <2>1. Place = CHOOSE h : h = Body(h)
    BY DEF Place
  <2>. HIDE DEF Body
  <2>. QED BY <1>4, <2>1
<1>6. \A i \in Nat : Place[i] = IF i = 0 THEN 1 ELSE Base * Place[i - 1]
  BY <1>5
<1>7. /\ Place[0] = 1
      /\ \A i \in Nat : Place[i + 1] = Base * Place[i]
  <2>1. \A i \in Nat : i + 1 \in Nat /\ i + 1 # 0 /\ (i + 1) - 1 = i
    OBVIOUS
  <2>. QED BY <1>6, <2>1
<1>8. Place \in [Nat -> Nat]
  <2>. DEFINE T == {i \in Nat : Place[i] \in Nat}
  <2>1. 0 \in T
    BY <1>7
  <2>2. ASSUME NEW i \in T PROVE i + 1 \in T
    BY <1>7, FiguresAssumption
  <2>3. T = Nat
    <3>. HIDE DEF T
    <3>1. T \in SUBSET Nat
      BY DEF T
    <3>. QED BY <2>1, <2>2, <3>1, Induction
  <2>. QED BY <1>5, <2>3
<1>. QED BY <1>7, <1>8

\* Every weight is positive.
LEMMA PlacePositive == \A i \in Nat : Place[i] \in Nat \ {0}
<1>. DEFINE T == {i \in Nat : Place[i] \in Nat \ {0}}
<1>1. 0 \in T
  BY PlaceIs
<1>2. ASSUME NEW i \in T PROVE i + 1 \in T
  <2>1. Place[i + 1] = Base * Place[i]
    BY PlaceIs
  <2>. QED BY <2>1, FiguresAssumption
<1>3. T = Nat
  <2>. HIDE DEF T
  <2>1. T \in SUBSET Nat
    BY DEF T
  <2>. QED BY <1>1, <1>2, <2>1, Induction
<1>. QED BY <1>3

LEMMA ModulusPositive == Modulus \in Nat \ {0}
  BY PlacePositive, FiguresAssumption DEF Modulus

\* A digit higher up is one of the quotient.
LEMMA DigitAbove ==
    ASSUME NEW x \in Nat, NEW i \in Nat
    PROVE  Digit(x, i + 1) = Digit(x \div Base, i)
<1>1. Place[i + 1] = Base * Place[i] /\ Place[i] \in Nat \ {0} /\ Base \in Nat \ {0}
  BY PlaceIs, PlacePositive, FiguresAssumption
<1>2. (x \div Base) \div Place[i] = x \div (Base * Place[i])
  BY <1>1, DivisionTwice
<1>. QED BY <1>1, <1>2 DEF Digit

\* What a digit is.
LEMMA DigitIs ==
    ASSUME NEW x \in Nat, NEW i \in Nat
    PROVE  Digit(x, i) \in 0..(Base - 1)
<1>1. PICK q \in Int, r \in 0..(Place[i] - 1) : x \div Place[i] = q
  BY Division, PlacePositive
<1>2. PICK p \in Int, s \in 0..(Base - 1) : q % Base = s
  BY Division, FiguresAssumption
<1>. QED BY <1>1, <1>2 DEF Digit

\* A number is determined by as many digits as its bound has.
LEMMA DigitsDetermine ==
    ASSUME NEW n \in Nat, NEW x \in 0..(Place[n] - 1), NEW y \in 0..(Place[n] - 1),
           \A i \in 0..(n - 1) : Digit(x, i) = Digit(y, i)
    PROVE  x = y
<1>. DEFINE Same(a, b, k) == \A i \in 0..(k - 1) : Digit(a, i) = Digit(b, i)
            T == {k \in Nat : \A a, b \in 0..(Place[k] - 1) : Same(a, b, k) => a = b}
<1>1. 0 \in T
  BY PlaceIs
<1>2. ASSUME NEW k \in T PROVE k + 1 \in T
  <2>1. SUFFICES ASSUME NEW a \in 0..(Place[k + 1] - 1),
                        NEW b \in 0..(Place[k + 1] - 1), Same(a, b, k + 1)
                 PROVE  a = b
    OBVIOUS
  <2>2. /\ Base \in Nat \ {0} /\ Place[k] \in Nat \ {0} /\ Place[0] = 1
        /\ Place[k + 1] = Place[k] * Base
    BY PlaceIs, PlacePositive, FiguresAssumption
  <2>3. a \in Nat /\ b \in Nat /\ k \in Nat
    BY <2>2
  <2>4. PICK qa \in Int, ra \in 0..(Base - 1) :
            a = qa * Base + ra /\ a \div Base = qa /\ a % Base = ra
    <3>1. a \in Int /\ Base \in Nat \ {0}
      BY <2>2, <2>3
    <3>. QED BY <3>1, Division, Zenon
  <2>5. PICK qb \in Int, rb \in 0..(Base - 1) :
            b = qb * Base + rb /\ b \div Base = qb /\ b % Base = rb
    <3>1. b \in Int /\ Base \in Nat \ {0}
      BY <2>2, <2>3
    <3>. QED BY <3>1, Division, Zenon
  <2>6. ASSUME NEW q \in Int, NEW r \in 0..(Base - 1),
               q * Base + r \in 0..(Place[k + 1] - 1)
        PROVE  q \in 0..(Place[k] - 1)
    <3>1. PICK m \in Nat \ {0} : m = Place[k]
      BY <2>2
    <3>2. PICK B \in Nat \ {0} : B = Base
      BY <2>2
    <3>3. q * B + r >= 0 /\ q * B + r < m * B /\ 0 <= r /\ r < B
      BY <2>2, <2>6, <3>1, <3>2
    <3>4. q >= 0
      <4>1. SUFFICES ASSUME q + 1 <= 0 PROVE FALSE
        OBVIOUS
      <4>2. (0 - (q + 1)) * B >= 0
        BY <4>1
      <4>3. (0 - (q + 1)) * B = 0 - q * B - B
        OBVIOUS
      <4>. QED BY <3>3, <4>2, <4>3
    <3>5. q < m
      <4>1. SUFFICES ASSUME q - m >= 0 PROVE FALSE
        OBVIOUS
      <4>2. (q - m) * B >= 0
        BY <4>1
      <4>3. (q - m) * B = q * B - m * B
        OBVIOUS
      <4>. QED BY <3>3, <4>2, <4>3
    <3>. QED BY <3>1, <3>4, <3>5
  <2>7. qa \in 0..(Place[k] - 1) /\ qb \in 0..(Place[k] - 1)
    BY <2>4, <2>5, <2>6
  <2>8. ASSUME NEW i \in 0..(k - 1) PROVE Digit(qa, i) = Digit(qb, i)
    <3>1. Digit(a, i + 1) = Digit(b, i + 1)
      BY <2>1, <2>3
    <3>. QED BY <2>4, <2>5, <2>3, <3>1, DigitAbove
  <2>9. qa = qb
    <3>1. \A c, d \in 0..(Place[k] - 1) : Same(c, d, k) => c = d
      BY <1>2
    <3>. QED BY <2>7, <2>8, <3>1
  <2>10. ra = rb
    <3>1. Digit(a, 0) = Digit(b, 0)
      BY <2>1, <2>3
    <3>2. a \div 1 = a /\ b \div 1 = b
      BY <2>3
    <3>. QED BY <2>2, <2>4, <2>5, <3>1, <3>2 DEF Digit
  <2>. QED BY <2>4, <2>5, <2>9, <2>10
<1>3. T = Nat
  <2>. HIDE DEF T
  <2>1. T \in SUBSET Nat
    BY DEF T
  <2>. QED BY <1>1, <1>2, <2>1, Induction
<1>. QED BY <1>3
-----------------------------------------------------------------------------
(* The generator. *)

\* A remainder by the modulus is a word.
LEMMA RemainderIsWord == \A a \in Int : a % Modulus \in Words
<1>1. TAKE a \in Int
<1>2. PICK q \in Int, r \in 0..(Modulus - 1) : a % Modulus = r
  BY ModulusPositive, Division, Zenon
<1>. QED BY <1>2 DEF Words

\* The states are words, and draws add up.
LEMMA StatesAddUp ==
    ASSUME NEW s \in Words, NEW a \in Nat, NEW b \in Nat
    PROVE  /\ StateAfter(s, a) \in Words
           /\ StateAfter(StateAfter(s, a), b) = StateAfter(s, a + b)
           /\ StateAfter(s, 0) = s
<1>1. Modulus \in Nat \ {0} /\ Gamma \in Nat /\ s \in Nat
  BY ModulusPositive, FiguresAssumption DEF Words
<1>2. a * Gamma \in Nat /\ b * Gamma \in Nat /\ (a + b) * Gamma = a * Gamma + b * Gamma
  BY <1>1
<1>3. StateAfter(s, a) \in Words
  BY <1>1, <1>2, RemainderIsWord DEF StateAfter
<1>4. PICK q \in Int, r \in 0..(Modulus - 1) :
          s + a * Gamma = q * Modulus + r /\ (s + a * Gamma) % Modulus = r
  <2>1. s + a * Gamma \in Int
    BY <1>1, <1>2
  <2>. QED BY <1>1, <2>1, Division
<1>5. (r + b * Gamma + q * Modulus) % Modulus = (r + b * Gamma) % Modulus
  <2>1. r + b * Gamma \in Int
    BY <1>1, <1>2
  <2>. QED BY <1>1, <2>1, Congruent
<1>6. r + b * Gamma + q * Modulus = s + (a + b) * Gamma
  <2>1. q * Modulus \in Int
    BY <1>1
  <2>. QED BY <1>1, <1>2, <1>4, <2>1
<1>7. StateAfter(StateAfter(s, a), b) = StateAfter(s, a + b)
  BY <1>4, <1>5, <1>6 DEF StateAfter
<1>8. StateAfter(s, 0) = s
  <2>1. 0 * Gamma = 0
    BY <1>1
  <2>2. (0 * Modulus + s) % Modulus = s
    BY <1>1, DivisionIsUnique DEF Words
  <2>. QED BY <1>1, <2>1, <2>2 DEF StateAfter
<1>. QED BY <1>3, <1>7, <1>8

LEMMA SeedIsWord ==
    ASSUME NEW c \in Configs, NEW w \in Workers
    PROVE  SeedWorker(c.seed, w) \in Words
<1>1. c.seed + w + 1 \in Int
  BY FiguresAssumption, ModulusPositive DEF Words, Workers
<1>. QED BY <1>1, RemainderIsWord DEF SeedWorker

LEMMA DrawsIs == ASSUME NEW n \in Nat PROVE Draws(n) \in Nat
<1>1. WordLen \in Nat \ {0} /\ n + WordLen - 1 \in Nat
  BY FiguresAssumption
<1>2. \A a \in Nat : \A m \in Nat \ {0} : a \div m \in Nat
  OBVIOUS
<1>. QED BY <1>1, <1>2 DEF Draws

LEMMA TableIsSeq ==
    ASSUME NEW n \in Nat, NEW S, NEW f \in [1..n -> S]
    PROVE  f \in Seq(S) /\ Len(f) = n
  OBVIOUS

\* A buffer is as many digits as asked for.
LEMMA BufferIs ==
    ASSUME NEW s \in Words, NEW n \in Nat
    PROVE  Buffer(s, n) \in Seq(0..(Base - 1)) /\ Len(Buffer(s, n)) = n
<1>1. ASSUME NEW j \in 1..n
      PROVE  Digit(Draw(s, ((j - 1) \div WordLen) + 1), (j - 1) % WordLen) \in 0..(Base - 1)
  <2>1. WordLen \in Nat \ {0} /\ j - 1 \in Nat
    BY FiguresAssumption
  <2>2. \A a \in Nat : \A m \in Nat \ {0} : a \div m \in Nat /\ a % m \in Nat
    OBVIOUS
  <2>3. ((j - 1) \div WordLen) + 1 \in Nat /\ (j - 1) % WordLen \in Nat
    BY <2>1, <2>2
  <2>4. Draw(s, ((j - 1) \div WordLen) + 1) \in Words
    BY <2>3, StatesAddUp, FiguresAssumption DEF Draw
  <2>5. Words \subseteq Nat
    BY ModulusPositive DEF Words
  <2>. QED BY <2>3, <2>4, <2>5, DigitIs
<1>2. Buffer(s, n) \in [1..n -> 0..(Base - 1)]
  BY <1>1 DEF Buffer
<1>. QED BY <1>2, TableIsSeq

\* The patterns.
LEMMA PatternsAre ==
    ASSUME NEW n \in Nat
    PROVE  /\ \A d \in 0..(Base - 1) :
                [j \in 1..n |-> d] \in [1..n -> 0..(Base - 1)]
           /\ [j \in 1..n |-> (j - 1) % RampLen] \in [1..n -> 0..(Base - 1)]
<1>1. \A j \in 1..n : (j - 1) % RampLen \in 0..(Base - 1)
  <2>1. RampLen \in Nat \ {0} /\ RampLen <= Base /\ Base \in Nat
    BY FiguresAssumption
  <2>2. \A a \in Nat : \A m \in Nat \ {0} : a % m \in 0..(m - 1)
    OBVIOUS
  <2>. QED BY <2>1, <2>2
<1>. QED BY <1>1

\* What fill_payload returns is of the size asked for, in every mode.
LEMMA FillIs ==
    ASSUME cfg \in Configs, NEW s \in Words, NEW n \in Nat,
           NEW fill \in FillPayload(s, n)
    PROVE  /\ fill.buf \in Seq(0..(Base - 1)) /\ Len(fill.buf) = n
           /\ fill.rng \in Words
           /\ Seeded => fill = FillSeeded(s, n)
<1>1. /\ cfg.mode \in Modes /\ Base \in Nat \ {0, 1}
      /\ {0, 1, Base - 1} \subseteq 0..(Base - 1)
  BY FiguresAssumption
<1>2. CASE cfg.mode \in {"fixed", "rotating"} /\ cfg.seed # 0
  <2>1. fill = FillSeeded(s, n)
    BY <1>2 DEF FillPayload
  <2>2. Draws(n) \in Nat
    BY DrawsIs
  <2>. QED BY <2>1, <2>2, BufferIs, StatesAddUp DEF FillSeeded
<1>3. CASE cfg.mode \in {"fixed", "rotating"} /\ cfg.seed = 0
  <2>1. PICK d \in {0, 1} : fill = [buf |-> [j \in 1..n |-> d], rng |-> s]
    BY <1>3 DEF FillPayload
  <2>2. fill.buf \in [1..n -> 0..(Base - 1)]
    BY <1>1, <2>1, PatternsAre
  <2>. QED BY <1>3, <2>1, <2>2, TableIsSeq DEF Seeded
<1>4. CASE cfg.mode \in {"pattern-zero", "pattern-ff", "pattern-ascii"}
  <2>1. fill.rng = s /\ fill.buf \in [1..n -> 0..(Base - 1)]
    <3>1. CASE cfg.mode = "pattern-zero"
      <4>1. fill = [buf |-> [j \in 1..n |-> 0], rng |-> s]
        BY <3>1 DEF FillPayload
      <4>. QED BY <1>1, <4>1, PatternsAre
    <3>2. CASE cfg.mode = "pattern-ff"
      <4>1. fill = [buf |-> [j \in 1..n |-> Base - 1], rng |-> s]
        BY <3>2 DEF FillPayload
      <4>. QED BY <1>1, <4>1, PatternsAre
    <3>3. CASE cfg.mode = "pattern-ascii"
      <4>1. fill = [buf |-> [j \in 1..n |-> (j - 1) % RampLen], rng |-> s]
        BY <3>3 DEF FillPayload
      <4>. QED BY <4>1, PatternsAre
    <3>. QED BY <1>4, <3>1, <3>2, <3>3
  <2>. QED BY <1>4, <2>1, TableIsSeq DEF Seeded
<1>. QED BY <1>1, <1>2, <1>3, <1>4 DEF Modes
-----------------------------------------------------------------------------
(* The pool vector. *)

Tables == [Pools -> [Counters -> Nat]]

\* A vector is as long as the library says, begins with the number of tiers,
\* and has the counters of each pool where PoolDelta looks for them.
LEMMA VectorIs ==
    ASSUME cfg \in Configs, NEW counters \in Tables
    PROVE  /\ VectorOf(counters) \in Seq(Nat)
           /\ Len(VectorOf(counters)) = Slots /\ Slots \in Nat \ {0}
           /\ VectorOf(counters)[1] = cfg.layout.tiers
           /\ cfg.layout.extra >= 0 =>
                \A q \in Pools, c \in Counters :
                    counters[q][c] =
                        VectorOf(counters)[IF q < cfg.layout.tiers THEN 2 + 5 * q + c
                                           ELSE 1 + 5 * cfg.layout.tiers
                                                + 4 * (q - cfg.layout.tiers) + c]
           /\ cfg.layout.extra >= 0 =>
                \A p \in 0..(cfg.layout.tiers - 1) :
                    VectorOf(counters)[2 + 5 * p] = Starter[p]
<1>1. PICK T \in Nat : T = cfg.layout.tiers
  BY FiguresAssumption
<1>2. /\ cfg.layout.extra \in Int /\ cfg.layout.extra >= -8
      /\ \A p \in 0..(T - 1) : Starter[p] \in Nat
      /\ Slots = 1 + 5 * T + 8 + cfg.layout.extra /\ Pools = 0..(T + 1)
      /\ Counters = 1..4
  BY <1>1, FiguresAssumption DEF Slots, Pools, Counters
<1>. DEFINE Slot(i) == CASE i = 0 -> T
                     [] i \in 1..(5 * T) ->
                            IF (i - 1) % 5 = 0 THEN Starter[(i - 1) \div 5]
                            ELSE counters[(i - 1) \div 5][(i - 1) % 5]
                     [] i \in (5 * T + 1)..(5 * T + 8) ->
                            counters[T + ((i - 5 * T - 1) \div 4)]
                                    [((i - 5 * T - 1) % 4) + 1]
                     [] OTHER -> 0
<1>3. VectorOf(counters) = [j \in 1..Slots |-> Slot(j - 1)]
  BY <1>1 DEF VectorOf
<1>4. \A q \in 0..(T + 1), c \in 1..4 : counters[q][c] \in Nat
  BY <1>2 DEF Tables
<1>5. ASSUME NEW i \in Nat PROVE Slot(i) \in Nat
  <2>1. CASE i = 0
    BY <2>1
  <2>2. CASE i \in 1..(5 * T) /\ (i - 1) % 5 = 0
    <3>1. (i - 1) \div 5 \in 0..(T - 1)
      BY <2>2
    <3>. QED BY <1>2, <2>2, <3>1
  <2>3. CASE i \in 1..(5 * T) /\ (i - 1) % 5 # 0
    <3>1. (i - 1) \div 5 \in 0..(T + 1) /\ (i - 1) % 5 \in 1..4
      BY <2>3
    <3>. QED BY <1>4, <2>3, <3>1
  <2>4. CASE i \in (5 * T + 1)..(5 * T + 8)
    <3>1. T + ((i - 5 * T - 1) \div 4) \in 0..(T + 1) /\ ((i - 5 * T - 1) % 4) + 1 \in 1..4
      BY <2>4
    <3>2. ~(i \in 1..(5 * T)) /\ i # 0
      BY <2>4
    <3>. QED BY <1>4, <2>4, <3>1, <3>2
  <2>5. CASE i # 0 /\ ~(i \in 1..(5 * T)) /\ ~(i \in (5 * T + 1)..(5 * T + 8))
    BY <2>5
  <2>. QED BY <2>1, <2>2, <2>3, <2>4, <2>5
<1>6. Slots \in Nat \ {0}
  BY <1>2
<1>7. \A j \in 1..Slots : VectorOf(counters)[j] = Slot(j - 1) /\ Slot(j - 1) \in Nat
  <2>. HIDE DEF Slot
  <2>1. \A j \in 1..Slots : j - 1 \in Nat
    BY <1>6
  <2>. QED BY <1>3, <1>5, <2>1
<1>8. VectorOf(counters) \in [1..Slots -> Nat]
  BY <1>3, <1>7
<1>9. VectorOf(counters)[1] = T
  <2>1. 1 \in 1..Slots /\ 1 - 1 = 0
    BY <1>6
  <2>. QED BY <1>7, <2>1
<1>10. ASSUME cfg.layout.extra >= 0, NEW q \in 0..(T + 1), NEW c \in 1..4
       PROVE  counters[q][c] =
                VectorOf(counters)[IF q < T THEN 2 + 5 * q + c
                                   ELSE 1 + 5 * T + 4 * (q - T) + c]
  <2>1. CASE q < T
    <3>1. /\ 2 + 5 * q + c \in 1..Slots /\ (2 + 5 * q + c) - 1 = 1 + 5 * q + c
          /\ 1 + 5 * q + c \in 1..(5 * T) /\ 1 + 5 * q + c # 0
          /\ (1 + 5 * q + c) - 1 = 5 * q + c
          /\ (5 * q + c) % 5 = c /\ (5 * q + c) \div 5 = q
      BY <1>2, <1>10, <2>1
    <3>2. Slot(1 + 5 * q + c) = counters[q][c]
      BY <3>1
    <3>. QED BY <1>7, <2>1, <3>1, <3>2
  <2>2. CASE ~(q < T)
    <3>1. PICK t \in {0, 1} : q = T + t
      BY <2>2
    <3>2. /\ 1 + 5 * T + 4 * t + c \in 1..Slots
          /\ (1 + 5 * T + 4 * t + c) - 1 = 5 * T + 4 * t + c
          /\ 5 * T + 4 * t + c \in (5 * T + 1)..(5 * T + 8)
          /\ ~(5 * T + 4 * t + c \in 1..(5 * T)) /\ 5 * T + 4 * t + c # 0
          /\ (5 * T + 4 * t + c) - 5 * T - 1 = 4 * t + c - 1
          /\ (4 * t + c - 1) \div 4 = t /\ ((4 * t + c - 1) % 4) + 1 = c
          /\ q - T = t
      BY <1>2, <1>10, <3>1
    <3>3. Slot(5 * T + 4 * t + c) = counters[q][c]
      BY <3>1, <3>2
    <3>. QED BY <1>7, <2>2, <3>2, <3>3
  <2>. QED BY <2>1, <2>2
<1>11. VectorOf(counters) \in Seq(Nat) /\ Len(VectorOf(counters)) = Slots
  BY <1>6, <1>8, TableIsSeq, Zenon
<1>12. cfg.layout.extra >= 0 =>
         \A q \in 0..(T + 1), c \in 1..4 :
            counters[q][c] =
                VectorOf(counters)[IF q < T THEN 2 + 5 * q + c
                                   ELSE 1 + 5 * T + 4 * (q - T) + c]
  BY <1>10
<1>13. ASSUME cfg.layout.extra >= 0, NEW p \in 0..(T - 1)
       PROVE  VectorOf(counters)[2 + 5 * p] = Starter[p]
  <2>1. /\ 2 + 5 * p \in 1..Slots /\ (2 + 5 * p) - 1 = 1 + 5 * p
        /\ 1 + 5 * p \in 1..(5 * T) /\ 1 + 5 * p # 0 /\ (1 + 5 * p) - 1 = 5 * p
        /\ (5 * p) % 5 = 0 /\ (5 * p) \div 5 = p
    BY <1>2, <1>13
  <2>2. Slot(1 + 5 * p) = Starter[p]
    BY <2>1
  <2>. QED BY <1>7, <2>1, <2>2
<1>14. cfg.layout.extra >= 0 =>
         \A p \in 0..(T - 1) : VectorOf(counters)[2 + 5 * p] = Starter[p]
  BY <1>13
<1>. QED BY <1>1, <1>2, <1>6, <1>9, <1>11, <1>12, <1>14

Differences(from, to) ==
    [tiers |-> cfg.layout.tiers,
     starter |-> [p \in 0..(cfg.layout.tiers - 1) |-> Starter[p]],
     pool |-> [p \in Pools |-> [c \in Counters |-> to[p][c] - from[p][c]]]]

\* PoolDelta of two vectors is the difference of what they were read from,
\* beside the starter of each tier, or nothing when a pool is missing.
LEMMA DeltaOfVectors ==
    ASSUME cfg \in Configs, NEW a \in Tables, NEW b \in Tables
    PROVE  PoolDelta(VectorOf(a), VectorOf(b)) =
              IF cfg.layout.extra < 0 THEN NoFigures ELSE Differences(a, b)
<1>1. PICK T \in Nat : T = cfg.layout.tiers
  BY FiguresAssumption
<1>2. /\ cfg.layout.extra \in Int /\ cfg.layout.extra >= -8
      /\ Slots = 1 + 5 * T + 8 + cfg.layout.extra /\ Pools = 0..(T + 1)
      /\ Counters = 1..4
  BY <1>1, FiguresAssumption DEF Slots, Pools, Counters
<1>3. PICK from : from = VectorOf(a)
  OBVIOUS
<1>4. PICK to : to = VectorOf(b)
  OBVIOUS
<1>5. /\ from \in Seq(Nat) /\ Len(from) = Slots /\ Slots \in Nat \ {0} /\ from[1] = T
      /\ cfg.layout.extra >= 0 =>
            \A q \in 0..(T + 1), c \in 1..4 :
                a[q][c] = from[IF q < T THEN 2 + 5 * q + c
                               ELSE 1 + 5 * T + 4 * (q - T) + c]
  BY <1>1, <1>2, <1>3, VectorIs
<1>6. /\ to \in Seq(Nat) /\ Len(to) = Slots /\ to[1] = T
      /\ cfg.layout.extra >= 0 =>
            \A q \in 0..(T + 1), c \in 1..4 :
                b[q][c] = to[IF q < T THEN 2 + 5 * q + c
                             ELSE 1 + 5 * T + 4 * (q - T) + c]
      /\ cfg.layout.extra >= 0 => \A p \in 0..(T - 1) : to[2 + 5 * p] = Starter[p]
  BY <1>1, <1>2, <1>4, VectorIs
<1>7. CASE cfg.layout.extra < 0
  <2>1. Len(to) < 9 \/ 1 + 5 * T + 8 > Len(to)
    <3>1. Len(to) = 1 + 5 * T + 8 + cfg.layout.extra
      BY <1>2, <1>6, Zenon
    <3>2. cfg.layout.extra \in Int
      BY <1>2
    <3>. QED BY <1>7, <3>1, <3>2
  <2>. QED BY <1>3, <1>4, <1>6, <1>7, <2>1 DEF PoolDelta
<1>8. CASE ~(cfg.layout.extra < 0)
  <2>. DEFINE Diff(i) == to[i + 1] - from[i + 1]
              Found == [p \in 0..(T + 1) |-> [c \in 1..4 |->
                            IF p < T THEN Diff(1 + 5 * p + c)
                            ELSE Diff(TailSlot(T) + 4 * (p - T) + c - 1)]]
              Widths == [p \in 0..(T - 1) |-> to[(1 + 5 * p) + 1]]
  <2>1. /\ from # <<>> /\ ~(Len(to) < 9) /\ Len(from) = Len(to)
        /\ ~(T < 0) /\ ~(1 + 5 * T + 8 > Len(to))
    <3>1. from # <<>>
      <4>1. Len(<<>>) = 0 /\ Len(from) # 0
        BY <1>5
      <4>. QED BY <4>1
    <3>2. Len(from) = Slots /\ Len(to) = Slots
      BY <1>5, <1>6, Zenon
    <3>3. cfg.layout.extra \in Nat
      BY <1>2, <1>8
    <3>4. Len(to) \in Nat /\ Len(to) >= 1 + 5 * T + 8
      BY <1>2, <3>2, <3>3
    <3>. QED BY <3>1, <3>2, <3>4
  <2>2. PoolDelta(from, to) = [tiers |-> T, starter |-> Widths, pool |-> Found]
    BY <1>2, <1>6, <2>1 DEF PoolDelta
  <2>3. cfg.layout.extra >= 0
    BY <1>2, <1>8
  <2>4. \A q \in 0..(T + 1), c \in 1..4 :
            /\ b[q][c] = to[IF q < T THEN 2 + 5 * q + c
                           ELSE 1 + 5 * T + 4 * (q - T) + c]
            /\ a[q][c] = from[IF q < T THEN 2 + 5 * q + c
                             ELSE 1 + 5 * T + 4 * (q - T) + c]
    BY <1>5, <1>6, <2>3, Zenon
  <2>5. ASSUME NEW q \in 0..(T + 1), NEW c \in 1..4
        PROVE  Found[q][c] = b[q][c] - a[q][c]
    <3>1. CASE q < T
      <4>1. (1 + 5 * q + c) + 1 = 2 + 5 * q + c
        BY <3>1
      <4>2. Found[q][c] = Diff(1 + 5 * q + c)
        BY <3>1
      <4>3. /\ b[q][c] = to[IF q < T THEN 2 + 5 * q + c
                             ELSE 1 + 5 * T + 4 * (q - T) + c]
            /\ a[q][c] = from[IF q < T THEN 2 + 5 * q + c
                               ELSE 1 + 5 * T + 4 * (q - T) + c]
        BY <2>4, Zenon
      <4>4. b[q][c] = to[2 + 5 * q + c] /\ a[q][c] = from[2 + 5 * q + c]
        BY <3>1, <4>3
      <4>. QED BY <4>1, <4>2, <4>4
    <3>2. CASE ~(q < T)
      <4>1. (TailSlot(T) + 4 * (q - T) + c - 1) + 1 = 1 + 5 * T + 4 * (q - T) + c
        BY <3>2 DEF TailSlot
      <4>2. Found[q][c] = Diff(TailSlot(T) + 4 * (q - T) + c - 1)
        BY <3>2
      <4>3. /\ b[q][c] = to[IF q < T THEN 2 + 5 * q + c
                             ELSE 1 + 5 * T + 4 * (q - T) + c]
            /\ a[q][c] = from[IF q < T THEN 2 + 5 * q + c
                               ELSE 1 + 5 * T + 4 * (q - T) + c]
        BY <2>4, Zenon
      <4>4. /\ b[q][c] = to[1 + 5 * T + 4 * (q - T) + c]
            /\ a[q][c] = from[1 + 5 * T + 4 * (q - T) + c]
        BY <3>2, <4>3
      <4>. QED BY <4>1, <4>2, <4>4
    <3>. QED BY <3>1, <3>2
  <2>6. Found = [p \in 0..(T + 1) |-> [c \in 1..4 |-> b[p][c] - a[p][c]]]
    <3>1. \A q \in 0..(T + 1) : Found[q] = [c \in 1..4 |-> b[q][c] - a[q][c]]
      BY <2>5
    <3>. QED BY <3>1
  <2>7. Widths = [p \in 0..(T - 1) |-> Starter[p]]
    <3>1. \A p \in 0..(T - 1) : (1 + 5 * p) + 1 = 2 + 5 * p
      OBVIOUS
    <3>2. \A p \in 0..(T - 1) : to[2 + 5 * p] = Starter[p]
      BY <1>6, <2>3
    <3>. QED BY <3>1, <3>2
  <2>. QED BY <1>1, <1>2, <1>3, <1>4, <1>8, <2>2, <2>6, <2>7 DEF Differences
<1>. QED BY <1>7, <1>8

\* A snapshot that failed leaves the summary without figures.
LEMMA DeltaOfNothing ==
    ASSUME NEW v \in Seq(Nat)
    PROVE  PoolDelta(<<>>, v) = NoFigures /\ PoolDelta(v, <<>>) = NoFigures
  BY DEF PoolDelta
-----------------------------------------------------------------------------
(* The steps. *)

\* Past the baseline the first snapshot is of it, and every worker has begun an
\* iteration; at the end the second is of the counters as they stay.
Snapped ==
    /\ phase # "warmup" =>
        /\ warmup \in {VectorOf(base), <<>>}
        /\ \A w \in Workers : iter[w] >= 1
    /\ phase = "done" => steady \in {VectorOf(pool), <<>>}

IInv == TypeOK /\ cfg \in Configs /\ Replayable /\ Snapped

LEMMA AtFirst == Init => IInv
<1>1. SUFFICES ASSUME Init PROVE IInv
  OBVIOUS
<1>2. cfg \in Configs /\ cfg.size \in Nat
  BY <1>1, FiguresAssumption DEF Init
<1>3. PICK fill : /\ \A w \in Workers : fill[w] \in FillPayload(SeedWorker(cfg.seed, w), cfg.size)
                  /\ rng = [w \in Workers |-> fill[w].rng]
                  /\ plain = [w \in Workers |-> fill[w].buf]
  BY <1>1 DEF Init
<1>4. ASSUME NEW w \in Workers
      PROVE  /\ rng[w] \in Words /\ plain[w] \in Seq(0..(Base - 1))
             /\ Len(plain[w]) = cfg.size
             /\ Seeded => [buf |-> plain[w], rng |-> rng[w]]
                             = FillSeeded(SeedWorker(cfg.seed, w), cfg.size)
  <2>1. SeedWorker(cfg.seed, w) \in Words
    BY <1>2, SeedIsWord
  <2>2. /\ fill[w].buf \in Seq(0..(Base - 1)) /\ Len(fill[w].buf) = cfg.size
        /\ fill[w].rng \in Words
        /\ Seeded => fill[w] = FillSeeded(SeedWorker(cfg.seed, w), cfg.size)
    BY <1>2, <1>3, <2>1, FillIs
  <2>. QED BY <1>3, <2>2 DEF FillSeeded
<1>5. pool \in Tables /\ base = pool
  BY <1>1 DEF Init, Tables
<1>6. warmup \in Seq(Nat) /\ steady \in Seq(Nat)
  BY <1>1, <1>2, <1>5, VectorIs DEF Init
<1>7. TypeOK
  <2>1. iter \in [Workers -> 0..(Iterations + 1)]
    BY <1>1, FiguresAssumption DEF Init
  <2>2. \A q \in Pools, c \in Counters : base[q][c] <= pool[q][c]
    BY <1>5 DEF Tables
  <2>3. rng \in [Workers -> Words] /\ plain \in [Workers -> Seq(0..(Base - 1))]
    BY <1>3, <1>4
  <2>. QED BY <1>1, <1>4, <1>5, <1>6, <2>1, <2>2, <2>3 DEF TypeOK, Init, Tables
<1>8. Replayable
  <2>1. SUFFICES ASSUME NEW w \in Workers, Seeded
                 PROVE  LET past == IF cfg.mode = "rotating" THEN iter[w] * Draws(cfg.size) ELSE 0
                            s == StateAfter(SeedWorker(cfg.seed, w), past)
                        IN  /\ plain[w] = Buffer(s, cfg.size)
                            /\ rng[w] = StateAfter(s, Draws(cfg.size))
    BY <1>4 DEF Replayable
  <2>2. iter[w] * Draws(cfg.size) = 0
    BY <1>1, <1>2, DrawsIs DEF Init
  <2>3. SeedWorker(cfg.seed, w) \in Words
    BY <1>2, SeedIsWord
  <2>4. StateAfter(SeedWorker(cfg.seed, w), 0) = SeedWorker(cfg.seed, w)
    BY <2>3, StatesAddUp
  <2>. QED BY <1>4, <2>1, <2>2, <2>4 DEF FillSeeded
<1>9. Snapped
  BY <1>1 DEF Snapped, Init
<1>. QED BY <1>2, <1>7, <1>8, <1>9 DEF IInv

\* The counters only grow.
LEMMA CheckoutGrows ==
    ASSUME pool \in Tables, Checkout
    PROVE  /\ pool' \in [Pools -> [Counters -> Nat]]
           /\ \A q \in Pools, c \in Counters : pool[q][c] <= pool'[q][c]
<1>1. PICK p \in Pools, c \in {1, 2, 3} :
        pool' = [pool EXCEPT ![p] = [k \in Counters |->
                    pool[p][k] + (IF k = 1 \/ k = c THEN 1
                                  ELSE IF k = 4 /\ c # 1 THEN 2 ELSE 0)]]
  BY DEF Checkout
<1>2. PICK up \in [Counters -> Nat] :
        /\ pool' = [pool EXCEPT ![p] = up]
        /\ \A k \in Counters : pool[p][k] <= up[k]
  <2>. DEFINE grown == [k \in Counters |->
                    pool[p][k] + (IF k = 1 \/ k = c THEN 1
                                  ELSE IF k = 4 /\ c # 1 THEN 2 ELSE 0)]
  <2>1. grown \in [Counters -> Nat] /\ \A k \in Counters : pool[p][k] <= grown[k]
    BY DEF Tables
  <2>2. pool' = [pool EXCEPT ![p] = grown]
    BY <1>1
  <2>. HIDE DEF grown
  <2>. QED BY <2>1, <2>2
<1>. QED BY <1>2 DEF Tables

LEMMA IterateKeeps == ASSUME IInv, NEW w \in Workers, Iterate(w) PROVE IInv'
<1>. USE DEF IInv
<1>1. /\ iter[w] = 0 \/ (phase = "loop" /\ iter[w] <= Iterations)
      /\ iter' = [iter EXCEPT ![w] = iter[w] + 1] /\ Checkout
      /\ UNCHANGED <<cfg, base, warmup, steady, phase>>
  BY DEF Iterate
<1>2. /\ cfg \in Configs /\ cfg.size \in Nat \ {0} /\ Iterations \in Nat
      /\ iter \in [Workers -> 0..(Iterations + 1)] /\ iter[w] \in Nat
      /\ pool \in Tables /\ Pools' = Pools /\ Draws(cfg.size) \in Nat
      /\ (Seeded <=> Seeded')
  <2>1. cfg \in Configs /\ cfg.size \in Nat \ {0} /\ Iterations \in Nat
    BY FiguresAssumption
  <2>2. iter \in [Workers -> 0..(Iterations + 1)] /\ pool \in Tables
    BY DEF TypeOK, Tables
  <2>3. iter[w] \in Nat
    BY <2>1, <2>2
  <2>4. Pools' = Pools /\ (Seeded <=> Seeded')
    BY <1>1 DEF Pools, Seeded
  <2>. QED BY <2>1, <2>2, <2>3, <2>4, DrawsIs
<1>3. /\ pool' \in [Pools -> [Counters -> Nat]]
      /\ \A q \in Pools, c \in Counters : pool[q][c] <= pool'[q][c]
  BY <1>1, <1>2, CheckoutGrows
<1>4. /\ iter' \in [Workers -> 0..(Iterations + 1)] /\ iter'[w] = iter[w] + 1
      /\ \A v \in Workers : iter'[v] >= iter[v] /\ (v # w => iter'[v] = iter[v])
  BY <1>1, <1>2
<1>5. /\ rng' \in [Workers -> Words]
      /\ plain' \in [Workers -> Seq(0..(Base - 1))]
      /\ \A v \in Workers : Len(plain'[v]) = cfg.size
      /\ \A v \in Workers : v # w => plain'[v] = plain[v] /\ rng'[v] = rng[v]
      /\ cfg.mode # "rotating" => plain' = plain /\ rng' = rng
      /\ (cfg.mode = "rotating" /\ Seeded) =>
            /\ plain'[w] = Buffer(rng[w], cfg.size)
            /\ rng'[w] = StateAfter(rng[w], Draws(cfg.size))
  <2>1. \A v \in Workers : Len(plain[v]) = cfg.size /\ rng[v] \in Words
    BY DEF Replayable, TypeOK
  <2>2. CASE cfg.mode # "rotating"
    BY <2>1, <2>2 DEF TypeOK, Iterate
  <2>3. CASE cfg.mode = "rotating"
    <3>1. PICK fill \in FillPayload(rng[w], cfg.size) :
            /\ rng' = [rng EXCEPT ![w] = fill.rng]
            /\ plain' = [plain EXCEPT ![w] = fill.buf]
      BY <2>1, <2>3 DEF Iterate
    <3>2. /\ fill.buf \in Seq(0..(Base - 1)) /\ Len(fill.buf) = cfg.size
          /\ fill.rng \in Words
          /\ Seeded => fill = FillSeeded(rng[w], cfg.size)
      BY <1>2, <2>1, FillIs
    <3>3. \A v \in Workers :
            /\ plain'[v] = (IF v = w THEN fill.buf ELSE plain[v])
            /\ rng'[v] = (IF v = w THEN fill.rng ELSE rng[v])
      BY <3>1 DEF TypeOK
    <3>4. rng' \in [Workers -> Words] /\ plain' \in [Workers -> Seq(0..(Base - 1))]
      BY <3>1, <3>2 DEF TypeOK
    <3>5. Seeded => fill.buf = Buffer(rng[w], cfg.size)
                 /\ fill.rng = StateAfter(rng[w], Draws(cfg.size))
      BY <3>2 DEF FillSeeded
    <3>. QED BY <2>1, <2>3, <3>2, <3>3, <3>4, <3>5 DEF TypeOK
  <2>. QED BY <2>2, <2>3
<1>6. TypeOK'
  <2>1. \A q \in Pools, c \in Counters : base[q][c] <= pool'[q][c]
    <3>1. \A q \in Pools, c \in Counters :
            /\ base[q][c] \in Nat /\ pool[q][c] \in Nat /\ pool'[q][c] \in Nat
            /\ base[q][c] <= pool[q][c]
      BY <1>3 DEF TypeOK
    <3>. QED BY <1>3, <3>1
  <2>. QED BY <1>1, <1>2, <1>3, <1>4, <1>5, <2>1 DEF TypeOK
<1>7. Replayable'
  <2>1. SUFFICES ASSUME NEW v \in Workers, Seeded
                 PROVE  LET past == IF cfg.mode = "rotating" THEN iter'[v] * Draws(cfg.size) ELSE 0
                            s == StateAfter(SeedWorker(cfg.seed, v), past)
                        IN  /\ plain'[v] = Buffer(s, cfg.size)
                            /\ rng'[v] = StateAfter(s, Draws(cfg.size))
    BY <1>1, <1>2, <1>5 DEF Replayable
  <2>2. LET past == IF cfg.mode = "rotating" THEN iter[v] * Draws(cfg.size) ELSE 0
            s == StateAfter(SeedWorker(cfg.seed, v), past)
        IN  /\ plain[v] = Buffer(s, cfg.size)
            /\ rng[v] = StateAfter(s, Draws(cfg.size))
    BY <2>1 DEF Replayable
  <2>3. CASE v # w \/ cfg.mode # "rotating"
    BY <1>4, <1>5, <2>2, <2>3
  <2>4. CASE v = w /\ cfg.mode = "rotating"
    <3>1. PICK done \in Nat : done = iter[w] * Draws(cfg.size)
      BY <1>2
    <3>2. iter'[w] * Draws(cfg.size) = done + Draws(cfg.size)
      BY <1>2, <1>4, <3>1
    <3>3. rng[w] = StateAfter(StateAfter(SeedWorker(cfg.seed, w), done), Draws(cfg.size))
      BY <2>2, <2>4, <3>1
    <3>4. rng[w] = StateAfter(SeedWorker(cfg.seed, w), iter'[w] * Draws(cfg.size))
      <4>1. SeedWorker(cfg.seed, w) \in Words
        BY <1>2, SeedIsWord
      <4>. QED BY <1>2, <3>2, <3>3, <4>1, StatesAddUp
    <3>. QED BY <1>5, <2>1, <2>4, <3>4
  <2>. QED BY <2>3, <2>4
<1>8. Snapped'
  <2>1. phase # "done"
    BY <1>1 DEF Snapped
  <2>2. VectorOf(base)' = VectorOf(base)
    BY <1>1 DEF VectorOf, Slots
  <2>3. phase # "warmup" => \A v \in Workers : iter'[v] >= 1
    <3>1. \A v \in Workers : iter[v] \in Nat /\ iter'[v] \in Nat
      BY <1>2, <1>4
    <3>. QED BY <1>4, <3>1 DEF Snapped
  <2>. QED BY <1>1, <2>1, <2>2, <2>3 DEF Snapped
<1>. QED BY <1>1, <1>2, <1>6, <1>7, <1>8

\* The plaintexts do not depend on what the other steps change.
LEMMA ReplayableKept ==
    ASSUME Replayable, UNCHANGED <<cfg, rng, plain, iter>>
    PROVE  Replayable'
<1>1. Seeded' <=> Seeded
  BY DEF Seeded
<1>. QED BY <1>1 DEF Replayable

LEMMA SnapshotKeeps == ASSUME IInv, TakeBaseline \/ Finish PROVE IInv'
<1>. USE DEF IInv
<1>1. UNCHANGED <<cfg, rng, plain, iter, pool>> /\ cfg \in Configs
  BY DEF TakeBaseline, Finish
<1>2. pool \in Tables /\ Pools' = Pools /\ VectorOf(pool) \in Seq(Nat) /\ <<>> \in Seq(Nat)
  <2>1. pool \in Tables
    BY DEF TypeOK, Tables
  <2>2. VectorOf(pool) \in Seq(Nat)
    BY <1>1, <2>1, VectorIs
  <2>3. <<>> \in Seq(Nat) /\ Pools' = Pools
    BY <1>1 DEF Pools
  <2>. QED BY <2>1, <2>2, <2>3
<1>3. Replayable'
  BY <1>1, ReplayableKept
<1>4. VectorOf(pool)' = VectorOf(pool)
  BY <1>1 DEF VectorOf, Slots
<1>5. CASE TakeBaseline
  <2>1. /\ phase = "warmup" /\ phase' = "loop" /\ base' = pool /\ steady' = steady
        /\ warmup' \in {VectorOf(pool), <<>>} /\ \A w \in Workers : iter[w] = 1
    BY <1>5 DEF TakeBaseline, Snapshots
  <2>2. \A q \in Pools, c \in Counters : pool[q][c] <= pool[q][c]
    BY <1>2 DEF Tables
  <2>3. TypeOK'
    BY <1>1, <1>2, <2>1, <2>2 DEF TypeOK, Tables
  <2>4. VectorOf(base)' = VectorOf(pool)
    BY <1>1, <2>1 DEF VectorOf, Slots
  <2>5. Snapped'
    BY <1>1, <2>1, <2>4 DEF Snapped
  <2>. QED BY <1>1, <1>3, <2>3, <2>5
<1>6. CASE Finish
  <2>1. /\ phase = "loop" /\ phase' = "done" /\ UNCHANGED <<base, warmup>>
        /\ steady' \in {VectorOf(pool), <<>>}
    BY <1>6 DEF Finish, Snapshots
  <2>2. TypeOK'
    BY <1>1, <1>2, <2>1 DEF TypeOK
  <2>3. VectorOf(base)' = VectorOf(base)
    BY <1>1, <2>1 DEF VectorOf, Slots
  <2>4. Snapped'
    BY <1>1, <1>4, <2>1, <2>3 DEF Snapped
  <2>. QED BY <1>1, <1>3, <2>2, <2>4
<1>. QED BY <1>5, <1>6

LEMMA InvariantHolds == Spec => []IInv
<1>1. ASSUME IInv, UNCHANGED vars PROVE IInv'
  <2>1. UNCHANGED <<cfg, rng, plain, iter, pool, base, warmup, steady, phase>>
    BY <1>1 DEF vars
  <2>2. VectorOf(base)' = VectorOf(base) /\ VectorOf(pool)' = VectorOf(pool)
    BY <2>1 DEF VectorOf, Slots
  <2>3. Pools' = Pools
    BY <2>1 DEF Pools
  <2>4. TypeOK' /\ Snapped'
    BY <1>1, <2>1, <2>2, <2>3 DEF IInv, TypeOK, Snapped
  <2>. QED BY <1>1, <2>1, <2>4, ReplayableKept DEF IInv
<1>2. IInv /\ [Next]_vars => IInv'
  BY <1>1, IterateKeeps, SnapshotKeeps DEF Next
<1>. QED BY <1>2, AtFirst, PTL DEF Spec
-----------------------------------------------------------------------------
\* Generators stay words, buffers digits and counters counters, for any word,
\* any number of workers and any pools (payload.py, summary.py).
THEOREM TypeCorrect == Spec => []TypeOK
<1>1. IInv => TypeOK
  BY DEF IInv
<1>. QED BY <1>1, InvariantHolds, PTL

\* Whatever order the workers run in, the plaintext of an iteration is the one
\* the seed, the worker and the iteration give (payload.py:78-107,
\* worker.py:115-116).
THEOREM PlaintextsReplay == Spec => []Replayable
<1>1. IInv => Replayable
  BY DEF IInv
<1>. QED BY <1>1, InvariantHolds, PTL

\* Two different progressions of generator states, at any two iterations.
LEMMA StatesDiffer ==
    ASSUME cfg \in Configs, Seeded, cfg.size >= WordLen,
           NEW v \in Workers, NEW w \in Workers, v # w,
           NEW i \in 0..(Iterations + 1), NEW j \in 0..i,
           cfg.mode # "rotating" => i = j
    PROVE  StateAfter(SeedWorker(cfg.seed, v), i * Draws(cfg.size) + 1)
             # StateAfter(SeedWorker(cfg.seed, w), j * Draws(cfg.size) + 1)
<1>1. SUFFICES ASSUME StateAfter(SeedWorker(cfg.seed, v), i * Draws(cfg.size) + 1)
                        = StateAfter(SeedWorker(cfg.seed, w), j * Draws(cfg.size) + 1)
               PROVE  FALSE
  OBVIOUS
<1>2. /\ Modulus \in Nat \ {0} /\ Gamma \in Nat /\ cfg.seed \in Nat /\ N \in 1..Modulus
      /\ v \in 0..(N - 1) /\ w \in 0..(N - 1) /\ cfg.size \in Nat
      /\ i \in Nat /\ j \in Nat /\ Iterations \in Nat
  BY ModulusPositive, FiguresAssumption DEF Words, Workers
<1>3. PICK D \in Nat : D = Draws(cfg.size)
  BY <1>2, DrawsIs
<1>4. ASSUME NEW u \in 0..(N - 1), NEW k \in Nat
      PROVE  \E q \in Int : StateAfter(SeedWorker(cfg.seed, u), k * D + 1)
                                = cfg.seed + u + 1 + (k * D) * Gamma + Gamma + q * Modulus
  <2>1. PICK q \in Int, r \in 0..(Modulus - 1) :
            cfg.seed + u + 1 = q * Modulus + r /\ (cfg.seed + u + 1) % Modulus = r
    <3>1. cfg.seed + u + 1 \in Int
      BY <1>2
    <3>. QED BY <1>2, <3>1, Division, Zenon
  <2>2. PICK n \in Nat : n = k * D
    OBVIOUS
  <2>3. PICK g \in Nat : g = n * Gamma
    BY <1>2
  <2>4. (n + 1) * Gamma = g + Gamma
    BY <1>2, <2>3
  <2>5. PICK p \in Int, s \in 0..(Modulus - 1) :
            r + (g + Gamma) = p * Modulus + s /\ (r + (g + Gamma)) % Modulus = s
    <3>1. r + (g + Gamma) \in Int
      BY <1>2
    <3>. QED BY <1>2, <3>1, Division, Zenon
  <2>6. StateAfter(SeedWorker(cfg.seed, u), k * D + 1) = s
    BY <2>1, <2>2, <2>4, <2>5 DEF StateAfter, SeedWorker
  <2>7. PICK t \in Int : t = 0 - (p + q)
    <3>1. p \in Int /\ q \in Int
      OBVIOUS
    <3>. QED BY <3>1
  <2>8. /\ q * Modulus \in Int /\ p * Modulus \in Int /\ t * Modulus \in Int
        /\ t * Modulus = 0 - (p * Modulus + q * Modulus)
    BY <1>2, <2>7
  <2>9. /\ cfg.seed + u + 1 = q * Modulus + r
        /\ r + (g + Gamma) = p * Modulus + s
        /\ r \in Int /\ s \in Int /\ g \in Int
    BY <1>2, <2>1, <2>5
  <2>10. s = cfg.seed + u + 1 + g + Gamma + t * Modulus
    BY <1>2, <2>8, <2>9
  <2>. QED BY <2>2, <2>3, <2>6, <2>10
<1>5. PICK a \in Int : StateAfter(SeedWorker(cfg.seed, v), i * D + 1)
                          = cfg.seed + v + 1 + (i * D) * Gamma + Gamma + a * Modulus
  BY <1>2, <1>4
<1>6. PICK b \in Int : StateAfter(SeedWorker(cfg.seed, w), j * D + 1)
                          = cfg.seed + w + 1 + (j * D) * Gamma + Gamma + b * Modulus
  BY <1>2, <1>4
<1>7. PICK k \in 0..(Iterations + 1) : i = j + k
  BY <1>2
<1>8. k * D * Gamma + (v - w) = (b - a) * Modulus
  <2>1. (i * D) * Gamma = (j * D) * Gamma + k * D * Gamma
    <3>1. i * D = j * D + k * D /\ j * D \in Nat /\ k * D \in Nat
      BY <1>2, <1>7
    <3>2. PICK x \in Nat : x = j * D
      BY <3>1
    <3>3. PICK y \in Nat : y = k * D
      BY <3>1
    <3>4. (x + y) * Gamma = x * Gamma + y * Gamma
      BY <1>2
    <3>. QED BY <3>1, <3>2, <3>3, <3>4
  <2>2. /\ (j * D) * Gamma \in Int /\ k * D * Gamma \in Int
        /\ a * Modulus \in Int /\ b * Modulus \in Int
        /\ (b - a) * Modulus = b * Modulus - a * Modulus
    BY <1>2
  <2>. QED BY <1>1, <1>2, <1>3, <1>5, <1>6, <2>1, <2>2
<1>9. (k * D * Gamma + (v - w)) % Modulus = 0
  <2>1. PICK c \in Int : c = b - a
    OBVIOUS
  <2>2. (c * Modulus + 0) % Modulus = 0
    BY <1>2, DivisionIsUnique
  <2>. QED BY <1>2, <1>8, <2>1, <2>2
<1>10. CASE k = 0
  <2>1. PICK c \in Int : c = b - a
    OBVIOUS
  <2>2. c * Modulus = v - w /\ v - w < Modulus /\ w - v < Modulus /\ v - w # 0
    BY <1>2, <1>8, <1>10, <2>1
  <2>3. c # 0
    BY <1>2, <2>2
  <2>4. CASE c >= 1
    <3>1. (c - 1) * Modulus >= 0 /\ (c - 1) * Modulus = c * Modulus - Modulus
      BY <1>2, <2>4
    <3>. QED BY <1>2, <2>2, <3>1
  <2>5. CASE c <= 0 - 1
    <3>1. (0 - 1 - c) * Modulus >= 0
          /\ (0 - 1 - c) * Modulus = 0 - Modulus - c * Modulus
      BY <1>2, <2>5
    <3>. QED BY <1>2, <2>2, <3>1
  <2>. QED BY <2>3, <2>4, <2>5
<1>11. CASE k # 0
  <2>1. /\ cfg.mode = "rotating" /\ cfg.seed # 0
        /\ k \in 1..(Iterations + 1) /\ v - w \in (1 - N)..(N - 1) /\ v - w # 0
    BY <1>2, <1>7, <1>11 DEF Seeded
  <2>. QED BY <1>3, <1>9, <2>1, GammaAssumption
<1>. QED BY <1>10, <1>11

\* A buffer of a whole word begins with the digits of the first draw.
LEMMA FirstWord ==
    ASSUME NEW s \in Words, NEW n \in Nat, n >= WordLen, NEW k \in 0..(WordLen - 1)
    PROVE  Buffer(s, n)[k + 1] = Digit(Draw(s, 1), k)
<1>1. WordLen \in Nat \ {0} /\ k + 1 \in 1..n /\ (k + 1) - 1 = k
  BY FiguresAssumption
<1>2. (0 * WordLen + k) \div WordLen = 0 /\ (0 * WordLen + k) % WordLen = k
  BY <1>1, DivisionIsUnique
<1>3. k \div WordLen = 0 /\ k % WordLen = k
  BY <1>1, <1>2
<1>. QED BY <1>1, <1>3 DEF Buffer

\* Equal buffers come of equal states.
LEMMA BufferTellsState ==
    ASSUME NEW s \in Words, NEW t \in Words, NEW n \in Nat, n >= WordLen,
           Buffer(s, n) = Buffer(t, n)
    PROVE  StateAfter(s, 1) = StateAfter(t, 1)
<1>1. /\ StateAfter(s, 1) \in Words /\ StateAfter(t, 1) \in Words
      /\ Draw(s, 1) \in Words /\ Draw(t, 1) \in Words
  BY StatesAddUp, FiguresAssumption DEF Draw
<1>2. \A k \in 0..(WordLen - 1) : Digit(Draw(s, 1), k) = Digit(Draw(t, 1), k)
  BY FirstWord
<1>3. Draw(s, 1) = Draw(t, 1)
  <2>1. WordLen \in Nat
    BY FiguresAssumption
  <2>2. Draw(s, 1) \in 0..(Place[WordLen] - 1) /\ Draw(t, 1) \in 0..(Place[WordLen] - 1)
    BY <1>1 DEF Words, Modulus
  <2>. QED BY <1>2, <2>1, <2>2, DigitsDetermine, Zenon
<1>. QED BY <1>1, <1>3, FiguresAssumption DEF Draw

LEMMA Apart ==
    ASSUME IInv, Seeded, cfg.size >= WordLen,
           NEW v \in Workers, NEW w \in Workers, v # w, iter[w] <= iter[v]
    PROVE  plain[v] # plain[w]
<1>. USE DEF IInv
<1>1. SUFFICES ASSUME plain[v] = plain[w] PROVE FALSE
  OBVIOUS
<1>2. /\ cfg \in Configs /\ cfg.size \in Nat /\ Draws(cfg.size) \in Nat
      /\ iter[v] \in 0..(Iterations + 1) /\ iter[w] \in 0..iter[v]
      /\ SeedWorker(cfg.seed, v) \in Words /\ SeedWorker(cfg.seed, w) \in Words
  <2>1. cfg \in Configs /\ cfg.size \in Nat
    BY FiguresAssumption
  <2>2. iter[v] \in 0..(Iterations + 1) /\ iter[w] \in 0..iter[v]
    BY FiguresAssumption DEF TypeOK
  <2>3. SeedWorker(cfg.seed, v) \in Words /\ SeedWorker(cfg.seed, w) \in Words
    BY <2>1, SeedIsWord, Zenon
  <2>4. Draws(cfg.size) \in Nat
    BY <2>1, DrawsIs
  <2>. QED BY <2>1, <2>2, <2>3, <2>4
<1>3. PICK i, j :
        /\ i = (IF cfg.mode = "rotating" THEN iter[v] ELSE 0)
        /\ j = (IF cfg.mode = "rotating" THEN iter[w] ELSE 0)
        /\ i \in 0..(Iterations + 1) /\ j \in 0..i
  <2>1. Iterations \in Nat
    BY FiguresAssumption
  <2>. QED BY <1>2, <2>1
<1>4. i * Draws(cfg.size) \in Nat /\ j * Draws(cfg.size) \in Nat /\ 0 * Draws(cfg.size) = 0
  <2>1. \A m, n \in Nat : m * n \in Nat /\ 0 * n = 0
    OBVIOUS
  <2>2. i \in Nat /\ j \in Nat
    BY <1>3, FiguresAssumption
  <2>. QED BY <1>2, <2>1, <2>2
<1>5. /\ plain[v] = Buffer(StateAfter(SeedWorker(cfg.seed, v), i * Draws(cfg.size)), cfg.size)
      /\ plain[w] = Buffer(StateAfter(SeedWorker(cfg.seed, w), j * Draws(cfg.size)), cfg.size)
  <2>1. CASE cfg.mode = "rotating"
    BY <1>3, <2>1 DEF Replayable
  <2>2. CASE cfg.mode # "rotating"
    BY <1>3, <1>4, <2>2 DEF Replayable
  <2>. QED BY <2>1, <2>2
<1>6. PICK s \in Words : s = StateAfter(SeedWorker(cfg.seed, v), i * Draws(cfg.size))
  BY <1>2, <1>4, StatesAddUp
<1>7. PICK t \in Words : t = StateAfter(SeedWorker(cfg.seed, w), j * Draws(cfg.size))
  BY <1>2, <1>4, StatesAddUp
<1>8. StateAfter(s, 1) = StateAfter(t, 1)
  <2>1. Buffer(s, cfg.size) = Buffer(t, cfg.size)
    BY <1>1, <1>5, <1>6, <1>7
  <2>. QED BY <1>2, <2>1, BufferTellsState, Zenon
<1>9. /\ StateAfter(s, 1) = StateAfter(SeedWorker(cfg.seed, v), i * Draws(cfg.size) + 1)
      /\ StateAfter(t, 1) = StateAfter(SeedWorker(cfg.seed, w), j * Draws(cfg.size) + 1)
  <2>1. ASSUME NEW x \in Words, NEW a \in Nat
        PROVE  StateAfter(StateAfter(x, a), 1) = StateAfter(x, a + 1)
    <3>1. 1 \in Nat
      OBVIOUS
    <3>. QED BY <3>1, StatesAddUp, Zenon
  <2>2. StateAfter(StateAfter(SeedWorker(cfg.seed, v), i * Draws(cfg.size)), 1)
            = StateAfter(SeedWorker(cfg.seed, v), i * Draws(cfg.size) + 1)
    BY <1>2, <1>4, <2>1, Zenon
  <2>3. StateAfter(StateAfter(SeedWorker(cfg.seed, w), j * Draws(cfg.size)), 1)
            = StateAfter(SeedWorker(cfg.seed, w), j * Draws(cfg.size) + 1)
    BY <1>2, <1>4, <2>1, Zenon
  <2>. QED BY <1>6, <1>7, <2>2, <2>3, Zenon
<1>10. cfg.mode # "rotating" => i = j
  BY <1>3
<1>11. StateAfter(SeedWorker(cfg.seed, v), i * Draws(cfg.size) + 1)
         # StateAfter(SeedWorker(cfg.seed, w), j * Draws(cfg.size) + 1)
  BY <1>2, <1>3, <1>10, StatesDiffer, Zenon
<1>. QED BY <1>8, <1>9, <1>11

\* Seeded workers never hold the same plaintext, however far apart they are in
\* their iterations: the ids keep their states apart by less than the increment
\* ever brings them round (payload.py:47-56, main.py:686-694).
THEOREM PlaintextsDiffer == Spec => []DistinctPlaintexts
<1>1. IInv => DistinctPlaintexts
  <2>1. SUFFICES ASSUME IInv, Seeded, cfg.size >= WordLen,
                        NEW v \in Workers, NEW w \in Workers, v # w
                 PROVE  plain[v] # plain[w]
    BY DEF DistinctPlaintexts
  <2>2. iter[v] \in Int /\ iter[w] \in Int
    BY <2>1, FiguresAssumption DEF IInv, TypeOK
  <2>3. CASE iter[w] <= iter[v]
    BY <2>1, <2>3, Apart
  <2>4. CASE iter[v] <= iter[w]
    BY <2>1, <2>4, Apart
  <2>. QED BY <2>2, <2>3, <2>4
<1>. QED BY <1>1, InvariantHolds, PTL

\* What the summary prints of the pools is what the main loop did to them,
\* whatever the library's vector is made of (summary.py:57-103,
\* runtime.py:78-101).
THEOREM FiguresTrue == Spec => []FiguresAreHonest
<1>1. IInv => FiguresAreHonest
  <2>1. SUFFICES ASSUME IInv, phase = "done"
                 PROVE  PoolDelta(warmup, steady) =
                            IF warmup = <<>> \/ steady = <<>> \/ cfg.layout.extra < 0
                            THEN NoFigures ELSE Differences(base, pool)
    BY DEF FiguresAreHonest, Differences
  <2>2. /\ cfg \in Configs /\ base \in Tables /\ pool \in Tables
        /\ warmup \in {VectorOf(base), <<>>} /\ steady \in {VectorOf(pool), <<>>}
        /\ warmup \in Seq(Nat) /\ steady \in Seq(Nat)
    BY <2>1 DEF IInv, TypeOK, Tables, Snapped
  <2>3. CASE warmup = <<>> \/ steady = <<>>
    BY <2>2, <2>3, DeltaOfNothing
  <2>4. CASE ~(warmup = <<>> \/ steady = <<>>)
    BY <2>2, <2>4, DeltaOfVectors
  <2>. QED BY <2>3, <2>4
<1>. QED BY <1>1, InvariantHolds, PTL
=============================================================================
