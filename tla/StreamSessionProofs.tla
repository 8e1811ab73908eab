------------------------ MODULE StreamSessionProofs ------------------------
(***************************************************************************)
(* A stream session, for a source of any length and a chain of any         *)
(* capacity: its type, the release of the session on every way out, the    *)
(* bound on what the pump holds, the pin on the parent, and the step       *)
(* simulation of BytePump: the transform in order, whole at a normal       *)
(* return.                                                                 *)
(*                                                                         *)
(* The inductive invariant follows the bytes.  Until an exception unwinds  *)
(* the pump, what was delivered, what is in the caller's hands and what    *)
(* the chain has not handed over yet are the units 1, 2, ... up to the     *)
(* last one produced (Flow); the chain produces no more than it was given, *)
(* and the terminal bytes only after the end of input, which the pump      *)
(* signals only once the whole source was accepted (InputOrder).           *)
(***************************************************************************)
EXTENDS StreamSession, SequenceTheorems, TLAPS

Units == 1..Terminal

\* The session is released with the handle that named it, and the parent is
\* collected only from a session object that is gone.
Lifetime ==
    /\ session = "open" <=> handle = 1
    /\ frees = (IF session = "freed" THEN 1 ELSE 0)
    /\ pc = "begin" => session = "none"
    /\ pc \in {"done", "raised"} => handle = 0
    /\ dropped => pc \in {"done", "raised"}
    /\ PinHolds

\* What was read from the source is accepted before the next slice is read,
\* and all of it before the input is ended.
InputOrder ==
    /\ accepted <= taken
    /\ pc = "write" => taken = accepted + 1
    /\ pc \in {"begin", "source", "drain", "deliver", "end", "final", "flush",
               "leave"} => taken = accepted
    /\ pc \in {"end", "final", "flush", "leave"} => taken = Slices
    /\ ended <=> pyEnded
    /\ ended => accepted = Slices
    /\ pc \in {"begin", "source", "write", "drain"} => ~ended
    /\ pc \in {"final", "flush", "leave"} => ended
    /\ produced <= accepted + 1
    /\ ~ended => produced <= accepted

Flow ==
    /\ \A i \in 1..Len(chunk) : chunk[i] = Len(dst) + i
    /\ \A i \in 1..Len(spool) : spool[i] = Len(dst) + Len(chunk) + i
    /\ Len(dst) + Len(chunk) + Len(spool) = produced

OutputOrder ==
    /\ \A i \in 1..Len(dst) : dst[i] = i
    /\ Len(dst) <= produced
    /\ chunk # <<>> <=> pc = "deliver"
    /\ pc \notin {"unwind", "raised"} => Flow
    /\ finished => ended /\ produced = Terminal /\ spool = <<>>
    /\ pc \in {"flush", "leave", "done"} => finished

\* The pump reads on only when it has drained the chain.
Bounded ==
    /\ Backlog <= Capacity
    /\ HeldBounded
    /\ drive = "pump" /\ pc \in {"begin", "source", "write"} =>
        accepted - Len(dst) <= Capacity

IInv == TypeOK /\ Lifetime /\ InputOrder /\ OutputOrder /\ Bounded
-----------------------------------------------------------------------------
\* The two parts a read cuts the spool into (stream.py:61-77).
LEMMA Cut ==
    ASSUME NEW s \in Seq(Units), NEW n \in 0..Len(s)
    PROVE  /\ SubSeq(s, 1, n) \in Seq(Units)
           /\ Len(SubSeq(s, 1, n)) = n
           /\ \A i \in 1..n : SubSeq(s, 1, n)[i] = s[i]
           /\ SubSeq(s, n + 1, Len(s)) \in Seq(Units)
           /\ Len(SubSeq(s, n + 1, Len(s))) = Len(s) - n
           /\ \A i \in 1..(Len(s) - n) : SubSeq(s, n + 1, Len(s))[i] = s[n + i]
<1>1. Len(s) \in Nat /\ \A i \in 1..Len(s) : s[i] \in Units
  BY LenProperties, ElementOfSeq
<1>2. /\ SubSeq(s, 1, n) \in Seq(Units)
      /\ Len(SubSeq(s, 1, n)) = n
      /\ \A i \in 1..n : SubSeq(s, 1, n)[i] = s[i]
  <2>1. \A i \in 1..n : s[i] \in Units
    BY <1>1
  <2>. QED BY <1>1, <2>1, SubSeqProperties
<1>3. /\ SubSeq(s, n + 1, Len(s)) \in Seq(Units)
      /\ Len(SubSeq(s, n + 1, Len(s))) = Len(s) - n
      /\ \A i \in 1..(Len(s) - n) : SubSeq(s, n + 1, Len(s))[i] = s[n + i]
  <2>1. \A i \in (n + 1)..Len(s) : s[i] \in Units
    BY <1>1
  <2>. QED BY <1>1, <2>1, SubSeqProperties
<1>. QED BY <1>2, <1>3

\* Delivering a part of what is in hand extends the destination (stream.py:105,
\* 112).
LEMMA Join ==
    ASSUME NEW d \in Seq(Units), NEW s \in Seq(Units), NEW n \in 0..Len(s)
    PROVE  /\ d \o SubSeq(s, 1, n) \in Seq(Units)
           /\ Len(d \o SubSeq(s, 1, n)) = Len(d) + n
           /\ \A i \in 1..(Len(d) + n) :
                (d \o SubSeq(s, 1, n))[i] = IF i <= Len(d) THEN d[i] ELSE s[i - Len(d)]
<1>. DEFINE c == SubSeq(s, 1, n)
<1>1. Len(d) \in Nat /\ n \in Nat
  BY LenProperties
<1>2. c \in Seq(Units) /\ Len(c) = n /\ \A i \in 1..n : c[i] = s[i]
  BY Cut
<1>. HIDE DEF c
<1>3. /\ d \o c \in Seq(Units)
      /\ Len(d \o c) = Len(d) + Len(c)
      /\ \A i \in 1..(Len(d) + Len(c)) :
            (d \o c)[i] = IF i <= Len(d) THEN d[i] ELSE c[i - Len(d)]
  BY ONLY <1>2, d \in Seq(Units), ConcatProperties
<1>4. /\ d \o c \in Seq(Units)
      /\ Len(d \o c) = Len(d) + n
      /\ \A i \in 1..(Len(d) + n) :
            (d \o c)[i] = IF i <= Len(d) THEN d[i] ELSE s[i - Len(d)]
  <2>1. ASSUME NEW i \in 1..(Len(d) + n), i > Len(d) PROVE i - Len(d) \in 1..n
    BY <1>1, <2>1
  <2>. QED BY <1>1, <1>2, <1>3, <2>1
<1>. QED BY <1>4 DEF c

\* A new session has delivered nothing and owes nothing.
LEMMA InitIInv == Init => IInv
<1>. SUFFICES ASSUME Init PROVE IInv
  OBVIOUS
<1>1. <<>> \in Seq(Units) /\ Len(<<>>) = 0
  BY EmptySeq
<1>2. TypeOK
  <2>1. /\ taken \in 0..Slices /\ accepted \in 0..Slices
        /\ produced \in 0..Terminal /\ frees \in 0..1
    BY StreamAssumption DEF Init, Terminal
  <2>2. /\ chunk \in Seq(1..Terminal) /\ dst \in Seq(1..Terminal)
        /\ spool \in Seq(1..Terminal)
    BY <1>1 DEF Init, Units
  <2>. QED BY <2>1, <2>2 DEF Init, TypeOK, Labels
<1>3. Lifetime
  BY DEF Init, Lifetime, PinHolds
<1>4. InputOrder
  BY DEF Init, InputOrder
<1>5. OutputOrder
  BY <1>1 DEF Init, OutputOrder, Flow
<1>6. Bounded
  BY <1>1, StreamAssumption DEF Init, Bounded, Backlog, HeldBounded
<1>. QED BY <1>2, <1>3, <1>4, <1>5, <1>6 DEF IInv
-----------------------------------------------------------------------------
\* A read moves units from the spool to the caller's hands and leaves the
\* order of all of them (stream.py:100-113).
LEMMA ReadKeepsFlow ==
    ASSUME IInv, chunk = <<>>, Flow, NEW n \in 0..Len(spool), Take(n),
           UNCHANGED <<dst, produced>>
    PROVE  /\ Flow'
           /\ chunk' \in Seq(Units) /\ spool' \in Seq(Units)
           /\ chunk' = <<>> <=> n = 0
           /\ n = 0 => spool = <<>> /\ spool' = <<>>
           /\ n = Len(spool) => spool' = <<>>
<1>1. spool \in Seq(Units) /\ dst \in Seq(Units) /\ Len(chunk) = 0
  BY EmptySeq DEF IInv, TypeOK, Units
<1>2. Len(spool) \in Nat /\ Len(dst) \in Nat
  BY <1>1, LenProperties
<1>3. /\ chunk' \in Seq(Units) /\ Len(chunk') = n
      /\ \A i \in 1..n : chunk'[i] = spool[i]
      /\ spool' \in Seq(Units) /\ Len(spool') = Len(spool) - n
      /\ \A i \in 1..(Len(spool) - n) : spool'[i] = spool[n + i]
  BY <1>1, Cut DEF Take, Unread
<1>4. /\ \A i \in 1..Len(spool) : spool[i] = Len(dst) + i
      /\ Len(dst) + Len(spool) = produced
      /\ dst' = dst /\ produced' = produced
  BY <1>1, <1>2 DEF Flow
<1>5. \A i \in 1..n : chunk'[i] = Len(dst) + i
  <2>. SUFFICES ASSUME NEW i \in 1..n PROVE chunk'[i] = Len(dst) + i
    OBVIOUS
  <2>1. i \in 1..Len(spool)
    BY <1>2
  <2>. QED BY <1>3, <1>4, <2>1
<1>6. \A i \in 1..(Len(spool) - n) : spool'[i] = Len(dst) + n + i
  <2>. SUFFICES ASSUME NEW i \in 1..(Len(spool) - n)
                PROVE  spool'[i] = Len(dst) + n + i
    OBVIOUS
  <2>1. n + i \in 1..Len(spool)
    BY <1>2
  <2>2. spool[n + i] = Len(dst) + (n + i)
    BY <1>4, <2>1
  <2>. QED BY <1>2, <1>3, <2>2
<1>7. Len(dst) + n + (Len(spool) - n) = produced
  BY <1>2, <1>4
<1>8. Flow'
  BY <1>3, <1>4, <1>5, <1>6, <1>7 DEF Flow
<1>9. \A s \in Seq(Units) : s = <<>> <=> Len(s) = 0
  BY EmptySeq
<1>10. /\ n = 0 => spool = <<>>
       /\ n = Len(spool) => Len(spool') = 0
       /\ n = 0 => Len(spool') = 0
  BY <1>1, <1>2, <1>3, <1>9 DEF Take
<1>. QED BY <1>3, <1>8, <1>9, <1>10

\* Every step keeps the life of the session and of its parent in order
\* (stream.py:32-46, 116-145; pipeline.py:363-392).
LEMMA LifetimeStep ==
    ASSUME IInv, Next
    PROVE  Lifetime'
<1>. USE DEF IInv, TypeOK, Lifetime, PinHolds, GoTo
<1>1. CASE Begin \/ BeginRaises
  BY <1>1 DEF Begin, BeginRaises, objectVars, libraryVars, parentVars
<1>2. CASE ReadSource \/ Write \/ DrainRead \/ EndEarly \/ End
  BY <1>2 DEF ReadSource, Write, AfterWrite, DrainRead, EndEarly, End,
              callerVars, objectVars, libraryVars, parentVars
<1>3. CASE FinalRead \/ DeliverChunk \/ Flush \/ CallRaises \/ Interrupted
  BY <1>3
     DEF FinalRead, AfterRead, DeliverChunk, Flush, CallRaises, Interrupted,
              Unwind, objectVars, libraryVars, parentVars
<1>4. CASE Leave \/ DropSession
  BY <1>4 DEF Leave, DropSession, Free, Forget, callerVars, parentVars
<1>5. CASE ChainProduces \/ ChainFails
  BY <1>5 DEF ChainProduces, ChainFails, callerVars, objectVars, parentVars
<1>6. CASE DropParent \/ CollectParent \/ FreeParent
  BY <1>6
     DEF DropParent, CollectParent, FreeParent, Pinned, callerVars, objectVars,
              libraryVars
<1>. QED BY <1>1, <1>2, <1>3, <1>4, <1>5, <1>6 DEF Next, CallerStep

\* Every step keeps the source ahead of the chain and the chain ahead of its
\* output (stream.py:82-113).
LEMMA InputStep ==
    ASSUME IInv, Next
    PROVE  InputOrder'
<1>. USE StreamAssumption DEF IInv, TypeOK, InputOrder, GoTo
<1>1. CASE Begin \/ BeginRaises
  BY <1>1 DEF Begin, BeginRaises, objectVars, libraryVars, parentVars
<1>2. CASE ReadSource
  BY <1>2 DEF ReadSource, More, objectVars, libraryVars
<1>3. CASE Write
  BY <1>3 DEF Write, AfterWrite, objectVars
<1>4. CASE DrainRead
  BY <1>4 DEF DrainRead, objectVars
<1>5. CASE EndEarly \/ End
  BY <1>5 DEF EndEarly, End, callerVars
<1>6. CASE FinalRead
  BY <1>6 DEF FinalRead, AfterRead, objectVars
<1>7. CASE DeliverChunk \/ Flush
  BY <1>7 DEF DeliverChunk, Flush, objectVars, libraryVars
<1>8. CASE CallRaises \/ Interrupted
  BY <1>8 DEF CallRaises, Interrupted, Unwind, objectVars, libraryVars
<1>9. CASE Leave \/ DropSession
  BY <1>9 DEF Leave, DropSession, callerVars
<1>10. CASE ChainProduces \/ ChainFails
  BY <1>10, SMTT(30) DEF ChainProduces, ChainFails, Backlog, callerVars,
                         objectVars
<1>11. CASE DropParent \/ CollectParent \/ FreeParent
  BY <1>11 DEF DropParent, CollectParent, FreeParent, callerVars, objectVars,
               libraryVars
<1>. QED BY <1>1, <1>2, <1>3, <1>4, <1>5, <1>6, <1>7, <1>8, <1>9, <1>10, <1>11
         DEF Next, CallerStep
\* Every step keeps the units in order (stream.py:61-113).
LEMMA OutputStep ==
    ASSUME IInv, Next
    PROVE  OutputOrder'
<1>. USE DEF GoTo
<1>1. /\ chunk \in Seq(Units) /\ spool \in Seq(Units) /\ dst \in Seq(Units)
      /\ produced \in 0..Terminal /\ finished \in BOOLEAN
  BY DEF IInv, TypeOK, Units
<1>2. /\ Len(chunk) \in Nat /\ Len(spool) \in Nat /\ Len(dst) \in Nat
      /\ \A s \in Seq(Units) : s = <<>> <=> Len(s) = 0
      /\ Len(<<>>) = 0
  BY <1>1, LenProperties, EmptySeq
<1>3. OutputOrder /\ InputOrder /\ Lifetime
  BY DEF IInv
<1>4. ASSUME UNCHANGED <<dst, chunk, spool, produced, finished>>,
             ended => ended',
             chunk # <<>> <=> pc' = "deliver",
             pc' \notin {"unwind", "raised"} => pc \notin {"unwind", "raised"},
             pc' \in {"flush", "leave", "done"} => finished
      PROVE  OutputOrder'
  BY <1>3, <1>4 DEF OutputOrder, Flow
<1>5. CASE \/ Begin \/ BeginRaises \/ ReadSource \/ Write \/ EndEarly \/ End
           \/ Flush \/ Leave \/ DropSession \/ ChainFails
           \/ DropParent \/ CollectParent \/ FreeParent
  <2>1. UNCHANGED <<dst, chunk, spool, produced, finished>> /\ (ended => ended')
    BY <1>5
       DEF Begin, BeginRaises, ReadSource, Write, EndEarly, End, Flush, Leave,
                DropSession, ChainFails, DropParent, CollectParent, FreeParent,
                callerVars, objectVars, libraryVars, parentVars
  <2>2. /\ chunk # <<>> <=> pc' = "deliver"
        /\ pc' \notin {"unwind", "raised"} => pc \notin {"unwind", "raised"}
        /\ pc' \in {"flush", "leave", "done"} => finished
    BY <1>3, <1>5
       DEF Begin, BeginRaises, ReadSource, Write, AfterWrite, EndEarly, End,
           Flush, Leave, DropSession, ChainFails, DropParent, CollectParent,
           FreeParent, callerVars, OutputOrder
  <2>. QED BY <1>4, <2>1, <2>2
<1>6. CASE DrainRead \/ FinalRead
  <2>1. PICK n \in 0..Len(spool) :
          /\ Take(n)
          /\ \/ pc = "drain" /\ pc' = (IF n = 0 THEN "source" ELSE "deliver")
                /\ finished' = FALSE
             \/ pc = "final" /\ pc' = (IF n > 0 THEN "deliver" ELSE "flush")
                /\ (n = 0 => finished') /\ finished' \in BOOLEAN
                /\ (finished' => produced = Terminal /\ n = Len(spool))
    BY <1>6 DEF DrainRead, FinalRead, AfterRead, Exhausted
  <2>2. UNCHANGED <<dst, produced, ended>>
    BY <1>6 DEF DrainRead, FinalRead
  <2>3. chunk = <<>> /\ Flow
    BY <1>3, <2>1 DEF OutputOrder
  <2>4. /\ Flow'
        /\ chunk' = <<>> <=> n = 0
        /\ n = Len(spool) => spool' = <<>>
    BY <2>1, <2>2, <2>3, ReadKeepsFlow
  <2>5. n \in Nat
    BY <1>2, <2>1
  <2>6. chunk' # <<>> <=> pc' = "deliver"
    BY <2>1, <2>4, <2>5
  <2>7. pc = "final" => ended
    BY <1>3 DEF InputOrder
  <2>8. finished' => ended' /\ produced' = Terminal /\ spool' = <<>>
    BY <2>1, <2>2, <2>4, <2>7
  <2>9. pc' \in {"flush", "leave", "done"} => finished'
    BY <2>1, <2>5
  <2>. QED BY <1>3, <2>2, <2>4, <2>6, <2>8, <2>9 DEF OutputOrder
<1>7. CASE DeliverChunk
  <2>1. /\ dst' = dst \o chunk /\ chunk' = <<>>
        /\ pc = "deliver" /\ pc' \in {"drain", "flush", "final"}
        /\ pc' = "flush" => finished
        /\ UNCHANGED <<spool, produced, finished, ended>>
    BY <1>7 DEF DeliverChunk, libraryVars
  <2>2. Flow
    BY <1>3, <2>1 DEF OutputOrder
  <2>3. /\ Len(dst') = Len(dst) + Len(chunk)
        /\ \A i \in 1..(Len(dst) + Len(chunk)) :
                dst'[i] = IF i <= Len(dst) THEN dst[i] ELSE chunk[i - Len(dst)]
    BY <1>1, <2>1, ConcatProperties
  <2>4. \A i \in 1..Len(dst') : dst'[i] = i
    <3>. SUFFICES ASSUME NEW i \in 1..(Len(dst) + Len(chunk)) PROVE dst'[i] = i
      BY <2>3
    <3>1. CASE i <= Len(dst)
      BY <1>2, <1>3, <2>3, <3>1 DEF OutputOrder
    <3>2. CASE i > Len(dst)
      <4>1. i - Len(dst) \in 1..Len(chunk)
        BY <1>2, <3>2
      <4>2. chunk[i - Len(dst)] = Len(dst) + (i - Len(dst))
        BY <2>2, <4>1 DEF Flow
      <4>. QED BY <1>2, <2>3, <3>2, <4>2
    <3>. QED BY <1>2, <3>1, <3>2
  <2>5. Len(dst') + Len(chunk') + Len(spool') = produced' /\ Len(dst') <= produced'
    BY <1>1, <1>2, <2>1, <2>2, <2>3 DEF Flow
  <2>6. \A i \in 1..Len(spool') : spool'[i] = Len(dst') + Len(chunk') + i
    BY <1>2, <2>1, <2>2, <2>3 DEF Flow
  <2>7. Flow'
    BY <1>2, <2>1, <2>5, <2>6 DEF Flow
  <2>. QED BY <1>3, <2>1, <2>4, <2>5, <2>7 DEF OutputOrder
<1>8. CASE CallRaises \/ Interrupted
  <2>1. /\ pc' = "unwind" /\ chunk' = <<>>
        /\ UNCHANGED <<spool, produced, finished, ended>>
        /\ pc \notin {"unwind", "raised"}
    BY <1>8 DEF CallRaises, Interrupted, Unwind, libraryVars
  <2>2. \/ dst' = dst
        \/ \E n \in 0..Len(chunk) : dst' = dst \o SubSeq(chunk, 1, n)
    BY <1>8 DEF CallRaises, Interrupted, Unwind
  <2>3. Flow /\ (\A i \in 1..Len(dst) : dst[i] = i) /\ Len(dst) <= produced
    BY <1>3, <2>1 DEF OutputOrder
  <2>4. (\A i \in 1..Len(dst') : dst'[i] = i) /\ Len(dst') <= produced'
    <3>1. CASE dst' = dst
      BY <2>1, <2>3, <3>1
    <3>2. ASSUME NEW n \in 0..Len(chunk), dst' = dst \o SubSeq(chunk, 1, n)
          PROVE  (\A i \in 1..Len(dst') : dst'[i] = i) /\ Len(dst') <= produced'
      <4>1. /\ Len(dst') = Len(dst) + n
            /\ \A i \in 1..(Len(dst) + n) :
                dst'[i] = IF i <= Len(dst) THEN dst[i] ELSE chunk[i - Len(dst)]
        BY <1>1, <3>2, Join
      <4>2. \A i \in 1..Len(dst') : dst'[i] = i
        <5>. SUFFICES ASSUME NEW i \in 1..(Len(dst) + n) PROVE dst'[i] = i
          BY <4>1
        <5>1. CASE i <= Len(dst)
          BY <1>2, <2>3, <4>1, <5>1
        <5>2. CASE i > Len(dst)
          <6>1. i - Len(dst) \in 1..Len(chunk)
            BY <1>2, <5>2
          <6>2. chunk[i - Len(dst)] = Len(dst) + (i - Len(dst))
            BY <2>3, <6>1 DEF Flow
          <6>. QED BY <1>2, <4>1, <5>2, <6>2
        <5>. QED BY <1>2, <5>1, <5>2
      <4>3. Len(dst) + Len(chunk) + Len(spool) = produced
        BY <2>3 DEF Flow
      <4>. QED BY <1>1, <1>2, <2>1, <4>1, <4>2, <4>3
    <3>. QED BY <2>2, <3>1, <3>2
  <2>. QED BY <1>3, <2>1, <2>4 DEF OutputOrder
<1>9. CASE ChainProduces
  <2>1. /\ produced' = produced + 1 /\ spool' = Append(spool, produced + 1)
        /\ UNCHANGED <<dst, chunk, pc, finished, ended>>
        /\ produced + 1 \in Units
    BY <1>1, <1>3, <1>9, StreamAssumption
       DEF ChainProduces, callerVars, InputOrder, Backlog, Units, Terminal,
           IInv, TypeOK
  <2>2. ~finished
    BY <1>1, <1>3, <2>1, StreamAssumption DEF OutputOrder, Units, Terminal
  <2>3. /\ Len(spool') = Len(spool) + 1
        /\ \A i \in 1..Len(spool) : spool'[i] = spool[i]
        /\ spool'[Len(spool) + 1] = produced + 1
    BY <1>1, <2>1, AppendProperties
  <2>4. ASSUME Flow PROVE Flow'
    <3>0. Len(dst) + Len(chunk) + Len(spool) = produced
      BY <2>4 DEF Flow
    <3>. HIDE <2>4
    <3>1. Len(dst') + Len(chunk') + Len(spool') = produced'
      <4>1. dst' = dst /\ chunk' = chunk
        BY <2>1
      <4>2. Len(dst) + Len(chunk) + (Len(spool) + 1) = produced + 1
        BY ONLY <1>2, <3>0
      <4>. QED BY <2>1, <2>3, <4>1, <4>2
    <3>2. ASSUME NEW i \in 1..(Len(spool) + 1)
          PROVE  spool'[i] = Len(dst) + Len(chunk) + i
      <4>1. CASE i \in 1..Len(spool)
        BY <2>3, <2>4, <4>1 DEF Flow
      <4>2. CASE i = Len(spool) + 1
        <5>1. Len(dst) + Len(chunk) + i = produced + 1
          BY ONLY <1>2, <3>0, <4>2
        <5>. QED BY <2>3, <4>2, <5>1
      <4>. QED BY <1>2, <4>1, <4>2
    <3>. QED BY <2>1, <2>3, <2>4, <3>1, <3>2 DEF Flow
  <2>5. Len(dst') <= produced'
    BY <1>1, <1>2, <1>3, <2>1 DEF OutputOrder
  <2>. QED BY <1>3, <2>1, <2>2, <2>4, <2>5 DEF OutputOrder
<1>. QED BY <1>5, <1>6, <1>7, <1>8, <1>9 DEF Next, CallerStep

\* Every step keeps what the pump holds bounded (stream.py:91-106).
LEMMA BoundedStep ==
    ASSUME IInv, Next
    PROVE  Bounded'
<1>. USE StreamAssumption DEF GoTo
<1>1. /\ chunk \in Seq(Units) /\ spool \in Seq(Units) /\ dst \in Seq(Units)
      /\ produced \in Nat /\ accepted \in Nat
  BY DEF IInv, TypeOK, Units, Terminal
<1>2. Len(chunk) \in Nat /\ Len(dst) \in Nat
  BY <1>1, LenProperties
<1>3. Bounded /\ OutputOrder
  BY DEF IInv
<1>4. Len(dst') \in Nat /\ Len(dst') >= Len(dst)
  <2>1. CASE dst' = dst
    BY <1>2, <2>1
  <2>2. CASE DeliverChunk
    BY <1>1, <1>2, <2>2, ConcatProperties DEF DeliverChunk
  <2>3. ASSUME NEW n \in 0..Len(chunk), dst' = dst \o SubSeq(chunk, 1, n)
        PROVE  Len(dst') \in Nat /\ Len(dst') >= Len(dst)
    <3>1. Len(dst') = Len(dst) + n
      BY <1>1, <2>3, Join
    <3>. QED BY <1>2, <3>1
  <2>4. CASE CallRaises \/ Interrupted
    BY <2>1, <2>3, <2>4 DEF CallRaises, Interrupted, Unwind
  <2>. QED BY <2>1, <2>2, <2>4
       DEF Next, CallerStep, Begin, BeginRaises, ReadSource, Write, DrainRead,
           EndEarly, End, FinalRead, Flush, Leave, DropSession, ChainProduces,
           ChainFails, DropParent, CollectParent, FreeParent, callerVars
<1>5. ASSUME UNCHANGED <<drive, accepted>>, produced' \in Nat, produced' >= produced,
             pc' \in {"begin", "source", "write"} =>
                pc \in {"begin", "source", "write"}
      PROVE  Bounded'
  <2>1. drive' = drive /\ accepted' = accepted
    BY <1>5
  <2>2. accepted - produced' <= Capacity
    <3>1. accepted - produced <= Capacity
      BY <1>3 DEF Bounded, Backlog
    <3>2. produced' \in Int /\ produced' >= produced
      BY <1>5
    <3>3. accepted \in Int /\ produced \in Int /\ Capacity \in Int
      BY <1>1
    <3>4. \A q \in Int : q >= produced => accepted - q <= Capacity
      BY <3>1, <3>3
    <3>. QED BY <3>2, <3>4
  <2>3. drive = "pump" => accepted - Len(dst') <= Capacity + 1
    BY <1>1, <1>2, <1>3, <1>4 DEF Bounded, HeldBounded
  <2>4. drive = "pump" /\ pc' \in {"begin", "source", "write"} =>
            accepted - Len(dst') <= Capacity
    BY <1>1, <1>2, <1>3, <1>4, <1>5 DEF Bounded
  <2>. QED BY <2>1, <2>2, <2>3, <2>4 DEF Bounded, HeldBounded, Backlog
<1>6. CASE Write
  BY <1>1, <1>2, <1>3, <1>6
     DEF Write, AfterWrite, Bounded, HeldBounded, Backlog, objectVars
<1>7. CASE DrainRead
  <2>1. CASE pc' = "source"
    <3>1. spool = <<>> /\ chunk = <<>> /\ Flow
      BY <1>1, <1>3, <1>7, <2>1 DEF DrainRead, Take, OutputOrder
    <3>2. Len(dst) = produced
      BY <1>1, <1>2, <3>1, EmptySeq DEF Flow
    <3>. QED BY <1>1, <1>2, <1>3, <1>7, <3>2
         DEF DrainRead, Bounded, HeldBounded, Backlog
  <2>2. CASE pc' # "source"
    BY <1>1, <1>5, <1>7, <2>2 DEF DrainRead
  <2>. QED BY <2>1, <2>2
<1>8. CASE \/ Begin \/ BeginRaises \/ ReadSource \/ EndEarly \/ End \/ FinalRead
           \/ DeliverChunk \/ Flush \/ CallRaises \/ Interrupted \/ Leave
           \/ DropSession \/ ChainProduces \/ ChainFails \/ DropParent
           \/ CollectParent \/ FreeParent
  <2>1. /\ UNCHANGED <<drive, accepted>>
        /\ produced' = produced \/ produced' = produced + 1
        /\ pc' \in {"begin", "source", "write"} =>
                pc \in {"begin", "source", "write"}
    BY <1>8
       DEF Begin, BeginRaises, ReadSource, EndEarly, End, FinalRead, AfterRead,
           DeliverChunk, Flush, CallRaises, Interrupted, Unwind, Leave,
           DropSession, ChainProduces, ChainFails, DropParent, CollectParent,
           FreeParent, callerVars, libraryVars
  <2>. QED BY <1>1, <1>5, <2>1
<1>. QED BY <1>6, <1>7, <1>8 DEF Next, CallerStep

\* Every step keeps the types: the source is not read past its end, and the
\* chain makes no more units than there are (stream.py:82-114).
LEMMA TypeStep ==
    ASSUME IInv, Next
    PROVE  TypeOK'
<1>. USE StreamAssumption DEF GoTo, Labels
<1>1. /\ TypeOK /\ InputOrder /\ Lifetime /\ OutputOrder
      /\ chunk \in Seq(Units) /\ spool \in Seq(Units) /\ dst \in Seq(Units)
  BY DEF IInv, TypeOK, Units
<1>2. CASE Begin \/ BeginRaises \/ ReadSource \/ EndEarly \/ End
  <2>1. CASE Begin
    BY <1>1, <2>1 DEF TypeOK, Begin, callerVars, objectVars, libraryVars,
                      parentVars
  <2>2. CASE BeginRaises
    BY <1>1, <2>2 DEF TypeOK, BeginRaises, callerVars, objectVars, libraryVars,
                      parentVars
  <2>3. CASE ReadSource
    BY <1>1, <2>3
       DEF TypeOK, ReadSource, More, callerVars, objectVars, libraryVars,
                      parentVars
  <2>4. CASE EndEarly
    BY <1>1, <2>4 DEF TypeOK, EndEarly, callerVars, objectVars, libraryVars,
                      parentVars
  <2>5. CASE End
    BY <1>1, <2>5, ZenonT(30) DEF TypeOK, End, callerVars, objectVars,
                                libraryVars, parentVars
  <2>. QED BY <1>2, <2>1, <2>2, <2>3, <2>4, <2>5
<1>3. CASE Write
  BY <1>1, <1>3
     DEF TypeOK, InputOrder, Write, AfterWrite, objectVars, parentVars
<1>4. CASE DrainRead \/ FinalRead
  <2>1. PICK n \in 0..Len(spool) : Take(n)
    BY <1>4 DEF DrainRead, FinalRead
  <2>2. chunk' \in Seq(Units) /\ spool' \in Seq(Units)
    BY <1>1, <2>1, Cut DEF Take, Unread
  <2>3. pc' \in Labels /\ finished' \in BOOLEAN
    BY <1>4 DEF DrainRead, FinalRead, AfterRead
  <2>4. UNCHANGED <<drive, taken, dst, objectVars, parentVars, session, frees, ended,
                    broken, accepted, produced>>
    BY <1>4 DEF DrainRead, FinalRead
  <2>. QED BY <1>1, <2>2, <2>3, <2>4 DEF TypeOK, Units, objectVars, parentVars
<1>5. CASE DeliverChunk
  <2>1. dst' \in Seq(Units) /\ chunk' \in Seq(Units)
    BY <1>1, <1>5, ConcatProperties, EmptySeq DEF DeliverChunk
  <2>. QED BY <1>1, <1>5, <2>1
       DEF TypeOK, Units, DeliverChunk, objectVars, libraryVars, parentVars
<1>6. CASE CallRaises \/ Interrupted
  <2>1. \/ dst' = dst
        \/ \E n \in 0..Len(chunk) : dst' = dst \o SubSeq(chunk, 1, n)
    BY <1>6 DEF CallRaises, Interrupted, Unwind
  <2>2. dst' \in Seq(Units) /\ chunk' \in Seq(Units)
    <3>1. chunk' = <<>>
      BY <1>6 DEF CallRaises, Interrupted, Unwind
    <3>2. ASSUME NEW n \in 0..Len(chunk) PROVE dst \o SubSeq(chunk, 1, n) \in Seq(Units)
      BY <1>1, Join
    <3>. QED BY <1>1, <2>1, <3>1, <3>2, EmptySeq
  <2>3. /\ pc' = "unwind"
        /\ UNCHANGED <<drive, taken, finished, objectVars, libraryVars, parentVars>>
    BY <1>6 DEF CallRaises, Interrupted, Unwind
  <2>. QED BY <1>1, <2>2, <2>3
              DEF TypeOK, Units, objectVars, libraryVars, parentVars
<1>7. CASE Flush \/ Leave \/ DropSession
  <2>1. CASE Flush
    BY <1>1, <2>1 DEF TypeOK, Flush, callerVars, objectVars, libraryVars,
                      parentVars
  <2>2. CASE Leave
    BY <1>1, <2>2
       DEF TypeOK, Lifetime, Leave, Free, Forget, callerVars, objectVars,
           libraryVars, parentVars
  <2>3. CASE DropSession
    BY <1>1, <2>3
       DEF TypeOK, Lifetime, DropSession, Free, Forget, callerVars, objectVars,
           libraryVars, parentVars
  <2>. QED BY <1>7, <2>1, <2>2, <2>3
<1>8. CASE ChainProduces
  <2>1. produced' = produced + 1 /\ produced + 1 \in Units
    BY <1>1, <1>8
       DEF ChainProduces, InputOrder, Backlog, Units, Terminal, TypeOK
  <2>2. spool' \in Seq(Units)
    BY <1>1, <1>8, <2>1, AppendProperties DEF ChainProduces
  <2>. QED BY <1>1, <1>8, <2>1, <2>2
       DEF TypeOK, Units, Terminal, ChainProduces, callerVars, objectVars,
           parentVars
<1>9. CASE ChainFails \/ DropParent \/ CollectParent \/ FreeParent
  <2>1. CASE ChainFails
    BY <1>1, <2>1 DEF TypeOK, ChainFails, callerVars, objectVars, libraryVars,
                      parentVars
  <2>2. CASE DropParent
    <3>1. /\ owned' \in BOOLEAN
          /\ UNCHANGED <<parent, parentFreed, callerVars, objectVars, libraryVars>>
      BY <2>2 DEF DropParent
    <3>. QED BY <1>1, <3>1 DEF TypeOK, callerVars, objectVars, libraryVars
  <2>3. CASE CollectParent
    BY <1>1, <2>3
       DEF TypeOK, CollectParent, callerVars, objectVars, libraryVars,
                      parentVars
  <2>4. CASE FreeParent
    BY <1>1, <2>4 DEF TypeOK, FreeParent, callerVars, objectVars, libraryVars,
                      parentVars
  <2>. QED BY <1>9, <2>1, <2>2, <2>3, <2>4
<1>. QED BY <1>2, <1>3, <1>4, <1>5, <1>6, <1>7, <1>8, <1>9 DEF Next, CallerStep

\* The inductive invariant holds in every state of every behaviour.
LEMMA InductiveInvariant == Spec => []IInv
<1>1. IInv /\ [Next]_vars => IInv'
  <2>. SUFFICES ASSUME IInv, [Next]_vars PROVE IInv'
    OBVIOUS
  <2>1. CASE Next
    BY <2>1, TypeStep, LifetimeStep, InputStep, OutputStep, BoundedStep DEF IInv
  <2>2. CASE UNCHANGED vars
    BY <2>2 DEF IInv, TypeOK, Lifetime, PinHolds, InputOrder, OutputOrder, Flow,
                Bounded, Backlog, HeldBounded, vars, callerVars, objectVars,
                libraryVars, parentVars
  <2>. QED BY <2>1, <2>2
<1>. QED BY InitIInv, <1>1, PTL DEF Spec

\* The pump, its session and its parent keep their types, for a source of any
\* length (stream.py:32-137).
THEOREM TypeCorrect == Spec => []TypeOK
BY InductiveInvariant, PTL DEF IInv

\* Whatever way the with block is left, the session it opened is released,
\* once (stream.py:116-145).
THEOREM Released == Spec => []SessionReleased
<1>1. IInv => SessionReleased
  BY DEF IInv, TypeOK, Lifetime, SessionReleased
<1>. QED BY InductiveInvariant, <1>1, PTL

\* No collection takes the parent from under a session (stream.py:33-39).
THEOREM Pin == Spec => []PinHolds
<1>1. IInv => PinHolds
  BY DEF IInv, Lifetime
<1>. QED BY InductiveInvariant, <1>1, PTL

\* The pump holds what the chain can take and one slice, however long the
\* source (stream.py:91-94).
THEOREM Held == Spec => []HeldBounded
<1>1. IInv => HeldBounded
  BY DEF IInv, Bounded
<1>. QED BY InductiveInvariant, <1>1, PTL
-----------------------------------------------------------------------------
(* The refinement of BytePump. *)

Status == IF pc \in {"done", "raised"} THEN pc ELSE "running"

\* A destination whose units are in order holds a prefix of the transform
\* (stream.py:91-94).
LEMMA Prefix ==
    ASSUME NEW d \in Seq(Units), \A i \in 1..Len(d) : d[i] = i,
           Len(d) <= Terminal
    PROVE  d = SubSeq(Promise!Expected, 1, Len(d))
<1>. DEFINE p == SubSeq(Promise!Expected, 1, Len(d))
<1>1. Len(d) \in Nat /\ Terminal \in Nat
  BY LenProperties, StreamAssumption DEF Terminal
<1>2. \A i \in 1..Len(d) : Promise!Expected[i] = i /\ i \in Units
  BY <1>1 DEF Promise!Expected, Promise!Terminal, Terminal, Units
<1>3. /\ p \in Seq(Units)
      /\ Len(p) = Len(d)
      /\ \A i \in 1..Len(d) : p[i] = i
  <2>1. \A i \in 1..Len(d) : Promise!Expected[i] \in Units
    BY <1>2
  <2>2. /\ p \in Seq(Units)
        /\ Len(p) = IF 1 <= Len(d) THEN Len(d) - 1 + 1 ELSE 0
        /\ \A i \in 1..(Len(d) - 1 + 1) : p[i] = Promise!Expected[1 + i - 1]
    BY <1>1, <2>1, SubSeqProperties
  <2>. QED BY <1>1, <1>2, <2>2
<1>. HIDE DEF p
<1>4. d = p
  BY <1>3, SeqEqual
<1>. QED BY <1>4 DEF p

\* A destination that grew, in order, has taken a delivery.
LEMMA Delivery ==
    ASSUME IInv, Next, Status = "running", Status' = "running",
           Len(dst') > Len(dst)
    PROVE  Promise!Deliver
<1>1. OutputOrder' /\ TypeOK' /\ Len(dst') \in Nat
  BY OutputStep, TypeStep, LenProperties DEF TypeOK
<1>2. dst' \in Seq(Units) /\ Len(dst') <= Terminal
  BY <1>1, LenProperties, StreamAssumption
     DEF TypeOK, Units, Terminal, OutputOrder
<1>3. dst' = SubSeq(Promise!Expected, 1, Len(dst'))
  BY <1>1, <1>2, Prefix DEF OutputOrder
<1>4. Len(dst') \in 1..Terminal /\ Terminal = Promise!Terminal
  <2>1. Len(dst) \in Nat
    BY LenProperties DEF IInv, TypeOK
  <2>. QED BY <1>1, <1>2, <2>1, StreamAssumption DEF Terminal, Promise!Terminal
<1>. QED BY <1>3, <1>4 DEF Promise!Deliver, Status

\* Nothing has been delivered to begin with.
LEMMA InitSimulated == Init => Promise!PumpInit
BY DEF Init, Promise!PumpInit

\* Every step of the session delivers, completes, raises, or is none of the
\* caller's business.
LEMMA StepSimulated ==
    ASSUME IInv, [Next]_vars
    PROVE  [Promise!PumpNext]_(<<dst, Status>>)
<1>. USE DEF Status, GoTo
<1>0. dst \in Seq(Units) /\ chunk \in Seq(Units) /\ OutputOrder /\ Lifetime
  BY DEF IInv, TypeOK, Units
<1>1. CASE UNCHANGED vars
  BY <1>1 DEF vars, callerVars
<1>2. CASE \/ Begin \/ ReadSource \/ Write \/ DrainRead \/ EndEarly \/ End
           \/ FinalRead \/ Flush
  BY <1>2 DEF Begin, ReadSource, Write, AfterWrite, DrainRead, EndEarly, End,
              FinalRead, AfterRead, Flush, callerVars
<1>3. CASE \/ ChainProduces \/ ChainFails \/ DropSession \/ DropParent
           \/ CollectParent \/ FreeParent
  BY <1>3 DEF ChainProduces, ChainFails, DropSession, DropParent, CollectParent,
              FreeParent, callerVars
<1>4. CASE BeginRaises
  BY <1>4 DEF BeginRaises, Promise!PumpNext, Promise!Raise
<1>5. CASE DeliverChunk
  <2>1. Next /\ Status = "running" /\ Status' = "running"
    BY <1>5 DEF DeliverChunk, Next, CallerStep
  <2>2. chunk # <<>> /\ Len(dst') = Len(dst) + Len(chunk)
    BY <1>0, <1>5, ConcatProperties DEF DeliverChunk, OutputOrder
  <2>3. Len(dst') > Len(dst)
    BY <1>0, <2>2, EmptySeq, LenProperties
  <2>. QED BY <2>1, <2>3, Delivery DEF Promise!PumpNext
<1>6. CASE CallRaises \/ Interrupted
  <2>1. Next /\ Status = "running" /\ Status' = "running"
    BY <1>6 DEF CallRaises, Interrupted, Unwind, Next, CallerStep
  <2>2. CASE dst' = dst
    BY <2>1, <2>2
  <2>3. ASSUME NEW n \in 0..Len(chunk), dst' = dst \o SubSeq(chunk, 1, n)
        PROVE  dst' = dst \/ Promise!PumpNext
    <3>1. CASE n = 0
      BY <1>0, <2>3, <3>1, SubSeqEmpty, ConcatEmptySeq
    <3>2. CASE n > 0
      <4>1. Len(dst') = Len(dst) + n
        BY <1>0, <2>3, Join
      <4>2. Len(dst') > Len(dst)
        BY <1>0, <3>2, <4>1, LenProperties
      <4>. QED BY <2>1, <4>2, Delivery DEF Promise!PumpNext
    <3>. QED BY <1>0, <3>1, <3>2, LenProperties
  <2>4. dst' = dst \/ \E n \in 0..Len(chunk) : dst' = dst \o SubSeq(chunk, 1, n)
    BY <1>6 DEF CallRaises, Interrupted, Unwind
  <2>. QED BY <2>1, <2>2, <2>3, <2>4
<1>7. CASE Leave
  <2>1. CASE pc = "leave"
    <3>1. finished /\ Len(dst) = Terminal
      BY <1>0, <2>1, LenProperties, EmptySeq DEF OutputOrder, Flow
    <3>2. dst = SubSeq(Promise!Expected, 1, Terminal)
      BY <1>0, <3>1, Prefix, StreamAssumption DEF OutputOrder, Terminal
    <3>3. SubSeq(Promise!Expected, 1, Terminal) = Promise!Expected
      <4>1. Promise!Expected \in Seq(Units) /\ Len(Promise!Expected) = Terminal
        BY StreamAssumption
           DEF Promise!Expected, Promise!Terminal, Terminal, Units
      <4>. QED BY <4>1, SubSeqFull
    <3>. QED BY <1>7, <2>1, <3>2, <3>3
         DEF Leave, Promise!PumpNext, Promise!Complete
  <2>2. CASE pc = "unwind"
    BY <1>7, <2>2 DEF Leave, Promise!PumpNext, Promise!Raise
  <2>. QED BY <1>7, <2>1, <2>2 DEF Leave
<1>. QED BY <1>1, <1>2, <1>3, <1>4, <1>5, <1>6, <1>7 DEF Next, CallerStep

\* For a source of any length, the pump delivers the transform in order and
\* without a gap, and returns normally only with all of it delivered (that it
\* comes back at all is checked by TLC).
THEOREM Refinement == Spec => Promise!PumpSteps
BY InitSimulated, StepSimulated, InductiveInvariant, PTL
   DEF Spec, Promise!PumpSteps, Promise!pumpVars, Status
=============================================================================
