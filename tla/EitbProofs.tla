------------------------------ MODULE EitbProofs ------------------------------
(***************************************************************************)
(* What exit status 0 of the eitb command line promises, for every set of  *)
(* paths and texts and for any number of processes.  The invariant says    *)
(* what a process has in hand at each statement it may have reached.       *)
(***************************************************************************)
EXTENDS Eitb, SequenceTheorems, TLAPS

\* Session k sealed what this process has read, under the profile it was given.
SealedHere(k) ==
    /\ k \in 1..Len(sealed)
    /\ sealed[k].bytes = source /\ sealed[k].profile = cmd.profile

\* What made is worth to a decryption: under a MAC it is the wire's own text.
Verified == sealed[cmd.blob].profile.mac =>
    source = cmd.blob /\ made = sealed[source].bytes

EncryptFits == cmd.verb = "encrypt" =>
    /\ at <= 3 => Len(sealed) < MaxSessions
    /\ at > 2 => source \in Bytes
    /\ at \in 4..8 => SealedHere(pipe)
    /\ at \in 5..8 => made = pipe
    /\ at > 4 => SealedHere(made)
    /\ at > 6 => files[cmd.out] = made
    /\ at > 7 => made \in terminal

DecryptFits == cmd.verb = "decrypt" =>
    /\ cmd.blob \in terminal \union {0}
    /\ at > 2 => cmd.blob # 0
    /\ at > 3 => source \in Bytes
    /\ at \in 5..6 => pipe = cmd.blob
    /\ at > 5 => made \in Bytes /\ Verified
    /\ at > 8 => files[cmd.out] = made

InHand == Running => at > 0 /\ EncryptFits /\ DecryptFits

IInv == TypeOK /\ InHand /\ SuccessIsOpenable
-----------------------------------------------------------------------------
\* Where in an encryption each statement stands.
LEMMA EncryptPlaces ==
    ASSUME Running, at \in Nat, at > 0, cmd.verb = "encrypt"
    PROVE  /\ Len(Steps) = 9 /\ ~Step("blob") /\ ~Step("load") /\ ~Step("decrypt")
           /\ (Step("caps") => at = 1) /\ (Step("read") => at = 2)
           /\ (Step("init") => at = 3) /\ (Step("encrypt") => at = 4)
           /\ (Step("mkdir") => at = 5) /\ (Step("write") => at = 6)
           /\ (Step("save") => at = 7) /\ (Step("free") => at = 8)
           /\ (Step("report") => at = 9)
<1>1. Steps = EncryptSteps
  BY DEF Steps
<1>2. Len(Steps) = 9
  BY <1>1 DEF EncryptSteps
<1>3. ASSUME NEW name, Step(name) PROVE at \in 1..9 /\ EncryptSteps[at] = name
  BY <1>1, <1>2, <1>3 DEF Step
<1>. QED BY <1>2, <1>3 DEF EncryptSteps

\* Where in a decryption each statement stands.
LEMMA DecryptPlaces ==
    ASSUME Running, at \in Nat, at > 0, cmd.verb = "decrypt"
    PROVE  /\ Len(Steps) = 9 /\ ~Step("init") /\ ~Step("encrypt") /\ ~Step("save")
           /\ (Step("caps") => at = 1) /\ (Step("blob") => at = 2)
           /\ (Step("read") => at = 3) /\ (Step("load") => at = 4)
           /\ (Step("decrypt") => at = 5) /\ (Step("free") => at = 6)
           /\ (Step("mkdir") => at = 7) /\ (Step("write") => at = 8)
           /\ (Step("report") => at = 9)
<1>1. Steps = DecryptSteps
  BY DEF Steps
<1>2. Len(Steps) = 9
  BY <1>1 DEF DecryptSteps
<1>3. ASSUME NEW name, Step(name) PROVE at \in 1..9 /\ DecryptSteps[at] = name
  BY <1>1, <1>2, <1>3 DEF Step
<1>. QED BY <1>2, <1>3 DEF DecryptSteps

\* The other commands have no statement that opens a session or a file.
LEMMA OtherPlaces ==
    ASSUME Running, at \in Nat, at > 0, cmd.verb # "encrypt", cmd.verb # "decrypt"
    PROVE  /\ Len(Steps) = 2
           /\ ~Step("blob") /\ ~Step("read") /\ ~Step("init") /\ ~Step("load")
           /\ ~Step("encrypt") /\ ~Step("decrypt") /\ ~Step("mkdir")
           /\ ~Step("write") /\ ~Step("save") /\ ~Step("free")
<1>1. Steps = <<"caps", "report">>
  BY DEF Steps
<1>2. ASSUME NEW name, Step(name) PROVE name \in {"caps", "report"}
  BY <1>1, <1>2 DEF Step
<1>. QED BY <1>1, <1>2

\* A command is of one of the verbs, and what it was given is of its kind.
LEMMA CommandShape ==
    ASSUME NEW c \in Commands
    PROVE  /\ c.verb \in {"encrypt", "decrypt", "show", "unknown"}
           /\ c.verb \in {"encrypt", "decrypt"} =>
                c.profile \in Profiles /\ c.in \in Files /\ c.out \in Files
           /\ c.blob \in 0..MaxSessions
<1>1. CASE c \in [verb : {"encrypt"}, profile : Profiles, in : Files, out : Files, blob : {0}]
  BY <1>1, EitbAssumption
<1>2. CASE c \in [verb : {"decrypt"}, profile : [streaming : BOOLEAN, mac : {TRUE}],
                  in : Files, out : Files, blob : 0..MaxSessions]
  BY <1>2 DEF Profiles
<1>3. CASE c \in [verb : {"show", "unknown"}, profile : {None}, in : {None},
                  out : {None}, blob : {0}]
  BY <1>3, EitbAssumption
<1>. QED BY <1>1, <1>2, <1>3 DEF Commands

\* No statement before the last is reached from beyond it.
LEMMA Bounded ==
    ASSUME TypeOK, Running, at > 0
    PROVE  Len(Steps) \in {2, 9} /\ \A name : Step(name) => at \in 1..9 /\ at <= Len(Steps)
<1>1. at \in Nat
  BY DEF TypeOK
<1>2. Len(Steps) \in {2, 9}
  BY <1>1, EncryptPlaces, DecryptPlaces, OtherPlaces
<1>. QED BY <1>1, <1>2 DEF Step
-----------------------------------------------------------------------------
LEMMA AtFirst == Init => IInv
<1>. SUFFICES ASSUME Init PROVE IInv
  OBVIOUS
<1>1. TypeOK
  BY EitbAssumption, EmptySeq DEF Init, TypeOK, Bytes
<1>. QED BY <1>1 DEF Init, IInv, InHand, Running, SuccessIsOpenable, Finished

\* A new process has nothing in hand yet.
LEMMA InvokeKeeps == ASSUME IInv, Invoke PROVE IInv'
<1>. USE DEF IInv
<1>1. PICK c \in Commands :
        /\ c.verb = "encrypt" => Len(sealed) < MaxSessions
        /\ c.verb = "decrypt" => decrypts < MaxDecrypts /\ c.blob \in terminal \union {0}
        /\ decrypts' = decrypts + (IF c.verb = "decrypt" THEN 1 ELSE 0)
        /\ \/ /\ last' = [cmd |-> c, code |-> 2, source |-> None]
              /\ UNCHANGED <<cmd, at>>
           \/ cmd' = c /\ at' = 1 /\ UNCHANGED last
  BY DEF Invoke
<1>2. ~Running /\ UNCHANGED <<files, terminal, sealed, source, made, pipe>>
  BY DEF Invoke
<1>3. TypeOK'
  <2>1. decrypts' \in 0..MaxDecrypts
    BY <1>1, EitbAssumption DEF TypeOK
  <2>2. cmd' \in Commands \union {None} /\ at' \in 0..11
    BY <1>1 DEF TypeOK
  <2>3. last' \in [cmd : Commands \union {None}, code : {0, 1, 2, 137},
                   source : Bytes \union {None}]
    BY <1>1 DEF TypeOK
  <2>. QED BY <1>2, <2>1, <2>2, <2>3 DEF TypeOK
<1>4. InHand'
  BY <1>1, <1>2 DEF InHand, EncryptFits, DecryptFits, Running
<1>5. SuccessIsOpenable'
  BY <1>1, <1>2 DEF SuccessIsOpenable, Finished, Running
<1>. QED BY <1>3, <1>4, <1>5

\* While a process runs nothing has been promised yet.
LEMMA RunningPromisesNothing ==
    ASSUME Running, UNCHANGED cmd
    PROVE  SuccessIsOpenable'
  BY DEF Running, SuccessIsOpenable, Finished

\* The step a statement takes along the list.
LEMMA AdvanceKeeps ==
    ASSUME TypeOK, InHand, NEW name, Step(name), Advance
    PROVE  /\ Running /\ Running' /\ cmd' = cmd /\ at' = at + 1 /\ at \in 1..9
           /\ at' \in 2..10 /\ last' = last
           /\ cmd \in Commands
<1>1. Running /\ at > 0
  BY DEF Step, InHand
<1>2. at \in 1..9
  BY <1>1, Bounded
<1>. QED BY <1>1, <1>2 DEF Advance, Running, TypeOK

LEMMA ProceedKeeps == ASSUME IInv, Proceed PROVE IInv'
<1>. USE DEF IInv
<1>1. PICK name \in {"caps", "mkdir", "report", "blob"} :
        Step(name) /\ (name = "blob" => cmd.blob # 0)
  BY DEF Proceed
<1>2. Advance /\ UNCHANGED <<files, terminal, sealed, decrypts, source, made, pipe>>
  BY DEF Proceed, worldVars
<1>3. /\ Running /\ Running' /\ cmd' = cmd /\ at' = at + 1 /\ at \in 1..9
      /\ at' \in 2..10 /\ last' = last /\ cmd \in Commands
  BY <1>1, <1>2, AdvanceKeeps
<1>4. TypeOK'
  BY <1>2, <1>3 DEF TypeOK
<1>5. EncryptFits'
  <2>. SUFFICES ASSUME cmd.verb = "encrypt" PROVE EncryptFits'
    BY <1>3 DEF EncryptFits
  <2>1. at \in {1, 5, 9}
    BY <1>1, <1>3, EncryptPlaces
  <2>. QED BY <1>2, <1>3, <2>1 DEF InHand, EncryptFits, SealedHere
<1>6. DecryptFits'
  <2>. SUFFICES ASSUME cmd.verb = "decrypt" PROVE DecryptFits'
    BY <1>3 DEF DecryptFits
  <2>1. at \in {1, 2, 7, 9} /\ (at = 2 => cmd.blob # 0)
    BY <1>1, <1>3, DecryptPlaces
  <2>. QED BY <1>2, <1>3, <2>1 DEF InHand, DecryptFits, Verified
<1>. QED BY <1>3, <1>4, <1>5, <1>6, RunningPromisesNothing DEF InHand

LEMMA ReadKeeps == ASSUME IInv, ReadInfile PROVE IInv'
<1>. USE DEF IInv
<1>1. /\ Step("read") /\ files[cmd.in] # None /\ source' = files[cmd.in] /\ Advance
      /\ UNCHANGED <<files, terminal, sealed, decrypts, made, pipe>>
  BY DEF ReadInfile, worldVars
<1>2. /\ Running /\ Running' /\ cmd' = cmd /\ at' = at + 1 /\ at \in 1..9
      /\ at' \in 2..10 /\ last' = last /\ cmd \in Commands
  BY <1>1, AdvanceKeeps
<1>3. (cmd.verb = "encrypt" /\ at = 2) \/ (cmd.verb = "decrypt" /\ at = 3)
  <2>1. CASE cmd.verb = "encrypt"
    BY <1>1, <1>2, <2>1, EncryptPlaces
  <2>2. CASE cmd.verb = "decrypt"
    BY <1>1, <1>2, <2>2, DecryptPlaces
  <2>3. CASE cmd.verb # "encrypt" /\ cmd.verb # "decrypt"
    BY <1>1, <1>2, <2>3, OtherPlaces
  <2>. QED BY <2>1, <2>2, <2>3
<1>4. source' \in Bytes
  BY <1>1, <1>2, <1>3, CommandShape DEF TypeOK
<1>5. TypeOK'
  BY <1>1, <1>2, <1>4 DEF TypeOK
<1>6. EncryptFits' /\ DecryptFits'
  BY <1>1, <1>2, <1>3, <1>4 DEF InHand, EncryptFits, DecryptFits
<1>. QED BY <1>2, <1>5, <1>6, RunningPromisesNothing DEF InHand

LEMMA InitKeeps == ASSUME IInv, InitPipe PROVE IInv'
<1>. USE DEF IInv
<1>. DEFINE seal == [bytes |-> source, profile |-> cmd.profile]
<1>1. /\ Step("init") /\ sealed' = Append(sealed, seal) /\ pipe' = Len(sealed') /\ Advance
      /\ UNCHANGED <<files, terminal, decrypts, source, made>>
  BY DEF InitPipe
<1>2. /\ Running /\ Running' /\ cmd' = cmd /\ at' = at + 1 /\ at \in 1..9
      /\ at' \in 2..10 /\ last' = last /\ cmd \in Commands
  BY <1>1, AdvanceKeeps
<1>3. cmd.verb = "encrypt" /\ at = 3
  BY <1>1, <1>2, EncryptPlaces, DecryptPlaces, OtherPlaces
<1>4. seal \in [bytes : Bytes, profile : Profiles] /\ Len(sealed) < MaxSessions
  BY <1>2, <1>3, CommandShape DEF InHand, EncryptFits
<1>5. /\ sealed' \in Seq([bytes : Bytes, profile : Profiles])
      /\ Len(sealed') = Len(sealed) + 1 /\ pipe' = Len(sealed) + 1 /\ sealed'[pipe'] = seal
      /\ Len(sealed) \in Nat
  BY <1>1, <1>4 DEF TypeOK
<1>6. TypeOK'
  <2>1. Len(sealed') <= MaxSessions /\ pipe' \in 0..Len(sealed')
    BY <1>4, <1>5, EitbAssumption
  <2>2. terminal' \subseteq 1..Len(sealed')
    BY <1>1, <1>5 DEF TypeOK
  <2>. QED BY <1>1, <1>2, <1>5, <2>1, <2>2 DEF TypeOK
<1>7. SealedHere(pipe)'
  BY <1>1, <1>2, <1>5 DEF SealedHere
<1>8. EncryptFits' /\ DecryptFits'
  BY <1>1, <1>2, <1>3, <1>7 DEF InHand, EncryptFits, DecryptFits
<1>. QED BY <1>2, <1>6, <1>8, RunningPromisesNothing DEF InHand

LEMMA LoadKeeps == ASSUME IInv, LoadPipe PROVE IInv'
<1>. USE DEF IInv
<1>1. /\ Step("load") /\ pipe' = cmd.blob /\ Advance
      /\ UNCHANGED <<files, terminal, sealed, decrypts, source, made>>
  BY DEF LoadPipe, worldVars
<1>2. /\ Running /\ Running' /\ cmd' = cmd /\ at' = at + 1 /\ at \in 1..9
      /\ at' \in 2..10 /\ last' = last /\ cmd \in Commands
  BY <1>1, AdvanceKeeps
<1>3. cmd.verb = "decrypt" /\ at = 4
  BY <1>1, <1>2, EncryptPlaces, DecryptPlaces, OtherPlaces
<1>4. cmd.blob \in 1..Len(sealed)
  <2>1. cmd.blob \in terminal
    BY <1>2, <1>3 DEF InHand, DecryptFits
  <2>. QED BY <2>1 DEF TypeOK
<1>5. TypeOK'
  BY <1>1, <1>2, <1>4 DEF TypeOK
<1>6. EncryptFits' /\ DecryptFits'
  BY <1>1, <1>2, <1>3 DEF InHand, EncryptFits, DecryptFits
<1>. QED BY <1>2, <1>5, <1>6, RunningPromisesNothing DEF InHand

LEMMA EncryptKeeps == ASSUME IInv, Encrypt PROVE IInv'
<1>. USE DEF IInv
<1>1. /\ Step("encrypt") /\ made' = pipe /\ Advance
      /\ UNCHANGED <<files, terminal, sealed, decrypts, source, pipe>>
  BY DEF Encrypt, worldVars
<1>2. /\ Running /\ Running' /\ cmd' = cmd /\ at' = at + 1 /\ at \in 1..9
      /\ at' \in 2..10 /\ last' = last /\ cmd \in Commands
  BY <1>1, AdvanceKeeps
<1>3. cmd.verb = "encrypt" /\ at = 4
  BY <1>1, <1>2, EncryptPlaces, DecryptPlaces, OtherPlaces
<1>4. SealedHere(pipe) /\ SealedHere(pipe)' /\ source \in Bytes
  BY <1>1, <1>2, <1>3 DEF InHand, EncryptFits, SealedHere
<1>5. SealedHere(made)'
  BY <1>1, <1>2, <1>4 DEF SealedHere
<1>6. TypeOK'
  <2>1. pipe \in 1..MaxSessions
    BY <1>4, EitbAssumption DEF SealedHere, TypeOK
  <2>. QED BY <1>1, <1>2, <2>1 DEF TypeOK, Bytes, Sessions
<1>7. EncryptFits' /\ DecryptFits'
  BY <1>1, <1>2, <1>3, <1>4, <1>5 DEF InHand, EncryptFits, DecryptFits
<1>. QED BY <1>2, <1>6, <1>7, RunningPromisesNothing DEF InHand

\* What the library gives back for a blob and some bytes.
LEMMA DecryptKeeps == ASSUME IInv, Decrypt PROVE IInv'
<1>. USE DEF IInv
<1>1. /\ Step("decrypt") /\ Advance
      /\ UNCHANGED <<files, terminal, sealed, decrypts, source, pipe>>
      /\ \/ source = pipe /\ made' = sealed[pipe].bytes
         \/ ~sealed[pipe].profile.mac /\ made' = Noise
  BY DEF Decrypt, worldVars
<1>2. /\ Running /\ Running' /\ cmd' = cmd /\ at' = at + 1 /\ at \in 1..9
      /\ at' \in 2..10 /\ last' = last /\ cmd \in Commands
  BY <1>1, AdvanceKeeps
<1>3. cmd.verb = "decrypt" /\ at = 5
  BY <1>1, <1>2, EncryptPlaces, DecryptPlaces, OtherPlaces
<1>4. pipe = cmd.blob /\ pipe \in 1..Len(sealed)
  <2>1. pipe = cmd.blob /\ pipe \in terminal
    BY <1>2, <1>3 DEF InHand, DecryptFits
  <2>. QED BY <2>1 DEF TypeOK
<1>5. sealed[pipe].bytes \in Bytes
  <2>1. sealed[pipe] \in [bytes : Bytes, profile : Profiles]
    BY <1>4, ElementOfSeq, ZenonT(30) DEF TypeOK
  <2>. QED BY <2>1
<1>6. made' \in Bytes /\ Verified'
  BY <1>1, <1>2, <1>4, <1>5 DEF Verified, Bytes
<1>7. TypeOK'
  BY <1>1, <1>2, <1>6 DEF TypeOK
<1>8. EncryptFits' /\ DecryptFits'
  BY <1>1, <1>2, <1>3, <1>4, <1>6 DEF InHand, EncryptFits, DecryptFits
<1>. QED BY <1>2, <1>7, <1>8, RunningPromisesNothing DEF InHand

LEMMA WriteKeeps == ASSUME IInv, WriteOutfile PROVE IInv'
<1>. USE DEF IInv
<1>1. /\ Step("write") /\ Advance /\ files' = [files EXCEPT ![cmd.out] = made]
      /\ UNCHANGED <<terminal, sealed, decrypts, source, made, pipe>>
  BY DEF WriteOutfile
<1>2. /\ Running /\ Running' /\ cmd' = cmd /\ at' = at + 1 /\ at \in 1..9
      /\ at' \in 2..10 /\ last' = last /\ cmd \in Commands
  BY <1>1, AdvanceKeeps
<1>3. (cmd.verb = "encrypt" /\ at = 6) \/ (cmd.verb = "decrypt" /\ at = 8)
  <2>1. CASE cmd.verb = "encrypt"
    BY <1>1, <1>2, <2>1, EncryptPlaces
  <2>2. CASE cmd.verb = "decrypt"
    BY <1>1, <1>2, <2>2, DecryptPlaces
  <2>3. CASE cmd.verb # "encrypt" /\ cmd.verb # "decrypt"
    BY <1>1, <1>2, <2>3, OtherPlaces
  <2>. QED BY <2>1, <2>2, <2>3
<1>4. files'[cmd.out] = made /\ files' \in [Files -> Bytes \union {None}]
  BY <1>1, <1>2, <1>3, CommandShape DEF TypeOK
<1>5. TypeOK'
  BY <1>1, <1>2, <1>4 DEF TypeOK
<1>6. EncryptFits'
  <2>. SUFFICES ASSUME cmd.verb = "encrypt", at = 6 PROVE EncryptFits'
    BY <1>2, <1>3 DEF EncryptFits
  <2>. QED BY <1>1, <1>2, <1>4 DEF InHand, EncryptFits, SealedHere
<1>7. DecryptFits'
  <2>. SUFFICES ASSUME cmd.verb = "decrypt", at = 8 PROVE DecryptFits'
    BY <1>2, <1>3 DEF DecryptFits
  <2>. QED BY <1>1, <1>2, <1>4 DEF InHand, DecryptFits, Verified
<1>. QED BY <1>2, <1>5, <1>6, <1>7, RunningPromisesNothing DEF InHand

LEMMA PrintKeeps == ASSUME IInv, PrintBlob PROVE IInv'
<1>. USE DEF IInv
<1>1. /\ Step("save") /\ Advance /\ terminal' = terminal \union {pipe}
      /\ UNCHANGED <<files, sealed, decrypts, source, made, pipe>>
  BY DEF PrintBlob
<1>2. /\ Running /\ Running' /\ cmd' = cmd /\ at' = at + 1 /\ at \in 1..9
      /\ at' \in 2..10 /\ last' = last /\ cmd \in Commands
  BY <1>1, AdvanceKeeps
<1>3. cmd.verb = "encrypt" /\ at = 7
  BY <1>1, <1>2, EncryptPlaces, DecryptPlaces, OtherPlaces
<1>4. SealedHere(pipe) /\ made = pipe
  BY <1>2, <1>3 DEF InHand, EncryptFits
<1>5. TypeOK'
  <2>1. terminal \subseteq 1..Len(sealed) /\ pipe \in 1..Len(sealed)
    BY <1>4 DEF TypeOK, SealedHere
  <2>2. terminal' \subseteq 1..Len(sealed)
    BY <1>1, <2>1
  <2>. QED BY <1>1, <1>2, <2>2 DEF TypeOK
<1>6. EncryptFits' /\ DecryptFits'
  BY <1>1, <1>2, <1>3, <1>4 DEF InHand, EncryptFits, DecryptFits, SealedHere
<1>. QED BY <1>2, <1>5, <1>6, RunningPromisesNothing DEF InHand

LEMMA FreeKeeps == ASSUME IInv, FreePipe PROVE IInv'
<1>. USE DEF IInv
<1>1. /\ Step("free") /\ Advance /\ pipe' = 0
      /\ UNCHANGED <<files, terminal, sealed, decrypts, source, made>>
  BY DEF FreePipe, worldVars
<1>2. /\ Running /\ Running' /\ cmd' = cmd /\ at' = at + 1 /\ at \in 1..9
      /\ at' \in 2..10 /\ last' = last /\ cmd \in Commands
  BY <1>1, AdvanceKeeps
<1>3. (cmd.verb = "encrypt" /\ at = 8) \/ (cmd.verb = "decrypt" /\ at = 6)
  <2>1. CASE cmd.verb = "encrypt"
    BY <1>1, <1>2, <2>1, EncryptPlaces
  <2>2. CASE cmd.verb = "decrypt"
    BY <1>1, <1>2, <2>2, DecryptPlaces
  <2>3. CASE cmd.verb # "encrypt" /\ cmd.verb # "decrypt"
    BY <1>1, <1>2, <2>3, OtherPlaces
  <2>. QED BY <2>1, <2>2, <2>3
<1>4. TypeOK'
  BY <1>1, <1>2 DEF TypeOK
<1>5. EncryptFits'
  <2>. SUFFICES ASSUME cmd.verb = "encrypt", at = 8 PROVE EncryptFits'
    BY <1>2, <1>3 DEF EncryptFits
  <2>. QED BY <1>1, <1>2 DEF InHand, EncryptFits, SealedHere
<1>6. DecryptFits'
  <2>. SUFFICES ASSUME cmd.verb = "decrypt", at = 6 PROVE DecryptFits'
    BY <1>2, <1>3 DEF DecryptFits
  <2>. QED BY <1>1, <1>2 DEF InHand, DecryptFits, Verified
<1>. QED BY <1>2, <1>4, <1>5, <1>6, RunningPromisesNothing DEF InHand

\* The end of a process keeps the kinds, and leaves a whole file alone unless
\* the write was under way.
LEMMA EndKeeps ==
    ASSUME IInv, NEW code \in {0, 1, 137}, Running, End(code),
           code = 0 => at > Len(Steps)
    PROVE  IInv'
<1>. USE DEF IInv
<1>1. /\ cmd' = None /\ at' = 0 /\ source' = None /\ made' = None /\ pipe' = 0
      /\ last' = [cmd |-> cmd, code |-> code, source |-> source]
      /\ files' = files \/ (Step("write") /\ files' = [files EXCEPT ![cmd.out] = Torn])
      /\ UNCHANGED <<terminal, sealed, decrypts>>
  BY DEF End
<1>2. at > 0 /\ at \in Nat /\ cmd \in Commands /\ EncryptFits /\ DecryptFits
  BY DEF InHand, Running, TypeOK
<1>3. TypeOK'
  <2>1. files' \in [Files -> Bytes \union {None}]
    BY <1>1 DEF TypeOK, Bytes
  <2>2. last' \in [cmd : Commands \union {None}, code : {0, 1, 2, 137},
                   source : Bytes \union {None}]
    BY <1>1 DEF TypeOK
  <2>. QED BY <1>1, <2>1, <2>2 DEF TypeOK
<1>4. SuccessIsOpenable'
  <2>. SUFFICES ASSUME code = 0, cmd.verb \in {"encrypt", "decrypt"} PROVE SuccessIsOpenable'
    BY <1>1 DEF SuccessIsOpenable, Finished
  <2>1. at > 9 /\ files' = files
    <3>1. at > Len(Steps)
      OBVIOUS
    <3>2. Len(Steps) = 9
      BY <1>2, EncryptPlaces, DecryptPlaces
    <3>. QED BY <1>1, <1>2, <3>1, <3>2 DEF Step
  <2>2. CASE cmd.verb = "encrypt"
    BY <1>1, <1>2, <2>1, <2>2 DEF EncryptFits, SealedHere, SuccessIsOpenable,
       Finished
  <2>3. CASE cmd.verb = "decrypt"
    BY <1>1, <1>2, <2>1, <2>3 DEF DecryptFits, Verified, SuccessIsOpenable,
       Finished
  <2>. QED BY <2>2, <2>3
<1>. QED BY <1>1, <1>3, <1>4 DEF InHand, Running

LEMMA StepsKeep == ASSUME IInv, [Next]_vars PROVE IInv'
<1>1. CASE UNCHANGED vars
  BY <1>1 DEF vars, worldVars, IInv, TypeOK, InHand, Running, EncryptFits,
              DecryptFits, SealedHere, Verified, SuccessIsOpenable, Finished
<1>2. CASE Succeed \/ Fail \/ Killed
  BY <1>2, EndKeeps DEF Succeed, Fail, Killed
<1>3. CASE Invoke \/ Proceed \/ ReadInfile \/ InitPipe \/ LoadPipe
  BY <1>3, InvokeKeeps, ProceedKeeps, ReadKeeps, InitKeeps, LoadKeeps
<1>4. CASE Encrypt \/ Decrypt \/ WriteOutfile \/ PrintBlob \/ FreePipe
  BY <1>4, EncryptKeeps, DecryptKeeps, WriteKeeps, PrintKeeps, FreeKeeps
<1>. QED BY <1>1, <1>2, <1>3, <1>4 DEF Next

LEMMA InvariantHolds == Spec => []IInv
<1>. QED BY AtFirst, StepsKeep, PTL DEF Spec

\* Every step of every process is at a statement of its command, with what
\* that statement needs in hand (eitb.py:76-126).
THEOREM TypeCorrect == Spec => []TypeOK
<1>1. IInv => TypeOK
  BY DEF IInv
<1>. QED BY <1>1, InvariantHolds, PTL

\* A process that ends with status 0 has left what it promised: an encryption
\* a whole wire and the blob of its session on the terminal, a decryption
\* under a MAC the text that was sealed (eitb.py:76-100, 127-130).
THEOREM StatusZeroIsKept == Spec => []SuccessIsOpenable
<1>1. IInv => SuccessIsOpenable
  BY DEF IInv
<1>. QED BY <1>1, InvariantHolds, PTL

\* An output file changes only once the cipher call has returned, to what it
\* returned or to a torn write of it (eitb.py:78-86, 92-99).
THEOREM CipherFirst == Spec => OutputOnlyFromCipher
<1>. DEFINE Changes == \A f \in Files : files'[f] # files[f] =>
        /\ f = cmd.out
        /\ files'[f] \in {Torn, made} /\ made # None
        /\ (cmd.verb = "decrypt" /\ sealed[cmd.blob].profile.mac) =>
                source = cmd.blob /\ made = sealed[source].bytes
<1>1. ASSUME IInv, Next PROVE Changes
  <2>1. CASE files' = files
    BY <2>1
  <2>2. CASE /\ Running /\ Step("write")
             /\ \E b \in {made, Torn} : files' = [files EXCEPT ![cmd.out] = b]
    <3>1. at > 0 /\ at \in Nat /\ EncryptFits /\ DecryptFits /\ None \notin Bytes
      BY <1>1, <2>2, EitbAssumption DEF IInv, InHand, TypeOK, Bytes, Sessions
    <3>2. CASE cmd.verb = "encrypt"
      <4>1. at = 6 /\ made \in 1..Len(sealed) /\ Len(sealed) <= MaxSessions /\ Len(sealed) \in Nat
        BY <1>1, <2>2, <3>1, <3>2, EncryptPlaces
           DEF EncryptFits, SealedHere, IInv, TypeOK
      <4>2. made \in Bytes
        BY <4>1, EitbAssumption DEF Bytes, Sessions
      <4>. QED BY <1>1, <2>2, <3>1, <3>2, <4>2 DEF IInv, TypeOK
    <3>3. CASE cmd.verb = "decrypt"
      <4>1. made \in Bytes /\ Verified
        BY <2>2, <3>1, <3>3, DecryptPlaces DEF DecryptFits
      <4>. QED BY <1>1, <2>2, <3>1, <3>3, <4>1 DEF IInv, TypeOK, Verified
    <3>. QED BY <2>2, <3>1, <3>2, <3>3, OtherPlaces
  <2>. QED
    BY <1>1, <2>1, <2>2
       DEF Next, Invoke, Proceed, ReadInfile, InitPipe, LoadPipe, Encrypt,
           Decrypt, WriteOutfile, PrintBlob, FreePipe, Succeed, Fail, Killed,
           End, worldVars, Step
<1>2. ASSUME IInv, [Next]_vars PROVE [Changes]_vars
  BY <1>1, <1>2
<1>. QED BY <1>2, InvariantHolds, PTL DEF Spec, OutputOnlyFromCipher
===============================================================================
