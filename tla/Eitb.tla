-------------------------------- MODULE Eitb --------------------------------
(***************************************************************************)
(* The eitb command line (eitb/eitb.py): processes run one after another   *)
(* over the same files and the same terminal.  encrypt seals a file under  *)
(* a session of its own and prints the blob that alone reopens it; decrypt *)
(* is given a blob, and a profile that only routes.  Any step may raise,   *)
(* and the process may be killed between any two.                          *)
(*                                                                         *)
(* What a file holds is a name: a text somebody put there, a wire, by the  *)
(* number of its session, a torn write, or what a profile without a MAC    *)
(* makes of bytes that are not its own.                                    *)
(***************************************************************************)
EXTENDS Integers, Sequences

CONSTANTS Files,        \* the paths
          Texts,        \* the plaintexts the user starts with
          Torn, Noise, None,
          MaxSessions,  \* bound: the encryptions that reach a session
          MaxDecrypts   \* bound: the decrypt commands

ASSUME EitbAssumption ==
    /\ MaxSessions \in Nat /\ MaxDecrypts \in Nat
    /\ None \notin Texts \union Nat \union {Torn, Noise}
    /\ Texts \intersect (Nat \union {Torn, Noise}) = {}

Sessions == 1..MaxSessions
Bytes == Texts \union Sessions \union {Torn, Noise}

\* _is_streaming_profile looks at the name; whether a profile has a MAC is
\* its own affair, and decrypt uses the argument for nothing but routing.
Profiles == [streaming : BOOLEAN, mac : BOOLEAN]
Commands ==
    [verb : {"encrypt"}, profile : Profiles, in : Files, out : Files, blob : {0}]
    \union [verb : {"decrypt"}, profile : [streaming : BOOLEAN, mac : {TRUE}],
            in : Files, out : Files, blob : 0..MaxSessions]
    \union [verb : {"show", "unknown"}, profile : {None}, in : {None},
            out : {None}, blob : {0}]

VARIABLES
    files,      \* what each path holds: None, or its bytes
    terminal,   \* the blobs the user has seen
    sealed,     \* sealed[k]: the bytes in the wire of session k, its profile
    decrypts,   \* the decrypt commands so far
    cmd,        \* the command of the running process, None between processes
    at,         \* the step it is at
    source,     \* the bytes it has read
    made,       \* the bytes its cipher call returned
    pipe,       \* the session it has open, 0 when there is none
    last        \* how the process before it ended

worldVars == <<files, terminal, sealed, decrypts>>
vars == <<worldVars, cmd, at, source, made, pipe, last>>

\* The paths, the blobs and the steps are of their kinds, and what a process
\* has in hand is what the step it is at needs.
TypeOK ==
    /\ files \in [Files -> Bytes \union {None}]
    /\ sealed \in Seq([bytes : Bytes, profile : Profiles])
    /\ Len(sealed) <= MaxSessions
    /\ terminal \subseteq 1..Len(sealed)
    /\ decrypts \in 0..MaxDecrypts
    /\ cmd \in Commands \union {None}
    /\ at \in 0..11
    /\ source \in Bytes \union {None} /\ made \in Bytes \union {None}
    /\ pipe \in 0..Len(sealed)
    /\ last \in [cmd : Commands \union {None}, code : {0, 1, 2, 137},
                 source : Bytes \union {None}]

Init ==
    /\ files \in [Files -> Texts \union {None}]
    /\ terminal = {} /\ sealed = <<>> /\ decrypts = 0
    /\ cmd = None /\ at = 0 /\ source = None /\ made = None /\ pipe = 0
    /\ last = [cmd |-> None, code |-> 0, source |-> None]
-----------------------------------------------------------------------------
(* The statements of each command, in their order. *)

\* Fault: the output file is opened before the wire has been opened.
DecryptStepsWriteFirst ==
    <<"caps", "blob", "read", "load", "mkdir", "write", "decrypt", "free", "report">>

\* Fault: the with block is left before the cipher call.
EncryptStepsFreedEarly ==
    <<"caps", "read", "init", "free", "encrypt", "mkdir", "write", "save", "report">>

EncryptSteps ==
    <<"caps", "read", "init", "encrypt", "mkdir", "write", "save", "free", "report">>

DecryptSteps ==
    <<"caps", "blob", "read", "load", "decrypt", "free", "mkdir", "write", "report">>

Steps ==
    CASE cmd.verb = "encrypt" -> EncryptSteps
      [] cmd.verb = "decrypt" -> DecryptSteps
      [] OTHER -> <<"caps", "report">>      \* version, profiles, inspect

Running == cmd # None
Step(name) == Running /\ at <= Len(Steps) /\ Steps[at] = name
Advance == at' = at + 1 /\ UNCHANGED <<cmd, last>>
-----------------------------------------------------------------------------
\* main(): an argv of another shape ends at once.
Invoke ==
    /\ ~Running
    /\ \E c \in Commands :
        /\ c.verb = "encrypt" => Len(sealed) < MaxSessions
        /\ c.verb = "decrypt" =>
                decrypts < MaxDecrypts /\ c.blob \in terminal \union {0}
        /\ decrypts' = decrypts + (IF c.verb = "decrypt" THEN 1 ELSE 0)
        /\ IF c.verb = "unknown"
           THEN /\ last' = [cmd |-> c, code |-> 2, source |-> None]
                /\ UNCHANGED <<cmd, at>>
           ELSE cmd' = c /\ at' = 1 /\ UNCHANGED last
    /\ UNCHANGED <<files, terminal, sealed, source, made, pipe>>

\* The pacing caps; the parent directories, which may exist; the report; and
\* the blob, when it is one.
Proceed ==
    /\ \/ Step("caps") \/ Step("mkdir") \/ Step("report")
       \/ Step("blob") /\ cmd.blob # 0
    /\ Advance
    /\ UNCHANGED <<worldVars, source, made, pipe>>

ReadInfile ==
    /\ Step("read") /\ files[cmd.in] # None
    /\ source' = files[cmd.in]
    /\ Advance
    /\ UNCHANGED <<worldVars, made, pipe>>

\* Pipeline.init draws fresh keys: they have sealed nothing else.
InitPipe ==
    /\ Step("init")
    /\ sealed' = Append(sealed, [bytes |-> source, profile |-> cmd.profile])
    /\ pipe' = Len(sealed')
    /\ Advance
    /\ UNCHANGED <<files, terminal, decrypts, source, made>>

LoadPipe ==
    /\ Step("load")
    /\ pipe' = cmd.blob
    /\ Advance
    /\ UNCHANGED <<worldVars, source, made>>

Encrypt ==
    /\ Step("encrypt")
    /\ made' = pipe
    /\ Advance
    /\ UNCHANGED <<worldVars, source, pipe>>

\* The library opens the session's own wire on the surface that sealed it;
\* of other bytes a profile without a MAC makes noise, and one with a MAC
\* makes nothing.
Decrypt ==
    /\ Step("decrypt")
    /\ LET profile == sealed[pipe].profile
           own == source = pipe /\ cmd.profile.streaming = profile.streaming
       IN  \/ own /\ made' = sealed[pipe].bytes
           \/ ~own /\ ~profile.mac /\ made' = Noise
    /\ Advance
    /\ UNCHANGED <<worldVars, source, pipe>>

WriteOutfile ==
    /\ Step("write")
    /\ files' = [files EXCEPT ![cmd.out] = made]
    /\ Advance
    /\ UNCHANGED <<terminal, sealed, decrypts, source, made, pipe>>

PrintBlob ==
    /\ Step("save")
    /\ terminal' = terminal \union {pipe}
    /\ Advance
    /\ UNCHANGED <<files, sealed, decrypts, source, made, pipe>>

FreePipe ==
    /\ Step("free")
    /\ pipe' = 0
    /\ Advance
    /\ UNCHANGED <<worldVars, source, made>>

\* The end of the process.  A write under way leaves its file as it was, or
\* opened and not whole.
End(code) ==
    /\ cmd' = None /\ at' = 0 /\ source' = None /\ made' = None /\ pipe' = 0
    /\ last' = [cmd |-> cmd, code |-> code, source |-> source]
    /\ files' \in {files} \union
            IF Step("write") THEN {[files EXCEPT ![cmd.out] = Torn]} ELSE {}
    /\ UNCHANGED <<terminal, sealed, decrypts>>

Succeed == Running /\ at > Len(Steps) /\ End(0)

\* Fault: the error is printed and the command counted as done.
FailQuietly == Running /\ at <= Len(Steps) /\ End(0)

\* Any statement may raise; the with block frees the session on the way.  An
\* ItbError or an OSError ends in status 1, and so does any other exception.
Fail == Running /\ at <= Len(Steps) /\ End(1)

Killed == Running /\ End(137)

Next ==
    \/ Invoke \/ Proceed \/ ReadInfile \/ InitPipe \/ LoadPipe \/ Encrypt
    \/ Decrypt \/ WriteOutfile \/ PrintBlob \/ FreePipe
    \/ Succeed \/ Fail \/ Killed

Spec == Init /\ [][Next]_vars
-----------------------------------------------------------------------------
Finished(verb) == ~Running /\ last.code = 0 /\ last.cmd # None /\ last.cmd.verb = verb

\* Status 0 is a promise.  After an encryption, also one in place, the output
\* is a whole wire of the bytes that were read, and the blob that opens it has
\* been printed, although the file is written before the blob is known to be
\* obtainable; after a decryption with a MAC the output is what the encryption
\* had read (eitb.py:77-100).
SuccessIsOpenable ==
    /\ Finished("encrypt") =>
        \E k \in terminal : /\ files[last.cmd.out] = k
                            /\ sealed[k].bytes = last.source
                            /\ sealed[k].profile = last.cmd.profile
    /\ (Finished("decrypt") /\ sealed[last.cmd.blob].profile.mac) =>
        /\ last.source = last.cmd.blob
        /\ files[last.cmd.out] = sealed[last.source].bytes

\* No file is touched until the cipher has returned: whatever fails before
\* leaves the old output as it was, and under a MAC only bytes the library has
\* verified replace it (eitb.py:78-86, 92-99).
OutputOnlyFromCipher ==
    [][\A f \in Files : files'[f] # files[f] =>
        /\ f = cmd.out
        /\ files'[f] \in {Torn, made} /\ made # None
        /\ (cmd.verb = "decrypt" /\ sealed[cmd.blob].profile.mac) =>
                source = cmd.blob /\ made = sealed[source].bytes]_vars
=============================================================================
