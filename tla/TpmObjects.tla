----------------------------- MODULE TpmObjects -----------------------------
(***************************************************************************)
(* LinuxTpm: what the operations of Tpm keep in the TPM.  A process holds  *)
(* one Tpm (the connection "g_tpm") and calls its operations, or it is the *)
(* test client, which runs its tests one after the other and opens a       *)
(* second connection in three of them ("tmpCtx").                          *)
(*                                                                         *)
(* A function is the sequence of what it asks of the TPM; a caller splices *)
(* in the functions it calls.  Every request may fail, which throws: what  *)
(* follows is skipped up to the next destructor or catch.  Consecutive     *)
(* requests that change nothing, marshalling included, are one Command.    *)
(* Templates, attributes, names of files and messages are left out.        *)
(***************************************************************************)
EXTENDS Naturals, Sequences, SequencesExt

CONSTANTS
  Slots,      \* transient objects a connection has room for
  Pcrs,       \* PCRs that are asked for
  BankSets,   \* the PCR banks a TPM may have allocated
  Orders,     \* orders in which g_tests may be walked
  MaxCalls    \* bound: calls of a process that keeps its Tpm

Bank == {"sha1", "sha256", "sha384"}
Test == {"tpmversion", "ekpub", "ekcert", "aikpub", "aikcert", "pcrquote",
         "pcrvalues", "tcglog", "generateek", "unseal", "certifyek"}

ASSUME ConstantsAssumption ==
  /\ Slots \in Nat \ {0} /\ Pcrs \in Nat \ {0} /\ MaxCalls \in Nat
  /\ BankSets \subseteq SUBSET Bank
  /\ \A o \in Orders : o \in Seq(Test) /\ ToSet(o) = Test /\ Len(o) = 11

VARIABLES
  mode,        \* "library", or the first argument of the test client
  todo,        \* calls or tests that are still to run
  call,        \* the call or test that runs
  code,        \* what is left of it
  raised,      \* an exception is on its way
  objects,     \* transient objects of each connection, by kind
  sessions,    \* sessions of each connection
  session,     \* sessionHandle # 0 of the Tss2Session in scope
  persistent,  \* persistent objects of the TPM
  banks,       \* PCR banks of the TPM
  unread,      \* PCRs of the selection PCR_Read has not answered yet
  odd,         \* history: number of PCR_Read so far is odd; a pass of the loop
               \* that achieves nothing is a step all the same
  before,      \* history: objects when the call began
  failed,      \* history: what failed or was not found in this call
  succeeded,   \* all_succeeded
  process      \* "new", "running", "terminated", or the exit status

vars == <<mode, todo, call, code, raised, objects, sessions, session, persistent,
          banks, unread, odd, before, failed, succeeded, process>>

Ctx == {"g_tpm", "tmpCtx"}
Kind == {"ephemeral", "ek", "loaded"}
Group == {"all", "hardware_tpm", "gen2_vtpm"}
Mode == {"library", "no_argument", "unknown"} \cup Group \cup Test

-----------------------------------------------------------------------------
(* What the code asks of the TPM *)

Command == [op |-> "command"]
Create(ctx, kind) == [op |-> "create", ctx |-> ctx, kind |-> kind]
Start(ctx) == [op |-> "start", ctx |-> ctx]
PCR_Read(alg, until) == [op |-> "pcr_read", alg |-> alg, until |-> until]
EvictControl(handle) == [op |-> "evict_control", handle |-> handle]

\* Opening an object; the second form goes on behind body when it is not there
HandleToEsys(object) == [op |-> "open", object |-> object]
IfOpens(object, body) == [op |-> "if_opens", object |-> object, body |-> body]

\* The scopes of a second connection, a Tss2Session, and a try block
WithCtx(body) == [op |-> "connect", body |-> body]
WithSession(ctx, body) == [op |-> "session", ctx |-> ctx, body |-> body]
Try(body, handler) == [op |-> "try", body |-> body, handler |-> handler]
Rethrow == [op |-> "rethrow"]

\* FlushObjectContext, Tss2Session::Flush, and what ends a scope
FlushObjectContext(ctx, kind) == [op |-> "flush_object", ctx |-> ctx, kind |-> kind]
Flush(ctx) == [op |-> "flush", ctx |-> ctx]
CloseSession(ctx) == [op |-> "close_session", ctx |-> ctx]
CloseCtx == [op |-> "close_ctx"]
EndTry(handler) == [op |-> "end_try", handler |-> handler]

\* ~Tss2Session flushes
EndSession(ctx) == CloseSession(ctx)

\* Mutant of Restart: the old session is not flushed
RestartWithoutFlush(ctx) == <<Start(ctx)>>
Restart(ctx) == <<Flush(ctx), Start(ctx)>>

PolicySecret == Command
PolicyPcr == Command
PolicyCommandCode == Command
GetDigest == Command

-----------------------------------------------------------------------------
(* Tss2Util *)

GetPcrCount == Command
GetTssPcrSelection == <<GetPcrCount, [op |-> "select"]>>
GeneratePcrDigest == Command

\* The test client's copy counts digests (as a mutant of PopulateCurrentPcrs
\* too), the library looks at what is left of the mask
TestUtil_PopulateCurrentPcrs(alg) == GetTssPcrSelection \o <<PCR_Read(alg, "all_counted")>>
PopulateCurrentPcrs(alg) == GetTssPcrSelection \o <<PCR_Read(alg, "mask_empty")>>

NvRead == <<Command>>
GetPublicObject(object) == <<HandleToEsys(object), Command>>

\* Template and nonce are read from NV, and defaulted when they are not there
PopulateEkPublicInput == Command

\* unique_esys_tr closes the handle and leaves the object where it is
GenerateEk(ctx) == <<PopulateEkPublicInput, Create(ctx, "ek")>>

GenerateEkFromSpec(ctx) == <<Create(ctx, "ek")>>

\* outHandle here is not the handle of GenerateEk: it is 0
GenerateAndPersistEk(ctx) == GenerateEk(ctx) \o <<EvictControl("0")>>

GetEphemeralKeyPolicyDigest(ctx) ==
  <<GeneratePcrDigest>> \o GetTssPcrSelection \o
  <<WithSession(ctx, <<Start(ctx), PolicyPcr, GetDigest>>)>>

CreateEphemeralKey(ctx) == GetEphemeralKeyPolicyDigest(ctx) \o <<Create(ctx, "ephemeral")>>

-----------------------------------------------------------------------------
(* Tss2Wrapper, on the connection of its Tpm *)

g == "g_tpm"

CheckAndMarshalEkPub == Command
GetEkNvCert == NvRead
GetAIKCert == NvRead
GetHCLReport == NvRead
GetTcgLog == <<Command>>
GetVersion == <<Command>>
GetAIKPub == GetPublicObject("aik")
UnpackAiKPubToRSA == <<Command>>
UnpackPcrQuoteToRSA == <<Command>>
GetPCRQuote(alg) == <<HandleToEsys("aik")>> \o GetTssPcrSelection \o <<Command>>
GetPCRValues(alg) == PopulateCurrentPcrs(alg)

GetEkPubWithoutPersisting == GenerateEk(g) \o <<CheckAndMarshalEkPub>>

GetEkPub ==
  <<Try(GetPublicObject("ek"), GenerateAndPersistEk(g) \o <<CheckAndMarshalEkPub>>)>>

RemovePersistentEk == <<IfOpens("ek", <<EvictControl("persistent")>>)>>

\* Import, load, unseal; a session serves one policy.  The loaded object is
\* closed, as above, and not flushed.
UnsealInternal(usePcrAuth) ==
  <<Command,
    WithSession(g,
      <<Start(g), PolicySecret, Command>> \o
      Restart(g) \o <<PolicySecret, Create(g, "loaded")>> \o
      (IF usePcrAuth
         THEN <<GeneratePcrDigest>> \o GetTssPcrSelection \o Restart(g) \o <<PolicyPcr>>
         ELSE << >>) \o
      <<Command>>)>>

Unseal(usePcrAuth) == <<HandleToEsys("ek")>> \o UnsealInternal(usePcrAuth)

\* Mutant of UnsealWithEkFromSpec: the generated EK is forgotten
UnsealWithEkFromSpecKeepingEk(usePcrAuth) == GenerateEkFromSpec(g) \o UnsealInternal(usePcrAuth)
UnsealWithEkFromSpec(usePcrAuth) ==
  GenerateEkFromSpec(g) \o UnsealInternal(usePcrAuth) \o <<FlushObjectContext(g, "ek")>>

\* Mutant of GetCertifiedKeyAndFlushHandle: no flush when Certify fails
CertifyWithoutFlush(kind) ==
  <<HandleToEsys("aik"), Command, FlushObjectContext(g, kind), Command>>
\* Another: the exception of Certify goes no further
CertifyWithoutRethrow(kind) ==
  <<HandleToEsys("aik"), Try(<<Command>>, <<FlushObjectContext(g, kind)>>),
    FlushObjectContext(g, kind), Command>>
GetCertifiedKeyAndFlushHandle(kind) ==
  <<HandleToEsys("aik"),
    Try(<<Command>>, <<FlushObjectContext(g, kind), Rethrow>>),
    FlushObjectContext(g, kind), Command>>

GetEphemeralKey == CreateEphemeralKey(g) \o GetCertifiedKeyAndFlushHandle("ephemeral")
GetEkPubWithCertification == GenerateEkFromSpec(g) \o GetCertifiedKeyAndFlushHandle("ek")

\* The second Command is the size check and RSA_Decrypt: each flushes and throws
DecryptWithEphemeralKey ==
  LET flush == FlushObjectContext(g, "ephemeral") IN
  CreateEphemeralKey(g) \o
  <<WithSession(g,
      <<Try(<<GeneratePcrDigest>> \o GetTssPcrSelection \o <<Start(g), PolicyPcr>>,
            <<flush, Rethrow>>),
        Try(<<Command>>, <<flush, Rethrow>>),
        flush>>)>>

-----------------------------------------------------------------------------
(* The test client *)

t == "tmpCtx"

SealSeedToEk(useStoredEk) ==
  (IF useStoredEk THEN <<HandleToEsys("ek")>> ELSE GenerateEkFromSpec(t)) \o
  GetTssPcrSelection \o
  <<WithSession(t,
      <<Start(t), PolicyCommandCode, GetDigest>> \o
      Restart(t) \o <<PolicySecret, Command>> \o
      Restart(t) \o <<PolicySecret, Create(t, "loaded")>> \o
      Restart(t) \o <<PolicyCommandCode, Command>>)>>

process_get_tpmversion == GetVersion
process_get_ekpub == GetEkPub
process_get_ekcert == GetEkNvCert
process_get_aikpub == GetAIKPub
process_get_aikcert == GetAIKCert
process_get_tcglog == GetTcgLog
process_get_certifiedek == GetEkPubWithCertification

process_get_pcrquote ==
  <<WithCtx(<<GetPcrCount>> \o GetPCRQuote("sha1") \o GetPCRQuote("sha256") \o
            GetPCRQuote("sha384"))>>

process_get_pcrvalues ==
  <<WithCtx(<<GetPcrCount>> \o GetPCRValues("sha1") \o GetPCRValues("sha256") \o
            GetPCRValues("sha384"))>>

process_create_ek == <<Try(RemovePersistentEk, << >>)>> \o GetEkPub

process_unseal ==
  <<WithCtx(TestUtil_PopulateCurrentPcrs("sha256") \o
            SealSeedToEk(TRUE) \o Unseal(FALSE) \o
            SealSeedToEk(FALSE) \o UnsealWithEkFromSpec(FALSE))>>

g_tests == [
  tpmversion |-> process_get_tpmversion, ekpub |-> process_get_ekpub,
  ekcert |-> process_get_ekcert, aikpub |-> process_get_aikpub,
  aikcert |-> process_get_aikcert, pcrquote |-> process_get_pcrquote,
  pcrvalues |-> process_get_pcrvalues, tcglog |-> process_get_tcglog,
  generateek |-> process_create_ek, unseal |-> process_unseal,
  certifyek |-> process_get_certifiedek]

\* The operations of class Tpm.  WriteAikCert is in module AkCert.
Tpm == [
  GetAIKCert |-> GetAIKCert, GetAIKPub |-> GetAIKPub,
  GetPCRQuote |-> GetPCRQuote("sha256"), GetPCRValues |-> GetPCRValues("sha256"),
  GetTcgLog |-> GetTcgLog, GetEkNvCert |-> GetEkNvCert, GetVersion |-> GetVersion,
  GetEkPubWithoutPersisting |-> GetEkPubWithoutPersisting, GetEkPub |-> GetEkPub,
  Unseal |-> Unseal(TRUE), UnsealWithEkFromSpec |-> UnsealWithEkFromSpec(TRUE),
  RemovePersistentEk |-> RemovePersistentEk,
  UnpackAiKPubToRSA |-> UnpackAiKPubToRSA, UnpackPcrQuoteToRSA |-> UnpackPcrQuoteToRSA,
  GetEphemeralKey |-> GetEphemeralKey, DecryptWithEphemeralKey |-> DecryptWithEphemeralKey,
  GetHCLReport |-> GetHCLReport, GetEkPubWithCertification |-> GetEkPubWithCertification]

-----------------------------------------------------------------------------
(* Running it *)

None == [k \in Kind |-> 0]
Used(ctx) == objects[ctx]["ephemeral"] + objects[ctx]["ek"] + objects[ctx]["loaded"]

\* Where an exception goes on: at the first destructor or catch
Unwind(rest) ==
  LET stops == {i \in DOMAIN rest : rest[i].op \in {"close_session", "close_ctx", "end_try"}}
  IN  IF stops = {} THEN << >>
      ELSE SubSeq(rest, CHOOSE i \in stops : \A j \in stops : i <= j, Len(rest))

At(op) == process = "running" /\ code # << >> /\ Head(code).op = op
Proceed(next) == code' = next \o Tail(code) /\ raised' = FALSE
Throw == code' = Unwind(Tail(code)) /\ raised' = TRUE
ThrowFor(reason) == Throw /\ failed' = failed \cup {reason}
\* A destructor goes on the way it was entered
GoOn == code' = (IF raised THEN Unwind(Tail(code)) ELSE Tail(code)) /\ UNCHANGED raised

Caller == <<mode, todo, call, banks, before, succeeded>>

\* Any request without an effect of its own, and the opening of a scope
DoCommand ==
  /\ At("command")
  /\ Proceed(<< >>) \/ Throw
  /\ UNCHANGED <<Caller, objects, sessions, session, persistent, unread, odd, failed, process>>

DoSelect ==
  /\ At("select")
  /\ Proceed(<< >>)
  /\ unread' = Pcrs
  /\ UNCHANGED <<Caller, objects, sessions, session, persistent, odd, failed, process>>

DoOpen ==
  /\ At("open")
  /\ \/ Head(code).object \in persistent /\ Proceed(<< >>) /\ UNCHANGED failed
     \/ ThrowFor("open")
  /\ UNCHANGED <<Caller, objects, sessions, session, persistent, unread, odd, process>>

DoIfOpens ==
  /\ At("if_opens")
  /\ \/ Head(code).object \in persistent /\ Proceed(Head(code).body)
     \/ Proceed(<< >>)
  /\ UNCHANGED <<Caller, objects, sessions, session, persistent, unread, odd, failed, process>>

DoTry ==
  /\ At("try")
  /\ Proceed(Head(code).body \o <<EndTry(Head(code).handler)>>)
  /\ UNCHANGED <<Caller, objects, sessions, session, persistent, unread, odd, failed, process>>

DoEndTry ==
  /\ At("end_try")
  /\ Proceed(IF raised THEN Head(code).handler ELSE << >>)
  /\ UNCHANGED <<Caller, objects, sessions, session, persistent, unread, odd, failed, process>>

DoRethrow ==
  /\ At("rethrow")
  /\ Throw
  /\ UNCHANGED <<Caller, objects, sessions, session, persistent, unread, odd, failed, process>>

\* Esys_CreatePrimary and Esys_Load
DoCreate ==
  /\ At("create")
  /\ LET c == Head(code) IN
     \/ /\ Used(c.ctx) < Slots
        /\ objects' = [objects EXCEPT ![c.ctx][c.kind] = @ + 1]
        /\ Proceed(<< >>)
     \/ Throw /\ UNCHANGED objects
  /\ UNCHANGED <<Caller, sessions, session, persistent, unread, odd, failed, process>>

DoFlushObject ==
  /\ At("flush_object")
  /\ LET c == Head(code) IN
     \/ /\ objects' = [objects EXCEPT ![c.ctx][c.kind] = @ - 1]
        /\ Proceed(<< >>) /\ UNCHANGED failed
     \/ ThrowFor("flush") /\ UNCHANGED objects
  /\ UNCHANGED <<Caller, sessions, session, persistent, unread, odd, process>>

\* A persistent object is removed, a transient one made persistent; the TPM
\* refuses a handle that names no object
DoEvictControl ==
  /\ At("evict_control")
  /\ LET handle == Head(code).handle IN
     \/ /\ handle # "0"
        /\ persistent' = IF handle = "transient" THEN persistent \cup {"ek"}
                                                ELSE persistent \ {"ek"}
        /\ Proceed(<< >>)
     \/ Throw /\ UNCHANGED persistent
  /\ UNCHANGED <<Caller, objects, sessions, session, unread, odd, failed, process>>

DoStart ==
  /\ At("start")
  /\ LET ctx == Head(code).ctx IN
     \/ /\ sessions' = [sessions EXCEPT ![ctx] = @ + 1]
        /\ session' = [session EXCEPT ![ctx] = TRUE]
        /\ Proceed(<< >>)
     \/ Throw /\ UNCHANGED <<sessions, session>>
  /\ UNCHANGED <<Caller, objects, persistent, unread, odd, failed, process>>

\* sessionHandle 0 is not flushed
Flushed(ctx) ==
  /\ sessions' = [sessions EXCEPT ![ctx] = IF session[ctx] THEN @ - 1 ELSE @]
  /\ session' = [session EXCEPT ![ctx] = FALSE]

DoFlush ==
  /\ At("flush")
  /\ LET ctx == Head(code).ctx IN
     \/ Flushed(ctx) /\ Proceed(<< >>)
     \/ session[ctx] /\ Throw /\ UNCHANGED <<sessions, session>>
  /\ UNCHANGED <<Caller, objects, persistent, unread, odd, failed, process>>

\* The process is gone, and with it its connections
Terminate ==
  /\ process' = "terminated"
  /\ code' = << >>
  /\ objects' = [ctx \in Ctx |-> None]
  /\ sessions' = [ctx \in Ctx |-> 0]
  /\ session' = [ctx \in Ctx |-> FALSE]

\* ~Tss2Session: Flush, and std::terminate when it throws
DoCloseSession ==
  /\ At("close_session")
  /\ LET ctx == Head(code).ctx IN
     \/ /\ Flushed(ctx)
        /\ GoOn
        /\ UNCHANGED <<objects, process>>
     \/ session[ctx] /\ Terminate /\ UNCHANGED raised
  /\ UNCHANGED <<Caller, persistent, unread, odd, failed>>

DoSession ==
  /\ At("session")
  /\ LET c == Head(code) IN Proceed(c.body \o <<EndSession(c.ctx)>>)
  /\ UNCHANGED <<Caller, objects, sessions, session, persistent, unread, odd, failed, process>>

\* Tss2Ctx::Tss2Ctx and ~Tss2Ctx: the resource manager drops what is left
DoConnect ==
  /\ At("connect")
  /\ Proceed(Head(code).body \o <<CloseCtx>>) \/ Throw
  /\ UNCHANGED <<Caller, objects, sessions, session, persistent, unread, odd, failed, process>>

DoCloseCtx ==
  /\ At("close_ctx")
  /\ GoOn
  /\ objects' = [objects EXCEPT ![t] = None]
  /\ sessions' = [sessions EXCEPT ![t] = 0]
  /\ UNCHANGED <<Caller, session, persistent, unread, odd, failed, process>>

\* A bank that is not allocated has no digests, any other answers some of
\* what was asked.  maskSum is 0 until the first digests come.
DoPcrRead ==
  /\ At("pcr_read")
  /\ LET c == Head(code)
         answers == IF c.alg \in banks THEN 1..unread ELSE {0}
     IN
     \/ \E n \in answers :
          LET left == unread - n
              maskSum == IF n = 0 THEN 0 ELSE left
              again == IF c.until = "mask_empty" THEN maskSum # 0 ELSE left # 0
          IN  /\ unread' = left
              /\ Proceed(IF again THEN <<c>> ELSE << >>)
     \/ Throw /\ UNCHANGED unread
  /\ UNCHANGED <<Caller, objects, sessions, session, persistent, failed, process>>
  /\ odd' = ~odd

-----------------------------------------------------------------------------
(* The process *)

Begin(name, script) ==
  /\ call' = name
  /\ code' = script
  /\ raised' = FALSE
  /\ failed' = {}
  /\ before' = objects[g]

\* Static initialisation of g_tpm, or the constructor of a caller's Tpm
Connect ==
  /\ process = "new"
  /\ process' \in {"running", "terminated"}
  /\ UNCHANGED <<mode, todo, call, code, raised, objects, sessions, session, persistent,
                 banks, unread, odd, before, failed, succeeded>>

Idle == process = "running" /\ call = "none"
Returned == process = "running" /\ call # "none" /\ code = << >>

CallTpm ==
  /\ Idle /\ mode = "library" /\ todo > 0
  /\ todo' = todo - 1
  /\ \E name \in DOMAIN Tpm : Begin(name, Tpm[name])
  /\ UNCHANGED <<mode, objects, sessions, session, persistent, banks, unread, odd, succeeded,
                 process>>

\* The tests a command runs; the loop over g_tests passes over the others
process_hardware_tpm == Test \ {"aikpub", "aikcert", "certifyek"}
process_gen2_vtpm == Test \ {"ekpub", "ekcert", "generateek"}
Runs(m) ==
  CASE m = "hardware_tpm" -> process_hardware_tpm
    [] m = "gen2_vtpm" -> process_gen2_vtpm
    [] OTHER -> Test

Continue ==
  /\ Idle /\ mode # "library" /\ todo # << >> /\ Head(todo) \notin Runs(mode)
  /\ todo' = Tail(todo)
  /\ UNCHANGED <<mode, call, code, raised, objects, sessions, session, persistent, banks, unread,
                 odd, before, failed, succeeded, process>>

process_command ==
  /\ Idle /\ mode # "library" /\ todo # << >> /\ Head(todo) \in Runs(mode)
  /\ todo' = Tail(todo)
  /\ Begin(Head(todo), g_tests[Head(todo)])
  /\ UNCHANGED <<mode, objects, sessions, session, persistent, banks, unread, odd, succeeded,
                 process>>

Return ==
  /\ Returned
  /\ call' = "none"
  /\ raised' = FALSE
  /\ succeeded' = (succeeded /\ ~raised)
  /\ UNCHANGED <<mode, todo, code, objects, sessions, session, persistent, banks, unread,
                 odd, before, failed, process>>

\* The groups return all_succeeded ? 0 : 1 as a bool
ProcessGroup(all_succeeded) == ~all_succeeded
ExitStatus(ok) == IF ok THEN "0" ELSE "1"

main ==
  /\ Idle
  /\ IF mode = "library" THEN process' = "0"
     ELSE /\ todo = << >>
          /\ process' = CASE mode \in {"no_argument", "unknown"} -> "1"
                          [] mode \in Group -> ExitStatus(ProcessGroup(succeeded))
                          [] OTHER -> ExitStatus(succeeded)
  /\ objects' = [ctx \in Ctx |-> None]
  /\ UNCHANGED <<mode, todo, call, code, raised, sessions, session, persistent, banks, unread,
                 odd, before, failed, succeeded>>

Todo(m) ==
  CASE m = "library" -> {MaxCalls}
    [] m \in Group -> Orders
    [] m \in Test -> {<<m>>}
    [] OTHER -> {<< >>}

Init ==
  /\ mode \in Mode
  /\ todo \in Todo(mode)
  /\ call = "none" /\ code = << >> /\ raised = FALSE
  /\ objects = [ctx \in Ctx |-> None]
  /\ sessions = [ctx \in Ctx |-> 0]
  /\ session = [ctx \in Ctx |-> FALSE]
  /\ persistent \in SUBSET {"ek", "aik"}
  /\ banks \in BankSets
  /\ unread = 0 /\ odd = FALSE
  /\ before = None /\ failed = {}
  /\ succeeded = TRUE
  /\ process = "new"

Exited == process \notin {"new", "running"} /\ UNCHANGED vars

\* The TPM answers every request, if only with an error
Step ==
  \/ DoCommand \/ DoSelect \/ DoOpen \/ DoIfOpens \/ DoTry \/ DoEndTry \/ DoRethrow
  \/ DoCreate \/ DoFlushObject \/ DoEvictControl
  \/ DoStart \/ DoFlush \/ DoSession \/ DoCloseSession
  \/ DoConnect \/ DoCloseCtx \/ DoPcrRead
  \/ Return \/ process_command \/ Continue

Next == Connect \/ CallTpm \/ Step \/ main \/ Exited

Spec == Init /\ [][Next]_vars /\ WF_vars(Step)

\* A TPM that refuses only what it cannot do: open an object that is not there,
\* hold one too many, or move an object that handle 0 does not name
Refused(c) ==
  \/ c.op = "open" /\ c.object \notin persistent
  \/ c.op = "create" /\ Used(c.ctx) = Slots
  \/ c.op = "evict_control" /\ c.handle = "0"
ReliableTpm == raised' => raised \/ Head(code).op = "rethrow" \/ Refused(Head(code))
SpecWithReliableTpm == Init /\ [][Next /\ ReliableTpm]_vars /\ WF_vars(Step)

-----------------------------------------------------------------------------
(* Properties *)

\* Types, and a bound the code relies on: a connection has room for its objects,
\* and none is flushed twice.
TypeOK ==
  /\ mode \in Mode
  /\ raised \in BOOLEAN /\ succeeded \in BOOLEAN
  /\ objects \in [Ctx -> [Kind -> 0..Slots]]
  /\ sessions \in [Ctx -> Nat]
  /\ session \in [Ctx -> BOOLEAN]
  /\ persistent \subseteq {"ek", "aik"}
  /\ banks \in BankSets
  /\ unread \in 0..Pcrs /\ odd \in BOOLEAN
  /\ before \in [Kind -> 0..Slots]
  /\ failed \subseteq {"open", "flush"}
  /\ process \in {"new", "running", "terminated", "0", "1"}

Left(kind) == objects[g][kind] - before[kind]

\* Objects a call keeps although it succeeds: the EK that was generated for
\* its public part, and what an unsealing loaded.
KeptOnSuccess(name, kind) ==
  CASE name = "GetEkPubWithoutPersisting" /\ kind = "ek" -> 1
    [] name \in {"Unseal", "UnsealWithEkFromSpec"} /\ kind = "loaded" -> 1
    [] name = "unseal" /\ kind = "loaded" -> 2
    [] OTHER -> 0

\* A connection never has two sessions, of which the TPM has few, although an
\* unsealing starts up to four, one for each policy; and a call that returns,
\* through an exception or not, has closed them all (Restart, ~Tss2Session) and
\* leaves nothing on a second connection (~Tss2Ctx).
SessionsEnd ==
  /\ \A ctx \in Ctx : sessions[ctx] \in 0..1
  /\ Returned => sessions = [ctx \in Ctx |-> 0] /\ objects[t] = None

\* A call that returns without an exception has left on its own connection
\* exactly what GenerateEk and UnsealInternal never flush: a Tpm that is kept
\* runs out of room after Slots such calls, and through no others.
SuccessLeavesOnlyKnown ==
  Returned /\ ~raised => \A kind \in Kind : Left(kind) = KeptOnSuccess(call, kind)

\* What a call that throws leaves: an ephemeral key only if its flush failed, or
\* the AIK could not be opened between its creation and the flush, and the same
\* for an EK to be certified; any other EK from a call that generated one; a
\* loaded object from an unsealing.
FailureLeavesExplained ==
  Returned /\ raised =>
    /\ Left("ephemeral") > 0 =>
         "flush" \in failed \/ (call = "GetEphemeralKey" /\ "open" \in failed)
    /\ Left("ek") > 0 =>
         IF call \in {"GetEkPubWithCertification", "certifyek"} THEN failed # {}
         ELSE call \in {"GetEkPubWithoutPersisting", "GetEkPub", "ekpub", "generateek",
                        "UnsealWithEkFromSpec", "unseal"}
    /\ Left("loaded") > 0 => call \in {"Unseal", "UnsealWithEkFromSpec", "unseal"}

\* "Generates the manufacturer defined EK and persistes it to EK_PUB_INDEX"
\* (Tss2Util.h, GenerateAndPersistEk), on which GetEkPub falls back: with a TPM
\* that refuses nothing it can do, and room for the key, a call that asks for the
\* persistent EK succeeds, and there is one afterwards.
GeneratedEkIsPersisted ==
  /\ Returned /\ call \in {"GetEkPub", "ekpub", "generateek"}
  /\ before["ephemeral"] + before["ek"] + before["loaded"] < Slots
  => ~raised /\ "ek" \in persistent

\* Every call returns or takes the process with it: PopulateCurrentPcrs ends
\* also on a TPM without the bank.  The test client's own copy of it does
\* not, which is the one exception.
CallsReturn ==
  (code # << >> /\ ~(call = "unseal" /\ "sha256" \notin banks)) ~> (code = << >>)
=============================================================================
