------------------------ MODULE SecureKeyReleaseProofs ------------------------
(***************************************************************************)
(* Proofs about SecureKeyRelease, for every set of batches, of any length, *)
(* and any number of PCR extends.                                          *)
(*                                                                         *)
(* The properties speak of the process that has ended.  They are inductive *)
(* only with a table of what a running process holds at each point: which  *)
(* stages are behind it, which allocations are alive, whether the client   *)
(* of the library is, and what the loop over the batch has done.           *)
(***************************************************************************)
EXTENDS SecureKeyRelease, TLAPS

-----------------------------------------------------------------------------
(* The inductive invariant *)

\* The points before the token of the attestation service was accepted, and
\* so on for every stage
BeforeAttested ==
  {"start", "options", "dispatch", "read_batch", "get_maa_token", "attest", "check_token"}
Attested == {"access", "imds", "aad"}
Authorised == {"release", "vault"}
Released == {"parse", "init_decrypt", "decrypt", "unwrap_aes", "parse_key"}
Opened == {"use", "entries"}

\* The stages behind the process, by where it is
StageTable ==
  /\ pc \in BeforeAttested => passed = {}
  /\ pc \in Attested => passed = {"attested"}
  /\ pc \in Authorised => passed = {"attested", "authorised"}
  /\ pc \in Released => passed = {"attested", "authorised", "released"}
  /\ pc \in Opened => passed = Stage

\* The points at which something is allocated, and what it is
Requesting == {"imds", "aad", "vault"}
HeldTable ==
  /\ pc = "check_token" => held = {"jwt"}
  /\ pc \in Requesting => held = {"request"}
  /\ pc = "unwrap_aes" => held = {"transfer_key"}
  /\ pc = "parse_key" => held = {"private_key"}
  /\ pc \in Opened => held = {"pkey"}
  /\ pc \notin Requesting \cup Opened \cup {"check_token", "unwrap_aes", "parse_key", "exited"}
       => held = {}

\* The client lives between Initialize and Uninitialize, and the logger is the
\* first one from the first Initialize on
Living == {"attest", "check_token", "decrypt", "unwrap_aes", "parse_key"}
ClientTable ==
  /\ pc \in Living => client
  /\ pc \notin Living \cup {"exited"} => ~client
  /\ pc \notin (BeforeAttested \ {"attest", "check_token"}) \cup {"exited"} => logger = "first"
  /\ pc \in BeforeAttested \ {"attest", "check_token"} => logger = "none"

\* The loop over the batch keeps every result in its place
LoopTable ==
  /\ pc \notin {"entries", "exited"} => results = << >>
  /\ pc = "entries" =>
       /\ cmd.op = "BatchUnwrap"
       /\ \A i \in 1..Len(results) : results[i] = Unwrapped(batch[i])

\* A running process has no status and has printed no result
RunningTable == pc # "exited" => status = Running /\ stdout \subseteq {"tracing"}

\* What the properties say of an exit with this code, leaving this behind
CodeFits(code, stages) ==
  /\ code = EXIT_OK => stages = Stage
  /\ code = EXIT_ATTEST_FAIL => stages = {}
  /\ code = EXIT_AUTH_FAIL => stages = {"attested"}
  /\ code = EXIT_CRYPTO_FAIL => "released" \in stages
  /\ code = EXIT_NETWORK_FAIL => "attested" \in stages /\ "released" \notin stages

LeftFits(code, stages, op, left, living) ==
  /\ code = EXIT_OK => left = {} /\ ~living
  /\ left \cap {"transfer_key", "private_key"} # {} =>
       code = EXIT_CRYPTO_FAIL /\ living /\ "opened" \notin stages
  /\ "pkey" \in left =>
       /\ code \in {EXIT_CRYPTO_FAIL, EXIT_FAILURE}
       /\ op \in {"WrapKey", "UnwrapKey", "BatchUnwrap"}
       /\ stages = Stage
  /\ living => "jwt" \in left \/ "transfer_key" \in left

Ended ==
  pc = "exited" =>
    /\ CodeFits(status, passed)
    /\ LeftFits(status, passed, cmd.op, held, client)
    /\ BatchAllOrNothing

Inv ==
  /\ TypeOK
  /\ StageTable
  /\ HeldTable
  /\ ClientTable
  /\ LoopTable
  /\ RunningTable
  /\ Ended

-----------------------------------------------------------------------------
(* Three kinds of steps *)

Failures == {EXIT_FAILURE, EXIT_ATTEST_FAIL, EXIT_AUTH_FAIL, EXIT_SKR_FAIL,
             EXIT_CRYPTO_FAIL, EXIT_NETWORK_FAIL, ExitMinusOne}
Loggers == {"none", "first", "second"}

\* A step to another point before the loop keeps the invariant if the tables
\* that it touches have the right row for the point it goes to
LEMMA GotoStep ==
  ASSUME Inv, NEW point \in PC \ {"exited", "entries"}, pc \notin {"exited", "entries"},
         Goto(point),
         held' \in SUBSET Held, client' \in BOOLEAN, logger' \in Loggers,
         target' \in 0..MaxExtends, passed' \in SUBSET Stage,
         StageTable', HeldTable', ClientTable'
  PROVE  Inv'
<1>1. TypeOK'
  BY DEF Inv, TypeOK, Goto, Loggers
<1>2. LoopTable' /\ RunningTable' /\ Ended'
  BY DEF Inv, LoopTable, RunningTable, Ended, Goto
<1> QED
  BY <1>1, <1>2 DEF Inv

\* An exit with an error keeps it if the code fits the stages that are behind
\* the process and what is left fits the code
LEMMA FailStep ==
  ASSUME Inv, pc # "exited", NEW code \in Failures, NEW out \in {{}, {"usage"}},
         Exit(code, out),
         held' \in SUBSET Held, client' \in BOOLEAN, logger' \in Loggers,
         CodeFits(code, passed), LeftFits(code, passed, cmd.op, held', client')
  PROVE  Inv'
<1>1. code # EXIT_OK /\ code # Running
  BY DEF Failures, EXIT_OK, Running, EXIT_FAILURE, EXIT_ATTEST_FAIL, EXIT_AUTH_FAIL,
         EXIT_SKR_FAIL, EXIT_CRYPTO_FAIL, EXIT_NETWORK_FAIL, ExitMinusOne
<1>2. /\ pc' = "exited" /\ status' = code /\ stdout' = stdout \cup out
      /\ UNCHANGED <<cmd, trusted, pcrs, target, passed, batch, results>>
  BY DEF Exit
<1>3. /\ stdout' \subseteq {"tracing", "usage"}
      /\ stdout' \cap {"wrapped", "key", "cut", "results"} = {}
  BY <1>2 DEF Inv, RunningTable
<1>4. TypeOK'
  <2>1. status' \in {EXIT_OK, EXIT_USAGE, EXIT_ATTEST_FAIL, EXIT_AUTH_FAIL, EXIT_SKR_FAIL,
                     EXIT_CRYPTO_FAIL, EXIT_NETWORK_FAIL, ExitMinusOne, Running}
    BY <1>2 DEF Failures, EXIT_USAGE, EXIT_FAILURE
  <2> QED
    BY <1>2, <1>3, <2>1 DEF Inv, TypeOK, Loggers, PC
<1>5. StageTable' /\ HeldTable' /\ ClientTable' /\ LoopTable' /\ RunningTable'
  BY <1>2 DEF StageTable, HeldTable, ClientTable, LoopTable, RunningTable, BeforeAttested,
     Attested, Authorised, Released, Opened, Requesting, Living
<1>6. BatchAllOrNothing'
  BY <1>1, <1>2, <1>3 DEF BatchAllOrNothing
<1>7. Ended'
  BY <1>2, <1>6 DEF Ended
<1> QED
  BY <1>4, <1>5, <1>7 DEF Inv

\* A successful end of an operation that prints no batch
LEMMA SuccessStep ==
  ASSUME Inv, pc = "use", cmd.op # "BatchUnwrap", NEW out \in SUBSET {"wrapped", "key", "cut"},
         Exit(EXIT_OK, out), held' = held \ {"pkey"}, UNCHANGED <<client, logger>>
  PROVE  Inv'
<1>1. /\ pc' = "exited" /\ status' = EXIT_OK /\ stdout' = stdout \cup out
      /\ UNCHANGED <<cmd, trusted, pcrs, target, passed, batch, results>>
  BY DEF Exit
<1>2. held' = {} /\ ~client /\ passed = Stage /\ stdout \subseteq {"tracing"}
  BY DEF Inv, HeldTable, ClientTable, StageTable, RunningTable, Opened, Living
<1>3. "results" \notin stdout'
  BY <1>1, <1>2
<1>4. TypeOK'
  BY <1>1, <1>2 DEF Inv, TypeOK, PC
<1>5. StageTable' /\ HeldTable' /\ ClientTable' /\ LoopTable' /\ RunningTable'
  BY <1>1 DEF StageTable, HeldTable, ClientTable, LoopTable, RunningTable, BeforeAttested,
     Attested, Authorised, Released, Opened, Requesting, Living
<1>6. BatchAllOrNothing'
  BY <1>1, <1>3 DEF BatchAllOrNothing
<1>7. CodeFits(EXIT_OK, passed) /\ LeftFits(EXIT_OK, passed, cmd.op, held', client)
  BY <1>2 DEF CodeFits, LeftFits, EXIT_OK, EXIT_ATTEST_FAIL, EXIT_AUTH_FAIL, EXIT_SKR_FAIL,
     EXIT_CRYPTO_FAIL, EXIT_NETWORK_FAIL
<1>8. Ended'
  BY <1>1, <1>6, <1>7 DEF Ended
<1> QED
  BY <1>4, <1>5, <1>8 DEF Inv

-----------------------------------------------------------------------------
(* The rows of the tables and the exceptions *)

\* The exit codes are the numbers that they are
USE DEF EXIT_OK, EXIT_USAGE, EXIT_FAILURE, EXIT_ATTEST_FAIL, EXIT_AUTH_FAIL,
        EXIT_SKR_FAIL, EXIT_CRYPTO_FAIL, EXIT_NETWORK_FAIL, ExitMinusOne, Running,
        StdException

\* An exception in a state whose client is gone, and that leaves no key behind:
\* only the code has to fit
LEMMA QuietThrow ==
  ASSUME Inv, pc # "exited", NEW e \in Failures \cup {StdException},
         NEW left \in SUBSET {"request", "ctx"},
         Throw(e, left), ~client, CodeFits(Caught(e), passed)
  PROVE  Inv'
<1>1. Caught(e) \in Failures
  BY DEF Caught, Failures
<1>2. Exit(Caught(e), {}) /\ held' = left /\ UNCHANGED <<client, logger>>
  BY DEF Throw
<1>3. LeftFits(Caught(e), passed, cmd.op, held', client')
  BY <1>1, <1>2 DEF LeftFits, Failures
<1>4. held' \in SUBSET Held /\ client' \in BOOLEAN /\ logger' \in Loggers
  BY <1>2 DEF Inv, TypeOK, Held, Loggers
<1> QED
  BY <1>1, <1>2, <1>3, <1>4, FailStep

\* The same for an exception after Uninitialize
LEMMA QuietThrowUninitialized ==
  ASSUME Inv, pc # "exited", NEW e \in Failures,
         NEW left \in SUBSET {"request", "ctx"},
         ThrowUninitialized(e, left), CodeFits(e, passed)
  PROVE  Inv'
<1>1. Caught(e) = e
  BY DEF Caught, Failures
<1>2. Exit(e, {}) /\ held' = left /\ client' = FALSE /\ UNCHANGED logger
  BY <1>1 DEF ThrowUninitialized
<1>3. LeftFits(e, passed, cmd.op, held', client')
  BY <1>2 DEF LeftFits, Failures
<1>4. held' \in SUBSET Held /\ client' \in BOOLEAN /\ logger' \in Loggers
  BY <1>2 DEF Inv, TypeOK, Held, Loggers
<1> QED
  BY <1>2, <1>3, <1>4, FailStep

-----------------------------------------------------------------------------
(* The command line *)

\* Start, the options, and the reading of a batch
LEMMA CommandLineStep ==
  ASSUME Inv, Start \/ Option \/ BadOption \/ EndOfOptions \/ Dispatch \/ ReadBatch
  PROVE  Inv'
<1>1. CASE Start
  <2>1. trusted' \in BOOLEAN
    BY <1>1 DEF Start, ensure_ca_bundle
  <2>2. PICK flag \in {"unset", "on", "invalid"} : set_tracing(flag)
    BY <1>1 DEF Start
  <2>3. /\ pc = "start"
        /\ UNCHANGED <<cmd, client, logger, held, pcrs, target, passed, batch, results>>
    BY <1>1 DEF Start
  <2>4. /\ passed = {} /\ held = {} /\ ~client /\ logger = "none" /\ results = << >>
        /\ status = Running /\ stdout \subseteq {"tracing"}
    BY <2>3 DEF Inv, LoopTable, RunningTable, StageTable, HeldTable, ClientTable, BeforeAttested, Attested,
     Authorised, Released, Opened, Requesting, Living
  <2>5. CASE flag = "invalid"
    <3>1. pc' = "exited" /\ status' = ExitMinusOne /\ UNCHANGED stdout
      BY <2>2, <2>5 DEF set_tracing
    <3>2. TypeOK'
      BY <2>1, <2>3, <3>1 DEF Inv, TypeOK, PC
    <3>3. StageTable' /\ HeldTable' /\ ClientTable' /\ LoopTable' /\ RunningTable'
      BY <3>1 DEF LoopTable, RunningTable, StageTable, HeldTable, ClientTable, BeforeAttested, Attested,
     Authorised, Released, Opened, Requesting, Living
    <3>4. Ended'
      BY <2>3, <2>4, <3>1 DEF Ended, CodeFits, LeftFits, BatchAllOrNothing
    <3> QED
      BY <3>2, <3>3, <3>4 DEF Inv
  <2>6. CASE flag # "invalid"
    <3>1. pc' = "options" /\ status' = status /\ stdout' \subseteq {"tracing"}
      BY <2>2, <2>4, <2>6 DEF set_tracing
    <3>2. TypeOK'
      BY <2>1, <2>3, <3>1 DEF Inv, TypeOK, PC
    <3>3. StageTable' /\ HeldTable' /\ ClientTable'
      BY <2>3, <2>4, <3>1 DEF StageTable, HeldTable, ClientTable, BeforeAttested, Attested,
     Authorised, Released, Opened, Requesting, Living
    <3>4. LoopTable' /\ RunningTable' /\ Ended'
      BY <2>3, <2>4, <3>1 DEF LoopTable, RunningTable, Ended
    <3> QED
      BY <3>2, <3>3, <3>4 DEF Inv
  <2> QED
    BY <2>5, <2>6
<1>2. CASE Option
  <2>1. /\ pc = "options" /\ cmd' \in Options
        /\ UNCHANGED <<pc, trusted, client, logger, held, pcrs, target, passed, batch,
                       results, stdout, status>>
    BY <1>2 DEF Option
  <2>2. cmd' \in Cmd
    BY <2>1 DEF Options, Inv, TypeOK, Cmd, Operation, AkvCredentialSource
  <2>3. TypeOK'
    BY <2>1, <2>2 DEF Inv, TypeOK
  <2>4. StageTable' /\ HeldTable' /\ ClientTable'
    BY <2>1 DEF Inv, StageTable, HeldTable, ClientTable
  <2>5. LoopTable' /\ RunningTable' /\ Ended'
    BY <2>1 DEF Inv, LoopTable, RunningTable, Ended
  <2> QED
    BY <2>3, <2>4, <2>5 DEF Inv
<1>3. ASSUME pc \in {"options", "dispatch", "read_batch"}
      PROVE  passed = {} /\ held = {} /\ ~client /\ logger = "none"
  BY <1>3 DEF Inv, StageTable, HeldTable, ClientTable, BeforeAttested, Attested,
     Authorised, Released, Opened, Requesting, Living
<1>4. ASSUME pc \in {"options", "dispatch", "read_batch"},
             NEW out \in {{}, {"usage"}}, Exit(EXIT_FAILURE, out),
             UNCHANGED <<held, client, logger>>
      PROVE  Inv'
  <2>1. CodeFits(EXIT_FAILURE, passed) /\ LeftFits(EXIT_FAILURE, passed, cmd.op, held', client')
    BY <1>3, <1>4 DEF CodeFits, LeftFits
  <2>2. held' \in SUBSET Held /\ client' \in BOOLEAN /\ logger' \in Loggers
    BY <1>4 DEF Inv, TypeOK, Loggers
  <2>3. EXIT_FAILURE \in Failures /\ pc # "exited"
    BY <1>4 DEF Failures
  <2> QED
    BY <1>4, <2>1, <2>2, <2>3, FailStep
<1>5. ASSUME pc \in {"options", "dispatch"}, NEW point \in {"dispatch", "read_batch", "get_maa_token"},
             Goto(point), UNCHANGED <<client, logger, held, target, passed>>
      PROVE  Inv'
  <2>1. StageTable' /\ HeldTable' /\ ClientTable'
    BY <1>3, <1>5 DEF Goto, StageTable, HeldTable, ClientTable, BeforeAttested, Attested,
     Authorised, Released, Opened, Requesting, Living
  <2>2. point \in PC \ {"exited", "entries"} /\ pc \notin {"exited", "entries"}
    BY <1>5 DEF PC, DoSkr
  <2> QED
    BY <1>5, <2>1, <2>2, GotoStep DEF Inv, TypeOK, Loggers
<1>6. CASE BadOption
  BY <1>4, <1>6 DEF BadOption
<1>7. CASE EndOfOptions
  BY <1>5, <1>7 DEF EndOfOptions
<1>8. CASE Dispatch
  BY <1>4, <1>5, <1>8 DEF Dispatch
<1>9. CASE ReadBatch
  <2>1. CASE Exit(EXIT_USAGE, {}) /\ UNCHANGED <<held, client, logger>>
    BY <1>4, <1>9, <2>1 DEF ReadBatch
  <2>2. CASE /\ batch' \in Batches
             /\ pc' = "get_maa_token"
             /\ UNCHANGED <<cmd, trusted, client, logger, held, pcrs, target, passed,
                            results, stdout, status>>
    <3>1. pc = "read_batch" /\ results = << >>
      BY <1>9 DEF ReadBatch, Inv, LoopTable
    <3>2. Len(batch') \in Nat
      BY <2>2, ConstantsAssumption
    <3>3. TypeOK'
      BY <2>2, <3>1, <3>2 DEF Inv, TypeOK, PC, DoSkr
    <3>4. StageTable' /\ HeldTable' /\ ClientTable'
      BY <1>3, <2>2, <3>1 DEF StageTable, HeldTable, ClientTable, BeforeAttested, Attested,
     Authorised, Released, Opened, Requesting, Living
    <3>5. LoopTable' /\ RunningTable' /\ Ended'
      BY <2>2, <3>1 DEF Inv, LoopTable, RunningTable, Ended
    <3> QED
      BY <3>3, <3>4, <3>5 DEF Inv
  <2> QED
    BY <1>9, <2>1, <2>2 DEF ReadBatch
<1> QED
  BY <1>1, <1>2, <1>6, <1>7, <1>8, <1>9

-----------------------------------------------------------------------------
(* GetMAAToken *)

\* The first Initialize, Attest, and the look at the token
LEMMA AttestStep ==
  ASSUME Inv, InitializeForAttest \/ Attest \/ CheckToken
  PROVE  Inv'
<1> USE DEF Held, Loggers, Failures
<1>1. CASE InitializeForAttest
  <2>1. pc = "get_maa_token" /\ passed = {} /\ held = {} /\ ~client /\ logger = "none"
    BY <1>1 DEF InitializeForAttest, Inv, StageTable, HeldTable, ClientTable, BeforeAttested, Attested,
     Authorised, Released, Opened, Requesting, Living
  <2>2. CASE Goto("attest") /\ Initialize("first") /\ UNCHANGED <<held, target, passed>>
    <3>1. client' = TRUE /\ logger' = "first"
      BY <2>1, <2>2 DEF Initialize, SetLogger
    <3>2. StageTable' /\ HeldTable' /\ ClientTable'
      BY <2>1, <2>2, <3>1 DEF Goto, StageTable, HeldTable, ClientTable, BeforeAttested, Attested,
     Authorised, Released, Opened, Requesting, Living
    <3>3. "attest" \in PC \ {"exited", "entries"} /\ pc \notin {"exited", "entries"}
      BY <2>1 DEF PC, DoSkr
    <3> QED
      BY <2>2, <3>1, <3>2, <3>3, GotoStep DEF Inv, TypeOK
  <2>3. CASE InitializeFails(EXIT_ATTEST_FAIL, "first")
    <3>1. /\ Exit(EXIT_ATTEST_FAIL, {}) /\ client' = FALSE /\ logger' = "first"
          /\ UNCHANGED held
      BY <2>1, <2>3 DEF InitializeFails, Caught, SetLogger
    <3>2. /\ CodeFits(EXIT_ATTEST_FAIL, passed)
          /\ LeftFits(EXIT_ATTEST_FAIL, passed, cmd.op, held', client')
      BY <2>1, <3>1 DEF CodeFits, LeftFits
    <3> QED
      BY <2>1, <3>1, <3>2, FailStep
  <2> QED
    BY <1>1, <2>2, <2>3 DEF InitializeForAttest
<1>2. CASE Attest
  <2>1. pc = "attest" /\ passed = {} /\ held = {} /\ client /\ logger = "first"
    BY <1>2 DEF Attest, Inv, StageTable, HeldTable, ClientTable, BeforeAttested, Attested,
     Authorised, Released, Opened, Requesting, Living
  <2>2. CASE /\ Goto("check_token") /\ held' = held \cup {"jwt"} /\ target' = pcrs
             /\ UNCHANGED <<client, logger, passed>>
    <3>1. StageTable' /\ HeldTable' /\ ClientTable'
      BY <2>1, <2>2 DEF Goto, StageTable, HeldTable, ClientTable, BeforeAttested, Attested,
     Authorised, Released, Opened, Requesting, Living
    <3>2. "check_token" \in PC \ {"exited", "entries"} /\ pc \notin {"exited", "entries"}
      BY <2>1 DEF PC, DoSkr
    <3>3. held' \in SUBSET Held
      BY <2>1, <2>2
    <3> QED
      BY <2>2, <3>1, <3>2, <3>3, GotoStep DEF Inv, TypeOK
  <2>3. CASE ThrowUninitialized(EXIT_ATTEST_FAIL, held)
    <3>1. CodeFits(EXIT_ATTEST_FAIL, passed)
      BY <2>1 DEF CodeFits
    <3> QED
      BY <2>1, <2>3, <3>1, QuietThrowUninitialized
  <2> QED
    BY <1>2, <2>2, <2>3 DEF Attest
<1>3. CASE CheckToken
  <2>1. pc = "check_token" /\ passed = {} /\ held = {"jwt"} /\ client /\ logger = "first"
    BY <1>3 DEF CheckToken, Inv, StageTable, HeldTable, ClientTable, BeforeAttested, Attested,
     Authorised, Released, Opened, Requesting, Living
  <2>2. CASE ThrowUninitialized(EXIT_ATTEST_FAIL, held \ {"jwt"})
    <3>1. CodeFits(EXIT_ATTEST_FAIL, passed)
      BY <2>1 DEF CodeFits
    <3>2. held \ {"jwt"} \in SUBSET {"request", "ctx"}
      BY <2>1
    <3> QED
      BY <2>1, <2>2, <3>1, <3>2, QuietThrowUninitialized
  <2>3. CASE Throw(StdException, held)
    <3>1. Exit(EXIT_SKR_FAIL, {}) /\ held' = held /\ UNCHANGED <<client, logger>>
      BY <2>1, <2>3 DEF Throw, Caught, DoSkr
    <3>2. /\ CodeFits(EXIT_SKR_FAIL, passed)
          /\ LeftFits(EXIT_SKR_FAIL, passed, cmd.op, held', client')
      BY <2>1, <3>1 DEF CodeFits, LeftFits
    <3> QED
      BY <2>1, <3>1, <3>2, FailStep DEF Inv, TypeOK
  <2>4. CASE /\ Goto("access") /\ held' = held \ {"jwt"} /\ client' = FALSE
             /\ passed' = passed \cup {"attested"} /\ UNCHANGED <<logger, target>>
    <3>1. held' = {} /\ passed' = {"attested"}
      BY <2>1, <2>4
    <3>2. StageTable' /\ HeldTable' /\ ClientTable'
      BY <2>1, <2>4, <3>1 DEF Goto, StageTable, HeldTable, ClientTable, BeforeAttested, Attested,
     Authorised, Released, Opened, Requesting, Living
    <3>3. "access" \in PC \ {"exited", "entries"} /\ pc \notin {"exited", "entries"}
      BY <2>1 DEF PC, DoSkr
    <3> QED
      BY <2>4, <3>1, <3>2, <3>3, GotoStep DEF Inv, TypeOK, Stage
  <2> QED
    BY <1>3, <2>2, <2>3, <2>4 DEF CheckToken
<1> QED
  BY <1>1, <1>2, <1>3

-----------------------------------------------------------------------------
(* The access token and the release *)

\* The handle of a request that is sent lives until the answer is there
LEMMA SendStep ==
  ASSUME Inv, NEW from \in {"access", "release"}, NEW point \in Requesting, pc = from,
         from = "access" => point \in {"imds", "aad"},
         from = "release" => point = "vault",
         Goto(point), held' = held \cup {"request"},
         UNCHANGED <<client, logger, target, passed>>
  PROVE  Inv'
<1>1. held = {} /\ ~client /\ logger = "first"
  BY DEF Inv, StageTable, HeldTable, ClientTable, BeforeAttested, Attested,
     Authorised, Released, Opened, Requesting, Living
<1>2. held' = {"request"} /\ pc' = point
  BY <1>1 DEF Goto
<1>3. StageTable'
  BY <1>2 DEF Inv, StageTable, HeldTable, ClientTable, BeforeAttested, Attested,
     Authorised, Released, Opened, Requesting, Living
<1>4. HeldTable' /\ ClientTable'
  BY <1>1, <1>2 DEF StageTable, HeldTable, ClientTable, BeforeAttested, Attested,
     Authorised, Released, Opened, Requesting, Living
<1>5. point \in PC \ {"exited", "entries"} /\ pc \notin {"exited", "entries"}
  BY DEF PC, DoSkr, Requesting
<1> QED
  BY <1>2, <1>3, <1>4, <1>5, GotoStep DEF Inv, TypeOK, Held, Loggers

\* GetIMDSToken and GetAADToken up to the request, and their absence
LEMMA AccessStep ==
  ASSUME Inv, SendToImds \/ SendToAad \/ SkipAccessToken
  PROVE  Inv'
<1> USE DEF Failures
<1>1. pc = "access" /\ passed = {"attested"} /\ held = {} /\ ~client /\ logger = "first"
  <2>1. pc = "access"
    BY DEF SendToImds, SendToAad, SkipAccessToken
  <2> QED
    BY <2>1 DEF Inv, StageTable, HeldTable, ClientTable, BeforeAttested, Attested,
     Authorised, Released, Opened, Requesting, Living
<1>2. ASSUME NEW e \in {EXIT_NETWORK_FAIL, EXIT_USAGE, EXIT_AUTH_FAIL},
             NEW left \in {held, held \cup {"request"}}, Throw(e, left)
      PROVE  Inv'
  <2>1. CodeFits(Caught(e), passed)
    BY <1>1 DEF CodeFits, Caught
  <2>2. left \in SUBSET {"request", "ctx"}
    BY <1>1
  <2> QED
    BY <1>1, <1>2, <2>1, <2>2, QuietThrow
<1>3. ASSUME NEW point \in {"imds", "aad"}, Goto(point), held' = held \cup {"request"},
             UNCHANGED <<client, logger, target, passed>>
      PROVE  Inv'
  BY <1>1, <1>3, SendStep DEF Requesting
<1>4. CASE SendToImds
  BY <1>2, <1>3, <1>4 DEF SendToImds, GetImdsTokenUrl, url_encode
<1>5. CASE SendToAad
  BY <1>2, <1>3, <1>5 DEF SendToAad
<1>6. CASE SkipAccessToken
  <2>1. /\ Goto("release") /\ passed' = {"attested", "authorised"}
        /\ UNCHANGED <<client, logger, held, target>>
    BY <1>1, <1>6 DEF SkipAccessToken
  <2>2. StageTable' /\ HeldTable' /\ ClientTable'
    BY <1>1, <2>1 DEF Goto, StageTable, HeldTable, ClientTable, BeforeAttested, Attested,
     Authorised, Released, Opened, Requesting, Living
  <2>3. "release" \in PC \ {"exited", "entries"} /\ pc \notin {"exited", "entries"}
    BY <1>1 DEF PC, DoSkr
  <2> QED
    BY <2>1, <2>2, <2>3, GotoStep DEF Inv, TypeOK, Stage, Loggers
<1> QED
  BY <1>4, <1>5, <1>6

\* An answer with the access token: the handle is freed on every path
LEMMA TokenAnswerStep ==
  ASSUME Inv, NEW waiting \in {"imds", "aad"},
         NEW errors \in {ImdsErrors, AadErrors}, TokenAnswer(waiting, errors)
  PROVE  Inv'
<1>1. /\ pc = waiting /\ passed = {"attested"} /\ held = {"request"} /\ ~client
      /\ logger = "first"
  <2>1. pc = waiting
    BY DEF TokenAnswer
  <2> QED
    BY <2>1 DEF Inv, StageTable, HeldTable, ClientTable, BeforeAttested, Attested,
     Authorised, Released, Opened, Requesting, Living
<1>2. ASSUME NEW e \in errors, Throw(e, held \ {"request"})
      PROVE  Inv'
  <2>1. e \in {EXIT_NETWORK_FAIL, EXIT_AUTH_FAIL, StdException}
    BY <1>2 DEF ImdsErrors, AadErrors
  <2>2. CodeFits(Caught(e), passed)
    BY <1>1, <2>1 DEF CodeFits, Caught, DoSkr
  <2>3. held \ {"request"} \in SUBSET {"request", "ctx"}
    BY <1>1
  <2>4. e \in Failures \cup {StdException}
    BY <2>1 DEF Failures
  <2> QED
    BY <1>1, <1>2, <2>2, <2>3, <2>4, QuietThrow
<1>3. CASE /\ Goto("release") /\ held' = held \ {"request"}
           /\ passed' = passed \cup {"authorised"} /\ UNCHANGED <<client, logger, target>>
  <2>1. held' = {} /\ passed' = {"attested", "authorised"}
    BY <1>1, <1>3
  <2>2. StageTable' /\ HeldTable' /\ ClientTable'
    BY <1>1, <1>3, <2>1 DEF Goto, StageTable, HeldTable, ClientTable, BeforeAttested, Attested,
     Authorised, Released, Opened, Requesting, Living
  <2>3. "release" \in PC \ {"exited", "entries"} /\ pc \notin {"exited", "entries"}
    BY <1>1 DEF PC, DoSkr
  <2> QED
    BY <1>3, <2>1, <2>2, <2>3, GotoStep DEF Inv, TypeOK, Stage, Held, Loggers
<1> QED
  BY <1>2, <1>3 DEF TokenAnswer

\* The request to Key Vault, its answer, and the parsing of the answer
LEMMA ReleaseStep ==
  ASSUME Inv, GetKeyVaultResponse \/ VaultAnswer \/ ParseSkrToken
  PROVE  Inv'
<1> USE DEF Failures
<1>1. ASSUME pc \in {"release", "vault"}, Goto("parse"), held' = {},
             passed' = passed \cup {"released"}, UNCHANGED <<client, logger, target>>
      PROVE  Inv'
  <2>1. passed' = {"attested", "authorised", "released"} /\ ~client /\ logger = "first"
    BY <1>1 DEF Inv, StageTable, HeldTable, ClientTable, BeforeAttested, Attested,
     Authorised, Released, Opened, Requesting, Living
  <2>2. StageTable' /\ HeldTable' /\ ClientTable'
    BY <1>1, <2>1 DEF Goto, StageTable, HeldTable, ClientTable, BeforeAttested, Attested,
     Authorised, Released, Opened, Requesting, Living
  <2>3. "parse" \in PC \ {"exited", "entries"} /\ pc \notin {"exited", "entries"}
    BY <1>1 DEF PC, DoSkr
  <2> QED
    BY <1>1, <2>1, <2>2, <2>3, GotoStep DEF Inv, TypeOK, Stage, Held, Loggers
<1>2. CASE GetKeyVaultResponse
  <2>1. /\ pc = "release" /\ passed = {"attested", "authorised"} /\ held = {} /\ ~client
        /\ logger = "first"
    BY <1>2 DEF GetKeyVaultResponse, Inv, StageTable, HeldTable, ClientTable, BeforeAttested, Attested,
     Authorised, Released, Opened, Requesting, Living
  <2>2. ASSUME NEW e \in {EXIT_NETWORK_FAIL, EXIT_SKR_FAIL},
               NEW left \in {held, held \cup {"request"}}, Throw(e, left)
        PROVE  Inv'
    <3>1. CodeFits(Caught(e), passed)
      BY <2>1 DEF CodeFits, Caught
    <3>2. left \in SUBSET {"request", "ctx"}
      BY <2>1
    <3> QED
      BY <2>1, <2>2, <3>1, <3>2, QuietThrow
  <2>3. ASSUME Goto("vault"), held' = held \cup {"request"},
               UNCHANGED <<client, logger, target, passed>>
        PROVE  Inv'
    BY <2>1, <2>3, SendStep DEF Requesting
  <2>4. CASE PostWithCurl
    BY <2>2, <2>3, <2>4 DEF PostWithCurl
  <2>5. CASE PostWithWinHttp
    BY <2>2, <2>3, <2>5 DEF PostWithWinHttp
  <2>6. CASE ReleaseAkvKey
    BY <1>1, <2>1, <2>2, <2>6 DEF ReleaseAkvKey
  <2> QED
    BY <1>2, <2>4, <2>5, <2>6 DEF GetKeyVaultResponse
<1>3. CASE VaultAnswer
  <2>1. /\ pc = "vault" /\ passed = {"attested", "authorised"} /\ held = {"request"}
        /\ ~client /\ logger = "first"
    BY <1>3 DEF VaultAnswer, Inv, StageTable, HeldTable, ClientTable, BeforeAttested, Attested,
     Authorised, Released, Opened, Requesting, Living
  <2>2. held \ {"request"} = {}
    BY <2>1
  <2>3. ASSUME NEW e \in VaultErrors, Throw(e, held \ {"request"})
        PROVE  Inv'
    <3>1. CodeFits(Caught(e), passed) /\ e \in Failures
      BY <2>1 DEF CodeFits, Caught, VaultErrors
    <3> QED
      BY <2>1, <2>2, <2>3, <3>1, QuietThrow
  <2> QED
    BY <1>1, <1>3, <2>1, <2>2, <2>3 DEF VaultAnswer
<1>4. CASE ParseSkrToken
  <2>1. /\ pc = "parse" /\ passed = {"attested", "authorised", "released"} /\ held = {}
        /\ ~client /\ logger = "first"
    BY <1>4 DEF ParseSkrToken, Inv, StageTable, HeldTable, ClientTable, BeforeAttested, Attested,
     Authorised, Released, Opened, Requesting, Living
  <2>2. ASSUME NEW e \in {StdException, EXIT_SKR_FAIL}, Throw(e, held)
        PROVE  Inv'
    <3>1. CodeFits(Caught(e), passed)
      BY <2>1 DEF CodeFits, Caught, DoSkr
    <3> QED
      BY <2>1, <2>2, <3>1, QuietThrow
  <2>3. CASE Goto("init_decrypt") /\ UNCHANGED <<client, logger, held, target, passed>>
    <3>1. StageTable' /\ HeldTable' /\ ClientTable'
      BY <2>1, <2>3 DEF Goto, StageTable, HeldTable, ClientTable, BeforeAttested, Attested,
     Authorised, Released, Opened, Requesting, Living
    <3>2. "init_decrypt" \in PC \ {"exited", "entries"} /\ pc \notin {"exited", "entries"}
      BY <2>1 DEF PC, DoSkr
    <3> QED
      BY <2>3, <3>1, <3>2, GotoStep DEF Inv, TypeOK, Loggers
  <2> QED
    BY <1>4, <2>2, <2>3 DEF ParseSkrToken
<1> QED
  BY <1>2, <1>3, <1>4

-----------------------------------------------------------------------------
(* Opening the key *)

\* The second Initialize, which keeps the first logger; the transfer key; the
\* private key; the parsed key
LEMMA OpenStep ==
  ASSUME Inv,
         InitializeForDecrypt \/ DecryptTransferKey \/ decrypt_aes_key_unwrap \/ ParsePrivateKey
  PROVE  Inv'
<1> DEFINE Stages == {"attested", "authorised", "released"}
<1> USE DEF Failures, Loggers
<1>1. ASSUME NEW e \in {EXIT_SKR_FAIL, EXIT_CRYPTO_FAIL} PROVE CodeFits(e, Stages)
  BY DEF CodeFits
<1>2. ASSUME NEW point \in {"decrypt", "unwrap_aes", "parse_key"}
      PROVE  point \in PC \ {"exited", "entries"}
  BY DEF PC, DoSkr
<1>3. CASE InitializeForDecrypt
  <2>1. pc = "init_decrypt" /\ passed = Stages /\ held = {} /\ ~client /\ logger = "first"
    BY <1>3 DEF InitializeForDecrypt, Inv, StageTable, HeldTable, ClientTable, BeforeAttested, Attested,
     Authorised, Released, Opened, Requesting, Living
  <2>2. CASE Goto("decrypt") /\ Initialize("second") /\ UNCHANGED <<held, target, passed>>
    <3>1. client' = TRUE /\ logger' = "first"
      BY <2>1, <2>2 DEF Initialize, SetLogger
    <3>2. StageTable' /\ HeldTable' /\ ClientTable'
      BY <2>1, <2>2, <3>1 DEF Goto, StageTable, HeldTable, ClientTable, BeforeAttested, Attested,
     Authorised, Released, Opened, Requesting, Living
    <3> QED
      BY <1>2, <2>1, <2>2, <3>1, <3>2, GotoStep DEF Inv, TypeOK
  <2>3. CASE InitializeFails(EXIT_SKR_FAIL, "second")
    <3>1. /\ Exit(EXIT_SKR_FAIL, {}) /\ client' = FALSE /\ logger' = "first"
          /\ UNCHANGED held
      BY <2>1, <2>3 DEF InitializeFails, Caught, SetLogger
    <3>2. LeftFits(EXIT_SKR_FAIL, passed, cmd.op, held', client')
      BY <2>1, <3>1 DEF LeftFits
    <3> QED
      BY <1>1, <2>1, <3>1, <3>2, FailStep
  <2> QED
    BY <1>3, <2>2, <2>3 DEF InitializeForDecrypt
<1>4. CASE DecryptTransferKey
  <2>1. pc = "decrypt" /\ passed = Stages /\ held = {} /\ client /\ logger = "first"
    BY <1>4 DEF DecryptTransferKey, Inv, StageTable, HeldTable, ClientTable, BeforeAttested, Attested,
     Authorised, Released, Opened, Requesting, Living
  <2>2. CASE /\ Goto("unwrap_aes") /\ held' = held \cup {"transfer_key"}
             /\ UNCHANGED <<client, logger, target, passed>>
    <3>1. held' = {"transfer_key"}
      BY <2>1, <2>2
    <3>2. StageTable' /\ HeldTable' /\ ClientTable'
      BY <2>1, <2>2, <3>1 DEF Goto, StageTable, HeldTable, ClientTable, BeforeAttested, Attested,
     Authorised, Released, Opened, Requesting, Living
    <3> QED
      BY <1>2, <2>1, <2>2, <3>1, <3>2, GotoStep DEF Inv, TypeOK, Held, KeyMaterial
  <2>3. CASE ThrowUninitialized(EXIT_CRYPTO_FAIL, held)
    BY <1>1, <2>1, <2>3, QuietThrowUninitialized
  <2> QED
    BY <1>4, <2>2, <2>3 DEF DecryptTransferKey
<1>5. CASE decrypt_aes_key_unwrap
  <2>1. /\ pc = "unwrap_aes" /\ passed = Stages /\ held = {"transfer_key"} /\ client
        /\ logger = "first"
    BY <1>5 DEF decrypt_aes_key_unwrap, Inv, StageTable, HeldTable, ClientTable, BeforeAttested, Attested,
     Authorised, Released, Opened, Requesting, Living
  <2>2. held \ {"transfer_key"} = {}
    BY <2>1
  <2>3. CASE Throw(EXIT_CRYPTO_FAIL, held \cup {"ctx", "private_key"})
    <3>1. /\ Exit(EXIT_CRYPTO_FAIL, {}) /\ held' = {"transfer_key", "ctx", "private_key"}
          /\ UNCHANGED <<client, logger>>
      BY <2>1, <2>3 DEF Throw, Caught
    <3>2. LeftFits(EXIT_CRYPTO_FAIL, passed, cmd.op, held', client')
      BY <2>1, <3>1 DEF LeftFits
    <3> QED
      BY <1>1, <2>1, <3>1, <3>2, FailStep DEF Inv, TypeOK, Held, KeyMaterial
  <2>4. CASE ThrowUninitialized(EXIT_CRYPTO_FAIL, held \ {"transfer_key"})
    BY <1>1, <2>1, <2>2, <2>4, QuietThrowUninitialized
  <2>5. CASE /\ Goto("parse_key") /\ held' = (held \ {"transfer_key"}) \cup {"private_key"}
             /\ UNCHANGED <<client, logger, target, passed>>
    <3>1. held' = {"private_key"}
      BY <2>1, <2>5
    <3>2. StageTable' /\ HeldTable' /\ ClientTable'
      BY <2>1, <2>5, <3>1 DEF Goto, StageTable, HeldTable, ClientTable, BeforeAttested, Attested,
     Authorised, Released, Opened, Requesting, Living
    <3> QED
      BY <1>2, <2>1, <2>5, <3>1, <3>2, GotoStep DEF Inv, TypeOK, Held, KeyMaterial
  <2> QED
    BY <1>5, <2>3, <2>4, <2>5 DEF decrypt_aes_key_unwrap
<1>6. CASE ParsePrivateKey
  <2>1. /\ pc = "parse_key" /\ passed = Stages /\ held = {"private_key"} /\ client
        /\ logger = "first"
    BY <1>6 DEF ParsePrivateKey, Inv, StageTable, HeldTable, ClientTable, BeforeAttested, Attested,
     Authorised, Released, Opened, Requesting, Living
  <2>2. held \ {"private_key"} = {}
    BY <2>1
  <2>3. CASE ThrowUninitialized(EXIT_CRYPTO_FAIL, held \ {"private_key"})
    BY <1>1, <2>1, <2>2, <2>3, QuietThrowUninitialized
  <2>4. CASE /\ Goto("use") /\ held' = (held \ {"private_key"}) \cup {"pkey"}
             /\ client' = FALSE /\ passed' = passed \cup {"opened"}
             /\ UNCHANGED <<logger, target>>
    <3>1. held' = {"pkey"} /\ passed' = Stage
      BY <2>1, <2>4 DEF Stage
    <3>2. StageTable' /\ HeldTable' /\ ClientTable'
      BY <2>1, <2>4, <3>1 DEF Goto, StageTable, HeldTable, ClientTable, BeforeAttested, Attested,
     Authorised, Released, Opened, Requesting, Living
    <3>3. "use" \in PC \ {"exited", "entries"}
      BY DEF PC
    <3> QED
      BY <2>1, <2>4, <3>1, <3>2, <3>3, GotoStep DEF Inv, TypeOK, Held, KeyMaterial
  <2> QED
    BY <1>6, <2>3, <2>4 DEF ParsePrivateKey
<1> QED
  BY <1>3, <1>4, <1>5, <1>6

-----------------------------------------------------------------------------
(* Using the key *)

\* An operation that fails: it may leave the key, with a code that says so
LEMMA UseFails ==
  ASSUME Inv, pc \in Opened, cmd.op \in {"WrapKey", "UnwrapKey", "BatchUnwrap"},
         NEW e \in {EXIT_CRYPTO_FAIL, StdException},
         NEW left \in SUBSET {"pkey", "ctx"}, Throw(e, left)
  PROVE  Inv'
<1>1. passed = Stage /\ ~client /\ logger = "first"
  BY DEF Inv, StageTable, HeldTable, ClientTable, BeforeAttested, Attested,
     Authorised, Released, Opened, Requesting, Living
<1>2. Caught(e) \in {EXIT_CRYPTO_FAIL, EXIT_FAILURE}
  BY DEF Caught, Opened, DoSkr
<1>3. Exit(Caught(e), {}) /\ held' = left /\ UNCHANGED <<client, logger>>
  BY DEF Throw
<1>4. CodeFits(Caught(e), passed)
  BY <1>1, <1>2 DEF CodeFits, Stage
<1>5. LeftFits(Caught(e), passed, cmd.op, held', client')
  BY <1>1, <1>2, <1>3 DEF LeftFits
<1>6. Caught(e) \in Failures /\ pc # "exited"
  BY <1>2 DEF Failures, Opened
<1>7. held' \in SUBSET Held /\ client' \in BOOLEAN /\ logger' \in Loggers
  BY <1>1, <1>3 DEF Inv, TypeOK, Held, KeyMaterial, Loggers
<1> QED
  BY <1>3, <1>4, <1>5, <1>6, <1>7, FailStep

\* WrapKey, UnwrapKey and ReleaseKey
LEMMA UseStep ==
  ASSUME Inv, WrapKey \/ UnwrapKey \/ ReleaseKey
  PROVE  Inv'
<1>1. pc = "use" /\ passed = Stage /\ held = {"pkey"} /\ ~client /\ logger = "first"
  <2>1. pc = "use"
    BY DEF WrapKey, UnwrapKey, ReleaseKey
  <2> QED
    BY <2>1 DEF Inv, StageTable, HeldTable, ClientTable, BeforeAttested, Attested,
     Authorised, Released, Opened, Requesting, Living
<1>2. /\ held \in SUBSET {"pkey", "ctx"} /\ held \ {"pkey"} \in SUBSET {"pkey", "ctx"}
      /\ held \cup {"ctx"} \in SUBSET {"pkey", "ctx"} /\ pc \in Opened
  BY <1>1 DEF Opened
<1>3. ASSUME NEW e \in {EXIT_CRYPTO_FAIL, StdException},
             NEW left \in {held, held \ {"pkey"}, held \cup {"ctx"}}, Throw(e, left),
             cmd.op \in {"WrapKey", "UnwrapKey"}
      PROVE  Inv'
  BY <1>2, <1>3, UseFails
<1>4. CASE WrapKey
  <2>1. PICK type \in KeyType :
          \/ NotRsa(type)
          \/ type = "rsa" /\ Throw(EXIT_CRYPTO_FAIL, held \cup {"ctx"})
          \/ /\ type = "rsa"
             /\ Exit(EXIT_OK, {"wrapped"})
             /\ held' = held \ {"pkey"}
             /\ UNCHANGED <<client, logger>>
    BY <1>4 DEF WrapKey
  <2>2. cmd.op = "WrapKey"
    BY <1>4 DEF WrapKey
  <2>3. ASSUME Exit(EXIT_OK, {"wrapped"}), held' = held \ {"pkey"},
               UNCHANGED <<client, logger>>
        PROVE  Inv'
    BY <1>1, <2>2, <2>3, SuccessStep
  <2> QED
    BY <1>3, <2>1, <2>2, <2>3 DEF NotRsa
<1>5. CASE UnwrapKey
  <2>1. PICK type \in KeyType, w \in Wrapped :
          \/ NotRsa(type)
          \/ Throw(StdException, held)
          \/ Throw(EXIT_CRYPTO_FAIL, held \cup {"ctx"})
          \/ /\ Exit(EXIT_OK, {base64_decode(w)})
             /\ held' = held \ {"pkey"}
             /\ UNCHANGED <<client, logger>>
    BY <1>5 DEF UnwrapKey
  <2>2. cmd.op = "UnwrapKey"
    BY <1>5 DEF UnwrapKey
  <2>3. ASSUME Exit(EXIT_OK, {base64_decode(w)}), held' = held \ {"pkey"},
               UNCHANGED <<client, logger>>
        PROVE  Inv'
    <3>1. {base64_decode(w)} \in SUBSET {"wrapped", "key", "cut"}
      BY DEF base64_decode
    <3> QED
      BY <1>1, <2>2, <2>3, <3>1, SuccessStep
  <2> QED
    BY <1>3, <2>1, <2>2, <2>3 DEF NotRsa
<1>6. CASE ReleaseKey
  <2>1. cmd.op = "ReleaseKey" /\ held' = held \ {"pkey"} /\ UNCHANGED <<client, logger>>
    BY <1>6 DEF ReleaseKey
  <2>2. CASE Exit(EXIT_OK, {})
    BY <1>1, <2>1, <2>2, SuccessStep
  <2>3. CASE Exit(EXIT_FAILURE, {})
    <3>1. held' = {}
      BY <1>1, <2>1
    <3>2. /\ CodeFits(EXIT_FAILURE, passed)
          /\ LeftFits(EXIT_FAILURE, passed, cmd.op, held', client')
      BY <1>1, <2>1, <3>1 DEF CodeFits, LeftFits
    <3> QED
      BY <1>1, <2>1, <2>3, <3>1, <3>2, FailStep DEF Inv, TypeOK, Held, Failures, Loggers
  <2> QED
    BY <1>6, <2>2, <2>3 DEF ReleaseKey
<1> QED
  BY <1>4, <1>5, <1>6

\* The way into the loop of UnwrapKeyBatch, a step of it, and its end
LEMMA BatchStep ==
  ASSUME Inv, StartBatch \/ UnwrapEntry \/ EndBatch
  PROVE  Inv'
<1>1. /\ pc \in Opened /\ pc # "exited" /\ passed = Stage /\ held = {"pkey"} /\ ~client
      /\ logger = "first" /\ cmd.op = "BatchUnwrap"
  <2>1. pc \in Opened /\ pc # "exited"
    BY DEF StartBatch, UnwrapEntry, EndBatch, Opened
  <2>2. cmd.op = "BatchUnwrap"
    BY DEF StartBatch, UnwrapEntry, EndBatch, Inv, LoopTable
  <2> QED
    BY <2>1, <2>2 DEF Inv, StageTable, HeldTable, ClientTable, BeforeAttested, Attested,
     Authorised, Released, Opened, Requesting, Living
<1>2. /\ batch \in Seq(Entry) /\ results \in Seq(Result)
      /\ Len(results) \in Nat /\ Len(batch) \in Nat /\ Len(results) <= Len(batch)
  BY ConstantsAssumption DEF Inv, TypeOK
<1>3. ASSUME NEW e \in {EXIT_CRYPTO_FAIL, StdException},
             NEW left \in {held, held \ {"pkey"}}, Throw(e, left)
      PROVE  Inv'
  <2>1. left \in SUBSET {"pkey", "ctx"}
    BY <1>1
  <2> QED
    BY <1>1, <1>3, <2>1, UseFails
<1>4. CASE StartBatch
  <2>1. CASE Goto("entries") /\ UNCHANGED <<client, logger, held, target, passed>>
    <3>1. pc = "use" /\ results = << >> /\ pc' = "entries"
      BY <1>4, <2>1 DEF StartBatch, Inv, LoopTable, Goto
    <3>2. TypeOK'
      BY <2>1 DEF Goto, Inv, TypeOK, PC
    <3>3. StageTable' /\ HeldTable' /\ ClientTable'
      BY <1>1, <2>1, <3>1 DEF StageTable, HeldTable, ClientTable, BeforeAttested, Attested,
     Authorised, Released, Opened, Requesting, Living
    <3>4. LoopTable'
      <4>1. results' = << >> /\ cmd' = cmd /\ batch' = batch
        BY <2>1, <3>1 DEF Goto
      <4> QED
        BY <1>1, <3>1, <4>1 DEF LoopTable
    <3>5. RunningTable' /\ Ended'
      BY <2>1, <3>1 DEF Goto, Inv, RunningTable, Ended
    <3> QED
      BY <3>2, <3>3, <3>4, <3>5 DEF Inv
  <2> QED
    BY <1>3, <1>4, <2>1 DEF StartBatch, NotRsa
<1>5. CASE UnwrapEntry
  <2> DEFINE n == Len(results) + 1
             w == batch[n]
  <2>1. pc = "entries" /\ Len(results) < Len(batch)
    BY <1>5 DEF UnwrapEntry
  <2>2. CASE /\ results' = Append(results, Unwrapped(w))
             /\ UNCHANGED <<pc, cmd, trusted, client, logger, held, pcrs, target, passed,
                            batch, stdout, status>>
    <3>1. Unwrapped(w) \in Result
      BY DEF Unwrapped, base64_decode, Result
    <3>2. /\ results' \in Seq(Result) /\ Len(results') = n /\ results'[n] = Unwrapped(w)
          /\ \A i \in 1..Len(results) : results'[i] = results[i]
      BY <1>2, <2>2, <3>1
    <3>3. TypeOK'
      <4>1. Len(results') <= Len(batch')
        BY <1>2, <2>1, <2>2, <3>2
      <4> QED
        BY <2>2, <3>2, <4>1 DEF Inv, TypeOK
    <3>4. StageTable' /\ HeldTable' /\ ClientTable'
      BY <2>2 DEF Inv, StageTable, HeldTable, ClientTable
    <3>5. LoopTable'
      <4>1. \A i \in 1..Len(results) : results[i] = Unwrapped(batch[i])
        BY <2>1 DEF Inv, LoopTable
      <4>2. ASSUME NEW i \in 1..n PROVE results'[i] = Unwrapped(batch[i])
        <5>1. i = n \/ i \in 1..Len(results)
          BY <1>2
        <5> QED
          BY <3>2, <4>1, <5>1
      <4> QED
        BY <1>1, <2>1, <2>2, <3>2, <4>2 DEF LoopTable
    <3>6. RunningTable' /\ Ended'
      BY <2>1, <2>2 DEF Inv, RunningTable, Ended
    <3> QED
      BY <3>3, <3>4, <3>5, <3>6 DEF Inv
  <2> QED
    BY <1>3, <1>5, <2>2 DEF UnwrapEntry
<1>6. CASE EndBatch
  <2>1. pc = "entries" /\ Len(results) = Len(batch)
    BY <1>6 DEF EndBatch
  <2>2. CASE /\ Exit(EXIT_OK, {"results"}) /\ held' = held \ {"pkey"}
             /\ UNCHANGED <<client, logger>>
    <3>1. /\ pc' = "exited" /\ status' = EXIT_OK /\ stdout' = stdout \cup {"results"}
          /\ UNCHANGED <<cmd, trusted, pcrs, target, passed, batch, results>> /\ held' = {}
      BY <1>1, <2>2 DEF Exit
    <3>2. TypeOK'
      BY <2>2, <3>1 DEF Inv, TypeOK, PC
    <3>3. StageTable' /\ HeldTable' /\ ClientTable' /\ LoopTable' /\ RunningTable'
      BY <3>1 DEF LoopTable, RunningTable, StageTable, HeldTable, ClientTable, BeforeAttested, Attested,
     Authorised, Released, Opened, Requesting, Living
    <3>4. results = [i \in 1..Len(batch) |-> Unwrapped(batch[i])]
      <4>1. \A i \in 1..Len(batch) : results[i] = Unwrapped(batch[i])
        BY <2>1 DEF Inv, LoopTable
      <4>2. results = [i \in 1..Len(batch) |-> results[i]]
        BY <1>2, <2>1
      <4> QED
        BY <4>1, <4>2
    <3>5. BatchAllOrNothing'
      BY <1>1, <3>1, <3>4 DEF BatchAllOrNothing
    <3>6. CodeFits(EXIT_OK, passed) /\ LeftFits(EXIT_OK, passed, cmd.op, held', client')
      BY <1>1, <2>2, <3>1 DEF CodeFits, LeftFits
    <3>7. Ended'
      BY <3>1, <3>5, <3>6 DEF Ended
    <3> QED
      BY <3>2, <3>3, <3>7 DEF Inv
  <2> QED
    BY <1>3, <1>6, <2>2 DEF EndBatch
<1> QED
  BY <1>4, <1>5, <1>6

-----------------------------------------------------------------------------
(* The theorems *)

\* The initial states satisfy the invariant: nothing is held, nothing printed
LEMMA InitInv == ASSUME Init PROVE Inv
<1>1. TypeOK
  <2>1. /\ results = << >> /\ batch = << >> /\ results \in Seq(Result)
        /\ Len(results) <= Len(batch)
    BY DEF Init
  <2>2. 0 \in 0..MaxExtends
    BY ConstantsAssumption
  <2>3. cmd \in Cmd
    BY DEF Init, Cmd, Operation, AkvCredentialSource
  <2> QED
    BY <2>1, <2>2, <2>3 DEF Init, TypeOK, PC
<1>2. StageTable /\ HeldTable /\ ClientTable
  BY DEF Init, StageTable, HeldTable, ClientTable, BeforeAttested, Attested,
     Authorised, Released, Opened, Requesting, Living
<1>3. LoopTable /\ RunningTable /\ Ended
  BY DEF Init, LoopTable, RunningTable, Ended
<1> QED
  BY <1>1, <1>2, <1>3 DEF Inv

\* Every step keeps it
LEMMA NextInv == ASSUME Inv, [Next]_vars PROVE Inv'
<1>1. CASE Step
  BY <1>1, CommandLineStep, AttestStep, AccessStep, ReleaseStep, OpenStep, UseStep,
     BatchStep DEF Step
<1>2. CASE Option
  BY <1>2, CommandLineStep
<1>3. CASE Answer
  <2>1. CASE ImdsAnswer \/ AadAnswer
    BY <2>1, TokenAnswerStep DEF ImdsAnswer, AadAnswer
  <2> QED
    BY <1>3, <2>1, AttestStep, ReleaseStep, OpenStep DEF Answer
<1>4. CASE Extend
  <2>1. /\ pc # "exited" /\ pcrs < MaxExtends /\ pcrs' = pcrs + 1
        /\ UNCHANGED <<pc, cmd, trusted, client, logger, held, target, passed, batch,
                       results, stdout, status>>
    BY <1>4 DEF Extend
  <2>2. pcrs' \in 0..MaxExtends
    BY <2>1, ConstantsAssumption DEF Inv, TypeOK
  <2>3. TypeOK'
    BY <2>1, <2>2 DEF Inv, TypeOK
  <2>4. StageTable' /\ HeldTable' /\ ClientTable'
    BY <2>1 DEF Inv, StageTable, HeldTable, ClientTable
  <2>5. LoopTable' /\ RunningTable' /\ Ended'
    BY <2>1 DEF Inv, LoopTable, RunningTable, Ended
  <2> QED
    BY <2>3, <2>4, <2>5 DEF Inv
<1>5. CASE UNCHANGED vars
  <2>1. TypeOK'
    BY <1>5 DEF vars, Inv, TypeOK
  <2>2. StageTable' /\ HeldTable' /\ ClientTable'
    BY <1>5 DEF vars, Inv, StageTable, HeldTable, ClientTable
  <2>3. LoopTable' /\ RunningTable'
    BY <1>5 DEF vars, Inv, LoopTable, RunningTable
  <2>4. Ended'
    BY <1>5 DEF vars, Inv, Ended, CodeFits, LeftFits, BatchAllOrNothing
  <2> QED
    BY <2>1, <2>2, <2>3, <2>4 DEF Inv
<1> QED
  BY <1>1, <1>2, <1>3, <1>4, <1>5 DEF Next, Exited

\* The tables describe the running process and the end of it, always
THEOREM Invariant == Spec => []Inv
<1>1. Init => Inv
  BY InitInv
<1>2. Inv /\ [Next]_vars => Inv'
  BY NextInv
<1> QED
  BY <1>1, <1>2, PTL DEF Spec

\* Every variable keeps its type: no more results than entries, and no exit
\* status but the ones the process has names for
THEOREM TypeCorrect == Spec => []TypeOK
<1>1. Inv => TypeOK
  BY DEF Inv
<1> QED
  BY <1>1, Invariant, PTL

\* Each of the exit statuses 0, 2, 3, 5 and 6 comes from the stage it is documented
\* for, whatever fails and wherever an exception is caught (main and doSKR); 4
\* does not, and nothing is claimed of it
THEOREM StatusIsHonest == Spec => []ExitCodeTellsStage
<1>1. ASSUME Inv PROVE ExitCodeTellsStage
  <2>1. CASE pc = "exited"
    BY <1>1, <2>1 DEF Inv, Ended, CodeFits, ExitCodeTellsStage
  <2>2. CASE pc # "exited"
    BY <1>1, <2>2 DEF Inv, RunningTable, ExitCodeTellsStage
  <2> QED
    BY <2>1, <2>2
<1> QED
  BY <1>1, Invariant, PTL

\* What the process leaves behind is explained by how it ended; success leaves
\* neither key material nor a living client
THEOREM SuccessLeavesNothing == Spec => []LeftoversExplained
<1>1. ASSUME Inv PROVE LeftoversExplained
  BY <1>1 DEF Inv, Ended, LeftFits, LeftoversExplained
<1> QED
  BY <1>1, Invariant, PTL

\* Initialize meets no living client, and the library writes to a logger that
\* was not deleted
THEOREM InitializeIsSafe == Spec => []InitializedOnce
<1>1. ASSUME Inv PROVE InitializedOnce
  BY <1>1 DEF Inv, ClientTable, Living, BeforeAttested, InitializedOnce
<1> QED
  BY <1>1, Invariant, PTL

\* A batch of any length is printed whole, every result in its place, or not
\* at all
THEOREM BatchIsWhole == Spec => []BatchAllOrNothing
<1>1. ASSUME Inv PROVE BatchAllOrNothing
  <2>1. CASE pc = "exited"
    BY <1>1, <2>1 DEF Inv, Ended
  <2>2. CASE pc # "exited"
    <3>1. status = Running /\ stdout \subseteq {"tracing"}
      BY <1>1, <2>2 DEF Inv, RunningTable
    <3>2. stdout \cap {"wrapped", "key", "cut", "results"} = {}
      BY <3>1
    <3> QED
      BY <3>1, <3>2 DEF BatchAllOrNothing
  <2> QED
    BY <2>1, <2>2
<1> QED
  BY <1>1, Invariant, PTL
=============================================================================
