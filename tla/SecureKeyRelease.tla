--------------------------- MODULE SecureKeyRelease ---------------------------
(***************************************************************************)
(* cvm-securekey-release-app: one process that attests the machine, gets   *)
(* an access token, has Key Vault release a key to the TPM, opens it and   *)
(* uses it to wrap or unwrap symmetric keys.  The attestation library      *)
(* appears by its life cycle (Initialize, Uninitialize, SetLogger) and by  *)
(* what Attest and Decrypt promise; module Attest has their detail.        *)
(*                                                                         *)
(* Every request is sent in one step and answered in another; the machine  *)
(* may be extended in between.  An exception is the code it leaves main    *)
(* with, or StdException, which doSKR and main turn into codes of theirs.  *)
(* URLs, nonces, headers and messages are left out.                        *)
(***************************************************************************)
EXTENDS Integers, Sequences, SequencesExt

CONSTANTS
  Batches,    \* what -B may be given: sequences of entries
  MaxExtends  \* bound: PCR extends while the process runs

\* A wrapped key as -u or an entry of a batch has it.
\*   intact        as WrapKey printed it, for the released key
\*   ends_in_zero  intact, and the last byte of the ciphertext is zero
\*   binary        intact, of a key that is not UTF-8 text
\*   padded        intact, of a key that ends in zero bytes
\*   foreign       for another key or hash;  undecodable: not base64
\*   no_wrapped    an entry without "wrapped";  malformed: not an object, or
\*                 its id is not a string
Wrapped == {"intact", "ends_in_zero", "binary", "padded", "foreign", "undecodable"}
Entry == Wrapped \cup {"no_wrapped", "malformed"}

ASSUME ConstantsAssumption ==
  /\ Batches \subseteq Seq(Entry)
  /\ MaxExtends \in Nat

VARIABLES
  pc,        \* where the process is
  cmd,       \* the command line, and the build
  trusted,   \* the library finds a CA bundle
  client,    \* attestation_client of the library
  logger,    \* attest::logger of the library
  held,      \* what was allocated and is neither freed nor wiped
  pcrs,      \* PCR values of the machine
  target,    \* PCR values the attestation token is bound to
  passed,    \* history: stages of the release that are behind the process
  batch,     \* keysArray
  results,   \* resultsArray
  stdout,    \* what the process printed there
  status     \* its exit status

vars == <<pc, cmd, trusted, client, logger, held, pcrs, target, passed, batch,
          results, stdout, status>>

-----------------------------------------------------------------------------
(* Values *)

EXIT_OK == 0
EXIT_USAGE == 1
EXIT_FAILURE == 1       \* of stdlib.h, what main returns for StdException
EXIT_ATTEST_FAIL == 2
EXIT_AUTH_FAIL == 3
EXIT_SKR_FAIL == 4
EXIT_CRYPTO_FAIL == 5
EXIT_NETWORK_FAIL == 6
ExitMinusOne == 255     \* exit(-1)
Running == 256
StdException == 257

Operation == {"None", "WrapKey", "UnwrapKey", "BatchUnwrap", "ReleaseKey"}
Build == {"linux", "windows", "azure_local"}
AkvCredentialSource == {"Imds", "EnvServicePrincipal"}

\* hashes: the names after -H and -G are ones get_evp_md_by_name knows
Cmd == [build : Build, op : Operation, source : AkvCredentialSource,
        kek : {"none", "akv", "mhsm"}, oaep : BOOLEAN, mgf1 : BOOLEAN]

KeyMaterial == {"transfer_key", "private_key", "pkey"}
Held == KeyMaterial \cup {"jwt", "request", "ctx"}
Stage == {"attested", "authorised", "released", "opened"}

\* The points inside the try block of doSKR
DoSkr ==
  {"get_maa_token", "attest", "check_token", "access", "imds", "aad", "release",
   "vault", "parse", "init_decrypt", "decrypt", "unwrap_aes", "parse_key"}

\* A request is on its way: the process waits for the other side
Waiting == {"attest", "imds", "aad", "vault", "decrypt"}

PC == DoSkr \cup {"start", "options", "dispatch", "read_batch", "use", "entries", "exited"}

\* A result: the key, or the key cut short, or an error
Result == {"key", "cut", "error"}

TypeOK ==
  /\ pc \in PC
  /\ cmd \in Cmd
  /\ trusted \in BOOLEAN
  /\ client \in BOOLEAN
  /\ logger \in {"none", "first", "second"}
  /\ held \in SUBSET Held
  /\ pcrs \in 0..MaxExtends
  /\ target \in 0..MaxExtends
  /\ passed \in SUBSET Stage
  /\ batch \in Batches \cup {<< >>}
  /\ results \in Seq(Result)
  /\ Len(results) <= Len(batch)
  /\ stdout \in SUBSET {"tracing", "usage", "wrapped", "key", "cut", "results"}
  /\ status \in {EXIT_OK, EXIT_USAGE, EXIT_ATTEST_FAIL, EXIT_AUTH_FAIL, EXIT_SKR_FAIL,
                 EXIT_CRYPTO_FAIL, EXIT_NETWORK_FAIL, ExitMinusOne, Running}

Init ==
  /\ pc = "start"
  /\ cmd \in [build : Build, op : {"None"}, source : {"Imds"}, kek : {"none"},
              oaep : {TRUE}, mgf1 : {TRUE}]
  /\ trusted = FALSE
  /\ client = FALSE
  /\ logger = "none"
  /\ held = {}
  /\ pcrs = 0
  /\ target = 0
  /\ passed = {}
  /\ batch = << >>
  /\ results = << >>
  /\ stdout = {}
  /\ status = Running

-----------------------------------------------------------------------------
(* Leaving the process *)

\* The catch clauses of doSKR and of main
Caught(e) ==
  IF e # StdException THEN e
  ELSE IF pc \in DoSkr THEN EXIT_SKR_FAIL ELSE EXIT_FAILURE

Exit(code, out) ==
  /\ pc' = "exited"
  /\ status' = code
  /\ stdout' = stdout \cup out
  /\ UNCHANGED <<cmd, trusted, pcrs, target, passed, batch, results>>

\* An exception leaves the process with left still allocated; Uninitialize was
\* called, or not, before it was thrown
Throw(e, left) ==
  Exit(Caught(e), {}) /\ held' = left /\ UNCHANGED <<client, logger>>
ThrowUninitialized(e, left) ==
  Exit(Caught(e), {}) /\ held' = left /\ client' = FALSE /\ UNCHANGED logger

Goto(point) == pc' = point /\ UNCHANGED <<cmd, trusted, pcrs, batch, results, stdout, status>>

-----------------------------------------------------------------------------
(* The attestation library *)

\* Mutant of SetLogger: the last logger counts
SetLoggerAlways(mine) == mine

\* SetLogger keeps the first logger it gets
SetLogger(mine) == IF logger = "none" THEN mine ELSE logger

\* Initialize and, if it failed, Uninitialize.  The shared_ptr it makes for the
\* caller's logger owns it, so a logger that SetLogger did not keep is deleted
\* when Initialize returns.  Only the allocation can fail, and then, too, the
\* logger is set.
Initialize(mine) == client' = TRUE /\ logger' = SetLogger(mine)
InitializeFails(e, mine) ==
  /\ Exit(Caught(e), {})
  /\ client' = FALSE
  /\ logger' = SetLogger(mine)
  /\ UNCHANGED held

-----------------------------------------------------------------------------
(* main: command line *)

\* ensure_ca_bundle: the library takes the Debian file if there is one, or else
\* curl-ca-bundle.crt in the working directory; here a link to any bundle is
\* made if it is missing
ensure_ca_bundle(debian, linked, other, writable) ==
  debian \/ linked \/ (other /\ writable)

\* set_tracing: SKR_TRACE_ON is "1" or "2", something else, or unset
set_tracing(flag) ==
  CASE flag = "invalid" ->
         /\ pc' = "exited"
         /\ status' = ExitMinusOne
         /\ UNCHANGED stdout
    [] flag = "on" ->
         /\ pc' = "options"
         /\ stdout' = stdout \cup {"tracing"}
         /\ UNCHANGED status
    [] OTHER -> pc' = "options" /\ UNCHANGED <<stdout, status>>

Start ==
  /\ pc = "start"
  /\ IF cmd.build = "windows" THEN trusted' = TRUE
     ELSE \E debian, linked, other, writable \in BOOLEAN :
            trusted' = ensure_ca_bundle(debian, linked, other, writable)
  /\ \E flag \in {"unset", "on", "invalid"} : set_tracing(flag)
  /\ UNCHANGED <<cmd, client, logger, held, pcrs, target, passed, batch, results>>

\* One option: the last one of a kind counts, and a credential source that is
\* neither imds nor sp changes nothing
Options ==
  {[cmd EXCEPT !.op = o] : o \in Operation \ {"None"}} \cup
  {[cmd EXCEPT !.source = s] : s \in AkvCredentialSource} \cup
  {[cmd EXCEPT !.kek = k] : k \in {"none", "akv", "mhsm"}} \cup
  {[cmd EXCEPT !.oaep = h] : h \in BOOLEAN} \cup
  {[cmd EXCEPT !.mgf1 = h] : h \in BOOLEAN}

Option ==
  /\ pc = "options"
  /\ cmd' \in Options
  /\ UNCHANGED <<pc, trusted, client, logger, held, pcrs, target, passed, batch,
                 results, stdout, status>>

\* An unknown option, or one without its value
BadOption ==
  /\ pc = "options"
  /\ \E out \in {{}, {"usage"}} : Exit(EXIT_FAILURE, out)
  /\ UNCHANGED <<held, client, logger>>

EndOfOptions ==
  /\ pc = "options"
  /\ Goto("dispatch")
  /\ UNCHANGED <<client, logger, held, target, passed>>

Dispatch ==
  /\ pc = "dispatch"
  /\ \/ cmd.op = "None" /\ Exit(EXIT_FAILURE, {"usage"}) /\ UNCHANGED <<held, client, logger>>
     \/ /\ cmd.op # "None"
        /\ Goto(IF cmd.op = "BatchUnwrap" THEN "read_batch" ELSE "get_maa_token")
        /\ UNCHANGED <<client, logger, held, target, passed>>

\* The JSON of a batch, from stdin, the command line or a file: a file that
\* cannot be opened, no JSON, or no array "keys" end the process before the
\* release
ReadBatch ==
  /\ pc = "read_batch"
  /\ \/ Exit(EXIT_USAGE, {}) /\ UNCHANGED <<held, client, logger>>
     \/ /\ batch' \in Batches
        /\ pc' = "get_maa_token"
        /\ UNCHANGED <<cmd, trusted, client, logger, held, pcrs, target, passed,
                       results, stdout, status>>

-----------------------------------------------------------------------------
(* GetMAAToken *)

InitializeForAttest ==
  /\ pc = "get_maa_token"
  /\ \/ /\ Goto("attest")
        /\ Initialize("first")
        /\ UNCHANGED <<held, target, passed>>
     \/ InitializeFails(EXIT_ATTEST_FAIL, "first")

\* Attest: what it returns is a token for the PCR values it found
Attest ==
  /\ pc = "attest"
  /\ \/ /\ trusted
        /\ Goto("check_token")
        /\ held' = held \cup {"jwt"}
        /\ target' = pcrs
        /\ UNCHANGED <<client, logger, passed>>
     \/ ThrowUninitialized(EXIT_ATTEST_FAIL, held)

\* The token must have three parts and readable claims, but the claims are
\* parsed outside the try block: neither Free nor Uninitialize is reached
CheckToken ==
  /\ pc = "check_token"
  /\ \/ ThrowUninitialized(EXIT_ATTEST_FAIL, held \ {"jwt"})
     \/ Throw(StdException, held)
     \/ /\ Goto("access")
        /\ held' = held \ {"jwt"}
        /\ client' = FALSE
        /\ passed' = passed \cup {"attested"}
        /\ UNCHANGED <<logger, target>>

-----------------------------------------------------------------------------
(* Access token *)

\* getResourceUrl: the audience the URL of the key stands for
getResourceUrl(kek) == kek \in {"akv", "mhsm"}

\* How url_encode may fail: it needs a curl handle of its own
url_encode == {EXIT_NETWORK_FAIL}

\* It encodes the audience and, where the environment names the identity by
\* nothing else, its resource id; the URL itself is left out
GetImdsTokenUrl == url_encode

\* GetIMDSToken up to the request.  An exception after curl_easy_init leaves
\* the handle.
SendToImds ==
  /\ pc = "access"
  /\ cmd.build # "azure_local" /\ cmd.source = "Imds"
  /\ \/ Throw(EXIT_NETWORK_FAIL, held)
     \/ ~getResourceUrl(cmd.kek) /\ Throw(EXIT_USAGE, held \cup {"request"})
     \/ /\ getResourceUrl(cmd.kek)
        /\ \/ \E e \in GetImdsTokenUrl : Throw(e, held \cup {"request"})
           \/ /\ Goto("imds")
              /\ held' = held \cup {"request"}
              /\ UNCHANGED <<client, logger, target, passed>>

\* GetIMDSToken with the answer: no connection; a status other than 200, or no
\* access_token; a body that is no JSON, or an access_token that is no string
ImdsErrors == {EXIT_NETWORK_FAIL, EXIT_AUTH_FAIL, StdException}

\* GetAADToken with the answer: its status is not looked at
AadErrors == {EXIT_NETWORK_FAIL, EXIT_AUTH_FAIL, StdException}

TokenAnswer(waiting, errors) ==
  /\ pc = waiting
  /\ \/ \E e \in errors : Throw(e, held \ {"request"})
     \/ /\ Goto("release")
        /\ held' = held \ {"request"}
        /\ passed' = passed \cup {"authorised"}
        /\ UNCHANGED <<client, logger, target>>

ImdsAnswer == TokenAnswer("imds", ImdsErrors)
AadAnswer == TokenAnswer("aad", AadErrors)

\* GetAADToken up to the request: the environment variables come first, the
\* handle after everything that may fail
SendToAad ==
  /\ pc = "access"
  /\ cmd.build # "azure_local" /\ cmd.source = "EnvServicePrincipal"
  /\ \/ Throw(EXIT_AUTH_FAIL, held)
     \/ ~getResourceUrl(cmd.kek) /\ Throw(EXIT_USAGE, held)
     \/ /\ getResourceUrl(cmd.kek)
        /\ \/ Throw(EXIT_NETWORK_FAIL, held)
           \/ /\ Goto("aad")
              /\ held' = held \cup {"request"}
              /\ UNCHANGED <<client, logger, target, passed>>

\* On Azure Local the host authenticates
SkipAccessToken ==
  /\ pc = "access"
  /\ cmd.build = "azure_local"
  /\ Goto("release")
  /\ passed' = passed \cup {"authorised"}
  /\ UNCHANGED <<client, logger, held, target>>

-----------------------------------------------------------------------------
(* Release by Key Vault *)

\* GetKeyVaultResponseCurl up to the request: an option that cannot be set
\* leaves the handle
PostWithCurl ==
  \/ Throw(EXIT_NETWORK_FAIL, held)
  \/ Throw(EXIT_NETWORK_FAIL, held \cup {"request"})
  \/ /\ Goto("vault")
     /\ held' = held \cup {"request"}
     /\ UNCHANGED <<client, logger, target, passed>>

\* GetKeyVaultResponseWinHttp up to the request: its catch closes every handle
PostWithWinHttp ==
  \/ Throw(EXIT_NETWORK_FAIL, held)
  \/ /\ Goto("vault")
     /\ held' = held \cup {"request"}
     /\ UNCHANGED <<client, logger, target, passed>>

\* release_akv_key: a buffer of no bytes is not freed
ReleaseAkvKey ==
  \/ Throw(EXIT_SKR_FAIL, held)
  \/ Throw(EXIT_SKR_FAIL, held \cup {"request"})
  \/ /\ Goto("parse")
     /\ passed' = passed \cup {"released"}
     /\ UNCHANGED <<client, logger, held, target>>

GetKeyVaultResponse ==
  /\ pc = "release"
  /\ \/ cmd.build = "linux" /\ PostWithCurl
     \/ cmd.build = "windows" /\ PostWithWinHttp
     \/ cmd.build = "azure_local" /\ ReleaseAkvKey

\* Both transports: no connection, or it breaks while the answer is read; a
\* status other than 200
VaultErrors == {EXIT_NETWORK_FAIL, EXIT_SKR_FAIL}

VaultAnswer ==
  /\ pc = "vault"
  /\ \/ \E e \in VaultErrors : Throw(e, held \ {"request"})
     \/ /\ Goto("parse")
        /\ held' = held \ {"request"}
        /\ passed' = passed \cup {"released"}
        /\ UNCHANGED <<client, logger, target>>

\* The answer: not JSON, a field missing or mistyped, not three parts
ParseSkrToken ==
  /\ pc = "parse"
  /\ \/ \E e \in {StdException, EXIT_SKR_FAIL} : Throw(e, held)
     \/ Goto("init_decrypt") /\ UNCHANGED <<client, logger, held, target, passed>>

-----------------------------------------------------------------------------
(* Opening the key *)

\* Mutant of InitializeForDecrypt: the code of the first Initialize
InitializeForDecryptAsAttest ==
  /\ pc = "init_decrypt"
  /\ InitializeFails(EXIT_ATTEST_FAIL, "second")

InitializeForDecrypt ==
  /\ pc = "init_decrypt"
  /\ \/ /\ Goto("decrypt")
        /\ Initialize("second")
        /\ UNCHANGED <<held, target, passed>>
     \/ InitializeFails(EXIT_SKR_FAIL, "second")

\* Decrypt: the transfer key opens on the machine state of the token only
DecryptTransferKey ==
  /\ pc = "decrypt"
  /\ \/ /\ pcrs = target
        /\ Goto("unwrap_aes")
        /\ held' = held \cup {"transfer_key"}
        /\ UNCHANGED <<client, logger, target, passed>>
     \/ ThrowUninitialized(EXIT_CRYPTO_FAIL, held)

\* Mutant of decrypt_aes_key_unwrap: the transfer key outlives it
UnwrapKeepingTransferKey ==
  /\ pc = "unwrap_aes"
  /\ Goto("parse_key")
  /\ held' = held \cup {"private_key"}
  /\ UNCHANGED <<client, logger, target, passed>>

\* decrypt_aes_key_unwrap: an OpenSSL error is an exception that passes its
\* context and, in doSKR, the wiping of both keys and Uninitialize; a plaintext
\* of no bytes does not.  The ciphertext has lost its trailing zero bytes
\* (base64url_to_binary), and then does not open.
decrypt_aes_key_unwrap ==
  /\ pc = "unwrap_aes"
  /\ \/ Throw(EXIT_CRYPTO_FAIL, held \cup {"ctx", "private_key"})
     \/ ThrowUninitialized(EXIT_CRYPTO_FAIL, held \ {"transfer_key"})
     \/ /\ Goto("parse_key")
        /\ held' = (held \ {"transfer_key"}) \cup {"private_key"}
        /\ UNCHANGED <<client, logger, target, passed>>

ParsePrivateKey ==
  /\ pc = "parse_key"
  /\ \/ ThrowUninitialized(EXIT_CRYPTO_FAIL, held \ {"private_key"})
     \/ /\ Goto("use")
        /\ held' = (held \ {"private_key"}) \cup {"pkey"}
        /\ client' = FALSE
        /\ passed' = passed \cup {"opened"}
        /\ UNCHANGED <<logger, target>>

-----------------------------------------------------------------------------
(* Using the key *)

KeyType == {"rsa", "ec", "other"}

\* base64_to_binary cuts trailing zero bytes off, padding or not
base64_to_binary(w) == w # "ends_in_zero"

\* RSA-OAEP opens what is whole and for this key
rsa_decrypt(w) == base64_to_binary(w) /\ w \in {"intact", "ends_in_zero", "binary", "padded"}

\* base64_decode cuts them off the plaintext
base64_decode(w) == IF w = "padded" THEN "cut" ELSE "key"

\* get_evp_md_by_name, for both names
HashesKnown == cmd.oaep /\ cmd.mgf1

\* The key is not RSA: freed, then refused
NotRsa(type) == type # "rsa" /\ Throw(EXIT_CRYPTO_FAIL, held \ {"pkey"})

\* WrapKey: rsa_encrypt throws on every error, so the branch that frees the key
\* is never taken
WrapKey ==
  /\ pc = "use" /\ cmd.op = "WrapKey"
  /\ \E type \in KeyType :
       \/ NotRsa(type)
       \/ type = "rsa" /\ Throw(EXIT_CRYPTO_FAIL, held \cup {"ctx"})
       \/ /\ type = "rsa"
          /\ Exit(EXIT_OK, {"wrapped"})
          /\ held' = held \ {"pkey"}
          /\ UNCHANGED <<client, logger>>

UnwrapKey ==
  /\ pc = "use" /\ cmd.op = "UnwrapKey"
  /\ \E type \in KeyType, w \in Wrapped :
       \/ NotRsa(type)
       \/ type = "rsa" /\ (w = "undecodable" \/ ~HashesKnown) /\ Throw(StdException, held)
       \/ /\ type = "rsa" /\ w # "undecodable" /\ HashesKnown
          /\ ~rsa_decrypt(w)
          /\ Throw(EXIT_CRYPTO_FAIL, held \cup {"ctx"})
       \/ /\ type = "rsa" /\ HashesKnown
          /\ rsa_decrypt(w)
          /\ Exit(EXIT_OK, {base64_decode(w)})
          /\ held' = held \ {"pkey"}
          /\ UNCHANGED <<client, logger>>

\* UnwrapKeyBatch before its loop
StartBatch ==
  /\ pc = "use" /\ cmd.op = "BatchUnwrap"
  /\ \E type \in KeyType :
       \/ NotRsa(type)
       \/ type = "rsa" /\ ~HashesKnown /\ Throw(StdException, held)
       \/ /\ type = "rsa" /\ HashesKnown
          /\ Goto("entries")
          /\ UNCHANGED <<client, logger, held, target, passed>>

\* rsa_decrypt_safe, which frees what it allocates, under the catch of the loop
Unwrapped(w) ==
  IF w \in Wrapped /\ rsa_decrypt(w) THEN base64_decode(w) ELSE "error"

\* Mutant of UnwrapEntry: a malformed entry ends the loop
UnwrapEntryOrBreak ==
  LET w == batch[Len(results) + 1] IN
  /\ pc = "entries" /\ Len(results) < Len(batch)
  /\ \/ /\ w = "malformed"
        /\ Exit(EXIT_OK, {"results"})
        /\ held' = held \ {"pkey"}
        /\ UNCHANGED <<client, logger>>
     \/ /\ w # "malformed"
        /\ results' = Append(results, Unwrapped(w))
        /\ UNCHANGED <<pc, cmd, trusted, client, logger, held, pcrs, target, passed,
                       batch, stdout, status>>

\* Mutant of UnwrapEntry: an entry that fails is tried again
UnwrapEntryRetrying ==
  /\ pc = "entries" /\ Len(results) < Len(batch)
  /\ results' = IF Unwrapped(batch[Len(results) + 1]) = "error" THEN results
                ELSE Append(results, Unwrapped(batch[Len(results) + 1]))
  /\ UNCHANGED <<pc, cmd, trusted, client, logger, held, pcrs, target, passed,
                 batch, stdout, status>>

\* One entry.  Its id is read before the try block.
UnwrapEntry ==
  LET w == batch[Len(results) + 1] IN
  /\ pc = "entries" /\ Len(results) < Len(batch)
  /\ \/ w = "malformed" /\ Throw(StdException, held)
     \/ /\ w # "malformed"
        /\ results' = Append(results, Unwrapped(w))
        /\ UNCHANGED <<pc, cmd, trusted, client, logger, held, pcrs, target, passed,
                       batch, stdout, status>>

\* dump() cannot print a key that is not UTF-8; the key was freed before
EndBatch ==
  /\ pc = "entries" /\ Len(results) = Len(batch)
  /\ \/ "binary" \in Range(batch) /\ Throw(StdException, held \ {"pkey"})
     \/ /\ "binary" \notin Range(batch)
        /\ Exit(EXIT_OK, {"results"})
        /\ held' = held \ {"pkey"}
        /\ UNCHANGED <<client, logger>>

\* Mutant of ReleaseKey: false becomes -1
ReleaseKeyMinusOne ==
  /\ pc = "use" /\ cmd.op = "ReleaseKey"
  /\ \E type \in KeyType : Exit(IF type \in {"rsa", "ec"} THEN EXIT_OK ELSE -1, {})
  /\ held' = held \ {"pkey"}
  /\ UNCHANGED <<client, logger>>

ReleaseKey ==
  /\ pc = "use" /\ cmd.op = "ReleaseKey"
  /\ \E type \in KeyType :
       Exit(IF type \in {"rsa", "ec"} THEN EXIT_OK ELSE EXIT_FAILURE, {})
  /\ held' = held \ {"pkey"}
  /\ UNCHANGED <<client, logger>>

-----------------------------------------------------------------------------
(* The machine *)

Extend ==
  /\ pcrs < MaxExtends
  /\ pc # "exited"
  /\ pcrs' = pcrs + 1
  /\ UNCHANGED <<pc, cmd, trusted, client, logger, held, target, passed, batch,
                 results, stdout, status>>

Exited == pc = "exited" /\ UNCHANGED vars

\* Steps of the process itself, and answers it waits for
Step ==
  \/ Start \/ BadOption \/ EndOfOptions \/ Dispatch \/ ReadBatch
  \/ InitializeForAttest \/ CheckToken
  \/ SendToImds \/ SendToAad \/ SkipAccessToken
  \/ GetKeyVaultResponse \/ ParseSkrToken
  \/ InitializeForDecrypt \/ decrypt_aes_key_unwrap \/ ParsePrivateKey
  \/ WrapKey \/ UnwrapKey \/ StartBatch \/ UnwrapEntry \/ EndBatch \/ ReleaseKey

Answer == Attest \/ ImdsAnswer \/ AadAnswer \/ VaultAnswer \/ DecryptTransferKey

Next == Step \/ Option \/ Answer \/ Extend \/ Exited

\* The process runs; the other side of a request need not answer: no time-out
\* is set for IMDS, Entra ID and Key Vault
Fairness == WF_vars(Step)

Spec == Init /\ [][Next]_vars /\ Fairness

-----------------------------------------------------------------------------
(* Properties *)

\* An exit status other than 1 and 4 is the one of the stage that failed
\* (AttestationUtil.h: exit codes), through whichever catch the exception went:
\* success only with an opened key, an attestation error only before there is a
\* token, an authentication error only between attestation and release, a crypto
\* error only after Key Vault released the key, a network error only before.
ExitCodeTellsStage ==
  /\ status = EXIT_OK => passed = Stage
  /\ status = EXIT_ATTEST_FAIL => passed = {}
  /\ status = EXIT_AUTH_FAIL => passed = {"attested"}
  /\ status = EXIT_CRYPTO_FAIL => "released" \in passed
  /\ status = EXIT_NETWORK_FAIL => "attested" \in passed /\ "released" \notin passed

\* "EXIT_SKR_FAIL = 4; // AKV/MHSM SKR HTTP error (policy, 403, key not found)"
\* (AttestationUtil.h, and the table of the app's README): MAA and the identity
\* endpoint, whose errors are 2 and 3, have done their part.
DocumentedExitCode == status = EXIT_SKR_FAIL => {"attested", "authorised"} \subseteq passed

\* What is left when the process ends.  A successful run leaves nothing: every
\* key it held was wiped or freed, and the client uninitialized.  The transfer
\* key is left only by an AES unwrapping that failed, the released key only by
\* an operation that failed after the release, and the client only by one of
\* the two exceptions that pass Uninitialize.
LeftoversExplained ==
  pc = "exited" =>
    /\ status = EXIT_OK => held = {} /\ ~client
    /\ held \cap {"transfer_key", "private_key"} # {} =>
         status = EXIT_CRYPTO_FAIL /\ client /\ "opened" \notin passed
    /\ "pkey" \in held =>
         /\ status \in {EXIT_CRYPTO_FAIL, EXIT_FAILURE}
         /\ cmd.op \in {"WrapKey", "UnwrapKey", "BatchUnwrap"}
         /\ passed = Stage
    /\ client => "jwt" \in held \/ "transfer_key" \in held

\* Initialize is not called on a living client (AttestationClient.h: "should
\* not be called again unless Uninitialize() is called"), and the logger the
\* library writes to is the one it was first given, which nobody deletes.
InitializedOnce ==
  /\ pc \in {"get_maa_token", "init_decrypt"} => ~client
  /\ pc \in {"attest", "decrypt", "unwrap_aes", "parse_key"} => client /\ logger = "first"

\* A batch is printed whole or not at all: one result for every entry, in its
\* place, and an entry that fails takes no other with it.  Nothing else is
\* printed as a result, and nothing with any status but success.
BatchAllOrNothing ==
  /\ "results" \in stdout =>
       /\ status = EXIT_OK /\ cmd.op = "BatchUnwrap"
       /\ results = [i \in 1..Len(batch) |-> Unwrapped(batch[i])]
  /\ stdout \cap {"wrapped", "key", "cut", "results"} # {} => status = EXIT_OK
  /\ status = EXIT_OK /\ cmd.op = "BatchUnwrap" => "results" \in stdout

\* The process ends unless a request is never answered (or its command line
\* goes on for ever): no path through the stages and the batch is without end.
Exits == (<>[](pc \in Waiting)) \/ (<>[](pc = "options")) \/ <>(pc = "exited")

\* A batch of entries that WrapKey printed for this key comes back as their
\* plaintext keys (README of the app, "Output format": every label with its
\* "plaintext-key").
WrapUnwrapRoundTrip ==
  "results" \in stdout /\ Range(batch) \subseteq {"intact", "ends_in_zero"} =>
    Range(results) \subseteq {"key"}
=============================================================================
