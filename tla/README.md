# Guest attestation for confidential VMs: TLA+ models, checks and proofs

The repository holds the client library with which a process in an Azure
confidential or trusted launch VM obtains an attestation token, the library
that unwraps secrets provisioned to such a VM, and samples on top of both.
This directory models the parts in which order, failure and concurrency matter,
checks them with TLC on small instances, and proves the main results with TLAPS
for all instances. `PROJECT.json` lists the source lines behind every
definition, the hazards, the runs and the theorems.

## Inventory

Paths are relative to `src/client-library/src/Attestation/` unless they start
with `src/`.

| Component | State it keeps | Operations | What makes it correct |
|---|---|---|---|
| **Client core**, `AttestationClient/lib/AttestationClientImpl.cpp` with `AttestationParameters`, `IsolationInfo`, `TpmInfo`, `HclReportParser`, `ImdsOperations` | None between calls. A call keeps the evidence it gathered (quote, PCR values, ephemeral key, isolation type) and a retry counter | `Attest`, `Encrypt`, `Decrypt`, `Free` | A token and what is encrypted to it are only released to the machine state the token asserts; data for the present state does open; the retry loop saves the calls it is meant to save; a call returns |
| **Unsealing**, `TpmUnseal.cpp` | None | parse the token, `DecryptInnerKey`, `DecryptJwt` | Part of the above |
| **Attestation key certificate**, `TpmCertOperations.cpp` | An NV index of the TPM, shared by all processes and persistent | `IsAkCertRenewalRequired`, `RenewAndReplaceAkCert` | The certificate is not lost or torn; a renewal that fails does not fail `Attest` |
| **HTTP and IMDS requests**, `AttestationLibUtils.cpp` (`curl::SendRequest`), `HttpClient.cpp`, `ImdsClient.cpp` | Retry counter, response buffer | one loop around `curl_easy_perform` each | The caller gets one complete answer; bounded retries with growing waits; it returns |
| **Linux TPM access**, `LinuxTpm/lib` | Object handles, sessions; behind it PCRs, NULL hierarchy seed, NV, persistent objects | quote, PCR reads, ephemeral key, policy sessions, NV, `Unseal`, EK persistence; the test client | Loops end with complete data; a connection does not run out of object or session slots; an EK that is asked for is there afterwards |
| **Client life cycle and logging**, `AttestationClient.cpp`, `Logging.cpp` | Global client pointer, global logger | `Initialize`, `Uninitialize`, `SetLogger` | A logger is destroyed once, and not while in use |
| **Telemetry**, `AttestationLibTelemetry.cpp` | Callback | report events | Nothing is read back |
| **Encoding and OS helpers**, `AttestationLibUtils.cpp`, `AttestationHelper.cpp` | None | base64, base64url, JWK, os-release, URLs | Pure string functions |
| **Protected VM secrets**, `src/azure-protected-vm-secrets` | The guest key, a persistent object of the TPM shared by all processes | `unprotect_secret`, `unprotect_secret_wide`, `is_secrets_provisioning_enabled`; the tools generate and remove the key | Nothing leaves a call that its policy does not allow; a good secret opens whenever the key is there, also after the key was made again |
| **Cryptography of the secrets**, `src/azure-protected-vm-secrets/Windows` and `Linux`, with the HCL report parser and the sample's `EncryptWithPadding` | Handles and buffers of CNG, CryptoAPI and OpenSSL; the AES-GCM cursor; a certificate store and a chain | verify a chain and a signature, `decrypt_secret`, `EncryptWithPadding`, `generateCertChain`, `IsValidHclReport` | Each build accepts what it should and opens what it made; nothing is released twice, no key is left behind |
| **Secure key release tool**, `src/cvm-securekey-release-app` | Access token, transfer key, released key, the results of a batch | wrap, unwrap, unwrap a batch, release; each after attestation, an access token and the release by Key Vault | The exit status tells how far it got; keys are wiped; a batch is printed whole or not at all; it ends |
| **CVM helper**, `src/azure-protected-vm-secrets/CvmHelper` | None | reads CPUID leaves | A pure decision |
| **Samples, scripts, vendored code** | None | | |

How they interact. `Attest` first checks and possibly renews the certificate
(NV, IMDS), then gathers OS information, isolation information (NV, IMDS) and
TPM evidence (quote, PCR values, key: several separate TPM commands), sends it
to the attestation service, and decrypts the token with the ephemeral key, which
takes PCR reads, a policy session and an RSA decryption. Nothing is held across
these commands: the TPM and its NV index are shared with every other process,
PCRs may be extended between any two commands, and the VM may reboot. `Decrypt`
repeats the last part, perhaps in another process and much later.

Hard behaviours, with their lines under "hazards" in `PROJECT.json`: evidence
that describes no single machine state; a policy checked before and used after a
change; a retry that repeats what cannot work; a certificate replaced in several
steps while others read or replace it, a process dies or a command fails; a
response buffer and a counter that live across attempts; calls that wait for a
peer that says nothing; objects of a TPM or of a cryptographic library that an
exception leaves behind; two implementations of one interface that differ
in what they accept; a process of many stages whose only report is its exit status.

## Modules

### Attest, AttestPromise, MCAttest, AttestProofs

`Attest` models `Attest()`, `Encrypt()` and `Decrypt()` down to single TPM
commands.

| State | Code |
|---|---|
| `boot` | seed of the NULL hierarchy, new at each TPM reset |
| `pcr` | PCR bank; a PCR is the number of its extends since boot, as an extend cannot be undone |
| `jwts` | tokens handed out |
| `call[p]` | locals of the call of process `p`: `quote`, `read` (`PcrSet` so far), `params` (`AttestationParameters`), `token` (key of the ciphertext to open), `session` (the bank `PolicyPCR` saw, standing for the TPM's update counter), `retries`, `result`, `output` |

A key is the pair of the seed and the PCR values of its policy, because
`CreatePrimary` in the NULL hierarchy derives it from seed and template, and
only the policy digest varies. `hurt`, `noise` and `calm` are history variables
used by properties and read by no guard.

| Action | Code |
|---|---|
| `StartAttest`, `CheckAkCert` | `Attest` up to the certificate; the details are in `AkCert` |
| `GetParameters` | `ParseURL`, `ParseClientPayload`, `GetOSInfo`, `GetIsolationInfo`, each with the ways it fails, in `getAttestationParameters` |
| `GetPCRQuote`, `GetPCRValues`, `GetEphemeralKey`, `GetTpmInfoError` | `GetTpmInfo`; `GetPCRValues` takes one step per `PCR_Read` of `PopulateCurrentPcrs` |
| `SendAttestationRequest` | `sendAttestationRequest`, `ParseMaaResponse`, parsing in `DecryptMaaToken` |
| `GetPCRValues`, `PolicyPcr`, `RsaDecrypt`, `DecryptError` | `DecryptInnerKey` and `Decrypt`; `DecryptFailed` is the retry decision in `Attest`'s loop |
| `StartDecrypt` | `Decrypt`, on data that `Encrypt` wrapped for any token ever handed out |
| `Extend(i)`, `Reboot` | the machine |

`AttestPromise` is what callers rely on: tokens are issued and data is opened
atomically, for the machine state of that moment; a state once left never comes
back. `Attest` implements it with `machine` mapped to the seed and the attested
PCRs, and `tokens` to the keys of the tokens.

### AkCert, AkCertProofs

The certificate in NV, in chunks: `nv`, the clock `today`, the expiry of each
certificate issued, the certificates of the temporary issuer, and per process
its call. `NvRead` is one `NV_Read` of any of the three readings a call makes
(check, renewal, evidence); `CheckProvisioned` is `IsAkCertProvisioned` and the
expiry check; `GetVmId`, `RenewSync` and `RenewAsync` are the requests of
`RenewAndReplaceAkCert`; `NvUndefineSpace`, `NvDefineSpace` and `NvWrite` are
`WriteAikCert`. `TpmError` and `InternalError` are the two kinds of exceptions
the code treats differently, `Crash` the death of a process.

### HttpRequest, HttpRequestProofs

One call of one of the three loops. `SendRequest`, `InvokeHttpImdsRequest` and
`InvokeHttpRequest` are the loop bodies after an attempt that got a status;
`PerformFails` is a failed attempt, `Timeout` the one curl causes itself, and
`WriteResponseCallback` the arrival of part of a body.

### ProtectedSecret, MCProtectedSecret, ProtectedSecretProofs

`unprotect_secret` of `src/azure-protected-vm-secrets` and the guest key it
needs.

| State | Code |
|---|---|
| `seed` | seed of the owner hierarchy, new with every `TPM2_Clear` |
| `key` | the object at `KEYHANDLE`; a key is the seed it was made from, because `GenerateGuestKey` always uses the same template |
| `call` | the call: its input and policy, `*eval_policy`, what was returned. `fault` and `absent` are history |
| `manage[m]` | the operation of a process that generates, removes or asks for the key; `transient` is the primary key not yet persistent |

An input is described by what decides about it: whether `isRealJwt` takes it for
a token, the first thing wrong with the claims, the signature and the padding,
the key it was wrapped for and the VM it is meant for. `Start` is everything up
to the first TPM command, in the order of the code: `ParseErrors` (which verifies
the signature, if there is one), the policy, the padding, the system UUID, the
fields. `OpenContext`, `FindKey` and `RsaDecrypt` are the TPM commands of
`Tss2RsaDecrypt`, `CallFault` their failures. `GenerateGuestKey` and `RemoveKey`
are two TPM commands each. One call is modelled, as calls only read the key; the
managers and `Clear` are what can disturb it.

### SecureKeyRelease, MCSecureKeyRelease, SecureKeyReleaseProofs

One run of the key release tool, from the command line to the exit status, in
its Linux, Windows and Azure Local builds (`cmd.build`).

| State | Code |
|---|---|
| `cmd`, `batch` | the options and what `-B` names |
| `client`, `logger` | `attestation_client` and `attest::logger`, the globals of the attestation library |
| `held` | what was allocated and is neither freed nor wiped: the token, the request, the transfer key, the released key |
| `pcrs`, `target` | the machine state, and the one the token is bound to |
| `results`, `stdout`, `status` | what the caller sees |

`Start`, `Option`, `BadOption`, `EndOfOptions`, `Dispatch` and `ReadBatch` are
`main`; `InitializeForAttest` to `ParsePrivateKey` are `doSKR`; `WrapKey`,
`UnwrapKey`, `StartBatch`, `UnwrapEntry`, `EndBatch` and `ReleaseKey` are the
operations on the released key. A request is sent in one step (`SendToImds`,
`SendToAad`, `ReleaseAkvKey`) and answered in another (`ImdsAnswer`,
`AadAnswer`, `VaultAnswer`), `Attest` and `Decrypt` likewise; `Extend` may fall in
between. `Throw` is what an exception does from the place it is thrown: which
`catch` turns it into which status, and what it leaves in `held`. The life cycle
of the client library (`Initialize`, `Uninitialize`, `SetLogger`) is modelled as
this tool exercises it.

### TpmObjects, MCTpmObjects, TpmObjectsProofs

What `LinuxTpm` keeps in the TPM: transient objects and sessions of each
connection, and the persistent EK and AIK. A process is either one that keeps a
`Tpm` and calls its operations in any order, or the test client in one of its
modes. A mode that stands for several tests walks the whole map of tests
(`Orders`) and skips the ones that are not its own (`Continue`).

An operation is a sequence of requests, and the operator that models a function
is named after it and splices in the functions it calls (`Unseal`,
`GetEphemeralKey`, `GenerateAndPersistEk`, ...). `code` is what is left of the
sequence; one action per kind of request carries it out. Every request may fail,
which sets `raised`: the rest is skipped up to the next end of a scope, so a
destructor (`CloseSession`, `CloseCtx`) and a `catch` (`EndTry`) run exactly
where C++ runs them. `PCR_Read` is the loop of `PopulateCurrentPcrs`, in the
library's form and in the one the test client has of it, against every answer a
TPM may give, the empty one included.

### CryptoBackends, MCCryptoBackends, CryptoBackendsProofs, CryptoBackendsHoldings

The cryptography of the secrets library, in the same style, once for each
backend. `live` is the bag of what the present call has allocated, `members`
what an object's member points to, and `twice` what was released when it was no
longer live. Two parts are modelled by what they compute: the cursor of the
chained AES-GCM calls (`gcm`: blocks done, offset, length), because its end
depends on sizes, and the certificate chain (`Path`), because the two backends
build it at different times and from different stores. What the libraries do
differently is in the data: a certificate says which builds object to it
(`valid`: OpenSSL is strict, Windows applies its base policy), `SystemStores` are
the certificates Windows finds besides those it was given, and a key of a token
has the form (`PrivateForm`, `PublicForm`) that decides which library reads it.

The calls are `Verify` (chain and signature in `ParseToken`), `Unwrap`
(`decrypt_secret` after the TPM has opened the AES key), `Protect`
(`EncryptWithPadding`; what it makes can be unwrapped later), `Generate` (the
tests' certificate chain) and `Report` (`IsValidHclReport`).

## Runs

| Run | Instance | Question |
|---|---|---|
| `attest_race` | 2 processes, 2 boots, one attested PCR and one other, 1 retry | `TypeOK`; `CurrentDataOpens`: an undisturbed `Decrypt` succeeds exactly for the present state; `Implements`: refinement of `AttestPromise` |
| `attest_retry` | 1 process, the code's 3 retries, two attested PCRs read in two batches, confidential VM, 4 unrelated extends | `RetriesAbsorbNoise`: without errors and attested changes, `Attest` fails only after more unrelated extends than retries; `ReleaseBound`: nothing is released for another state; `CallReturns` |
| `attest_transient` | as above, smaller | expected violation, see Finding |
| `ak_cert` | 2 processes, 2 chunks, 4 certificates, 3 days | `CertLossNeedsCause`, `CallGetsItsCert`, `DamageStays`, `CallReturns`, `TypeOK` |
| `http_request` | 3 retries, a status of every kind the loops tell apart, bodies of up to 2 pieces | `OnlyTheLastBody`, `GivesUpAfterAllRetries`, `BackOff`, `RequestReturns`, `TypeOK` |
| `protected_secret` | 1 call, 2 managers, 2 hierarchies, all 8 policies, every combination of claims and signature, every padding, key and VM | `TypeOK`; `ReleaseWithinPolicy`: what may leave a call; `IntactSecretOpens`: a good secret opens if the key is there during the call and no TPM command fails |
| `skr` | all command lines and builds; batches of up to 3 entries out of 8 kinds; 1 extend | `ExitCodeTellsStage`, `LeftoversExplained`: which keys and which client are left by which exit; `InitializedOnce`; `BatchAllOrNothing`; `Exits`; `TypeOK` |
| `skr_exit_code`, `skr_roundtrip` | as above, no extend | expected violations, see Findings |
| `tpm_objects` | 3 slots, 2 PCRs, 4 calls, 2 orders of the tests, 2 sets of PCR banks | `SessionsEnd`: never two sessions on a connection, none after a call; `SuccessLeavesOnlyKnown`, `FailureLeavesExplained`: what stays in the TPM after a call; `CallsReturn`; `TypeOK` |
| `tpm_persisted_ek` | as above, with a TPM that refuses only what it cannot do | expected violation, see Findings |
| `crypto_backends` | 2 roots, chains of up to 4 certificates, an issuer that only Windows knows, certificates that one build objects to, keys of every form, secrets of 1 to 5 bytes and ciphertexts of 0 to 7 with tag and block of 2 bytes | `AcceptsExactlyTrusted`, `UnwrapsExactlyIntact`, `OnlySharedSecretTwice`, `LeftoversExplained`, `TypeOK` |

Why the bounds are enough. Two batches of PCR reads (and two NV chunks) are the
least for a torn reading. Two processes are the least for a race, and the code
has no state that counts processes. Two boots are the least for a token to
outlive one. One extend of each attested PCR is enough to make evidence stale,
and `MaxAttestationRetries + 1` unrelated ones to exhaust the retries. In
`ak_cert` the first certificate falls due on day 1 and a renewed one a day after
its issue, so a renewal of a renewal and two racing renewals both happen. In
`protected_secret` two managers are the least for a key that is removed and made
again between two commands of a call or of another manager, and two hierarchies
the least for a key that is not the one a secret was wrapped for. In `skr` a
batch has an entry that fails between two others, and each kind of entry that
ends the whole batch in each place; one extend falls before or after the token.
In `tpm_objects` a connection has the three slots of the kernel's resource
manager (`/dev/tpmrm0`), and four calls are one more than fill them; the tests
are walked in two orders because the order of the code's `unordered_map` is not
determined, one removing the EK before and one after the tests that need it. In
`crypto_backends` the sizes lie below, at and above a tag, and at and between
multiples of a block, which is where the chained calls change their number.
None of the theorems depends on these bounds.

What the runs show beyond "it works":

- `ReleaseBound` and `Implements` hold although the evidence is gathered without
  any protection against change: the service compares quote and PCR values, the
  key is made from those same PCR values, and `RSA_Decrypt` refuses a session
  whose PCRs changed.
- `RetriesAbsorbNoise` is as strong as the code allows: any extend of *any*
  counted PCR between `PolicyPCR` and `RSA_Decrypt` fails one attempt, and an
  extend of an attested one fails all.
- `CertLossNeedsCause` and `DamageStays` say when the certificate can be lost
  (an interrupted replacement, or two at once) and that the library never
  repairs it: an undefined index fails every later check, and a torn certificate
  counts as one that needs no renewal.
- `RequestReturns` is stated in two halves because `curl::SendRequest` sets no
  timeout: it returns only if the connection ends some day.
- `ReleaseWithinPolicy` shows that `AllowUnencrypted` has no effect on what is
  released: a token without `encryptedSecret` passes the policy and then fails
  for the missing field. Nothing is ever released under a signature that is
  present and not valid, whatever the policy.
- `GivesUpAfterAllRetries` covers `ImdsClient`'s loop as well, which has no
  verdict of its own: an answer that is worth a retry is returned as a failure
  only after `1 + MAX_RETRIES` of them.
- `ExitCodeTellsStage` is about the statuses 0, 2, 3, 5 and 6. Of 4 the opposite
  is a finding. 1 says nothing of the stage: it stands for a failure that is none
  of the others, and for every standard exception while the released key is used.
- `BatchAllOrNothing` is what the code does, and less than `AttestationUtil.h`
  (line 345) lets one expect, a result or an error for each entry: an entry
  without a readable `id`, or a key that is not UTF-8, takes the results of all
  others with it.
- `SessionsEnd` holds on every error path: an unsealing starts up to four
  sessions, but each one only after the last was flushed (`Restart`), and
  `~Tss2Session` flushes the one an exception leaves.
- `SuccessLeavesOnlyKnown` names the two operations that use up a connection:
  `Unseal` never flushes the object it loaded, and the EK that
  `GetEkPubWithoutPersisting` generated is closed and not flushed.
- `TpmObjects` lets the process end in `std::terminate` where a session cannot be
  flushed: `~Tss2Session` throws. The exit status of the test client's `all`,
  `hardware_tpm` and `gen2_vtpm` is inverted: the comment at `main.cpp:490` says
  "returns true if all tests succeed", the code returns `all_succeeded ? 0 : 1`.
  Its own copy of `PopulateCurrentPcrs` never ends on a TPM without the bank,
  the exception in `CallsReturn`.
- `AcceptsExactlyTrusted` says of each build what it accepts, and so in what the
  two differ: in what their libraries object to in a certificate, in the stores
  of Windows, which may complete a chain that `x5c` does not, and in a common
  name that has to be quoted, which `ExtractFieldFromDN` reads with its quotes or
  cuts at a comma. What they must not differ in rests on an order: the Windows
  build has to load the leaf last, as the chain is built when it is loaded.
- `UnwrapsExactlyIntact` does the same for the keys of a token (`KeyPairs`). The
  Windows build never hands the first byte of a public point to CNG, so it takes
  any; OpenSSL refuses an unknown one, but reads a private key without PKCS#8,
  which is also what `ExportPkcs8PrivateKey` writes on Linux: a token the sample
  made there does not open on Windows. A private key whose scalar is shorter than
  a coordinate of its point is only logged on Windows
  (`BcryptECDiffieHellman.cpp`, line 142), and the copy at 177 to 179 then runs
  outside of `pekb`; the model lets the process end there (`Terminate`).
- `OnlySharedSecretTwice` and the `LeftoversExplained` of `CryptoBackends` pin
  down what the Windows build does with its handles: the ECDH secret is destroyed
  twice in every call that gets as far as `BcryptHKDF`; a second `SetKey` loses
  the first key handle; `pekb`, which holds the private key in clear, and all
  the buffers of the exports, the one byte of `CryptBitBlob` included, are never
  freed; `~GcmWrapper` may throw, which ends the
  process. On Linux `OsslSha` never frees its context.

Read in passing and not checked by a run:

- The README of the key release tool (lines 313 to 317) describes the trace
  levels in the reverse order of the code. Its line 295 says that all diagnostic
  and trace output goes to stderr, as `TRACE_OUT` does; but "Tracing is enabled"
  (`Main.cpp`, line 165) and the log of the attestation library (`Logger.cpp`)
  are printed to stdout, in front of the key.
- The README of the secrets library (line 63) describes policy 0 as the most
  permissive and 3 as the strictest. In `Policy.h` the bits are permissions: 0
  requires everything, and 3 opens an unsigned secret (`Policy.cpp`, line 148).
  `ReleaseWithinPolicy` is stated for the code's meaning.
- `SecretsProvisioningLibrary.h` (line 39) promises 0 "if no key is found" and -1
  "if the TPM could not be accessed". `IsKeyPresent` (`Tss2Wrapper.cpp`, line
  169) takes every failure of the lookup for the absence of the key, so the answer
  may be 0 with the key in place.

### Findings

`attest_transient`: the comment in `Attest`'s loop (`AttestationClientImpl.cpp`,
line 183) says a decryption is retried "to make sure this is not a transient
failure". The retries send the evidence gathered before the loop, so one extend
of an attested PCR between the evidence and the first decryption makes every
retry fail, the last ones long after it is over, while fresh evidence would
work.

`skr_exit_code`: `AttestationUtil.h` (lines 43 to 45) and the tool's README (line
279) give exit status 2 to a failed attestation, 3 to a failed request for an
access token and 4 to an error of Key Vault. The claims of the attestation token
are parsed outside the `try` of `GetMAAToken` (`AttestationUtil.cpp`, line 469),
and `doSKR` turns every standard exception into 4. So a token whose claims do not
parse ends the tool with 4 before it has asked for an access token; an answer of
IMDS or Entra ID that is no JSON does the same.

`skr_roundtrip`: `base64_to_binary` (`AttestationUtil.cpp`, line 52) removes all
trailing zero bytes of what it decoded, in order to undo the padding, and with
them the genuine ones. A wrapped key that ends in a zero byte, one in 256, does
not unwrap, although the tool's README (line 250) promises a plaintext key for
each.

`tpm_persisted_ek`: `Tss2Util.h` (line 48) says of `GenerateAndPersistEk`:
"Generates the manufacturer defined EK and persistes it to EK_PUB_INDEX". The
handle it passes to `EvictControl` (`Tss2Util.cpp`, line 117) is one `GenerateEk`
never fills, so no EK is made persistent and `GetEkPub` fails where there is none.
The unit test `GetEkPub_Generate` mocks `EvictControl`; the test client's
`generateek`, which removes the persistent EK first, loses it for good.

### Fairness

`Attest` and `AkCert` assume weak fairness of each running call's steps: a TPM
command or a request ends. Errors are not among the fair steps, so no loop is
saved by an error it does not cause. For IMDS requests the code
guarantees this (`CURLOPT_TIMEOUT`); for the attestation service it is an
assumption about the connection, which `HttpRequest` makes visible. Nobody is
assumed to start a call, to answer, to extend a PCR or to reboot. `HttpRequest`
assumes only that sleeps and curl's own timeouts end.

`SecureKeyRelease` assumes weak fairness of the process's own steps (`Step`), not
of the answers: the tool sets no timeouts, so `Exits` excepts a request that is
never answered. Reading a batch from stdin (`ReadBatch`) is one of the process's
own steps, so `Exits` also assumes that stdin ends. `TpmObjects` assumes it of the steps of a running call, that is,
that TPM commands end; nobody is assumed to make a call. `CryptoBackends` states
no liveness.

## Proofs

Every theorem holds for all values of the constants that the module's
`ConstantsAssumption` admits; what that leaves open is said with each module.
The safety properties speak of the end of a call or of a single step, and none
of them is inductive. What is added in each case is what the program knows in
between. Each invariant is proved by one lemma per action or group of actions,
resting on lemmas about the operators the actions are made of, and a last step
that combines them.

**`AttestProofs`**: every set of processes, every PCR list within the bank,
every `PCR_Read` limit above 0, every retry limit, any bound on extends and
boots.

- `BoundInvariant`: `Spec => []BoundInv`, and from it `TypeCorrect`
  (`TypeOK`) and `ReleaseIsBound` (`ReleaseBound`). `ReleaseBound` speaks of one
  step only, so it needs to know where the values of that step come from: the
  key of a request is made from the request's own PCR values (`KeyOfParams`),
  the token a call decrypts is encrypted to that key and was granted for a quote
  equal to those values, or is the key of a token handed out before, and a
  policy session vouches for the PCR values the decryption read (`Bound`).
- `NoiseInvariant`: `Spec => []NoiseInv`, and from it `RetriesSuffice`
  (`RetriesAbsorbNoise`). While a call is not hurt, all it has read so far equals
  the present PCRs, its parameters are those of the present state, and
  `retries <= noise`, strictly so when its session is spoilt: each retry is
  paid for by one unrelated extend (`Unhurt`). So when the retries are used up,
  there were more extends than retries.
- `PromiseKept`: `Spec => Implements`. Under `BoundInv` a successful
  `RsaDecrypt` is a step of `AttestPromise` that issues a token or opens data,
  an extend of an attested PCR and a reboot leave the machine state for a fresh
  one, and every other step is a stutter or the clearing of an output.
- `CalmInvariant` and `CurrentOpens` (`CurrentDataOpens`): a `Decrypt` nothing
  interfered with has read the PCRs as they are, and its session is valid, so
  it succeeds exactly when its data is for the present state.

**`AkCertProofs`**: every set of processes, any number of NV chunks above 0, any
expiry dates, threshold and bounds. `Invariant` gives `TypeCorrect`,
`CertLossHasCause` (`CertLossNeedsCause`), `RenewalIsHarmless`
(`CallGetsItsCert`) and, with a lemma per action, `DamageIsForGood`
(`DamageStays`). The certificate is missing or half written whenever somebody
replaces it, so the invariant says what NV holds at each point of a replacement
(`Half`), what a call that was not disturbed knows of it (`Undisturbed`), that
at most one replacement runs as long as there is no excuse (`OneAtATime`), and
that none has touched NV while it holds the temporary certificate the host put
there before the real one (`Unprovisioned`).

**`HttpRequestProofs`**: every retry limit, every set of statuses and
`Retry-After` values, bodies of any length. `Invariant` gives `TypeCorrect`,
`BodyIsTheLast` (`OnlyTheLastBody`), `GivesUpInTime` (`GivesUpAfterAllRetries`)
and `BackOffDoubles` (`BackOff`). Added are the length and value of every wait
(`Waits`) and that the loop goes on only after answers that may pass (`InLoop`).
The provers know nothing of powers; that `2^(n+1)` is `2 * 2^n` is proved by
counting the subsets of `1..n+1`.

**`ProtectedSecretProofs`**: every set of managers, every set of inputs, any
number of hierarchies. `Invariant` gives `TypeCorrect`, `IntactOpens`
(`IntactSecretOpens`) and `PolicyHolds` (`ReleaseWithinPolicy`). A call that
has reached the TPM was admitted by parsing and policy (`Admitted`), and the key
at `KEYHANDLE`, and every transient key a manager is about to put there, is the
one of the present hierarchy (`OneKey`). This rests on `TPM2_Clear` taking the
transient keys with it: else a late `EvictControl` would bring back an old key.

**`SecureKeyReleaseProofs`**: any set of batches of any length, any number of
extends. `Invariant` gives `TypeCorrect`, `StatusIsHonest`
(`ExitCodeTellsStage`), `SuccessLeavesNothing` (`LeftoversExplained`),
`InitializeIsSafe` (`InitializedOnce`) and `BatchIsWhole` (`BatchAllOrNothing`).
`StatusIsHonest` says nothing of the statuses 1 and 4.
All of them but `InitializedOnce` speak of the process that has ended. The
invariant is a table of what a running process has at each point: the stages
behind it (`StageTable`), the allocations (`HeldTable`), the client and the
logger (`ClientTable`), the results of the batch so far (`LoopTable`).

**`TpmObjectsProofs`**: any number of slots, PCRs and calls, every choice of
banks and every order of the tests. `Invariant` gives `NoSessionIsLeft`
(`SessionsEnd`). What is left of a call is a sequence of instructions, so the
invariant is a typing of that sequence: sessions are started in the scope of a
`Tss2Session` only, a second one only directly after a flush (`StartsOnce`), and
the second connection is used in its own scope only; the sessions and objects
there are agree with the scopes that are still to be closed (`SessionsScoped`,
`ObjectsScoped`). The typing is kept by a step forward, by splicing in the body
of a function or a handler, and by an exception, which drops instructions up to
the next end of a scope. Each function of the library is proved to have it.

The second half of the module is about the transient objects a call leaves.
`Balance` gives `TypeCorrect` (`TypeOK`), `SuccessLeavesNoMore`
(`SuccessLeavesOnlyKnown`) and `FailureIsExplained` (`FailureLeavesExplained`).
These count objects at the end of a call, so the invariant must say of every
suffix of every function what it still creates and flushes. It does so with a
program logic: `Triple(c, s, a, b)` says that the sequence `s`, run with `a`
objects more than the call has found, ends with `b`, and that wherever an
exception leaves `s` the objects left are explained by what failed. A triple
holds when it lies in a set of triples each of which follows from the others by
one instruction (`Closed`); that takes the place of the induction over sequences
the prover does not have. There is a triple for each function, and `Owed` says
that the code that is left has one that starts with the objects there are.

**`CryptoBackendsProofs`**, **`CryptoBackendsHoldings`**: both builds, every set
of roots and system stores, `x5c` of any length, every set of tokens, every size of a secret, a
key, a block and a tag. The same idea, in two views that share their rules.
`Good(c, s, a)` says that `s`, run from the abstract state `a`, finds at each
instruction what it needs of `a` and ends in a final one; `Runs(c, s, a, b)`
that `s` takes `a` to `b` whatever follows.

- In the view `"verdict"` (`CryptoBackendsProofs`) the abstract state is what a
  call has found out: which data it opened with which key, which tests it
  passed, which certificates it loaded, added and built into the chain.
  `Verdicts`: `Spec => []VerdictInv`, a call that runs knows enough for the rest
  of its code, and one that was refused had a reason. From it `VerdictsAreRight`
  (`AcceptsExactlyTrusted`) and `UnwrapsIntact` (`UnwrapsExactlyIntact`). The two loops
  over `x5c` are `FlattenSeq` of a sequence whose length is not fixed; the
  equations of `FlattenSeq` are proved from a smallest counterexample. That the
  chained AES-GCM calls end where the last call starts is `Blocks`.
- In the view `"holdings"` (`CryptoBackendsHoldings`) it is, for each owner,
  what is live, what its members point to and what objects already constructed
  will release. `Safe` is asked at each instruction that may throw: were
  everything open released now, only what may be left would be left, and the
  shared secret alone would be released twice. `Settled` is asked at the end.
  `Resources`: `Spec => []ResourceInv` (with `VerdictInv`), which ties the bag
  `live`, `members` and `twice` to that state, and says by `Owed` that the ends
  of scopes an exception will reach release what is open, each once. From it
  `TypeCorrect` (`TypeOK`), `SecretTwice` (`OnlySharedSecretTwice`) and
  `Leftovers` (`LeftoversExplained`). The last uses `AcceptsExactlyTrusted` too: a
  Windows build leaves root certificates behind only if there are any, which an accepted
  chain shows.

`BalanceInv`, `VerdictInv` and `ResourceInv` quantify over sets of triples or of
pairs, which TLC cannot enumerate, so unlike the other invariants they were not
model-checked first; the properties they imply are.

Only model-checked: liveness under fairness (`CallReturns`, `RequestReturns`,
`Exits`, `CallsReturn`), which the prover cannot express. Every other property
of a passing run is a theorem.

## Assumptions and limits

- The attestation service rejects evidence whose PCR values do not match the
  quote, and encrypts the token to the key of the request. The TPM behaves as
  its specification says of the commands used. Both are outside the repository.
- A non-empty certificate in an IMDS answer is a certificate; the code writes it
  to NV without parsing it.
- In `Attest` each `PCR_Read` returns at least one selected PCR; `TpmObjects` has
  the empty answers.
- Exceptions that leave a `noexcept` function end the process, which the models
  allow at any time a process is idle for good; the error itself is not modelled.
- `ProtectedSecret`: a verified signature, an authenticated decryption and a key
  derivation do what cryptography promises; `TPM2_CreatePrimary` gives the same
  key for the same seed and template.
- `SecureKeyRelease`: what Key Vault released is at least as long as the modulus
  of the TPM's key.
- `TpmObjects`: a `StartAuthSession` that fails leaves `sessionHandle` at 0; a
  connection has room for `Slots` transient objects, and what it leaves is gone
  when the connection closes.
- `CryptoBackends`: signatures, ciphers, curves and key derivation do what they
  promise; a report and an exported key have their full length. `malloc` does not
  fail where the code does not look at its result. A build always finds the same
  issuer for a certificate, if it finds one.
- Of the client library the Linux build against Azure is modelled, not its
  Windows TPM access and its `AZURE_LOCAL` variant. The key release tool and the
  secrets library are modelled in all their builds.
- Tokens, payloads, PEM, DER, base64 and JSON are abstracted to what tells two
  of them apart.

## Not modelled

- Telemetry: events go to a callback, nothing is read back.
- The encoders and parsers (base64url, JWK, os-release, JSON and token encoders)
  are pure functions on strings. Where their result matters to the control, the
  models have its outcomes.
- `LibraryLogger`, `DebugInfo`, `System` of the secrets library: queries and
  messages without state.
- The CVM helper: a pure decision on CPUID leaves.
- The attestation sample, the platform checker, scripts, unit tests and vendored
  code.

## Plan

Done:

1. `Attest`: the core, with the finding.
2. `AttestPromise` and the refinement, checked.
3. `AkCert` and `HttpRequest`.
4. Theorems on `Attest`: types, `ReleaseBound`, `RetriesAbsorbNoise`.
5. `ProtectedSecret`: the policy, `unprotect_secret` and the guest key.
6. `TpmObjects`: handles and sessions of `Tss2Wrapper`, what is flushed on each
   error path, `Unseal`, EK persistence, and the loop of `PopulateCurrentPcrs`.
7. `SecureKeyRelease`: the key release tool, with the client's life cycle.
8. `CryptoBackends`: the cryptography behind `ProtectedSecret` in both builds.
9. Proofs for every instance: the refinement of `AttestPromise` and all safety
   properties of all modules.

Left:

10. `AttestWithCert`: `Attest` composed with `AkCert`, so that `CheckAkCert`
    is no longer an assumption.
