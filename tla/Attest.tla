------------------------------- MODULE Attest -------------------------------
(***************************************************************************)
(* The core of the attestation client library: Attest() and Decrypt() of   *)
(* AttestationClientImpl.cpp, with the TPM commands they issue through     *)
(* Tss2Wrapper and Tss2Util, each of which is one step, and the machine    *)
(* that goes on living between two of them: PCRs are extended, the VM is   *)
(* rebooted, other processes make the same calls.                          *)
(*                                                                         *)
(* A PCR is the number of extends it received since boot (an extend cannot *)
(* be undone).  An ephemeral key is a primary key of the NULL hierarchy,   *)
(* derived by the TPM from the seed of the present boot and from the       *)
(* template, whose only varying part is the PCR policy; so a key is the    *)
(* pair of the two, and creating it again from the same PCR values in the  *)
(* same boot gives the same key.  A ciphertext is named by the key that    *)
(* opens it.                                                               *)
(***************************************************************************)
EXTENDS Naturals, FiniteSets

CONSTANTS
  Procs,                  \* processes of the VM that use the library
  Pcr,                    \* PCR indices whose extends count as PCR updates
  AttestationPcrList,     \* the indices GetAttestationPcrList() returns
  ReadLimit,              \* digests the TPM returns per TPM2_PCR_Read
  MaxAttestationRetries,  \* MAX_ATTESTATION_RETRIES (3 in the code)
  Platform,               \* what the VM really is
  MaxExtends,             \* bound: extends of each PCR per boot
  MaxBoots                \* bound: boots of the VM

IsolationType == {"SEV_SNP", "TRUSTED_LAUNCH"}

ASSUME ConstantsAssumption ==
  /\ Pcr \subseteq Nat
  /\ AttestationPcrList \subseteq Pcr
  /\ ReadLimit \in Nat \ {0}
  /\ MaxAttestationRetries \in Nat
  /\ Platform \in IsolationType
  /\ MaxExtends \in [Pcr -> Nat]
  /\ MaxBoots \in Nat \ {0}

VARIABLES
  boot,   \* the TPM's NULL hierarchy seed: a new one at every reset
  pcr,    \* the TPM's PCR bank
  jwts,   \* tokens handed out so far, kept by their owners across reboots
  call    \* per process, the state of its call into the library

vars == <<boot, pcr, jwts, call>>

-----------------------------------------------------------------------------
(* Values *)

\* The values PCRs take, and what a quote or a (partial) reading of them holds
Digest == UNION {0..MaxExtends[i] : i \in Pcr}
Reading == UNION {[S -> Digest] : S \in SUBSET AttestationPcrList}
NoPcrs == [i \in {} |-> 0]
Key == [seed : 0..MaxBoots, policy : Reading]
NoKey == [seed |-> 0, policy |-> NoPcrs]

\* The attested part of a PCR bank
Attested(bank) == [i \in AttestationPcrList |-> bank[i]]

\* AttestationParameters: what is sent to the attestation service
Params == [quote : Reading, pcrs : Reading, key : Key, isolation : IsolationType]
NoParams == [quote |-> NoPcrs, pcrs |-> NoPcrs, key |-> NoKey,
             isolation |-> "TRUSTED_LAUNCH"]

\* What a call hands to its caller: a decrypted token, or decrypted data
Output == [kind : {"none", "jwt", "data"}, key : Key]
NoOutput == [kind |-> "none", key |-> NoKey]

\* A token asserts what the service verified, and carries the encryption key
Jwt == [key : Key, pcrs : Reading, isolation : IsolationType]

Pc == {"idle", "ak_cert", "parameters", "quote", "pcr_values", "key", "send",
       "decrypt_pcrs", "policy", "rsa_decrypt"}

\* Steps of GetTpmInfo, and of GetPCRValues and DecryptWithEphemeralKey
GetTpmInfoPc == {"quote", "pcr_values", "key"}
DecryptPc == {"decrypt_pcrs", "policy", "rsa_decrypt"}

\* ERROR_HTTP_REQUEST_FAILED stands for every code of a request that failed
\* for another reason than the evidence it carried (see HttpRequest)
ErrorCode ==
  {"ERROR_INVALID_INPUT_PARAMETER", "ERROR_PARSING_DNS_INFO",
   "ERROR_TPM_OPERATION_FAILURE", "ERROR_TPM_INTERNAL_FAILURE",
   "ERROR_AK_CERT_PROVISIONING_FAILED", "ERROR_FAILED_TO_GET_OS_INFO",
   "ERROR_HCL_REPORT_EMPTY", "ERROR_HCL_REPORT_PARSING_FAILURE",
   "ERROR_INVALID_JSON_RESPONSE", "ERROR_EMPTY_VCEK_CERT",
   "ERROR_ATTESTATION_PARAMETERS_VALIDATION_FAILED",
   "ERROR_ATTESTATION_FAILED", "ERROR_HTTP_REQUEST_FAILED",
   "ERROR_PARSING_ATTESTATION_RESPONSE", "ERROR_JWT_DECRYPTION_FAILED",
   "ERROR_JWT_DECRYPTION_TPM_ERROR", "ERROR_DATA_DECRYPTION_TPM_ERROR"}

BadInput == {"ERROR_INVALID_INPUT_PARAMETER", "ERROR_PARSING_DNS_INFO"}

JwtDecryptionErrors == {"ERROR_JWT_DECRYPTION_FAILED", "ERROR_JWT_DECRYPTION_TPM_ERROR"}

\* The locals of a call.  hurt, noise and calm are history: hurt, that a TPM,
\* IMDS or service error happened during the call or an attested PCR was
\* extended; noise, how many extends of other PCRs fell into the call; calm,
\* that nothing at all happened since the service last answered.
Call == [op : {"none", "Attest", "Decrypt"}, pc : Pc,
         quote : Reading, read : Reading, params : Params, token : Key,
         session : [Pcr -> Digest] \cup {NoPcrs}, retries : Nat,
         result : ErrorCode \cup {"none", "SUCCESS"}, output : Output,
         hurt : BOOLEAN, noise : Nat, calm : BOOLEAN]

Idle == [op |-> "none", pc |-> "idle",
         quote |-> NoPcrs, read |-> NoPcrs, params |-> NoParams, token |-> NoKey,
         session |-> NoPcrs, retries |-> 0,
         result |-> "none", output |-> NoOutput,
         hurt |-> FALSE, noise |-> 0, calm |-> TRUE]

Init == /\ boot = 1
        /\ pcr = [i \in Pcr |-> 0]
        /\ jwts = {}
        /\ call = [p \in Procs |-> Idle]

-----------------------------------------------------------------------------
(* The TPM, external: what the commands used here do *)

\* TPM2_PCR_Read returns the lowest selected indices that fit in one answer
PcrRead(selection) ==
  {i \in selection : Cardinality({j \in selection : j < i}) < ReadLimit}

\* PolicyPCR in a policy session: the digest must be that of the present PCRs
PolicyPcrMatches(values, bank) == values = Attested(bank)

\* Mutant of RsaDecryptWorks: the session keeps its authorization
RsaDecryptStaleSession(session, bank, key, ciphertext) == key = ciphertext

\* RSA_Decrypt in such a session: refused once any PCR was updated since
\* PolicyPCR (TPM_RC_PCR_CHANGED), and the padding only comes out right under
\* the key the data was encrypted to
RsaDecryptWorks(session, bank, key, ciphertext) ==
  /\ session = bank
  /\ key = ciphertext

\* Mutant of CreateEphemeralKey: the policy digest is not copied to the template
KeyWithoutPolicy(seed, values) == [seed |-> seed, policy |-> NoPcrs]

\* CreateEphemeralKey: CreatePrimary(NULL hierarchy) with the policy of a trial
\* session's PolicyPCR over the given values
CreateEphemeralKey(seed, values) == [seed |-> seed, policy |-> values]

\* One PCR_Read of PopulateCurrentPcrs: the digests returned are stored
PopulateCurrentPcrs(values, bank) ==
  LET got == PcrRead(AttestationPcrList \ DOMAIN values)
  IN  [i \in DOMAIN values \cup got |-> IF i \in got THEN bank[i] ELSE values[i]]

\* The loop's condition: no selected index is left to read
AllPcrsRead(values) == DOMAIN values = AttestationPcrList

-----------------------------------------------------------------------------
(* How a call ends, fails and retries *)

Disturbed(c) == [c EXCEPT !.hurt = TRUE, !.calm = FALSE]

Returned(c, code, output) ==
  [Idle EXCEPT !.op = c.op, !.result = code, !.output = output,
               !.params.isolation = c.params.isolation, !.retries = c.retries,
               !.hurt = c.hurt, !.noise = c.noise, !.calm = c.calm]

Failed(c, code) == Returned(c, code, NoOutput)

\* Mutants of DecryptFailed: one retry too many, one too few, the counter
\* never advances
RetryOnceMore(c, code) ==
  IF c.op = "Attest" /\ c.retries <= MaxAttestationRetries
  THEN [c EXCEPT !.pc = "send", !.retries = @ + 1, !.token = NoKey,
                 !.read = NoPcrs, !.session = NoPcrs]
  ELSE Failed(c, code)

RetryOnceLess(c, code) ==
  IF c.op = "Attest" /\ c.retries + 1 < MaxAttestationRetries
  THEN [c EXCEPT !.pc = "send", !.retries = @ + 1, !.token = NoKey,
                 !.read = NoPcrs, !.session = NoPcrs]
  ELSE Failed(c, code)

RetryForever(c, code) ==
  IF c.op = "Attest" /\ c.retries < MaxAttestationRetries
  THEN [c EXCEPT !.pc = "send", !.token = NoKey, !.read = NoPcrs, !.session = NoPcrs]
  ELSE Failed(c, code)

\* DecryptMaaToken failed: back to sendAttestationRequest, with the parameters
\* gathered before the loop, or give up.  Decrypt() does not retry.
DecryptFailed(c, code) ==
  IF c.op = "Attest" /\ c.retries < MaxAttestationRetries
  THEN [c EXCEPT !.pc = "send", !.retries = @ + 1, !.token = NoKey,
                 !.read = NoPcrs, !.session = NoPcrs]
  ELSE Failed(c, code)

Goto(p, c) == /\ call' = [call EXCEPT ![p] = c]
              /\ UNCHANGED <<boot, pcr, jwts>>

-----------------------------------------------------------------------------
(* Attest() *)

StartAttest(p) ==
  /\ call[p].pc = "idle"
  /\ \E next \in {[Idle EXCEPT !.op = "Attest", !.pc = "ak_cert"],
                  Failed([Idle EXCEPT !.op = "Attest"], "ERROR_INVALID_INPUT_PARAMETER")} :
        Goto(p, next)

\* IsAkCertRenewalRequired and RenewAndReplaceAkCert, detailed in AkCert: only a
\* TPM error and an unprovisioned certificate stop the call
CheckAkCert(p) ==
  /\ call[p].pc = "ak_cert"
  /\ \/ Goto(p, [call[p] EXCEPT !.pc = "parameters"])
     \/ \E code \in {"ERROR_TPM_OPERATION_FAILURE", "ERROR_AK_CERT_PROVISIONING_FAILED"} :
           Goto(p, Failed(Disturbed(call[p]), code))

\* How the calls before GetTpmInfo fail.  Bad input is the caller's fault, the
\* rest counts as an error met on the way.
ParseURLFails(c) == {Failed(c, code) : code \in BadInput}

ParseClientPayloadFails(c) == {Failed(c, "ERROR_INVALID_INPUT_PARAMETER")}

GetOSInfoFails(c) == {Failed(Disturbed(c), "ERROR_FAILED_TO_GET_OS_INFO")}

ExtractSnpReportFails(c) ==
  {Failed(Disturbed(c), code) :
     code \in {"ERROR_HCL_REPORT_EMPTY", "ERROR_HCL_REPORT_PARSING_FAILURE"}}

GetVCekCertFails(c) ==
  {Failed(Disturbed(c), code) :
     code \in {"ERROR_HTTP_REQUEST_FAILED", "ERROR_INVALID_JSON_RESPONSE",
               "ERROR_EMPTY_VCEK_CERT"}}

\* Any exception while reading the HCL report makes the VM a trusted launch VM;
\* only a confidential VM parses the report and asks IMDS for the VCEK
\* certificate.
GetIsolationInfo(c) ==
  {[c EXCEPT !.pc = "quote", !.params.isolation = Platform]} \cup
  IF Platform = "SEV_SNP"
  THEN {[Disturbed(c) EXCEPT !.pc = "quote", !.params.isolation = "TRUSTED_LAUNCH"]}
       \cup ExtractSnpReportFails(c) \cup GetVCekCertFails(c)
  ELSE {}

\* Attest() between the certificate and GetTpmInfo.  GetMeasurements turns
\* every error into an empty log.
GetParameters(p) ==
  /\ call[p].pc = "parameters"
  /\ \E next \in ParseURLFails(call[p]) \cup ParseClientPayloadFails(call[p])
                 \cup GetOSInfoFails(call[p]) \cup GetIsolationInfo(call[p]) : Goto(p, next)

\* GetTpmInfo, first half: AIK certificate and key, then TPM2_Quote
GetPCRQuote(p) ==
  /\ call[p].pc = "quote"
  /\ Goto(p, [call[p] EXCEPT !.pc = "pcr_values", !.quote = Attested(pcr)])

\* GetPCRValues, one PCR_Read at a time, of GetTpmInfo or of a decryption
GetPCRValues(p) ==
  /\ call[p].pc \in {"pcr_values", "decrypt_pcrs"}
  /\ LET values == PopulateCurrentPcrs(call[p].read, pcr)
         after  == IF call[p].pc = "pcr_values" THEN "key" ELSE "policy"
     IN  Goto(p, [call[p] EXCEPT !.read = values,
                                 !.pc = IF AllPcrsRead(values) THEN after ELSE @])

\* AttestationParameters::Validate
ValidateFails(c) == {Failed(Disturbed(c), "ERROR_ATTESTATION_PARAMETERS_VALIDATION_FAILED")}

\* GetTpmInfo, second half: the key, bound to the PCR values just read
GetEphemeralKey(p) ==
  /\ call[p].pc = "key"
  /\ LET params == [quote |-> call[p].quote, pcrs |-> call[p].read,
                    key |-> CreateEphemeralKey(boot, call[p].read),
                    isolation |-> call[p].params.isolation]
     IN  \/ Goto(p, [call[p] EXCEPT !.pc = "send", !.params = params,
                                    !.quote = NoPcrs, !.read = NoPcrs])
         \/ \E next \in ValidateFails(call[p]) : Goto(p, next)

\* GetTpmInfo's catch clauses
GetTpmInfoError(p) ==
  /\ call[p].pc \in GetTpmInfoPc
  /\ \E code \in {"ERROR_TPM_OPERATION_FAILURE", "ERROR_TPM_INTERNAL_FAILURE"} :
        Goto(p, Failed(Disturbed(call[p]), code))

\* The service, external: it checks the quote against the PCR values, and
\* encrypts the token to the key of the request
ServiceAccepts(params) == params.quote = params.pcrs

\* How a request fails that the service would have granted
SendHttpRequestFails(c) ==
  {Failed(Disturbed(c), code) :
     code \in {"ERROR_ATTESTATION_FAILED", "ERROR_HTTP_REQUEST_FAILED"}}

ParseMaaResponseFails(c) == {Failed(Disturbed(c), "ERROR_PARSING_ATTESTATION_RESPONSE")}

\* DecryptMaaToken up to DecryptInnerKey: not what the service should send
ParseTokenFails(c) == {DecryptFailed(Disturbed(c), "ERROR_JWT_DECRYPTION_FAILED")}

\* sendAttestationRequest, ParseMaaResponse and the parsing part of
\* DecryptMaaToken, in one step: the machine can only interfere afterwards
SendAttestationRequest(p) ==
  LET c == call[p] IN
  /\ c.pc = "send"
  /\ \/ /\ ServiceAccepts(c.params)
        /\ Goto(p, [c EXCEPT !.pc = "decrypt_pcrs", !.token = c.params.key, !.calm = TRUE])
     \/ /\ ~ServiceAccepts(c.params)
        /\ Goto(p, Failed(c, "ERROR_ATTESTATION_FAILED"))
     \/ \E next \in SendHttpRequestFails(c) \cup ParseMaaResponseFails(c)
                    \cup ParseTokenFails(c) : Goto(p, next)

-----------------------------------------------------------------------------
(* Encrypt() and Decrypt(), and the decryption both share *)

\* Encrypt: the data is wrapped with the public key the token carries
Encrypt(jwt) == jwt.key

StartDecrypt(p) ==
  /\ call[p].pc = "idle"
  /\ \/ \E jwt \in jwts :
           Goto(p, [Idle EXCEPT !.op = "Decrypt", !.pc = "decrypt_pcrs",
                                !.token = Encrypt(jwt)])
     \/ Goto(p, Failed([Idle EXCEPT !.op = "Decrypt"], "ERROR_INVALID_INPUT_PARAMETER"))

DecryptErrors(op) ==
  {"ERROR_TPM_INTERNAL_FAILURE",
   IF op = "Attest" THEN "ERROR_JWT_DECRYPTION_TPM_ERROR" ELSE "ERROR_DATA_DECRYPTION_TPM_ERROR"}

\* DecryptWithEphemeralKey up to PolicyPCR
PolicyPcr(p) ==
  LET c == call[p] IN
  /\ c.pc = "policy"
  /\ IF PolicyPcrMatches(c.read, pcr)
     THEN Goto(p, [c EXCEPT !.pc = "rsa_decrypt", !.session = pcr])
     ELSE \E code \in DecryptErrors(c.op) : Goto(p, DecryptFailed(c, code))

\* RSA_Decrypt, DecryptJwt and the return to the caller
RsaDecrypt(p) ==
  LET c == call[p]
      key == CreateEphemeralKey(boot, c.read)
      kind == IF c.op = "Attest" THEN "jwt" ELSE "data"
  IN
  /\ c.pc = "rsa_decrypt"
  /\ IF RsaDecryptWorks(c.session, pcr, key, c.token)
     THEN /\ call' = [call EXCEPT ![p] =
                        Returned(c, "SUCCESS", [kind |-> kind, key |-> c.token])]
          /\ jwts' = IF c.op = "Attest"
                     THEN jwts \cup {[key |-> c.token, pcrs |-> c.params.quote,
                                      isolation |-> c.params.isolation]}
                     ELSE jwts
          /\ UNCHANGED <<boot, pcr>>
     ELSE \E code \in DecryptErrors(c.op) : Goto(p, DecryptFailed(c, code))

\* The catch clauses of DecryptInnerKey and of Decrypt; and, once the inner key
\* is there, GetEncryptedJwt and DecryptJwt may not accept the token
DecryptError(p) ==
  /\ call[p].pc \in DecryptPc
  /\ \/ \E code \in DecryptErrors(call[p].op) :
           Goto(p, DecryptFailed(Disturbed(call[p]), code))
     \/ /\ call[p].op = "Attest" /\ call[p].pc = "rsa_decrypt"
        /\ Goto(p, DecryptFailed(Disturbed(call[p]), "ERROR_JWT_DECRYPTION_FAILED"))

-----------------------------------------------------------------------------
(* The machine *)

\* A PCR is extended, by the kernel, the boot loader or any process of the VM
Extend(i) ==
  /\ pcr[i] < MaxExtends[i]
  /\ pcr' = [pcr EXCEPT ![i] = @ + 1]
  /\ call' = [p \in Procs |->
                IF call[p].pc = "idle" THEN call[p]
                ELSE IF i \in AttestationPcrList THEN Disturbed(call[p])
                ELSE [call[p] EXCEPT !.noise = @ + 1, !.calm = FALSE]]
  /\ UNCHANGED <<boot, jwts>>

\* The VM restarts: calls vanish, PCRs start over, the NULL hierarchy is reseeded
Reboot ==
  /\ boot < MaxBoots
  /\ boot' = boot + 1
  /\ pcr' = [i \in Pcr |-> 0]
  /\ call' = [p \in Procs |-> Idle]
  /\ UNCHANGED jwts

Start(p) == StartAttest(p) \/ StartDecrypt(p)

Advance(p) == \/ CheckAkCert(p) \/ GetParameters(p) \/ GetPCRQuote(p) \/ GetPCRValues(p)
              \/ GetEphemeralKey(p) \/ SendAttestationRequest(p) \/ PolicyPcr(p) \/ RsaDecrypt(p)

Step(p) == Advance(p) \/ GetTpmInfoError(p) \/ DecryptError(p)

Next == \/ \E p \in Procs : Start(p) \/ Step(p)
        \/ \E i \in Pcr : Extend(i)
        \/ Reboot

Spec == Init /\ [][Next]_vars

\* A running call goes on: its steps are TPM commands and HTTP requests that
\* end.  No error has to come to its help, nobody has to start a call, and
\* nothing has to happen to the machine.
Fairness == \A p \in Procs : WF_vars(Advance(p))
FairSpec == Spec /\ Fairness

-----------------------------------------------------------------------------
(* What makes the component correct *)

\* The variables are well typed, and a call never retries more often than
\* MAX_ATTESTATION_RETRIES (the counter of Attest()'s loop).
TypeOK ==
  /\ boot \in 1..MaxBoots
  /\ pcr \in [Pcr -> Digest]
  /\ jwts \subseteq Jwt
  /\ call \in [Procs -> Call]
  /\ \A p \in Procs : call[p].retries \in 0..MaxAttestationRetries

\* The key the TPM gives out for the machine as it is now
CurrentKey == [seed |-> boot, policy |-> Attested(pcr)]

\* A token or data is only ever released to the caller by a step that starts in
\* the machine state the token asserts: same boot, and every attested PCR as
\* the service verified it in the quote.  GetTpmInfo reads quote, PCR values
\* and key in three steps, and DecryptWithEphemeralKey checks in three others;
\* this says no extend or reboot in between goes unnoticed.
ReleaseBound ==
  [][\A p \in Procs : call'[p].output # call[p].output /\ call'[p].output # NoOutput
       => /\ call'[p].output.key = CurrentKey
          /\ \E jwt \in jwts' : /\ jwt.key = CurrentKey
                                /\ jwt.pcrs = Attested(pcr)]_vars

\* Attest()'s retry loop absorbs what it is there for: a call whose input was
\* good, that met no error and saw no attested PCR change, only fails when more
\* than MAX_ATTESTATION_RETRIES unrelated PCR extends fell into it (each can
\* spoil one RSA_Decrypt); and if it succeeds, GetIsolationInfo told the truth.
RetriesAbsorbNoise ==
  \A p \in Procs :
    LET c == call[p] IN
    c.op = "Attest" /\ c.pc = "idle" /\ ~c.hurt =>
      IF c.result = "SUCCESS" THEN c.params.isolation = Platform
      ELSE c.result \in BadInput \/ c.noise > MaxAttestationRetries

\* Decrypt() has no retry loop, but a call during which nothing happened opens
\* whatever was encrypted for the present state of the machine, however long
\* ago and by whichever process the token was obtained.
CurrentDataOpens ==
  [][\A p \in Procs :
       /\ call[p].op = "Decrypt" /\ call[p].pc # "idle" /\ call'[p].pc = "idle"
       /\ boot' = boot /\ ~call'[p].hurt /\ call'[p].noise = 0
       => (call'[p].result = "SUCCESS" <=> call[p].token = CurrentKey)]_vars

\* Every call returns: the loops of PopulateCurrentPcrs and of Attest() end
CallReturns == \A p \in Procs : call[p].pc # "idle" ~> call[p].pc = "idle"

\* What the comment in Attest()'s loop says of it: a decryption is retried "to
\* make sure this is not a transient failure", so that a failure reported
\* after all retries is not due to something that was over before the last one.
RetryRulesOutTransients ==
  \A p \in Procs :
    call[p].op = "Attest" /\ call[p].result \in JwtDecryptionErrors => ~call[p].calm

\* Seen from outside, tokens are issued and data is opened atomically for the
\* machine state of that moment
Promise == INSTANCE AttestPromise WITH
  machine <- [seed |-> boot, policy |-> Attested(pcr)],
  tokens  <- {jwt.key : jwt \in jwts},
  output  <- [p \in Procs |-> call[p].output],
  None    <- NoOutput

\* Attest() and Decrypt() keep the promise AttestPromise makes
Implements == Promise!Spec
=============================================================================
