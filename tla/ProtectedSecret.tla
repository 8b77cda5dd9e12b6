--------------------------- MODULE ProtectedSecret ---------------------------
(***************************************************************************)
(* azure-protected-vm-secrets: unprotect_secret, the policy it enforces,   *)
(* and the guest key in the TPM that opens a secret, with the operations   *)
(* that create it, remove it and ask for it.  unprotect_secret_wide takes  *)
(* the same decisions: input that cannot be converted counts as legacy,    *)
(* and the conversion of the secret always has a result on Linux.          *)
(*                                                                         *)
(* A call first parses, verifies and judges its input, without touching    *)
(* anything shared: one step.  Every TPM command after that is a step of   *)
(* its own.  The guest key is a primary key of the owner hierarchy, always *)
(* made from the same template, so it is named by the hierarchy's seed.    *)
(* One call of unprotect_secret is modelled: such calls only read the      *)
(* guest key and cannot disturb each other.                                *)
(***************************************************************************)
EXTENDS Naturals

CONSTANTS
  Managers,  \* processes that create, remove or ask for the guest key
  Inputs,    \* what unprotect_secret is called with
  MaxSeeds   \* bound: owner hierarchies, a new one with every TPM2_Clear

NoKey == 0
Seed == 1..MaxSeeds

Scheme == {"rsaes", "rsaes-oaep"}

\* signature: why ParseToken rejects it; claims: what is wrong with them;
\* padding: the header's x-az-rsa-padding (none: absent or empty), as against
\* the scheme the key was wrapped with; key: the guest key it was wrapped for;
\* forVm: the secret is for this VM (its UUID enters the key derivation)
Input ==
  [real : BOOLEAN,
   claims : {"complete", "corrupt", "undecodable", "mistyped", "incomplete",
             "unencrypted", "unreadable"},
   signature : {"none", "valid", "mismatch", "untrusted", "no_x5c", "undecodable"},
   padding : {"none", "unknown", "mistyped"} \cup Scheme,
   wrapped : Scheme, key : Seed, forVm : BOOLEAN]

ASSUME ConstantsAssumption ==
  /\ MaxSeeds \in Nat \ {0}
  /\ Inputs \subseteq Input

VARIABLES
  seed,    \* of the owner hierarchy
  key,     \* the persistent object at KEYHANDLE
  call,    \* the call of unprotect_secret
  manage   \* per manager, its operation

vars == <<seed, key, call, manage>>

-----------------------------------------------------------------------------
(* Policy: PolicyEvaluator *)

Encrypted == 1
Signed == 2
Legacy == 4
Unset == 8     \* *eval_policy was not assigned

AllowUnencrypted == 1
AllowUnsigned == 2
AllowLegacy == 4

\* IS_POLICY_SET, for the one-bit flags it is used with
IsPolicySet(policy, flag) == (policy \div flag) % 2 = 1

IsLegacy(input) == ~input.real

\* Mutant of isEncrypted: the claims of legacy input are looked at
IsEncryptedAnyway(input) == input.claims \notin {"unencrypted", "unreadable"}

isEncrypted(input) ==
  ~IsLegacy(input) /\ input.claims \notin {"unencrypted", "unreadable"}

isSigned(input) == ~IsLegacy(input) /\ input.signature # "none"

GetEvaluatedPolicy(input) ==
  (IF isEncrypted(input) THEN Encrypted ELSE 0) +
  (IF isSigned(input) THEN Signed ELSE 0) +
  (IF IsLegacy(input) THEN Legacy ELSE 0)

\* Mutant of IsCompliant: any signature status will do
IsCompliantUnsigned(input, policy) ==
  LET features == GetEvaluatedPolicy(input) IN
  IF IsPolicySet(features, Legacy) THEN IsPolicySet(policy, AllowLegacy)
  ELSE IsPolicySet(features, Encrypted) \/ IsPolicySet(policy, AllowUnencrypted)

IsCompliant(input, policy) ==
  LET features == GetEvaluatedPolicy(input) IN
  IF IsPolicySet(features, Legacy) THEN IsPolicySet(policy, AllowLegacy)
  ELSE /\ IsPolicySet(features, Encrypted) \/ IsPolicySet(policy, AllowUnencrypted)
       /\ IsPolicySet(features, Signed) \/ IsPolicySet(policy, AllowUnsigned)

-----------------------------------------------------------------------------
(* Parsing.  Each operator is the set of codes it may fail with. *)

\* VerifyCertChain: up to a root of the library, for the expected subject
CertChainErrors(input) ==
  IF input.signature = "untrusted"
  THEN {"CryptographyError_Signing_certChainError", "UnknownError"} ELSE {}

\* VerifySignature, with the key of the leaf certificate
SignatureErrors(input) ==
  IF input.signature = "mismatch"
  THEN {"CryptographyError_Signing_verifyError", "GeneralError"} ELSE {}

\* ParseToken on header and payload that can be read: no signature, nothing to
\* verify
VerifyErrors(input) ==
  CASE input.signature = "undecodable" -> {"ParsingError_Base64_b64Error"}
    [] input.signature = "no_x5c" -> {"ParsingError_Base64_b64Error", "UnknownError"}
    [] OTHER -> CertChainErrors(input) \cup SignatureErrors(input)

\* The constructor of PolicyEvaluator: only what isRealJwt takes for a token of
\* this library is parsed
ParseErrors(input) ==
  IF IsLegacy(input) THEN {}
  ELSE IF input.claims = "unreadable"
       THEN {"ParsingError_Base64_b64Error", "ParsingError_Jwt_jsonParseError"}
       ELSE VerifyErrors(input)

GetPaddingScheme(input) == IF input.padding = "none" THEN "rsaes" ELSE input.padding

PaddingErrors(input) ==
  CASE input.padding = "unknown" -> {"ParsingError_Jwt_invalidFieldError"}
    [] input.padding = "mistyped" -> {"UnknownError"}
    [] OTHER -> {}

\* decrypt_secret before it opens the TPM: fields are looked up and decoded
FieldErrors(input) ==
  CASE input.claims = "incomplete" -> {"ParsingError_Jwt_missingFieldError"}
    [] input.claims = "unencrypted" ->
         {"ParsingError_Jwt_missingFieldError", "ParsingError_Jwt_invalidFieldError"}
    [] input.claims = "mistyped" -> {"ParsingError_Jwt_invalidFieldError"}
    [] input.claims = "undecodable" -> {"UnknownError"}
    [] OTHER -> {}

\* decrypt_secret once it has the transport key: AES-GCM, ECDH, HKDF with the
\* UUID of this VM, AES-GCM
UnwrapErrors(input) ==
  CASE input.claims = "corrupt" -> {"CryptographyError", "UnknownError"}
    [] input.claims = "complete" /\ ~input.forVm -> {"CryptographyError"}
    [] OTHER -> {}

-----------------------------------------------------------------------------
(* State *)

TpmError(pc) ==
  CASE pc = "context" -> {"TpmError_Context_tctiInitError", "TpmError_Context_esysInitError",
                          "UnknownError"}
    [] pc = "find" -> {"TpmError_Auth_setAuthError", "TpmError_Handles_handlePresentError"}
    [] pc = "decrypt" -> {"TpmError_Auth_setAuthError", "CryptographyError_TpmRsa_decryptError",
                          "UnknownError"}

ErrorCode ==
  {"PolicyMismatchError"}
  \cup (UNION {ParseErrors(input) \cup PaddingErrors(input) \cup FieldErrors(input)
               \cup UnwrapErrors(input) : input \in Input})
  \cup TpmError("context") \cup TpmError("find") \cup TpmError("decrypt")

\* fault and absent are history: a TPM command failed by itself, or the system
\* UUID could not be read; there was a moment during the call without the guest
\* key, or with a new hierarchy
NoCall == [pc |-> "idle", result |-> "none"]
Call == [pc : {"context", "find", "decrypt", "done"}, input : Inputs, policy : 0..7,
         eval_policy : {0, 1, 2, 3, 4, Unset}, output : {"none", "input", "secret"},
         result : ErrorCode \cup {"none", "Success"}, fault : BOOLEAN, absent : BOOLEAN]

Idle == [pc |-> "idle", transient |-> NoKey, answer |-> "none"]
Manage == [pc : {"idle", "create", "persist", "find", "evict", "query"},
           transient : Seed \cup {NoKey}, answer : {"none", "-1", "0", "1"}]

Init == /\ seed = 1
        /\ key \in {NoKey, seed}
        /\ call = NoCall
        /\ manage = [m \in Managers |-> Idle]

-----------------------------------------------------------------------------
(* unprotect_secret *)

Running == call.pc \in {"context", "find", "decrypt"}

Fails(c, code) == [c EXCEPT !.pc = "done", !.result = code]
Releases(c, what) == [c EXCEPT !.pc = "done", !.result = "Success", !.output = what]

\* From the entry to the first TPM command, or to the return
UnprotectSecret(c) ==
  LET e == [c EXCEPT !.eval_policy = GetEvaluatedPolicy(c.input)] IN
  IF ParseErrors(c.input) # {} THEN {Fails(c, code) : code \in ParseErrors(c.input)}
  ELSE IF ~IsCompliant(c.input, c.policy) THEN {Fails(e, "PolicyMismatchError")}
  ELSE IF IsLegacy(c.input) THEN {Releases(e, "input")}
  ELSE IF PaddingErrors(c.input) # {} THEN {Fails(e, code) : code \in PaddingErrors(c.input)}
  ELSE {[Fails(e, "UnknownError") EXCEPT !.fault = TRUE]}   \* no system UUID to be read
       \cup IF FieldErrors(c.input) # {}
            THEN {Fails(e, code) : code \in FieldErrors(c.input)}
            ELSE {[e EXCEPT !.pc = "context"]}

\* A call of unprotect_secret or of unprotect_secret_wide
Start ==
  /\ call.pc = "idle"
  /\ \E input \in Inputs, policy \in 0..7 :
       /\ input.key <= seed   \* no secret is protected for a hierarchy to come
       /\ call' \in UnprotectSecret(
            [pc |-> "context", input |-> input, policy |-> policy, eval_policy |-> Unset,
             output |-> "none", result |-> "none", fault |-> FALSE, absent |-> key = NoKey])
  /\ UNCHANGED <<seed, key, manage>>

\* The caller has its result
Return == call.pc = "done" /\ call' = NoCall /\ UNCHANGED <<seed, key, manage>>

\* The constructor of Tpm
OpenContext == /\ call.pc = "context"
               /\ call' = [call EXCEPT !.pc = "find"]
               /\ UNCHANGED <<seed, key, manage>>

\* Tss2RsaDecrypt: Esys_TR_FromTPMPublic at KEYHANDLE
FindKey ==
  /\ call.pc = "find"
  /\ call' = IF key # NoKey THEN [call EXCEPT !.pc = "decrypt"]
             ELSE Fails(call, "TpmError_Handles_handlePresentError")
  /\ UNCHANGED <<seed, key, manage>>

\* TPM2_RSA_Decrypt, external: right key, right padding
RsaDecryptWorks(input, object) ==
  /\ object = input.key
  /\ GetPaddingScheme(input) = input.wrapped

\* Esys_RSA_Decrypt with the object found at KEYHANDLE, and the rest of
\* decrypt_secret
RsaDecrypt ==
  /\ call.pc = "decrypt"
  /\ call' \in
       IF ~RsaDecryptWorks(call.input, key)
       THEN {Fails(call, "CryptographyError_TpmRsa_decryptError")}
       ELSE IF UnwrapErrors(call.input) # {}
       THEN {Fails(call, code) : code \in UnwrapErrors(call.input)}
       ELSE {Releases(call, "secret")}
  /\ UNCHANGED <<seed, key, manage>>

\* A TPM command, or the device, fails by itself
CallFault ==
  /\ Running
  /\ \E code \in TpmError(call.pc) : call' = [Fails(call, code) EXCEPT !.fault = TRUE]
  /\ UNCHANGED <<seed, key, manage>>

-----------------------------------------------------------------------------
(* The guest key *)

Step(m, from, to) == /\ manage[m].pc = from
                     /\ manage' = [manage EXCEPT ![m] = to]

\* What a change of the guest key means for the call
Absent == IF Running THEN [call EXCEPT !.absent = TRUE] ELSE call

StartManage(m) ==
  /\ \E pc \in {"create", "find", "query"} : Step(m, "idle", [Idle EXCEPT !.pc = pc])
  /\ UNCHANGED <<seed, key, call>>

\* Mutant of CreatePrimary: another template each time, so another key
CreatePrimaryAnew(s) == (s % MaxSeeds) + 1

\* TPM2_CreatePrimary, external: the key follows from seed and template
CreatePrimary(s) == s

\* GenerateGuestKey: Esys_CreatePrimary, then Esys_EvictControl, which fails if
\* KEYHANDLE is taken or the new object is gone
GenerateGuestKey(m) ==
  \/ /\ Step(m, "create", [Idle EXCEPT !.pc = "persist", !.transient = CreatePrimary(seed)])
     /\ UNCHANGED <<seed, key, call>>
  \/ /\ Step(m, "persist", Idle)
     /\ key' = IF key = NoKey THEN manage[m].transient ELSE key
     /\ UNCHANGED <<seed, call>>

\* RemoveKey: Esys_TR_FromTPMPublic, then Esys_EvictControl, which takes away
\* whatever is at KEYHANDLE by then
RemoveKey(m) ==
  \/ /\ Step(m, "find", IF key = NoKey THEN Idle ELSE [Idle EXCEPT !.pc = "evict"])
     /\ UNCHANGED <<seed, key, call>>
  \/ /\ Step(m, "evict", Idle)
     /\ key' = NoKey
     /\ call' = Absent
     /\ UNCHANGED seed

Answer(m, answer) ==
  Step(m, "query", [Idle EXCEPT !.answer = answer])

\* is_secrets_provisioning_enabled: IsKeyPresent says no whenever the TPM does
\* not say yes; -1 is left for a context that cannot be set up
IsSecretsProvisioningEnabled(m) ==
  /\ \/ Answer(m, IF key # NoKey THEN "1" ELSE "0")
     \/ Answer(m, "0")
     \/ Answer(m, "-1")
  /\ UNCHANGED <<seed, key, call>>

\* A TPM command of a manager fails by itself, or the manager dies
ManagerFault(m) ==
  /\ manage[m].pc \in {"create", "persist", "find", "evict"}
  /\ manage' = [manage EXCEPT ![m] = Idle]
  /\ UNCHANGED <<seed, key, call>>

\* TPM2_Clear: the owner hierarchy gets a new seed and loses its objects
Clear ==
  /\ seed < MaxSeeds
  /\ seed' = seed + 1
  /\ key' = NoKey
  /\ call' = Absent
  /\ manage' = [m \in Managers |-> IF manage[m].pc = "persist" THEN Idle ELSE manage[m]]

Next == \/ Start \/ OpenContext \/ FindKey \/ RsaDecrypt \/ CallFault \/ Return
        \/ Clear
        \/ \E m \in Managers : \/ StartManage(m) \/ GenerateGuestKey(m) \/ RemoveKey(m)
                               \/ IsSecretsProvisioningEnabled(m) \/ ManagerFault(m)

Spec == Init /\ [][Next]_vars

-----------------------------------------------------------------------------
(* What makes the component correct *)

\* The variables are well typed: the evaluated policy of legacy input has no
\* other feature, and there is no other persistent key than one made by the TPM
TypeOK ==
  /\ seed \in Seed
  /\ key \in Seed \cup {NoKey}
  /\ call \in Call \cup {NoCall}
  /\ manage \in [Managers -> Manage]

\* What may leave unprotect_secret, and when.  Legacy input is only returned as
\* it came, under AllowLegacy.  A secret is only returned for claims that are
\* complete, for this VM, wrapped for the present hierarchy, under a signature
\* that is valid or, with AllowUnsigned, absent; AllowUnencrypted lets nothing
\* else out.
ReleaseWithinPolicy ==
  [][call'.pc = "done" /\ call' # call /\ call'.output # "none" =>
       LET c == call' IN
       \/ /\ c.output = "input" /\ ~c.input.real
          /\ c.policy >= 4 /\ c.eval_policy = Legacy
       \/ /\ c.output = "secret" /\ c.input.real
          /\ c.input.claims = "complete" /\ c.input.forVm
          /\ c.input.key = seed
          /\ IF c.input.signature = "valid" THEN c.eval_policy = Encrypted + Signed
             ELSE /\ c.input.signature = "none" /\ c.eval_policy = Encrypted
                  /\ c.policy \in {2, 3, 6, 7}]_vars

\* A token the platform made for the present hierarchy and for this VM
Intact(input) ==
  /\ input.real /\ input.claims = "complete" /\ input.forVm
  /\ input.signature = "valid"
  /\ \/ input.padding = input.wrapped
     \/ input.padding = "none" /\ input.wrapped = "rsaes"
  /\ input.key = seed

\* An intact secret opens under every policy whenever the guest key is there
\* for the whole call and no TPM command fails, even if the key was removed and
\* generated again since the secret was protected.
IntactSecretOpens ==
  call.pc = "done" /\ ~call.fault /\ ~call.absent /\ Intact(call.input) =>
    call.result = "Success" /\ call.output = "secret"
=============================================================================
