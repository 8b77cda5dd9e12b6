----------------------- MODULE ProtectedSecretProofs -----------------------
(***************************************************************************)
(* Proofs about ProtectedSecret, for every set of managers, every set of   *)
(* inputs and any number of owner hierarchies.                             *)
(***************************************************************************)
EXTENDS ProtectedSecret, TLAPS

(***************************************************************************)
(* The inductive invariant.  A call that has got as far as the TPM was     *)
(* admitted: its token parsed, its signature verified or is absent with    *)
(* leave of the policy.  The key at KEYHANDLE, and every key on its way    *)
(* there, is the one of the present hierarchy; and no secret is protected  *)
(* for a hierarchy to come, so a new seed makes no old secret intact.      *)
(***************************************************************************)
Admitted(c) ==
  /\ c.input.real
  /\ c.input.claims \in {"complete", "corrupt"}
  /\ \/ c.input.signature = "valid" /\ c.eval_policy = Encrypted + Signed
     \/ c.input.signature = "none" /\ c.eval_policy = Encrypted /\ c.policy \in {2, 3, 6, 7}
  /\ c.input.padding \in {"none"} \cup Scheme
  /\ c.output = "none" /\ c.result = "none" /\ ~c.fault

\* What a call may look like under hierarchy s with k at KEYHANDLE
Sound(c, s, k) ==
  /\ c \in Call
  /\ c.input.key <= s
  /\ c.pc # "done" => Admitted(c) /\ (~c.absent => k # NoKey)

\* IntactSecretOpens, of one call
Opens(c, s) ==
  c.pc = "done" /\ ~c.fault /\ ~c.absent /\ c.input.real /\ c.input.claims = "complete"
  /\ c.input.forVm /\ c.input.signature = "valid"
  /\ (\/ c.input.padding = c.input.wrapped
      \/ c.input.padding = "none" /\ c.input.wrapped = "rsaes")
  /\ c.input.key = s
    => c.result = "Success" /\ c.output = "secret"

OneKey == /\ key \in {NoKey, seed}
          /\ \A m \in Managers : manage[m].transient \in {NoKey, seed}

\* A transient key is only held on its way to KEYHANDLE
OnlyPersistHolds == \A m \in Managers : manage[m].pc # "persist" => manage[m].transient = NoKey

Inv == /\ TypeOK
       /\ OneKey
       /\ OnlyPersistHolds
       /\ call = NoCall \/ (Sound(call, seed, key) /\ Opens(call, seed))

-----------------------------------------------------------------------------
(* Parsing and policy *)

\* Every code a check of the input fails with is one of the library's
LEMMA InputErrors ==
  ASSUME NEW input \in Input
  PROVE  ParseErrors(input) \cup PaddingErrors(input) \cup FieldErrors(input)
         \cup UnwrapErrors(input) \subseteq ErrorCode
  BY DEF ErrorCode

\* So is every code of the TPM steps, and of a policy that is not met
LEMMA StepErrors ==
  /\ TpmError("context") \cup TpmError("find") \cup TpmError("decrypt") \subseteq ErrorCode
  /\ {"PolicyMismatchError", "UnknownError", "TpmError_Handles_handlePresentError",
      "CryptographyError_TpmRsa_decryptError"} \subseteq ErrorCode
<1>1. /\ "UnknownError" \in TpmError("context")
      /\ "TpmError_Handles_handlePresentError" \in TpmError("find")
      /\ "CryptographyError_TpmRsa_decryptError" \in TpmError("decrypt")
  BY DEF TpmError
<1> DEFINE Checks == UNION {ParseErrors(input) \cup PaddingErrors(input) \cup FieldErrors(input)
                            \cup UnwrapErrors(input) : input \in Input}
<1>2. ErrorCode = {"PolicyMismatchError"} \cup Checks
                  \cup TpmError("context") \cup TpmError("find") \cup TpmError("decrypt")
  BY DEF ErrorCode
<1> HIDE DEF Checks
<1> QED
  BY <1>1, <1>2

\* GetEvaluatedPolicy: legacy input has no other feature
LEMMA EvaluatedPolicy ==
  ASSUME NEW input \in Input
  PROVE  /\ ~input.real => GetEvaluatedPolicy(input) = Legacy
         /\ input.real => GetEvaluatedPolicy(input) =
              (IF input.claims \in {"unencrypted", "unreadable"} THEN 0 ELSE Encrypted)
              + (IF input.signature = "none" THEN 0 ELSE Signed)
  BY DEF GetEvaluatedPolicy, isEncrypted, isSigned, IsLegacy, Input, Encrypted, Signed, Legacy

\* Which policies allow what
LEMMA PolicyFlags ==
  /\ \A p \in 0..7 : IsPolicySet(p, AllowLegacy) <=> p >= 4
  /\ \A p \in 0..7 : IsPolicySet(p, AllowUnsigned) <=> p \in {2, 3, 6, 7}
<1>1. \A p \in 0..7 : p \in {0, 1, 2, 3, 4, 5, 6, 7}
  OBVIOUS
<1>2. \A p \in {0, 1, 2, 3, 4, 5, 6, 7} : (p \div 4) % 2 = 1 <=> p >= 4
  OBVIOUS
<1>3. \A p \in {0, 1, 2, 3, 4, 5, 6, 7} : (p \div 2) % 2 = 1 <=> p \in {2, 3, 6, 7}
  OBVIOUS
<1> QED
  BY <1>1, <1>2, <1>3 DEF IsPolicySet, AllowLegacy, AllowUnsigned

\* IsCompliant, in terms of the input
LEMMA Compliance ==
  ASSUME NEW input \in Input, NEW policy \in 0..7
  PROVE  /\ ~input.real => (IsCompliant(input, policy) <=> policy >= 4)
         /\ input.real /\ IsCompliant(input, policy) /\ input.signature = "none"
              => policy \in {2, 3, 6, 7}
         /\ input.real /\ input.signature # "none"
            /\ input.claims \notin {"unencrypted", "unreadable"} => IsCompliant(input, policy)
<1> DEFINE features == GetEvaluatedPolicy(input)
<1>1. features \in {0, 1, 2, 3, 4}
  BY EvaluatedPolicy DEF Encrypted, Signed, Legacy
<1>2. \A f \in {0, 1, 2, 3, 4} : /\ IsPolicySet(f, Legacy) <=> f = 4
                                 /\ IsPolicySet(f, Encrypted) <=> f \in {1, 3}
                                 /\ IsPolicySet(f, Signed) <=> f \in {2, 3}
  BY DEF IsPolicySet, Legacy, Encrypted, Signed
<1>3. /\ ~input.real => features = 4
      /\ input.real /\ input.signature = "none" => features \in {0, 1}
      /\ input.real /\ input.signature # "none"
         /\ input.claims \notin {"unencrypted", "unreadable"} => features = 3
  BY EvaluatedPolicy DEF Encrypted, Signed, Legacy
<1>4. IsCompliant(input, policy) <=>
        IF features = 4 THEN IsPolicySet(policy, AllowLegacy)
        ELSE /\ features \in {1, 3} \/ IsPolicySet(policy, AllowUnencrypted)
             /\ features \in {2, 3} \/ IsPolicySet(policy, AllowUnsigned)
  BY <1>1, <1>2 DEF IsCompliant
<1> HIDE DEF features
<1> QED
  BY <1>3, <1>4, PolicyFlags

\* What passes the checks before the TPM is opened
LEMMA ChecksPassed ==
  ASSUME NEW input \in Input, input.real,
         ParseErrors(input) = {}, PaddingErrors(input) = {}, FieldErrors(input) = {}
  PROVE  /\ input.claims \in {"complete", "corrupt"}
         /\ input.signature \in {"none", "valid"}
         /\ input.padding \in {"none"} \cup Scheme
<1>1. input.claims # "unreadable" /\ VerifyErrors(input) = {}
  BY DEF ParseErrors, IsLegacy
<1>2. input.signature \in {"none", "valid"}
  BY <1>1 DEF VerifyErrors, CertChainErrors, SignatureErrors, Input
<1>3. input.padding \in {"none"} \cup Scheme
  BY DEF PaddingErrors, Input
<1>4. input.claims \in {"complete", "corrupt"}
  BY <1>1 DEF FieldErrors, Input
<1> QED
  BY <1>2, <1>3, <1>4

\* A good token passes all of them
LEMMA IntactPasses ==
  ASSUME NEW input \in Input, input.real, input.claims = "complete", input.signature = "valid",
         input.padding \in {"none"} \cup Scheme
  PROVE  ParseErrors(input) = {} /\ PaddingErrors(input) = {} /\ FieldErrors(input) = {}
<1>1. VerifyErrors(input) = {}
  BY DEF VerifyErrors, CertChainErrors, SignatureErrors
<1>2. PaddingErrors(input) = {}
  BY DEF PaddingErrors, Scheme
<1>3. FieldErrors(input) = {}
  BY DEF FieldErrors
<1> QED
  BY <1>1, <1>2, <1>3 DEF ParseErrors, IsLegacy

-----------------------------------------------------------------------------
(* The steps *)

\* A call as it enters unprotect_secret
Entered(input, policy, absent) ==
  [pc |-> "context", input |-> input, policy |-> policy, eval_policy |-> Unset,
   output |-> "none", result |-> "none", fault |-> FALSE, absent |-> absent]

\* Legacy input that may leave unprotect_secret
LegacyReleased(c) == c.output = "input" /\ ~c.input.real /\ c.policy >= 4 /\ c.eval_policy = Legacy

\* UnprotectSecret ends in an error, returns legacy input, or admits the call;
\* a good token is admitted unless the system UUID cannot be read
LEMMA UnprotectSecretAdmits ==
  ASSUME NEW input \in Inputs, NEW policy \in 0..7, NEW absent \in BOOLEAN,
         NEW d \in UnprotectSecret(Entered(input, policy, absent))
  PROVE  /\ d \in Call /\ d.input = input /\ d.absent = absent
         /\ d.pc \in {"context", "done"}
         /\ d.pc = "context" => Admitted(d)
         /\ d.pc = "done" => \/ d.output = "none" \/ LegacyReleased(d)
         /\ \A s : Opens(d, s)
<1> DEFINE c == Entered(input, policy, absent)
           e == [c EXCEPT !.eval_policy = GetEvaluatedPolicy(input)]
<1>1. input \in Input
  BY ConstantsAssumption
<1>2. GetEvaluatedPolicy(input) \in {0, 1, 2, 3, 4}
  BY <1>1, EvaluatedPolicy DEF Encrypted, Signed, Legacy
<1>3. /\ c \in Call /\ c.pc = "context" /\ c.input = input /\ c.policy = policy
      /\ c.output = "none" /\ c.result = "none" /\ ~c.fault /\ c.absent = absent
  BY DEF Entered, Call
<1>4. /\ e \in Call /\ e.pc = "context" /\ e.input = input /\ e.policy = policy
      /\ e.output = "none" /\ e.result = "none" /\ ~e.fault /\ e.absent = absent
      /\ e.eval_policy = GetEvaluatedPolicy(input)
  BY <1>2 DEF Entered, Call
<1> DEFINE Failed(x) == /\ x \in Call /\ x.input = input /\ x.absent = absent
                        /\ x.pc = "done" /\ x.output = "none"
<1>5. \A code \in ErrorCode : Failed(Fails(c, code)) /\ Failed(Fails(e, code))
  BY <1>3, <1>4 DEF Fails, Call
<1>6. Failed([Fails(e, "UnknownError") EXCEPT !.fault = TRUE])
      /\ [Fails(e, "UnknownError") EXCEPT !.fault = TRUE].fault
  BY <1>4, StepErrors DEF Fails, Call
<1>7. Releases(e, "input") \in Call /\ Releases(e, "input").pc = "done"
      /\ Releases(e, "input").output = "input" /\ Releases(e, "input").input = input
      /\ Releases(e, "input").policy = policy /\ Releases(e, "input").absent = absent
      /\ Releases(e, "input").eval_policy = GetEvaluatedPolicy(input)
  BY <1>4 DEF Releases, Call
<1>8. [e EXCEPT !.pc = "context"] = e
  BY <1>4 DEF Call
<1>9. d \in IF ParseErrors(input) # {} THEN {Fails(c, code) : code \in ParseErrors(input)}
            ELSE IF ~IsCompliant(input, policy) THEN {Fails(e, "PolicyMismatchError")}
            ELSE IF IsLegacy(input) THEN {Releases(e, "input")}
            ELSE IF PaddingErrors(input) # {} THEN {Fails(e, code) : code \in PaddingErrors(input)}
            ELSE {[Fails(e, "UnknownError") EXCEPT !.fault = TRUE]}
                 \cup IF FieldErrors(input) # {}
                      THEN {Fails(e, code) : code \in FieldErrors(input)}
                      ELSE {[e EXCEPT !.pc = "context"]}
  BY <1>3 DEF UnprotectSecret
<1> HIDE DEF c, e, Failed
<1>10. CASE ParseErrors(input) # {}
  <2>1. Failed(d)
    BY <1>1, <1>5, <1>9, <1>10, InputErrors
  <2> QED
    BY <1>1, <1>10, <2>1, IntactPasses DEF Failed, Opens, Input, Scheme
<1>11. CASE ParseErrors(input) = {} /\ ~IsCompliant(input, policy)
  <2>1. Failed(d)
    BY <1>5, <1>9, <1>11, StepErrors
  <2> QED
    BY <1>1, <1>11, <2>1, Compliance DEF Failed, Opens
<1>12. CASE ParseErrors(input) = {} /\ IsCompliant(input, policy) /\ IsLegacy(input)
  <2>1. d = Releases(e, "input") /\ ~input.real
    BY <1>9, <1>12 DEF IsLegacy
  <2>2. policy >= 4 /\ GetEvaluatedPolicy(input) = Legacy
    BY <1>1, <1>12, <2>1, Compliance, EvaluatedPolicy
  <2> QED
    BY <1>7, <2>1, <2>2 DEF LegacyReleased, Opens
<1>13. CASE ParseErrors(input) = {} /\ IsCompliant(input, policy) /\ ~IsLegacy(input)
  <2>1. input.real
    BY <1>13 DEF IsLegacy
  <2>2. CASE PaddingErrors(input) # {}
    <3>1. Failed(d)
      BY <1>1, <1>5, <1>9, <1>13, <2>2, InputErrors
    <3> QED
      BY <1>1, <2>1, <2>2, <3>1, IntactPasses DEF Failed, Opens, Input, Scheme
  <2>3. CASE PaddingErrors(input) = {} /\ d = [Fails(e, "UnknownError") EXCEPT !.fault = TRUE]
    BY <1>6, <2>3 DEF Failed, Opens
  <2>4. CASE PaddingErrors(input) = {} /\ FieldErrors(input) # {}
             /\ d # [Fails(e, "UnknownError") EXCEPT !.fault = TRUE]
    <3>1. Failed(d)
      BY <1>1, <1>5, <1>9, <1>13, <2>4, InputErrors
    <3> QED
      BY <1>1, <2>1, <2>4, <3>1, IntactPasses DEF Failed, Opens, Input, Scheme
  <2>5. CASE PaddingErrors(input) = {} /\ FieldErrors(input) = {}
             /\ d # [Fails(e, "UnknownError") EXCEPT !.fault = TRUE]
    <3>1. d = e
      BY <1>8, <1>9, <1>13, <2>5
    <3>2. /\ input.claims \in {"complete", "corrupt"}
          /\ input.signature \in {"none", "valid"}
          /\ input.padding \in {"none"} \cup Scheme
      BY <1>1, <1>13, <2>1, <2>5, ChecksPassed
    <3>3. GetEvaluatedPolicy(input) = IF input.signature = "none" THEN Encrypted ELSE Encrypted + Signed
      BY <1>1, <2>1, <3>2, EvaluatedPolicy DEF Encrypted, Signed
    <3>4. input.signature = "none" => policy \in {2, 3, 6, 7}
      BY <1>1, <1>13, <2>1, Compliance
    <3>5. Admitted(d)
      BY <1>4, <2>1, <3>1, <3>2, <3>3, <3>4 DEF Admitted
    <3> QED
      BY <1>4, <3>1, <3>5 DEF Opens
  <2> QED
    BY <2>2, <2>3, <2>4, <2>5
<1> QED
  BY <1>10, <1>11, <1>12, <1>13

\* Steps that only move the call
LEMMA CallMoves ==
  ASSUME Inv, NEW d, call' = d, UNCHANGED <<seed, key, manage>>,
         d = NoCall \/ (Sound(d, seed, key) /\ Opens(d, seed))
  PROVE  Inv'
<1>1. TypeOK'
  BY DEF Inv, TypeOK, Sound
<1>2. OneKey' /\ OnlyPersistHolds'
  BY DEF Inv, OneKey, OnlyPersistHolds
<1>3. call' = NoCall \/ (Sound(call', seed', key') /\ Opens(call', seed'))
  BY DEF Sound, Opens
<1> QED
  BY <1>1, <1>2, <1>3 DEF Inv

\* Steps of a manager: they never change the seed, and the guest key is only
\* taken away under the eyes of the call
LEMMA ManagerMoves ==
  ASSUME Inv, NEW m \in Managers, NEW x \in Manage, x.transient \in {NoKey, seed},
         x.pc # "persist" => x.transient = NoKey,
         manage' = [manage EXCEPT ![m] = x], seed' = seed,
         key' \in {NoKey, seed}, call' = call \/ call' = Absent,
         key # NoKey /\ key' = NoKey => call' = Absent
  PROVE  Inv'
<1>1. /\ seed \in Seed /\ manage \in [Managers -> Manage]
      /\ \A q \in Managers : manage[q].transient \in {NoKey, seed}
      /\ OnlyPersistHolds
      /\ call = NoCall \/ (Sound(call, seed, key) /\ Opens(call, seed))
  BY DEF Inv, TypeOK, OneKey
<1>2. manage' \in [Managers -> Manage] /\ OneKey' /\ OnlyPersistHolds'
  BY <1>1 DEF OneKey, OnlyPersistHolds
<1>3. call' = NoCall \/ (Sound(call', seed, key') /\ Opens(call', seed))
  <2>1. CASE call = NoCall
    BY <2>1 DEF Absent, Running, NoCall
  <2>2. CASE Sound(call, seed, key) /\ Opens(call, seed) /\ Running /\ call' = Absent
    <3> DEFINE d == [call EXCEPT !.absent = TRUE]
    <3>1. /\ d \in Call /\ d.absent /\ d.pc = call.pc /\ d.input = call.input
          /\ d.policy = call.policy /\ d.eval_policy = call.eval_policy
          /\ d.output = call.output /\ d.result = call.result /\ d.fault = call.fault
      BY <2>2 DEF Sound, Call
    <3>2. call' = d /\ d.pc # "done"
      BY <2>2, <3>1 DEF Absent, Running
    <3> HIDE DEF d
    <3> QED
      BY <2>2, <3>1, <3>2 DEF Sound, Opens, Admitted, Running
  <2>3. CASE Sound(call, seed, key) /\ Opens(call, seed) /\ ~Running
    <3>1. call' = call /\ call.pc = "done"
      BY <2>3 DEF Absent, Running, Sound, Call
    <3> QED
      BY <2>3, <3>1 DEF Sound, Opens
  <2>4. CASE Sound(call, seed, key) /\ Opens(call, seed) /\ Running /\ call' = call
    <3>1. call' # Absent \/ call.absent
      BY <2>4 DEF Absent, Sound, Call
    <3> QED
      BY <2>4, <3>1 DEF Sound, Opens
  <2> QED
    BY <1>1, <2>1, <2>2, <2>3, <2>4
<1>4. TypeOK'
  BY <1>1, <1>2, <1>3 DEF TypeOK, Sound
<1> QED
  BY <1>2, <1>3, <1>4 DEF Inv

\* TPM2_Clear: no call is for the new hierarchy, and a running one is told
LEMMA ClearInv == ASSUME Inv, Clear PROVE Inv'
<1>1. /\ seed \in Seed /\ seed < MaxSeeds /\ seed' = seed + 1 /\ key' = NoKey
      /\ seed' \in Seed /\ call' = Absent /\ MaxSeeds \in Nat
      /\ manage \in [Managers -> Manage]
      /\ manage' = [m \in Managers |-> IF manage[m].pc = "persist" THEN Idle ELSE manage[m]]
  BY ConstantsAssumption DEF Inv, TypeOK, Clear, Seed
<1>2. Idle \in Manage /\ Idle.transient = NoKey
  BY DEF Idle, Manage, NoKey
<1>3. manage' \in [Managers -> Manage]
  BY <1>1, <1>2
<1>4. \A m \in Managers : manage'[m].transient = NoKey
  BY <1>1, <1>2 DEF Inv, OnlyPersistHolds
<1>5. call' = NoCall \/ (Sound(call', seed', key') /\ Opens(call', seed'))
  <2>1. CASE call = NoCall
    BY <1>1, <2>1 DEF Absent, Running, NoCall
  <2>2. CASE Sound(call, seed, key) /\ Running
    <3> DEFINE d == [call EXCEPT !.absent = TRUE]
    <3>1. /\ d \in Call /\ d.absent /\ d.pc = call.pc /\ d.input = call.input
          /\ d.policy = call.policy /\ d.eval_policy = call.eval_policy
          /\ d.output = call.output /\ d.result = call.result /\ d.fault = call.fault
      BY <2>2 DEF Sound, Call
    <3>2. call' = d /\ d.pc # "done"
      BY <1>1, <2>2, <3>1 DEF Absent, Running
    <3>3. call.input.key \in Nat /\ seed \in Nat /\ call.input.key <= seed
      BY <1>1, <2>2, ConstantsAssumption DEF Sound, Call, Input, Seed
    <3> HIDE DEF d
    <3> QED
      BY <1>1, <2>2, <3>1, <3>2, <3>3 DEF Sound, Opens, Admitted, Running
  <2>3. CASE Sound(call, seed, key) /\ ~Running
    <3>1. call' = call /\ call.pc = "done"
      BY <1>1, <2>3 DEF Absent, Running, Sound, Call
    <3>2. call.input.key \in Nat /\ seed \in Nat /\ call.input.key <= seed
      BY <1>1, <2>3, ConstantsAssumption DEF Sound, Call, Input, Seed
    <3> QED
      BY <1>1, <2>3, <3>1, <3>2 DEF Sound, Opens
  <2> QED
    BY <2>1, <2>2, <2>3 DEF Inv
<1>6. TypeOK'
  BY <1>1, <1>3, <1>5 DEF TypeOK, Sound
<1> QED
  BY <1>1, <1>3, <1>4, <1>5, <1>6 DEF Inv, OneKey, OnlyPersistHolds

\* The steps of a call that runs
LEMMA RunningInv ==
  ASSUME Inv, OpenContext \/ FindKey \/ RsaDecrypt \/ CallFault
  PROVE  Inv'
<1>1. /\ Sound(call, seed, key) /\ Running /\ call \in Call /\ Admitted(call)
      /\ ~call.absent => key = seed
      /\ call.input \in Input /\ UNCHANGED <<seed, key, manage>>
  BY ConstantsAssumption DEF Inv, OneKey, Sound, OpenContext, FindKey, RsaDecrypt, CallFault, Running,
                             NoCall, Call
<1>2. ASSUME NEW to \in {"find", "decrypt"}, call' = [call EXCEPT !.pc = to] PROVE Inv'
  <2> DEFINE d == [call EXCEPT !.pc = to]
  <2>1. /\ d \in Call /\ d.absent = call.absent /\ d.pc = to /\ d.input = call.input
        /\ d.policy = call.policy /\ d.eval_policy = call.eval_policy
        /\ d.output = call.output /\ d.result = call.result /\ d.fault = call.fault
    BY <1>1 DEF Call
  <2>2. call' = d
    BY <1>2
  <2> HIDE DEF d
  <2>3. Sound(d, seed, key) /\ Opens(d, seed)
    BY <1>1, <2>1 DEF Sound, Opens, Admitted, Running
  <2> QED
    BY <1>1, <2>2, <2>3, CallMoves
<1>3. ASSUME NEW code \in ErrorCode, call' = Fails(call, code),
             \/ call.absent \/ call.input.key # seed
             \/ GetPaddingScheme(call.input) # call.input.wrapped
             \/ call.input.claims # "complete" \/ ~call.input.forVm
      PROVE  Inv'
  <2> DEFINE d == Fails(call, code)
  <2>1. /\ d \in Call /\ d.pc = "done" /\ d.input = call.input /\ d.absent = call.absent
    BY <1>1 DEF Fails, Call
  <2>2. call' = d
    BY <1>3
  <2> HIDE DEF d
  <2>3. Sound(d, seed, key) /\ Opens(d, seed)
    BY <1>1, <1>3, <2>1 DEF Sound, Opens, GetPaddingScheme, Input, Scheme
  <2> QED
    BY <1>1, <2>2, <2>3, CallMoves
<1>4. CASE OpenContext
  BY <1>2, <1>4 DEF OpenContext
<1>5. CASE FindKey
  <2>1. CASE key # NoKey
    BY <1>2, <1>5, <2>1 DEF FindKey
  <2>2. CASE key = NoKey
    <3>1. call.absent
      BY <1>1, <2>2 DEF Sound, Running
    <3> QED
      BY <1>3, <1>5, <2>2, <3>1, StepErrors DEF FindKey
  <2> QED
    BY <2>1, <2>2
<1>6. CASE RsaDecrypt
  <2>1. CASE ~RsaDecryptWorks(call.input, key)
    BY <1>1, <1>3, <1>6, <2>1, StepErrors DEF RsaDecrypt, RsaDecryptWorks
  <2>2. CASE RsaDecryptWorks(call.input, key) /\ UnwrapErrors(call.input) # {}
    <3>1. call.input.claims # "complete" \/ ~call.input.forVm
      BY <2>2 DEF UnwrapErrors
    <3>2. PICK code \in UnwrapErrors(call.input) : call' = Fails(call, code)
      BY <1>6, <2>2 DEF RsaDecrypt
    <3>3. code \in ErrorCode
      BY <1>1, InputErrors
    <3> QED
      BY <1>3, <3>1, <3>2, <3>3
  <2>3. CASE RsaDecryptWorks(call.input, key) /\ UnwrapErrors(call.input) = {}
    <3> DEFINE d == Releases(call, "secret")
    <3>1. /\ d \in Call /\ d.pc = "done" /\ d.input = call.input
          /\ d.result = "Success" /\ d.output = "secret"
      BY <1>1 DEF Releases, Call
    <3>2. call' = d
      BY <1>6, <2>3 DEF RsaDecrypt
    <3> HIDE DEF d
    <3>3. Sound(d, seed, key) /\ Opens(d, seed)
      BY <1>1, <3>1 DEF Sound, Opens
    <3> QED
      BY <1>1, <3>2, <3>3, CallMoves
  <2> QED
    BY <2>1, <2>2, <2>3
<1>7. CASE CallFault
  <2>1. PICK code \in TpmError(call.pc) : call' = [Fails(call, code) EXCEPT !.fault = TRUE]
    BY <1>7 DEF CallFault
  <2>2. code \in ErrorCode
    BY <1>1, StepErrors DEF Running
  <2> DEFINE d == [Fails(call, code) EXCEPT !.fault = TRUE]
  <2>3. d \in Call /\ d.pc = "done" /\ d.input = call.input /\ d.fault
    BY <1>1, <2>2 DEF Fails, Call
  <2> HIDE DEF d
  <2>4. Sound(d, seed, key) /\ Opens(d, seed)
    BY <1>1, <2>3 DEF Sound, Opens
  <2> QED
    BY <1>1, <2>1, <2>4, CallMoves DEF d
<1> QED
  BY <1>4, <1>5, <1>6, <1>7

\* The operations on the guest key
LEMMA ManagerInv ==
  ASSUME Inv, NEW m \in Managers,
         \/ StartManage(m) \/ GenerateGuestKey(m) \/ RemoveKey(m)
         \/ IsSecretsProvisioningEnabled(m) \/ ManagerFault(m)
  PROVE  Inv'
<1>1. /\ key \in {NoKey, seed} /\ seed \in Seed /\ manage[m].transient \in {NoKey, seed}
  BY DEF Inv, OneKey, TypeOK
<1>2. /\ Idle \in Manage /\ Idle.transient = NoKey /\ Idle.pc = "idle"
      /\ \A pc \in {"create", "find", "query", "evict"} :
           LET x == [Idle EXCEPT !.pc = pc]
           IN  x \in Manage /\ x.transient = NoKey /\ x.pc = pc
      /\ \A answer \in {"-1", "0", "1"} :
           LET x == [Idle EXCEPT !.answer = answer]
           IN  x \in Manage /\ x.transient = NoKey
  BY DEF Idle, Manage, NoKey
<1>3. LET x == [Idle EXCEPT !.pc = "persist", !.transient = CreatePrimary(seed)]
      IN  x \in Manage /\ x.transient = seed /\ x.pc = "persist"
  BY <1>1 DEF Idle, Manage, NoKey, CreatePrimary
<1>4. CASE StartManage(m)
  <2>1. PICK pc \in {"create", "find", "query"} : Step(m, "idle", [Idle EXCEPT !.pc = pc])
    BY <1>4 DEF StartManage
  <2> QED
    BY <1>1, <1>2, <1>4, <2>1, ManagerMoves DEF StartManage, Step
<1>5. CASE GenerateGuestKey(m)
  <2>1. CASE /\ Step(m, "create", [Idle EXCEPT !.pc = "persist", !.transient = CreatePrimary(seed)])
             /\ UNCHANGED <<seed, key, call>>
    BY <1>1, <1>3, <2>1, ManagerMoves DEF Step
  <2>2. CASE /\ Step(m, "persist", Idle)
             /\ key' = IF key = NoKey THEN manage[m].transient ELSE key
             /\ UNCHANGED <<seed, call>>
    BY <1>1, <1>2, <2>2, ManagerMoves DEF Step
  <2> QED
    BY <1>5, <2>1, <2>2 DEF GenerateGuestKey
<1>6. CASE RemoveKey(m)
  <2>1. CASE /\ Step(m, "find", IF key = NoKey THEN Idle ELSE [Idle EXCEPT !.pc = "evict"])
             /\ UNCHANGED <<seed, key, call>>
    <3>1. PICK x \in {Idle, [Idle EXCEPT !.pc = "evict"]} : manage' = [manage EXCEPT ![m] = x]
      BY <2>1 DEF Step
    <3> QED
      BY <1>1, <1>2, <2>1, <3>1, ManagerMoves
  <2>2. CASE Step(m, "evict", Idle) /\ key' = NoKey /\ call' = Absent /\ UNCHANGED seed
    BY <1>1, <1>2, <2>2, ManagerMoves DEF Step
  <2> QED
    BY <1>6, <2>1, <2>2 DEF RemoveKey
<1>7. CASE IsSecretsProvisioningEnabled(m)
  <2>1. PICK answer \in {"-1", "0", "1"} : Answer(m, answer)
    BY <1>7 DEF IsSecretsProvisioningEnabled
  <2>2. (key # NoKey) \in BOOLEAN
    OBVIOUS
  <2> QED
    BY <1>1, <1>2, <1>7, <2>1, <2>2, ManagerMoves DEF Answer, Step, IsSecretsProvisioningEnabled
<1>8. CASE ManagerFault(m)
  BY <1>1, <1>2, <1>8, ManagerMoves DEF ManagerFault
<1> QED
  BY <1>4, <1>5, <1>6, <1>7, <1>8

\* Start: the checks before the TPM, in one step
LEMMA StartMoves ==
  ASSUME Inv, Start
  PROVE  /\ Inv'
         /\ call' \in Call
         /\ call'.pc = "done" /\ call'.output # "none" => LegacyReleased(call')
<1>1. PICK input \in Inputs, policy \in 0..7 :
        /\ input.key <= seed
        /\ call' \in UnprotectSecret(
             [pc |-> "context", input |-> input, policy |-> policy, eval_policy |-> Unset,
              output |-> "none", result |-> "none", fault |-> FALSE, absent |-> key = NoKey])
  BY DEF Start
<1>2. (key = NoKey) \in BOOLEAN
  OBVIOUS
<1>3. call' \in UnprotectSecret(Entered(input, policy, key = NoKey))
  BY <1>1 DEF Entered
<1>4. PICK d : d = call'
  OBVIOUS
<1>5. /\ d \in Call /\ d.input = input /\ d.absent = (key = NoKey)
      /\ d.pc \in {"context", "done"}
      /\ d.pc = "context" => Admitted(d)
      /\ d.pc = "done" => \/ d.output = "none" \/ LegacyReleased(d)
      /\ \A s : Opens(d, s)
  BY <1>2, <1>3, <1>4, UnprotectSecretAdmits
<1>6. Sound(d, seed, key)
  BY <1>1, <1>5 DEF Sound
<1>7. Inv'
  BY <1>4, <1>5, <1>6, CallMoves DEF Start
<1> QED
  BY <1>4, <1>5, <1>7

-----------------------------------------------------------------------------
(* The theorems *)

\* The invariant is inductive
THEOREM Invariant == Spec => []Inv
<1>1. Init => Inv
  <2> SUFFICES ASSUME Init PROVE Inv
    OBVIOUS
  <2>1. Idle \in Manage /\ Idle.transient = NoKey /\ Idle.pc = "idle"
    BY DEF Idle, Manage, NoKey
  <2>2. seed = 1 /\ seed \in Seed /\ key \in {NoKey, seed} /\ call = NoCall
    BY ConstantsAssumption DEF Init, Seed
  <2>3. manage \in [Managers -> Manage] /\ \A m \in Managers : manage[m] = Idle
    BY <2>1 DEF Init
  <2> QED
    BY <2>1, <2>2, <2>3 DEF Inv, TypeOK, OneKey, OnlyPersistHolds
<1>2. Inv /\ [Next]_vars => Inv'
  <2> SUFFICES ASSUME Inv, [Next]_vars PROVE Inv'
    OBVIOUS
  <2>1. CASE Start
    BY <2>1, StartMoves
  <2>2. CASE OpenContext \/ FindKey \/ RsaDecrypt \/ CallFault
    BY <2>2, RunningInv
  <2>3. CASE Return
    BY <2>3, CallMoves DEF Return
  <2>4. CASE Clear
    BY <2>4, ClearInv
  <2>5. CASE \E m \in Managers : \/ StartManage(m) \/ GenerateGuestKey(m) \/ RemoveKey(m)
                                \/ IsSecretsProvisioningEnabled(m) \/ ManagerFault(m)
    BY <2>5, ManagerInv
  <2>6. CASE UNCHANGED vars
    BY <2>6 DEF vars, Inv, TypeOK, OneKey, OnlyPersistHolds, Sound, Opens
  <2> QED
    BY <2>1, <2>2, <2>3, <2>4, <2>5, <2>6 DEF Next
<1> QED
  BY <1>1, <1>2, PTL DEF Spec

\* The variables of unprotect_secret and of the key operations keep their types
THEOREM TypeCorrect == Spec => []TypeOK
<1>1. Inv => TypeOK
  BY DEF Inv
<1> QED
  BY <1>1, Invariant, PTL

\* The guest key always belongs to the present owner hierarchy, so a secret that
\* is intact opens, whatever managers removed and made again in between
THEOREM IntactOpens == Spec => []IntactSecretOpens
<1>1. Inv => IntactSecretOpens
  BY DEF Inv, IntactSecretOpens, Opens, Intact, NoCall
<1> QED
  BY <1>1, Invariant, PTL

\* Nothing leaves unprotect_secret against the policy: not for any input, any
\* interleaving with the key operations, or a cleared TPM
THEOREM PolicyHolds == Spec => ReleaseWithinPolicy
<1>1. Inv /\ [Next]_vars =>
        [call'.pc = "done" /\ call' # call /\ call'.output # "none" =>
           LET c == call' IN
           \/ /\ c.output = "input" /\ ~c.input.real
              /\ c.policy >= 4 /\ c.eval_policy = Legacy
           \/ /\ c.output = "secret" /\ c.input.real
              /\ c.input.claims = "complete" /\ c.input.forVm
              /\ c.input.key = seed
              /\ IF c.input.signature = "valid" THEN c.eval_policy = Encrypted + Signed
                 ELSE /\ c.input.signature = "none" /\ c.eval_policy = Encrypted
                      /\ c.policy \in {2, 3, 6, 7}]_vars
  <2> DEFINE Released(c) ==
               \/ /\ c.output = "input" /\ ~c.input.real
                  /\ c.policy >= 4 /\ c.eval_policy = Legacy
               \/ /\ c.output = "secret" /\ c.input.real
                  /\ c.input.claims = "complete" /\ c.input.forVm
                  /\ c.input.key = seed
                  /\ IF c.input.signature = "valid" THEN c.eval_policy = Encrypted + Signed
                     ELSE /\ c.input.signature = "none" /\ c.eval_policy = Encrypted
                          /\ c.policy \in {2, 3, 6, 7}
  <2> SUFFICES ASSUME Inv, [Next]_vars, call'.pc = "done", call' # call, call'.output # "none"
               PROVE  Released(call')
    OBVIOUS
  <2>1. CASE Start
    BY <2>1, StartMoves DEF LegacyReleased
  <2>2. CASE OpenContext \/ FindKey \/ RsaDecrypt \/ CallFault
    <3>1. /\ call \in Call /\ Admitted(call) /\ call.output = "none" /\ call.input \in Input
          /\ key \in {NoKey, seed}
      BY <2>2, ConstantsAssumption DEF Inv, OneKey, Sound, OpenContext, FindKey, RsaDecrypt,
                                       CallFault, Running, NoCall, Call, Admitted
    <3>2. \A code : Fails(call, code).output = "none"
                    /\ [Fails(call, code) EXCEPT !.fault = TRUE].output = "none"
      BY <3>1 DEF Fails, Call
    <3>3. \A to : [call EXCEPT !.pc = to].output = "none"
      BY <3>1 DEF Call
    <3>4. /\ RsaDecryptWorks(call.input, key) /\ UnwrapErrors(call.input) = {}
          /\ call' = Releases(call, "secret")
      BY <2>2, <3>2, <3>3 DEF OpenContext, FindKey, CallFault, RsaDecrypt
    <3>5. call.input.claims = "complete" /\ call.input.forVm
      BY <3>1, <3>4 DEF UnwrapErrors, Admitted
    <3>6. call.input.key = seed
      BY <3>1, <3>4 DEF RsaDecryptWorks, Input, Seed, NoKey
    <3>7. /\ call'.output = "secret" /\ call'.input = call.input /\ call'.policy = call.policy
          /\ call'.eval_policy = call.eval_policy
      BY <3>1, <3>4 DEF Releases, Call
    <3> QED
      BY <3>1, <3>5, <3>6, <3>7 DEF Admitted
  <2>3. ~Return
    BY DEF Return, NoCall
  <2>4. call' = Absent => FALSE
    <3>1. CASE call = NoCall
      BY <3>1 DEF Absent, Running, NoCall
    <3>2. CASE call \in Call
      BY <3>2 DEF Absent, Running, Call
    <3> QED
      BY <3>1, <3>2 DEF Inv, TypeOK
  <2>5. ~Clear
    BY <2>4 DEF Clear
  <2>6. ASSUME NEW m \in Managers, \/ StartManage(m) \/ GenerateGuestKey(m) \/ RemoveKey(m)
                                   \/ IsSecretsProvisioningEnabled(m) \/ ManagerFault(m)
        PROVE  FALSE
    BY <2>4, <2>6 DEF StartManage, GenerateGuestKey, RemoveKey, IsSecretsProvisioningEnabled,
                      ManagerFault
  <2> QED
    BY <2>1, <2>2, <2>3, <2>5, <2>6 DEF Next, vars
<1> QED
  BY <1>1, Invariant, PTL DEF Spec, ReleaseWithinPolicy
=============================================================================
