---------------------------- MODULE AttestProofs ----------------------------
(***************************************************************************)
(* Proofs about Attest, for every set of processes, every PCR list, every  *)
(* number of retries and every bound on extends and boots.                 *)
(***************************************************************************)
EXTENDS Attest, TLAPS

(***************************************************************************)
(* The inductive invariant.  Bound carries the argument for ReleaseBound:  *)
(* the key of a request is made from the PCR values of the same request,   *)
(* the token is encrypted to that key, and a policy session vouches for    *)
(* the PCR values the decryption read.                                     *)
(***************************************************************************)
AttestPc == {"ak_cert", "parameters", "quote", "pcr_values", "key", "send"}

Running(c) == /\ c.pc \in AttestPc => c.op = "Attest"
              /\ c.pc \in DecryptPc => c.op \in {"Attest", "Decrypt"}
              /\ c.pc # "idle" => c.output = NoOutput

KeyOfParams(c) == c.params.key.policy = c.params.pcrs

Bound(c, tokens) ==
  /\ c.pc = "send" => KeyOfParams(c)
  /\ c.op = "Attest" /\ c.pc \in DecryptPc =>
       KeyOfParams(c) /\ c.token = c.params.key /\ c.params.quote = c.params.pcrs
  /\ c.op = "Decrypt" /\ c.pc \in DecryptPc => \E jwt \in tokens : c.token = jwt.key
  /\ c.pc = "rsa_decrypt" => c.read = Attested(c.session)

BoundInv ==
  /\ TypeOK
  /\ \A jwt \in jwts : jwt.key.policy = jwt.pcrs
  /\ \A p \in Procs : Running(call[p]) /\ Bound(call[p], jwts)

-----------------------------------------------------------------------------
(* Types of the values and of the operators on calls *)

USE ConstantsAssumption

\* The empty reading is a reading.
LEMMA NoPcrsType == NoPcrs \in Reading
<1>1. NoPcrs \in [{} -> Digest]
  BY DEF NoPcrs
<1>2. {} \in SUBSET AttestationPcrList
  OBVIOUS
<1> QED
  BY <1>1, <1>2 DEF Reading

\* The attested part of a PCR bank is a reading.
LEMMA AttestedType ==
  ASSUME NEW bank \in [Pcr -> Digest]
  PROVE  Attested(bank) \in Reading
<1>1. Attested(bank) \in [AttestationPcrList -> Digest]
  BY DEF Attested
<1> QED
  BY <1>1 DEF Reading

\* What one PCR_Read adds to a reading (PopulateCurrentPcrs) gives a reading.
LEMMA PopulateType ==
  ASSUME NEW values \in Reading, NEW bank \in [Pcr -> Digest]
  PROVE  PopulateCurrentPcrs(values, bank) \in Reading
<1> DEFINE got == PcrRead(AttestationPcrList \ DOMAIN values)
<1>1. PICK S \in SUBSET AttestationPcrList : values \in [S -> Digest]
  BY DEF Reading
<1>2. got \subseteq AttestationPcrList
  BY DEF PcrRead
<1>3. PopulateCurrentPcrs(values, bank) \in [S \cup got -> Digest]
  BY <1>1, <1>2 DEF PopulateCurrentPcrs
<1>4. S \cup got \in SUBSET AttestationPcrList
  BY <1>1, <1>2
<1> QED
  BY <1>3, <1>4 DEF Reading

\* A key made from a boot seed and a reading is a key.
LEMMA KeyType ==
  ASSUME NEW seed \in 0..MaxBoots, NEW values \in Reading
  PROVE  CreateEphemeralKey(seed, values) \in Key
BY DEF CreateEphemeralKey, Key

\* The defaults of a call's locals are well typed.
LEMMA DefaultTypes == /\ NoKey \in Key
                      /\ NoParams \in Params
                      /\ NoOutput \in Output
<1>1. NoKey \in Key
  BY NoPcrsType DEF NoKey, Key
<1>2. NoParams \in Params
  BY <1>1, NoPcrsType DEF NoParams, Params, IsolationType
<1>3. NoOutput \in Output
  BY <1>1 DEF NoOutput, Output
<1> QED
  BY <1>1, <1>2, <1>3

CallOK(c) == c \in Call /\ c.retries \in 0..MaxAttestationRetries

\* The state of a process between two calls is well typed.
LEMMA IdleType == CallOK(Idle)
BY NoPcrsType, DefaultTypes DEF Idle, CallOK, Call, Pc

\* An error or an extend of an attested PCR only touches the history of a call.
LEMMA DisturbedType ==
  ASSUME NEW c, CallOK(c)
  PROVE  CallOK(Disturbed(c))
BY DEF Disturbed, CallOK, Call

\* A call that returned is well typed.
LEMMA ReturnedType ==
  ASSUME NEW c, CallOK(c), NEW code \in ErrorCode \cup {"none", "SUCCESS"},
         NEW output \in Output
  PROVE  CallOK(Returned(c, code, output))
<1>1. NoParams \in Params /\ c.params \in Params
  BY DefaultTypes DEF CallOK, Call
<1>2. [NoParams EXCEPT !.isolation = c.params.isolation] \in Params
  BY <1>1 DEF Params
<1> QED
  BY <1>2, IdleType, ZenonT(40) DEF Returned, CallOK, Call, Idle

\* What GetParameters may come to: failures, and two ways to go on.
LEMMA ParametersOutcome ==
  ASSUME NEW p \in Procs, GetParameters(p)
  PROVE  \/ \E code \in BadInput : Goto(p, Failed(call[p], code))
         \/ \E code \in ErrorCode : Goto(p, Failed(Disturbed(call[p]), code))
         \/ Goto(p, [call[p] EXCEPT !.pc = "quote", !.params.isolation = Platform])
         \/ Goto(p, [Disturbed(call[p]) EXCEPT !.pc = "quote",
                                                !.params.isolation = "TRUSTED_LAUNCH"])
<1> DEFINE c == call[p]
           Fails(next) == \/ \E code \in BadInput : next = Failed(c, code)
                          \/ \E code \in ErrorCode : next = Failed(Disturbed(c), code)
           good == [c EXCEPT !.pc = "quote", !.params.isolation = Platform]
           down == [Disturbed(c) EXCEPT !.pc = "quote", !.params.isolation = "TRUSTED_LAUNCH"]
<1>1. /\ \A next \in ParseURLFails(c) : Fails(next)
      /\ \A next \in ParseClientPayloadFails(c) : Fails(next)
      /\ \A next \in GetOSInfoFails(c) : Fails(next)
      /\ \A next \in ExtractSnpReportFails(c) : Fails(next)
      /\ \A next \in GetVCekCertFails(c) : Fails(next)
  BY DEF ParseURLFails, ParseClientPayloadFails, GetOSInfoFails, ExtractSnpReportFails,
         GetVCekCertFails, BadInput, ErrorCode
<1> HIDE DEF Fails, good, down
<1>2. \A next \in GetIsolationInfo(c) : Fails(next) \/ next = good \/ next = down
  BY <1>1 DEF GetIsolationInfo, good, down
<1>3. PICK next : /\ Goto(p, next)
                  /\ Fails(next) \/ next = good \/ next = down
  BY <1>1, <1>2 DEF GetParameters
<1> QED
  BY <1>3 DEF Fails, good, down

\* What SendAttestationRequest may come to.
LEMMA RequestOutcome ==
  ASSUME NEW p \in Procs, SendAttestationRequest(p)
  PROVE  \/ /\ ServiceAccepts(call[p].params)
            /\ Goto(p, [call[p] EXCEPT !.pc = "decrypt_pcrs",
                                       !.token = call[p].params.key, !.calm = TRUE])
         \/ /\ ~ServiceAccepts(call[p].params)
            /\ Goto(p, Failed(call[p], "ERROR_ATTESTATION_FAILED"))
         \/ \E code \in ErrorCode : \/ Goto(p, Failed(Disturbed(call[p]), code))
                                   \/ Goto(p, DecryptFailed(Disturbed(call[p]), code))
<1> DEFINE c == call[p]
           Fails(next) == \E code \in ErrorCode : \/ next = Failed(Disturbed(c), code)
                                                 \/ next = DecryptFailed(Disturbed(c), code)
<1>1. /\ \A next \in SendHttpRequestFails(c) : Fails(next)
      /\ \A next \in ParseMaaResponseFails(c) : Fails(next)
      /\ \A next \in ParseTokenFails(c) : Fails(next)
  BY DEF SendHttpRequestFails, ParseMaaResponseFails, ParseTokenFails, ErrorCode
<1>2. CASE \E next : Fails(next) /\ Goto(p, next)
  BY <1>2
<1> HIDE DEF Fails
<1> QED
  BY <1>1, <1>2 DEF SendAttestationRequest

\* A call whose decryption failed retries within its budget or returns.
LEMMA DecryptFailedType ==
  ASSUME NEW c, CallOK(c), NEW code \in ErrorCode
  PROVE  CallOK(DecryptFailed(c, code))
<1>1. CASE c.op = "Attest" /\ c.retries < MaxAttestationRetries
  <2> DEFINE again == [c EXCEPT !.pc = "send", !.retries = @ + 1, !.token = NoKey,
                                !.read = NoPcrs, !.session = NoPcrs]
  <2>1. c.retries + 1 \in Nat /\ c.retries + 1 \in 0..MaxAttestationRetries
    BY <1>1 DEF CallOK
  <2>2. "send" \in Pc /\ NoPcrs \in [Pcr -> Digest] \cup {NoPcrs}
    BY DEF Pc
  <2>3. again \in Call
    BY <2>1, <2>2, NoPcrsType, DefaultTypes DEF CallOK, Call
  <2>4. again.retries = c.retries + 1
    BY DEF CallOK, Call
  <2> QED
    BY <1>1, <2>1, <2>3, <2>4 DEF DecryptFailed, CallOK
<1>2. CASE ~(c.op = "Attest" /\ c.retries < MaxAttestationRetries)
  BY <1>2, DefaultTypes, ReturnedType DEF DecryptFailed, Failed
<1> QED
  BY <1>1, <1>2

-----------------------------------------------------------------------------
(* BoundInv is an invariant *)

Good(c, tokens) == CallOK(c) /\ Running(c) /\ Bound(c, tokens)

\* A call that returned satisfies the invariant of a call.
LEMMA ReturnedGood ==
  ASSUME NEW c, CallOK(c), NEW code \in ErrorCode \cup {"none", "SUCCESS"},
         NEW output \in Output
  PROVE  \A tokens : Good(Returned(c, code, output), tokens)
<1>1. Returned(c, code, output).pc = "idle"
  BY DEF Returned, Idle
<1>2. CallOK(Returned(c, code, output))
  BY ReturnedType
<1> QED
  BY <1>1, <1>2 DEF Good, Running, Bound, AttestPc, DecryptPc

\* So does a call that failed.
LEMMA FailedGood ==
  ASSUME NEW c, CallOK(c), NEW code \in ErrorCode
  PROVE  \A tokens : Good(Failed(c, code), tokens)
BY ReturnedGood, DefaultTypes DEF Failed

\* Errors do not disturb the invariant of a call.
LEMMA DisturbedGood ==
  ASSUME NEW c, NEW tokens, Good(c, tokens)
  PROVE  Good(Disturbed(c), tokens)
<1>1. CallOK(Disturbed(c))
  BY DisturbedType DEF Good
<1>2. /\ Disturbed(c).pc = c.pc /\ Disturbed(c).op = c.op
      /\ Disturbed(c).output = c.output /\ Disturbed(c).params = c.params
      /\ Disturbed(c).token = c.token /\ Disturbed(c).read = c.read
      /\ Disturbed(c).session = c.session
  BY DEF Disturbed, Good, CallOK, Call
<1> QED
  BY <1>1, <1>2 DEF Good, Running, Bound, KeyOfParams

\* A retry goes back to "send" with the parameters it has.
LEMMA DecryptFailedGood ==
  ASSUME NEW c, NEW tokens, Good(c, tokens), c.pc \in DecryptPc \cup {"send"}, NEW code \in ErrorCode
  PROVE  Good(DecryptFailed(c, code), tokens)
<1>1. CASE c.op = "Attest" /\ c.retries < MaxAttestationRetries
  <2>1. CallOK(DecryptFailed(c, code))
    BY DecryptFailedType DEF Good
  <2>2. /\ DecryptFailed(c, code).pc = "send" /\ DecryptFailed(c, code).op = c.op
        /\ DecryptFailed(c, code).output = c.output
        /\ DecryptFailed(c, code).params = c.params
    BY <1>1 DEF DecryptFailed, Good, CallOK, Call
  <2>3. KeyOfParams(c) /\ c.output = NoOutput
    BY <1>1 DEF Good, Bound, Running, DecryptPc
  <2> QED
    BY <1>1, <2>1, <2>2, <2>3
    DEF Good, Running, Bound, KeyOfParams, AttestPc, DecryptPc
<1>2. CASE ~(c.op = "Attest" /\ c.retries < MaxAttestationRetries)
  BY <1>2, FailedGood DEF DecryptFailed, Good
<1> QED
  BY <1>1, <1>2

\* Moving one process to a good state, the machine untouched, keeps BoundInv.
LEMMA GotoBound ==
  ASSUME BoundInv, NEW p \in Procs, NEW c, Good(c, jwts), Goto(p, c)
  PROVE  BoundInv'
<1>1. boot' = boot /\ pcr' = pcr /\ jwts' = jwts /\ call' = [call EXCEPT ![p] = c]
  BY DEF Goto
<1>2. TypeOK'
  BY <1>1 DEF BoundInv, TypeOK, Good, CallOK
<1>3. \A q \in Procs : Running(call'[q]) /\ Bound(call'[q], jwts')
  BY <1>1 DEF BoundInv, TypeOK, Good
<1> QED
  BY <1>1, <1>2, <1>3 DEF BoundInv

\* Every running call of a state of the invariant is good.
LEMMA CallIsGood ==
  ASSUME BoundInv, NEW p \in Procs
  PROVE  Good(call[p], jwts)
BY DEF BoundInv, TypeOK, Good, CallOK

\* The steps of a call before it has a token keep the invariant.
LEMMA GatherBound ==
  ASSUME BoundInv, NEW p \in Procs,
         \/ StartAttest(p) \/ StartDecrypt(p) \/ CheckAkCert(p) \/ GetParameters(p)
         \/ GetPCRQuote(p) \/ GetEphemeralKey(p) \/ GetTpmInfoError(p)
  PROVE  BoundInv'
<1> DEFINE c == call[p]
<1>1. Good(c, jwts) /\ CallOK(c) /\ c \in Call
  BY CallIsGood DEF Good, CallOK
<1>2. CallOK(Disturbed(c))
  BY <1>1, DisturbedType
<1>3. CASE StartAttest(p)
  <2> DEFINE first == [Idle EXCEPT !.op = "Attest", !.pc = "ak_cert"]
             bad == [Idle EXCEPT !.op = "Attest"]
  <2>1. Good(first, jwts)
    BY IdleType DEF Good, CallOK, Call, Pc, Running, Bound, Idle, AttestPc, DecryptPc
  <2>2. CallOK(bad)
    BY IdleType DEF CallOK, Call
  <2>3. Good(Failed(bad, "ERROR_INVALID_INPUT_PARAMETER"), jwts)
    BY <2>2, FailedGood DEF ErrorCode
  <2> QED
    BY <1>3, <2>1, <2>3, GotoBound DEF StartAttest
<1>4. CASE StartDecrypt(p)
  <2> DEFINE first(jwt) == [Idle EXCEPT !.op = "Decrypt", !.pc = "decrypt_pcrs",
                                        !.token = Encrypt(jwt)]
             bad == [Idle EXCEPT !.op = "Decrypt"]
  <2>1. ASSUME NEW jwt \in jwts PROVE Good(first(jwt), jwts)
    <3>1. Encrypt(jwt) = jwt.key /\ jwt.key \in Key
      BY DEF Encrypt, BoundInv, TypeOK, Jwt
    <3>2. CallOK(first(jwt))
      BY <3>1, IdleType DEF CallOK, Call, Pc
    <3> QED
      BY <3>1, <3>2 DEF Good, Running, Bound, Idle, AttestPc, DecryptPc
  <2>2. CallOK(bad)
    BY IdleType DEF CallOK, Call
  <2>3. Good(Failed(bad, "ERROR_INVALID_INPUT_PARAMETER"), jwts)
    BY <2>2, FailedGood DEF ErrorCode
  <2> QED
    BY <1>4, <2>1, <2>3, GotoBound DEF StartDecrypt
<1>5. CASE CheckAkCert(p)
  <2> DEFINE ok == [c EXCEPT !.pc = "parameters"]
  <2>1. c.pc = "ak_cert"
    BY <1>5 DEF CheckAkCert
  <2>2. CallOK(ok)
    BY <1>1 DEF CallOK, Call, Pc
  <2>3. Good(ok, jwts)
    BY <1>1, <2>1, <2>2 DEF Good, CallOK, Call, Running, Bound, AttestPc, DecryptPc
  <2>4. \A code \in ErrorCode : Good(Failed(Disturbed(c), code), jwts)
    BY <1>2, FailedGood
  <2> QED
    BY <1>5, <2>3, <2>4, GotoBound DEF CheckAkCert, ErrorCode
<1>6. CASE GetParameters(p)
  <2> DEFINE ok(iso) == [c EXCEPT !.pc = "quote", !.params.isolation = iso]
  <2>1. c.pc = "parameters" /\ c.op = "Attest" /\ c.output = NoOutput
    BY <1>1, <1>6 DEF GetParameters, Good, Running, AttestPc
  <2>2. ASSUME NEW d, CallOK(d), d.op = "Attest", d.output = NoOutput,
               NEW iso \in IsolationType
        PROVE  Good([d EXCEPT !.pc = "quote", !.params.isolation = iso], jwts)
    <3> DEFINE e == [d EXCEPT !.pc = "quote", !.params.isolation = iso]
    <3>1. [d.params EXCEPT !.isolation = iso] \in Params
      BY <2>2 DEF CallOK, Call, Params
    <3>2. CallOK(e) /\ e.pc = "quote" /\ e.op = "Attest" /\ e.output = NoOutput
      BY <2>2, <3>1 DEF CallOK, Call, Pc
    <3> QED
      BY <3>2 DEF Good, Running, Bound, AttestPc, DecryptPc
  <2>3. Disturbed(c).op = "Attest" /\ Disturbed(c).output = NoOutput
    BY <1>1, <2>1 DEF Disturbed, CallOK, Call
  <2>4. Platform \in IsolationType /\ "TRUSTED_LAUNCH" \in IsolationType
    BY DEF IsolationType
  <2>5. \A code \in ErrorCode : /\ Good(Failed(Disturbed(c), code), jwts)
                               /\ Good(Failed(c, code), jwts)
    BY <1>1, <1>2, FailedGood
  <2>6. Good([c EXCEPT !.pc = "quote", !.params.isolation = Platform], jwts)
    BY <1>1, <2>1, <2>2, <2>4
  <2>7. Good([Disturbed(c) EXCEPT !.pc = "quote", !.params.isolation = "TRUSTED_LAUNCH"], jwts)
    BY <1>2, <2>2, <2>3, <2>4
  <2>8. BadInput \subseteq ErrorCode
    BY DEF BadInput, ErrorCode
  <2> QED
    BY <1>6, <2>5, <2>6, <2>7, <2>8, GotoBound, ParametersOutcome
<1>7. CASE GetPCRQuote(p)
  <2> DEFINE ok == [c EXCEPT !.pc = "pcr_values", !.quote = Attested(pcr)]
  <2>1. c.pc = "quote" /\ Attested(pcr) \in Reading
    BY <1>7, AttestedType DEF GetPCRQuote, BoundInv, TypeOK
  <2>2. CallOK(ok)
    BY <1>1, <2>1 DEF CallOK, Call, Pc
  <2>3. Good(ok, jwts)
    BY <1>1, <2>1, <2>2 DEF Good, CallOK, Call, Running, Bound, AttestPc, DecryptPc
  <2> QED
    BY <1>7, <2>3, GotoBound DEF GetPCRQuote
<1>8. CASE GetEphemeralKey(p)
  <2> DEFINE params == [quote |-> c.quote, pcrs |-> c.read,
                        key |-> CreateEphemeralKey(boot, c.read),
                        isolation |-> c.params.isolation]
             ok == [c EXCEPT !.pc = "send", !.params = params,
                             !.quote = NoPcrs, !.read = NoPcrs]
  <2>1. c.pc = "key" /\ c.op = "Attest" /\ c.output = NoOutput
    BY <1>1, <1>8 DEF GetEphemeralKey, Good, Running, AttestPc
  <2>2. params \in Params
    <3>1. boot \in 0..MaxBoots /\ c.read \in Reading /\ c.quote \in Reading
          /\ c.params.isolation \in IsolationType
      BY <1>1 DEF BoundInv, TypeOK, Call, Params
    <3> QED
      BY <3>1, KeyType DEF Params
  <2>3. params.key.policy = params.pcrs
    BY DEF CreateEphemeralKey
  <2> HIDE DEF params
  <2>4. CallOK(ok) /\ ok.pc = "send" /\ ok.op = "Attest" /\ ok.output = NoOutput
        /\ ok.params = params
    BY <1>1, <2>1, <2>2, NoPcrsType DEF CallOK, Call, Pc
  <2>5. Good(ok, jwts)
    BY <2>3, <2>4 DEF Good, Running, Bound, KeyOfParams, AttestPc, DecryptPc
  <2>6. \A code \in ErrorCode : Good(Failed(Disturbed(c), code), jwts)
    BY <1>2, FailedGood
  <2> QED
    BY <1>8, <2>5, <2>6, GotoBound DEF GetEphemeralKey, ValidateFails, ErrorCode, params
<1>9. CASE GetTpmInfoError(p)
  <2>1. \A code \in ErrorCode : Good(Failed(Disturbed(c), code), jwts)
    BY <1>2, FailedGood
  <2> QED
    BY <1>9, <2>1, GotoBound DEF GetTpmInfoError, ErrorCode
<1> QED
  BY <1>3, <1>4, <1>5, <1>6, <1>7, <1>8, <1>9

\* The error codes of a failed decryption.
LEMMA DecryptErrorsType == \A op : DecryptErrors(op) \subseteq ErrorCode
BY DEF DecryptErrors, ErrorCode

\* The steps that read PCRs, send the request and decrypt keep the invariant.
LEMMA DecryptBound ==
  ASSUME BoundInv, NEW p \in Procs,
         \/ GetPCRValues(p) \/ SendAttestationRequest(p) \/ PolicyPcr(p)
         \/ RsaDecrypt(p) \/ DecryptError(p)
  PROVE  BoundInv'
<1> DEFINE c == call[p]
<1>1. Good(c, jwts) /\ CallOK(c) /\ c \in Call /\ Running(c) /\ Bound(c, jwts)
  BY CallIsGood DEF Good, CallOK
<1>2. Good(Disturbed(c), jwts) /\ CallOK(Disturbed(c)) /\ Disturbed(c).pc = c.pc
  BY <1>1, DisturbedGood, DisturbedType DEF Disturbed, Call
<1>3. c.pc \in DecryptPc \cup {"send"} =>
        \A code \in ErrorCode : /\ Good(DecryptFailed(c, code), jwts)
                               /\ Good(DecryptFailed(Disturbed(c), code), jwts)
  BY <1>1, <1>2, DecryptFailedGood
<1>4. CASE GetPCRValues(p)
  <2> DEFINE values == PopulateCurrentPcrs(c.read, pcr)
             after == IF c.pc = "pcr_values" THEN "key" ELSE "policy"
             next == IF AllPcrsRead(values) THEN after ELSE c.pc
             ok == [c EXCEPT !.read = values, !.pc = next]
  <2>1. c.pc \in {"pcr_values", "decrypt_pcrs"}
    BY <1>4 DEF GetPCRValues
  <2>2. values \in Reading
    BY <1>1, PopulateType DEF BoundInv, TypeOK, Call
  <2>3. \/ c.pc = "pcr_values" /\ next \in {"pcr_values", "key"}
        \/ c.pc = "decrypt_pcrs" /\ next \in {"decrypt_pcrs", "policy"}
    BY <2>1
  <2>4. Goto(p, ok)
    BY <1>4 DEF GetPCRValues
  <2> HIDE DEF values, next
  <2>5. CallOK(ok) /\ ok.pc = next /\ ok.op = c.op /\ ok.output = c.output
        /\ ok.params = c.params /\ ok.token = c.token
    BY <1>1, <2>2, <2>3 DEF CallOK, Call, Pc
  <2>6. Good(ok, jwts)
    BY <1>1, <2>3, <2>5 DEF Good, Running, Bound, KeyOfParams, AttestPc, DecryptPc
  <2> QED
    BY <2>4, <2>6, GotoBound
<1>5. CASE SendAttestationRequest(p)
  <2> DEFINE ok == [c EXCEPT !.pc = "decrypt_pcrs", !.token = c.params.key, !.calm = TRUE]
  <2>1. c.pc = "send" /\ c.op = "Attest" /\ KeyOfParams(c) /\ c.output = NoOutput
    BY <1>1, <1>5 DEF SendAttestationRequest, Running, Bound, AttestPc
  <2>2. CallOK(ok) /\ ok.pc = "decrypt_pcrs" /\ ok.op = "Attest" /\ ok.output = NoOutput
        /\ ok.params = c.params /\ ok.token = c.params.key
    BY <1>1, <2>1 DEF CallOK, Call, Pc, Params
  <2>3. ServiceAccepts(c.params) => Good(ok, jwts)
    BY <2>1, <2>2
    DEF ServiceAccepts, Good, Running, Bound, KeyOfParams, AttestPc, DecryptPc
  <2>4. \A code \in ErrorCode : /\ Good(Failed(c, code), jwts)
                               /\ Good(Failed(Disturbed(c), code), jwts)
    BY <1>1, <1>2, FailedGood
  <2>5. "ERROR_ATTESTATION_FAILED" \in ErrorCode
    BY DEF ErrorCode
  <2> QED
    BY <1>3, <1>5, <2>1, <2>3, <2>4, <2>5, GotoBound, RequestOutcome
<1>6. CASE PolicyPcr(p)
  <2> DEFINE ok == [c EXCEPT !.pc = "rsa_decrypt", !.session = pcr]
  <2>1. c.pc = "policy"
    BY <1>6 DEF PolicyPcr
  <2>2. CallOK(ok) /\ ok.pc = "rsa_decrypt" /\ ok.op = c.op /\ ok.output = c.output
        /\ ok.params = c.params /\ ok.token = c.token /\ ok.read = c.read
        /\ ok.session = pcr
    BY <1>1 DEF CallOK, Call, Pc, BoundInv, TypeOK
  <2>3. PolicyPcrMatches(c.read, pcr) => Good(ok, jwts)
    BY <1>1, <2>1, <2>2
    DEF PolicyPcrMatches, Good, Running, Bound, KeyOfParams, AttestPc, DecryptPc
  <2> QED
    BY <1>3, <1>6, <2>1, <2>3, GotoBound, DecryptErrorsType DEF PolicyPcr, DecryptPc
<1>7. CASE RsaDecrypt(p)
  <2> DEFINE key == CreateEphemeralKey(boot, c.read)
             kind == IF c.op = "Attest" THEN "jwt" ELSE "data"
             done == Returned(c, "SUCCESS", [kind |-> kind, key |-> c.token])
             new == [key |-> c.token, pcrs |-> c.params.quote,
                     isolation |-> c.params.isolation]
  <2>1. c.pc = "rsa_decrypt" /\ c.op \in {"Attest", "Decrypt"}
    BY <1>1, <1>7 DEF RsaDecrypt, Running, DecryptPc
  <2>2. CASE RsaDecryptWorks(c.session, pcr, key, c.token)
    <3>1. /\ call' = [call EXCEPT ![p] = done] /\ boot' = boot /\ pcr' = pcr
          /\ jwts' = IF c.op = "Attest" THEN jwts \cup {new} ELSE jwts
      BY <1>7, <2>2 DEF RsaDecrypt
    <3>2. [kind |-> kind, key |-> c.token] \in Output
      BY <1>1 DEF Call, Output
    <3>3. \A tokens : Good(done, tokens)
      BY <1>1, <3>2, ReturnedGood
    <3>4. new \in Jwt /\ (c.op = "Attest" => new.key.policy = new.pcrs)
      BY <1>1, <2>1 DEF Call, Params, Jwt, Bound, KeyOfParams, DecryptPc
    <3> HIDE DEF new, done
    <3>5. TypeOK'
      BY <3>1, <3>3, <3>4 DEF BoundInv, TypeOK, Good, CallOK
    <3>6. \A jwt \in jwts' : jwt.key.policy = jwt.pcrs
      BY <2>1, <3>1, <3>4 DEF BoundInv
    <3>7. ASSUME NEW q \in Procs PROVE Running(call'[q]) /\ Bound(call'[q], jwts')
      <4>1. CASE q = p
        BY <3>1, <3>3, <4>1 DEF BoundInv, TypeOK, Good
      <4>2. CASE q # p
        <5>1. call'[q] = call[q] /\ jwts \subseteq jwts'
          BY <3>1, <4>2
        <5> QED
          BY <5>1 DEF BoundInv, Bound
      <4> QED
        BY <4>1, <4>2
    <3> QED
      BY <3>5, <3>6, <3>7 DEF BoundInv
  <2>3. CASE ~RsaDecryptWorks(c.session, pcr, key, c.token)
    BY <1>3, <1>7, <2>1, <2>3, GotoBound, DecryptErrorsType DEF RsaDecrypt, DecryptPc
  <2> QED
    BY <2>2, <2>3
<1>8. CASE DecryptError(p)
  <2>1. "ERROR_JWT_DECRYPTION_FAILED" \in ErrorCode
    BY DEF ErrorCode
  <2> QED
    BY <1>3, <1>8, <2>1, GotoBound, DecryptErrorsType DEF DecryptError
<1> QED
  BY <1>4, <1>5, <1>6, <1>7, <1>8

\* An extend changes one PCR to another value a PCR may have, and of a call
\* only its history.
LEMMA ExtendBound ==
  ASSUME BoundInv, NEW i \in Pcr, Extend(i)
  PROVE  BoundInv'
<1>1. pcr' \in [Pcr -> Digest]
  <2>1. pcr \in [Pcr -> Digest] /\ pcr[i] < MaxExtends[i]
        /\ pcr' = [pcr EXCEPT ![i] = pcr[i] + 1]
    BY DEF Extend, BoundInv, TypeOK
  <2>2. PICK j \in Pcr : pcr[i] \in 0..MaxExtends[j]
    BY <2>1 DEF Digest
  <2>3. pcr[i] + 1 \in 0..MaxExtends[i]
    BY <2>1, <2>2
  <2>4. pcr[i] + 1 \in Digest
    BY <2>3 DEF Digest
  <2> QED
    BY <2>1, <2>4
<1>2. ASSUME NEW q \in Procs
      PROVE  Good(call'[q], jwts')
  <2> DEFINE c == call[q]
             noisy == [c EXCEPT !.noise = @ + 1, !.calm = FALSE]
  <2>1. Good(c, jwts) /\ c \in Call
    BY CallIsGood DEF Good, CallOK
  <2>2. Good(Disturbed(c), jwts)
    BY <2>1, DisturbedGood
  <2>3. CallOK(noisy) /\ noisy.pc = c.pc /\ noisy.op = c.op /\ noisy.output = c.output
        /\ noisy.params = c.params /\ noisy.token = c.token /\ noisy.read = c.read
        /\ noisy.session = c.session
    <3>1. c.noise + 1 \in Nat /\ c.retries \in 0..MaxAttestationRetries
      BY <2>1 DEF Good, CallOK, Call
    <3>2. noisy \in Call /\ noisy.retries = c.retries
      BY <2>1, <3>1 DEF Call
    <3> QED
      BY <2>1, <3>1, <3>2 DEF CallOK, Call
  <2>4. Good(noisy, jwts)
    BY <2>1, <2>3 DEF Good, Running, Bound, KeyOfParams
  <2>5. call'[q] \in {c, Disturbed(c), noisy} /\ jwts' = jwts
    BY DEF Extend
  <2> QED
    BY <2>1, <2>2, <2>4, <2>5
<1>3. call' = [q \in Procs |-> call'[q]] /\ boot' = boot /\ jwts' = jwts
  BY DEF Extend
<1> QED
  BY <1>1, <1>2, <1>3 DEF BoundInv, TypeOK, Good, CallOK

\* A reboot leaves no call running.
LEMMA RebootBound ==
  ASSUME BoundInv, Reboot
  PROVE  BoundInv'
<1>1. /\ boot' \in 1..MaxBoots /\ jwts' = jwts
      /\ pcr' = [i \in Pcr |-> 0] /\ call' = [p \in Procs |-> Idle]
  BY DEF Reboot, BoundInv, TypeOK
<1>2. pcr' \in [Pcr -> Digest]
  BY <1>1 DEF Digest
<1>3. \A tokens : Good(Idle, tokens)
  BY IdleType DEF Good, Running, Bound, Idle, AttestPc, DecryptPc
<1> QED
  BY <1>1, <1>2, <1>3 DEF BoundInv, TypeOK, Good, CallOK

\* BoundInv holds throughout.
THEOREM BoundInvariant == Spec => []BoundInv
<1>1. Init => BoundInv
  <2> SUFFICES ASSUME Init PROVE BoundInv
    OBVIOUS
  <2>1. pcr \in [Pcr -> Digest]
    BY DEF Init, Digest
  <2>2. \A tokens : Good(Idle, tokens)
    BY IdleType DEF Good, Running, Bound, Idle, AttestPc, DecryptPc
  <2> QED
    BY <2>1, <2>2 DEF Init, BoundInv, TypeOK, Good, CallOK
<1>2. BoundInv /\ [Next]_vars => BoundInv'
  <2> SUFFICES ASSUME BoundInv, [Next]_vars PROVE BoundInv'
    OBVIOUS
  <2>1. CASE Next
    BY <2>1, GatherBound, DecryptBound, ExtendBound, RebootBound DEF Next, Start, Step, Advance
  <2>2. CASE UNCHANGED vars
    BY <2>2 DEF vars, BoundInv, TypeOK
  <2> QED
    BY <2>1, <2>2
<1> QED
  BY <1>1, <1>2, PTL DEF Spec

\* The variables keep their types, and the retry budget of Attest() is never
\* exceeded.
THEOREM TypeCorrect == Spec => []TypeOK
<1>1. BoundInv => TypeOK
  BY DEF BoundInv
<1> QED
  BY <1>1, BoundInvariant, PTL

-----------------------------------------------------------------------------
(* Releases *)

\* What a released token or piece of data is bound to: stated of one step
ReleaseStep ==
  \A p \in Procs : call'[p].output # call[p].output /\ call'[p].output # NoOutput
    => /\ call'[p].output.key = CurrentKey
       /\ \E jwt \in jwts' : /\ jwt.key = CurrentKey
                             /\ jwt.pcrs = Attested(pcr)

\* The effect of a successful RsaDecrypt: token and machine agree.
LEMMA RsaDecryptRelease ==
  ASSUME BoundInv, NEW p \in Procs, call[p].pc = "rsa_decrypt",
         RsaDecryptWorks(call[p].session, pcr,
                         CreateEphemeralKey(boot, call[p].read), call[p].token)
  PROVE  /\ call[p].token = CurrentKey
         /\ call[p].op = "Attest" => call[p].params.quote = Attested(pcr)
         /\ call[p].op = "Decrypt" => \E jwt \in jwts : /\ jwt.key = CurrentKey
                                                      /\ jwt.pcrs = Attested(pcr)
<1> DEFINE c == call[p]
<1>1. Running(c) /\ Bound(c, jwts)
  BY DEF BoundInv
<1>2. c.read = Attested(pcr)
  BY <1>1 DEF Bound, RsaDecryptWorks
<1>3. c.token = CurrentKey
  BY <1>2 DEF RsaDecryptWorks, CreateEphemeralKey, CurrentKey
<1>4. c.token.policy = Attested(pcr)
  BY <1>3 DEF CurrentKey
<1>5. c.op = "Attest" => c.params.quote = Attested(pcr)
  BY <1>1, <1>4 DEF Bound, KeyOfParams, DecryptPc
<1>6. ASSUME c.op = "Decrypt"
      PROVE  \E jwt \in jwts : jwt.key = CurrentKey /\ jwt.pcrs = Attested(pcr)
  <2>1. PICK jwt \in jwts : c.token = jwt.key
    BY <1>1, <1>6 DEF Bound, DecryptPc
  <2> QED
    BY <1>3, <1>4, <2>1 DEF BoundInv
<1> QED
  BY <1>3, <1>5, <1>6

\* A step that changes one call and releases nothing.
LEMMA GotoReleasesNothing ==
  ASSUME BoundInv, NEW p \in Procs, NEW c, Goto(p, c),
         c.output \in {NoOutput, call[p].output}
  PROVE  ReleaseStep
BY DEF ReleaseStep, Goto, BoundInv, TypeOK

\* What the results of the operators on calls hand out, and whose calls they are.
LEMMA NothingReleased ==
  ASSUME NEW c, CallOK(c)
  PROVE  /\ Disturbed(c).output = c.output /\ Disturbed(c).op = c.op
         /\ \A code : /\ Failed(c, code).output = NoOutput /\ Failed(c, code).op = c.op
                     /\ DecryptFailed(c, code).output \in {NoOutput, c.output}
                     /\ DecryptFailed(c, code).op = c.op
BY DEF Disturbed, Failed, Returned, DecryptFailed, Idle, CallOK, Call

\* RSA_Decrypt opens what the call is to open
Works(c) == RsaDecryptWorks(c.session, pcr, CreateEphemeralKey(boot, c.read), c.token)

\* Every step of a call but a successful RsaDecrypt moves that call alone and
\* hands out nothing; only a call that starts changes its operation.
LEMMA QuietStep ==
  ASSUME BoundInv, NEW p \in Procs, Start(p) \/ Step(p), ~(RsaDecrypt(p) /\ Works(call[p]))
  PROVE  \E d : /\ Goto(p, d)
                /\ d.output \in {NoOutput, call[p].output}
                /\ call[p].pc # "idle" => d.op = call[p].op
<1> DEFINE c == call[p]
           Quiet(d) == d.output \in {NoOutput, c.output} /\ (c.pc # "idle" => d.op = c.op)
<1>1. c \in Call /\ CallOK(c) /\ CallOK(Disturbed(c)) /\ CallOK(Idle)
  BY CallIsGood, DisturbedType, IdleType DEF Good, CallOK
<1> SUFFICES \E d : Goto(p, d) /\ Quiet(d)
  OBVIOUS
<1>2. \A code : /\ Quiet(Failed(c, code)) /\ Quiet(Failed(Disturbed(c), code))
               /\ Quiet(DecryptFailed(c, code))
               /\ Quiet(DecryptFailed(Disturbed(c), code))
  BY <1>1, NothingReleased
<1>3. CASE StartAttest(p)
  <2>1. Quiet([Idle EXCEPT !.op = "Attest", !.pc = "ak_cert"])
    BY <1>3 DEF Idle, StartAttest
  <2>2. \A code : Quiet(Failed([Idle EXCEPT !.op = "Attest"], code))
    BY <1>3 DEF Failed, Returned, Idle, StartAttest
  <2> HIDE DEF Quiet
  <2> QED
    BY <1>3, <2>1, <2>2 DEF StartAttest
<1>4. CASE StartDecrypt(p)
  <2>1. \A k : Quiet([Idle EXCEPT !.op = "Decrypt", !.pc = "decrypt_pcrs", !.token = k])
    BY <1>4 DEF Idle, StartDecrypt
  <2>2. \A code : Quiet(Failed([Idle EXCEPT !.op = "Decrypt"], code))
    BY <1>4 DEF Failed, Returned, Idle, StartDecrypt
  <2> HIDE DEF Quiet
  <2> QED
    BY <1>4, <2>1, <2>2 DEF StartDecrypt
<1>5. CASE CheckAkCert(p) \/ GetTpmInfoError(p)
  <2>1. Quiet([c EXCEPT !.pc = "parameters"])
    BY <1>1 DEF Call
  <2> HIDE DEF Quiet
  <2> QED
    BY <1>2, <1>5, <2>1 DEF CheckAkCert, GetTpmInfoError
<1>6. CASE GetParameters(p)
  <2>1. /\ Quiet([c EXCEPT !.pc = "quote", !.params.isolation = Platform])
        /\ Quiet([Disturbed(c) EXCEPT !.pc = "quote",
                                      !.params.isolation = "TRUSTED_LAUNCH"])
    BY <1>1 DEF Call, Disturbed
  <2> HIDE DEF Quiet
  <2> QED
    BY <1>2, <1>6, <2>1, ParametersOutcome
<1>7. CASE GetPCRQuote(p) \/ GetPCRValues(p)
  <2>1. \A v, w : /\ Quiet([c EXCEPT !.pc = v, !.quote = w])
                 /\ Quiet([c EXCEPT !.read = v, !.pc = w])
    BY <1>1 DEF Call
  <2> HIDE DEF Quiet
  <2> QED
    BY <1>7, <2>1 DEF GetPCRQuote, GetPCRValues
<1>8. CASE GetEphemeralKey(p)
  <2>1. \A v : Quiet([c EXCEPT !.pc = "send", !.params = v,
                               !.quote = NoPcrs, !.read = NoPcrs])
    BY <1>1 DEF Call
  <2> HIDE DEF Quiet
  <2> QED
    BY <1>2, <1>8, <2>1 DEF GetEphemeralKey, ValidateFails
<1>9. CASE SendAttestationRequest(p)
  <2>1. Quiet([c EXCEPT !.pc = "decrypt_pcrs", !.token = c.params.key, !.calm = TRUE])
    BY <1>1 DEF Call
  <2> HIDE DEF Quiet
  <2> QED
    BY <1>2, <1>9, <2>1, RequestOutcome
<1>10. CASE PolicyPcr(p)
  <2>1. Quiet([c EXCEPT !.pc = "rsa_decrypt", !.session = pcr])
    BY <1>1 DEF Call
  <2> HIDE DEF Quiet
  <2> QED
    BY <1>2, <1>10, <2>1 DEF PolicyPcr
<1>11. CASE RsaDecrypt(p) \/ DecryptError(p)
  <2> HIDE DEF Quiet
  <2> QED
    BY <1>2, <1>11 DEF RsaDecrypt, DecryptError, Works
<1> QED
  BY <1>3, <1>4, <1>5, <1>6, <1>7, <1>8, <1>9, <1>10, <1>11 DEF Start, Step, Advance

\* A successful RsaDecrypt hands out the token, or the data, of the machine as
\* it is.
LEMMA ReleaseEffect ==
  ASSUME BoundInv, NEW p \in Procs, RsaDecrypt(p), Works(call[p])
  PROVE  LET c == call[p]
             out == [kind |-> IF c.op = "Attest" THEN "jwt" ELSE "data", key |-> CurrentKey]
             new == [key |-> CurrentKey, pcrs |-> Attested(pcr), isolation |-> c.params.isolation]
         IN  /\ c.op \in {"Attest", "Decrypt"} /\ c.pc = "rsa_decrypt"
             /\ c.token = CurrentKey
             /\ call' = [call EXCEPT ![p] = Returned(c, "SUCCESS", out)]
             /\ Returned(c, "SUCCESS", out).output = out
             /\ UNCHANGED <<boot, pcr>>
             /\ c.op = "Attest" => jwts' = jwts \cup {new}
             /\ c.op = "Decrypt" => /\ jwts' = jwts
                                    /\ \E jwt \in jwts : /\ jwt.key = CurrentKey
                                                         /\ jwt.pcrs = Attested(pcr)
<1> DEFINE c == call[p]
<1>1. /\ c.pc = "rsa_decrypt" /\ UNCHANGED <<boot, pcr>>
      /\ call' = [call EXCEPT ![p] =
                    Returned(c, "SUCCESS", [kind |-> IF c.op = "Attest" THEN "jwt" ELSE "data",
                                            key |-> c.token])]
      /\ jwts' = IF c.op = "Attest"
                 THEN jwts \cup {[key |-> c.token, pcrs |-> c.params.quote,
                                  isolation |-> c.params.isolation]}
                 ELSE jwts
  BY DEF RsaDecrypt, Works
<1>2. /\ c.token = CurrentKey
      /\ c.op = "Attest" => c.params.quote = Attested(pcr)
      /\ c.op = "Decrypt" => \E jwt \in jwts : /\ jwt.key = CurrentKey
                                               /\ jwt.pcrs = Attested(pcr)
  BY <1>1, RsaDecryptRelease DEF Works
<1>3. c.op \in {"Attest", "Decrypt"}
  BY <1>1 DEF BoundInv, Running, DecryptPc
<1>4. \A out : Returned(c, "SUCCESS", out).output = out
  BY DEF Returned, Idle
<1> QED
  BY <1>1, <1>2, <1>3, <1>4

\* An extend hands out nothing.
LEMMA ExtendQuiet ==
  ASSUME BoundInv, NEW i \in Pcr, Extend(i), NEW p \in Procs
  PROVE  call'[p].output = call[p].output /\ call'[p].op = call[p].op /\ call'[p].pc = call[p].pc
<1>1. call[p] \in Call
  BY DEF BoundInv, TypeOK
<1> QED
  BY <1>1 DEF Extend, Disturbed, Call

\* Every step of the specification releases only what is bound to the machine.
LEMMA NextReleases ==
  ASSUME BoundInv, [Next]_vars
  PROVE  ReleaseStep
<1>1. ASSUME NEW p \in Procs, Start(p) \/ Step(p)
      PROVE  ReleaseStep
  <2>1. CASE RsaDecrypt(p) /\ Works(call[p])
    <3> DEFINE c == call[p]
               out == [kind |-> IF c.op = "Attest" THEN "jwt" ELSE "data", key |-> CurrentKey]
               new == [key |-> CurrentKey, pcrs |-> Attested(pcr),
                       isolation |-> c.params.isolation]
    <3>1. /\ call' = [call EXCEPT ![p] = Returned(c, "SUCCESS", out)]
          /\ Returned(c, "SUCCESS", out).output = out
          /\ c.op \in {"Attest", "Decrypt"}
          /\ c.op = "Attest" => jwts' = jwts \cup {new}
          /\ c.op = "Decrypt" => /\ jwts' = jwts
                                 /\ \E jwt \in jwts : /\ jwt.key = CurrentKey
                                                      /\ jwt.pcrs = Attested(pcr)
      BY <2>1, ReleaseEffect
    <3>2. \E jwt \in jwts' : jwt.key = CurrentKey /\ jwt.pcrs = Attested(pcr)
      <4>1. new.key = CurrentKey /\ new.pcrs = Attested(pcr)
        OBVIOUS
      <4> HIDE DEF new
      <4> QED
        BY <3>1, <4>1
    <3>3. call'[p].output.key = CurrentKey /\ \A q \in Procs \ {p} : call'[q] = call[q]
      BY <3>1 DEF BoundInv, TypeOK
    <3> QED
      BY <3>2, <3>3 DEF ReleaseStep
  <2>2. CASE ~(RsaDecrypt(p) /\ Works(call[p]))
    BY <1>1, <2>2, QuietStep, GotoReleasesNothing
  <2> QED
    BY <2>1, <2>2
<1>2. ASSUME NEW i \in Pcr, Extend(i)
      PROVE  ReleaseStep
  BY <1>2, ExtendQuiet DEF ReleaseStep
<1>3. CASE Reboot
  BY <1>3 DEF Reboot, ReleaseStep, Idle
<1>4. CASE UNCHANGED vars
  BY <1>4 DEF vars, ReleaseStep
<1> QED
  BY <1>1, <1>2, <1>3, <1>4 DEF Next

\* A token or data is only released in the machine state the token asserts,
\* whatever is extended and whenever the VM reboots.
THEOREM ReleaseIsBound == Spec => ReleaseBound
<1>1. BoundInv /\ [Next]_vars => ReleaseStep
  BY NextReleases
<1>2. BoundInv /\ [Next]_vars => [ReleaseStep]_vars
  BY <1>1
<1> QED
  BY <1>2, BoundInvariant, PTL DEF Spec, ReleaseBound, ReleaseStep

-----------------------------------------------------------------------------
(***************************************************************************)
(* The retry loop.  As long as a call of Attest() is not hurt, what it     *)
(* read is what the PCRs hold, and every retry was paid for by an extend   *)
(* of a PCR that is not attested.                                          *)
(***************************************************************************)
ReadIsCurrent(c, bank) == \A i \in DOMAIN c.read : c.read[i] = bank[i]

ParamsAreCurrent(c, bank, seed) ==
  /\ c.params.quote = Attested(bank)
  /\ c.params.pcrs = Attested(bank)
  /\ c.params.key = CreateEphemeralKey(seed, Attested(bank))

Unhurt(c, bank, seed) ==
  /\ c.retries <= c.noise
  /\ ReadIsCurrent(c, bank)
  /\ c.pc \in Pc \ {"idle", "ak_cert", "parameters"} => c.params.isolation = Platform
  /\ c.pc \in {"pcr_values", "key"} => c.quote = Attested(bank)
  /\ c.pc \in {"key", "policy", "rsa_decrypt"} => DOMAIN c.read = AttestationPcrList
  /\ c.pc \in {"send"} \cup DecryptPc => ParamsAreCurrent(c, bank, seed)
  /\ c.pc = "rsa_decrypt" /\ c.session # bank => c.retries < c.noise

\* RetriesAbsorbNoise of one call
Absorbed(c) ==
  c.op = "Attest" /\ c.pc = "idle" /\ ~c.hurt =>
    IF c.result = "SUCCESS" THEN c.params.isolation = Platform
    ELSE c.result \in BadInput \/ c.noise > MaxAttestationRetries

Settled(c, bank, seed) ==
  /\ c.op = "Attest" /\ c.pc # "idle" /\ ~c.hurt => Unhurt(c, bank, seed)
  /\ Absorbed(c)

NoiseInv == \A p \in Procs : Settled(call[p], pcr, boot)

\* Only an Attest() that is not hurt has anything to show.
LEMMA HurtIsSettled ==
  ASSUME NEW c, NEW bank, NEW seed, c.hurt = TRUE \/ c.op # "Attest"
  PROVE  Settled(c, bank, seed)
BY DEF Settled, Absorbed

\* After an error the call counts as hurt, whether it returns or retries.
LEMMA ErrorIsSettled ==
  ASSUME NEW c, CallOK(c), NEW code, NEW bank, NEW seed
  PROVE  /\ Settled(Failed(Disturbed(c), code), bank, seed)
         /\ Settled(DecryptFailed(Disturbed(c), code), bank, seed)
<1>1. CallOK(Disturbed(c)) /\ Disturbed(c).hurt = TRUE
  BY DisturbedType DEF Disturbed, CallOK, Call
<1>2. Failed(Disturbed(c), code).hurt = TRUE
  BY <1>1 DEF Failed, Returned, Idle
<1>3. DecryptFailed(Disturbed(c), code).hurt = TRUE
  BY <1>1, <1>2 DEF DecryptFailed, CallOK, Call
<1> QED
  BY <1>2, <1>3, HurtIsSettled

\* A reading of all attested PCRs that is current is what the TPM would quote.
LEMMA FullReading ==
  ASSUME NEW c, CallOK(c), NEW bank, ReadIsCurrent(c, bank),
         DOMAIN c.read = AttestationPcrList
  PROVE  c.read = Attested(bank)
<1>1. PICK S \in SUBSET AttestationPcrList : c.read \in [S -> Digest]
  BY DEF CallOK, Call, Reading
<1>2. c.read = [i \in AttestationPcrList |-> c.read[i]]
  BY <1>1
<1> QED
  BY <1>2 DEF ReadIsCurrent, Attested

\* A step that changes one call and nothing else.
LEMMA GotoNoise ==
  ASSUME BoundInv, NoiseInv, NEW p \in Procs, NEW c, Goto(p, c), Settled(c, pcr, boot)
  PROVE  NoiseInv'
<1>1. /\ call' = [call EXCEPT ![p] = c] /\ pcr' = pcr /\ boot' = boot
      /\ call \in [Procs -> Call]
  BY DEF Goto, BoundInv, TypeOK
<1>2. ASSUME NEW q \in Procs PROVE Settled(call'[q], pcr', boot')
  <2>1. call'[q] = IF q = p THEN c ELSE call[q]
    BY <1>1
  <2> QED
    BY <1>1, <2>1 DEF NoiseInv
<1> QED
  BY <1>2 DEF NoiseInv

\* The steps up to AttestationParameters keep what was read current.
LEMMA GatherNoise ==
  ASSUME BoundInv, NoiseInv, NEW p \in Procs,
         \/ StartAttest(p) \/ StartDecrypt(p) \/ CheckAkCert(p) \/ GetParameters(p)
         \/ GetPCRQuote(p) \/ GetEphemeralKey(p) \/ GetTpmInfoError(p)
  PROVE  NoiseInv'
<1> DEFINE c == call[p]
           Fine(d) == Settled(d, pcr, boot)
<1>1. CallOK(c) /\ c \in Call /\ Running(c) /\ Fine(c)
  BY CallIsGood DEF Good, CallOK, NoiseInv
<1>2. \A code : Fine(Failed(Disturbed(c), code))
  BY <1>1, ErrorIsSettled
<1>3. ASSUME NEW d, Goto(p, d), Fine(d) PROVE NoiseInv'
  BY <1>3, GotoNoise
<1>4. \A code \in BadInput : Fine(Failed(c, code))
  <2> SUFFICES ASSUME NEW code \in BadInput PROVE Fine(Failed(c, code))
    OBVIOUS
  <2>1. Failed(c, code).pc = "idle" /\ Failed(c, code).result = code
    BY DEF Failed, Returned, Idle
  <2> QED
    BY <2>1 DEF Settled, Absorbed, BadInput
<1>5. c.op = "Attest" /\ c.pc # "idle" /\ ~c.hurt => Unhurt(c, pcr, boot)
  BY <1>1 DEF Settled
<1>6. DOMAIN NoPcrs = {}
  BY DEF NoPcrs
<1>7. CASE StartAttest(p)
  <2> DEFINE first == [Idle EXCEPT !.op = "Attest", !.pc = "ak_cert"]
             bad == Failed([Idle EXCEPT !.op = "Attest"], "ERROR_INVALID_INPUT_PARAMETER")
  <2>1. first.pc = "ak_cert" /\ first.retries = 0 /\ first.noise = 0 /\ first.read = NoPcrs
    BY DEF Idle
  <2>2. Unhurt(first, pcr, boot)
    BY <1>6, <2>1 DEF Unhurt, ReadIsCurrent, DecryptPc
  <2>3. Fine(first)
    BY <2>1, <2>2 DEF Settled, Absorbed
  <2>4. bad.pc = "idle" /\ bad.result = "ERROR_INVALID_INPUT_PARAMETER"
    BY DEF Failed, Returned, Idle
  <2>5. Fine(bad)
    BY <2>4 DEF Settled, Absorbed, BadInput
  <2> HIDE DEF Fine, first, bad
  <2>6. Goto(p, first) \/ Goto(p, bad)
    BY <1>7 DEF StartAttest, first, bad
  <2> QED
    BY <1>3, <2>3, <2>5, <2>6
<1>8. CASE StartDecrypt(p)
  <2>1. \A k : Fine([Idle EXCEPT !.op = "Decrypt", !.pc = "decrypt_pcrs", !.token = k])
    BY HurtIsSettled DEF Idle
  <2>2. Failed([Idle EXCEPT !.op = "Decrypt"], "ERROR_INVALID_INPUT_PARAMETER").op = "Decrypt"
    BY DEF Failed, Returned, Idle
  <2>3. Fine(Failed([Idle EXCEPT !.op = "Decrypt"], "ERROR_INVALID_INPUT_PARAMETER"))
    BY <2>2, HurtIsSettled
  <2> HIDE DEF Fine
  <2> QED
    BY <1>3, <1>8, <2>1, <2>3 DEF StartDecrypt
<1>9. CASE CheckAkCert(p)
  <2> DEFINE d == [c EXCEPT !.pc = "parameters"]
  <2>1. /\ d.pc = "parameters" /\ c.pc = "ak_cert" /\ d.op = c.op /\ d.hurt = c.hurt
        /\ d.retries = c.retries /\ d.noise = c.noise /\ d.read = c.read
    BY <1>1, <1>9 DEF Call, CheckAkCert
  <2>2. Fine(d)
    BY <1>5, <2>1 DEF Settled, Absorbed, Unhurt, ReadIsCurrent, DecryptPc
  <2> HIDE DEF Fine, d
  <2>3. Goto(p, d) \/ \E code : Goto(p, Failed(Disturbed(c), code))
    BY <1>9 DEF CheckAkCert, d
  <2> QED
    BY <1>2, <1>3, <2>2, <2>3
<1>10. CASE GetParameters(p)
  <2> DEFINE d == [c EXCEPT !.pc = "quote", !.params.isolation = Platform]
             e == [Disturbed(c) EXCEPT !.pc = "quote", !.params.isolation = "TRUSTED_LAUNCH"]
  <2>1. /\ d.pc = "quote" /\ c.pc = "parameters" /\ d.op = c.op /\ d.hurt = c.hurt
        /\ d.retries = c.retries /\ d.noise = c.noise /\ d.read = c.read
        /\ d.params.isolation = Platform
    BY <1>1, <1>10 DEF Call, Params, GetParameters
  <2>2. Fine(d)
    BY <1>5, <2>1 DEF Settled, Absorbed, Unhurt, ReadIsCurrent, DecryptPc
  <2>3. e.hurt = TRUE
    BY <1>1 DEF Call, Disturbed
  <2>4. Fine(e)
    BY <2>3, HurtIsSettled
  <2> HIDE DEF Fine, d, e
  <2>5. \/ Goto(p, d) \/ Goto(p, e)
        \/ \E code : Goto(p, Failed(Disturbed(c), code))
        \/ \E code \in BadInput : Goto(p, Failed(c, code))
    BY <1>10, ParametersOutcome DEF d, e
  <2> QED
    BY <1>2, <1>3, <1>4, <2>2, <2>4, <2>5
<1>11. CASE GetPCRQuote(p)
  <2> DEFINE d == [c EXCEPT !.pc = "pcr_values", !.quote = Attested(pcr)]
  <2>1. /\ d.pc = "pcr_values" /\ c.pc = "quote" /\ d.op = c.op /\ d.hurt = c.hurt
        /\ d.retries = c.retries /\ d.noise = c.noise /\ d.read = c.read
        /\ d.params = c.params /\ d.quote = Attested(pcr)
    BY <1>1, <1>11 DEF Call, GetPCRQuote
  <2>2. Fine(d)
    BY <1>5, <2>1 DEF Settled, Absorbed, Unhurt, ReadIsCurrent, DecryptPc, Pc
  <2> HIDE DEF Fine, d
  <2>3. Goto(p, d)
    BY <1>11 DEF GetPCRQuote, d
  <2> QED
    BY <1>3, <2>2, <2>3
<1>12. CASE GetEphemeralKey(p)
  <2> DEFINE params == [quote |-> c.quote, pcrs |-> c.read,
                        key |-> CreateEphemeralKey(boot, c.read),
                        isolation |-> c.params.isolation]
             d == [c EXCEPT !.pc = "send", !.params = params,
                            !.quote = NoPcrs, !.read = NoPcrs]
  <2>1. /\ d.pc = "send" /\ c.pc = "key" /\ d.op = c.op /\ d.hurt = c.hurt
        /\ d.retries = c.retries /\ d.noise = c.noise /\ d.read = NoPcrs
        /\ d.params = params
    BY <1>1, <1>12 DEF Call, GetEphemeralKey
  <2>2. ASSUME d.op = "Attest", ~d.hurt PROVE Unhurt(d, pcr, boot)
    <3>1. Unhurt(c, pcr, boot)
      BY <1>5, <2>1, <2>2
    <3>2. c.read = Attested(pcr)
      BY <1>1, <2>1, <3>1, FullReading DEF Unhurt
    <3>3. ParamsAreCurrent(d, pcr, boot)
      BY <2>1, <3>1, <3>2 DEF ParamsAreCurrent, Unhurt
    <3>4. c.retries <= c.noise /\ c.params.isolation = Platform
      BY <2>1, <3>1 DEF Unhurt, Pc
    <3> QED
      BY <1>6, <2>1, <3>3, <3>4 DEF Unhurt, ReadIsCurrent, DecryptPc
  <2>3. Fine(d)
    BY <2>1, <2>2 DEF Settled, Absorbed
  <2> HIDE DEF Fine, d
  <2>4. Goto(p, d) \/ \E code : Goto(p, Failed(Disturbed(c), code))
    BY <1>12 DEF GetEphemeralKey, ValidateFails, d
  <2> QED
    BY <1>2, <1>3, <2>3, <2>4
<1>13. CASE GetTpmInfoError(p)
  <2> HIDE DEF Fine
  <2> QED
    BY <1>2, <1>3, <1>13 DEF GetTpmInfoError
<1> QED
  BY <1>7, <1>8, <1>9, <1>10, <1>11, <1>12, <1>13

\* One PCR_Read adds present values to a reading of present values.
LEMMA PopulateIsCurrent ==
  ASSUME NEW values \in Reading, NEW bank \in [Pcr -> Digest],
         \A i \in DOMAIN values : values[i] = bank[i]
  PROVE  LET all == PopulateCurrentPcrs(values, bank)
         IN  \A i \in DOMAIN all : all[i] = bank[i]
BY DEF PopulateCurrentPcrs

\* A decryption that fails is retried at the expense of one extend, or there
\* were more extends than retries.
LEMMA PaidRetry ==
  ASSUME NEW c, CallOK(c), NEW bank, NEW seed, NEW code,
         c.op = "Attest", c.pc = "rsa_decrypt",
         ~c.hurt => Unhurt(c, bank, seed) /\ c.retries < c.noise
  PROVE  Settled(DecryptFailed(c, code), bank, seed)
<1> DEFINE d == DecryptFailed(c, code)
<1>1. CASE c.retries < MaxAttestationRetries
  <2>1. d = [c EXCEPT !.pc = "send", !.retries = @ + 1, !.token = NoKey,
                      !.read = NoPcrs, !.session = NoPcrs]
    BY <1>1 DEF DecryptFailed
  <2>2. /\ d.pc = "send" /\ d.retries = c.retries + 1 /\ d.read = NoPcrs
        /\ d.params = c.params /\ d.noise = c.noise /\ d.hurt = c.hurt
    BY <2>1 DEF CallOK, Call
  <2>3. DOMAIN NoPcrs = {}
    BY DEF NoPcrs
  <2>4. ASSUME ~c.hurt PROVE Unhurt(d, bank, seed)
    <3>1. ParamsAreCurrent(c, bank, seed) /\ c.params.isolation = Platform
      BY <2>4 DEF Unhurt, DecryptPc, Pc
    <3>2. c.retries + 1 <= c.noise
      BY <2>4 DEF CallOK, Call
    <3> QED
      BY <2>2, <2>3, <3>1, <3>2 DEF Unhurt, ReadIsCurrent, ParamsAreCurrent, DecryptPc
  <2> QED
    BY <2>2, <2>4 DEF Settled, Absorbed
<1>2. CASE ~(c.retries < MaxAttestationRetries)
  <2>1. d = Failed(c, code)
    BY <1>2 DEF DecryptFailed
  <2>2. d.pc = "idle" /\ d.hurt = c.hurt /\ d.noise = c.noise /\ d.result = code
        /\ d.params.isolation = c.params.isolation
    BY <2>1 DEF Failed, Returned, Idle, NoParams
  <2>3. ~c.hurt => c.noise > MaxAttestationRetries /\ c.params.isolation = Platform
    BY <1>2 DEF CallOK, Call, Unhurt, Pc
  <2> QED
    BY <2>2, <2>3 DEF Settled, Absorbed
<1> QED
  BY <1>1, <1>2

\* The steps from the PCR reads to the decryption: without an error only the
\* RSA_Decrypt of a call that saw an unrelated extend can fail.
LEMMA DecryptNoise ==
  ASSUME BoundInv, NoiseInv, NEW p \in Procs,
         \/ GetPCRValues(p) \/ SendAttestationRequest(p) \/ PolicyPcr(p)
         \/ RsaDecrypt(p) \/ DecryptError(p)
  PROVE  NoiseInv'
<1> DEFINE c == call[p]
           Fine(d) == Settled(d, pcr, boot)
<1>1. CallOK(c) /\ c \in Call /\ Running(c) /\ Bound(c, jwts) /\ Fine(c)
  BY CallIsGood DEF Good, CallOK, NoiseInv
<1>2. \A code : /\ Fine(Failed(Disturbed(c), code))
               /\ Fine(DecryptFailed(Disturbed(c), code))
  BY <1>1, ErrorIsSettled
<1>3. ASSUME NEW d, Goto(p, d), Fine(d) PROVE NoiseInv'
  BY <1>3, GotoNoise
<1>4. c.op = "Attest" /\ c.pc # "idle" /\ ~c.hurt => Unhurt(c, pcr, boot)
  BY <1>1 DEF Settled
<1>5. ASSUME NEW code, c.op # "Attest" PROVE Fine(DecryptFailed(c, code))
  <2>1. DecryptFailed(c, code).op = c.op
    BY <1>5 DEF DecryptFailed, Failed, Returned, Idle
  <2> QED
    BY <1>5, <2>1, HurtIsSettled
<1>6. ASSUME NEW code, c.hurt = TRUE PROVE Fine(DecryptFailed(c, code))
  <2>1. DecryptFailed(c, code).hurt = TRUE
    BY <1>1, <1>6 DEF DecryptFailed, Failed, Returned, Idle, Call
  <2> QED
    BY <2>1, HurtIsSettled
<1>7. c.hurt \in BOOLEAN /\ pcr \in [Pcr -> Digest] /\ c.read \in Reading
  BY <1>1 DEF Call, BoundInv, TypeOK
<1>8. CASE GetPCRValues(p)
  <2> DEFINE values == PopulateCurrentPcrs(c.read, pcr)
             after == IF c.pc = "pcr_values" THEN "key" ELSE "policy"
             to == IF AllPcrsRead(values) THEN after ELSE c.pc
             d == [c EXCEPT !.read = values, !.pc = to]
  <2>1. Goto(p, d) /\ c.pc \in {"pcr_values", "decrypt_pcrs"}
    BY <1>8 DEF GetPCRValues
  <2>2. /\ d.pc = to /\ d.op = c.op /\ d.hurt = c.hurt
        /\ d.retries = c.retries /\ d.noise = c.noise /\ d.read = values
        /\ d.params = c.params /\ d.quote = c.quote
    BY <1>1 DEF Call
  <2>3. to \in IF c.pc = "pcr_values" THEN {"pcr_values", "key"} ELSE {"decrypt_pcrs", "policy"}
    BY <2>1
  <2>4. to \in {"key", "policy"} => DOMAIN values = AttestationPcrList
    BY <2>1 DEF AllPcrsRead
  <2> HIDE DEF to, values
  <2>5. ASSUME c.op = "Attest", ~c.hurt PROVE Unhurt(d, pcr, boot)
    <3>1. Unhurt(c, pcr, boot)
      BY <1>4, <2>1, <2>5
    <3>2. ReadIsCurrent(d, pcr)
      BY <1>7, <2>2, <3>1, PopulateIsCurrent DEF Unhurt, ReadIsCurrent, values
    <3>3. c.pc = "pcr_values" => c.quote = Attested(pcr)
      BY <3>1 DEF Unhurt
    <3>4. c.pc = "decrypt_pcrs" => ParamsAreCurrent(c, pcr, boot)
      BY <3>1 DEF Unhurt, DecryptPc
    <3>5. c.params.isolation = Platform /\ c.retries <= c.noise
      BY <2>1, <3>1 DEF Unhurt, Pc
    <3> QED
      BY <2>1, <2>2, <2>3, <2>4, <3>2, <3>3, <3>4, <3>5
      DEF Unhurt, ParamsAreCurrent, DecryptPc
  <2>6. Fine(d)
    BY <2>1, <2>2, <2>3, <2>5 DEF Settled, Absorbed
  <2> QED
    BY <1>3, <2>1, <2>6
<1>9. CASE SendAttestationRequest(p)
  <2> DEFINE d == [c EXCEPT !.pc = "decrypt_pcrs", !.token = c.params.key, !.calm = TRUE]
  <2>1. /\ d.pc = "decrypt_pcrs" /\ c.pc = "send" /\ d.op = c.op /\ d.hurt = c.hurt
        /\ d.retries = c.retries /\ d.noise = c.noise /\ d.read = c.read
        /\ d.params = c.params
    BY <1>1, <1>9 DEF Call, SendAttestationRequest
  <2>2. Fine(d)
    BY <1>4, <2>1 DEF Settled, Absorbed, Unhurt, ReadIsCurrent, ParamsAreCurrent, DecryptPc, Pc
  <2>3. ASSUME NEW code, ~ServiceAccepts(c.params) PROVE Fine(Failed(c, code))
    <3>1. c.op = "Attest"
      BY <1>1, <2>1 DEF Running, AttestPc
    <3>2. ~Unhurt(c, pcr, boot)
      BY <2>1, <2>3 DEF Unhurt, ParamsAreCurrent, ServiceAccepts
    <3>3. c.hurt = TRUE
      BY <1>4, <1>7, <2>1, <3>1, <3>2
    <3>4. Failed(c, code).hurt = TRUE
      BY <3>3 DEF Failed, Returned, Idle
    <3> QED
      BY <3>4, HurtIsSettled
  <2> HIDE DEF Fine, d
  <2>4. \/ Goto(p, d)
        \/ ~ServiceAccepts(c.params) /\ \E code : Goto(p, Failed(c, code))
        \/ \E code : \/ Goto(p, Failed(Disturbed(c), code))
                     \/ Goto(p, DecryptFailed(Disturbed(c), code))
    BY <1>9, RequestOutcome DEF d
  <2> QED
    BY <1>2, <1>3, <2>2, <2>3, <2>4
<1>10. CASE PolicyPcr(p)
  <2> DEFINE d == [c EXCEPT !.pc = "rsa_decrypt", !.session = pcr]
  <2>1. /\ d.pc = "rsa_decrypt" /\ c.pc = "policy" /\ d.op = c.op /\ d.hurt = c.hurt
        /\ d.retries = c.retries /\ d.noise = c.noise /\ d.read = c.read
        /\ d.params = c.params /\ d.session = pcr
    BY <1>1, <1>10 DEF Call, PolicyPcr
  <2>2. Fine(d)
    BY <1>4, <2>1 DEF Settled, Absorbed, Unhurt, ReadIsCurrent, ParamsAreCurrent, DecryptPc, Pc
  <2>3. ASSUME NEW code, ~PolicyPcrMatches(c.read, pcr) PROVE Fine(DecryptFailed(c, code))
    <3>1. ~Unhurt(c, pcr, boot)
      BY <1>1, <2>1, <2>3, FullReading DEF Unhurt, PolicyPcrMatches
    <3> QED
      BY <1>4, <1>5, <1>6, <1>7, <2>1, <3>1
  <2> HIDE DEF Fine, d
  <2>4. \/ Goto(p, d)
        \/ ~PolicyPcrMatches(c.read, pcr) /\ \E code : Goto(p, DecryptFailed(c, code))
    BY <1>10 DEF PolicyPcr, d
  <2> QED
    BY <1>3, <2>2, <2>3, <2>4
<1>11. CASE RsaDecrypt(p)
  <2> DEFINE works == RsaDecryptWorks(c.session, pcr, CreateEphemeralKey(boot, c.read), c.token)
  <2>1. c.pc = "rsa_decrypt"
    BY <1>11 DEF RsaDecrypt
  <2>2. CASE works
    <3> DEFINE out == [kind |-> IF c.op = "Attest" THEN "jwt" ELSE "data", key |-> c.token]
               d == Returned(c, "SUCCESS", out)
    <3>1. /\ call' = [call EXCEPT ![p] = d] /\ pcr' = pcr /\ boot' = boot
          /\ call \in [Procs -> Call]
      BY <1>11, <2>2 DEF RsaDecrypt, BoundInv, TypeOK
    <3>2. /\ d.pc = "idle" /\ d.op = c.op /\ d.hurt = c.hurt /\ d.result = "SUCCESS"
          /\ d.params.isolation = c.params.isolation
      BY DEF Returned, Idle, NoParams
    <3>3. Fine(d)
      BY <1>4, <2>1, <3>2 DEF Settled, Absorbed, Unhurt, Pc
    <3>4. ASSUME NEW q \in Procs PROVE Settled(call'[q], pcr', boot')
      <4>1. call'[q] = IF q = p THEN d ELSE call[q]
        BY <3>1
      <4> QED
        BY <3>1, <3>3, <4>1 DEF NoiseInv
    <3> QED
      BY <3>4 DEF NoiseInv
  <2>3. CASE ~works
    <3>1. PICK code : Goto(p, DecryptFailed(c, code))
      BY <1>11, <2>3 DEF RsaDecrypt
    <3>2. ASSUME c.op = "Attest", ~c.hurt
          PROVE  Unhurt(c, pcr, boot) /\ c.retries < c.noise
      <4>1. Unhurt(c, pcr, boot)
        BY <1>4, <2>1, <3>2
      <4>2. c.read = Attested(pcr)
        BY <1>1, <2>1, <4>1, FullReading DEF Unhurt
      <4>3. c.token = CreateEphemeralKey(boot, c.read)
        BY <1>1, <2>1, <3>2, <4>1, <4>2 DEF Bound, Unhurt, ParamsAreCurrent, DecryptPc
      <4>4. c.session # pcr
        BY <2>3, <4>3 DEF RsaDecryptWorks
      <4> QED
        BY <2>1, <4>1, <4>4 DEF Unhurt
    <3>3. Fine(DecryptFailed(c, code))
      BY <1>1, <1>5, <2>1, <3>2, PaidRetry
    <3> QED
      BY <1>3, <3>1, <3>3
  <2> QED
    BY <2>2, <2>3
<1>12. CASE DecryptError(p)
  <2> HIDE DEF Fine
  <2> QED
    BY <1>2, <1>3, <1>12 DEF DecryptError
<1> QED
  BY <1>8, <1>9, <1>10, <1>11, <1>12

\* An extend of an attested PCR hurts every call that runs; any other pays for
\* one retry and leaves what was read current.
LEMMA ExtendNoise ==
  ASSUME BoundInv, NoiseInv, NEW i \in Pcr, Extend(i)
  PROVE  NoiseInv'
<1>1. /\ boot' = boot /\ pcr \in [Pcr -> Digest] /\ call \in [Procs -> Call]
      /\ pcr' = [pcr EXCEPT ![i] = pcr[i] + 1]
  BY DEF Extend, BoundInv, TypeOK
<1>2. ASSUME NEW q \in Procs
      PROVE  Settled(call'[q], pcr', boot')
  <2> DEFINE c == call[q]
             noisy == [c EXCEPT !.noise = @ + 1, !.calm = FALSE]
  <2>1. CallOK(c) /\ c \in Call /\ Settled(c, pcr, boot)
    BY CallIsGood DEF Good, CallOK, NoiseInv
  <2>2. CASE c.pc = "idle"
    <3>1. call'[q] = c
      BY <2>2 DEF Extend
    <3> QED
      BY <2>1, <2>2, <3>1 DEF Settled
  <2>3. CASE c.pc # "idle" /\ i \in AttestationPcrList
    <3>1. call'[q] = Disturbed(c)
      BY <2>3 DEF Extend
    <3>2. call'[q].hurt = TRUE
      BY <2>1, <3>1 DEF Disturbed, Call
    <3> QED
      BY <3>2, HurtIsSettled
  <2>4. CASE c.pc # "idle" /\ i \notin AttestationPcrList
    <3>1. call'[q] = noisy
      BY <2>4 DEF Extend
    <3>2. /\ noisy.pc = c.pc /\ noisy.op = c.op /\ noisy.hurt = c.hurt
          /\ noisy.retries = c.retries /\ noisy.noise = c.noise + 1
          /\ noisy.read = c.read /\ noisy.quote = c.quote
          /\ noisy.params = c.params /\ noisy.session = c.session
      BY <2>1 DEF Call
    <3>3. \A j \in AttestationPcrList : pcr'[j] = pcr[j]
      BY <1>1, <2>4
    <3>4. Attested(pcr') = Attested(pcr)
      BY <3>3 DEF Attested
    <3>5. ASSUME c.op = "Attest", ~c.hurt PROVE Unhurt(noisy, pcr', boot')
      <4>1. Unhurt(c, pcr, boot)
        BY <2>1, <2>4, <3>5 DEF Settled
      <4>2. DOMAIN c.read \subseteq AttestationPcrList
        BY <2>1, ZenonT(40) DEF Call, Reading
      <4>3. ReadIsCurrent(noisy, pcr')
        BY <3>2, <3>3, <4>1, <4>2 DEF Unhurt, ReadIsCurrent
      <4>4. c.retries <= c.noise /\ c.retries \in Nat /\ c.noise \in Nat
        BY <2>1, <4>1 DEF Unhurt, Call
      <4>5. noisy.retries <= noisy.noise /\ noisy.retries < noisy.noise
        BY <3>2, <4>4
      <4>6. ParamsAreCurrent(c, pcr, boot) => ParamsAreCurrent(noisy, pcr', boot')
        BY <1>1, <3>2, <3>4 DEF ParamsAreCurrent
      <4> QED
        BY <3>2, <3>4, <4>1, <4>3, <4>5, <4>6 DEF Unhurt
    <3> QED
      BY <2>4, <3>1, <3>2, <3>5 DEF Settled, Absorbed
  <2> QED
    BY <2>2, <2>3, <2>4
<1> QED
  BY <1>2 DEF NoiseInv

\* NoiseInv holds throughout.
THEOREM NoiseInvariant == Spec => []NoiseInv
<1>1. \A bank, seed : Settled(Idle, bank, seed)
  BY HurtIsSettled DEF Idle
<1>2. Init => NoiseInv
  BY <1>1 DEF Init, NoiseInv
<1>3. BoundInv /\ NoiseInv /\ [Next]_vars => NoiseInv'
  <2> SUFFICES ASSUME BoundInv, NoiseInv, [Next]_vars PROVE NoiseInv'
    OBVIOUS
  <2>1. CASE Reboot
    BY <1>1, <2>1 DEF Reboot, NoiseInv
  <2>2. CASE \E p \in Procs : Start(p) \/ Step(p)
    BY <2>2, GatherNoise, DecryptNoise DEF Start, Step, Advance
  <2>3. CASE \E i \in Pcr : Extend(i)
    BY <2>3, ExtendNoise
  <2>4. CASE UNCHANGED vars
    BY <2>4 DEF vars, NoiseInv
  <2> QED
    BY <2>1, <2>2, <2>3, <2>4 DEF Next
<1> QED
  BY <1>2, <1>3, BoundInvariant, PTL DEF Spec

\* A call of Attest() that met no error and no change of an attested PCR only
\* fails on bad input or after more unrelated extends than it may retry, for
\* every limit on retries.
THEOREM RetriesSuffice == Spec => []RetriesAbsorbNoise
<1>1. NoiseInv => RetriesAbsorbNoise
  BY DEF NoiseInv, Settled, Absorbed, RetriesAbsorbNoise
<1> QED
  BY <1>1, NoiseInvariant, PTL

-----------------------------------------------------------------------------
(***************************************************************************)
(* Attest implements AttestPromise: every step of a call, of the machine   *)
(* or of the TPM is, seen from outside, a step of the promise or nothing   *)
(* at all.  And the converse that the promise leaves open: a Decrypt()     *)
(* that nothing interfered with opens what the machine may open.           *)
(***************************************************************************)

(* The refinement, step by step *)

\* A call that moves without handing anything out: its caller's output is as it
\* was, or cleared
LEMMA QuietStepRefines ==
  ASSUME BoundInv, NEW p \in Procs, NEW d, Goto(p, d), d.output \in {NoOutput, call[p].output}
  PROVE  [Promise!Next]_(Promise!vars)
<1>1. /\ UNCHANGED <<boot, pcr, jwts>> /\ call' = [call EXCEPT ![p] = d]
      /\ call \in [Procs -> Call]
  BY DEF Goto, BoundInv, TypeOK
<1>2. [q \in Procs |-> call'[q].output] = [[q \in Procs |-> call[q].output] EXCEPT ![p] = d.output]
  BY <1>1
<1>3. Attested(pcr') = Attested(pcr)
  BY <1>1 DEF Attested
<1>4. CASE d.output = call[p].output
  <2>1. [q \in Procs |-> call'[q].output] = [q \in Procs |-> call[q].output]
    BY <1>1, <1>4
  <2> QED
    BY <1>1, <1>3, <2>1 DEF Promise!vars
<1>5. CASE d.output = NoOutput
  <2>1. Promise!Clear(p)
    BY <1>1, <1>2, <1>3, <1>5 DEF Promise!Clear, Promise!Deliver
  <2> QED
    BY <2>1 DEF Promise!Next
<1> QED
  BY <1>4, <1>5

\* A successful RsaDecrypt issues a token for the machine as it is, or opens
\* data of a token that was issued for it
LEMMA ReleaseRefines ==
  ASSUME BoundInv, NEW p \in Procs, RsaDecrypt(p), Works(call[p])
  PROVE  Promise!Next
<1> DEFINE c == call[p]
           out == [kind |-> IF c.op = "Attest" THEN "jwt" ELSE "data", key |-> CurrentKey]
           new == [key |-> CurrentKey, pcrs |-> Attested(pcr), isolation |-> c.params.isolation]
           r == Returned(c, "SUCCESS", out)
<1>1. /\ call' = [call EXCEPT ![p] = r] /\ r.output = out
      /\ c.op \in {"Attest", "Decrypt"} /\ UNCHANGED <<boot, pcr>>
      /\ c.op = "Attest" => jwts' = jwts \cup {new}
      /\ c.op = "Decrypt" => jwts' = jwts /\ \E jwt \in jwts : jwt.key = CurrentKey
  BY ReleaseEffect
<1> HIDE DEF r
<1>2. [q \in Procs |-> call'[q].output] = [[q \in Procs |-> call[q].output] EXCEPT ![p] = out]
  BY <1>1 DEF BoundInv, TypeOK
<1>3. Attested(pcr') = Attested(pcr) /\ boot' = boot
  BY <1>1 DEF Attested
<1>4. CASE c.op = "Attest"
  <2>1. out = [kind |-> "jwt", key |-> CurrentKey]
    BY <1>4
  <2>2. {jwt.key : jwt \in jwts'} = {jwt.key : jwt \in jwts} \cup {CurrentKey}
    <3>1. new.key = CurrentKey
      OBVIOUS
    <3> HIDE DEF new
    <3> QED
      BY <1>1, <1>4, <3>1
  <2>3. Promise!Issue(p)
    BY <1>2, <1>3, <2>1, <2>2 DEF Promise!Issue, Promise!Deliver, CurrentKey
  <2> QED
    BY <2>3 DEF Promise!Next
<1>5. CASE c.op = "Decrypt"
  <2>1. out = [kind |-> "data", key |-> CurrentKey]
    BY <1>5
  <2>2. CurrentKey \in {jwt.key : jwt \in jwts} /\ jwts' = jwts
    BY <1>1, <1>5
  <2>3. Promise!Open(p)
    BY <1>2, <1>3, <2>1, <2>2 DEF Promise!Open, Promise!Deliver, CurrentKey
  <2> QED
    BY <2>3 DEF Promise!Next
<1> QED
  BY <1>1, <1>4, <1>5

\* An extend of an attested PCR is a measurement, any other goes unnoticed
LEMMA ExtendRefines ==
  ASSUME BoundInv, NEW i \in Pcr, Extend(i)
  PROVE  [Promise!Next]_(Promise!vars)
<1>1. /\ pcr' = [pcr EXCEPT ![i] = pcr[i] + 1] /\ UNCHANGED <<boot, jwts>>
      /\ pcr \in [Pcr -> Digest]
  BY DEF Extend, BoundInv, TypeOK
<1>2. \A j \in Pcr : pcr[j] \in Nat
  BY <1>1 DEF Digest
<1>3. [q \in Procs |-> call'[q].output] = [q \in Procs |-> call[q].output]
  BY ExtendQuiet
<1>4. CASE i \in AttestationPcrList
  <2>1. /\ DOMAIN Attested(pcr) = AttestationPcrList /\ DOMAIN Attested(pcr') = AttestationPcrList
        /\ \A j \in AttestationPcrList : Attested(pcr)[j] <= Attested(pcr')[j]
        /\ Attested(pcr)[i] # Attested(pcr')[i]
    <3>1. \A j \in AttestationPcrList : /\ j \in Pcr /\ pcr[j] \in Nat
                                        /\ pcr'[j] = IF j = i THEN pcr[j] + 1 ELSE pcr[j]
      BY <1>1, <1>2, ConstantsAssumption
    <3>2. \A j \in AttestationPcrList : pcr[j] <= pcr'[j]
      BY <3>1
    <3>3. pcr[i] # pcr'[i]
      BY <1>4, <3>1
    <3> QED
      BY <1>4, <3>2, <3>3 DEF Attested
  <2>2. Promise!Grown(Attested(pcr), Attested(pcr'))
    BY <2>1 DEF Promise!Grown
  <2>3. Promise!Measure
    BY <1>1, <1>3, <2>2 DEF Promise!Measure
  <2> QED
    BY <2>3 DEF Promise!Next
<1>5. CASE i \notin AttestationPcrList
  <2>1. Attested(pcr') = Attested(pcr)
    BY <1>1, <1>5 DEF Attested
  <2> QED
    BY <1>1, <1>3, <2>1 DEF Promise!vars
<1> QED
  BY <1>4, <1>5

\* Attest() and Decrypt() keep the promise of AttestPromise: a token is issued,
\* and data is opened, as if in one instant, for the machine state of that
\* instant, whatever happens between the TPM commands
THEOREM PromiseKept == Spec => Implements
<1>1. Init => Promise!Init
  <2> SUFFICES ASSUME Init PROVE Promise!Init
    OBVIOUS
  <2>1. [p \in Procs |-> call[p].output] = [p \in Procs |-> NoOutput]
    BY DEF Init, Idle
  <2>2. {jwt.key : jwt \in jwts} = {} /\ boot = 1
    BY DEF Init
  <2> QED
    BY <2>1, <2>2 DEF Promise!Init
<1>2. BoundInv /\ [Next]_vars => [Promise!Next]_(Promise!vars)
  <2> SUFFICES ASSUME BoundInv, [Next]_vars PROVE [Promise!Next]_(Promise!vars)
    OBVIOUS
  <2>1. ASSUME NEW p \in Procs, Start(p) \/ Step(p) PROVE [Promise!Next]_(Promise!vars)
    <3>1. CASE RsaDecrypt(p) /\ Works(call[p])
      BY <3>1, ReleaseRefines
    <3>2. CASE ~(RsaDecrypt(p) /\ Works(call[p]))
      BY <2>1, <3>2, QuietStep, QuietStepRefines
    <3> QED
      BY <3>1, <3>2
  <2>2. ASSUME NEW i \in Pcr, Extend(i) PROVE [Promise!Next]_(Promise!vars)
    BY <2>2, ExtendRefines
  <2>3. CASE Reboot
    <3>1. [p \in Procs |-> call'[p].output] = [p \in Procs |-> NoOutput]
      BY <2>3 DEF Reboot, Idle
    <3>2. boot' = boot + 1 /\ jwts' = jwts
      BY <2>3 DEF Reboot
    <3>3. Promise!Reboot
      BY <3>1, <3>2 DEF Promise!Reboot
    <3> QED
      BY <3>3 DEF Promise!Next
  <2>4. CASE UNCHANGED vars
    <3>1. Attested(pcr') = Attested(pcr)
      BY <2>4 DEF vars, Attested
    <3> QED
      BY <2>4, <3>1 DEF vars, Promise!vars
  <2> QED
    BY <2>1, <2>2, <2>3, <2>4 DEF Next
<1> QED
  BY <1>1, <1>2, BoundInvariant, PTL DEF Spec, Implements, Promise!Spec

-----------------------------------------------------------------------------
(***************************************************************************)
(* Decrypt() has no retries.  While nothing interferes, what it has read   *)
(* is what the PCRs hold and its policy session is fresh, so RSA_Decrypt   *)
(* fails for one reason only: the data is for another machine state.       *)
(***************************************************************************)
Calm(c, bank) ==
  c.op = "Decrypt" /\ c.pc # "idle" /\ ~c.hurt /\ c.noise = 0 =>
    /\ ReadIsCurrent(c, bank)
    /\ c.pc \in {"policy", "rsa_decrypt"} => DOMAIN c.read = AttestationPcrList
    /\ c.pc = "rsa_decrypt" => c.session = bank

CalmInv == \A p \in Procs : Calm(call[p], pcr)

\* The steps of a Decrypt() that runs
LEMMA DecryptSteps ==
  ASSUME BoundInv, NEW p \in Procs, Start(p) \/ Step(p),
         call[p].op = "Decrypt", call[p].pc # "idle"
  PROVE  /\ call[p].pc \in DecryptPc
         /\ GetPCRValues(p) \/ PolicyPcr(p) \/ RsaDecrypt(p) \/ DecryptError(p)
<1>1. Running(call[p]) /\ call[p].pc \in Pc
  BY DEF BoundInv, TypeOK, Call
<1>2. call[p].pc \in DecryptPc
  BY <1>1 DEF Running, Pc, AttestPc, DecryptPc
<1> QED
  BY <1>2 DEF Start, Step, Advance, StartAttest, StartDecrypt, CheckAkCert, GetParameters,
              GetPCRQuote, GetEphemeralKey, SendAttestationRequest, GetTpmInfoError,
              GetTpmInfoPc, DecryptPc

\* A step that changes one call and nothing else
LEMMA GotoCalm ==
  ASSUME BoundInv, CalmInv, NEW p \in Procs, NEW d, Goto(p, d), Calm(d, pcr)
  PROVE  CalmInv'
<1>1. call' = [call EXCEPT ![p] = d] /\ pcr' = pcr /\ call \in [Procs -> Call]
  BY DEF Goto, BoundInv, TypeOK
<1>2. ASSUME NEW q \in Procs PROVE Calm(call'[q], pcr')
  <2>1. call'[q] = IF q = p THEN d ELSE call[q]
    BY <1>1
  <2> QED
    BY <1>1, <2>1 DEF CalmInv
<1> QED
  BY <1>2 DEF CalmInv

\* What a running Decrypt() may do when nothing interfered with it
LEMMA DecryptOutcome ==
  ASSUME BoundInv, CalmInv, NEW p \in Procs, Start(p) \/ Step(p),
         call[p].op = "Decrypt", call[p].pc # "idle"
  PROVE  /\ CalmInv'
         /\ call'[p].pc = "idle" /\ ~call'[p].hurt /\ call'[p].noise = 0 =>
              (call'[p].result = "SUCCESS" <=> call[p].token = CurrentKey)
<1> DEFINE c == call[p]
           Told(d) == d.pc = "idle" /\ ~d.hurt /\ d.noise = 0 =>
                        (d.result = "SUCCESS" <=> c.token = CurrentKey)
<1>1. /\ c \in Call /\ CallOK(c) /\ CallOK(Disturbed(c)) /\ Calm(c, pcr)
      /\ call \in [Procs -> Call] /\ pcr \in [Pcr -> Digest] /\ c.read \in Reading
  BY CallIsGood, DisturbedType DEF Good, CallOK, CalmInv, BoundInv, TypeOK, Call
<1> SUFFICES CalmInv' /\ Told(call'[p])
  OBVIOUS
<1>2. ASSUME NEW d, Goto(p, d), Calm(d, pcr), Told(d) PROVE CalmInv' /\ Told(call'[p])
  <2>1. call'[p] = d
    BY <1>1, <1>2 DEF Goto
  <2> QED
    BY <1>2, <2>1, GotoCalm
<1>3. ASSUME NEW d, d.pc = "idle" PROVE Calm(d, pcr)
  BY <1>3 DEF Calm
<1>4. CASE GetPCRValues(p)
  <2> DEFINE values == PopulateCurrentPcrs(c.read, pcr)
             after == IF c.pc = "pcr_values" THEN "key" ELSE "policy"
             to == IF AllPcrsRead(values) THEN after ELSE c.pc
             d == [c EXCEPT !.read = values, !.pc = to]
  <2>1. Goto(p, d) /\ c.pc = "decrypt_pcrs"
    BY <1>4, DecryptSteps DEF GetPCRValues, DecryptPc
  <2>2. /\ d.pc = to /\ d.op = c.op /\ d.hurt = c.hurt /\ d.noise = c.noise /\ d.read = values
    BY <1>1 DEF Call
  <2>3. to \in {"decrypt_pcrs", "policy"} /\ (to = "policy" => DOMAIN values = AttestationPcrList)
    BY <2>1 DEF AllPcrsRead
  <2>4. ReadIsCurrent(c, pcr) => \A i \in DOMAIN values : values[i] = pcr[i]
    BY <1>1, PopulateIsCurrent DEF ReadIsCurrent
  <2> HIDE DEF to, values, d
  <2>5. Calm(d, pcr)
    BY <1>1, <2>1, <2>2, <2>3, <2>4 DEF Calm, ReadIsCurrent
  <2>6. Told(d)
    BY <2>2, <2>3
  <2> HIDE DEF Told
  <2> QED
    BY <1>2, <2>1, <2>5, <2>6
<1>5. ASSUME ~c.hurt, c.noise = 0, c.pc \in {"policy", "rsa_decrypt"}
      PROVE  c.read = Attested(pcr) /\ (c.pc = "rsa_decrypt" => c.session = pcr)
  BY <1>1, <1>5, FullReading DEF Calm
<1>6. ASSUME NEW code \in ErrorCode
      PROVE  LET d == DecryptFailed(c, code)
             IN  /\ d.pc = "idle" /\ d.hurt = c.hurt /\ d.noise = c.noise
                 /\ d.result # "SUCCESS"
  <2>1. code # "SUCCESS"
    BY DEF ErrorCode
  <2> QED
    BY <2>1 DEF DecryptFailed, Failed, Returned, Idle
<1>7. CASE PolicyPcr(p)
  <2> DEFINE d == [c EXCEPT !.pc = "rsa_decrypt", !.session = pcr]
  <2>1. c.pc = "policy"
    BY <1>7 DEF PolicyPcr
  <2>2. CASE PolicyPcrMatches(c.read, pcr)
    <3>1. /\ d.pc = "rsa_decrypt" /\ d.op = c.op /\ d.hurt = c.hurt /\ d.noise = c.noise
          /\ d.read = c.read /\ d.session = pcr
      BY <1>1 DEF Call
    <3>2. Goto(p, d)
      BY <1>7, <2>2 DEF PolicyPcr
    <3> HIDE DEF d
    <3>3. Calm(d, pcr) /\ Told(d)
      BY <1>1, <2>1, <3>1 DEF Calm, ReadIsCurrent
    <3> HIDE DEF Told
    <3> QED
      BY <1>2, <3>2, <3>3
  <2>3. CASE ~PolicyPcrMatches(c.read, pcr)
    <3>1. PICK code \in ErrorCode : Goto(p, DecryptFailed(c, code))
      BY <1>7, <2>3, DecryptErrorsType DEF PolicyPcr
    <3>2. ~(~c.hurt /\ c.noise = 0)
      BY <1>5, <2>1, <2>3 DEF PolicyPcrMatches
    <3>3. Told(DecryptFailed(c, code)) /\ DecryptFailed(c, code).pc = "idle"
      BY <1>6, <3>2
    <3> HIDE DEF Told
    <3> QED
      BY <1>2, <1>3, <3>1, <3>3
  <2> QED
    BY <2>2, <2>3
<1>8. CASE RsaDecrypt(p)
  <2>1. CASE Works(c)
    <3> DEFINE out == [kind |-> IF c.op = "Attest" THEN "jwt" ELSE "data", key |-> CurrentKey]
               d == Returned(c, "SUCCESS", out)
    <3>1. /\ call' = [call EXCEPT ![p] = d] /\ pcr' = pcr /\ c.token = CurrentKey
      BY <1>8, <2>1, ReleaseEffect
    <3>2. d.pc = "idle" /\ d.result = "SUCCESS"
      BY DEF Returned, Idle
    <3> HIDE DEF d
    <3>3. ASSUME NEW q \in Procs PROVE Calm(call'[q], pcr')
      <4>1. call'[q] = IF q = p THEN d ELSE call[q]
        BY <1>1, <3>1
      <4> QED
        BY <1>3, <3>1, <3>2, <4>1 DEF CalmInv
    <3>4. call'[p] = d
      BY <1>1, <3>1
    <3> QED
      BY <3>1, <3>2, <3>3, <3>4 DEF CalmInv
  <2>2. CASE ~Works(c)
    <3>1. PICK code \in ErrorCode : Goto(p, DecryptFailed(c, code)) /\ c.pc = "rsa_decrypt"
      BY <1>8, <2>2, DecryptErrorsType DEF RsaDecrypt, Works
    <3>2. ~c.hurt /\ c.noise = 0 => c.token # CurrentKey
      BY <1>5, <2>2, <3>1 DEF Works, RsaDecryptWorks, CreateEphemeralKey, CurrentKey
    <3>3. Told(DecryptFailed(c, code)) /\ DecryptFailed(c, code).pc = "idle"
      BY <1>6, <3>2
    <3> HIDE DEF Told
    <3> QED
      BY <1>2, <1>3, <3>1, <3>3
  <2> QED
    BY <2>1, <2>2
<1>9. CASE DecryptError(p)
  <2>1. PICK code \in ErrorCode : Goto(p, DecryptFailed(Disturbed(c), code))
    BY <1>9, DecryptErrorsType DEF DecryptError
  <2>2. Disturbed(c).hurt = TRUE /\ Disturbed(c).op = "Decrypt"
    BY <1>1 DEF Disturbed, Call
  <2>3. DecryptFailed(Disturbed(c), code).pc = "idle" /\ DecryptFailed(Disturbed(c), code).hurt = TRUE
    BY <2>2 DEF DecryptFailed, Failed, Returned, Idle
  <2>4. Told(DecryptFailed(Disturbed(c), code))
    BY <2>3
  <2> HIDE DEF Told
  <2> QED
    BY <1>2, <1>3, <2>1, <2>3, <2>4
<1> QED
  BY <1>4, <1>7, <1>8, <1>9, DecryptSteps

\* The other steps of a call: only StartDecrypt makes a Decrypt() run
LEMMA OtherStepsCalm ==
  ASSUME BoundInv, CalmInv, NEW p \in Procs, Start(p) \/ Step(p),
         ~(call[p].op = "Decrypt" /\ call[p].pc # "idle")
  PROVE  CalmInv'
<1> DEFINE c == call[p]
<1>1. ASSUME NEW d, d.pc = "idle" \/ d.op # "Decrypt" PROVE Calm(d, pcr)
  BY <1>1 DEF Calm
<1>2. CASE StartAttest(p)
  <2>1. [Idle EXCEPT !.op = "Attest", !.pc = "ak_cert"].op # "Decrypt"
    BY DEF Idle
  <2>2. \A code : Failed([Idle EXCEPT !.op = "Attest"], code).pc = "idle"
    BY DEF Failed, Returned, Idle
  <2>3. PICK d : Goto(p, d) /\ (d.pc = "idle" \/ d.op # "Decrypt")
    BY <1>2, <2>1, <2>2 DEF StartAttest
  <2> QED
    BY <1>1, <2>3, GotoCalm
<1>3. CASE StartDecrypt(p)
  <2> DEFINE first(k) == [Idle EXCEPT !.op = "Decrypt", !.pc = "decrypt_pcrs", !.token = k]
  <2>1. \A k : first(k).read = NoPcrs /\ first(k).pc = "decrypt_pcrs" /\ DOMAIN NoPcrs = {}
    BY DEF Idle, NoPcrs
  <2>2. \A k : Calm(first(k), pcr)
    BY <2>1 DEF Calm, ReadIsCurrent
  <2>3. \A code : Failed([Idle EXCEPT !.op = "Decrypt"], code).pc = "idle"
    BY DEF Failed, Returned, Idle
  <2> HIDE DEF first
  <2>4. \/ \E k : Goto(p, first(k))
        \/ \E code : Goto(p, Failed([Idle EXCEPT !.op = "Decrypt"], code))
    BY <1>3 DEF StartDecrypt, first
  <2> QED
    BY <1>1, <2>2, <2>3, <2>4, GotoCalm
<1>4. CASE Step(p)
  <2>1. c.pc # "idle" /\ c.op # "Decrypt"
    BY <1>4 DEF Step, Advance, CheckAkCert, GetParameters, GetPCRQuote, GetPCRValues,
                GetEphemeralKey, SendAttestationRequest, PolicyPcr, RsaDecrypt,
                GetTpmInfoError, DecryptError, GetTpmInfoPc, DecryptPc
  <2>2. CASE ~(RsaDecrypt(p) /\ Works(c))
    <3>1. PICK d : Goto(p, d) /\ d.op = c.op
      BY <2>1, <2>2, QuietStep
    <3> QED
      BY <1>1, <2>1, <3>1, GotoCalm
  <2>3. CASE RsaDecrypt(p) /\ Works(c)
    <3>1. PICK out : call' = [call EXCEPT ![p] = Returned(c, "SUCCESS", out)] /\ pcr' = pcr
      BY <2>3, ReleaseEffect
    <3>2. Returned(c, "SUCCESS", out).pc = "idle"
      BY DEF Returned, Idle
    <3>3. ASSUME NEW q \in Procs PROVE Calm(call'[q], pcr')
      <4>1. call'[q] = IF q = p THEN Returned(c, "SUCCESS", out) ELSE call[q]
        BY <3>1 DEF BoundInv, TypeOK
      <4> QED
        BY <1>1, <3>1, <3>2, <4>1 DEF CalmInv
    <3> QED
      BY <3>3 DEF CalmInv
  <2> QED
    BY <2>2, <2>3
<1> QED
  BY <1>2, <1>3, <1>4 DEF Start

\* An extend is an interference, whichever PCR it is of
LEMMA ExtendCalm ==
  ASSUME BoundInv, CalmInv, NEW i \in Pcr, Extend(i)
  PROVE  CalmInv'
<1>1. ASSUME NEW q \in Procs PROVE Calm(call'[q], pcr')
  <2> DEFINE c == call[q]
             noisy == [c EXCEPT !.noise = @ + 1, !.calm = FALSE]
  <2>1. c \in Call
    BY DEF BoundInv, TypeOK
  <2>2. noisy.noise = c.noise + 1 /\ c.noise \in Nat
    BY <2>1 DEF Call
  <2>3. noisy.noise # 0
    BY <2>2
  <2>4. Disturbed(c).hurt = TRUE
    BY <2>1 DEF Disturbed, Call
  <2>5. call'[q].pc = c.pc
    BY ExtendQuiet
  <2>6. c.pc # "idle" => call'[q] \in {Disturbed(c), noisy}
    BY DEF Extend
  <2> HIDE DEF noisy
  <2> QED
    BY <2>3, <2>4, <2>5, <2>6 DEF Calm
<1> QED
  BY <1>1 DEF CalmInv

\* CalmInv holds throughout
THEOREM CalmInvariant == Spec => []CalmInv
<1>1. \A bank : Calm(Idle, bank)
  BY DEF Idle, Calm
<1>2. Init => CalmInv
  BY <1>1 DEF Init, CalmInv
<1>3. BoundInv /\ CalmInv /\ [Next]_vars => CalmInv'
  <2> SUFFICES ASSUME BoundInv, CalmInv, [Next]_vars PROVE CalmInv'
    OBVIOUS
  <2>1. CASE Reboot
    BY <1>1, <2>1 DEF Reboot, CalmInv
  <2>2. CASE \E p \in Procs : Start(p) \/ Step(p)
    BY <2>2, DecryptOutcome, OtherStepsCalm
  <2>3. CASE \E i \in Pcr : Extend(i)
    BY <2>3, ExtendCalm
  <2>4. CASE UNCHANGED vars
    BY <2>4 DEF vars, CalmInv
  <2> QED
    BY <2>1, <2>2, <2>3, <2>4 DEF Next
<1> QED
  BY <1>2, <1>3, BoundInvariant, PTL DEF Spec

\* CurrentDataOpens, of one step
OpensStep ==
  \A p \in Procs :
    /\ call[p].op = "Decrypt" /\ call[p].pc # "idle" /\ call'[p].pc = "idle"
    /\ boot' = boot /\ ~call'[p].hurt /\ call'[p].noise = 0
    => (call'[p].result = "SUCCESS" <=> call[p].token = CurrentKey)

\* A Decrypt() that nothing interfered with succeeds exactly when its data is
\* for the machine as it is, whoever obtained the token and however long ago
THEOREM CurrentOpens == Spec => CurrentDataOpens
<1>1. BoundInv /\ CalmInv /\ [Next]_vars => OpensStep
  <2> SUFFICES ASSUME BoundInv, CalmInv, [Next]_vars, NEW p \in Procs,
                      call[p].op = "Decrypt", call[p].pc # "idle", call'[p].pc = "idle",
                      boot' = boot, ~call'[p].hurt, call'[p].noise = 0
               PROVE  call'[p].result = "SUCCESS" <=> call[p].token = CurrentKey
    BY DEF OpensStep
  <2>1. ~Reboot
    BY DEF Reboot, BoundInv, TypeOK
  <2>2. \A i \in Pcr : ~Extend(i)
    BY ExtendQuiet
  <2>3. ~UNCHANGED vars
    BY DEF vars
  <2>4. PICK q \in Procs : Start(q) \/ Step(q)
    BY <2>1, <2>2, <2>3 DEF Next
  <2>5. q = p
    <3>1. \E d : call' = [call EXCEPT ![q] = d]
      <4>1. CASE RsaDecrypt(q) /\ Works(call[q])
        BY <4>1, ReleaseEffect
      <4>2. CASE ~(RsaDecrypt(q) /\ Works(call[q]))
        BY <2>4, <4>2, QuietStep DEF Goto
      <4> QED
        BY <4>1, <4>2
    <3> QED
      BY <3>1 DEF BoundInv, TypeOK
  <2> QED
    BY <2>4, <2>5, DecryptOutcome
<1>2. BoundInv /\ CalmInv /\ [Next]_vars => [OpensStep]_vars
  BY <1>1
<1> QED
  BY <1>2, BoundInvariant, CalmInvariant, PTL DEF Spec, CurrentDataOpens, OpensStep
=============================================================================
