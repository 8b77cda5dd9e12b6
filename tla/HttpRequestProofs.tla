------------------------- MODULE HttpRequestProofs -------------------------
(***************************************************************************)
(* Proofs about HttpRequest, for every number of retries, every set of     *)
(* status codes and of Retry-After values, and bodies of any length.       *)
(***************************************************************************)
EXTENDS HttpRequest, FiniteSetTheorems, FunctionTheorems, TLAPS

-----------------------------------------------------------------------------
(* Powers of two and maxima *)

\* A power of two is a natural number: it counts the subsets of 1..n
LEMMA PowerType == ASSUME NEW n \in Nat PROVE 2^n \in Nat
<1>1. IsFiniteSet(1..n) /\ Cardinality(1..n) = n
  BY FS_Interval
<1>2. IsFiniteSet(SUBSET (1..n)) /\ Cardinality(SUBSET (1..n)) = 2^n
  BY <1>1, FS_SUBSET
<1> QED
  BY <1>2, FS_CardinalityType

\* One more doubles it: of the subsets of 1..n+1, as many hold n+1 as do not
LEMMA PowerDoubles == ASSUME NEW n \in Nat PROVE 2^(n + 1) = 2 * 2^n
<1> DEFINE A == 1..n
           S == SUBSET A
           T == {B \cup {n + 1} : B \in S}
           f == [B \in S |-> B \cup {n + 1}]
<1>1. IsFiniteSet(A) /\ Cardinality(A) = n /\ n + 1 \notin A
  BY FS_Interval
<1>2. IsFiniteSet(A \cup {n + 1}) /\ Cardinality(A \cup {n + 1}) = n + 1
  BY <1>1, FS_AddElement
<1> HIDE DEF A
<1>3. IsFiniteSet(S) /\ Cardinality(S) = 2^n
  BY <1>1, FS_SUBSET
<1>4. Cardinality(SUBSET (A \cup {n + 1})) = 2^(n + 1)
  BY <1>2, FS_SUBSET
<1>5. ExistsBijection(S, T)
  <2>1. f \in [S -> T]
    OBVIOUS
  <2>2. \A B, C \in S : f[B] = f[C] => B = C
    <3> SUFFICES ASSUME NEW B \in S, NEW C \in S, B \cup {n + 1} = C \cup {n + 1}
                 PROVE  B = C
      OBVIOUS
    <3> QED
      BY <1>1
  <2>3. \A D \in T : \E B \in S : f[B] = D
    OBVIOUS
  <2>4. f \in Bijection(S, T)
    <3> HIDE DEF f, S, T
    <3> QED
      BY <2>1, <2>2, <2>3, Fun_IsBij
  <2> QED
    BY <2>4 DEF ExistsBijection
<1>6. IsFiniteSet(T) /\ Cardinality(T) = 2^n
  <2> HIDE DEF S, T
  <2> QED
    BY <1>3, <1>5, FS_Bijection
<1>7. SUBSET (A \cup {n + 1}) = S \cup T /\ S \cap T = {}
  <2>1. ASSUME NEW B \in SUBSET (A \cup {n + 1}) PROVE B \in S \cup T
    <3>1. CASE n + 1 \notin B
      BY <3>1
    <3>2. CASE n + 1 \in B
      <4>1. B \ {n + 1} \in S /\ B = (B \ {n + 1}) \cup {n + 1}
        BY <3>2
      <4> QED
        BY <4>1
    <3> QED
      BY <3>1, <3>2
  <2>2. S \cup T \subseteq SUBSET (A \cup {n + 1})
    OBVIOUS
  <2>3. S \cap T = {}
    BY <1>1
  <2> QED
    BY <2>1, <2>2, <2>3
<1>8. Cardinality(S \cup T) = Cardinality(S) + Cardinality(T) - Cardinality(S \cap T)
  <2> HIDE DEF S, T
  <2> QED
    BY <1>3, <1>6, FS_Union
<1>9. Cardinality(S \cap T) = 0
  BY <1>7, FS_EmptySet
<1>10. 2^(n + 1) = Cardinality(S \cup T)
  BY <1>4, <1>7
<1> HIDE DEF S, T
<1> QED
  BY <1>3, <1>6, <1>8, <1>9, <1>10, PowerType

\* Max of two numbers is one of them and at least as large as both
LEMMA MaxOfTwo ==
  ASSUME NEW a \in Nat, NEW b \in Nat
  PROVE  Max({a, b}) \in {a, b} /\ Max({a, b}) >= a /\ Max({a, b}) >= b
<1>1. \E x \in {a, b} : \A y \in {a, b} : x >= y
  <2>1. CASE a >= b
    BY <2>1
  <2>2. CASE ~(a >= b)
    BY <2>2
  <2> QED
    BY <2>1, <2>2
<1>2. Max({a, b}) \in {a, b} /\ \A y \in {a, b} : Max({a, b}) >= y
  BY <1>1 DEF Max
<1> QED
  BY <1>2

-----------------------------------------------------------------------------
(***************************************************************************)
(* The inductive invariant.  While the loop runs, the response string      *)
(* holds pieces of the attempt under way only, every earlier attempt ended *)
(* with a status that allows a retry, and there was one per retry.  The    *)
(* waits are given in closed form, from which the doubling follows.        *)
(***************************************************************************)
Result == {"SUCCESS", "ERROR_ATTESTATION_FAILED", "ERROR_HTTP_REQUEST_FAILED",
           "ERROR_HTTP_REQUEST_EXCEEDED_RETRIES", "ERROR_EMPTY_RESPONSE",
           "ERROR_SENDING_CURL_REQUEST_FAILED", "ERROR_CURL_INITIALIZATION",
           "ERROR_EMPTY_REQUEST_BODY"}

Retryable(s) == \A k \in DOMAIN s : Transient(api, s[k])

\* The wait after n retries, whatever the loop
Wait(n, seconds) ==
  IF api = "SendRequest" THEN seconds \in {5 * 2^n} \cup RetryAfter /\ seconds >= 5 * 2^n
  ELSE seconds = 30 * 2^n

Waits == \A k \in 1..retries : Wait(k-1, waits[k])

InLoop == /\ result = "SUCCESS" /\ http_response = <<>>
          /\ Len(statuses) = retries
          /\ Retryable(statuses)
          /\ \A k \in DOMAIN response : response[k] = retries

Inv == /\ TypeOK
       /\ Waits
       /\ pc # "done" => InLoop
       /\ OnlyTheLastBody
       /\ GivesUpAfterAllRetries

\* The loop goes back to curl_easy_perform, after a back-off it may take
LEMMA RetryInv ==
  ASSUME Inv, pc = "perform", retries # MaxRetries,
         NEW status \in Statuses, Transient(api, status),
         statuses' = Append(statuses, status), UNCHANGED api,
         NEW seconds \in Nat, Wait(retries, seconds), Retry(seconds)
  PROVE  Inv'
<1>1. /\ api \in Api /\ retries \in Nat /\ retries < MaxRetries /\ MaxRetries \in Nat
      /\ waits \in Seq(Nat) /\ Len(waits) = retries
      /\ statuses \in Seq(Statuses) /\ Len(statuses) = retries /\ Retryable(statuses)
      /\ result = "SUCCESS" /\ http_response = <<>> /\ Waits
  BY ConstantsAssumption DEF Inv, TypeOK, InLoop
<1>2. /\ api' = api /\ pc' = "sleep" /\ retries' = retries + 1 /\ response' = <<>>
      /\ waits' = Append(waits, seconds)
      /\ result' = "SUCCESS" /\ http_response' = <<>>
  BY <1>1 DEF Retry
<1>3. statuses' \in Seq(Statuses) /\ Len(statuses') = retries' /\ Retryable(statuses)'
  BY <1>1, <1>2 DEF Retryable
<1>4. waits' \in Seq(Nat) /\ Len(waits') = retries'
  BY <1>1, <1>2
<1>5. Waits'
  <2>1. \A k \in 1..retries : waits'[k] = waits[k]
    BY <1>1, <1>2
  <2>2. waits'[retries + 1] = seconds
    BY <1>1, <1>2
  <2>3. \A k \in 1..retries' : k \in 1..retries \/ k = retries + 1
    BY <1>1, <1>2
  <2> QED
    <3> SUFFICES ASSUME NEW k \in 1..retries' PROVE Wait(k - 1, waits[k])'
      BY DEF Waits
    <3>1. CASE k \in 1..retries
      <4>1. Wait(k - 1, waits[k]) /\ waits'[k] = waits[k] /\ api' = api
        BY <1>1, <2>1, <3>1 DEF Waits
      <4> QED
        BY <4>1 DEF Wait
    <3>2. CASE k = retries + 1
      <4>1. k - 1 = retries /\ waits'[k] = seconds /\ api' = api
        BY <1>1, <2>2, <3>2
      <4>2. Wait(retries, seconds)
        OBVIOUS
      <4> QED
        BY <4>1, <4>2 DEF Wait
    <3> QED
      BY <2>3, <3>1, <3>2
<1>6. TypeOK'
  BY <1>1, <1>2, <1>3, <1>4 DEF TypeOK
<1>7. InLoop'
  BY <1>2, <1>3 DEF InLoop
<1> QED
  BY <1>2, <1>3, <1>5, <1>6, <1>7 DEF Inv, OnlyTheLastBody, GivesUpAfterAllRetries, Retryable

\* The loop is left once an attempt has ended with a status
LEMMA ReturnInv ==
  ASSUME Inv, pc = "perform", NEW status \in Statuses,
         statuses' = Append(statuses, status), UNCHANGED api,
         NEW code \in Result, NEW body \in {<<>>, response}, Return(code, body),
         body # <<>> => status = 200,
         code = "ERROR_HTTP_REQUEST_EXCEEDED_RETRIES" =>
           retries = MaxRetries /\ Transient(api, status),
         Transient(api, status) => retries = MaxRetries
  PROVE  Inv'
<1>1. /\ TypeOK /\ Waits /\ InLoop /\ MaxRetries \in Nat
  BY ConstantsAssumption DEF Inv
<1>2. /\ UNCHANGED <<api, retries, response, waits>>
      /\ pc' = "done" /\ result' = code /\ http_response' = body
  BY DEF Return
<1>3. /\ statuses' \in Seq(Statuses) /\ Len(statuses') = retries + 1
      /\ statuses'[retries + 1] = status
      /\ \A k \in 1..retries : Transient(api, statuses[k]) /\ statuses'[k] = statuses[k]
      /\ DOMAIN statuses' = 1..(retries + 1)
  <2>1. /\ statuses \in Seq(Statuses) /\ Len(statuses) = retries /\ retries \in Nat
        /\ \A k \in DOMAIN statuses : Transient(api, statuses[k])
    BY <1>1 DEF TypeOK, InLoop, Retryable
  <2>2. /\ statuses' \in Seq(Statuses) /\ Len(statuses') = retries + 1
        /\ statuses'[retries + 1] = status
        /\ \A k \in 1..retries : statuses'[k] = statuses[k]
    BY <2>1
  <2>3. DOMAIN statuses = 1..retries /\ DOMAIN statuses' = 1..(retries + 1)
    BY <2>1, <2>2
  <2> QED
    BY <2>1, <2>2, <2>3
<1>4. TypeOK'
  <2>1. <<>> \in Seq(0..MaxRetries) /\ response \in Seq(0..MaxRetries)
    BY <1>1 DEF TypeOK
  <2> QED
    BY <1>1, <1>2, <1>3, <2>1 DEF TypeOK, Result
<1>5. Waits'
  BY <1>1, <1>2 DEF Waits, Wait
<1>6. OnlyTheLastBody'
  BY <1>1, <1>2, <1>3 DEF OnlyTheLastBody, InLoop
<1>7. GivesUpAfterAllRetries'
  <2>1. /\ retries \in Nat
        /\ \A k \in DOMAIN statuses' : k <= retries => Transient(api, statuses'[k])
        /\ Transient(api, status) => \A k \in DOMAIN statuses' : Transient(api, statuses'[k])
    BY <1>1, <1>2, <1>3 DEF TypeOK
  <2> QED
    BY <1>1, <1>2, <1>3, <2>1 DEF GivesUpAfterAllRetries
<1> QED
  BY <1>2, <1>4, <1>5, <1>6, <1>7 DEF Inv

\* A retry, or giving up once MAX_RETRIES is reached
LEMMA RetryOrGiveUpInv ==
  ASSUME Inv, pc = "perform",
         NEW status \in Statuses, Transient(api, status),
         statuses' = Append(statuses, status), UNCHANGED api,
         NEW code \in Result,
         NEW seconds \in Nat, Wait(retries, seconds), RetryOrGiveUp(code, seconds)
  PROVE  Inv'
<1>1. CASE retries = MaxRetries
  BY <1>1, ReturnInv DEF RetryOrGiveUp
<1>2. CASE retries # MaxRetries
  BY <1>2, RetryInv DEF RetryOrGiveUp
<1> QED
  BY <1>1, <1>2

\* The loop is left without a status: a set-up or transfer error
LEMMA FailInv ==
  ASSUME Inv, pc # "done", UNCHANGED <<api, statuses>>,
         NEW code \in Result \ {"ERROR_HTTP_REQUEST_EXCEEDED_RETRIES"}, Return(code, <<>>)
  PROVE  Inv'
<1>1. Waits'
  BY DEF Inv, Return, Waits, Wait
<1>2. TypeOK'
  BY DEF Inv, Return, TypeOK, Result
<1>3. pc' = "done" /\ OnlyTheLastBody' /\ GivesUpAfterAllRetries'
  BY DEF Return, OnlyTheLastBody, GivesUpAfterAllRetries, Inv, InLoop, Retryable, TypeOK
<1> QED
  BY <1>1, <1>2, <1>3 DEF Inv

\* An attempt ends with a status, in each of the three loops
LEMMA PerformInv ==
  ASSUME Inv, NEW status \in Statuses, NEW after \in RetryAfter, Perform(status, after)
  PROVE  Inv'
<1>1. /\ pc = "perform" /\ statuses' = Append(statuses, status) /\ UNCHANGED api
      /\ status \in Nat /\ after \in Nat /\ retries \in Nat
  BY ConstantsAssumption DEF Perform, Inv, TypeOK
<1>2. /\ {"SUCCESS", "ERROR_ATTESTATION_FAILED", "ERROR_HTTP_REQUEST_FAILED",
          "ERROR_HTTP_REQUEST_EXCEEDED_RETRIES", "ERROR_EMPTY_RESPONSE"} \subseteq Result
  BY DEF Result
<1>3. CASE api = "SendRequest" /\ SendRequest(status, after)
  <2>1. SendRequestBackOff(after) \in Nat /\ Wait(retries, SendRequestBackOff(after))
    <3>1. 5 * 2^retries \in Nat
      BY <1>1, PowerType
    <3> QED
      BY <1>1, <1>3, <3>1, MaxOfTwo DEF SendRequestBackOff, Wait
  <2>2. CASE status = 200
    BY <1>1, <1>2, <1>3, <2>2, ReturnInv DEF SendRequest, Transient
  <2>3. CASE status = 400
    BY <1>1, <1>2, <1>3, <2>3, ReturnInv DEF SendRequest, Transient
  <2>4. CASE status \in {429, 408} \/ status >= 500
    BY <1>1, <1>2, <1>3, <2>1, <2>4, RetryOrGiveUpInv DEF SendRequest, Transient
  <2>5. CASE ~(status \in {200, 400, 429, 408} \/ status >= 500)
    BY <1>1, <1>2, <1>3, <2>5, ReturnInv DEF SendRequest, Transient
  <2> QED
    BY <2>2, <2>3, <2>4, <2>5
<1>4. ASSUME api # "SendRequest"
      PROVE  ImdsBackOff \in Nat /\ Wait(retries, ImdsBackOff)
  <2>1. 30 * 2^retries \in Nat
    BY <1>1, PowerType
  <2> QED
    BY <1>4, <2>1 DEF ImdsBackOff, Wait
<1>5. CASE api = "InvokeHttpImdsRequest" /\ InvokeHttpImdsRequest(status)
  <2>1. CASE status = 200
    <3>1. PICK code \in {"ERROR_EMPTY_RESPONSE", "SUCCESS"} : Return(code, response)
      BY <1>5, <2>1 DEF InvokeHttpImdsRequest, Transient
    <3> QED
      BY <1>1, <1>2, <1>5, <2>1, <3>1, ReturnInv DEF Transient
  <2>2. CASE status \in {404, 429} \/ status >= 500
    BY <1>1, <1>2, <1>4, <1>5, <2>2, RetryOrGiveUpInv DEF InvokeHttpImdsRequest, Transient
  <2>3. CASE ~(status \in {200, 404, 429} \/ status >= 500)
    BY <1>1, <1>2, <1>5, <2>3, ReturnInv DEF InvokeHttpImdsRequest, Transient
  <2> QED
    BY <2>1, <2>2, <2>3
<1>6. CASE api = "InvokeHttpRequest" /\ InvokeHttpRequest(status)
  <2>1. CASE status = 200
    BY <1>1, <1>2, <1>6, <2>1, ReturnInv DEF InvokeHttpRequest, Transient
  <2>2. CASE status \in {404, 429} \/ status >= 500
    BY <1>1, <1>2, <1>4, <1>6, <2>2, RetryOrGiveUpInv DEF InvokeHttpRequest, Transient
  <2>3. CASE ~(status \in {200, 404, 429} \/ status >= 500)
    BY <1>1, <1>2, <1>6, <2>3, ReturnInv DEF InvokeHttpRequest, Transient
  <2> QED
    BY <2>1, <2>2, <2>3
<1> QED
  BY <1>3, <1>5, <1>6 DEF Perform

\* A step that only goes on, from the set-up or a sleep to the next attempt
LEMMA GoOnInv ==
  ASSUME Inv, pc # "done", pc' \in {pc, "perform"},
         UNCHANGED <<api, retries, response, waits, result, http_response, statuses>>
  PROVE  Inv'
<1>1. Waits'
  BY DEF Inv, Waits, Wait
<1>2. InLoop' /\ OnlyTheLastBody' /\ GivesUpAfterAllRetries'
  <2>1. InLoop /\ OnlyTheLastBody /\ GivesUpAfterAllRetries
    BY DEF Inv
  <2>2. InLoop'
    BY <2>1 DEF InLoop, Retryable
  <2> QED
    BY <2>1, <2>2 DEF InLoop, OnlyTheLastBody, GivesUpAfterAllRetries
<1>3. TypeOK'
  BY DEF Inv, TypeOK
<1> QED
  BY <1>1, <1>2, <1>3 DEF Inv

-----------------------------------------------------------------------------
(* The theorems *)

\* The invariant is inductive: every step of the three loops keeps it
THEOREM Invariant == Spec => []Inv
<1>1. Init => Inv
  BY ConstantsAssumption DEF Init, Inv, TypeOK, Waits, InLoop, Retryable, OnlyTheLastBody,
                             GivesUpAfterAllRetries
<1>2. Inv /\ [Next]_vars => Inv'
  <2> SUFFICES ASSUME Inv, [Next]_vars PROVE Inv'
    OBVIOUS
  <2>1. CASE SetUp
    <3>1. CASE pc' = "perform" /\ UNCHANGED <<api, statuses, retries, response, waits, result, http_response>>
      BY <2>1, <3>1, GoOnInv DEF SetUp
    <3>2. CASE \E code \in SetUpErrors : Return(code, <<>>)
      <4>1. SetUpErrors \subseteq Result \ {"ERROR_HTTP_REQUEST_EXCEEDED_RETRIES"}
        <5>1. api \in Api
          BY DEF Inv, TypeOK
        <5> QED
          BY <5>1 DEF Api, SetUpErrors, Result
      <4> QED
        BY <2>1, <3>2, <4>1, FailInv DEF SetUp
    <3> QED
      BY <2>1, <3>1, <3>2 DEF SetUp
  <2>2. CASE WriteResponseCallback
    <3>1. /\ pc = "perform" /\ TypeOK /\ InLoop /\ response' = Append(response, retries)
          /\ UNCHANGED <<api, pc, retries, waits, result, http_response, statuses>>
      BY <2>2 DEF WriteResponseCallback, Inv
    <3>2. /\ response' \in Seq(0..MaxRetries)
          /\ \A k \in DOMAIN response' : response'[k] = retries
      BY <3>1 DEF TypeOK, InLoop
    <3>3. Waits'
      BY <3>1 DEF Inv, Waits, Wait
    <3>4. TypeOK' /\ InLoop'
      BY <3>1, <3>2 DEF TypeOK, InLoop, Retryable
    <3>5. OnlyTheLastBody' /\ GivesUpAfterAllRetries'
      BY <3>1 DEF Inv, InLoop, OnlyTheLastBody, GivesUpAfterAllRetries
    <3> QED
      BY <3>3, <3>4, <3>5 DEF Inv
  <2>3. ASSUME NEW status \in Statuses, NEW after \in RetryAfter, Perform(status, after)
        PROVE  Inv'
    BY <2>3, PerformInv
  <2>4. CASE PerformFails
    BY <2>4, FailInv DEF PerformFails, Result
  <2>5. CASE WakeUp
    BY <2>5, GoOnInv DEF WakeUp
  <2>6. CASE UNCHANGED vars
    <3>1. Waits'
      BY <2>6 DEF vars, Inv, Waits, Wait
    <3>2. TypeOK' /\ (pc' # "done" => InLoop')
      BY <2>6 DEF vars, Inv, TypeOK, InLoop, Retryable
    <3>3. OnlyTheLastBody' /\ GivesUpAfterAllRetries'
      BY <2>6 DEF vars, Inv, OnlyTheLastBody, GivesUpAfterAllRetries
    <3> QED
      BY <3>1, <3>2, <3>3 DEF Inv
  <2> QED
    BY <2>1, <2>2, <2>3, <2>4, <2>5, <2>6 DEF Next, Server, Timeout
<1> QED
  BY <1>1, <1>2, PTL DEF Spec

\* The variables of the loops keep their types; in particular a call retries
\* MAX_RETRIES times at most and slept once per retry
THEOREM TypeCorrect == Spec => []TypeOK
<1>1. Inv => TypeOK
  BY DEF Inv
<1> QED
  BY <1>1, Invariant, PTL

\* The caller gets the body of the last attempt only: no piece appended to the
\* response string by an attempt that was retried is left in it
THEOREM BodyIsTheLast == Spec => []OnlyTheLastBody
<1>1. Inv => OnlyTheLastBody
  BY DEF Inv
<1> QED
  BY <1>1, Invariant, PTL

\* EXCEEDED_RETRIES means 1 + MAX_RETRIES answers, each of which allowed a retry
THEOREM GivesUpInTime == Spec => []GivesUpAfterAllRetries
<1>1. Inv => GivesUpAfterAllRetries
  BY DEF Inv
<1> QED
  BY <1>1, Invariant, PTL

\* The back-off of the IMDS loops starts with 30 seconds and doubles, that of
\* SendRequest is never shorter than its own power of two
THEOREM BackOffDoubles == Spec => []BackOff
<1>1. Inv => BackOff
  <2> SUFFICES ASSUME Inv, NEW k \in DOMAIN waits
               PROVE  IF api = "SendRequest"
                      THEN waits[k] \in {5 * 2^(k-1)} \cup RetryAfter /\ waits[k] >= 5 * 2^(k-1)
                      ELSE waits[k] = IF k = 1 THEN 30 ELSE 2 * waits[k-1]
    BY DEF BackOff
  <2>1. k \in 1..retries /\ retries \in Nat /\ Waits
    BY ConstantsAssumption DEF Inv, TypeOK
  <2>2. CASE api = "SendRequest"
    BY <2>1, <2>2 DEF Waits, Wait
  <2>3. CASE api # "SendRequest" /\ k = 1
    <3>1. waits[k] = 30 * 2^(k-1)
      BY <2>1, <2>3 DEF Waits, Wait
    <3>2. k - 1 = 0 /\ 2^0 = 1
      BY <2>3
    <3>3. waits[k] = 30 * 2^0
      BY <3>1, <3>2
    <3>4. waits[k] = 30
      BY <3>2, <3>3
    <3> QED
      BY <2>3, <3>4
  <2>4. CASE api # "SendRequest" /\ k # 1
    <3>1. k - 1 \in 1..retries /\ k - 2 \in Nat /\ (k - 2) + 1 = k - 1 /\ k - 1 - 1 = k - 2
      BY <2>1, <2>4
    <3>2. waits[k] = 30 * 2^(k-1) /\ waits[k-1] = 30 * 2^(k-2)
      BY <2>1, <2>4, <3>1 DEF Waits, Wait
    <3>3. 2^(k-1) = 2 * 2^(k-2) /\ 2^(k-2) \in Nat
      BY <3>1, PowerDoubles, PowerType
    <3> QED
      BY <2>4, <3>2, <3>3
  <2> QED
    BY <2>2, <2>3, <2>4
<1> QED
  BY <1>1, Invariant, PTL
=============================================================================
