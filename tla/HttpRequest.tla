---------------------------- MODULE HttpRequest ----------------------------
(***************************************************************************)
(* The three loops around curl_easy_perform: curl::SendRequest, which      *)
(* talks to the attestation service, HttpClient::InvokeHttpImdsRequest and *)
(* ImdsClient::InvokeHttpRequest, which talk to IMDS.  One behaviour is    *)
(* one call of one of them.  The body of an answer arrives piece by piece  *)
(* in the write callback, which appends to a string that outlives the      *)
(* attempt; a piece is named by the attempt it belongs to.                 *)
(***************************************************************************)
EXTENDS Naturals, Sequences, FiniteSetsExt

CONSTANTS
  MaxRetries,   \* MAX_RETRIES (3 in the code)
  Statuses,     \* HTTP status codes a server answers with
  RetryAfter,   \* values of a Retry-After header, in seconds; 0 for none
  MaxPieces     \* bound: pieces of one body

ASSUME ConstantsAssumption ==
  /\ MaxRetries \in Nat
  /\ Statuses \subseteq Nat
  /\ RetryAfter \subseteq Nat
  /\ MaxPieces \in Nat

Api == {"SendRequest", "InvokeHttpImdsRequest", "InvokeHttpRequest"}

VARIABLES
  api,            \* the function called
  pc,             \* "start"; "perform": in curl_easy_perform; "sleep"; "done"
  retries,
  response,       \* the string the write callback appends to
  waits,          \* seconds slept before each retry, jitter left out
  result,
  http_response,  \* what the caller gets
  statuses        \* history: the status of every attempt that got one

vars == <<api, pc, retries, response, waits, result, http_response, statuses>>

Init == /\ api \in Api
        /\ pc = "start"
        /\ retries = 0
        /\ response = <<>>
        /\ waits = <<>>
        /\ result = "SUCCESS"
        /\ http_response = <<>>
        /\ statuses = <<>>

-----------------------------------------------------------------------------
(* Ways out of the loop, and around it *)

Return(code, body) == /\ pc' = "done"
                      /\ result' = code
                      /\ http_response' = body
                      /\ UNCHANGED <<retries, response, waits>>

\* Mutant of Retry: what the failed attempt sent stays in the string
RetryKeepingResponse(seconds) ==
  /\ pc' = "sleep"
  /\ retries' = retries + 1
  /\ waits' = Append(waits, seconds)
  /\ UNCHANGED <<response, result, http_response>>

\* Sleep, empty the response string, try again
Retry(seconds) == /\ pc' = "sleep"
                  /\ retries' = retries + 1
                  /\ waits' = Append(waits, seconds)
                  /\ response' = <<>>
                  /\ UNCHANGED <<result, http_response>>

\* Mutant of RetryOrGiveUp: one attempt more
RetryOrGiveUpLate(code, seconds) ==
  IF retries > MaxRetries THEN Return(code, <<>>) ELSE Retry(seconds)

RetryOrGiveUp(code, seconds) ==
  IF retries = MaxRetries THEN Return(code, <<>>) ELSE Retry(seconds)

-----------------------------------------------------------------------------
(* The body of each loop: an attempt ended with a status *)

\* BACK_OFF_TIME_SECONDS * 2^retries, or longer if the service asks for it
SendRequestBackOff(after) == Max({5 * 2^retries, after})

SendRequest(status, after) ==
  CASE status = 200 -> Return("SUCCESS", response)
    [] status = 400 -> Return("ERROR_ATTESTATION_FAILED", <<>>)
    [] status \in {429, 408} \/ status >= 500 ->
         RetryOrGiveUp("ERROR_HTTP_REQUEST_EXCEEDED_RETRIES", SendRequestBackOff(after))
    [] OTHER -> Return("ERROR_HTTP_REQUEST_FAILED", <<>>)

\* Mutant of ImdsBackOff: the exponent is the number of the attempt
ImdsBackOffLate == 30 * 2^(retries + 1)

\* 30 -> 60 -> 120 seconds
ImdsBackOff == 30 * 2^retries

InvokeHttpImdsRequest(status) ==
  CASE status = 200 ->
         Return(IF response = <<>> THEN "ERROR_EMPTY_RESPONSE" ELSE "SUCCESS", response)
    [] status \in {404, 429} \/ status >= 500 ->
         RetryOrGiveUp("ERROR_HTTP_REQUEST_EXCEEDED_RETRIES", ImdsBackOff)
    [] OTHER -> Return("ERROR_HTTP_REQUEST_FAILED", <<>>)

\* ImdsClient's loop only has its response to return, empty if it failed
InvokeHttpRequest(status) ==
  CASE status = 200 -> Return("SUCCESS", response)
    [] status \in {404, 429} \/ status >= 500 -> RetryOrGiveUp("SUCCESS", ImdsBackOff)
    [] OTHER -> Return("SUCCESS", <<>>)

-----------------------------------------------------------------------------
(* Steps *)

\* What a call that cannot be set up returns: curl_easy_init failed, or a POST
\* has no body.  ImdsClient's function returns an empty string.
SetUpErrors ==
  CASE api = "SendRequest" -> {"ERROR_CURL_INITIALIZATION"}
    [] api = "InvokeHttpImdsRequest" -> {"ERROR_CURL_INITIALIZATION", "ERROR_EMPTY_REQUEST_BODY"}
    [] api = "InvokeHttpRequest" -> {"SUCCESS"}

SetUp ==
  /\ pc = "start"
  /\ \/ /\ pc' = "perform"
        /\ UNCHANGED <<retries, response, waits, result, http_response>>
     \/ \E code \in SetUpErrors : Return(code, <<>>)
  /\ UNCHANGED <<api, statuses>>

\* The write callback gets a piece of the body
WriteResponseCallback ==
  /\ pc = "perform"
  /\ Cardinality({k \in DOMAIN response : response[k] = retries}) < MaxPieces
  /\ response' = Append(response, retries)
  /\ UNCHANGED <<api, pc, retries, waits, result, http_response, statuses>>

\* The transfer is complete: curl_easy_perform returns CURLE_OK
Perform(status, after) ==
  /\ pc = "perform"
  /\ statuses' = Append(statuses, status)
  /\ \/ api = "SendRequest" /\ SendRequest(status, after)
     \/ api = "InvokeHttpImdsRequest" /\ InvokeHttpImdsRequest(status)
     \/ api = "InvokeHttpRequest" /\ InvokeHttpRequest(status)
  /\ UNCHANGED api

\* curl_easy_perform fails: no connection, or it breaks
PerformFails ==
  /\ pc = "perform"
  /\ Return(IF api = "InvokeHttpRequest" THEN "SUCCESS"
            ELSE "ERROR_SENDING_CURL_REQUEST_FAILED", <<>>)
  /\ UNCHANGED <<api, statuses>>

\* Mutant of HasTimeout: no CURLOPT_TIMEOUT anywhere
NoTimeout == FALSE

\* Only the IMDS requests set CURLOPT_TIMEOUT
HasTimeout == api # "SendRequest"

Timeout == HasTimeout /\ PerformFails

WakeUp == /\ pc = "sleep"
          /\ pc' = "perform"
          /\ UNCHANGED <<api, retries, response, waits, result, http_response, statuses>>

Server == \/ \E status \in Statuses, after \in RetryAfter : Perform(status, after)
          \/ PerformFails

Next == SetUp \/ WriteResponseCallback \/ Server \/ Timeout \/ WakeUp

Spec == Init /\ [][Next]_vars

\* sleep_for and a timeout curl was given do end; a server need not answer
FairSpec == Spec /\ WF_vars(SetUp) /\ WF_vars(WakeUp) /\ WF_vars(Timeout)

-----------------------------------------------------------------------------
(* What makes the component correct *)

\* The variables are well typed, and there are at most MAX_RETRIES retries
TypeOK ==
  /\ api \in Api
  /\ pc \in {"start", "perform", "sleep", "done"}
  /\ retries \in 0..MaxRetries
  /\ response \in Seq(0..MaxRetries)
  /\ waits \in Seq(Nat) /\ Len(waits) = retries
  /\ result \in {"SUCCESS", "ERROR_ATTESTATION_FAILED", "ERROR_HTTP_REQUEST_FAILED",
                 "ERROR_HTTP_REQUEST_EXCEEDED_RETRIES", "ERROR_EMPTY_RESPONSE",
                 "ERROR_SENDING_CURL_REQUEST_FAILED", "ERROR_CURL_INITIALIZATION",
                 "ERROR_EMPTY_REQUEST_BODY"}
  /\ http_response \in Seq(0..MaxRetries)
  /\ statuses \in Seq(Statuses)

\* The caller gets the body of the last attempt only, complete and with nothing
\* left over from an attempt before it, and only if that attempt ended with 200.
OnlyTheLastBody ==
  pc = "done" /\ http_response # <<>> =>
    /\ \A k \in DOMAIN http_response : http_response[k] = retries
    /\ Len(statuses) = retries + 1
    /\ statuses[retries + 1] = 200

\* The answers a request is repeated for
Transient(function, status) ==
  status \in (IF function = "SendRequest" THEN {408, 429} ELSE {404, 429}) \/ status >= 500

\* A request is repeated only after an answer that may pass, and given up on
\* such an answer only after 1 + MAX_RETRIES of them, in ImdsClient's loop too,
\* which has no verdict of its own; EXCEEDED_RETRIES says nothing else.
GivesUpAfterAllRetries ==
  /\ \A k \in DOMAIN statuses : k <= retries => Transient(api, statuses[k])
  /\ pc = "done" /\ Len(statuses) = retries + 1 /\ Transient(api, statuses[retries + 1]) =>
       retries = MaxRetries
  /\ result = "ERROR_HTTP_REQUEST_EXCEEDED_RETRIES" =>
       /\ Len(statuses) = MaxRetries + 1
       /\ \A k \in DOMAIN statuses : Transient(api, statuses[k])

\* The IMDS loops wait 30 seconds and then twice as long each time (30, 60, 120
\* with the retries of the code), and SendRequest waits at least 5, 10, 20
\* seconds, longer only if Retry-After asks for it
BackOff ==
  \A k \in DOMAIN waits :
    IF api = "SendRequest" THEN waits[k] \in {5 * 2^(k-1)} \cup RetryAfter /\ waits[k] >= 5 * 2^(k-1)
    ELSE waits[k] = IF k = 1 THEN 30 ELSE 2 * waits[k-1]

\* IMDS requests return even if IMDS never answers; a request to the attestation
\* service, which has no timeout, returns if the connection always ends.
RequestReturns ==
  /\ api # "SendRequest" ~> pc = "done"
  /\ WF_vars(Server) => <>(pc = "done")
=============================================================================
