------------------------------ MODULE ApiRetry ------------------------------
(***************************************************************************)
(* One call of the API client (internal/api): FetchPolicy or UploadLogs,   *)
(* which both try their request through withRetries.  A request can arrive *)
(* at the API and its answer be lost, or arrive after the client has given *)
(* the attempt up.                                                         *)
(***************************************************************************)
EXTENDS Naturals, FiniteSets

CONSTANTS
  Attempts,  \* Client.attempts(), 3 by default
  Codes      \* the HTTP status codes the API may answer with

ASSUME AttemptsAssumption == Attempts \in Nat \ {0}
ASSUME CodesAssumption == Codes \subseteq 200 .. 599

VARIABLES
  op,       \* "fetch" or "upload"
  apiPc,    \* where withRetries is
  attempt,  \* i + 1
  flight,   \* attempts whose request is on its way to the API
  arrived,  \* attempts whose request the API has taken in
  heard,    \* the status code the client got for each attempt, or 0
  apiRet    \* what the call returned

apiVars ==
  <<op, apiPc, attempt, flight, arrived, heard, apiRet>>

ApiPcs == {"idle", "try", "wait", "backoff", "returned"}

ApiInit ==
  /\ op = "fetch"
  /\ apiPc = "idle"
  /\ attempt = 1
  /\ flight = {}
  /\ arrived = {}
  /\ heard = [i \in 1 .. Attempts |-> 0]
  /\ apiRet = "none"

(* A slip: every 4xx without a class of its own is retried.                *)
ClassifyStatusRetries4xx(code) ==
  CASE code \in {200, 201, 202, 204} -> "none"
    [] code \in {401, 403} -> "auth"
    [] code = 404 -> "notfound"
    [] OTHER -> "server"
(* 408, 429 and 5xx count as the server's failures, and so does every code *)
(* below 400 that is not listed as a success.                              *)
ClassifyStatus(code) ==
  CASE code \in {200, 201, 202, 204} -> "none"
    [] code \in {401, 403} -> "auth"
    [] code = 404 -> "notfound"
    [] code \in (400 .. 499) \ {401, 403, 404, 408, 429} -> "client"
    [] OTHER -> "server"

Retryable(class) == class \in {"transport", "server"}

Reset(pc) ==
  /\ apiPc' = pc
  /\ attempt' = 1
  /\ flight' = {}
  /\ arrived' = {}
  /\ heard' = [i \in 1 .. Attempts |-> 0]
  /\ apiRet' = "none"

Call(o) == op' = o /\ Reset("try")

Return(ret) == apiPc' = "returned" /\ apiRet' = ret

(* A slip: the error of the last attempt is not kept.                      *)
AttemptFailedForgets(class) ==
  IF Retryable(class) /\ attempt < Attempts
  THEN apiPc' = "backoff" /\ UNCHANGED apiRet
  ELSE Return(IF Retryable(class) THEN "ok" ELSE "error")
(* The end of the loop's body after an error of some class.  An error that *)
(* has no class (the request could not even be built) is tried again too.  *)
AttemptFailed(class) ==
  IF Retryable(class) /\ attempt < Attempts
  THEN apiPc' = "backoff" /\ UNCHANGED apiRet
  ELSE Return("error")

(* fetchPolicyOnce and uploadLogsOnce up to the request: it goes out, or   *)
(* it fails on this side.  With a context that is done nothing goes out.   *)
(* done: the context is cancelled or past its deadline.                    *)
Try(done) ==
  /\ apiPc = "try"
  /\ \/ done /\ Return("error") /\ UNCHANGED flight
     \/ ~ done /\ AttemptFailed("transport") /\ UNCHANGED flight
     \/ /\ ~ done
        /\ flight' = flight \cup {attempt}
        /\ apiPc' = "wait"
        /\ UNCHANGED apiRet
  /\ UNCHANGED <<op, attempt, arrived, heard>>

Arrive ==
  /\ \E i \in flight :
       /\ flight' = flight \ {i}
       /\ arrived' = arrived \cup {i}
  /\ UNCHANGED <<op, apiPc, attempt, heard, apiRet>>

(* The answer is read and classified.  A policy that does not decode is a  *)
(* client error.                                                           *)
Answered ==
  /\ apiPc = "wait" /\ attempt \in arrived
  /\ \E status \in Codes :
       LET class == ClassifyStatus(status) IN
       /\ heard' = [heard EXCEPT ![attempt] = status]
       /\ \/ class = "none" /\ Return("ok")
          \/ class = "none" /\ op = "fetch" /\ AttemptFailed("client")
          \/ class # "none" /\ AttemptFailed(class)
  /\ UNCHANGED <<op, attempt, flight, arrived>>

(* A slip: without a timeout, only a request that arrived comes to an end. *)
BrokenWithoutTimeout ==
  /\ apiPc = "wait" /\ attempt \in arrived
  /\ AttemptFailed("transport")
  /\ UNCHANGED <<op, attempt, flight, arrived, heard>>
(* The connection breaks, or the answer's body does; or the client's own   *)
(* timeout or the context's end cuts the attempt off, which is final.      *)
Broken ==
  /\ apiPc = "wait"
  /\ AttemptFailed("transport") \/ Return("error")
  /\ UNCHANGED <<op, attempt, flight, arrived, heard>>

(* The select of the backoff takes either branch when both are ready.      *)
Backoff(done) ==
  /\ apiPc = "backoff"
  /\ \/ done /\ Return("error") /\ UNCHANGED attempt
     \/ attempt' = attempt + 1 /\ apiPc' = "try" /\ UNCHANGED apiRet
  /\ UNCHANGED <<op, flight, arrived, heard>>

ClientStep(done) == Try(done) \/ Answered \/ Broken \/ Backoff(done)
-----------------------------------------------------------------------------
(* Types of the client's state.                                            *)
ApiTypeOK ==
  /\ op \in {"fetch", "upload"}
  /\ apiPc \in ApiPcs
  /\ attempt \in 1 .. Attempts
  /\ flight \subseteq 1 .. attempt /\ arrived \subseteq 1 .. attempt
  /\ heard \in [1 .. Attempts -> Codes \cup {0}]
  /\ apiRet \in {"none", "ok", "error"}

(* A request is sent again only when the answer to the one before it was   *)
(* lost or asks for another try, never after a success or a refusal (4xx   *)
(* other than 408 and 429), however late the answers come in; and a call   *)
(* that succeeded did so with a request the API took in and accepted.      *)
RetriesAreJustified ==
  /\ \A i \in 1 .. attempt - 1 :
       heard[i] \notin {200, 201, 202, 204} \cup ((400 .. 499) \ {408, 429})
  /\ apiRet = "ok" =>
       attempt \in arrived /\ heard[attempt] \in {200, 201, 202, 204}
=============================================================================
