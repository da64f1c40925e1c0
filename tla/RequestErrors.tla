----------------------------- MODULE RequestErrors -----------------------------
(***************************************************************************)
(* What becomes of a request whose answers are errors: the exceptions      *)
(* (exceptions.py), the mapping of statuses and codes to them (errors.py), *)
(* Transport.request's second execute after a -1021 and _is_retryable      *)
(* (transport.py), and the retryer's decision and delay (retry.py).        *)
(*                                                                         *)
(* One request is followed from its first sending to its end.  The         *)
(* exchange is external and answers anything.                              *)
(***************************************************************************)
EXTENDS Integers

CONSTANTS
  Status,       \* statuses of answers
  Code,         \* codes in their bodies: 0 is success, or no code
  Delay,        \* Retry-After headers, or Jitter if there is none
  MaxAttempts   \* config.max_retries + 1

ASSUME ErrorsAssumption ==
  /\ Status \subseteq Nat /\ Code \subseteq Int /\ Delay \subseteq Nat \cup {-1}
  /\ MaxAttempts \in Nat \ {0}

-----------------------------------------------------------------------------
(* Exceptions, by their classes' names; "API" is BinanceThAPIError.        *)

(* The errors that carry retry_after.                                      *)
Patient == {"RateLimit", "IPBanned"}

(* The other errors that _is_retryable lets pass.                          *)
Uncertain == {"Server", "Network", "Timeout"}

CodeClass(code) ==
  CASE code \in {-1021, -1022, -2014, -2015} -> "Auth"
    [] code \in {-1000, -1100, -1102, -1013, -1121, -2013} -> "BadRequest"
    [] OTHER -> "API"

(* HTTP_STATUS_MAP and get_exception_for_status_code.                      *)
StatusClass(status) ==
  CASE status >= 500 -> "Server"
    [] status = 400 -> "BadRequest"
    [] status = 401 -> "Auth"
    [] status = 403 -> "WAF"
    [] status = 418 -> "IPBanned"
    [] status = 429 -> "RateLimit"
    [] OTHER -> "API"

(* map_exception: a code wins.                                             *)
ClassOf(status, code) == IF code # 0 THEN CodeClass(code) ELSE StatusClass(status)

Jitter == -1   \* no Retry-After: the retryer waits for a random time

(* _build, for raise_for_http_status and raise_envelope_error.             *)
ErrorOf(status, code, after) ==
  LET class == ClassOf(status, code) IN
  [class |-> class, status |-> status, code |-> code,
   after |-> IF class \in Patient THEN after ELSE Jitter]

(* httpx.TimeoutException, any other httpx.HTTPError, and an answer that   *)
(* cannot be read.                                                         *)
OtherErrors ==
  {[class |-> class, status |-> 0, code |-> 0, after |-> Jitter] :
     class \in {"Network", "Timeout", "Validation"}}

(* raise_for_http_status; unwrap, if the endpoint has an envelope.         *)
IsError(status, code, enveloped) == status >= 400 \/ (enveloped /\ code # 0)

(* What one sending can end with.  raise_envelope_error has no Retry-After. *)
Errors(enveloped) ==
  OtherErrors \cup
  {ErrorOf(t[1], t[2], IF t[1] >= 400 THEN t[3] ELSE Jitter) :
     t \in {u \in Status \X Code \X Delay : IsError(u[1], u[2], enveloped)}}

-----------------------------------------------------------------------------
VARIABLES
  call,      \* the request: is it mutating, signed, enveloped
  at,        \* "sent", "resync", "resent", "waiting", "returned" or "raised"
  attempt,   \* the attempt it is in
  wait,      \* the delay it waits; Jitter if that is random
  last,      \* the last error of its own sendings
  resends,   \* (history) how often it was sent again
  reasons    \* (history) and after what

resendVars == <<resends, reasons>>
errorVars == <<call, at, attempt, wait, last, resendVars>>

NoError == [class |-> "none", status |-> 0, code |-> 0, after |-> Jitter]

(* Mutant: any error of the exchange is retried.                           *)
RetryableRefused(e) == ~ call.mutating /\ e.class # "Validation"

(* Mutant: what is retried does not depend on the call.                    *)
RetryableAlways(e) == e.class \in Uncertain \cup Patient

(* _is_retryable.                                                          *)
Retryable(e) == ~ call.mutating /\ e.class \in Uncertain \cup Patient

(* _delay.                                                                 *)
DelayAfter(e) == e.after

(* BackoffRetryer.run, on an error of an attempt.                          *)
Retry(e) ==
  IF attempt < MaxAttempts /\ Retryable(e)
  THEN at' = "waiting" /\ wait' = DelayAfter(e)
  ELSE at' = "raised" /\ UNCHANGED wait

(* What an error says of the request that met it, told by its status and   *)
(* code and not by its class.  "skew": the exchange refuses its timestamp. *)
(* "passing": it may work later, or it has worked, for all one knows.      *)
(* "masked": its status says so too, but a code, which says something      *)
(* else, decides on its class.                                             *)
MayPass(e) == e.status \in {0, 418, 429} \/ e.status >= 500

Reason(e) ==
  IF e.class = "Validation" THEN "unreadable"
  ELSE IF e.code = -1021 THEN "skew"
  ELSE IF ~ MayPass(e) THEN "refused"
  ELSE IF e.code = 0 THEN "passing" ELSE "masked"

SentAgain == resends' = resends + 1 /\ reasons' = reasons \cup {Reason(last)}

Returns ==
  /\ at \in {"sent", "resent"}
  /\ at' = "returned"
  /\ UNCHANGED <<call, attempt, wait, last, resendVars>>

(* An error of execute(): after a -1021 the clock is synchronised, once in *)
(* an attempt.                                                             *)
Errs(e) ==
  /\ at \in {"sent", "resent"}
  /\ last' = e
  /\ IF at = "sent" /\ call.signed /\ e.class = "Auth" /\ e.code = -1021
     THEN at' = "resync" /\ UNCHANGED wait
     ELSE Retry(e)
  /\ UNCHANGED <<call, attempt, resendVars>>

Resynced ==
  /\ at = "resync"
  /\ at' = "resent"
  /\ SentAgain
  /\ UNCHANGED <<call, attempt, wait, last>>

(* sync_time() fails: its error takes the place of the -1021.              *)
ResyncFails(e) ==
  /\ at = "resync"
  /\ last' = e
  /\ Retry(e)
  /\ UNCHANGED <<call, attempt, resendVars>>

TriesAgain ==
  /\ at = "waiting"
  /\ at' = "sent"
  /\ attempt' = attempt + 1
  /\ wait' = 0
  /\ SentAgain
  /\ UNCHANGED <<call, last>>

ErrorInit ==
  /\ call \in [mutating : BOOLEAN, signed : BOOLEAN, enveloped : BOOLEAN]
  /\ at = "sent" /\ attempt = 1 /\ wait = 0 /\ last = NoError
  /\ resends = 0 /\ reasons = {}

ErrorNext ==
  \/ Returns \/ Resynced \/ TriesAgain
  \/ \E e \in Errors(call.enveloped) : Errs(e)
  \/ \E e \in Errors(FALSE) : ResyncFails(e)

ErrorSpec == ErrorInit /\ [][ErrorNext]_errorVars

-----------------------------------------------------------------------------
(* Properties.                                                             *)

(* A mutating request is sent again once at most, and after a -1021 only:  *)
(* timeouts, 5xx and even a 429 with a Retry-After end it (ADR-0006), also *)
(* when they come in place of the clock's synchronisation.  (That a -1021  *)
(* is a refusal, on a 5xx too, is the exchange's word: errors.py:96 goes   *)
(* by the code.)                                                           *)
MutatingSentOnce ==
  call.mutating => resends <= (IF call.signed THEN 1 ELSE 0) /\ reasons \subseteq {"skew"}

(* Any other is sent again after a -1021, if it is signed, or an error     *)
(* that may pass, and never after one that waiting cannot change; in each  *)
(* attempt once, and once more for a -1021.                                *)
OthersSentWisely ==
  /\ ~ call.mutating => reasons \subseteq {"skew", "passing"}
  /\ ~ call.signed => "skew" \notin reasons
  /\ attempt <= MaxAttempts /\ resends <= 2 * attempt - 1

(* And an error that may pass ends it after its last attempt only, unless  *)
(* a code masks it: a 5xx, 418 or 429 whose body has a code is not retried *)
(* (errors.py:96), which this excepts.  While it waits after a Retry-After *)
(* it waits as long as that asked.                                         *)
NotGivenUpEarly ==
  /\ at = "raised" /\ ~ call.mutating /\ attempt < MaxAttempts => Reason(last) # "passing"
  /\ at = "waiting" /\ last.status \in {418, 429} => wait = last.after

(* A request is sent again where it is safe and may help, and only there.  *)
RepeatedForAReason == MutatingSentOnce /\ OthersSentWisely /\ NotGivenUpEarly

=============================================================================
