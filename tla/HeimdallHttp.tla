---------------------------- MODULE HeimdallHttp ----------------------------
(***************************************************************************)
(* heimdall-client/src/http.rs: get_with_retry, one call after the other.  *)
(* A request is sent, and depending on the answer the call returns, or     *)
(* sleeps for twice as long as before and sends another one, MAX_RETRIES   *)
(* requests at most.  Who calls, and what the server answers when, is left *)
(* to the module that uses this one.                                       *)
(***************************************************************************)
EXTENDS Naturals, Sequences

CONSTANTS
    MAX_RETRIES,        \* requests per call at most; 3 in the code
    BASE_RETRY_DELAY    \* the first pause, in milliseconds; 500 in the code

(***************************************************************************)
(* What one request may come back with, named by the outcome of the call   *)
(* it would lead to: a body that parses, a body that does not, status 404, *)
(* status 429, any other status, a timeout, any other transport error.     *)
(***************************************************************************)
Final == {"Ok", "ParseError", "NotFound"}
Retryable == {"RateLimited", "BadStatus", "Timeout", "NetworkError"}
Answers == Final \cup Retryable

VARIABLES
    pc,         \* "idle" between two calls, "send", "sleep" or "done"
    attempt,    \* the loop counter
    last_err,   \* the error kept for the end
    result,     \* what the call returned, "pending" before
    answer,     \* the answer received last, "none" before the first
    pauses      \* the pauses made so far, in order

vars == <<pc, attempt, last_err, result, answer, pauses>>

Init ==
    /\ pc = "idle"
    /\ attempt = 0
    /\ last_err = "NetworkError"
    /\ result = "pending"
    /\ answer = "none"
    /\ pauses = <<>>

\* get_with_retry is called.
Call ==
    /\ pc = "idle"
    /\ pc' = "send"
    /\ UNCHANGED <<attempt, last_err, result, answer, pauses>>

\* A success status, parsed or not, and a 404 end the call at once.
Finish(a) ==
    /\ pc = "send"
    /\ a \in Final
    /\ answer' = a
    /\ pc' = "done"
    /\ result' = a
    /\ UNCHANGED <<attempt, last_err, pauses>>

\* Mutant of Fail: the error of the first attempt is kept.
Fail_FirstError(a) ==
    /\ pc = "send"
    /\ a \in Retryable
    /\ answer' = a
    /\ last_err' = IF attempt = 0 THEN a ELSE last_err
    /\ attempt' = attempt + 1
    /\ pc' = IF attempt' = MAX_RETRIES THEN "done" ELSE "sleep"
    /\ result' = IF attempt' = MAX_RETRIES THEN last_err' ELSE result
    /\ UNCHANGED pauses

\* Anything else is remembered; after the last attempt it is what is returned.
Fail(a) ==
    /\ pc = "send"
    /\ a \in Retryable
    /\ answer' = a
    /\ last_err' = a
    /\ attempt' = attempt + 1
    /\ pc' = IF attempt' = MAX_RETRIES THEN "done" ELSE "sleep"
    /\ result' = IF attempt' = MAX_RETRIES THEN last_err' ELSE result
    /\ UNCHANGED pauses

\* 2u32.pow
pow2[k \in Nat] == IF k = 0 THEN 1 ELSE 2 * pow2[k - 1]

Sleep ==
    /\ pc = "sleep"
    /\ pauses' = Append(pauses, BASE_RETRY_DELAY * pow2[attempt - 1])
    /\ pc' = "send"
    /\ UNCHANGED <<attempt, last_err, result, answer>>

\* The caller takes the result; what the call kept is gone with it.
Return ==
    /\ pc = "done"
    /\ pc' = "idle"
    /\ attempt' = 0
    /\ last_err' = "NetworkError"
    /\ result' = "pending"
    /\ answer' = "none"
    /\ pauses' = <<>>

-----------------------------------------------------------------------------

\* A call goes on until an answer settles it and no longer; else it returns
\* the error of the last of exactly MAX_RETRIES requests.  Between two
\* requests there is a pause, each twice the one before it, and none after
\* the last: a failing call sleeps the sum of a geometric series.
CallsSettle ==
    /\ answer \in Final => pc = "done"
    /\ pc = "done" =>
        /\ result = answer
        /\ result \in Retryable => Len(pauses) = MAX_RETRIES - 1
    /\ pc \in {"send", "sleep"} => Len(pauses) < MAX_RETRIES
    /\ \A i \in 1..Len(pauses) :
        pauses[i] = IF i = 1 THEN BASE_RETRY_DELAY ELSE 2 * pauses[i - 1]

\* Why: as many pauses as failed attempts, one less while the call is about
\* to sleep and after the last.
CallInv ==
    /\ pc \in {"idle", "send", "sleep", "done"}
    /\ attempt \in Nat
    /\ pauses \in Seq(Nat)
    /\ \A i \in 1..Len(pauses) : pauses[i] = BASE_RETRY_DELAY * pow2[i - 1]
    /\ pc = "idle" => answer = "none" /\ attempt = 0 /\ pauses = <<>>
    /\ pc = "send" => attempt < MAX_RETRIES /\ Len(pauses) = attempt
    /\ pc = "sleep" => 0 < attempt /\ attempt < MAX_RETRIES /\ Len(pauses) = attempt - 1
    /\ pc \in {"send", "sleep"} => answer \notin Final
    /\ pc = "done" => result = answer /\ (result \in Retryable => Len(pauses) = MAX_RETRIES - 1)
    /\ pc # "done" => result = "pending"

=============================================================================
