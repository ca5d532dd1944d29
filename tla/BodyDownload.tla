---------------------------- MODULE BodyDownload ----------------------------
(***************************************************************************)
(* Backfill through the consensus engine: the headers of a range are known *)
(* and the bodies arrive from several peers; each complete block is handed *)
(* to validate_block_pre_execution by the thread that received it.  All    *)
(* calls share the engine's one map of recent signers.                     *)
(*                                                                         *)
(* The engine takes &self behind an Arc and guards its state with Mutexes, *)
(* so it is meant to be called from several threads; the downloader itself *)
(* belongs to reth and is modelled by the calls it may make.               *)
(***************************************************************************)
EXTENDS BorConsensus

CONSTANTS
    MaxBlock    \* bound: the blocks of the range are 1..MaxBlock

VARIABLES
    headers,    \* who signed each block of the range; fixed by the headers
    verdict     \* "none", "started", or the engine's answer for each block

vars == <<spans, access_order, signers, call, headers, verdict>>

Init ==
    /\ EngineInit
    /\ headers \in [1..MaxBlock -> Signers]
    /\ verdict = [n \in 1..MaxBlock |-> "none"]

\* A body arrived and its thread calls the engine; the calls are started in
\* the order of block numbers.
StartBlock(t, n) ==
    /\ verdict[n] = "none"
    /\ \A m \in 1..(n - 1) : verdict[m] # "none"
    /\ BeginValidation(t, n, headers[n], "well_formed")
    /\ verdict' = [verdict EXCEPT ![n] = "started"]
    /\ UNCHANGED headers

Step(t) == EngineStep(t) /\ UNCHANGED <<headers, verdict>>

\* The call returns.  A rejected body is asked for again.
FinishBlock(t) ==
    /\ call[t].pc \in {"accepted", "skipped", "rejected"}
    /\ verdict' = [verdict EXCEPT ![call[t].number] = call[t].pc]
    /\ TakeAnswer(t)
    /\ UNCHANGED headers

RetryBlock(n) ==
    /\ verdict[n] = "rejected"
    /\ verdict' = [verdict EXCEPT ![n] = "none"]
    /\ UNCHANGED <<spans, access_order, signers, call, headers>>

CacheSpan ==
    /\ \E id \in SpanIds : insert_span(id)
    /\ UNCHANGED <<headers, verdict>>

Next ==
    \/ \E t \in Threads :
            \/ \E n \in 1..MaxBlock : StartBlock(t, n)
            \/ Step(t)
            \/ FinishBlock(t)
    \/ \E n \in 1..MaxBlock : RetryBlock(n)
    \/ CacheSpan

Spec == Init /\ [][Next]_vars

-----------------------------------------------------------------------------

\* Two blocks of the range that the engine checked and accepted, the earlier
\* one inside the anti-double-sign window of the later one, have different
\* signers: what Recents is for.
NoDoubleSign ==
    \A i, j \in 1..MaxBlock :
        /\ i < j
        /\ j - i <= WindowAt(j)
        /\ verdict[i] = "accepted"
        /\ verdict[j] = "accepted"
        => headers[i] # headers[j]

=============================================================================
