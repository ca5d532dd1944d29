---------------------------- MODULE SpanPrefetch ----------------------------
(***************************************************************************)
(* bor-consensus/src/span_prefetch.rs: the background task that fetches    *)
(* spans from Heimdall over the HTTP client and puts them into the         *)
(* engine's span cache, at work beside the node, which looks a span up for *)
(* every block it validates.                                               *)
(*                                                                         *)
(* The task keeps one number, the last span id it fetched, and takes every *)
(* id up to it for cached; the cache evicts by its own rule and tells      *)
(* nobody.  Task and engine count span ids in spans of span_size blocks;   *)
(* where Heimdall's spans really start is SpanStart.  Nothing survives a   *)
(* restart: the task starts with nothing fetched and an empty cache at     *)
(* whatever block the node's database is at.  The chain only grows here:   *)
(* after an unwind below a span it has fetched the task takes spans for    *)
(* cached that it never asked for.                                         *)
(***************************************************************************)
EXTENDS Naturals, Sequences

CONSTANTS
    MaxSpan,            \* bound: the last span Heimdall ever produces
    SpanStart,          \* the first block of each span up to MaxSpan + 1
    span_size,          \* blocks per span, as task and engine have it
    PREFETCH_AHEAD,     \* how many spans ahead of the tip to fetch
    CacheSize,          \* capacity of the span cache
    MAX_RETRIES, BASE_RETRY_DELAY   \* of the HTTP client

ASSUME SpanPrefetchAssumption ==
    /\ MaxSpan \in Nat
    /\ SpanStart \in [0..(MaxSpan + 1) -> Nat]
    /\ SpanStart[0] = 0
    /\ \A i \in 0..MaxSpan : SpanStart[i] < SpanStart[i + 1]
    /\ span_size \in Nat \ {0}
    /\ PREFETCH_AHEAD \in Nat
    /\ CacheSize \in Nat
    /\ MAX_RETRIES \in Nat \ {0}
    /\ BASE_RETRY_DELAY \in Nat \ {0}

VARIABLES
    spans, access_order,    \* the engine's span cache
    last_fetched_span,      \* {} or {id}: Option<u64>
    task,                   \* where the prefetch task is
    http_pc, attempt, last_err, result, answer, pauses,  \* its HTTP call
    best,                   \* {} or {number}: what get_block_number returns
    validated,              \* the block the node validated last
    produced                \* Heimdall has spans 0..produced

cacheVars == <<spans, access_order>>
httpVars == <<http_pc, attempt, last_err, result, answer, pauses>>
chainVars == <<best, validated, produced>>
vars == <<cacheVars, last_fetched_span, task, httpVars, chainVars>>

SpanIds == 0..(MaxSpan + PREFETCH_AHEAD)
Blocks == 0..(SpanStart[MaxSpan + 1] - 1)

HeimdallSpan(id) ==
    [id |-> id, start_block |-> SpanStart[id], end_block |-> SpanStart[id + 1] - 1]

Covers(span, block_number) ==
    span.start_block <= block_number /\ block_number <= span.end_block

Cache == INSTANCE SpanCache WITH
    Spans <- {HeimdallSpan(i) : i \in 0..MaxSpan},
    max_size <- CacheSize

Http == INSTANCE HeimdallHttp WITH pc <- http_pc

\* Mutant of span_id_at: the id is rounded up.
span_id_at_Up(block_number, size) == (block_number + size - 1) \div size

span_id_at(block_number, size) == block_number \div size

(***************************************************************************)
(* run: "genesis" is the first fetch, "poll" the top of the loop, and      *)
(* "fetch" the loop of ensure_spans_for_block over the offsets.            *)
(***************************************************************************)
Polling == [pc |-> "poll", current_span_id |-> 0, offset |-> 0]

Init ==
    /\ Cache!Init
    /\ Http!Init
    /\ last_fetched_span = {}
    /\ task = [Polling EXCEPT !.pc = "genesis"]
    /\ best = {}
    /\ validated \in Blocks
    /\ produced \in {i \in 0..MaxSpan : validated < SpanStart[i + 1]}

\* The id the loop of ensure_spans_for_block has reached; 0 for the first fetch.
span_id == task.current_span_id + task.offset

\* Mutant of Fetched: the span after the last one fetched counts as well.
Fetched_OffByOne == \E last \in last_fetched_span : span_id <= last + 1

\* The span counts as fetched already.
Fetched == \E last \in last_fetched_span : span_id <= last

\* The node reports its best block; ensure_spans_for_block starts.
Poll ==
    /\ task.pc = "poll"
    /\ \E number \in best :
            task' = [pc |-> "fetch", offset |-> 0,
                     current_span_id |-> span_id_at(number, span_size)]
    /\ UNCHANGED <<cacheVars, httpVars, last_fetched_span, chainVars>>

\* for offset in 0..=PREFETCH_AHEAD
InLoop == task.pc = "fetch" /\ task.offset <= PREFETCH_AHEAD

SkipFetched ==
    /\ InLoop
    /\ Fetched
    /\ task' = [task EXCEPT !.offset = @ + 1]
    /\ UNCHANGED <<cacheVars, httpVars, last_fetched_span, chainVars>>

(***************************************************************************)
(* fetch_and_cache_span: a call of the HTTP client's fetch_span, awaited.  *)
(***************************************************************************)
FetchSpan ==
    /\ \/ task.pc = "genesis"
       \/ InLoop /\ ~Fetched
    /\ Http!Call
    /\ UNCHANGED <<cacheVars, last_fetched_span, task, chainVars>>

\* Heimdall has the span that was asked for.
Produced == span_id <= produced

\* An answer arrives: the span, status 404 for a span not produced yet, a
\* body that does not parse, or a failure of the server or the network.
AnswerWithSpan ==
    /\ Produced
    /\ Http!Finish("Ok")
    /\ UNCHANGED <<cacheVars, last_fetched_span, task, chainVars>>

AnswerOtherwise ==
    /\ \/ ~Produced /\ Http!Finish("NotFound")
       \/ Http!Finish("ParseError")
       \/ \E a \in Http!Retryable : Http!Fail(a)
    /\ UNCHANGED <<cacheVars, last_fetched_span, task, chainVars>>

PauseBetweenRequests ==
    /\ Http!Sleep
    /\ UNCHANGED <<cacheVars, last_fetched_span, task, chainVars>>

\* Mutant of FetchSucceeds: the high-water mark moves and the span is lost.
FetchSucceeds_NoInsert ==
    /\ InLoop
    /\ result = "Ok"
    /\ Http!Return
    /\ last_fetched_span' = {span_id}
    /\ task' = [task EXCEPT !.offset = @ + 1]
    /\ UNCHANGED <<cacheVars, chainVars>>

\* Mutant of FetchSucceeds: the high-water mark is the end of the range.
FetchSucceeds_MarkAhead ==
    /\ InLoop
    /\ result = "Ok"
    /\ Http!Return
    /\ Cache!insert(HeimdallSpan(span_id))
    /\ last_fetched_span' = {task.current_span_id + PREFETCH_AHEAD}
    /\ task' = [task EXCEPT !.offset = @ + 1]
    /\ UNCHANGED chainVars

\* fetch_and_cache_span returns true.
FetchSucceeds ==
    /\ InLoop
    /\ result = "Ok"
    /\ Http!Return
    /\ Cache!insert(HeimdallSpan(span_id))
    /\ last_fetched_span' = {span_id}
    /\ task' = [task EXCEPT !.offset = @ + 1]
    /\ UNCHANGED chainVars

\* fetch_and_cache_span returns false, because Heimdall has no such span yet
\* or because the call failed: leave the loop, sleep, poll again.
FetchFails ==
    /\ InLoop
    /\ result # "Ok"
    /\ Http!Return
    /\ task' = Polling
    /\ UNCHANGED <<cacheVars, last_fetched_span, chainVars>>

\* The fetch of span 0, whether or not it worked, is not noted as fetched.
GenesisFetched ==
    /\ task.pc = "genesis"
    /\ Http!Return
    /\ task' = Polling
    /\ \/ result = "Ok" /\ Cache!insert(HeimdallSpan(0))
       \/ result # "Ok" /\ UNCHANGED cacheVars
    /\ UNCHANGED <<last_fetched_span, chainVars>>

EndOfPass ==
    /\ task.pc = "fetch"
    /\ task.offset > PREFETCH_AHEAD
    /\ task' = Polling
    /\ UNCHANGED <<cacheVars, httpVars, last_fetched_span, chainVars>>

Prefetcher ==
    \/ Poll \/ SkipFetched \/ FetchSpan
    \/ PauseBetweenRequests
    \/ GenesisFetched \/ FetchSucceeds \/ FetchFails \/ EndOfPass

Heimdall == AnswerWithSpan \/ AnswerOtherwise

(***************************************************************************)
(* The node, and Heimdall's own progress.                                  *)
(***************************************************************************)

\* The node validates the next block; the lookup promotes a cached span.
ValidateBlock ==
    /\ validated + 1 \in Blocks
    /\ validated + 1 < SpanStart[produced + 1]
    /\ validated' = validated + 1
    /\ Cache!get(span_id_at(validated + 1, span_size))
    /\ UNCHANGED <<last_fetched_span, task, httpVars, best, produced>>

\* The node makes the blocks it validated its best chain.
PublishTip ==
    /\ best # {validated}
    /\ best' = {validated}
    /\ UNCHANGED <<cacheVars, last_fetched_span, task, httpVars, validated, produced>>

ProduceSpan ==
    /\ produced < MaxSpan
    /\ produced' = produced + 1
    /\ UNCHANGED <<cacheVars, last_fetched_span, task, httpVars, best, validated>>

Next ==
    \/ Prefetcher \/ Heimdall
    \/ ValidateBlock \/ PublishTip \/ ProduceSpan

Spec == Init /\ [][Next]_vars

(***************************************************************************)
(* The task is never starved: tokio polls it again after every sleep and   *)
(* every answer.  That a request is answered, or fails, at all is an       *)
(* assumption on the network, because the client is built without a        *)
(* timeout; and a Heimdall that is asked for a span it has over and over   *)
(* answers with it at last.                                                *)
(***************************************************************************)
Fairness ==
    /\ WF_vars(Prefetcher)
    /\ WF_vars(Heimdall)
    /\ SF_vars(AnswerWithSpan)

FairSpec == Spec /\ Fairness

-----------------------------------------------------------------------------

\* Every call of the HTTP client ends with the answer that settles it.
CallsSettle == Http!CallsSettle

\* What ensure_spans_for_block is for: once it has run through all offsets
\* for a block without a failed fetch, the block's span and the spans ahead
\* of it are in the cache.
PassCoversBlock ==
    task.pc = "fetch" /\ task.offset > PREFETCH_AHEAD =>
        \A i \in 0..PREFETCH_AHEAD : Cache!contains(task.current_span_id + i)

\* From the span of the best block up to the high-water mark every span is
\* in the cache: the task never takes a span for cached that was evicted
\* behind its back while the node still needs it.
PrefetchedStayCached ==
    \A number \in best, last \in last_fetched_span :
        \A id \in span_id_at(number, span_size)..last : Cache!contains(id)

\* get_span_for_block: the span the engine finds for the block it validates,
\* if it finds one, is the span that covers the block.
LookupCoversBlock ==
    LET id == span_id_at(validated, span_size)
    IN  Cache!contains(id) => Covers(spans[id], validated)

\* The span of the best block reaches the cache, unless the node moves on to
\* another span first: a failed call is made again on a later poll.
TipSpanGetsCached ==
    \A id \in 0..MaxSpan :
        (\E number \in best : span_id_at(number, span_size) = id)
            ~> \/ Cache!contains(id)
               \/ ~\E number \in best : span_id_at(number, span_size) = id

-----------------------------------------------------------------------------
(***************************************************************************)
(* Why the invariants hold.  Ids are fetched upwards, at most              *)
(* PREFETCH_AHEAD ahead of the span of the best block, and looked up one   *)
(* after the other, never below that span.  So a span used after span w is *)
(* less than w by at most PREFETCH_AHEAD, and once the node has come to w  *)
(* it is greater.  What can push w out of the cache while the task or the  *)
(* node still counts on it are thus fewer than 2 * PREFETCH_AHEAD spans.   *)
(***************************************************************************)
RoomToPrefetch == CacheSize >= 2 * PREFETCH_AHEAD

\* Spans are where task and engine believe them to be.
SpansEven == \A i \in 0..(MaxSpan + 1) : SpanStart[i] = i * span_size

ChainInv ==
    /\ validated \in Blocks
    /\ produced \in 0..MaxSpan
    /\ best = {} \/ \E number \in 0..validated : best = {number}
    /\ last_fetched_span = {} \/ \E last \in 0..MaxSpan : last_fetched_span = {last}
    /\ last_fetched_span # {} => best # {}
    /\ \A last \in last_fetched_span, number \in best :
            last <= span_id_at(number, span_size) + PREFETCH_AHEAD

\* The task works on an HTTP call for a span it has not got, and for nothing
\* else while it waits.
TaskInv ==
    /\ task \in [pc : {"genesis", "poll", "fetch"}, current_span_id : Nat, offset : Nat]
    /\ task.pc = "genesis" => task.current_span_id = 0 /\ task.offset = 0
                              /\ last_fetched_span = {}
    /\ task.offset <= PREFETCH_AHEAD + 1
    /\ task.pc = "fetch" => best # {}
    /\ task.pc = "fetch" => \A number \in best :
                                task.current_span_id <= span_id_at(number, span_size)
    /\ http_pc # "idle" => task.pc = "genesis" \/ (InLoop /\ ~Fetched)
    /\ result = "Ok" => Produced

OrderInv ==
    /\ Cache!TypeOK
    /\ Cache!OrderTracksMap
    /\ \A w \in DOMAIN spans : w = 0 \/ \E last \in last_fetched_span : w <= last
    /\ \A w, x \in DOMAIN spans :
            Cache!Before(access_order, w, x) =>
                /\ w <= x + PREFETCH_AHEAD
                /\ w <= span_id_at(validated, span_size) => w < x

\* What the pass has come past is fetched, and in the cache up to the mark.
PassInv ==
    task.pc = "fetch" =>
        /\ \A last \in last_fetched_span :
                \A id \in task.current_span_id..last : Cache!contains(id)
        /\ task.offset > 0 =>
                \E last \in last_fetched_span : last + 1 >= task.current_span_id + task.offset

\* Holds however small the cache is.
StateInv ==
    /\ Http!CallInv
    /\ ChainInv
    /\ TaskInv
    /\ OrderInv

\* Holds in a cache with room to prefetch.
PrefetchInv ==
    /\ StateInv
    /\ PassInv
    /\ PrefetchedStayCached

=============================================================================
