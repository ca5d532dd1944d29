----------------------------- MODULE Handshake -----------------------------
(***************************************************************************)
(* bor-node/src/handshake.rs: the exchange of Status messages that opens   *)
(* an eth session.  Both ends send their status, read the other's and      *)
(* judge it, each under a timeout of its own.  Under eth/69 the node sends *)
(* Go-Bor's eight-field Status and reads that one or the standard one of   *)
(* seven fields; below it sends and reads the legacy one.                  *)
(*                                                                         *)
(* Either both ends run this code, or the second one is a foreign node,    *)
(* which sends what it likes.  The protocol version was agreed on before.  *)
(* Two nodes of one network may be far apart on the chain, or have chain   *)
(* specs with other Ethereum forks; ForkId says what they make of that.    *)
(***************************************************************************)
EXTENDS Sequences, FiniteSets, ForkId

CONSTANTS
    Networks,   \* genesis hash and chain id of the networks in use
    Schedules,  \* the Ethereum fork schedules of the chain specs in use
    Heads,      \* the best blocks nodes may have
    MaxTd       \* the total difficulties that fit 160 bits: 0..MaxTd

ASSUME HandshakeAssumption ==
    /\ \A n \in Networks : DOMAIN n = {"genesis", "chain"}
    /\ \A s \in Schedules : s \subseteq ForkConditions /\ IsFiniteSet(s)
    /\ Heads \subseteq Nat
    /\ MaxTd \in Nat

Positions == [schedule : Schedules, head : Heads]

Ends == {1, 2}
Peer(e) == 3 - e

Eth68 == 68
Eth69 == 69

\* An Option is a set of at most one element.
unwrap_or(option, default) == IF option = {} THEN default ELSE CHOOSE v \in option : TRUE

\* UnifiedStatus.  A block hash is 0 or 1, zero or not; td, earliest and
\* latest are Options.
Status(version, network, forkid, td, range, blockhash) ==
    [version |-> version, chain |-> network.chain, genesis |-> network.genesis,
     forkid |-> forkid, td |-> td, earliest |-> range[1], latest |-> range[2],
     blockhash |-> blockhash]

ForkIdAt(position) == compute_fork_id(position.schedule, position.head)

\* What a node may say of itself: it may not know its total difficulty or the
\* range of its blocks; it always knows the hash of its head.
OwnStatus(version, position) ==
    {Status(version, n, ForkIdAt(position), td, range, 1) :
        n \in Networks, td \in {{}, {MaxTd}}, range \in {<<{}, {}>>, <<{0}, {1}>>}}

\* What a foreign node may say of itself.
ForeignStatus ==
    {Status(v, n, ForkIdAt(p), td, range, h) :
        v \in {Eth68, Eth69}, n \in Networks, p \in Positions,
        td \in {{0}, {MaxTd + 1}}, range \in {<<{0}, {1}>>, <<{1}, {0}>>},
        h \in {0, 1}}

(***************************************************************************)
(* Messages: a Status in one of three encodings, a body that is none, a    *)
(* message of another kind, one that is too big.                           *)
(***************************************************************************)
Encodings == {"legacy", "bor69", "eth69"}

ForeignMessages ==
    [format : Encodings, status : ForeignStatus]
        \cup [format : {"garbage", "not_status", "too_big"}]

\* Mutant of Encode: an unknown range starts at block 1.
Encode_FromOne(s) ==
    [format |-> IF s.version >= Eth69 THEN "bor69" ELSE "legacy",
     status |-> [s EXCEPT !.td = {unwrap_or(s.td, 0)},
                          !.earliest = {unwrap_or(s.earliest, 1)},
                          !.latest = {unwrap_or(s.latest, 0)}]]

\* The message a node sends for its status: eth/69 and the legacy message
\* have no room for what is unknown, the legacy one none for a range.
Encode(s) ==
    IF s.version >= Eth69
    THEN [format |-> "bor69",
          status |-> [s EXCEPT !.td = {unwrap_or(s.td, 0)},
                               !.earliest = {unwrap_or(s.earliest, 0)},
                               !.latest = {unwrap_or(s.latest, 0)}]]
    ELSE [format |-> "legacy",
          status |-> [s EXCEPT !.td = {unwrap_or(s.td, 0)},
                               !.earliest = {}, !.latest = {}]]

\* Which encodings the receiver reads.
Readable(v) == IF v >= Eth69 THEN {"bor69", "eth69"} ELSE {"legacy"}

\* The status in a message it reads; only Go-Bor's encoding and the legacy
\* one carry a total difficulty, and the legacy one has no range.
Decode(m) ==
    [m.status EXCEPT !.td = IF m.format = "eth69" THEN {} ELSE @,
                     !.earliest = IF m.format = "legacy" THEN {} ELSE @,
                     !.latest = IF m.format = "legacy" THEN {} ELSE @]

-----------------------------------------------------------------------------

VARIABLES
    foreign,    \* TRUE if end 2 is a foreign node
    position,   \* where each end's node was when the session began: the
                \* state of its fork filter
    status,     \* each end's own status
    wire,       \* the message on its way to each end, as a sequence
    pc,         \* "send", "recv" or "done"
    result,     \* "pending", "ok" or the error the handshake returned
    accepted,   \* the status a successful handshake returned, as a set
    told        \* whether the end sent a disconnect

vars == <<foreign, position, status, wire, pc, result, accepted, told>>

\* Two nodes of this kind differ in their networks or in their positions; the
\* checks on the one come before the check on the other.
Init ==
    /\ foreign \in BOOLEAN
    /\ position \in [Ends -> Positions]
    /\ \E v \in {Eth68, Eth69} : \E s1 \in OwnStatus(v, position[1]),
                                  s2 \in OwnStatus(v, position[2]) :
            /\ status = <<s1, s2>>
            /\ \/ position[1] = position[2]
               \/ s1.genesis = s2.genesis /\ s1.chain = s2.chain
    /\ foreign => /\ status[1] = status[2] /\ position[1] = position[2]
                  /\ status[1].td # {} /\ status[1].latest # {}
    /\ wire = [e \in Ends |-> <<>>]
    /\ pc = [e \in Ends |-> "send"]
    /\ result = [e \in Ends |-> "pending"]
    /\ accepted = [e \in Ends |-> {}]
    /\ told = [e \in Ends |-> FALSE]

\* The ends that run this code.
Ours == IF foreign THEN {1} ELSE Ends

End(e, outcome, disconnect) ==
    /\ pc' = [pc EXCEPT ![e] = "done"]
    /\ result' = [result EXCEPT ![e] = outcome]
    /\ told' = [told EXCEPT ![e] = disconnect]

\* A disconnect may fail to be sent; its error is returned then.
Reject(e, error) ==
    /\ \/ End(e, error, TRUE)
       \/ End(e, "Stream", FALSE)
    /\ UNCHANGED accepted

SendStatus(e) ==
    /\ e \in Ours
    /\ pc[e] = "send"
    /\ wire' = [wire EXCEPT ![Peer(e)] = Append(@, Encode(status[e]))]
    /\ pc' = [pc EXCEPT ![e] = "recv"]
    /\ UNCHANGED <<foreign, position, status, result, accepted, told>>

\* A foreign node sends anything, or closes the connection, and is done.
SendForeign ==
    /\ foreign
    /\ pc[2] = "send"
    /\ \/ \E m \in ForeignMessages : wire' = [wire EXCEPT ![1] = Append(@, m)]
       \/ UNCHANGED wire
    /\ pc' = [pc EXCEPT ![2] = "done"]
    /\ UNCHANGED <<foreign, position, status, result, accepted, told>>

Error(e, fails, disconnects) == [error |-> e, fails |-> fails, disconnects |-> disconnects]

\* Mutant of Checks: the version is not compared and fork ids are not looked at.
Checks_Lenient(at, own, theirs) == <<
    Error("MismatchedGenesis", own.genesis # theirs.genesis, TRUE),
    Error("MismatchedChain", own.chain # theirs.chain, TRUE) >>

\* The checks of a node at the given position on the other end's status, in
\* order, and whether a failure sends a disconnect.
Checks(at, own, theirs) == <<
    Error("MismatchedGenesis", own.genesis # theirs.genesis, TRUE),
    Error("MismatchedProtocolVersion", own.version # theirs.version, TRUE),
    Error("MismatchedChain", own.chain # theirs.chain, TRUE),
    Error("TotalDifficultyBitLenTooLarge", \E td \in theirs.td : td > MaxTd, TRUE),
    Error("InvalidFork", ~fork_filter_accepts(at.schedule, at.head, theirs.forkid), TRUE),
    Error("EarliestBlockGreaterThanLatestBlock",
          \E l \in theirs.earliest, h \in theirs.latest : l > h, FALSE),
    Error("BlockhashZero",
          theirs.earliest # {} /\ theirs.latest # {} /\ theirs.blockhash = 0, FALSE) >>

Failing(checks) == {i \in DOMAIN checks : checks[i].fails}

\* The message is read and the status in it judged.
Judge(e, m) ==
    LET theirs == Decode(m)
        checks == Checks(position[e], status[e], theirs)
        failing == Failing(checks)
        first == checks[Min(failing)]
    IN  \/ /\ failing = {}
           /\ accepted' = [accepted EXCEPT ![e] = {theirs}]
           /\ End(e, "ok", FALSE)
        \/ /\ failing # {}
           /\ first.disconnects
           /\ Reject(e, first.error)
        \/ /\ failing # {}
           /\ ~first.disconnects
           /\ End(e, first.error, FALSE)
           /\ UNCHANGED accepted

\* A message that cannot be read ends the handshake; under eth/69 without a
\* disconnect.
Unreadable(e, m) ==
    \/ m.format = "too_big" /\ Reject(e, "MessageTooBig")
    \/ /\ m.format # "too_big"
       /\ status[e].version >= Eth69
       /\ End(e, "InvalidMessage", FALSE)
       /\ UNCHANGED accepted
    \/ /\ m.format # "too_big"
       /\ status[e].version < Eth69
       /\ Reject(e, "InvalidMessage")

ReceiveStatus(e) ==
    /\ pc[e] = "recv"
    /\ wire[e] # <<>>
    /\ LET m == Head(wire[e])
       IN  IF m.format \in Readable(status[e].version) THEN Judge(e, m)
                                                       ELSE Unreadable(e, m)
    /\ wire' = [wire EXCEPT ![e] = Tail(@)]
    /\ UNCHANGED <<foreign, position, status>>

\* The other end gave up before it sent anything.
StreamEnds(e) ==
    /\ pc[e] = "recv"
    /\ wire[e] = <<>>
    /\ pc[Peer(e)] = "done" /\ result[Peer(e)] # "ok"
    /\ Reject(e, "NoResponse")
    /\ UNCHANGED <<foreign, position, status, wire>>

\* Sending or receiving fails.
StreamFails(e) ==
    /\ e \in Ours
    /\ pc[e] # "done"
    /\ End(e, "Stream", FALSE)
    /\ UNCHANGED <<foreign, position, status, wire, accepted>>

\* Mutant of TimesOut: the time limit covers the sending alone.
TimesOut_SendOnly(e) ==
    /\ e \in Ours
    /\ pc[e] = "send"
    /\ End(e, "StreamTimeout", FALSE)
    /\ UNCHANGED <<foreign, position, status, wire, accepted>>

\* The time limit around the whole handshake passes.
TimesOut(e) ==
    /\ e \in Ours
    /\ pc[e] # "done"
    /\ End(e, "StreamTimeout", FALSE)
    /\ UNCHANGED <<foreign, position, status, wire, accepted>>

Finished == (\A e \in Ours : pc[e] = "done") /\ UNCHANGED vars

Next ==
    \/ \E e \in Ends :
            \/ SendStatus(e)
            \/ ReceiveStatus(e)
            \/ StreamEnds(e)
            \/ StreamFails(e)
            \/ TimesOut(e)
    \/ SendForeign
    \/ Finished

Spec == Init /\ [][Next]_vars

(***************************************************************************)
(* tokio's timer fires; nothing is assumed of the network or the peer.     *)
(***************************************************************************)
Fairness == \A e \in Ends : WF_vars(TimesOut(e))

FairSpec == Spec /\ Fairness

-----------------------------------------------------------------------------
(***************************************************************************)
(* Properties                                                              *)
(***************************************************************************)

Verdicts == {"MismatchedGenesis", "MismatchedProtocolVersion", "MismatchedChain",
             "TotalDifficultyBitLenTooLarge", "InvalidFork",
             "EarliestBlockGreaterThanLatestBlock", "BlockhashZero", "InvalidMessage",
             "MessageTooBig"}

\* A session is opened only with a node on the same network whose fork id
\* agrees with ours: whatever the other end sends and in whichever encoding, an
\* accepted status has our genesis, chain and version, a compatible fork id,
\* and a range of blocks with a head if it has a range at all.
AcceptedAreOurKind ==
    \A e \in Ours : \A s \in accepted[e] :
        /\ s.genesis = status[e].genesis
        /\ s.chain = status[e].chain
        /\ s.version = status[e].version
        /\ fork_filter_accepts(position[e].schedule, position[e].head, s.forkid)
        /\ s.version = Eth69 => /\ unwrap_or(s.earliest, 1) <= unwrap_or(s.latest, 0)
                                /\ s.blockhash # 0

\* Two nodes of this kind turn each other down only for a real difference,
\* another network or other Ethereum forks: not for a total difficulty or a range that
\* one of them does not know, not because one cannot read what the other
\* sends, and not because one is behind, ahead, or lists its forks otherwise;
\* nobody turns down the latest fork id of its own schedule.
RejectionsAreReal ==
    ~foreign => \A e \in Ends :
        /\ result[e] \in Verdicts =>
            \/ status[1].genesis # status[2].genesis
            \/ status[1].chain # status[2].chain
            \/ EthereumForks(position[1].schedule) # EthereumForks(position[2].schedule)
        /\ fork_filter_accepts(position[e].schedule, position[e].head,
                               latest_fork_id(position[e].schedule))

\* When two nodes of this kind judge each other differently, the fork filters
\* are the reason: no other check passes one way and fails the other.
SplitOnlyByFork ==
    ~foreign => \A e \in Ends :
        result[e] = "ok" /\ result[Peer(e)] \in Verdicts
            => result[Peer(e)] = "InvalidFork"

LowerHead == Min({position[e].head : e \in Ends})

BothAccept == ~foreign /\ \A e \in Ends : result[e] = "ok"

\* Two nodes of this kind that accept each other have passed the same Ethereum
\* forks as far as both have come.  Nothing of the kind holds of the Bor forks,
\* which eth_fork_blocks leaves out for the sake of Go-Bor.
PeersShareEthereumForks ==
    BothAccept =>
        LET Lived(e) == EthereumForks(position[e].schedule) \cap 0..LowerHead
        IN  Lived(1) = Lived(2)

\* The handshake returns, whatever the other end does or fails to do.
HandshakeEnds == <>(\A e \in Ours : pc[e] = "done")

-----------------------------------------------------------------------------
(***************************************************************************)
(* Why the properties hold: between two nodes of this kind the one message *)
(* that arrives is the other's status, encoded in a form the receiver      *)
(* reads; a verdict then comes down to the networks and the fork filter.   *)
(***************************************************************************)
StatusType ==
    [version : {Eth68, Eth69}, chain : {n.chain : n \in Networks},
     genesis : {n.genesis : n \in Networks}, forkid : [hash : SUBSET Nat, next : Nat],
     td : SUBSET Nat, earliest : SUBSET Nat, latest : SUBSET Nat, blockhash : {0, 1}]

TypeOK ==
    /\ foreign \in BOOLEAN
    /\ position \in [Ends -> Positions]
    /\ status \in [Ends -> StatusType]
    /\ wire = [e \in Ends |-> wire[e]]
    /\ pc = [e \in Ends |-> pc[e]]
    /\ result = [e \in Ends |-> result[e]]
    /\ accepted = [e \in Ends |-> accepted[e]]
    /\ told = [e \in Ends |-> told[e]]

OwnStatusOK(e) ==
    /\ status[e].forkid = ForkIdAt(position[e])
    /\ status[e].td \in {{}, {MaxTd}}
    /\ \/ status[e].earliest = {} /\ status[e].latest = {}
       \/ status[e].earliest = {0} /\ status[e].latest = {1}
    /\ status[e].blockhash = 1

\* What may arrive at an end that runs this code.
Arriving(e) == IF foreign THEN ForeignMessages ELSE {Encode(status[Peer(e)])}

SameNetwork ==
    status[1].genesis = status[2].genesis /\ status[1].chain = status[2].chain

Compatible(e) ==
    fork_filter_accepts(position[e].schedule, position[e].head, ForkIdAt(position[Peer(e)]))

\* What an end of two of this kind may conclude.
IsFounded(e, outcome) ==
    /\ outcome = "ok" => SameNetwork /\ Compatible(e)
    /\ outcome \in Verdicts =>
        \/ outcome = "MismatchedGenesis" /\ status[1].genesis # status[2].genesis
        \/ outcome = "MismatchedChain" /\ status[1].chain # status[2].chain
        \/ outcome = "InvalidFork" /\ ~Compatible(e)

\* The inductive invariant of the handshake.
HandshakeInv ==
    /\ TypeOK
    /\ \A e \in Ends : OwnStatusOK(e)
    /\ status[1].version = status[2].version
    /\ \A e \in Ours : wire[e] \in Seq(Arriving(e))
    /\ AcceptedAreOurKind
    /\ ~foreign => \A e \in Ends : IsFounded(e, result[e])

=============================================================================
