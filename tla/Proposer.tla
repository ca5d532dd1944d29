------------------------------ MODULE Proposer ------------------------------
(***************************************************************************)
(* bor-consensus/src/proposer.rs: weighted round-robin selection of the    *)
(* block proposer.  A validator is an index into the validator set.        *)
(***************************************************************************)
EXTENDS Integers

CONSTANTS
    Count,      \* the number of validators
    Powers      \* the voting powers they may have

ASSUME ProposerAssumption == Count \in Nat \ {0} /\ Powers \subseteq Nat

Validators == 1..Count

VARIABLES
    voting_power,       \* of each validator, fixed
    proposer_priority,  \* of each validator
    proposer,           \* the validator selected last, 0 before the first
    selected            \* how often each was selected in the current cycle

vars == <<voting_power, proposer_priority, proposer, selected>>

\* The sum of the first k values of f, as a function of k, and of all.
UpTo(f) ==
    LET sum[k \in 0..Count] == IF k = 0 THEN 0 ELSE sum[k - 1] + f[k]
    IN  sum

Total(f) == UpTo(f)[Count]

total_voting_power == Total(voting_power)

\* A fresh validator set with some power in it.
Init ==
    /\ voting_power \in [Validators -> Powers]
    /\ total_voting_power > 0
    /\ proposer_priority = [v \in Validators |-> 0]
    /\ proposer = 0
    /\ selected = [v \in Validators |-> 0]

\* Step 1: every priority grows by the voting power.
Incremented == [v \in Validators |-> proposer_priority[v] + voting_power[v]]

\* Mutant of SelectedIndex: the least priority is taken.
SelectedIndex_Least(priority) ==
    CHOOSE v \in Validators : \A u \in Validators : priority[v] <= priority[u]

\* Step 2: Iterator::max_by_key, which returns the last of equal maxima.
SelectedIndex(priority) ==
    CHOOSE v \in Validators :
        \A u \in Validators : /\ priority[u] <= priority[v]
                              /\ u > v => priority[u] < priority[v]

\* A cycle is as many selections as there is voting power in total.
CycleComplete == Total(selected) = total_voting_power

Counted(v) ==
    [u \in Validators |-> (IF CycleComplete THEN 0 ELSE selected[u])
                            + (IF u = v THEN 1 ELSE 0)]

\* Mutant of select_proposer: the proposer pays its own power only.
select_proposer_PayOwn ==
    LET idx == SelectedIndex(Incremented)
    IN  /\ proposer_priority' = [Incremented EXCEPT ![idx] = @ - voting_power[idx]]
        /\ proposer' = idx
        /\ selected' = Counted(idx)
        /\ UNCHANGED voting_power

\* Mutant of select_proposer: the priorities are not incremented first.
select_proposer_PayFirst ==
    LET idx == SelectedIndex(proposer_priority)
    IN  /\ proposer_priority' = [Incremented EXCEPT ![idx] = @ - total_voting_power]
        /\ proposer' = idx
        /\ selected' = Counted(idx)
        /\ UNCHANGED voting_power

\* Steps 3 and 4: the selected validator pays the total voting power and
\* becomes the proposer.  get_sprint_producer does the same once per sprint.
select_proposer ==
    LET idx == SelectedIndex(Incremented)
    IN  /\ proposer_priority' = [Incremented EXCEPT ![idx] = @ - total_voting_power]
        /\ proposer' = idx
        /\ selected' = Counted(idx)
        /\ UNCHANGED voting_power

Next == select_proposer

Spec == Init /\ [][Next]_vars

(***************************************************************************)
(* A proposer is selected for every sprint.                                *)
(***************************************************************************)
FairSpec == Spec /\ WF_vars(select_proposer)

-----------------------------------------------------------------------------

\* A priority is what its validator is owed: the selections its power earned
\* in this cycle less the ones it had.  Nobody runs ahead of its share by a
\* whole selection; with the debts of all adding up to nothing, nobody falls
\* behind by one for every other validator, and the i64 arithmetic of long
\* runs stays that close to zero.
PrioritiesAreBoundedDebts ==
    \A v \in Validators :
        /\ proposer_priority[v] = Total(selected) * voting_power[v]
                                    - selected[v] * total_voting_power
        /\ proposer_priority[v] > -total_voting_power
        /\ proposer_priority[v] <= (Count - 1) * (total_voting_power - 1)

\* At the end of every cycle each validator was selected as often as it has
\* voting power, and the priorities are back where they started.
CycleIsProportional ==
    CycleComplete =>
        /\ selected = voting_power
        /\ \A v \in Validators : proposer_priority[v] = 0

\* Whoever has voting power is selected again and again; who has none never.
EveryoneGetsATurn ==
    \A v \in Validators :
        /\ voting_power[v] > 0 => []<>(proposer = v)
        /\ voting_power[v] = 0 => [](proposer # v)

-----------------------------------------------------------------------------
(***************************************************************************)
(* Why the properties hold: priorities always add up to zero, so that      *)
(* whoever is selected after the increment has a positive priority and     *)
(* does not fall below the total by paying it.                             *)
(***************************************************************************)
TypeOK ==
    /\ voting_power \in [Validators -> Nat]
    /\ proposer_priority \in [Validators -> Int]
    /\ proposer \in 0..Count
    /\ selected \in [Validators -> Nat]

Owed(v) == Total(selected) * voting_power[v] - selected[v] * total_voting_power

\* The inductive invariant of the selection.
ProposerInv ==
    /\ TypeOK
    /\ total_voting_power > 0
    /\ Total(selected) <= total_voting_power
    /\ Total(proposer_priority) = 0
    /\ \A v \in Validators : proposer_priority[v] = Owed(v)
    /\ \A v \in Validators : proposer_priority[v] > -total_voting_power
    /\ proposer # 0 => voting_power[proposer] > 0

=============================================================================
