------------------------- MODULE ChainImportProofs -------------------------
(***************************************************************************)
(* The imported chain, for every set of signers, every assignment of       *)
(* validator sets to spans, every span size and cache size, and every      *)
(* slack of unwinding: no double signing and the refinement of SignedChain *)
(* where the windows are nested; a bounded recents, whatever the windows;  *)
(* somebody free to sign where three validators or more are; no rejection  *)
(* without reason where the cache holds every span.                        *)
(***************************************************************************)
EXTENDS ChainImport, NatInduction, SequenceTheorems

\* The window of a block is a positive number.
LEMMA WindowType ==
    ASSUME NEW n \in 1..MaxBlock
    PROVE  /\ WindowAt(n) \in Nat \ {0}
           /\ WindowStart(n) \in Nat
           /\ \A i \in Nat : i < n => (WindowStart(n) <= i <=> n - i <= WindowAt(n))
  <1>1. span_id_at(n, SpanSize) \in SpanIds
    BY ChainImportAssumption
  <1>2. IsFiniteSet(ValidatorsAt(n))
    BY <1>1, BorConsensusAssumption DEF ValidatorsAt
  <1>3. Cardinality(ValidatorsAt(n)) \in Nat
    BY <1>2, FS_CardinalityType
  <1>4. WindowAt(n) \in Nat \ {0}
    BY <1>3 DEF WindowAt, Window
  <1>5. n \in Nat
    BY ChainImportAssumption
  <1> QED BY <1>4, <1>5 DEF WindowStart, SaturatingSub

\* What the anti-double-sign check looks at, when it is made with the
\* validators of the block's span.
LEMMA CheckMeaning ==
    ASSUME NEW n \in 1..MaxBlock, NEW s,
           ~is_recently_signed(signers, s, n, Cardinality(ValidatorsAt(n)))
    PROVE  \A i \in DOMAIN signers : WindowStart(n) <= i /\ i < n => signers[i] # s
  BY DEF is_recently_signed, WindowStart, WindowAt

\* What recording keeps: the new entry, and the old ones from the window's
\* start on.
LEMMA RecordMeaning ==
    ASSUME NEW n \in 1..MaxBlock, NEW s, DOMAIN signers \subseteq Nat,
           signers' = prune(add_signer(signers, n, s), n, Cardinality(ValidatorsAt(n)))
    PROVE  /\ DOMAIN signers' = {b \in DOMAIN signers \cup {n} : WindowStart(n) <= b}
           /\ \A b \in DOMAIN signers' : signers'[b] = IF b = n THEN s ELSE signers[b]
           /\ DOMAIN signers' \subseteq Nat
           /\ n \in DOMAIN signers'
  <1>1. WindowStart(n) \in Nat /\ n \in Nat /\ WindowStart(n) <= n
    <2>1. WindowAt(n) \in Nat /\ n \in Nat
      BY WindowType, ChainImportAssumption
    <2> QED BY <2>1 DEF WindowStart, SaturatingSub
  <1> DEFINE a == add_signer(signers, n, s)
             keep == {b \in DOMAIN a : WindowStart(n) <= b}
  <1>2. /\ DOMAIN a = DOMAIN signers \cup {n}
        /\ \A b \in DOMAIN a : a[b] = IF b = n THEN s ELSE signers[b]
    BY DEF add_signer
  <1>3. {b \in DOMAIN a : b >= WindowStart(n)} = keep
    BY <1>1, <1>2
  <1>4. signers' = [b \in keep |-> a[b]]
    BY <1>3 DEF prune, WindowStart, WindowAt
  <1> HIDE DEF a
  <1> QED BY <1>1, <1>2, <1>4

-----------------------------------------------------------------------------
(***************************************************************************)
(* CoreInv is inductive.                                                   *)
(***************************************************************************)

\* The initial state satisfies the invariants.
LEMMA InitImportInv == Init => ImportInv /\ RecentsAreTrue
  <1> SUFFICES ASSUME Init PROVE ImportInv /\ RecentsAreTrue
    OBVIOUS
  <1>1. /\ DOMAIN spans = {} /\ DOMAIN signers = {}
        /\ call = [t \in Threads |-> Idle]
        /\ imported = <<>> /\ top = 0
    BY DEF Init, EngineInit, Cache!Init
  <1>2. TypeOK
    BY <1>1, ChainImportAssumption DEF TypeOK, Calls, Pcs, Idle
  <1>3. \A t \in Threads : call[t].pc = "idle"
    BY <1>1 DEF Idle
  <1>4. DOMAIN imported = {} /\ Len(imported) = 0
    BY <1>1
  <1>5. HeadNearTop
    BY <1>1, <1>4, ChainImportAssumption DEF HeadNearTop, NextNumber
  <1>6. CacheIsHonest /\ RecentsInRange
    BY <1>1 DEF CacheIsHonest, RecentsInRange
  <1>7. CallIsCurrent /\ CheckStillHolds /\ AcceptedIsRecorded
    BY <1>3 DEF CallIsCurrent, CheckStillHolds, AcceptedIsRecorded
  <1>8. RecentsCoverWindows /\ NoDoubleSign
    BY <1>4 DEF RecentsCoverWindows, NoDoubleSign
  <1>9. RecentsAreTrue
    BY <1>1, <1>3 DEF RecentsAreTrue
  <1> QED BY <1>2, <1>5, <1>6, <1>7, <1>8, <1>9 DEF ImportInv, CoreInv

\* Storing a span leaves the cache honest.
LEMMA InsertHonest ==
    ASSUME CacheIsHonest, NEW id \in SpanIds, Cache!insert(HeimdallSpan(id))
    PROVE  CacheIsHonest'
  <1> DEFINE span == HeimdallSpan(id)
  <1>1. span.id = id
    BY DEF HeimdallSpan
  <1>2. CASE Cache!Replace(span)
    BY <1>1, <1>2 DEF CacheIsHonest, Cache!Replace, Cache!contains, HeimdallSpan
  <1>3. CASE Cache!Add(span)
    BY <1>1, <1>3 DEF CacheIsHonest, Cache!Add, HeimdallSpan
  <1> QED BY <1>2, <1>3 DEF Cache!insert

\* The engine has one caller.
LEMMA OneThread ==
    ASSUME NEW t \in Threads, NEW u \in Threads
    PROVE  u = t
  BY ChainImportAssumption

\* A step that leaves the chain, recents and calls alone, the cache honest.
LEMMA CacheSpanCore ==
    ASSUME CoreInv, CacheSpan
    PROVE  CoreInv'
  <1>1. /\ signers' = signers /\ call' = call /\ imported' = imported /\ top' = top
        /\ \E id \in SpanIds : Cache!insert(HeimdallSpan(id))
    BY DEF CacheSpan, insert_span
  <1>2. CacheIsHonest'
    BY <1>1, InsertHonest DEF CoreInv
  <1> QED BY <1>1, <1>2
      DEF CoreInv, TypeOK, CallIsCurrent, HeadNearTop, NextNumber, AcceptedIsRecorded,
          RecentsInRange

\* Beginning a validation: the call is about the next block; its check is
\* skipped only if the span is not cached, and made only if it is and the
\* signer is one of its validators.
LEMMA OfferBlockShape ==
    ASSUME CoreInv, NEW t \in Threads, OfferBlock(t)
    PROVE  LET id == span_id_at(NextNumber, SpanSize)
           IN  /\ signers' = signers /\ imported' = imported /\ top' = top /\ spans' = spans
               /\ NextNumber \in 1..MaxBlock
               /\ call' \in [Threads -> Calls]
               /\ \A u \in Threads :
                    /\ call'[u].pc \in {"check", "skipped", "rejected"}
                    /\ call'[u].pc # "rejected" =>
                            call'[u].number = NextNumber /\ call'[u].signer \in Signers
                    /\ call'[u].pc = "check" =>
                            /\ Cache!contains(id)
                            /\ call'[u].validators = ValidatorsAt(NextNumber)
                            /\ call'[u].signer \in ValidatorsAt(NextNumber)
                    /\ call'[u].pc = "skipped" => ~Cache!contains(id)
  <1> PICK signer \in Signers, form \in BlockForms :
            BeginValidation(t, NextNumber, signer, form)
    BY DEF OfferBlock
  <1>1. /\ signers' = signers /\ imported' = imported /\ top' = top
        /\ NextNumber \in 1..MaxBlock
        /\ spans' = spans
    BY ChainImportAssumption
    DEF OfferBlock, BeginValidation, RejectMalformed, LookUpSpan, Cache!get,
        NextNumber, CoreInv, TypeOK
  <1>2. CASE RejectMalformed(t, NextNumber, signer, form)
    <2> DEFINE c == [Idle EXCEPT !.pc = "rejected", !.number = NextNumber]
    <2>a. NextNumber \in Nat
      BY <1>1
    <2>b. c \in Calls /\ c.pc = "rejected"
      BY <2>a DEF Calls, Pcs, Idle
    <2>c. call' = [call EXCEPT ![t] = c]
      BY <1>2 DEF RejectMalformed
    <2> HIDE DEF c
    <2>1. /\ call' \in [Threads -> Calls]
          /\ \A u \in Threads : call'[u].pc = "rejected"
      BY <2>b, <2>c, OneThread DEF CoreInv, TypeOK
    <2> QED BY <1>1, <2>1
  <1>3. CASE LookUpSpan(t, NextNumber, signer, form)
    <2> DEFINE id == span_id_at(NextNumber, SpanSize)
               vs == IF Cache!contains(id) THEN authorized_signers(NextNumber) ELSE {}
    <2>1. Cache!contains(id) => vs = ValidatorsAt(NextNumber)
      BY DEF CoreInv, CacheIsHonest, Cache!contains, authorized_signers,
             HeimdallSpan, ValidatorsAt
    <2>2. vs \in SUBSET Signers
      BY <1>1, <2>1, BorConsensusAssumption, ChainImportAssumption DEF ValidatorsAt
    <2>3. PICK pc \in {"check", "skipped", "rejected"} :
            /\ call' = [call EXCEPT ![t] = [pc |-> pc, number |-> NextNumber,
                                            signer |-> signer, validators |-> vs]]
            /\ pc = "check" => Cache!contains(id) /\ signer \in vs
            /\ pc = "skipped" => ~Cache!contains(id)
      BY <1>3 DEF LookUpSpan
    <2> HIDE DEF vs, id
    <2>4. /\ call' \in [Threads -> Calls]
          /\ \A u \in Threads : /\ call'[u].pc = pc
                                /\ call'[u].number = NextNumber
                                /\ call'[u].signer = signer
                                /\ call'[u].validators = vs
      BY <1>1, <2>2, <2>3, OneThread DEF CoreInv, TypeOK, Calls, Pcs
    <2> QED BY <1>1, <2>1, <2>3, <2>4 DEF id
  <1> QED BY <1>2, <1>3 DEF BeginValidation

\* Beginning a validation keeps CoreInv.
LEMMA OfferBlockCore ==
    ASSUME CoreInv, NEW t \in Threads, OfferBlock(t)
    PROVE  CoreInv'
  <1>1. /\ signers' = signers /\ imported' = imported /\ top' = top /\ spans' = spans
        /\ NextNumber' = NextNumber /\ NextNumber \in 1..MaxBlock
        /\ call' \in [Threads -> Calls]
        /\ \A u \in Threads :
                    /\ call'[u].pc \in {"check", "skipped", "rejected"}
                    /\ call'[u].pc # "rejected" =>
                            call'[u].number = NextNumber /\ call'[u].signer \in Signers
                    /\ call'[u].pc = "check" =>
                            /\ call'[u].validators = ValidatorsAt(NextNumber)
                            /\ call'[u].signer \in ValidatorsAt(NextNumber)
    BY OfferBlockShape DEF NextNumber
  <1>2. CallIsCurrent'
    BY <1>1, ChainImportAssumption DEF CallIsCurrent
  <1> QED BY <1>1, <1>2
      DEF CoreInv, TypeOK, HeadNearTop, CacheIsHonest, AcceptedIsRecorded, RecentsInRange

\* The check moves the call on to recording only if it found nothing.
LEMMA CheckShape ==
    ASSUME CoreInv, NEW t \in Threads, Check(t)
    PROVE  LET n == NextNumber
           IN  /\ signers' = signers /\ imported' = imported /\ top' = top /\ spans' = spans
               /\ call[t].pc = "check"
               /\ n \in 1..MaxBlock /\ n = Len(imported) + 1
               /\ Len(imported) \in Nat /\ DOMAIN imported = 1..Len(imported)
               /\ call[t].number = n
               /\ call' \in [Threads -> Calls]
               /\ \A u \in Threads :
                    /\ call'[u].number = call[u].number
                    /\ call'[u].signer = call[u].signer
                    /\ call'[u].validators = call[u].validators
                    /\ \/ /\ call'[u].pc = "rejected"
                          /\ is_recently_signed(signers, call[u].signer, n,
                                                Cardinality(ValidatorsAt(n)))
                       \/ /\ call'[u].pc = "record"
                          /\ ~is_recently_signed(signers, call[u].signer, n,
                                                 Cardinality(ValidatorsAt(n)))
  <1> DEFINE n == NextNumber
             recent == is_recently_signed(signers, call[t].signer, n,
                                          Cardinality(ValidatorsAt(n)))
  <1>1. /\ signers' = signers /\ imported' = imported /\ top' = top /\ spans' = spans
        /\ call[t].pc = "check"
        /\ call[t] \in Calls
    BY DEF Check, CheckRecents, CoreInv, TypeOK
  <1>2. /\ n \in 1..MaxBlock
        /\ call[t].number = n
        /\ call[t].validators = ValidatorsAt(n)
        /\ Len(imported) \in Nat /\ n = Len(imported) + 1
        /\ DOMAIN imported = 1..Len(imported)
    BY <1>1, ChainImportAssumption DEF CoreInv, CallIsCurrent, NextNumber, TypeOK
  <1>3. call' = [call EXCEPT ![t].pc = IF recent THEN "rejected" ELSE "record"]
    BY <1>1, <1>2 DEF Check, CheckRecents
  <1>4. \A u \in Threads : u = t
    BY OneThread
  <1> HIDE DEF recent
  <1>5. /\ call' \in [Threads -> Calls]
        /\ \A u \in Threads : /\ call'[u].pc = IF recent THEN "rejected" ELSE "record"
                              /\ call'[u].number = call[u].number
                              /\ call'[u].signer = call[u].signer
                              /\ call'[u].validators = call[u].validators
    BY <1>1, <1>3, <1>4 DEF CoreInv, TypeOK, Calls, Pcs
  <1> QED BY <1>1, <1>2, <1>4, <1>5 DEF recent

\* The check keeps CoreInv.
LEMMA CheckCore ==
    ASSUME CoreInv, NEW t \in Threads, Check(t)
    PROVE  CoreInv'
  <1>1. /\ signers' = signers /\ imported' = imported /\ top' = top /\ spans' = spans
        /\ NextNumber' = NextNumber
        /\ call[t].pc = "check"
        /\ call' \in [Threads -> Calls]
        /\ \A u \in Threads :
                /\ call'[u].number = call[u].number
                /\ call'[u].signer = call[u].signer
                /\ call'[u].validators = call[u].validators
                /\ call'[u].pc \in {"rejected", "record"}
    BY CheckShape DEF NextNumber
  <1>2. \A u \in Threads : u = t
    BY OneThread
  <1>3. CallIsCurrent'
    BY <1>1, <1>2 DEF CoreInv, CallIsCurrent
  <1>4. AcceptedIsRecorded'
    BY <1>1 DEF AcceptedIsRecorded
  <1> QED BY <1>1, <1>3, <1>4
      DEF CoreInv, TypeOK, HeadNearTop, CacheIsHonest, RecentsInRange

\* Recording accepts the block, puts its signer on record and prunes for it.
LEMMA RecordShape ==
    ASSUME CoreInv, NEW t \in Threads, Record(t)
    PROVE  LET n == NextNumber
           IN  /\ imported' = imported /\ spans' = spans
               /\ call[t].pc = "record"
               /\ n \in 1..MaxBlock /\ n = Len(imported) + 1
               /\ Len(imported) \in Nat /\ DOMAIN imported = 1..Len(imported)
               /\ DOMAIN signers' = {b \in DOMAIN signers \cup {n} : WindowStart(n) <= b}
               /\ \A b \in DOMAIN signers' :
                        signers'[b] = IF b = n THEN call[t].signer ELSE signers[b]
               /\ DOMAIN signers' \subseteq Nat
               /\ n \in DOMAIN signers'
               /\ top \in Nat /\ top' = IF n > top THEN n ELSE top
               /\ call' \in [Threads -> Calls]
               /\ \A u \in Threads : /\ call'[u].pc = "accepted"
                                     /\ call'[u].number = call[u].number
                                     /\ call'[u].signer = call[u].signer
                                     /\ call'[u].validators = call[u].validators
  <1> DEFINE n == NextNumber
             s == call[t].signer
  <1>1. /\ imported' = imported /\ spans' = spans
        /\ call[t].pc = "record" /\ call[t] \in Calls
        /\ call' = [call EXCEPT ![t].pc = "accepted"]
    BY DEF Record, RecordSigner, CoreInv, TypeOK
  <1>2. /\ n \in 1..MaxBlock
        /\ call[t].number = n
        /\ call[t].validators = ValidatorsAt(n)
        /\ Len(imported) \in Nat /\ n = Len(imported) + 1
        /\ DOMAIN imported = 1..Len(imported)
        /\ top \in Nat
    BY <1>1, ChainImportAssumption DEF CoreInv, CallIsCurrent, NextNumber, TypeOK
  <1>3. signers' = prune(add_signer(signers, n, s), n, Cardinality(ValidatorsAt(n)))
    BY <1>2 DEF Record, RecordSigner
  <1>4. /\ DOMAIN signers' = {b \in DOMAIN signers \cup {n} : WindowStart(n) <= b}
        /\ \A b \in DOMAIN signers' : signers'[b] = IF b = n THEN s ELSE signers[b]
        /\ DOMAIN signers' \subseteq Nat
        /\ n \in DOMAIN signers'
    BY <1>2, <1>3, RecordMeaning DEF CoreInv, TypeOK
  <1>5. top' = IF n > top THEN n ELSE top
    BY <1>2 DEF Record
  <1>6. /\ call' \in [Threads -> Calls]
        /\ \A u \in Threads : /\ call'[u].pc = "accepted"
                              /\ call'[u].number = call[u].number
                              /\ call'[u].signer = call[u].signer
                              /\ call'[u].validators = call[u].validators
    BY <1>1, OneThread DEF CoreInv, TypeOK, Calls, Pcs
  <1> QED BY <1>1, <1>2, <1>4, <1>5, <1>6

\* Recording keeps CoreInv: pruning leaves the window of this block, and
\* nothing lies further above the block than an unwind reaches.
LEMMA RecordCore ==
    ASSUME CoreInv, NEW t \in Threads, Record(t)
    PROVE  CoreInv'
  <1> DEFINE n == NextNumber
  <1>1. /\ imported' = imported /\ spans' = spans /\ n' = n
        /\ call[t].pc = "record"
        /\ n \in 1..MaxBlock /\ MaxBlock \in Nat /\ UnwindSlack \in Nat
        /\ DOMAIN signers' = {b \in DOMAIN signers \cup {n} : WindowStart(n) <= b}
        /\ \A b \in DOMAIN signers' :
                signers'[b] = IF b = n THEN call[t].signer ELSE signers[b]
        /\ DOMAIN signers' \subseteq Nat
        /\ n \in DOMAIN signers'
        /\ top \in Nat /\ top' = IF n > top THEN n ELSE top
        /\ call' \in [Threads -> Calls]
        /\ \A u \in Threads : /\ call'[u].pc = "accepted"
                              /\ call'[u].number = call[u].number
                              /\ call'[u].signer = call[u].signer
                              /\ call'[u].validators = call[u].validators
    BY RecordShape, ChainImportAssumption DEF NextNumber
  <1>2. \A u \in Threads : u = t
    BY OneThread
  <1>3. n \in Nat /\ top' \in Nat /\ top' >= n /\ top' >= top
    BY <1>1
  <1>4. top <= n + UnwindSlack
    BY <1>1 DEF CoreInv, HeadNearTop
  <1>5. top' <= n + UnwindSlack
    BY <1>1, <1>3, <1>4
  <1> HIDE DEF n
  <1>6. CallIsCurrent'
    <2>1. CallIsCurrent /\ n = NextNumber /\ n' = NextNumber'
      BY DEF CoreInv, n
    <2> QED BY <1>1, <1>2, <2>1 DEF CallIsCurrent
  <1>7. AcceptedIsRecorded'
    <2>1. n' = NextNumber'
      BY DEF n
    <2> QED BY <1>1, <1>2, <2>1 DEF AcceptedIsRecorded
  <1>8. HeadNearTop'
    <2>1. n' = NextNumber'
      BY DEF n
    <2> QED BY <1>1, <1>3, <1>5, <2>1 DEF HeadNearTop
  <1>9. RecentsInRange'
    <2>1. DOMAIN signers \subseteq 1..top
      BY DEF CoreInv, RecentsInRange
    <2>2. WindowStart(n) \in Nat
      BY <1>1, WindowType
    <2>3. DOMAIN signers' \subseteq 1..top'
      BY <1>1, <1>3, <2>1
    <2>4. DOMAIN signers' \subseteq WindowStart(n)..(n + UnwindSlack)
      BY <1>1, <1>3, <1>4, <2>1, <2>2
    <2> QED BY <1>1, <2>3, <2>4 DEF RecentsInRange
  <1> QED BY <1>1, <1>3, <1>6, <1>7, <1>8, <1>9 DEF CoreInv, TypeOK, CacheIsHonest

\* A step that only gives the thread back, with the chain as it was.
LEMMA TakeAnswerCore ==
    ASSUME CoreInv, NEW t \in Threads, TakeAnswer(t), imported' = imported, top' = top
    PROVE  /\ CoreInv'
           /\ signers' = signers /\ spans' = spans
           /\ \A u \in Threads : call'[u].pc = "idle"
  <1>1. /\ signers' = signers /\ spans' = spans
        /\ call' \in [Threads -> Calls]
        /\ \A u \in Threads : call'[u].pc = "idle"
    BY OneThread DEF TakeAnswer, CoreInv, TypeOK, Calls, Pcs, Idle
  <1> QED BY <1>1
      DEF CoreInv, TypeOK, CallIsCurrent, HeadNearTop, NextNumber, CacheIsHonest,
          AcceptedIsRecorded, RecentsInRange

\* The chain grows by the block of the call, which is checked if the engine
\* recorded it.
LEMMA ImportBlockShape ==
    ASSUME CoreInv, NEW t \in Threads, ImportBlock(t)
    PROVE  LET n == NextNumber
           IN  /\ call[t].pc \in {"accepted", "skipped"}
               /\ signers' = signers /\ spans' = spans /\ top' = top
               /\ call' \in [Threads -> Calls]
               /\ \A u \in Threads : call'[u].pc = "idle"
               /\ n \in 1..MaxBlock /\ n = Len(imported) + 1
               /\ Len(imported) \in Nat /\ DOMAIN imported = 1..Len(imported)
               /\ imported' \in Seq([signer : Signers, checked : BOOLEAN])
               /\ Len(imported') = n /\ DOMAIN imported' = 1..n
               /\ \A i \in 1..Len(imported) : imported'[i] = imported[i]
               /\ imported'[n].signer = call[t].signer
               /\ imported'[n].checked => call[t].pc = "accepted"
  <1> DEFINE n == NextNumber
             blk == [signer |-> call[t].signer, checked |-> call[t].pc = "accepted"]
  <1>1. /\ call[t].pc \in {"accepted", "skipped"}
        /\ signers' = signers /\ spans' = spans /\ top' = top
        /\ imported' = Append(imported, blk)
    BY DEF ImportBlock, TakeAnswer
  <1>2. /\ call' \in [Threads -> Calls]
        /\ \A u \in Threads : call'[u].pc = "idle"
    BY OneThread DEF ImportBlock, TakeAnswer, CoreInv, TypeOK, Calls, Pcs, Idle
  <1>3. /\ n \in 1..MaxBlock /\ call[t].signer \in Signers
        /\ Len(imported) \in Nat /\ n = Len(imported) + 1
        /\ DOMAIN imported = 1..Len(imported)
    BY <1>1, ChainImportAssumption DEF CoreInv, CallIsCurrent, NextNumber, TypeOK
  <1>4. blk \in [signer : Signers, checked : BOOLEAN]
    BY <1>3
  <1>5. /\ imported' \in Seq([signer : Signers, checked : BOOLEAN])
        /\ Len(imported') = n
        /\ DOMAIN imported' = 1..n
        /\ \A i \in 1..Len(imported) : imported'[i] = imported[i]
        /\ imported'[n] = blk
    BY <1>1, <1>3, <1>4 DEF CoreInv, TypeOK
  <1>6. imported'[n].checked => call[t].pc = "accepted"
    <2>1. blk.checked => call[t].pc = "accepted"
      OBVIOUS
    <2> QED BY <1>5, <2>1
  <1>7. imported'[n].signer = call[t].signer
    BY <1>5
  <1> QED BY <1>1, <1>2, <1>3, <1>5, <1>6, <1>7

\* Importing keeps CoreInv.
LEMMA ImportBlockCore ==
    ASSUME CoreInv, NEW t \in Threads, ImportBlock(t)
    PROVE  CoreInv'
  <1> DEFINE n == NextNumber
  <1>1. /\ signers' = signers /\ spans' = spans /\ top' = top
        /\ call' \in [Threads -> Calls]
        /\ \A u \in Threads : call'[u].pc = "idle"
        /\ n \in 1..MaxBlock /\ n' = n + 1 /\ Len(imported') = n
        /\ imported' \in Seq([signer : Signers, checked : BOOLEAN])
    BY ImportBlockShape DEF NextNumber
  <1>2. top \in Nat /\ UnwindSlack \in Nat /\ MaxBlock \in Nat
    BY ChainImportAssumption DEF CoreInv, TypeOK
  <1>3. TypeOK' /\ CacheIsHonest' /\ RecentsInRange'
    BY <1>1, <1>2 DEF CoreInv, TypeOK, CacheIsHonest, RecentsInRange
  <1>4. CallIsCurrent' /\ AcceptedIsRecorded'
    BY <1>1 DEF CallIsCurrent, AcceptedIsRecorded
  <1>5. HeadNearTop'
    BY <1>1, <1>2 DEF CoreInv, HeadNearTop
  <1> QED BY <1>3, <1>4, <1>5 DEF CoreInv

\* The head is taken back.
LEMMA UnwindShape ==
    ASSUME CoreInv, Unwind
    PROVE  LET l == Len(imported)
           IN  /\ signers' = signers /\ spans' = spans /\ top' = top /\ call' = call
               /\ \A t \in Threads : call[t].pc = "idle"
               /\ l \in Nat /\ l > 0 /\ l <= MaxBlock /\ l + UnwindSlack >= top
               /\ DOMAIN imported = 1..l
               /\ imported' \in Seq([signer : Signers, checked : BOOLEAN])
               /\ Len(imported') = l - 1 /\ DOMAIN imported' = 1..(l - 1)
               /\ \A i \in 1..(l - 1) : i \in DOMAIN imported /\ imported'[i] = imported[i]
  <1> DEFINE l == Len(imported)
  <1>1. /\ signers' = signers /\ spans' = spans /\ top' = top /\ call' = call
        /\ imported' = SubSeq(imported, 1, l - 1)
        /\ \A t \in Threads : call[t].pc = "idle"
        /\ l + UnwindSlack >= top
        /\ imported # <<>>
    BY DEF Unwind
  <1>2. l \in Nat /\ l > 0 /\ l <= MaxBlock /\ DOMAIN imported = 1..l
    BY <1>1, ChainImportAssumption DEF CoreInv, TypeOK
  <1>3. imported \in Seq([signer : Signers, checked : BOOLEAN])
    BY DEF CoreInv, TypeOK
  <1>4. \A i \in 1..(l - 1) : imported[i] \in [signer : Signers, checked : BOOLEAN]
    <2>1. \A i \in 1..(l - 1) : i \in 1..l
      BY <1>2
    <2> QED BY <1>3, <2>1, ElementOfSeq
  <1> HIDE DEF l
  <1>5. 1 \in 1..(l + 1) /\ l - 1 \in Nat
    BY <1>2
  <1>6. /\ Len(imported') = l - 1
        /\ \A i \in 1..(l - 1) : imported'[i] = imported[i]
        /\ imported' \in Seq([signer : Signers, checked : BOOLEAN])
    BY <1>1, <1>2, <1>3, <1>4, <1>5, SubSeqProperties DEF l
  <1>7. DOMAIN imported' = 1..(l - 1) /\ \A i \in 1..(l - 1) : i \in DOMAIN imported
    BY <1>2, <1>6
  <1> QED BY <1>1, <1>2, <1>6, <1>7 DEF l

\* Unwinding keeps CoreInv.
LEMMA UnwindCore ==
    ASSUME CoreInv, Unwind
    PROVE  CoreInv'
  <1> DEFINE l == Len(imported)
  <1>1. /\ signers' = signers /\ spans' = spans /\ top' = top /\ call' = call
        /\ \A t \in Threads : call[t].pc = "idle"
        /\ l \in Nat /\ l > 0 /\ l <= MaxBlock /\ l + UnwindSlack >= top
        /\ imported' \in Seq([signer : Signers, checked : BOOLEAN])
        /\ Len(imported') = l - 1
    BY UnwindShape
  <1>2. TypeOK' /\ CacheIsHonest' /\ RecentsInRange'
    BY <1>1, ChainImportAssumption DEF CoreInv, TypeOK, CacheIsHonest, RecentsInRange
  <1>3. CallIsCurrent' /\ AcceptedIsRecorded'
    BY <1>1 DEF CallIsCurrent, AcceptedIsRecorded
  <1>4. HeadNearTop'
    BY <1>1 DEF HeadNearTop, NextNumber
  <1> QED BY <1>2, <1>3, <1>4 DEF CoreInv

\* Every step preserves CoreInv.
LEMMA StepCore == CoreInv /\ [Next]_vars => CoreInv'
  <1> SUFFICES ASSUME CoreInv, [Next]_vars PROVE CoreInv'
    OBVIOUS
  <1>1. ASSUME NEW t \in Threads, OfferBlock(t) PROVE CoreInv'
    BY <1>1, OfferBlockCore
  <1>2. ASSUME NEW t \in Threads, Check(t) PROVE CoreInv'
    BY <1>2, CheckCore
  <1>3. ASSUME NEW t \in Threads, Record(t) PROVE CoreInv'
    BY <1>3, RecordCore
  <1>4. ASSUME NEW t \in Threads, ImportBlock(t) PROVE CoreInv'
    BY <1>4, ImportBlockCore
  <1>5. ASSUME NEW t \in Threads, FailExecution(t) \/ DropBlock(t) PROVE CoreInv'
    BY <1>5, TakeAnswerCore DEF FailExecution, DropBlock
  <1>6. CASE Unwind
    BY <1>6, UnwindCore
  <1>7. CASE CacheSpan
    BY <1>7, CacheSpanCore
  <1>8. CASE UNCHANGED vars
    BY <1>8
    DEF vars, CoreInv, TypeOK, CallIsCurrent, HeadNearTop, NextNumber, CacheIsHonest,
        AcceptedIsRecorded, RecentsInRange
  <1> QED BY <1>1, <1>2, <1>3, <1>4, <1>5, <1>6, <1>7, <1>8 DEF Next

-----------------------------------------------------------------------------
(***************************************************************************)
(* NoDoubleSign and the refinement.                                        *)
(***************************************************************************)

\* The check: what it sees of recents covers the block's window.
LEMMA CheckWindows ==
    ASSUME ImportInv, NEW t \in Threads, Check(t)
    PROVE  CheckStillHolds'
  <1> DEFINE n == NextNumber
  <1>1. /\ signers' = signers /\ imported' = imported /\ n' = n
        /\ n \in 1..MaxBlock /\ n = Len(imported) + 1
        /\ Len(imported) \in Nat /\ DOMAIN imported = 1..Len(imported)
        /\ \A u \in Threads :
                /\ call'[u].signer = call[u].signer
                /\ call'[u].pc \in {"rejected", "record"}
                /\ call'[u].pc = "record" =>
                        ~is_recently_signed(signers, call[u].signer, n,
                                            Cardinality(ValidatorsAt(n)))
    BY CheckShape DEF ImportInv, NextNumber
  <1>2. SUFFICES ASSUME NEW u \in Threads, call'[u].pc = "record",
                        NEW i \in DOMAIN imported,
                        WindowStart(n) <= i, imported[i].checked
                 PROVE  imported[i].signer # call[u].signer
    BY <1>1 DEF CheckStillHolds
  <1>3. i \in Nat /\ i < n
    BY <1>1
  <1>4. i \in DOMAIN signers /\ signers[i] = imported[i].signer
    BY <1>1, <1>2, <1>3 DEF ImportInv, CoreInv, RecentsCoverWindows, HeadNearTop
  <1>5. signers[i] # call[u].signer
    BY <1>1, <1>2, <1>3, <1>4, CheckMeaning
  <1> QED BY <1>4, <1>5

\* Recording: pruning for this block drops nothing that a block still to come
\* has in its window.
LEMMA RecordWindows ==
    ASSUME WindowsNested, ImportInv, NEW t \in Threads, Record(t)
    PROVE  RecentsCoverWindows' /\ CheckStillHolds'
  <1> DEFINE n == NextNumber
  <1>1. /\ imported' = imported /\ n' = n /\ call[t].pc = "record"
        /\ n \in 1..MaxBlock /\ n = Len(imported) + 1
        /\ Len(imported) \in Nat /\ DOMAIN imported = 1..Len(imported)
        /\ DOMAIN signers' = {b \in DOMAIN signers \cup {n} : WindowStart(n) <= b}
        /\ \A b \in DOMAIN signers' :
                signers'[b] = IF b = n THEN call[t].signer ELSE signers[b]
        /\ top \in Nat /\ top' = IF n > top THEN n ELSE top
        /\ \A u \in Threads : call'[u].signer = call[u].signer
    BY RecordShape DEF ImportInv, NextNumber
  <1>2. CheckStillHolds'
    BY <1>1, OneThread DEF ImportInv, CheckStillHolds
  <1>3. RecentsCoverWindows'
    <2>1. SUFFICES ASSUME NEW m \in 1..MaxBlock, NEW i \in DOMAIN imported,
                          m + UnwindSlack >= top', WindowStart(m) <= i, i < m,
                          imported[i].checked
                   PROVE  i \in DOMAIN signers' /\ signers'[i] = imported[i].signer
      BY <1>1 DEF RecentsCoverWindows
    <2>2. m \in Nat /\ i \in Nat /\ i < n /\ UnwindSlack \in Nat /\ n \in Nat
      BY <1>1, ChainImportAssumption
    <2>3. WindowStart(n) \in Nat
      BY <1>1, WindowType
    <2>4. WindowStart(m) \in Nat
      BY WindowType
    <2>5. m + UnwindSlack >= top /\ n <= m + UnwindSlack
      BY <1>1, <2>1, <2>2
    <2>6. i \in DOMAIN signers /\ signers[i] = imported[i].signer
      BY <2>1, <2>5 DEF ImportInv, RecentsCoverWindows
    <2>7. WindowStart(n) <= i
      BY <1>1, <2>1, <2>2, <2>3, <2>4, <2>5 DEF WindowsNested
    <2> QED BY <1>1, <2>2, <2>6, <2>7
  <1> QED BY <1>2, <1>3

\* The chain grows by a block whose signer is not in its window.
LEMMA ImportBlockWindows ==
    ASSUME ImportInv, NEW t \in Threads, ImportBlock(t)
    PROVE  RecentsCoverWindows' /\ CheckStillHolds' /\ NoDoubleSign'
  <1> DEFINE n == NextNumber
  <1>1. /\ signers' = signers /\ top' = top
        /\ \A u \in Threads : call'[u].pc = "idle"
        /\ n \in 1..MaxBlock /\ n = Len(imported) + 1
        /\ Len(imported) \in Nat /\ DOMAIN imported = 1..Len(imported)
        /\ DOMAIN imported' = 1..n
        /\ \A i \in 1..Len(imported) : imported'[i] = imported[i]
        /\ imported'[n].signer = call[t].signer
        /\ imported'[n].checked => call[t].pc = "accepted"
    BY ImportBlockShape DEF ImportInv
  <1>2. CheckStillHolds'
    BY <1>1 DEF CheckStillHolds
  <1>3. RecentsCoverWindows'
    <2>1. SUFFICES ASSUME NEW m \in 1..MaxBlock, NEW i \in 1..n,
                          m + UnwindSlack >= top, WindowStart(m) <= i, i < m,
                          imported'[i].checked
                   PROVE  i \in DOMAIN signers /\ signers[i] = imported'[i].signer
      BY <1>1 DEF RecentsCoverWindows
    <2>2. CASE i = n
      BY <1>1, <2>1, <2>2 DEF ImportInv, CoreInv, AcceptedIsRecorded
    <2>3. CASE i # n
      <3>1. i \in DOMAIN imported /\ imported'[i] = imported[i]
        BY <1>1, <2>3
      <3> QED BY <2>1, <3>1 DEF ImportInv, RecentsCoverWindows
    <2> QED BY <2>2, <2>3
  <1>4. NoDoubleSign'
    <2>1. SUFFICES ASSUME NEW i \in 1..n, NEW j \in 1..n, i < j, j - i <= WindowAt(j),
                          imported'[i].checked, imported'[j].checked
                   PROVE  imported'[i].signer # imported'[j].signer
      BY <1>1 DEF NoDoubleSign
    <2>2. i \in DOMAIN imported /\ imported'[i] = imported[i] /\ i \in Nat
      BY <1>1, <2>1
    <2>3. CASE j = n
      <3>1. WindowStart(n) <= i
        BY <1>1, <2>1, <2>2, <2>3, WindowType
      <3>2. call[t].pc = "accepted"
        BY <1>1, <2>1, <2>3
      <3>3. imported[i].signer # call[t].signer
        BY <2>1, <2>2, <3>1, <3>2 DEF ImportInv, CheckStillHolds
      <3> QED BY <1>1, <2>2, <2>3, <3>3
    <2>4. CASE j # n
      <3>1. j \in DOMAIN imported /\ imported'[j] = imported[j]
        BY <1>1, <2>4
      <3> QED BY <2>1, <2>2, <3>1 DEF ImportInv, NoDoubleSign
    <2> QED BY <2>3, <2>4
  <1> QED BY <1>2, <1>3, <1>4

\* Every step preserves the invariant behind NoDoubleSign.
LEMMA StepImportInv ==
    ASSUME WindowsNested
    PROVE  ImportInv /\ [Next]_vars => ImportInv'
  <1> SUFFICES ASSUME ImportInv, [Next]_vars
               PROVE  RecentsCoverWindows' /\ CheckStillHolds' /\ NoDoubleSign'
    BY StepCore DEF ImportInv
  <1>c. CoreInv
    BY DEF ImportInv
  <1> DEFINE Rest == RecentsCoverWindows /\ CheckStillHolds /\ NoDoubleSign
  <1> USE DEF RecentsCoverWindows, CheckStillHolds, NoDoubleSign, NextNumber
  <1>1. ASSUME NEW t \in Threads, OfferBlock(t) PROVE Rest'
    <2>1. /\ signers' = signers /\ imported' = imported /\ top' = top
          /\ \A u \in Threads : call'[u].pc \in {"check", "skipped", "rejected"}
      BY <1>c, <1>1, OfferBlockShape
    <2> QED BY <2>1 DEF ImportInv
  <1>2. ASSUME NEW t \in Threads, Check(t) PROVE Rest'
    <2>1. signers' = signers /\ imported' = imported /\ top' = top
      BY <1>c, <1>2, CheckShape
    <2>2. CheckStillHolds'
      BY <1>2, CheckWindows
    <2> QED BY <2>1, <2>2 DEF ImportInv
  <1>3. ASSUME NEW t \in Threads, Record(t) PROVE Rest'
    <2>1. imported' = imported
      BY <1>c, <1>3, RecordShape
    <2>2. RecentsCoverWindows' /\ CheckStillHolds'
      BY <1>3, RecordWindows
    <2> QED BY <2>1, <2>2 DEF ImportInv
  <1>4. ASSUME NEW t \in Threads, ImportBlock(t) PROVE Rest'
    BY <1>4, ImportBlockWindows
  <1>5. ASSUME NEW t \in Threads, FailExecution(t) \/ DropBlock(t) PROVE Rest'
    <2>1. /\ signers' = signers /\ imported' = imported /\ top' = top
          /\ \A u \in Threads : call'[u].pc = "idle"
      BY <1>c, <1>5, TakeAnswerCore DEF FailExecution, DropBlock
    <2> QED BY <2>1 DEF ImportInv
  <1>6. CASE Unwind
    <2>1. /\ signers' = signers /\ top' = top /\ call' = call
          /\ \A t \in Threads : call[t].pc = "idle"
          /\ DOMAIN imported' \subseteq DOMAIN imported
          /\ \A i \in DOMAIN imported' : imported'[i] = imported[i]
      BY <1>c, <1>6, UnwindShape
    <2> QED BY <2>1 DEF ImportInv
  <1>7. CASE CacheSpan
    BY <1>7 DEF CacheSpan, insert_span, ImportInv
  <1>8. CASE UNCHANGED vars
    BY <1>8 DEF vars, ImportInv
  <1> QED BY <1>1, <1>2, <1>3, <1>4, <1>5, <1>6, <1>7, <1>8 DEF Next

\* A chain that is unwound one block at a time, with validator sets that
\* grow by no more than two at once, has nested windows: from one block to
\* the next the window grows by no more than the one block gained.
THEOREM SmallChangesNest ==
    ASSUME UnwindSlack = 0, SetsGrowByTwo
    PROVE  WindowsNested
  <1>1. ASSUME NEW n \in 1..MaxBlock, n + 1 \in 1..MaxBlock
        PROVE  WindowStart(n) <= WindowStart(n + 1)
    <2> DEFINE c == Cardinality(ValidatorsAt(n))
               d == Cardinality(ValidatorsAt(n + 1))
    <2>1. \A k \in 1..MaxBlock : Cardinality(ValidatorsAt(k)) \in Nat
      <3> SUFFICES ASSUME NEW k \in 1..MaxBlock
                   PROVE  Cardinality(ValidatorsAt(k)) \in Nat
        OBVIOUS
      <3>1. IsFiniteSet(ValidatorsAt(k))
        BY ChainImportAssumption, BorConsensusAssumption DEF ValidatorsAt
      <3> QED BY <3>1, FS_CardinalityType
    <2>2. c \in Nat /\ d \in Nat /\ d <= c + 2
      BY <1>1, <2>1 DEF SetsGrowByTwo
    <2>3. WindowAt(n) = c \div 2 + 1 /\ WindowAt(n + 1) = d \div 2 + 1
      BY DEF WindowAt, Window
    <2> HIDE DEF c, d
    <2>4. d \div 2 <= c \div 2 + 1 /\ c \div 2 \in Nat /\ d \div 2 \in Nat
      BY <2>2
    <2>5. n \in Nat
      BY ChainImportAssumption
    <2> QED BY <2>3, <2>4, <2>5 DEF WindowStart, SaturatingSub
  <1> DEFINE S == {d \in Nat : \A k \in 1..MaxBlock : k + d \in 1..MaxBlock =>
                                    WindowStart(k) <= WindowStart(k + d)}
  <1>2. \A k \in 1..MaxBlock : WindowStart(k) \in Nat
    BY WindowType
  <1>3. 0 \in S
    BY <1>2, ChainImportAssumption
  <1>4. ASSUME NEW d \in Nat, d \in S PROVE d + 1 \in S
    <2> SUFFICES ASSUME NEW k \in 1..MaxBlock, k + (d + 1) \in 1..MaxBlock
                 PROVE  WindowStart(k) <= WindowStart(k + (d + 1))
      OBVIOUS
    <2>1. k + d \in 1..MaxBlock /\ (k + d) + 1 = k + (d + 1)
      BY ChainImportAssumption
    <2>2. WindowStart(k) <= WindowStart(k + d)
      BY <1>4, <2>1
    <2>3. WindowStart(k + d) <= WindowStart((k + d) + 1)
      BY <1>1, <2>1
    <2>4. /\ WindowStart(k) \in Nat /\ WindowStart(k + d) \in Nat
          /\ WindowStart(k + (d + 1)) \in Nat
      BY <1>2, <2>1
    <2> QED BY <2>1, <2>2, <2>3, <2>4
  <1>5. \A d \in Nat : d \in S
    <2> HIDE DEF S
    <2> QED BY <1>3, <1>4, SetInduction
  <1> SUFFICES ASSUME NEW k \in 1..MaxBlock, NEW m \in 1..MaxBlock, k <= m
               PROVE  WindowStart(k) <= WindowStart(m)
    BY ChainImportAssumption DEF WindowsNested
  <1>6. m - k \in Nat /\ k + (m - k) = m
    BY ChainImportAssumption
  <1> QED BY <1>5, <1>6

\* Where pruning for one block never reaches into the window of a block that
\* may be validated later, what the engine remembers of recent signers is
\* enough for every block still to come, at every point between its two
\* critical sections on recents.
THEOREM ImportInductive ==
    ASSUME WindowsNested
    PROVE  Spec => []ImportInv
  <1>1. ImportInv /\ [Next]_vars => ImportInv'
    BY StepImportInv
  <1>2. Init => ImportInv
    BY InitImportInv
  <1> QED BY <1>1, <1>2, PTL DEF Spec

\* Under the same condition the engine lets no signer sign two blocks of the
\* chain within a window: through failed executions, unwinds, spans that come
\* and go, and the lock given back between check and record.
THEOREM ImportNoDoubleSign ==
    ASSUME WindowsNested
    PROVE  Spec => []NoDoubleSign
  <1>1. ImportInv => NoDoubleSign
    BY DEF ImportInv
  <1>2. Spec => []ImportInv
    BY ImportInductive
  <1> QED BY <1>1, <1>2, PTL

\* Importing a block is a step of SignedChain: an accepted block is signed by
\* a validator of its span who is absent from the window.
LEMMA ImportBlockExtends ==
    ASSUME ImportInv, NEW t \in Threads, ImportBlock(t)
    PROVE  Abstract!Next
  <1> DEFINE n == Len(imported) + 1
             s == call[t].signer
  <1>1. /\ call[t].pc \in {"accepted", "skipped"}
        /\ n \in 1..MaxBlock /\ n = NextNumber
        /\ Len(imported) \in Nat /\ DOMAIN imported = 1..Len(imported)
    BY ImportBlockShape DEF ImportInv, NextNumber
  <1>2. Len(imported) < MaxBlock /\ s \in Signers
    BY <1>1, ChainImportAssumption DEF ImportInv, CoreInv, CallIsCurrent
  <1>3. imported' = Append(imported, [signer |-> s, checked |-> call[t].pc = "accepted"])
    BY DEF ImportBlock
  <1>4. CASE call[t].pc = "skipped"
    <2>1. (call[t].pc = "accepted") = FALSE
      BY <1>4
    <2>2. Abstract!ExtendUnchecked(s)
      BY <1>3, <2>1, Zenon DEF Abstract!ExtendUnchecked
    <2> QED BY <1>2, <2>2 DEF Abstract!Next, Abstract!Extend
  <1>5. CASE call[t].pc = "accepted"
    <2>1. (call[t].pc = "accepted") = TRUE
      BY <1>5
    <2>2. s \in ValidatorsAt(n)
      BY <1>1, <1>5 DEF ImportInv, CoreInv, CallIsCurrent
    <2>3. s \notin Abstract!InWindow(n)
      <3>1. SUFFICES ASSUME NEW i \in 1..Len(imported), n - i <= WindowAt(n),
                            imported[i].checked
                     PROVE  imported[i].signer # s
        BY DEF Abstract!InWindow
      <3>2. WindowStart(n) <= i
        BY <1>1, <3>1, WindowType
      <3> QED BY <1>1, <1>5, <3>1, <3>2 DEF ImportInv, CheckStillHolds
    <2>4. imported' = Append(imported, [signer |-> s, checked |-> TRUE])
      BY <1>3, <2>1, Zenon
    <2>5. Abstract!ExtendChecked(s)
      BY <2>2, <2>3, <2>4 DEF Abstract!ExtendChecked
    <2> QED BY <1>2, <2>5 DEF Abstract!Next, Abstract!Extend
  <1> QED BY <1>1, <1>4, <1>5

\* Where the windows are nested, the engine implements SignedChain: the cache,
\* the pruned map, the two critical sections and the blocks that failed or
\* were unwound leave no trace in the chain that the abstract rule, applied
\* to the whole chain at once, would not have let through.
THEOREM ImportRefinesSignedChain ==
    ASSUME WindowsNested
    PROVE  Spec => RefinesSignedChain
  <1>1. Init => Abstract!Init
    BY DEF Init, Abstract!Init
  <1>2. ImportInv /\ [Next]_vars => [Abstract!Next]_imported
    <2> SUFFICES ASSUME ImportInv, [Next]_vars, imported' # imported
                 PROVE  Abstract!Next
      OBVIOUS
    <2>1. (\E t \in Threads : ImportBlock(t)) \/ Unwind
      BY DEF Next, vars, OfferBlock, Check, Record, FailExecution, DropBlock, CacheSpan
    <2>2. ASSUME NEW t \in Threads, ImportBlock(t) PROVE Abstract!Next
      BY <2>2, ImportBlockExtends
    <2>3. CASE Unwind
      BY <2>3 DEF Unwind, Abstract!Next, Abstract!Retract
    <2> QED BY <2>1, <2>2, <2>3
  <1>3. Spec => []ImportInv
    BY ImportInductive
  <1> QED BY <1>1, <1>2, <1>3, PTL DEF Spec, RefinesSignedChain, Abstract!Spec

-----------------------------------------------------------------------------
(***************************************************************************)
(* The size of recents, and who is left to sign.                           *)
(***************************************************************************)

\* No window is wider than MaxWindow.
LEMMA MaxWindowBounds ==
    ASSUME MaxBlock > 0
    PROVE  MaxWindow \in Nat /\ \A n \in 1..MaxBlock : WindowAt(n) <= MaxWindow
  <1> DEFINE f == [n \in 1..MaxBlock |-> WindowAt(n)]
  <1>1. MaxBlock \in Nat \ {0}
    BY ChainImportAssumption
  <1>2. \A n \in 1..MaxBlock : WindowAt(n) \in Nat
    BY WindowType
  <1>3. \A n \in 1..MaxBlock : f[n] \in Nat
    BY <1>2
  <1>4. PICK m \in 1..MaxBlock : \A n \in 1..MaxBlock : f[n] <= f[m]
    BY <1>1, <1>3, GreatestValue
  <1>5. \A n \in 1..MaxBlock : WindowAt(n) <= WindowAt(m)
    BY <1>4
  <1>6. \E w \in {WindowAt(n) : n \in 1..MaxBlock} : \A n \in 1..MaxBlock : WindowAt(n) <= w
    BY <1>5
  <1> QED BY <1>2, <1>6 DEF MaxWindow

\* Whatever fails or is unwound and however the validator sets change, recents
\* holds no more than one window, the block itself and what an unwind leaves:
\* every call that adds an entry prunes for a block near the highest one.
THEOREM ImportRecentsBounded ==
    ASSUME MaxBlock > 0
    PROVE  Spec => []RecentsBounded
  <1>1. CoreInv => RecentsBounded
    <2> SUFFICES ASSUME CoreInv PROVE RecentsBounded
      OBVIOUS
    <2>1. MaxWindow \in Nat /\ UnwindSlack \in Nat
      BY MaxWindowBounds, ChainImportAssumption
    <2>2. CASE DOMAIN signers = {}
      BY <2>1, <2>2, FS_EmptySet DEF RecentsBounded
    <2>3. CASE \E n \in 1..MaxBlock : DOMAIN signers \subseteq WindowStart(n)..(n + UnwindSlack)
      <3>1. PICK n \in 1..MaxBlock : DOMAIN signers \subseteq WindowStart(n)..(n + UnwindSlack)
        BY <2>3
      <3>2. /\ n \in Nat /\ WindowAt(n) \in Nat /\ WindowStart(n) \in Nat
            /\ WindowAt(n) <= MaxWindow
        BY WindowType, MaxWindowBounds
      <3>3. WindowStart(n) <= n /\ n - WindowStart(n) <= WindowAt(n)
        BY <3>2 DEF WindowStart, SaturatingSub
      <3> DEFINE a == WindowStart(n)
                 b == n + UnwindSlack
      <3>4. a \in Nat /\ b \in Nat /\ a <= b
        BY <2>1, <3>2, <3>3
      <3>5. b - a + 1 <= MaxWindow + 1 + UnwindSlack
        BY <2>1, <3>2, <3>3
      <3> HIDE DEF a, b
      <3>6. IsFiniteSet(a..b) /\ Cardinality(a..b) = b - a + 1
        BY <3>4, FS_Interval
      <3>7. DOMAIN signers \in SUBSET (a..b)
        BY <3>1 DEF a, b
      <3>8. /\ Cardinality(DOMAIN signers) <= b - a + 1
            /\ Cardinality(DOMAIN signers) \in Nat
        BY <3>6, <3>7, FS_Subset, FS_CardinalityType
      <3> QED BY <2>1, <3>4, <3>5, <3>8 DEF RecentsBounded
    <2> QED BY <2>2, <2>3 DEF CoreInv, RecentsInRange
  <1>2. Init => CoreInv
    BY InitImportInv DEF ImportInv
  <1> QED BY <1>1, <1>2, StepCore, PTL DEF Spec

\* A window of a map of signers has no more signers in it than its length,
\* and that is fewer than there are validators once there are three.
LEMMA WindowLeavesOne ==
    ASSUME NEW n \in Nat, DOMAIN signers \subseteq Nat,
           NEW vs, IsFiniteSet(vs), Cardinality(vs) > 2
    PROVE  \E s \in vs : ~is_recently_signed(signers, s, n, Cardinality(vs))
  <1> DEFINE c == Cardinality(vs)
             start == SaturatingSub(n, Window(c))
             W == {b \in DOMAIN signers : start <= b /\ b < n}
             f == [b \in W |-> signers[b]]
             T == {signers[b] : b \in W}
  <1>1. c \in Nat /\ c > 2
    BY FS_CardinalityType
  <1>2. Window(c) \in Nat /\ Window(c) < c
    BY <1>1 DEF Window
  <1> HIDE DEF c
  <1>3. start \in Nat /\ start <= n /\ n - start <= Window(c)
    BY <1>2 DEF SaturatingSub
  <1> HIDE DEF start
  <1>4. /\ W \in SUBSET (start..(n - 1))
        /\ n - 1 \in Int /\ start \in Int
    BY <1>3
  <1>5. /\ IsFiniteSet(start..(n - 1))
        /\ Cardinality(start..(n - 1)) = IF start > n - 1 THEN 0 ELSE n - 1 - start + 1
    BY <1>4, FS_Interval
  <1>6. /\ IsFiniteSet(W) /\ Cardinality(W) <= Cardinality(start..(n - 1))
        /\ Cardinality(W) \in Nat
    BY <1>4, <1>5, FS_Subset, FS_CardinalityType
  <1>7. Cardinality(W) < c
    BY <1>1, <1>2, <1>3, <1>5, <1>6
  <1>8. f \in Surjection(W, T)
    BY DEF Surjection
  <1> HIDE DEF W, f, T
  <1>9. IsFiniteSet(T) /\ Cardinality(T) <= Cardinality(W) /\ Cardinality(T) \in Nat
    BY <1>6, <1>8, FS_Surjection, FS_CardinalityType
  <1>10. ~(vs \subseteq T)
    BY <1>1, <1>6, <1>7, <1>9, FS_Subset DEF c
  <1>11. PICK s \in vs : s \notin T
    BY <1>10
  <1>12. ~is_recently_signed(signers, s, n, c)
    BY <1>11 DEF is_recently_signed, T, W, start
  <1> QED BY <1>12 DEF c

\* With three validators or more in every span, the anti-double-sign check
\* never shuts everybody out, whatever is left in recents: a window of half
\* the validators and one more is shorter than the set.  A set of one or two
\* is as long as its window.
THEOREM ImportSomeoneCanSign ==
    ASSUME EnoughValidators
    PROVE  Spec => []SomeoneCanSign
  <1>1. CoreInv => SomeoneCanSign
    <2> SUFFICES ASSUME CoreInv, NextNumber <= MaxBlock
                 PROVE  \E s \in ValidatorsAt(NextNumber) :
                            ~is_recently_signed(signers, s, NextNumber,
                                                Cardinality(ValidatorsAt(NextNumber)))
      BY DEF SomeoneCanSign
    <2>1. NextNumber \in 1..MaxBlock /\ NextNumber \in Nat /\ DOMAIN signers \subseteq Nat
      BY ChainImportAssumption DEF CoreInv, TypeOK, NextNumber
    <2>2. IsFiniteSet(ValidatorsAt(NextNumber))
      BY <2>1, ChainImportAssumption, BorConsensusAssumption DEF ValidatorsAt
    <2>3. Cardinality(ValidatorsAt(NextNumber)) > 2
      BY <2>1 DEF EnoughValidators
    <2> QED BY <2>1, <2>2, <2>3, WindowLeavesOne
  <1>2. Init => CoreInv
    BY InitImportInv DEF ImportInv
  <1> QED BY <1>1, <1>2, StepCore, PTL DEF Spec

-----------------------------------------------------------------------------
(***************************************************************************)
(* RejectionsJustified.                                                    *)
(***************************************************************************)

\* A cache with room for every span evicts none.
LEMMA InsertKeepsAll ==
    ASSUME CacheHoldsAll, CacheIsHonest, NEW id \in SpanIds, Cache!insert(HeimdallSpan(id))
    PROVE  DOMAIN spans \subseteq DOMAIN spans'
  <1> DEFINE span == HeimdallSpan(id)
  <1>1. span.id = id
    BY DEF HeimdallSpan
  <1>2. CASE Cache!Replace(span)
    BY <1>2 DEF Cache!Replace
  <1>3. CASE Cache!Add(span)
    <2>1. DOMAIN spans \subseteq SpanIds \ {id}
      BY <1>1, <1>3 DEF Cache!Add, Cache!contains, CacheIsHonest
    <2>2. Cache!Evicted = {}
      <3>1. CASE CacheSize = 0
        BY <3>1 DEF Cache!Evicted
      <3>2. CASE IsFiniteSet(SpanIds) /\ Cardinality(SpanIds) <= CacheSize
        <4>1. /\ IsFiniteSet(SpanIds \ {id}) /\ Cardinality(SpanIds) \in Nat
              /\ Cardinality(SpanIds \ {id}) = Cardinality(SpanIds) - 1
          BY <3>2, FS_RemoveElement, FS_CardinalityType
        <4>2. /\ Cardinality(DOMAIN spans) <= Cardinality(SpanIds \ {id})
              /\ Cardinality(DOMAIN spans) \in Nat
          BY <2>1, <4>1, FS_Subset, FS_CardinalityType
        <4>3. Cardinality(DOMAIN spans) < CacheSize
          BY <3>2, <4>1, <4>2, BorConsensusAssumption
        <4>4. Cache!len = Cardinality(DOMAIN spans)
          BY DEF Cache!len, Cache!Cardinality, Cardinality
        <4> QED BY <4>2, <4>3, <4>4, BorConsensusAssumption DEF Cache!Evicted
      <3> QED BY <3>1, <3>2 DEF CacheHoldsAll
    <2> QED BY <1>3, <2>2 DEF Cache!Add
  <1> QED BY <1>2, <1>3 DEF Cache!insert

\* Every step keeps recents true.
LEMMA StepRecentsAreTrue ==
    ASSUME CacheHoldsAll
    PROVE  CoreInv /\ RecentsAreTrue /\ [Next]_vars => RecentsAreTrue'
  <1> SUFFICES ASSUME CoreInv, RecentsAreTrue, [Next]_vars PROVE RecentsAreTrue'
    OBVIOUS
  <1> USE DEF Cache!contains
  <1>1. ASSUME NEW t \in Threads, OfferBlock(t) PROVE RecentsAreTrue'
    <2>1. /\ signers' = signers /\ imported' = imported /\ spans' = spans
          /\ NextNumber' = NextNumber
          /\ \A u \in Threads :
                /\ call'[u].pc \in {"check", "skipped", "rejected"}
                /\ call'[u].pc = "check" => span_id_at(NextNumber, SpanSize) \in DOMAIN spans
                /\ call'[u].pc = "skipped" =>
                        span_id_at(NextNumber, SpanSize) \notin DOMAIN spans
      BY <1>1, OfferBlockShape DEF NextNumber
    <2> QED BY <2>1 DEF RecentsAreTrue
  <1>2. ASSUME NEW t \in Threads, Check(t) PROVE RecentsAreTrue'
    <2>1. /\ signers' = signers /\ imported' = imported /\ spans' = spans
          /\ NextNumber' = NextNumber /\ call[t].pc = "check"
          /\ \A u \in Threads : u = t /\ call'[u].pc \in {"rejected", "record"}
      BY <1>2, CheckShape, OneThread DEF NextNumber
    <2> QED BY <2>1 DEF RecentsAreTrue
  <1>3. ASSUME NEW t \in Threads, Record(t) PROVE RecentsAreTrue'
    <2> DEFINE n == NextNumber
    <2>1. /\ imported' = imported /\ spans' = spans /\ n' = n /\ call[t].pc = "record"
          /\ n = Len(imported) + 1
          /\ Len(imported) \in Nat /\ DOMAIN imported = 1..Len(imported)
          /\ DOMAIN signers' \subseteq DOMAIN signers \cup {n}
          /\ \A b \in DOMAIN signers' :
                signers'[b] = IF b = n THEN call[t].signer ELSE signers[b]
          /\ \A u \in Threads : call'[u].pc = "accepted"
      BY <1>3, RecordShape DEF NextNumber
    <2>2. n \notin DOMAIN imported
      BY <2>1
    <2>3. span_id_at(n, SpanSize) \in DOMAIN spans
      BY <2>1 DEF RecentsAreTrue
    <2>4. \A b \in DOMAIN signers' : span_id_at(b, SpanSize) \in DOMAIN spans
      BY <2>1, <2>3 DEF RecentsAreTrue
    <2>5. \A b \in DOMAIN signers' \cap DOMAIN imported : signers'[b] = imported[b].signer
      BY <2>1, <2>2 DEF RecentsAreTrue
    <2> QED BY <2>1, <2>4, <2>5 DEF RecentsAreTrue
  <1>4. ASSUME NEW t \in Threads, ImportBlock(t) PROVE RecentsAreTrue'
    <2> DEFINE n == NextNumber
    <2>1. /\ signers' = signers /\ spans' = spans
          /\ call[t].pc \in {"accepted", "skipped"}
          /\ \A u \in Threads : call'[u].pc = "idle"
          /\ n = Len(imported) + 1 /\ Len(imported) \in Nat
          /\ DOMAIN imported = 1..Len(imported) /\ DOMAIN imported' = 1..n
          /\ \A i \in 1..Len(imported) : imported'[i] = imported[i]
          /\ imported'[n].signer = call[t].signer
      BY <1>4, ImportBlockShape
    <2>2. DOMAIN imported' = DOMAIN imported \cup {n}
      BY <2>1
    <2>3. n \in DOMAIN signers => signers[n] = call[t].signer
      BY <2>1 DEF CoreInv, AcceptedIsRecorded, RecentsAreTrue
    <2>4. \A b \in DOMAIN signers \cap DOMAIN imported' : signers[b] = imported'[b].signer
      BY <2>1, <2>2, <2>3 DEF RecentsAreTrue
    <2> QED BY <2>1, <2>4 DEF RecentsAreTrue
  <1>5. ASSUME NEW t \in Threads, FailExecution(t) \/ DropBlock(t) PROVE RecentsAreTrue'
    <2>1. /\ signers' = signers /\ imported' = imported /\ spans' = spans
          /\ \A u \in Threads : call'[u].pc = "idle"
      BY <1>5, TakeAnswerCore DEF FailExecution, DropBlock
    <2> QED BY <2>1 DEF RecentsAreTrue
  <1>6. CASE Unwind
    <2>1. /\ signers' = signers /\ spans' = spans /\ call' = call
          /\ \A t \in Threads : call[t].pc = "idle"
          /\ DOMAIN imported' \subseteq DOMAIN imported
          /\ \A i \in DOMAIN imported' : imported'[i] = imported[i]
      BY <1>6, UnwindShape
    <2> QED BY <2>1 DEF RecentsAreTrue
  <1>7. CASE CacheSpan
    <2>1. /\ signers' = signers /\ call' = call /\ imported' = imported
          /\ \E id \in SpanIds : Cache!insert(HeimdallSpan(id))
      BY <1>7 DEF CacheSpan, insert_span
    <2>2. DOMAIN spans \subseteq DOMAIN spans'
      BY <2>1, InsertKeepsAll DEF CoreInv
    <2> QED BY <2>1, <2>2 DEF RecentsAreTrue, NextNumber
  <1>8. CASE UNCHANGED vars
    BY <1>8 DEF vars, RecentsAreTrue, NextNumber
  <1> QED BY <1>1, <1>2, <1>3, <1>4, <1>5, <1>6, <1>7, <1>8 DEF Next

\* Where the cache holds every span it is given, the anti-double-sign check
\* rejects a block only on account of a block of the chain, however many
\* blocks failed after they were recorded or were unwound.
THEOREM ImportRejectionsJustified ==
    ASSUME CacheHoldsAll
    PROVE  Spec => RejectionsJustified
  <1> DEFINE Justified ==
        \A t \in Threads :
            call[t].pc = "check" /\ call'[t].pc = "rejected" =>
                \E i \in DOMAIN imported :
                    /\ imported[i].signer = call[t].signer
                    /\ call[t].number - i <= WindowAt(call[t].number)
  <1>1. CoreInv /\ RecentsAreTrue /\ [Next]_vars => [Justified]_vars
    <2> SUFFICES ASSUME CoreInv, RecentsAreTrue, [Next]_vars, NEW t \in Threads,
                        call[t].pc = "check", call'[t].pc = "rejected"
                 PROVE  \E i \in DOMAIN imported :
                            /\ imported[i].signer = call[t].signer
                            /\ call[t].number - i <= WindowAt(call[t].number)
      OBVIOUS
    <2>1. \A u \in Threads : u = t
      BY OneThread
    <2>2. Check(t)
      <3>1. ASSUME NEW u \in Threads, OfferBlock(u) PROVE call[t].pc = "idle"
        BY <2>1, <3>1 DEF OfferBlock, BeginValidation
      <3>2. ASSUME NEW u \in Threads, Record(u) PROVE call[t].pc = "record"
        BY <2>1, <3>2 DEF Record, RecordSigner
      <3>3. ASSUME NEW u \in Threads, ImportBlock(u) \/ FailExecution(u) \/ DropBlock(u)
            PROVE  call[t].pc \in {"accepted", "skipped", "rejected"}
        BY <2>1, <3>3 DEF ImportBlock, FailExecution, DropBlock
      <3>4. ASSUME Unwind \/ CacheSpan \/ UNCHANGED vars PROVE call' = call
        BY <3>4 DEF Unwind, CacheSpan, insert_span, vars
      <3> QED BY <2>1, <3>1, <3>2, <3>3, <3>4 DEF Next
    <2> DEFINE n == NextNumber
    <2>3. /\ n \in 1..MaxBlock /\ n = Len(imported) + 1 /\ call[t].number = n
          /\ Len(imported) \in Nat /\ DOMAIN imported = 1..Len(imported)
          /\ is_recently_signed(signers, call[t].signer, n, Cardinality(ValidatorsAt(n)))
      BY <2>2, CheckShape
    <2>4. PICK b \in DOMAIN signers :
                WindowStart(n) <= b /\ b < n /\ signers[b] = call[t].signer
      BY <2>3 DEF is_recently_signed, WindowStart, WindowAt
    <2>5. b \in Nat /\ b >= 1
      BY DEF CoreInv, TypeOK, RecentsInRange
    <2>6. b \in DOMAIN imported
      BY <2>3, <2>4, <2>5
    <2>7. imported[b].signer = call[t].signer
      BY <2>4, <2>6 DEF RecentsAreTrue
    <2>8. n - b <= WindowAt(n)
      BY <2>3, <2>4, <2>5, WindowType
    <2> QED BY <2>3, <2>6, <2>7, <2>8
  <1>2. Init => CoreInv /\ RecentsAreTrue
    BY InitImportInv DEF ImportInv
  <1>3. CoreInv /\ RecentsAreTrue /\ [Next]_vars => (CoreInv /\ RecentsAreTrue)'
    BY StepCore, StepRecentsAreTrue
  <1> QED BY <1>1, <1>2, <1>3, PTL DEF Spec, RejectionsJustified

=============================================================================
