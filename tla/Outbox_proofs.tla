---------------------------- MODULE Outbox_proofs ----------------------------
(***************************************************************************)
(* Proofs about the outbox, for any number of ceremonies, publishers,      *)
(* messages and crashes. The order of arrivals is not inductive by itself: *)
(* it rests on what publishers hold (everything ahead of it is delivered), *)
(* and on the store retiring only what arrived, which in turn rests on     *)
(* what publishers believe confirmed.                                      *)
(***************************************************************************)
EXTENDS Outbox, TLAPS

\* What a publisher was told got through did arrive.
ConfirmedArrived == \A p \in Publishers : confirmed[p] \subseteq arrived

\* The attempts a publisher goes by are at most the attempts made by now.
CountsNotAhead ==
    \A p \in Publishers : \A x \in batch[p] : x.attempt <= outbox[x.message].attempt

\* The inductive invariant.
OutboxInv ==
    /\ TypeOK
    /\ ConfirmedArrived /\ RetiredOnceArrived
    /\ NothingAheadInHand /\ ArrivesInOrder
    /\ CountsNotAhead /\ QuarantinedOnceExhausted

\* What every step but a claim keeps: flags and counts move forward, and
\* publishers take nothing new in hand.
Forward ==
    /\ \A m \in Message :
         /\ outbox[m].delivered => outbox'[m].delivered
         /\ outbox[m].attempt <= outbox'[m].attempt
         /\ outbox'[m].quarantined =>
              outbox[m].quarantined \/ outbox'[m].attempt >= MaxAttempts
    /\ \A p \in Publishers : batch'[p] \subseteq batch[p]

-----------------------------------------------------------------------------
\* What settling a message leaves of the entry: mark_failed and quarantine.
LEMMA SettleType ==
    ASSUME TypeOK, NEW p \in Publishers, NEW x \in batch[p], NEW entry \in Entry,
           Settle(p, x, entry)
    PROVE  /\ TypeOK'
           /\ x.message \in Message
           /\ outbox'[x.message] = entry
           /\ \A m \in Message \ {x.message} : outbox'[m] = outbox[m]
           /\ batch'[p] = batch[p] \ {x}
           /\ \A q \in Publishers \ {p} : batch'[q] = batch[q]
           /\ confirmed' = confirmed /\ arrived' = arrived
<1>1. x.message \in Message /\ batch[p] \in SUBSET Claimed
  BY DEF TypeOK, Claimed
<1>2. QED
  BY <1>1 DEF Settle, TypeOK

\* Quarantine settles the message with its entry quarantined, no longer claimed.
LEMMA QuarantineEntry ==
    ASSUME TypeOK, NEW m \in Message, NEW entry,
           entry = [outbox[m] EXCEPT !.quarantined = TRUE, !.claimedUntil = NoClaim]
    PROVE  /\ entry \in Entry
           /\ entry.quarantined = TRUE
           /\ entry.delivered = outbox[m].delivered /\ entry.attempt = outbox[m].attempt
  BY DEF TypeOK, Entry

\* A failure counts one more attempt and ends the claim.
LEMMA FailedEntry ==
    ASSUME TypeOK, NEW m \in Message, NEW entry,
           entry = [outbox[m] EXCEPT !.attempt = @ + 1, !.claimedUntil = NoClaim]
    PROVE  /\ entry \in Entry
           /\ entry.delivered = outbox[m].delivered
           /\ entry.quarantined = outbox[m].quarantined
           /\ entry.attempt = outbox[m].attempt + 1
<1> DEFINE count == outbox[m].attempt + 1
<1>1. outbox[m] \in Entry /\ count \in Nat
  BY DEF TypeOK, Entry
<1>2. entry = [outbox[m] EXCEPT !.attempt = count, !.claimedUntil = NoClaim]
  OBVIOUS
<1> HIDE DEF count
<1>3. /\ entry \in Entry /\ entry.attempt = count
      /\ entry.delivered = outbox[m].delivered
      /\ entry.quarantined = outbox[m].quarantined
  BY <1>1, <1>2 DEF Entry
<1>4. QED
  BY <1>3 DEF count

\* Being retired ends the claim and changes nothing else.
LEMMA DeliveredEntry ==
    ASSUME TypeOK, NEW m \in Message, NEW entry,
           entry = [outbox[m] EXCEPT !.delivered = TRUE, !.claimedUntil = NoClaim]
    PROVE  /\ entry \in Entry
           /\ entry.delivered = TRUE
           /\ entry.quarantined = outbox[m].quarantined /\ entry.attempt = outbox[m].attempt
  BY DEF TypeOK, Entry

\* Claims and their ends change whose lease the store remembers, only.
LEMMA ClaimedEntry ==
    ASSUME TypeOK, NEW m \in Message, NEW q \in Publishers \cup {NoClaim}, NEW entry,
           entry = [outbox[m] EXCEPT !.claimedUntil = q]
    PROVE  /\ entry \in Entry
           /\ entry.delivered = outbox[m].delivered
           /\ entry.quarantined = outbox[m].quarantined /\ entry.attempt = outbox[m].attempt
  BY DEF TypeOK, Entry

-----------------------------------------------------------------------------
\* What OutboxPort::claim does to store and publisher.
LEMMA ClaimEffect ==
    ASSUME TypeOK, NEW p \in Publishers, Claim(p)
    PROVE  /\ TypeOK'
           /\ \A m \in Message : /\ outbox'[m].delivered = outbox[m].delivered
                                 /\ outbox'[m].quarantined = outbox[m].quarantined
                                 /\ outbox'[m].attempt = outbox[m].attempt
           /\ \A x \in batch'[p] : /\ x.message \in Message /\ Head(x.message)
                                   /\ x.attempt = outbox[x.message].attempt
           /\ \A q \in Publishers \ {p} : batch'[q] = batch[q]
           /\ confirmed' = confirmed /\ arrived' = arrived
<1>1. Taken \subseteq Message /\ \A m \in Taken : Head(m)
  BY DEF Taken, Claimable
<1>2. ASSUME NEW m \in Message
      PROVE  /\ outbox'[m] \in Entry
             /\ outbox'[m].delivered = outbox[m].delivered
             /\ outbox'[m].quarantined = outbox[m].quarantined
             /\ outbox'[m].attempt = outbox[m].attempt
  <2>1. CASE m \in Taken
    <3>1. outbox'[m] = [outbox[m] EXCEPT !.claimedUntil = p]
      BY <2>1 DEF Claim
    <3>2. QED
      BY <3>1, ClaimedEntry
  <2>2. CASE m \notin Taken
    <3>1. outbox'[m] = outbox[m]
      BY <2>2 DEF Claim
    <3>2. QED
      BY <3>1 DEF TypeOK
  <2>3. QED
    BY <2>1, <2>2
<1>3. outbox' \in [Message -> Entry]
  <2>1. outbox' = [m \in Message |-> outbox'[m]]
    BY DEF Claim
  <2>2. QED
    BY <1>2, <2>1
<1>4. batch'[p] = {[message |-> m, attempt |-> outbox[m].attempt] : m \in Taken}
  BY DEF Claim, TypeOK
<1>5. \A x \in batch'[p] : /\ x.message \in Message /\ Head(x.message)
                           /\ x.attempt = outbox[x.message].attempt
  BY <1>1, <1>4
<1>6. \A m \in Taken : outbox[m].attempt \in Nat
  BY <1>1 DEF TypeOK, Entry
<1>7. batch'[p] \in SUBSET Claimed
  BY <1>1, <1>4, <1>6 DEF Claimed
<1>8. batch' \in [Publishers -> SUBSET Claimed]
      /\ \A q \in Publishers \ {p} : batch'[q] = batch[q]
  BY <1>7 DEF Claim, TypeOK
<1>9. TypeOK'
  BY <1>3, <1>8 DEF Claim, TypeOK
<1>10. QED
  BY <1>2, <1>5, <1>8, <1>9 DEF Claim

\* What OutboxPort::mark_delivered does to store and publisher.
LEMMA MarkDeliveredEffect ==
    ASSUME TypeOK, NEW p \in Publishers, MarkDelivered(p)
    PROVE  /\ TypeOK'
           /\ \A m \in Message :
                /\ outbox'[m].delivered <=> outbox[m].delivered \/ m \in confirmed[p]
                /\ outbox'[m].quarantined = outbox[m].quarantined
                /\ outbox'[m].attempt = outbox[m].attempt
           /\ confirmed'[p] = {} /\ \A q \in Publishers \ {p} : confirmed'[q] = confirmed[q]
           /\ batch' = batch /\ arrived' = arrived
<1>1. ASSUME NEW m \in Message
      PROVE  /\ outbox'[m] \in Entry
             /\ outbox'[m].delivered <=> outbox[m].delivered \/ m \in confirmed[p]
             /\ outbox'[m].quarantined = outbox[m].quarantined
             /\ outbox'[m].attempt = outbox[m].attempt
  <2>1. CASE m \in confirmed[p]
    <3>1. outbox'[m] = [outbox[m] EXCEPT !.delivered = TRUE, !.claimedUntil = NoClaim]
      BY <2>1 DEF MarkDelivered
    <3>2. QED
      BY <2>1, <3>1, DeliveredEntry
  <2>2. CASE m \notin confirmed[p]
    <3>1. outbox'[m] = outbox[m]
      BY <2>2 DEF MarkDelivered
    <3>2. QED
      BY <2>2, <3>1 DEF TypeOK
  <2>3. QED
    BY <2>1, <2>2
<1>2. outbox' \in [Message -> Entry]
  <2>1. outbox' = [m \in Message |-> outbox'[m]]
    BY DEF MarkDelivered
  <2>2. QED
    BY <1>1, <2>1
<1>3. TypeOK'
  BY <1>2 DEF MarkDelivered, TypeOK
<1>4. QED
  BY <1>1, <1>3 DEF MarkDelivered, TypeOK
-----------------------------------------------------------------------------
\* Crashes, expiries, commits and stuttering keep what matters of the store.
LEMMA QuietType ==
    ASSUME TypeOK,
           \/ \E m \in Message : Enqueue(m) \/ LeaseRunsOut(m)
           \/ \E p \in Publishers : Crash(p)
           \/ UNCHANGED vars
    PROVE  /\ TypeOK'
           /\ \A m \in Message : /\ outbox'[m].delivered = outbox[m].delivered
                                 /\ outbox'[m].quarantined = outbox[m].quarantined
                                 /\ outbox'[m].attempt = outbox[m].attempt
           /\ \A p \in Publishers : /\ batch'[p] \subseteq batch[p]
                                    /\ confirmed'[p] \subseteq confirmed[p]
           /\ arrived' = arrived
<1>1. ASSUME NEW m \in Message, Enqueue(m) PROVE TypeOK' /\ outbox' = outbox
  BY <1>1, MessageAssumption DEF Enqueue, TypeOK
<1>2. ASSUME NEW m \in Message, LeaseRunsOut(m)
      PROVE  /\ TypeOK'
             /\ outbox'[m].delivered = outbox[m].delivered
             /\ outbox'[m].quarantined = outbox[m].quarantined
             /\ outbox'[m].attempt = outbox[m].attempt
             /\ \A k \in Message \ {m} : outbox'[k] = outbox[k]
  <2>1. /\ outbox'[m] = [outbox[m] EXCEPT !.claimedUntil = NoClaim]
        /\ \A k \in Message \ {m} : outbox'[k] = outbox[k]
        /\ outbox' = [outbox EXCEPT ![m] = outbox'[m]]
    BY <1>2 DEF LeaseRunsOut, TypeOK
  <2>2. /\ outbox'[m] \in Entry
        /\ outbox'[m].delivered = outbox[m].delivered
        /\ outbox'[m].quarantined = outbox[m].quarantined
        /\ outbox'[m].attempt = outbox[m].attempt
    BY <2>1, ClaimedEntry
  <2>3. outbox' \in [Message -> Entry]
    BY <2>1, <2>2 DEF TypeOK
  <2>4. QED
    BY <1>2, <2>1, <2>2, <2>3 DEF LeaseRunsOut, TypeOK
<1>3. ASSUME NEW p \in Publishers, Crash(p)
      PROVE  /\ TypeOK' /\ outbox' = outbox
             /\ \A q \in Publishers : batch'[q] \subseteq batch[q]
                                       /\ confirmed'[q] \subseteq confirmed[q]
  BY <1>3 DEF Crash, TypeOK
<1>4. CASE UNCHANGED vars
  BY <1>4 DEF vars, TypeOK
<1>5. QED
  BY <1>1, <1>2, <1>3, <1>4 DEF Enqueue, LeaseRunsOut, Crash, TypeOK

\* What a round does between its claim and its end.
LEMMA DeliverEffect ==
    ASSUME TypeOK, NEW p \in Publishers,
           Deliver(p) \/ \E gotThrough \in BOOLEAN : DeliverFails(p, gotThrough)
    PROVE  /\ TypeOK' /\ outbox' = outbox
           /\ \E x \in batch[p] :
                /\ x.message \in Message
                /\ arrived' \in {arrived, arrived \cup {x.message}}
                /\ confirmed'[p] \subseteq confirmed[p] \cup {x.message}
                /\ confirmed'[p] # confirmed[p] => x.message \in arrived'
           /\ \A q \in Publishers : batch'[q] \subseteq batch[q]
           /\ \A q \in Publishers \ {p} : confirmed'[q] = confirmed[q]
<1>1. ASSUME NEW x \in batch[p] PROVE x.message \in Message
  BY DEF TypeOK, Claimed
<1>2. CASE Deliver(p)
  <2>1. PICK x \in batch[p] :
          /\ arrived' = arrived \cup {x.message}
          /\ confirmed' = [confirmed EXCEPT ![p] = @ \cup {x.message}]
          /\ batch' = [batch EXCEPT ![p] = @ \ {x}]
    BY <1>2 DEF Deliver
  <2>2. x.message \in Message
    BY <1>1
  <2>3. TypeOK' /\ outbox' = outbox
    BY <1>2, <2>1, <2>2 DEF Deliver, TypeOK
  <2>4. QED
    BY <2>1, <2>2, <2>3 DEF TypeOK
<1>3. CASE \E gotThrough \in BOOLEAN : DeliverFails(p, gotThrough)
  <2>1. PICK x \in batch[p] : arrived' \in {arrived, arrived \cup {x.message}}
    BY <1>3 DEF DeliverFails
  <2>2. x.message \in Message
    BY <1>1
  <2>3. TypeOK' /\ outbox' = outbox /\ confirmed' = confirmed /\ batch' = batch
    BY <1>3, <2>1, <2>2 DEF DeliverFails, TypeOK
  <2>4. QED
    BY <2>1, <2>2, <2>3
<1>4. QED
  BY <1>2, <1>3

\* mark_failed and quarantine: the message settled stays where it was in the
\* queue, and a quarantine follows enough failures.
LEMMA SettleEffect ==
    ASSUME TypeOK, CountsNotAhead, NEW p \in Publishers, Quarantine(p) \/ MarkFailed(p)
    PROVE  /\ TypeOK'
           /\ \A m \in Message :
                /\ outbox'[m].delivered = outbox[m].delivered
                /\ outbox'[m].attempt >= outbox[m].attempt
                /\ outbox'[m].quarantined =>
                     outbox[m].quarantined \/ outbox'[m].attempt >= MaxAttempts
           /\ \A q \in Publishers : batch'[q] \subseteq batch[q]
           /\ confirmed' = confirmed /\ arrived' = arrived
<1>0. \A m \in Message : outbox[m].attempt \in Nat
  BY DEF TypeOK, Entry
<1>1. CASE Quarantine(p)
  <2>1. PICK x \in batch[p] :
          /\ IsExhausted(x)
          /\ Settle(p, x, [outbox[x.message] EXCEPT !.quarantined = TRUE,
                                                    !.claimedUntil = NoClaim])
    BY <1>1 DEF Quarantine
  <2> DEFINE entry == [outbox[x.message] EXCEPT !.quarantined = TRUE,
                                                !.claimedUntil = NoClaim]
  <2>2. x.message \in Message /\ x.attempt \in Nat
    BY DEF TypeOK, Claimed
  <2>3. /\ entry \in Entry /\ entry.delivered = outbox[x.message].delivered
        /\ entry.attempt = outbox[x.message].attempt
    BY <2>2, QuarantineEntry
  <2>4. Settle(p, x, entry)
    BY <2>1
  <2> HIDE DEF entry
  <2>5. x.attempt <= outbox[x.message].attempt /\ x.attempt >= MaxAttempts
    BY <2>1 DEF CountsNotAhead, IsExhausted
  <2>6. outbox[x.message].attempt >= MaxAttempts
    BY <1>0, <2>2, <2>5, PolicyAssumption
  <2>7. QED
    BY <1>0, <2>2, <2>3, <2>4, <2>6, SettleType
<1>2. CASE MarkFailed(p)
  <2>1. PICK x \in batch[p] :
          Settle(p, x, [outbox[x.message] EXCEPT !.attempt = @ + 1,
                                                 !.claimedUntil = NoClaim])
    BY <1>2 DEF MarkFailed
  <2> DEFINE entry == [outbox[x.message] EXCEPT !.attempt = @ + 1,
                                                !.claimedUntil = NoClaim]
  <2>2. x.message \in Message
    BY DEF TypeOK, Claimed
  <2>3. /\ entry \in Entry /\ entry.delivered = outbox[x.message].delivered
        /\ entry.quarantined = outbox[x.message].quarantined
        /\ entry.attempt = outbox[x.message].attempt + 1
    BY <2>2, FailedEntry
  <2>4. Settle(p, x, entry)
    BY <2>1
  <2> HIDE DEF entry
  <2>5. QED
    BY <1>0, <2>2, <2>3, <2>4, SettleType
<1>3. QED
  BY <1>1, <1>2
-----------------------------------------------------------------------------
\* What publishers hold stays sound when nothing moves backward.
LEMMA ForwardKeeps ==
    ASSUME OutboxInv, TypeOK', Forward
    PROVE  NothingAheadInHand' /\ CountsNotAhead' /\ QuarantinedOnceExhausted'
<1>1. \A m \in Message : outbox[m].attempt \in Nat /\ outbox'[m].attempt \in Nat
  BY DEF OutboxInv, TypeOK, Entry
<1>2. NothingAheadInHand'
  BY DEF OutboxInv, Forward, NothingAheadInHand, Ahead
<1>3. ASSUME NEW p \in Publishers, NEW x \in batch'[p]
      PROVE  x.attempt <= outbox'[x.message].attempt
  <2>1. x \in batch[p] /\ x.message \in Message /\ x.attempt \in Nat
    BY DEF OutboxInv, TypeOK, Claimed, Forward
  <2>2. x.attempt <= outbox[x.message].attempt
    BY <2>1 DEF OutboxInv, CountsNotAhead
  <2>3. outbox[x.message].attempt <= outbox'[x.message].attempt
    BY <2>1 DEF Forward
  <2>4. QED
    BY <1>1, <2>1, <2>2, <2>3
<1>4. ASSUME NEW m \in Message, outbox'[m].quarantined
      PROVE  outbox'[m].attempt >= MaxAttempts
  <2>1. CASE outbox[m].quarantined
    <3>1. outbox[m].attempt >= MaxAttempts /\ outbox[m].attempt <= outbox'[m].attempt
      BY <2>1 DEF OutboxInv, QuarantinedOnceExhausted, Forward
    <3>2. QED
      BY <1>1, <3>1, PolicyAssumption
  <2>2. QED
    BY <1>4, <2>1 DEF Forward
<1>5. QED
  BY <1>2, <1>3, <1>4 DEF CountsNotAhead, QuarantinedOnceExhausted

\* Every step keeps the invariant.
LEMMA OutboxStep == ASSUME OutboxInv, [Next]_vars PROVE OutboxInv'
<1>1. /\ TypeOK /\ ConfirmedArrived /\ RetiredOnceArrived /\ NothingAheadInHand
      /\ ArrivesInOrder /\ CountsNotAhead /\ QuarantinedOnceExhausted
  BY DEF OutboxInv
<1>2. \A m \in Message : outbox[m].attempt \in Nat
  BY <1>1 DEF TypeOK, Entry
<1>3. CASE \/ \E m \in Message : Enqueue(m) \/ LeaseRunsOut(m)
           \/ \E p \in Publishers : Crash(p)
           \/ UNCHANGED vars
  <2>1. /\ TypeOK'
        /\ \A m \in Message : /\ outbox'[m].delivered = outbox[m].delivered
                              /\ outbox'[m].quarantined = outbox[m].quarantined
                              /\ outbox'[m].attempt = outbox[m].attempt
        /\ \A p \in Publishers : /\ batch'[p] \subseteq batch[p]
                                 /\ confirmed'[p] \subseteq confirmed[p]
        /\ arrived' = arrived
    BY <1>1, <1>3, QuietType
  <2>2. Forward
    BY <1>2, <2>1 DEF Forward
  <2>3. ConfirmedArrived' /\ RetiredOnceArrived' /\ ArrivesInOrder'
    BY <1>1, <2>1 DEF ConfirmedArrived, RetiredOnceArrived, ArrivesInOrder, Ahead
  <2>4. QED
    BY <2>1, <2>2, <2>3, ForwardKeeps DEF OutboxInv
<1>4. ASSUME NEW p \in Publishers, Claim(p) PROVE OutboxInv'
  <2>1. /\ TypeOK'
        /\ \A m \in Message : /\ outbox'[m].delivered = outbox[m].delivered
                              /\ outbox'[m].quarantined = outbox[m].quarantined
                              /\ outbox'[m].attempt = outbox[m].attempt
        /\ \A x \in batch'[p] : /\ x.message \in Message /\ Head(x.message)
                                /\ x.attempt = outbox[x.message].attempt
        /\ \A q \in Publishers \ {p} : batch'[q] = batch[q]
        /\ confirmed' = confirmed /\ arrived' = arrived
    BY <1>1, <1>4, ClaimEffect
  <2>2. ConfirmedArrived' /\ RetiredOnceArrived' /\ ArrivesInOrder'
    BY <1>1, <2>1 DEF ConfirmedArrived, RetiredOnceArrived, ArrivesInOrder, Ahead
  <2>3. QuarantinedOnceExhausted'
    BY <1>1, <2>1 DEF QuarantinedOnceExhausted
  <2>4. ASSUME NEW q \in Publishers, NEW x \in batch'[q]
        PROVE  /\ x.attempt <= outbox'[x.message].attempt
               /\ \A k \in Message : Ahead(k, x.message) => outbox'[k].delivered
    <3>1. x.message \in Message
      BY <2>1 DEF TypeOK, Claimed
    <3>2. CASE q = p
      <4>1. Head(x.message) /\ x.attempt = outbox[x.message].attempt
        BY <2>1, <3>2
      <4>2. x.attempt <= outbox'[x.message].attempt
        BY <1>2, <2>1, <3>1, <4>1
      <4>3. QED
        BY <2>1, <4>1, <4>2 DEF Head
    <3>3. CASE q # p
      <4>1. x \in batch[q]
        BY <2>1, <3>3
      <4>2. QED
        BY <1>1, <2>1, <3>1, <4>1 DEF CountsNotAhead, NothingAheadInHand
    <3>4. QED
      BY <3>2, <3>3
  <2>5. CountsNotAhead' /\ NothingAheadInHand'
    BY <2>4 DEF CountsNotAhead, NothingAheadInHand, Ahead
  <2>6. QED
    BY <2>1, <2>2, <2>3, <2>5 DEF OutboxInv
<1>5. ASSUME NEW p \in Publishers,
             Deliver(p) \/ \E gotThrough \in BOOLEAN : DeliverFails(p, gotThrough)
      PROVE  OutboxInv'
  <2>1. /\ TypeOK' /\ outbox' = outbox
        /\ \A q \in Publishers : batch'[q] \subseteq batch[q]
        /\ \A q \in Publishers \ {p} : confirmed'[q] = confirmed[q]
    BY <1>1, <1>5, DeliverEffect
  <2>2. PICK x \in batch[p] :
          /\ x.message \in Message
          /\ arrived' \in {arrived, arrived \cup {x.message}}
          /\ confirmed'[p] \subseteq confirmed[p] \cup {x.message}
          /\ confirmed'[p] # confirmed[p] => x.message \in arrived'
    BY <1>1, <1>5, DeliverEffect
  <2>3. Forward
    BY <1>2, <2>1 DEF Forward
  <2>4. ConfirmedArrived'
    BY <1>1, <2>1, <2>2 DEF ConfirmedArrived
  <2>5. RetiredOnceArrived'
    BY <1>1, <2>1, <2>2 DEF RetiredOnceArrived
  <2>6. \A k \in Message : Ahead(k, x.message) => k \in arrived
    BY <1>1, <2>2 DEF NothingAheadInHand, RetiredOnceArrived
  <2>7. ArrivesInOrder'
    BY <1>1, <2>2, <2>6 DEF ArrivesInOrder, Ahead
  <2>8. QED
    BY <2>1, <2>3, <2>4, <2>5, <2>7, ForwardKeeps DEF OutboxInv
<1>6. ASSUME NEW p \in Publishers, Quarantine(p) \/ MarkFailed(p) PROVE OutboxInv'
  <2>1. /\ TypeOK'
        /\ \A m \in Message :
             /\ outbox'[m].delivered = outbox[m].delivered
             /\ outbox'[m].attempt >= outbox[m].attempt
             /\ outbox'[m].quarantined =>
                  outbox[m].quarantined \/ outbox'[m].attempt >= MaxAttempts
        /\ \A q \in Publishers : batch'[q] \subseteq batch[q]
        /\ confirmed' = confirmed /\ arrived' = arrived
    BY <1>1, <1>6, SettleEffect
  <2>2. \A m \in Message : outbox'[m].attempt \in Nat
    BY <2>1 DEF TypeOK, Entry
  <2>3. Forward
    BY <1>2, <2>1, <2>2 DEF Forward
  <2>4. ConfirmedArrived' /\ RetiredOnceArrived' /\ ArrivesInOrder'
    BY <1>1, <2>1 DEF ConfirmedArrived, RetiredOnceArrived, ArrivesInOrder, Ahead
  <2>5. QED
    BY <2>1, <2>3, <2>4, ForwardKeeps DEF OutboxInv
<1>7. ASSUME NEW p \in Publishers, MarkDelivered(p) PROVE OutboxInv'
  <2>1. /\ TypeOK'
        /\ \A m \in Message :
             /\ outbox'[m].delivered <=> outbox[m].delivered \/ m \in confirmed[p]
             /\ outbox'[m].quarantined = outbox[m].quarantined
             /\ outbox'[m].attempt = outbox[m].attempt
        /\ confirmed'[p] = {} /\ \A q \in Publishers \ {p} : confirmed'[q] = confirmed[q]
        /\ batch' = batch /\ arrived' = arrived
    BY <1>1, <1>7, MarkDeliveredEffect
  <2>2. Forward
    BY <1>2, <2>1 DEF Forward
  <2>3. ConfirmedArrived' /\ ArrivesInOrder'
    BY <1>1, <2>1 DEF ConfirmedArrived, ArrivesInOrder, Ahead
  <2>4. RetiredOnceArrived'
    BY <1>1, <2>1 DEF RetiredOnceArrived, ConfirmedArrived
  <2>5. QED
    BY <2>1, <2>2, <2>3, <2>4, ForwardKeeps DEF OutboxInv
<1>8. QED
  BY <1>3, <1>4, <1>5, <1>6, <1>7 DEF Next, Work

\* An empty outbox satisfies the invariant.
LEMMA OutboxStart == Init => OutboxInv
<1> SUFFICES ASSUME Init PROVE OutboxInv
  OBVIOUS
<1>1. TypeOK
  BY DEF Init, TypeOK, Entry
<1>2. QED
  BY <1>1 DEF Init, OutboxInv, ConfirmedArrived, RetiredOnceArrived, NothingAheadInHand,
              ArrivesInOrder, CountsNotAhead, QuarantinedOnceExhausted

\* The invariant always holds: no step of any publisher breaks it.
THEOREM OutboxIsSound == Spec => []OutboxInv
  BY OutboxStart, OutboxStep, PTL DEF Spec

(***************************************************************************)
(* The store's entries and the publishers' rounds are well formed.         *)
(***************************************************************************)
THEOREM OutboxTypeCorrect == Spec => []TypeOK
<1>1. OutboxInv => TypeOK
  BY DEF OutboxInv
<1>2. QED
  BY <1>1, OutboxIsSound, PTL

(***************************************************************************)
(* Messages of one ceremony arrive for the first time in the order they    *)
(* were committed, whatever claims expired under whichever publishers.     *)
(***************************************************************************)
THEOREM OrderIsKept == Spec => []ArrivesInOrder
<1>1. OutboxInv => ArrivesInOrder
  BY DEF OutboxInv
<1>2. QED
  BY <1>1, OutboxIsSound, PTL

(***************************************************************************)
(* The store never retires a message that did not arrive.                  *)
(***************************************************************************)
THEOREM NothingIsLost == Spec => []RetiredOnceArrived
<1>1. OutboxInv => RetiredOnceArrived
  BY DEF OutboxInv
<1>2. QED
  BY <1>1, OutboxIsSound, PTL

(***************************************************************************)
(* Nothing is worked on while something ahead of it waits or is            *)
(* quarantined undelivered.                                                *)
(***************************************************************************)
THEOREM QuarantineStopsItsCeremony == Spec => []NothingAheadInHand
<1>1. OutboxInv => NothingAheadInHand
  BY DEF OutboxInv
<1>2. QED
  BY <1>1, OutboxIsSound, PTL

(***************************************************************************)
(* A message is given up only after as many failures as the policy allows. *)
(***************************************************************************)
THEOREM QuarantineIsEarned == Spec => []QuarantinedOnceExhausted
<1>1. OutboxInv => QuarantinedOnceExhausted
  BY DEF OutboxInv
<1>2. QED
  BY <1>1, OutboxIsSound, PTL

-----------------------------------------------------------------------------
\* Whoever settles a message, and however late, it stays quarantined.
LEMMA SettleKeepsQuarantine ==
    ASSUME TypeOK, NEW p \in Publishers, Quarantine(p) \/ MarkFailed(p),
           NEW m \in Message, outbox[m].quarantined
    PROVE  outbox'[m].quarantined
<1>1. PICK x \in batch[p] :
        \/ Settle(p, x, [outbox[x.message] EXCEPT !.quarantined = TRUE,
                                                  !.claimedUntil = NoClaim])
        \/ Settle(p, x, [outbox[x.message] EXCEPT !.attempt = @ + 1,
                                                  !.claimedUntil = NoClaim])
  BY DEF Quarantine, MarkFailed
<1>2. x.message \in Message
  BY DEF TypeOK, Claimed
<1> DEFINE given == [outbox[x.message] EXCEPT !.quarantined = TRUE, !.claimedUntil = NoClaim]
           failed == [outbox[x.message] EXCEPT !.attempt = @ + 1, !.claimedUntil = NoClaim]
<1>3. PICK entry \in {given, failed} : Settle(p, x, entry)
  BY <1>1
<1>4. /\ given \in Entry /\ given.quarantined = TRUE
      /\ failed \in Entry /\ failed.quarantined = outbox[x.message].quarantined
  BY <1>2, QuarantineEntry, FailedEntry
<1> HIDE DEF given, failed
<1>5. /\ outbox'[x.message] = entry
      /\ \A k \in Message \ {x.message} : outbox'[k] = outbox[k]
  BY <1>3, <1>4, SettleType
<1>6. QED
  BY <1>3, <1>4, <1>5

\* What OutboxPort::claim hands out was neither delivered nor quarantined.
LEMMA ClaimedIsUnsettled ==
    ASSUME TypeOK, NEW p \in Publishers, Claim(p), NEW x \in batch'[p]
    PROVE  ~outbox[x.message].delivered /\ ~outbox[x.message].quarantined
<1>1. batch'[p] = {[message |-> m, attempt |-> outbox[m].attempt] : m \in Taken}
  BY DEF Claim, TypeOK
<1>2. x.message \in Taken
  BY <1>1
<1>3. QED
  BY <1>2 DEF Taken, Claimable, Head, IsClaimable

LEMMA NothingComesBack ==
    ASSUME OutboxInv, [Next]_vars
    PROVE  SettledForGood
<1>1. TypeOK /\ CountsNotAhead /\ \A m \in Message : outbox[m].attempt \in Nat
  BY DEF OutboxInv, TypeOK, Entry
<1>2. ASSUME /\ arrived \subseteq arrived'
             /\ \A m \in Message : /\ outbox[m].delivered => outbox'[m].delivered
                                   /\ outbox[m].quarantined => outbox'[m].quarantined
                                   /\ outbox[m].attempt <= outbox'[m].attempt
             /\ \A q \in Publishers : batch'[q] \subseteq batch[q]
      PROVE  SettledForGood
  BY <1>2 DEF SettledForGood
<1>3. CASE \/ \E m \in Message : Enqueue(m) \/ LeaseRunsOut(m)
           \/ \E p \in Publishers : Crash(p)
           \/ UNCHANGED vars
  <2>1. /\ \A m \in Message : /\ outbox'[m].delivered = outbox[m].delivered
                              /\ outbox'[m].quarantined = outbox[m].quarantined
                              /\ outbox'[m].attempt = outbox[m].attempt
        /\ \A p \in Publishers : batch'[p] \subseteq batch[p]
        /\ arrived' = arrived
    BY <1>1, <1>3, QuietType
  <2>2. QED
    BY <1>1, <1>2, <2>1
<1>4. ASSUME NEW p \in Publishers, Claim(p) PROVE SettledForGood
  <2>1. /\ \A m \in Message : /\ outbox'[m].delivered = outbox[m].delivered
                              /\ outbox'[m].quarantined = outbox[m].quarantined
                              /\ outbox'[m].attempt = outbox[m].attempt
        /\ \A q \in Publishers \ {p} : batch'[q] = batch[q]
        /\ arrived' = arrived
    BY <1>1, <1>4, ClaimEffect
  <2>2. \A x \in batch'[p] : ~outbox[x.message].delivered /\ ~outbox[x.message].quarantined
    BY <1>1, <1>4, ClaimedIsUnsettled
  <2>3. QED
    BY <1>1, <2>1, <2>2 DEF SettledForGood
<1>5. ASSUME NEW p \in Publishers,
             Deliver(p) \/ \E gotThrough \in BOOLEAN : DeliverFails(p, gotThrough)
      PROVE  SettledForGood
  <2>1. /\ outbox' = outbox /\ arrived \subseteq arrived'
        /\ \A q \in Publishers : batch'[q] \subseteq batch[q]
    BY <1>1, <1>5, DeliverEffect
  <2>2. QED
    BY <1>1, <1>2, <2>1
<1>6. ASSUME NEW p \in Publishers, Quarantine(p) \/ MarkFailed(p) PROVE SettledForGood
  <2>1. /\ \A m \in Message : /\ outbox'[m].delivered = outbox[m].delivered
                              /\ outbox'[m].attempt >= outbox[m].attempt
        /\ \A q \in Publishers : batch'[q] \subseteq batch[q]
        /\ arrived' = arrived /\ TypeOK'
    BY <1>1, <1>6, SettleEffect
  <2>2. \A m \in Message : outbox[m].quarantined => outbox'[m].quarantined
    BY <1>1, <1>6, SettleKeepsQuarantine
  <2>3. \A m \in Message : outbox'[m].attempt \in Nat
    BY <2>1 DEF TypeOK, Entry
  <2>4. \A m \in Message : outbox[m].attempt <= outbox'[m].attempt
    BY <1>1, <2>1, <2>3
  <2>5. QED
    BY <1>2, <2>1, <2>2, <2>4
<1>7. ASSUME NEW p \in Publishers, MarkDelivered(p) PROVE SettledForGood
  <2>1. /\ \A m \in Message :
             /\ outbox'[m].delivered <=> outbox[m].delivered \/ m \in confirmed[p]
             /\ outbox'[m].quarantined = outbox[m].quarantined
             /\ outbox'[m].attempt = outbox[m].attempt
        /\ batch' = batch /\ arrived' = arrived
    BY <1>1, <1>7, MarkDeliveredEffect
  <2>2. QED
    BY <1>1, <1>2, <2>1
<1>8. QED
  BY <1>3, <1>4, <1>5, <1>6, <1>7 DEF Next, Work

(***************************************************************************)
(* Whatever was delivered or quarantined stays so and is handed to no      *)
(* publisher again, for any number of publishers writing late for claims   *)
(* that are no longer theirs; what arrived is never forgotten and attempts *)
(* are never taken back.                                                   *)
(***************************************************************************)
THEOREM SettledMessagesStaySettled == Spec => [][SettledForGood]_vars
<1>1. OutboxInv /\ [Next]_vars => [SettledForGood]_vars
  BY NothingComesBack
<1>2. QED
  BY <1>1, OutboxIsSound, PTL DEF Spec
=============================================================================
