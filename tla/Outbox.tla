------------------------------- MODULE Outbox -------------------------------
(***************************************************************************)
(* The outbox of a ceremony store (OutboxPort, as the in-memory and redb   *)
(* stores implement it) and the publishers that empty it                   *)
(* (PublishOutboxUseCase): each claims a batch under a lease, hands the    *)
(* messages to a transport one by one and settles each with the store.     *)
(* Publishers overlap, outlive their leases and die; the transport loses   *)
(* messages and also reports failure for messages that got through.        *)
(*                                                                         *)
(* Time matters only through `claimed_until <= now`, so an instant is      *)
(* represented by whose lease it ends: claimedUntil names the publisher    *)
(* whose lease the store remembers, and LeaseRunsOut lets it pass.         *)
(* Operators whose name ends in a bug's name are faulty variants of the    *)
(* operator that follows them.                                             *)
(***************************************************************************)
EXTENDS Naturals, FiniteSets

CONSTANTS
    Ceremonies,    \* numbered in the order the store visits them
    Publishers,
    NoClaim,       \* claimed_until is absent, or has passed
    BatchSize,     \* PublishOutboxInput: how much a round takes on
    MaxAttempts,   \* PublishOutboxInput: when it gives up on a message
    Message,       \* bound: the messages the ceremonies may commit
    MaxCrashes     \* bound: rounds cut short

ASSUME PolicyAssumption ==
    /\ Ceremonies \subseteq Nat
    /\ BatchSize \in Nat \ {0}
    /\ MaxAttempts \in Nat \ {0}

ASSUME PublishersAssumption == NoClaim \notin Publishers

\* A message is known by its ceremony and its place in that ceremony's queue.
ASSUME MessageAssumption == Message \subseteq [ceremony: Ceremonies, number: Nat \ {0}]

ASSUME CrashesAssumption == MaxCrashes \in Nat

\* StoredOutboxMessage.
Entry == [attempt: Nat, claimedUntil: Publishers \cup {NoClaim},
          delivered: BOOLEAN, quarantined: BOOLEAN]

\* ClaimedOutboxMessage: the message, and the attempts counted when claimed.
Claimed == [message: Message, attempt: Nat]

VARIABLES
    enqueued,   \* how many messages of each ceremony were committed
    outbox,     \* the store's entry for each message
    arrived,    \* what reached its destination, at least once
    pc,         \* where each publisher is in its round
    batch,      \* what it claimed and has not come to yet
    confirmed,  \* what its transport confirmed, not yet marked delivered
    crashes

vars == <<enqueued, outbox, arrived, pc, batch, confirmed, crashes>>

TypeOK ==
    /\ enqueued \in [Ceremonies -> Nat]
    /\ outbox \in [Message -> Entry]
    /\ arrived \in SUBSET Message
    /\ pc \in [Publishers -> {"idle", "working", "failing"}]
    /\ batch \in [Publishers -> SUBSET Claimed]
    /\ confirmed \in [Publishers -> SUBSET Message]
    /\ crashes \in Nat

Init ==
    /\ enqueued = [c \in Ceremonies |-> 0]
    /\ outbox = [m \in Message |-> [attempt |-> 0, claimedUntil |-> NoClaim,
                                    delivered |-> FALSE, quarantined |-> FALSE]]
    /\ arrived = {}
    /\ pc = [p \in Publishers |-> "idle"]
    /\ batch = [p \in Publishers |-> {}]
    /\ confirmed = [p \in Publishers |-> {}]
    /\ crashes = 0

-----------------------------------------------------------------------------
\* A commit adds its messages, the last of which is m, at the end of the
\* ceremony's queue.
Enqueue(m) ==
    /\ enqueued[m.ceremony] < m.number
    /\ enqueued' = [enqueued EXCEPT ![m.ceremony] = m.number]
    /\ UNCHANGED <<outbox, arrived, pc, batch, confirmed, crashes>>

\* m is ahead of n in the queue of the same ceremony.
Ahead(m, n) == m.ceremony = n.ceremony /\ m.number < n.number

Head_SkipsQuarantined(m) ==
    /\ m.number <= enqueued[m.ceremony]
    /\ ~outbox[m].delivered
    /\ \A k \in Message : Ahead(k, m) => outbox[k].delivered \/ outbox[k].quarantined

\* The first message of its ceremony that is not delivered.
Head(m) ==
    /\ m.number <= enqueued[m.ceremony]
    /\ ~outbox[m].delivered
    /\ \A k \in Message : Ahead(k, m) => outbox[k].delivered

\* is_claimable, but for `delivered`, which a head is not.
IsClaimable(m) == ~outbox[m].quarantined /\ outbox[m].claimedUntil = NoClaim

Claimable == {m \in Message : Head(m) /\ IsClaimable(m)}

\* Ceremonies are visited in order until the batch is full.
Taken ==
    {m \in Claimable :
        Cardinality({k \in Claimable : k.ceremony < m.ceremony}) < BatchSize}

\* OutboxPort::claim, one transaction; a round may come away empty.
Claim(p) ==
    /\ pc[p] = "idle"
    /\ outbox' = [m \in Message |->
                    IF m \in Taken THEN [outbox[m] EXCEPT !.claimedUntil = p] ELSE outbox[m]]
    /\ batch' = [batch EXCEPT ![p] =
                   {[message |-> m, attempt |-> outbox[m].attempt] : m \in Taken}]
    /\ pc' = [pc EXCEPT ![p] = "working"]
    /\ UNCHANGED <<enqueued, arrived, confirmed, crashes>>

-----------------------------------------------------------------------------
\* The claimed message the round has come to.
Current(p, x) ==
    x \in batch[p] /\ \A y \in batch[p] : x.message.ceremony <= y.message.ceremony

IsExhausted_OffByOne(x) == x.attempt >= MaxAttempts - 1

\* Judged by the attempts counted when the message was claimed.
IsExhausted(x) == x.attempt >= MaxAttempts

\* The store settles a message: the lease it remembers, whoever's, is over.
Settle(p, x, entry) ==
    /\ outbox' = [outbox EXCEPT ![x.message] = entry]
    /\ batch' = [batch EXCEPT ![p] = @ \ {x}]
    /\ pc' = [pc EXCEPT ![p] = "working"]
    /\ UNCHANGED <<enqueued, arrived, confirmed, crashes>>

\* OutboxPort::quarantine.
Quarantine(p) ==
    \E x \in batch[p] :
        /\ pc[p] = "working"
        /\ Current(p, x)
        /\ IsExhausted(x)
        /\ Settle(p, x, [outbox[x.message] EXCEPT !.quarantined = TRUE,
                                                  !.claimedUntil = NoClaim])

\* The transport confirms. The store is told at the end of the round.
Deliver(p) ==
    \E x \in batch[p] :
        /\ pc[p] = "working"
        /\ Current(p, x)
        /\ ~IsExhausted(x)
        /\ arrived' = arrived \cup {x.message}
        /\ confirmed' = [confirmed EXCEPT ![p] = @ \cup {x.message}]
        /\ batch' = [batch EXCEPT ![p] = @ \ {x}]
        /\ UNCHANGED <<enqueued, outbox, pc, crashes>>

\* The transport reports a failure, whether or not the message got through.
DeliverFails(p, gotThrough) ==
    \E x \in batch[p] :
        /\ pc[p] = "working"
        /\ Current(p, x)
        /\ ~IsExhausted(x)
        /\ arrived' = IF gotThrough THEN arrived \cup {x.message} ELSE arrived
        /\ pc' = [pc EXCEPT ![p] = "failing"]
        /\ UNCHANGED <<enqueued, outbox, batch, confirmed, crashes>>

\* OutboxPort::mark_failed, for whichever claim the store remembers by now.
MarkFailed(p) ==
    \E x \in batch[p] :
        /\ pc[p] = "failing"
        /\ Current(p, x)
        /\ Settle(p, x, [outbox[x.message] EXCEPT !.attempt = @ + 1,
                                                  !.claimedUntil = NoClaim])

MarkDelivered_WholeBatch(p) ==
    /\ pc[p] = "working"
    /\ outbox' = [m \in Message |->
                    IF m \in confirmed[p] \/ \E x \in batch[p] : x.message = m
                    THEN [outbox[m] EXCEPT !.delivered = TRUE, !.claimedUntil = NoClaim]
                    ELSE outbox[m]]
    /\ confirmed' = [confirmed EXCEPT ![p] = {}]
    /\ batch' = [batch EXCEPT ![p] = {}]
    /\ pc' = [pc EXCEPT ![p] = "idle"]
    /\ UNCHANGED <<enqueued, arrived, crashes>>

\* The round is over: OutboxPort::mark_delivered for all that was confirmed.
MarkDelivered(p) ==
    /\ pc[p] = "working"
    /\ batch[p] = {}
    /\ outbox' = [m \in Message |->
                    IF m \in confirmed[p]
                    THEN [outbox[m] EXCEPT !.delivered = TRUE, !.claimedUntil = NoClaim]
                    ELSE outbox[m]]
    /\ confirmed' = [confirmed EXCEPT ![p] = {}]
    /\ pc' = [pc EXCEPT ![p] = "idle"]
    /\ UNCHANGED <<enqueued, arrived, batch, crashes>>

\* The publisher dies, or a call to the store fails and the round returns
\* early: what was confirmed and not yet marked is forgotten.
Crash(p) ==
    /\ crashes < MaxCrashes
    /\ crashes' = crashes + 1
    /\ pc[p] # "idle"
    /\ pc' = [pc EXCEPT ![p] = "idle"]
    /\ batch' = [batch EXCEPT ![p] = {}]
    /\ confirmed' = [confirmed EXCEPT ![p] = {}]
    /\ UNCHANGED <<enqueued, outbox, arrived>>

LeaseRunsOut_Never(m) == FALSE /\ UNCHANGED vars

\* Time passes the end of the lease the store remembers on m.
LeaseRunsOut(m) ==
    /\ outbox[m].claimedUntil # NoClaim
    /\ outbox' = [outbox EXCEPT ![m].claimedUntil = NoClaim]
    /\ UNCHANGED <<enqueued, arrived, pc, batch, confirmed, crashes>>

Work(p) ==
    \/ Quarantine(p)
    \/ Deliver(p)
    \/ \E gotThrough \in BOOLEAN : DeliverFails(p, gotThrough)
    \/ MarkFailed(p)
    \/ MarkDelivered(p)

Next ==
    \/ \E m \in Message : Enqueue(m)
    \/ \E p \in Publishers : Claim(p) \/ Work(p) \/ Crash(p)
    \/ \E m \in Message : LeaseRunsOut(m)

Spec == Init /\ [][Next]_vars

(***************************************************************************)
(* The host keeps running rounds, a round that is running goes on, the     *)
(* transport answers, and time passes. Nobody is bound to commit anything  *)
(* or to crash.                                                            *)
(***************************************************************************)
Fairness ==
    /\ \A p \in Publishers : WF_vars(Claim(p) \/ Work(p))
    /\ WF_vars(\E m \in Message : LeaseRunsOut(m))

FairSpec == Spec /\ Fairness

-----------------------------------------------------------------------------
(***************************************************************************)
(* Messages of one ceremony arrive in the order they were committed        *)
(* (ports/outbox.rs, lines 30-33): no message arrives for the first time   *)
(* before everything ahead of it has arrived, however many publishers hold *)
(* stale claims. Later arrivals of the same message are redeliveries.      *)
(***************************************************************************)
ArrivesInOrder ==
    \A m, n \in Message : Ahead(m, n) /\ n \in arrived => m \in arrived

(***************************************************************************)
(* A message is retired only after it arrived (mark_delivered: "called     *)
(* only after the transport confirmed, never before"); dying in between    *)
(* costs a redelivery, never the message.                                  *)
(***************************************************************************)
RetiredOnceArrived == \A m \in Message : outbox[m].delivered => m \in arrived

\* Nothing is quarantined before it has failed MaxAttempts times, although
\* the count is read at the claim and acted on later.
QuarantinedOnceExhausted ==
    \A m \in Message : outbox[m].quarantined => outbox[m].attempt >= MaxAttempts

(***************************************************************************)
(* What a publisher works on had, when it was claimed and ever since,      *)
(* everything ahead of it delivered: a quarantined message that has not    *)
(* been delivered stops its ceremony and nothing gets past it.             *)
(***************************************************************************)
NothingAheadInHand ==
    \A p \in Publishers : \A x \in batch[p] : \A k \in Message :
        Ahead(k, x.message) => outbox[k].delivered

(***************************************************************************)
(* What a step never does, although mark_failed, quarantine and            *)
(* mark_delivered write for whichever claim the store remembers by then: a *)
(* publisher that comes late to a message another one settled does not     *)
(* bring it back, and nobody is handed a delivered or quarantined message. *)
(***************************************************************************)
SettledForGood ==
    /\ arrived \subseteq arrived'
    /\ \A m \in Message :
         /\ outbox[m].delivered => outbox'[m].delivered
         /\ outbox[m].quarantined => outbox'[m].quarantined
         /\ outbox[m].attempt <= outbox'[m].attempt
         /\ outbox[m].delivered \/ outbox[m].quarantined =>
              \A p \in Publishers : \A x \in batch'[p] : x.message = m => x \in batch[p]

\* Settled: delivered, quarantined, or waiting behind a message that is
\* quarantined and has not been delivered since.
Settled(m) ==
    \/ outbox[m].delivered
    \/ outbox[m].quarantined
    \/ \E k \in Message : Ahead(k, m) /\ outbox[k].quarantined /\ ~outbox[k].delivered

(***************************************************************************)
(* No committed message is stranded: whoever dies, whatever leases are     *)
(* left behind and however the transport fails, the time comes, again and  *)
(* again, when everything committed so far was delivered or is visibly     *)
(* stopped by a quarantine.                                                *)
(***************************************************************************)
EventuallySettled ==
    []<>(\A m \in Message : m.number <= enqueued[m.ceremony] => Settled(m))

=============================================================================
