--------------------------- MODULE FeedbackOutbox ---------------------------
(***************************************************************************)
(* Anonymous feedback on its way to a private chat: the submissions, the   *)
(* table feedback_outbox with its leases, and the drains that every        *)
(* replica starts with the server and again every two minutes.             *)
(*                                                                         *)
(* Time is what is left of a lease, so that no bound ends a run: Tick      *)
(* shortens every lease, and a lease of 0 is one that has ended or a NULL. *)
(***************************************************************************)
EXTENDS Integers, Sequences, FiniteSets

CONSTANTS
  Entry,            \* ids of feedback entries, each of one submission
  Drain,            \* concurrent drainPending, on any replica
  Lease,            \* leaseMs of a claim, and the delay of a release
  BatchLimit,       \* the limit of a claim
  MaxOutboxFaults   \* bound: failed calls and stopped processes in a run

ASSUME LeaseIsPositive == Lease \in Nat \ {0}
ASSUME OutboxBounds == BatchLimit \in Nat \ {0} /\ MaxOutboxFaults \in Nat

VARIABLES
  lease,         \* table feedback_outbox: what is left of lease_until, or NoRow
  received,      \* the entries in the order of received_at
  posted,        \* how often the chat shows each entry
  thanked,       \* the entries whose sender was answered 202
  submission,    \* the point each submit has reached
  drain,         \* the state of each drainPending
  botEnabled,    \* TelegramFeedback.enabled, the same on every replica
  shared,        \* history: entries claimed while another process held them
  outboxFaults   \* failures so far

processes == <<submission, drain>>
outboxVars == <<lease, received, posted, thanked, processes, botEnabled,
                shared, outboxFaults>>

-----------------------------------------------------------------------------
NoRow == -1

\* A drain holds what it claimed and has not handled; `left' is what is left of
\* the lease it was given, `entry' the one in its hands.
DrainState == [pc : {"idle", "next", "acknowledge", "release"},
               batch : SUBSET Entry, entry : SUBSET Entry, left : 0 .. Lease]

IdleDrain == [pc |-> "idle", batch |-> {}, entry |-> {}, left |-> 0]

\* Rows, processes and answers hold what the code puts into them.
OutboxTypeOK ==
  /\ lease \in [Entry -> NoRow .. Lease]
  /\ received \in Seq(Entry)
  /\ posted \in [Entry -> Nat]
  /\ thanked \subseteq Entry
  /\ submission \in [Entry -> {"new", "enqueue", "deliver", "acknowledge",
                               "accepted", "failed"}]
  /\ drain \in [Drain -> DrainState]
  /\ botEnabled \in BOOLEAN
  /\ shared \subseteq Entry
  /\ outboxFaults \in Nat

OutboxInit ==
  /\ lease = [e \in Entry |-> NoRow]
  /\ received = <<>>
  /\ posted = [e \in Entry |-> 0]
  /\ thanked = {}
  /\ submission = [e \in Entry |-> "new"]
  /\ drain = [d \in Drain |-> IdleDrain]
  /\ botEnabled \in BOOLEAN
  /\ shared = {}
  /\ outboxFaults = 0

CallFails == outboxFaults < MaxOutboxFaults /\ outboxFaults' = outboxFaults + 1

-----------------------------------------------------------------------------
(* The table *)

\* enqueueFeedback
Enqueued(e) == [lease EXCEPT ![e] = 0]

\* Variant: marked as sent until its lease ends.
AcknowledgedForNow(e) == [lease EXCEPT ![e] = Lease]

\* Variant: the rows of a batch are deleted with the first that is delivered.
AcknowledgedBatch(e) ==
  [f \in Entry |-> IF \/ f = e
                      \/ \E d \in Drain : {e, f} \subseteq drain[d].batch
                   THEN NoRow ELSE lease[f]]

\* acknowledgeFeedback
Acknowledged(e) == [lease EXCEPT ![e] = NoRow]

\* Variant: released for the next claim at once, whoever holds the row by then.
ReleasedAtOnce(e) == [lease EXCEPT ![e] = IF @ = NoRow THEN NoRow ELSE 0]

\* releaseFeedback: an UPDATE, which brings no row back
Released(e) == [lease EXCEPT ![e] = IF @ = NoRow THEN NoRow ELSE Lease]

Claimable == {e \in Entry : lease[e] = 0}

Earlier(f, e) ==
  \E i, j \in DOMAIN received : i < j /\ received[i] = f /\ received[j] = e

\* The rows a claim takes: the first of the claimable ones by received_at.
Claimed ==
  {e \in Claimable : Cardinality({f \in Claimable : Earlier(f, e)}) < BatchLimit}

-----------------------------------------------------------------------------
(* submit *)

Accept(e) ==
  /\ submission' = [submission EXCEPT ![e] = "accepted"]
  /\ thanked' = thanked \cup {e}

\* The message is valid and within the client's limit; received_at is taken.
Submit(e) ==
  /\ submission[e] = "new"
  /\ submission' = [submission EXCEPT ![e] = "enqueue"]
  /\ received' = Append(received, e)
  /\ UNCHANGED <<lease, posted, thanked, drain, botEnabled, shared, outboxFaults>>

\* Variant: without a bot there is nothing to store.
EnqueueIfEnabled(e) ==
  /\ submission[e] = "enqueue"
  /\ IF botEnabled THEN /\ submission' = [submission EXCEPT ![e] = "deliver"]
                        /\ lease' = Enqueued(e)
                        /\ UNCHANGED thanked
                   ELSE Accept(e) /\ UNCHANGED lease
  /\ UNCHANGED <<received, posted, drain, botEnabled, shared, outboxFaults>>

\* The row is durable; without a bot that is all.
Enqueue(e) ==
  /\ submission[e] = "enqueue"
  /\ lease' = Enqueued(e)
  /\ IF botEnabled THEN /\ submission' = [submission EXCEPT ![e] = "deliver"]
                        /\ UNCHANGED thanked
                   ELSE Accept(e)
  /\ UNCHANGED <<received, posted, drain, botEnabled, shared, outboxFaults>>

\* The sender is answered 500, whether or not the row was inserted.
EnqueueFails(e) ==
  /\ submission[e] = "enqueue"
  /\ CallFails
  /\ lease' \in {lease, Enqueued(e)}
  /\ submission' = [submission EXCEPT ![e] = "failed"]
  /\ UNCHANGED <<received, posted, thanked, drain, botEnabled, shared>>

Post(e) == posted' = [posted EXCEPT ![e] = @ + 1]

Deliver(e) ==
  /\ submission[e] = "deliver"
  /\ Post(e)
  /\ submission' = [submission EXCEPT ![e] = "acknowledge"]
  /\ UNCHANGED <<lease, received, thanked, drain, botEnabled, shared, outboxFaults>>

\* Telegram refused, or its answer was lost: the entry is queued.
DeliverFails(e) ==
  /\ submission[e] = "deliver"
  /\ CallFails
  /\ Post(e) \/ UNCHANGED posted
  /\ Accept(e)
  /\ UNCHANGED <<lease, received, drain, botEnabled, shared>>

Acknowledge(e) ==
  /\ submission[e] = "acknowledge"
  /\ lease' = Acknowledged(e)
  /\ Accept(e)
  /\ UNCHANGED <<received, posted, drain, botEnabled, shared, outboxFaults>>

AcknowledgeFails(e) ==
  /\ submission[e] = "acknowledge"
  /\ CallFails
  /\ lease' \in {lease, Acknowledged(e)}
  /\ Accept(e)
  /\ UNCHANGED <<received, posted, drain, botEnabled, shared>>

-----------------------------------------------------------------------------
(* drainPending *)

\* A claim gives a lease and takes what nobody else has a lease on; a submission
\* under way has none.
Claim(d) ==
  /\ botEnabled
  /\ drain[d].pc = "idle"
  /\ Claimed # {}
  /\ lease' = [e \in Entry |-> IF e \in Claimed THEN Lease ELSE lease[e]]
  /\ drain' = [drain EXCEPT ![d] = [pc |-> "next", batch |-> Claimed,
                                    entry |-> {}, left |-> Lease]]
  /\ shared' = shared \cup
       {e \in Claimed : \/ submission[e] \in {"deliver", "acknowledge"}
                        \/ \E c \in Drain \ {d} : e \in drain[c].batch}
  /\ UNCHANGED <<received, posted, thanked, submission, botEnabled, outboxFaults>>

\* The rows are leased, but the drain never learns which.
ClaimIsLost(d) ==
  /\ botEnabled
  /\ drain[d].pc = "idle"
  /\ Claimed # {}
  /\ CallFails
  /\ lease' = [e \in Entry |-> IF e \in Claimed THEN Lease ELSE lease[e]]
  /\ UNCHANGED <<received, posted, thanked, processes, botEnabled, shared>>

\* A drain goes on with what it has left of its batch.
Hold(d, pc, batch, entry) ==
  drain' = [drain EXCEPT ![d] =
              [pc |-> pc, batch |-> batch, entry |-> entry, left |-> drain[d].left]]

DrainDeliver(d) ==
  /\ drain[d].pc = "next"
  /\ \E e \in drain[d].batch :
       /\ Post(e)
       /\ Hold(d, "acknowledge", drain[d].batch, {e})
  /\ UNCHANGED <<lease, received, thanked, submission, botEnabled, shared, outboxFaults>>

DrainDeliverFails(d) ==
  /\ drain[d].pc = "next"
  /\ CallFails
  /\ \E e \in drain[d].batch :
       /\ Post(e) \/ UNCHANGED posted
       /\ Hold(d, "release", drain[d].batch, {e})
  /\ UNCHANGED <<lease, received, thanked, submission, botEnabled, shared>>

\* The loop goes on with the rest of the batch, or ends.
Proceed(d, e) ==
  IF drain[d].batch = {e} THEN drain' = [drain EXCEPT ![d] = IdleDrain]
  ELSE Hold(d, "next", drain[d].batch \ {e}, {})

DrainAcknowledge(d) ==
  /\ drain[d].pc = "acknowledge"
  /\ \E e \in drain[d].entry : lease' = Acknowledged(e) /\ Proceed(d, e)
  /\ UNCHANGED <<received, posted, thanked, submission, botEnabled, shared, outboxFaults>>

DrainAcknowledgeFails(d) ==
  /\ drain[d].pc = "acknowledge"
  /\ CallFails
  /\ \E e \in drain[d].entry : lease' \in {lease, Acknowledged(e)}
  /\ Hold(d, "release", drain[d].batch, drain[d].entry)
  /\ UNCHANGED <<received, posted, thanked, submission, botEnabled, shared>>

Release(d) ==
  /\ drain[d].pc = "release"
  /\ \E e \in drain[d].entry : lease' = Released(e) /\ Proceed(d, e)
  /\ UNCHANGED <<received, posted, thanked, submission, botEnabled, shared, outboxFaults>>

\* A release that throws ends the loop: the rest of the batch waits for its lease.
ReleaseFails(d) ==
  /\ drain[d].pc = "release"
  /\ CallFails
  /\ \E e \in drain[d].entry : lease' \in {lease, Released(e)}
  /\ drain' = [drain EXCEPT ![d] = IdleDrain]
  /\ UNCHANGED <<received, posted, thanked, submission, botEnabled, shared>>

-----------------------------------------------------------------------------
(* Replicas and time *)

\* All replicas are restarted, perhaps with another configuration of the bot.
RestartReplicas ==
  /\ CallFails
  /\ submission' = [e \in Entry |->
       IF submission[e] \in {"new", "accepted"} THEN submission[e] ELSE "failed"]
  /\ drain' = [d \in Drain |-> IdleDrain]
  /\ botEnabled' \in BOOLEAN
  /\ UNCHANGED <<lease, received, posted, thanked, shared>>

\* One drain ends with its process; nothing tells the others.
DrainStops(d) ==
  /\ drain[d].pc # "idle"
  /\ CallFails
  /\ drain' = [drain EXCEPT ![d] = IdleDrain]
  /\ UNCHANGED <<lease, received, posted, thanked, submission, botEnabled, shared>>

Shorter(n) == IF n > 0 THEN n - 1 ELSE n

LeasesRun ==
  /\ (\E e \in Entry : lease[e] > 0) \/ (\E d \in Drain : drain[d].left > 0)
  /\ lease' = [e \in Entry |-> Shorter(lease[e])]
  /\ drain' = [d \in Drain |-> [drain[d] EXCEPT !.left = Shorter(drain[d].left)]]
  /\ UNCHANGED <<received, posted, thanked, submission, botEnabled, shared, outboxFaults>>

-----------------------------------------------------------------------------
SubmitStep(e) == Enqueue(e) \/ Deliver(e) \/ Acknowledge(e)

SubmitFault(e) == EnqueueFails(e) \/ DeliverFails(e) \/ AcknowledgeFails(e)

DrainStep(d) ==
  Claim(d) \/ DrainDeliver(d) \/ DrainAcknowledge(d) \/ Release(d)

DrainFault(d) ==
  \/ ClaimIsLost(d) \/ DrainDeliverFails(d)
  \/ DrainAcknowledgeFails(d) \/ ReleaseFails(d) \/ DrainStops(d)

OutboxNext ==
  \/ \E e \in Entry : Submit(e) \/ SubmitStep(e) \/ SubmitFault(e)
  \/ \E d \in Drain : DrainStep(d) \/ DrainFault(d)
  \/ RestartReplicas
  \/ LeasesRun

OutboxSpec == OutboxInit /\ [][OutboxNext]_outboxVars

\* What the scheduling gives: a process that was started runs on, every replica
\* drains again and again, time passes.
OutboxFairness ==
  /\ \A e \in Entry : WF_outboxVars(SubmitStep(e))
  /\ \A d \in Drain : WF_outboxVars(DrainStep(d))
  /\ WF_outboxVars(LeasesRun)

-----------------------------------------------------------------------------
(* Properties *)

\* "A Telegram outage, a missing bot, or a crash mid-flight never loses it": a
\* message whose sender was thanked is in the table until the chat shows it,
\* whatever fails, stops or comes late.
NeverLost == \A e \in thanked : lease[e] # NoRow \/ posted[e] > 0

\* No two drains hold one entry while both still have a lease on it, however late
\* one of them releases what it could not deliver.
OneLeaseholder ==
  \A c, d \in Drain :
    /\ drain[c].left > 0 /\ drain[d].left > 0
    /\ drain[c].batch \cap drain[d].batch # {}
    => c = d

\* The chat shows an entry twice only if a call or a process failed, or if a drain
\* claimed it from a submission or a drain that was still at work on it.
DuplicatesExplained ==
  outboxFaults = 0 => \A e \in Entry \ shared : posted[e] <= 1

\* Once the bot stays configured, the chat comes to show every message whose sender
\* was thanked: released, forgotten and late rows included.
ThankedIsPosted ==
  <>[]botEnabled => \A e \in Entry : e \in thanked ~> posted[e] > 0

=============================================================================
