--------------------------- MODULE Delivery_proofs ---------------------------
(***************************************************************************)
(* Proofs about what the server takes in: the feedback outbox, for all     *)
(* entries, drains, leases, limits and numbers of failures, and the upload *)
(* of a publish request, for all file limits and numbers of requests.      *)
(***************************************************************************)
EXTENDS FeedbackOutbox, PublishUpload, TLAPS

\* An entry that is not in the table yet is in no drain's batch either.
NotYetStored ==
  \A e \in Entry : submission[e] \in {"new", "enqueue"} =>
    lease[e] = NoRow /\ \A d \in Drain : e \notin drain[d].batch

\* A drain's lease on an entry is no longer than the one in the table, unless the row
\* is gone: so nobody can claim it before the lease ends.
LeaseCovers ==
  \A d \in Drain : drain[d].left > 0 =>
    \A e \in drain[d].batch : lease[e] = NoRow \/ lease[e] >= drain[d].left

\* What is in a drain's hands is in its batch.
HandsInBatch == \A d \in Drain : \A e \in drain[d].entry : e \in drain[d].batch

\* Whoever is about to acknowledge an entry has posted it.
AcknowledgedIsPosted ==
  /\ \A e \in Entry : submission[e] = "acknowledge" => posted[e] > 0
  /\ \A d \in Drain : drain[d].pc = "acknowledge" =>
       \A e \in drain[d].entry : posted[e] > 0

\* Nor is an entry lost whose sender still waits for the answer.
DeliverIsStored ==
  \A e \in Entry : submission[e] = "deliver" => lease[e] # NoRow \/ posted[e] > 0

\* The inductive invariant.
IInv ==
  /\ OutboxTypeOK
  /\ NotYetStored
  /\ LeaseCovers
  /\ HandsInBatch
  /\ AcknowledgedIsPosted
  /\ DeliverIsStored
  /\ NeverLost
  /\ OneLeaseholder

Leases == NotYetStored /\ LeaseCovers /\ HandsInBatch /\ OneLeaseholder

Posts == AcknowledgedIsPosted /\ DeliverIsStored /\ NeverLost

\* Before anything is submitted it holds.
LEMMA InitIInv == OutboxInit => IInv
  BY LeaseIsPositive
  DEF OutboxInit, IInv, OutboxTypeOK, IdleDrain, DrainState, NotYetStored, LeaseCovers,
      HandsInBatch, AcknowledgedIsPosted, DeliverIsStored, NeverLost, OneLeaseholder, NoRow

-----------------------------------------------------------------------------
(* The steps of the drains *)

\* What the types say of a row, of an entry and of a drain.
LEMMA Shapes ==
  ASSUME OutboxTypeOK
  PROVE  /\ lease \in [Entry -> NoRow .. Lease]
         /\ posted \in [Entry -> Nat]
         /\ drain \in [Drain -> DrainState]
         /\ \A e \in Entry : lease[e] \in Int /\ lease[e] >= NoRow /\ lease[e] <= Lease
         /\ \A e \in Entry : posted[e] \in Nat
         /\ outboxFaults \in Nat
         /\ \A d \in Drain : /\ drain[d].left \in Nat /\ drain[d].left <= Lease
                             /\ \A e \in drain[d].batch : e \in Entry
                             /\ \A e \in drain[d].entry : e \in Entry
  BY LeaseIsPositive DEF OutboxTypeOK, DrainState, NoRow

\* What the steps that follow a claim, and the end of a process, do to the drains: no
\* batch grows, no lease is prolonged, and what is posted is in hand.
DrainsShrink ==
  /\ drain' \in [Drain -> DrainState]
  /\ \A c \in Drain :
       /\ \A e \in drain'[c].batch : e \in drain[c].batch
       /\ \A e \in drain'[c].entry : e \in drain'[c].batch
       /\ drain'[c].left \in {drain[c].left, 0}
       /\ drain'[c].pc = "acknowledge" => \A e \in drain'[c].entry : posted'[e] > 0

\* And to the table and the chat: a lease begins anew, or a row goes that was posted.
RowsHandled ==
  /\ lease' \in [Entry -> NoRow .. Lease]
  /\ posted' \in [Entry -> Nat]
  /\ outboxFaults' \in Nat
  /\ \A e \in Entry :
       /\ posted'[e] \in Nat /\ posted'[e] >= posted[e]
       /\ \/ lease'[e] = lease[e]
          \/ lease'[e] = Lease /\ lease[e] # NoRow
          \/ lease'[e] = NoRow /\ posted[e] > 0

\* A drain that goes on.
LEMMA HoldShrinks ==
  ASSUME OutboxTypeOK, Leases, Posts, NEW d \in Drain,
         NEW pc \in {"next", "acknowledge", "release"}, NEW batch, NEW entry,
         \A e \in batch : e \in drain[d].batch, \A e \in entry : e \in batch,
         Hold(d, pc, batch, entry), \A e \in Entry : posted'[e] >= posted[e],
         \A e \in Entry : posted'[e] \in Nat,
         pc = "acknowledge" => \A e \in entry : posted'[e] > 0
  PROVE  DrainsShrink
<1>1. batch \in SUBSET Entry /\ entry \in SUBSET Entry
  BY Shapes
<1>2. [pc |-> pc, batch |-> batch, entry |-> entry, left |-> drain[d].left] \in DrainState
  BY <1>1, Shapes, LeaseIsPositive DEF DrainState
<1>3. drain' \in [Drain -> DrainState]
  BY <1>2, Shapes DEF Hold
<1>4. \A c \in Drain \ {d} : drain'[c] = drain[c]
  BY Shapes DEF Hold
<1>5. drain'[d] = [pc |-> pc, batch |-> batch, entry |-> entry, left |-> drain[d].left]
  BY Shapes DEF Hold
<1>6. ASSUME NEW c \in Drain \ {d}, drain[c].pc = "acknowledge", NEW e \in drain[c].entry
      PROVE  posted'[e] > 0
  BY <1>6, Shapes DEF Posts, AcknowledgedIsPosted
<1> QED
  BY <1>3, <1>4, <1>5, <1>6 DEF DrainsShrink, Leases, HandsInBatch

\* A drain that ends.
LEMMA IdleShrinks ==
  ASSUME OutboxTypeOK, Leases, Posts, NEW d \in Drain,
         drain' = [drain EXCEPT ![d] = IdleDrain],
         \A e \in Entry : posted'[e] >= posted[e], \A e \in Entry : posted'[e] \in Nat
  PROVE  DrainsShrink
<1>1. IdleDrain \in DrainState
  BY LeaseIsPositive DEF IdleDrain, DrainState
<1>2. drain' \in [Drain -> DrainState]
  BY <1>1, Shapes
<1>3. drain'[d] = IdleDrain /\ \A c \in Drain \ {d} : drain'[c] = drain[c]
  BY Shapes
<1>4. ASSUME NEW c \in Drain \ {d}, drain[c].pc = "acknowledge", NEW e \in drain[c].entry
      PROVE  posted'[e] > 0
  BY <1>4, Shapes DEF Posts, AcknowledgedIsPosted
<1> QED
  BY <1>2, <1>3, <1>4 DEF DrainsShrink, Leases, HandsInBatch, IdleDrain

\* A drain that is done with an entry.
LEMMA ProceedShrinks ==
  ASSUME OutboxTypeOK, Leases, Posts, NEW d \in Drain, NEW x, Proceed(d, x),
         UNCHANGED posted
  PROVE  DrainsShrink
<1>1. /\ \A e \in Entry : posted'[e] >= posted[e]
      /\ \A e \in Entry : posted'[e] \in Nat
  BY Shapes
<1>2. CASE drain[d].batch = {x}
  BY <1>1, <1>2, IdleShrinks DEF Proceed
<1>3. CASE drain[d].batch # {x}
  <2>1. Hold(d, "next", drain[d].batch \ {x}, {})
    BY <1>3 DEF Proceed
  <2> QED
    BY <1>1, <2>1, HoldShrinks
<1> QED
  BY <1>2, <1>3

\* Each of those steps has these effects.
LEMMA DrainHandles ==
  ASSUME OutboxTypeOK, Leases, Posts, NEW d \in Drain,
         \/ DrainDeliver(d) \/ DrainAcknowledge(d) \/ Release(d)
         \/ DrainDeliverFails(d) \/ DrainAcknowledgeFails(d) \/ ReleaseFails(d)
         \/ DrainStops(d)
  PROVE  DrainsShrink /\ RowsHandled
<1>0. \A e \in drain[d].entry : e \in Entry /\ e \in drain[d].batch
  BY Shapes DEF Leases, HandsInBatch
<1>1. CASE DrainDeliver(d)
  <2>1. PICK e \in drain[d].batch : Post(e) /\ Hold(d, "acknowledge", drain[d].batch, {e})
    BY <1>1 DEF DrainDeliver
  <2>2. /\ posted' \in [Entry -> Nat] /\ posted'[e] > 0
        /\ \A f \in Entry : posted'[f] \in Nat /\ posted'[f] >= posted[f]
    BY <2>1, Shapes DEF Post
  <2>3. DrainsShrink
    BY <2>1, <2>2, HoldShrinks
  <2> QED
    BY <1>1, <2>2, <2>3, Shapes DEF RowsHandled, DrainDeliver
<1>2. CASE DrainDeliverFails(d)
  <2>1. PICK e \in drain[d].batch :
          (Post(e) \/ UNCHANGED posted) /\ Hold(d, "release", drain[d].batch, {e})
    BY <1>2 DEF DrainDeliverFails
  <2>2. /\ posted' \in [Entry -> Nat]
        /\ \A f \in Entry : posted'[f] \in Nat /\ posted'[f] >= posted[f]
    BY <2>1, Shapes DEF Post
  <2>3. DrainsShrink
    BY <2>1, <2>2, HoldShrinks
  <2> QED
    BY <1>2, <2>2, <2>3, Shapes DEF RowsHandled, DrainDeliverFails, CallFails
<1>3. CASE DrainAcknowledge(d)
  <2>1. PICK e \in drain[d].entry : lease' = Acknowledged(e) /\ Proceed(d, e)
    BY <1>3 DEF DrainAcknowledge
  <2>2. UNCHANGED <<posted, outboxFaults>> /\ posted[e] > 0
    BY <1>3 DEF DrainAcknowledge, Posts, AcknowledgedIsPosted
  <2>3. DrainsShrink
    BY <2>1, <2>2, ProceedShrinks
  <2> QED
    BY <1>0, <2>1, <2>2, <2>3, Shapes, LeaseIsPositive DEF RowsHandled, Acknowledged, NoRow
<1>4. CASE DrainAcknowledgeFails(d)
  <2>1. PICK e \in drain[d].entry : lease' \in {lease, Acknowledged(e)}
    BY <1>4 DEF DrainAcknowledgeFails
  <2>2. /\ UNCHANGED posted /\ posted[e] > 0 /\ outboxFaults' \in Nat
        /\ Hold(d, "release", drain[d].batch, drain[d].entry)
    BY <1>4, Shapes DEF DrainAcknowledgeFails, Posts, AcknowledgedIsPosted, CallFails
  <2>3. DrainsShrink
    BY <1>0, <2>2, Shapes, HoldShrinks
  <2> QED
    BY <1>0, <2>1, <2>2, <2>3, Shapes, LeaseIsPositive DEF RowsHandled, Acknowledged, NoRow
<1>5. CASE Release(d)
  <2>1. PICK e \in drain[d].entry : lease' = Released(e) /\ Proceed(d, e)
    BY <1>5 DEF Release
  <2>2. UNCHANGED <<posted, outboxFaults>>
    BY <1>5 DEF Release
  <2>3. DrainsShrink
    BY <2>1, <2>2, ProceedShrinks
  <2> QED
    BY <1>0, <2>1, <2>2, <2>3, Shapes, LeaseIsPositive DEF RowsHandled, Released, NoRow
<1>6. CASE ReleaseFails(d)
  <2>1. PICK e \in drain[d].entry : lease' \in {lease, Released(e)}
    BY <1>6 DEF ReleaseFails
  <2>2. /\ UNCHANGED posted /\ outboxFaults' \in Nat
        /\ drain' = [drain EXCEPT ![d] = IdleDrain]
    BY <1>6, Shapes DEF ReleaseFails, CallFails
  <2>3. /\ \A x \in Entry : posted'[x] >= posted[x]
        /\ \A x \in Entry : posted'[x] \in Nat
    BY <2>2, Shapes
  <2>4. DrainsShrink
    BY <2>2, <2>3, IdleShrinks
  <2> QED
    BY <1>0, <2>1, <2>2, <2>4, Shapes, LeaseIsPositive DEF RowsHandled, Released, NoRow
<1>7. CASE DrainStops(d)
  <2>1. /\ UNCHANGED <<lease, posted>> /\ outboxFaults' \in Nat
        /\ drain' = [drain EXCEPT ![d] = IdleDrain]
    BY <1>7, Shapes DEF DrainStops, CallFails
  <2>2. /\ \A e \in Entry : posted'[e] >= posted[e]
        /\ \A e \in Entry : posted'[e] \in Nat
    BY <2>1, Shapes
  <2>3. DrainsShrink
    BY <2>1, <2>2, IdleShrinks
  <2> QED
    BY <2>1, <2>3, Shapes DEF RowsHandled
<1> QED
  BY <1>1, <1>2, <1>3, <1>4, <1>5, <1>6, <1>7

\* So does a restart of all replicas.
LEMMA RestartHandles ==
  ASSUME OutboxTypeOK, RestartReplicas
  PROVE  DrainsShrink /\ RowsHandled
<1>1. \A d \in Drain : drain'[d] = IdleDrain
  BY DEF RestartReplicas
<1>2. IdleDrain \in DrainState
  BY LeaseIsPositive DEF IdleDrain, DrainState
<1>3. drain' \in [Drain -> DrainState]
  BY <1>2 DEF RestartReplicas
<1> QED
  BY <1>1, <1>3, Shapes DEF DrainsShrink, RowsHandled, RestartReplicas, CallFails, IdleDrain

\* Those effects keep the invariant, whatever submissions have failed meanwhile.
LEMMA HandledKeeps ==
  ASSUME OutboxTypeOK, Leases, Posts, DrainsShrink, RowsHandled,
         UNCHANGED <<thanked, shared, received>>, botEnabled' \in BOOLEAN,
         submission' \in [Entry -> {"new", "enqueue", "deliver", "acknowledge",
                                    "accepted", "failed"}],
         \A e \in Entry : submission'[e] \in {submission[e], "failed"}
  PROVE  OutboxTypeOK' /\ Leases' /\ Posts'
<1>1. OutboxTypeOK'
  BY DEF OutboxTypeOK, DrainsShrink, RowsHandled
<1>2. NotYetStored'
  BY LeaseIsPositive, Shapes DEF NotYetStored, Leases, DrainsShrink, RowsHandled
<1>3. LeaseCovers'
  BY LeaseIsPositive, Shapes DEF LeaseCovers, Leases, DrainsShrink, RowsHandled, NoRow
<1>4. HandsInBatch' /\ OneLeaseholder'
  BY Shapes DEF HandsInBatch, OneLeaseholder, Leases, DrainsShrink
<1>5. AcknowledgedIsPosted'
  BY Shapes DEF Posts, AcknowledgedIsPosted, DrainsShrink, RowsHandled
<1>6. DeliverIsStored'
  BY LeaseIsPositive, Shapes DEF Posts, DeliverIsStored, RowsHandled, NoRow
<1>7. NeverLost'
  <2>1. \A e \in thanked : e \in Entry
    BY DEF OutboxTypeOK
  <2> QED
    BY <2>1, LeaseIsPositive, Shapes DEF Posts, NeverLost, RowsHandled, NoRow
<1> QED
  BY <1>1, <1>2, <1>3, <1>4, <1>5, <1>6, <1>7 DEF Leases, Posts

\* Nobody else has a lease that runs on what a claim takes.
LEMMA ClaimKeeps ==
  ASSUME OutboxTypeOK, Leases, Posts, NEW d \in Drain, Claim(d) \/ ClaimIsLost(d)
  PROVE  OutboxTypeOK' /\ Leases' /\ Posts'
<1>1. \A e \in Claimed : e \in Entry /\ lease[e] = 0
  BY DEF Claimed, Claimable
<1>2. /\ lease' = [e \in Entry |-> IF e \in Claimed THEN Lease ELSE lease[e]]
      /\ UNCHANGED <<received, posted, thanked, submission, botEnabled>>
  BY DEF Claim, ClaimIsLost, processes
<1>3. shared' \subseteq Entry
  BY <1>1 DEF Claim, ClaimIsLost, OutboxTypeOK
<1>4. outboxFaults' \in Nat
  BY Shapes DEF Claim, ClaimIsLost, CallFails
<1>5. lease' \in [Entry -> NoRow .. Lease]
  BY <1>2, Shapes, LeaseIsPositive DEF NoRow
<1>6. DeliverIsStored'
  BY <1>2, Shapes, LeaseIsPositive DEF Posts, DeliverIsStored, NoRow
<1>7. NeverLost'
  <2>1. \A e \in thanked : e \in Entry
    BY DEF OutboxTypeOK
  <2> QED
    BY <1>2, <2>1, Shapes, LeaseIsPositive DEF Posts, NeverLost, NoRow
<1>8. CASE UNCHANGED drain
  <2>1. OutboxTypeOK'
    BY <1>2, <1>3, <1>4, <1>5, <1>8 DEF OutboxTypeOK
  <2>2. NotYetStored' /\ HandsInBatch' /\ OneLeaseholder'
    BY <1>1, <1>2, <1>8, Shapes
    DEF Leases, NotYetStored, HandsInBatch, OneLeaseholder, NoRow
  <2>3. LeaseCovers'
    BY <1>1, <1>2, <1>8, Shapes, LeaseIsPositive DEF Leases, LeaseCovers, NoRow
  <2>4. AcknowledgedIsPosted'
    BY <1>2, <1>8 DEF Posts, AcknowledgedIsPosted
  <2> QED
    BY <2>1, <2>2, <2>3, <2>4, <1>6, <1>7 DEF Leases, Posts
<1>9. CASE Claim(d)
  <2> DEFINE mine == [pc |-> "next", batch |-> Claimed, entry |-> {}, left |-> Lease]
  <2>1. drain' = [drain EXCEPT ![d] = mine]
    BY <1>9 DEF Claim
  <2>2. mine \in DrainState
    BY <1>1, LeaseIsPositive DEF DrainState
  <2>3. /\ mine.pc = "next" /\ mine.batch = Claimed /\ mine.entry = {} /\ mine.left = Lease
    OBVIOUS
  <2> HIDE DEF mine
  <2>4. drain' \in [Drain -> DrainState]
    BY <2>1, <2>2, Shapes
  <2>5. /\ drain'[d] = mine
        /\ \A c \in Drain \ {d} : drain'[c] = drain[c]
    BY <2>1, Shapes
  <2>6. \A c \in Drain, e \in Claimed : e \in drain[c].batch => drain[c].left = 0
    BY <1>1, Shapes DEF Leases, LeaseCovers, NoRow
  <2>7. OutboxTypeOK'
    BY <1>2, <1>3, <1>4, <1>5, <2>4 DEF OutboxTypeOK
  <2>8. NotYetStored'
    BY <1>1, <1>2, <2>3, <2>5, Shapes DEF NotYetStored, Leases, NoRow
  <2>9. LeaseCovers'
    <3>1. ASSUME NEW c \in Drain, drain'[c].left > 0, NEW e \in drain'[c].batch
          PROVE  lease'[e] = NoRow \/ lease'[e] >= drain'[c].left
      <4>1. CASE c = d
        BY <1>1, <1>2, <2>3, <2>5, <3>1, <4>1, LeaseIsPositive
      <4>2. CASE c # d
        <5>1. e \in Entry /\ (lease[e] = NoRow \/ lease[e] >= drain[c].left) /\ e \notin Claimed
          BY <2>5, <2>6, <3>1, <4>2, Shapes DEF Leases, LeaseCovers
        <5> QED
          BY <1>2, <2>5, <4>2, <5>1
      <4> QED
        BY <4>1, <4>2
    <3> QED
      BY <3>1 DEF LeaseCovers
  <2>10. HandsInBatch'
    BY <2>3, <2>5 DEF HandsInBatch, Leases
  <2>11. OneLeaseholder'
    BY <2>3, <2>5, <2>6, Shapes DEF OneLeaseholder, Leases
  <2>12. AcknowledgedIsPosted'
    BY <1>2, <2>3, <2>5 DEF Posts, AcknowledgedIsPosted
  <2> QED
    BY <1>6, <1>7, <2>7, <2>8, <2>9, <2>10, <2>11, <2>12 DEF Leases, Posts
<1>10. ClaimIsLost(d) => UNCHANGED drain
  BY DEF ClaimIsLost, processes
<1> QED
  BY <1>8, <1>9, <1>10

-----------------------------------------------------------------------------
(* The submissions, and time *)

\* A step of a submission touches one row, and no drain.
SubmissionMoves(e) ==
  /\ UNCHANGED <<drain, botEnabled, shared>>
  /\ outboxFaults' \in Nat
  /\ received' \in Seq(Entry)
  /\ thanked' \in {thanked, thanked \cup {e}}
  /\ posted' \in [Entry -> Nat]
  /\ \A f \in Entry : posted'[f] >= posted[f]
  /\ submission' \in [Entry -> {"new", "enqueue", "deliver", "acknowledge", "accepted",
                                "failed"}]
  /\ \A f \in Entry \ {e} : submission'[f] = submission[f]
  /\ lease' \in [Entry -> NoRow .. Lease]
  /\ \A f \in Entry \ {e} : lease'[f] = lease[f]
  /\ lease'[e] \in {lease[e], NoRow} \/ submission[e] = "enqueue"
  /\ submission'[e] \in {"new", "enqueue"} =>
       submission[e] \in {"new", "enqueue"} /\ lease'[e] = lease[e]
  /\ submission'[e] = "acknowledge" => posted'[e] > 0
  /\ submission'[e] = "deliver" => lease'[e] # NoRow
  /\ e \in thanked' => lease'[e] # NoRow \/ posted'[e] > 0

LEMMA SubmitMoves ==
  ASSUME OutboxTypeOK, Posts, NEW e \in Entry,
         Submit(e) \/ SubmitStep(e) \/ SubmitFault(e)
  PROVE  SubmissionMoves(e)
<1>0. /\ submission[e] = "acknowledge" => posted[e] > 0
      /\ submission[e] = "deliver" => lease[e] # NoRow \/ posted[e] > 0
      /\ e \in thanked => lease[e] # NoRow \/ posted[e] > 0
  BY DEF Posts, AcknowledgedIsPosted, DeliverIsStored, NeverLost
<1>1. /\ submission \in [Entry -> {"new", "enqueue", "deliver", "acknowledge", "accepted",
                                   "failed"}]
      /\ received \in Seq(Entry)
  BY DEF OutboxTypeOK
<1> USE LeaseIsPositive, Shapes DEF NoRow
<1>2. CASE Submit(e)
  BY <1>0, <1>1, <1>2 DEF SubmissionMoves, Submit
<1>3. CASE Enqueue(e)
  <2>1. lease' = [lease EXCEPT ![e] = 0] /\ submission[e] = "enqueue"
    BY <1>3 DEF Enqueue, Enqueued
  <2>2. \/ submission' = [submission EXCEPT ![e] = "deliver"] /\ UNCHANGED thanked
        \/ /\ submission' = [submission EXCEPT ![e] = "accepted"]
           /\ thanked' = thanked \cup {e}
    BY <1>3 DEF Enqueue, Accept
  <2>3. UNCHANGED <<received, posted, drain, botEnabled, shared, outboxFaults>>
    BY <1>3 DEF Enqueue
  <2>4. lease' \in [Entry -> NoRow .. Lease] /\ \A f \in Entry \ {e} : lease'[f] = lease[f]
    BY <2>1
  <2>5. /\ submission' \in [Entry -> {"new", "enqueue", "deliver", "acknowledge", "accepted",
                                      "failed"}]
        /\ \A f \in Entry \ {e} : submission'[f] = submission[f]
        /\ submission'[e] \in {"deliver", "accepted"}
    BY <1>1, <2>2
  <2> QED
    BY <1>1, <2>1, <2>2, <2>3, <2>4, <2>5 DEF SubmissionMoves
<1>4. CASE EnqueueFails(e)
  <2>1. /\ lease' = lease \/ lease' = [lease EXCEPT ![e] = 0]
        /\ submission[e] = "enqueue"
    BY <1>4 DEF EnqueueFails, Enqueued
  <2>2. /\ submission' = [submission EXCEPT ![e] = "failed"]
        /\ outboxFaults' \in Nat
        /\ UNCHANGED <<received, posted, thanked, drain, botEnabled, shared>>
    BY <1>4 DEF EnqueueFails, CallFails, processes
  <2>3. lease' \in [Entry -> NoRow .. Lease] /\ \A f \in Entry \ {e} : lease'[f] = lease[f]
    BY <2>1
  <2>4. e \in thanked => lease'[e] # NoRow \/ posted[e] > 0
    BY <1>0, <2>1
  <2>5. /\ submission' \in [Entry -> {"new", "enqueue", "deliver", "acknowledge", "accepted",
                                      "failed"}]
        /\ \A f \in Entry \ {e} : submission'[f] = submission[f]
        /\ submission'[e] = "failed"
    BY <1>1, <2>2
  <2> QED
    BY <1>1, <2>1, <2>2, <2>3, <2>4, <2>5 DEF SubmissionMoves
<1>5. CASE Deliver(e)
  BY <1>0, <1>1, <1>5 DEF SubmissionMoves, Deliver, Post
<1>6. CASE DeliverFails(e)
  <2>1. /\ posted' = posted \/ posted' = [posted EXCEPT ![e] = @ + 1]
        /\ submission[e] = "deliver"
    BY <1>6 DEF DeliverFails, Post
  <2>2. /\ submission' = [submission EXCEPT ![e] = "accepted"]
        /\ thanked' = thanked \cup {e}
        /\ outboxFaults' \in Nat
        /\ UNCHANGED <<lease, received, drain, botEnabled, shared>>
    BY <1>6 DEF DeliverFails, Accept, CallFails
  <2>3. posted' \in [Entry -> Nat] /\ \A f \in Entry : posted'[f] >= posted[f]
    BY <2>1
  <2>4. lease[e] # NoRow \/ posted'[e] > 0
    BY <1>0, <2>1, <2>3
  <2>5. /\ submission' \in [Entry -> {"new", "enqueue", "deliver", "acknowledge", "accepted",
                                      "failed"}]
        /\ \A f \in Entry \ {e} : submission'[f] = submission[f]
        /\ submission'[e] = "accepted"
    BY <1>1, <2>2
  <2> QED
    BY <1>1, <2>2, <2>3, <2>4, <2>5 DEF SubmissionMoves
<1>7. CASE Acknowledge(e)
  BY <1>0, <1>1, <1>7 DEF SubmissionMoves, Acknowledge, Acknowledged, Accept
<1>8. CASE AcknowledgeFails(e)
  <2>1. /\ lease' = lease \/ lease' = [lease EXCEPT ![e] = NoRow]
        /\ submission[e] = "acknowledge"
    BY <1>8 DEF AcknowledgeFails, Acknowledged
  <2>2. /\ submission' = [submission EXCEPT ![e] = "accepted"]
        /\ thanked' = thanked \cup {e}
        /\ outboxFaults' \in Nat
        /\ UNCHANGED <<received, posted, drain, botEnabled, shared>>
    BY <1>8 DEF AcknowledgeFails, Accept, CallFails
  <2> QED
    BY <1>0, <1>1, <2>1, <2>2 DEF SubmissionMoves
<1> QED
  BY <1>2, <1>3, <1>4, <1>5, <1>6, <1>7, <1>8 DEF SubmitStep, SubmitFault

LEMMA SubmitKeeps ==
  ASSUME OutboxTypeOK, Leases, Posts, NEW e \in Entry, SubmissionMoves(e)
  PROVE  OutboxTypeOK' /\ Leases' /\ Posts'
<1>1. OutboxTypeOK'
  BY DEF SubmissionMoves, OutboxTypeOK
<1>2. NotYetStored'
  BY Shapes DEF SubmissionMoves, Leases, NotYetStored
<1>3. LeaseCovers'
  <2>1. ASSUME NEW d \in Drain, drain[d].left > 0, NEW f \in drain[d].batch
        PROVE  lease'[f] = NoRow \/ lease'[f] >= drain[d].left
    <3>1. f \in Entry /\ (lease[f] = NoRow \/ lease[f] >= drain[d].left)
      BY <2>1, Shapes DEF Leases, LeaseCovers
    <3>2. submission[f] # "enqueue"
      BY <3>1 DEF Leases, NotYetStored
    <3> QED
      BY <3>1, <3>2 DEF SubmissionMoves
  <2> QED
    BY <2>1 DEF SubmissionMoves, LeaseCovers
<1>4. HandsInBatch' /\ OneLeaseholder'
  BY DEF SubmissionMoves, Leases, HandsInBatch, OneLeaseholder
<1>5. AcknowledgedIsPosted'
  <2>1. \A f \in Entry : posted'[f] \in Nat /\ posted'[f] >= posted[f]
    BY DEF SubmissionMoves
  <2>2. ASSUME NEW f \in Entry, submission'[f] = "acknowledge"
        PROVE  posted'[f] > 0
    <3>1. f = e \/ posted[f] > 0
      BY <2>2 DEF SubmissionMoves, Posts, AcknowledgedIsPosted
    <3>2. f = e => posted'[f] > 0
      BY <2>2 DEF SubmissionMoves
    <3> QED
      BY <2>1, <3>1, <3>2, Shapes
  <2>3. ASSUME NEW d \in Drain, drain[d].pc = "acknowledge", NEW f \in drain[d].entry
        PROVE  posted'[f] > 0
    <3>1. f \in Entry /\ posted[f] > 0
      BY <2>3, Shapes DEF Posts, AcknowledgedIsPosted
    <3> QED
      BY <2>1, <3>1, Shapes
  <2> QED
    BY <2>2, <2>3 DEF SubmissionMoves, AcknowledgedIsPosted
<1>6. DeliverIsStored'
  <2>1. ASSUME NEW f \in Entry, submission'[f] = "deliver"
        PROVE  lease'[f] # NoRow \/ posted'[f] > 0
    <3>1. CASE f = e
      BY <2>1, <3>1 DEF SubmissionMoves
    <3>2. CASE f # e
      <4>1. /\ submission[f] = "deliver" /\ lease'[f] = lease[f]
            /\ posted'[f] \in Nat /\ posted'[f] >= posted[f]
        BY <2>1, <3>2 DEF SubmissionMoves
      <4> QED
        BY <4>1, Shapes DEF Posts, DeliverIsStored
    <3> QED
      BY <3>1, <3>2
  <2> QED
    BY <2>1 DEF DeliverIsStored
<1>7. NeverLost'
  <2>1. \A f \in thanked : f \in Entry
    BY DEF OutboxTypeOK
  <2>2. \A f \in Entry : posted'[f] \in Nat /\ posted'[f] >= posted[f]
    BY DEF SubmissionMoves
  <2> QED
    BY <2>1, <2>2, Shapes DEF SubmissionMoves, Posts, NeverLost
<1> QED
  BY <1>1, <1>2, <1>3, <1>4, <1>5, <1>6, <1>7 DEF Leases, Posts

\* All leases run alike.
LEMMA TimeKeeps ==
  ASSUME OutboxTypeOK, Leases, Posts, LeasesRun
  PROVE  OutboxTypeOK' /\ Leases' /\ Posts'
<1>1. \A e \in Entry : lease'[e] = IF lease[e] > 0 THEN lease[e] - 1 ELSE lease[e]
  BY DEF LeasesRun, Shorter
<1>2. lease' \in [Entry -> NoRow .. Lease]
  BY LeaseIsPositive, Shapes DEF LeasesRun, Shorter, NoRow
<1>3. ASSUME NEW d \in Drain
      PROVE  /\ drain'[d] \in DrainState
             /\ drain'[d].pc = drain[d].pc
             /\ drain'[d].batch = drain[d].batch
             /\ drain'[d].entry = drain[d].entry
             /\ drain'[d].left = IF drain[d].left > 0 THEN drain[d].left - 1 ELSE drain[d].left
  <2>1. drain'[d] = [drain[d] EXCEPT !.left = Shorter(drain[d].left)]
    BY DEF LeasesRun
  <2>2. drain[d] \in DrainState
    BY Shapes
  <2>3. Shorter(drain[d].left) \in 0 .. Lease
    BY Shapes, LeaseIsPositive DEF Shorter
  <2> QED
    BY <2>1, <2>2, <2>3 DEF DrainState, Shorter
<1>4. drain' \in [Drain -> DrainState]
  BY <1>3 DEF LeasesRun
<1>5. UNCHANGED <<received, posted, thanked, submission, botEnabled, shared, outboxFaults>>
  BY DEF LeasesRun
<1>6. OutboxTypeOK'
  BY <1>2, <1>4, <1>5 DEF OutboxTypeOK
<1>7. NotYetStored' /\ HandsInBatch'
  BY <1>1, <1>3, <1>5 DEF Leases, NotYetStored, HandsInBatch, NoRow
<1>8. LeaseCovers'
  <2>1. ASSUME NEW d \in Drain, drain'[d].left > 0, NEW e \in drain'[d].batch
        PROVE  lease'[e] = NoRow \/ lease'[e] >= drain'[d].left
    <3>1. e \in Entry /\ drain[d].left > 0 /\ (lease[e] = NoRow \/ lease[e] >= drain[d].left)
      BY <1>3, <2>1, Shapes DEF Leases, LeaseCovers
    <3> QED
      BY <1>1, <1>3, <2>1, <3>1, Shapes DEF NoRow
  <2> QED
    BY <2>1 DEF LeaseCovers
<1>9. OneLeaseholder'
  BY <1>3, Shapes DEF Leases, OneLeaseholder
<1>10. AcknowledgedIsPosted' /\ DeliverIsStored'
  BY <1>1, <1>3, <1>5, Shapes DEF Posts, AcknowledgedIsPosted, DeliverIsStored, NoRow
<1>11. NeverLost'
  <2>1. \A e \in thanked : e \in Entry
    BY DEF OutboxTypeOK
  <2> QED
    BY <1>1, <1>5, <2>1, Shapes DEF Posts, NeverLost, NoRow
<1> QED
  BY <1>6, <1>7, <1>8, <1>9, <1>10, <1>11 DEF Leases, Posts

-----------------------------------------------------------------------------
\* Every step keeps the invariant.
LEMMA NextIInv == IInv /\ [OutboxNext]_outboxVars => IInv'
<1> SUFFICES ASSUME OutboxTypeOK, Leases, Posts, [OutboxNext]_outboxVars
             PROVE  OutboxTypeOK' /\ Leases' /\ Posts'
  BY DEF IInv, Leases, Posts
<1>0. /\ submission \in [Entry -> {"new", "enqueue", "deliver", "acknowledge", "accepted",
                                   "failed"}]
      /\ botEnabled \in BOOLEAN
  BY DEF OutboxTypeOK
<1>1. ASSUME NEW e \in Entry, Submit(e) \/ SubmitStep(e) \/ SubmitFault(e)
      PROVE  OutboxTypeOK' /\ Leases' /\ Posts'
  BY <1>1, SubmitMoves, SubmitKeeps
<1>2. ASSUME NEW d \in Drain, DrainStep(d) \/ DrainFault(d)
      PROVE  OutboxTypeOK' /\ Leases' /\ Posts'
  <2>1. CASE Claim(d) \/ ClaimIsLost(d)
    BY <2>1, ClaimKeeps
  <2>2. CASE ~ (Claim(d) \/ ClaimIsLost(d))
    <3>1. DrainsShrink /\ RowsHandled
      BY <1>2, <2>2, DrainHandles DEF DrainStep, DrainFault
    <3>2. UNCHANGED <<received, thanked, submission, botEnabled, shared>>
      BY <1>2, <2>2
      DEF DrainStep, DrainFault, DrainDeliver, DrainAcknowledge, Release, DrainDeliverFails,
          DrainAcknowledgeFails, ReleaseFails, DrainStops
    <3> QED
      BY <1>0, <3>1, <3>2, HandledKeeps
  <2> QED
    BY <2>1, <2>2
<1>3. CASE RestartReplicas
  <2>1. DrainsShrink /\ RowsHandled
    BY <1>3, RestartHandles
  <2>2. /\ UNCHANGED <<received, thanked, shared>> /\ botEnabled' \in BOOLEAN
        /\ submission' \in [Entry -> {"new", "enqueue", "deliver", "acknowledge", "accepted",
                                      "failed"}]
        /\ \A e \in Entry : submission'[e] \in {submission[e], "failed"}
    BY <1>0, <1>3 DEF RestartReplicas
  <2> QED
    BY <2>1, <2>2, HandledKeeps
<1>4. CASE LeasesRun
  BY <1>4, TimeKeeps
<1>5. CASE UNCHANGED outboxVars
  <2>1. OutboxTypeOK'
    BY <1>5 DEF outboxVars, processes, OutboxTypeOK
  <2>2. Leases'
    BY <1>5 DEF outboxVars, processes, Leases, NotYetStored, LeaseCovers, HandsInBatch,
                OneLeaseholder
  <2>3. Posts'
    BY <1>5 DEF outboxVars, processes, Posts, AcknowledgedIsPosted, DeliverIsStored, NeverLost
  <2> QED
    BY <2>1, <2>2, <2>3
<1> QED
  BY <1>1, <1>2, <1>3, <1>4, <1>5 DEF OutboxNext

\* IInv holds in every reachable state.
THEOREM OutboxInvariance == OutboxSpec => []IInv
  BY InitIInv, NextIInv, PTL DEF OutboxSpec

\* Rows, processes and answers keep their shape.
THEOREM OutboxTypeCorrect == OutboxSpec => []OutboxTypeOK
  BY OutboxInvariance, PTL DEF IInv

\* A message whose sender was thanked is in the table until the chat shows it,
\* however many calls fail and processes stop.
THEOREM NothingLost == OutboxSpec => []NeverLost
  BY OutboxInvariance, PTL DEF IInv

\* No two drains hold one entry while both still have a lease on it.
THEOREM LeasesExclusive == OutboxSpec => []OneLeaseholder
  BY OutboxInvariance, PTL DEF IInv

-----------------------------------------------------------------------------
(* No duplicates without a failure or a late drain *)

\* While nothing has failed, no drain has anything to release, and what a drain has in
\* its hands it has just posted.
HandsBusy ==
  \A d \in Drain :
    /\ drain[d].pc # "release"
    /\ drain[d].pc = "idle" => drain[d].batch = {}
    /\ drain[d].pc = "acknowledge" => \E e \in Entry : drain[d].entry = {e}

Holds(d, e) == e \in drain[d].batch

InHand(d, e) == drain[d].pc = "acknowledge" /\ drain[d].entry = {e}

\* An entry has one that is at work on it: its submission, or one drain.  It has been
\* posted, once, if that one is about to acknowledge it or its row is gone.
WorkedOnOnce(e) ==
  /\ submission[e] # "failed"
  /\ submission[e] \in {"new", "enqueue", "deliver"} => posted[e] = 0
  /\ submission[e] = "acknowledge" => posted[e] = 1
  /\ submission[e] \in {"deliver", "acknowledge"} => \A d \in Drain : ~ Holds(d, e)
  /\ \A c, d \in Drain : Holds(c, e) /\ Holds(d, e) => c = d
  /\ \A d \in Drain : Holds(d, e) => /\ lease[e] # NoRow
                                     /\ posted[e] = IF InHand(d, e) THEN 1 ELSE 0
  /\ submission[e] = "accepted" /\ lease[e] # NoRow =>
       posted[e] = 0 \/ \E d \in Drain : Holds(d, e)
  /\ posted[e] <= 1

OnceInv == outboxFaults = 0 => HandsBusy /\ \A e \in Entry \ shared : WorkedOnOnce(e)

LEMMA InitOnce == OutboxInit => OnceInv
  BY DEF OutboxInit, IdleDrain, OnceInv, HandsBusy, WorkedOnOnce, Holds, InHand, NoRow

LEMMA SubmitOnce ==
  ASSUME IInv, OnceInv, NEW e \in Entry, Submit(e) \/ SubmitStep(e)
  PROVE  OnceInv'
<1> SUFFICES ASSUME outboxFaults = 0, NEW f \in Entry \ shared, HandsBusy, WorkedOnOnce(f)
             PROVE  WorkedOnOnce(f)'
  BY DEF OnceInv, HandsBusy, Submit, SubmitStep, Enqueue, Deliver, Acknowledge
<1>1. /\ UNCHANGED drain
      /\ submission[e] \in {"new", "enqueue", "deliver", "acknowledge"}
      /\ submission \in [Entry -> {"new", "enqueue", "deliver", "acknowledge", "accepted",
                                   "failed"}]
      /\ lease \in [Entry -> NoRow .. Lease] /\ posted \in [Entry -> Nat]
  BY DEF Submit, SubmitStep, Enqueue, Deliver, Acknowledge, IInv, OutboxTypeOK
<1>2. submission[e] \in {"new", "enqueue"} => \A d \in Drain : ~ Holds(d, e)
  BY DEF IInv, NotYetStored, Holds
<1>3. CASE Submit(e)
  BY <1>1, <1>2, <1>3 DEF Submit, WorkedOnOnce, Holds, InHand
<1>4. CASE Enqueue(e)
  BY <1>1, <1>2, <1>4 DEF Enqueue, Enqueued, Accept, WorkedOnOnce, Holds, InHand, NoRow
<1>5. CASE Deliver(e)
  BY <1>1, <1>5 DEF Deliver, Post, WorkedOnOnce, Holds, InHand
<1>6. CASE Acknowledge(e)
  BY <1>1, <1>6 DEF Acknowledge, Acknowledged, Accept, WorkedOnOnce, Holds, InHand
<1> QED
  BY <1>3, <1>4, <1>5, <1>6 DEF SubmitStep

LEMMA ClaimOnce == ASSUME IInv, OnceInv, NEW d \in Drain, Claim(d) PROVE OnceInv'
<1> DEFINE mine == [pc |-> "next", batch |-> Claimed, entry |-> {}, left |-> Lease]
<1>1. drain \in [Drain -> DrainState] /\ lease \in [Entry -> NoRow .. Lease]
  BY DEF IInv, OutboxTypeOK
<1>2. drain' = [drain EXCEPT ![d] = mine] /\ drain[d].pc = "idle"
      /\ UNCHANGED <<posted, submission, outboxFaults>>
  BY DEF Claim
<1>3. mine.pc = "next" /\ mine.batch = Claimed /\ mine.entry = {}
  OBVIOUS
<1> HIDE DEF mine
<1>4. drain'[d] = mine /\ \A c \in Drain \ {d} : drain'[c] = drain[c]
  BY <1>1, <1>2
<1> SUFFICES ASSUME outboxFaults = 0, HandsBusy, \A f \in Entry \ shared : WorkedOnOnce(f)
             PROVE  HandsBusy' /\ \A f \in Entry \ shared' : WorkedOnOnce(f)'
  BY <1>2 DEF OnceInv
<1>5. HandsBusy'
  BY <1>3, <1>4 DEF HandsBusy
<1>6. ASSUME NEW f \in Entry \ shared' PROVE WorkedOnOnce(f)'
  <2>1. f \in Entry \ shared /\ WorkedOnOnce(f)
        /\ (f \in Claimed => /\ submission[f] \notin {"deliver", "acknowledge"}
                             /\ \A c \in Drain \ {d} : f \notin drain[c].batch)
        /\ lease'[f] = IF f \in Claimed THEN Lease ELSE lease[f]
    BY <1>6 DEF Claim
  <2>2. drain[d].batch = {}
    BY <1>2 DEF HandsBusy
  <2>3. CASE f \in Claimed
    <3>1. lease[f] = 0 /\ submission[f] \notin {"new", "enqueue"}
      BY <2>3 DEF Claimed, Claimable, IInv, NotYetStored, NoRow
    <3>2. submission[f] = "accepted"
      BY <2>1, <2>3, <3>1 DEF WorkedOnOnce, IInv, OutboxTypeOK
    <3>3. \A c \in Drain : ~ Holds(c, f)
      BY <2>1, <2>2, <2>3 DEF Holds
    <3>4. posted[f] = 0
      BY <2>1, <3>1, <3>2, <3>3 DEF WorkedOnOnce, NoRow
    <3>5. \A c \in Drain : Holds(c, f)' => c = d
      BY <1>4, <3>3 DEF Holds
    <3>6. Holds(d, f)' /\ ~ InHand(d, f)' /\ lease'[f] # NoRow
      BY <1>3, <1>4, <2>1, <2>3, LeaseIsPositive DEF Holds, InHand, NoRow
    <3> QED
      BY <1>2, <3>2, <3>4, <3>5, <3>6 DEF WorkedOnOnce
  <2>4. CASE f \notin Claimed
    <3>1. \A c \in Drain : (Holds(c, f)' <=> Holds(c, f)) /\ (Holds(c, f) => c # d)
      BY <1>3, <1>4, <2>2, <2>4 DEF Holds
    <3>2. \A c \in Drain \ {d} : InHand(c, f)' <=> InHand(c, f)
      BY <1>4 DEF InHand
    <3> QED
      BY <1>2, <2>1, <2>4, <3>1, <3>2 DEF WorkedOnOnce
  <2> QED
    BY <2>3, <2>4
<1> QED
  BY <1>5, <1>6

LEMMA DrainDeliverOnce == ASSUME IInv, OnceInv, NEW d \in Drain, DrainDeliver(d) PROVE OnceInv'
<1>1. PICK e \in drain[d].batch :
        Post(e) /\ Hold(d, "acknowledge", drain[d].batch, {e})
  BY DEF DrainDeliver
<1> DEFINE mine == [pc |-> "acknowledge", batch |-> drain[d].batch, entry |-> {e},
                    left |-> drain[d].left]
<1>2. drain \in [Drain -> DrainState] /\ e \in Entry /\ posted \in [Entry -> Nat]
  BY Shapes DEF IInv, OutboxTypeOK
<1>3. /\ drain' = [drain EXCEPT ![d] = mine] /\ drain[d].pc = "next"
      /\ UNCHANGED <<lease, submission, outboxFaults, shared>>
  BY <1>1 DEF DrainDeliver, Hold
<1>4. mine.pc = "acknowledge" /\ mine.batch = drain[d].batch /\ mine.entry = {e}
  OBVIOUS
<1> HIDE DEF mine
<1>5. drain'[d] = mine /\ \A c \in Drain \ {d} : drain'[c] = drain[c]
  BY <1>2, <1>3
<1> SUFFICES ASSUME outboxFaults = 0, HandsBusy, \A f \in Entry \ shared : WorkedOnOnce(f)
             PROVE  HandsBusy' /\ \A f \in Entry \ shared' : WorkedOnOnce(f)'
  BY <1>3 DEF OnceInv
<1>6. HandsBusy'
  BY <1>2, <1>4, <1>5 DEF HandsBusy
<1>7. ASSUME NEW f \in Entry \ shared' PROVE WorkedOnOnce(f)'
  <2>1. WorkedOnOnce(f)
    BY <1>3, <1>7
  <2>2. \A c \in Drain : Holds(c, f)' <=> Holds(c, f)
    BY <1>4, <1>5 DEF Holds
  <2>3. \A c \in Drain \ {d} : InHand(c, f)' <=> InHand(c, f)
    BY <1>5 DEF InHand
  <2>4. ~ InHand(d, f) /\ (InHand(d, f)' <=> f = e)
    BY <1>3, <1>4, <1>5 DEF InHand
  <2>5. CASE f = e
    <3>1. Holds(d, e) /\ posted[e] = 0 /\ \A c \in Drain : Holds(c, e) => c = d
      BY <2>1, <2>4, <2>5 DEF Holds, WorkedOnOnce
    <3>2. posted'[e] = 1
      BY <1>1, <1>2, <3>1 DEF Post
    <3>3. submission[e] \notin {"new", "enqueue", "deliver", "acknowledge"}
      BY <1>2, <2>1, <2>5, <3>1 DEF WorkedOnOnce, IInv, NotYetStored, Holds
    <3>4. \A c \in Drain : Holds(c, e)' => /\ lease'[e] # NoRow
                                           /\ posted'[e] = IF InHand(c, e)' THEN 1 ELSE 0
      BY <1>3, <2>1, <2>2, <2>4, <2>5, <3>1, <3>2 DEF WorkedOnOnce
    <3> QED
      BY <1>3, <2>1, <2>2, <2>5, <3>1, <3>2, <3>3, <3>4 DEF WorkedOnOnce
  <2>6. CASE f # e
    <3>1. posted'[f] = posted[f]
      BY <1>1, <1>2, <2>6 DEF Post
    <3> QED
      BY <1>3, <2>1, <2>2, <2>3, <2>4, <2>6, <3>1 DEF WorkedOnOnce
  <2> QED
    BY <2>5, <2>6
<1> QED
  BY <1>6, <1>7

LEMMA DrainAcknowledgeOnce ==
  ASSUME IInv, OnceInv, NEW d \in Drain, DrainAcknowledge(d)
  PROVE  OnceInv'
<1>1. PICK e \in drain[d].entry : lease' = Acknowledged(e) /\ Proceed(d, e)
  BY DEF DrainAcknowledge
<1>2. /\ drain \in [Drain -> DrainState] /\ e \in Entry /\ lease \in [Entry -> NoRow .. Lease]
      /\ e \in drain[d].batch
  BY Shapes DEF IInv, OutboxTypeOK, HandsInBatch
<1>3. UNCHANGED <<posted, submission, outboxFaults, shared>> /\ drain[d].pc = "acknowledge"
  BY DEF DrainAcknowledge
<1>4. \E state : /\ drain' = [drain EXCEPT ![d] = state]
                 /\ state.pc \in {"idle", "next"} /\ state.batch = drain[d].batch \ {e}
                 /\ state.pc = "idle" => state.batch = {}
  <2> DEFINE rest == [pc |-> "next", batch |-> drain[d].batch \ {e}, entry |-> {},
                      left |-> drain[d].left]
  <2>1. drain' = [drain EXCEPT ![d] = IF drain[d].batch = {e} THEN IdleDrain ELSE rest]
    BY <1>1 DEF Proceed, Hold
  <2>2. IdleDrain.pc = "idle" /\ IdleDrain.batch = {} /\ rest.pc = "next"
        /\ rest.batch = drain[d].batch \ {e}
    BY DEF IdleDrain
  <2> HIDE DEF rest
  <2> QED
    BY <2>1, <2>2
<1>5. PICK state : /\ drain' = [drain EXCEPT ![d] = state]
                   /\ state.pc \in {"idle", "next"} /\ state.batch = drain[d].batch \ {e}
                   /\ state.pc = "idle" => state.batch = {}
  BY <1>4
<1>6. drain'[d] = state /\ \A c \in Drain \ {d} : drain'[c] = drain[c]
  BY <1>2, <1>5
<1>7. lease'[e] = NoRow /\ \A f \in Entry \ {e} : lease'[f] = lease[f]
  BY <1>1, <1>2 DEF Acknowledged
<1> SUFFICES ASSUME outboxFaults = 0, HandsBusy, \A f \in Entry \ shared : WorkedOnOnce(f)
             PROVE  HandsBusy' /\ \A f \in Entry \ shared' : WorkedOnOnce(f)'
  BY <1>3 DEF OnceInv
<1>8. HandsBusy'
  BY <1>5, <1>6 DEF HandsBusy
<1>9. drain[d].entry = {e}
  BY <1>1, <1>3 DEF HandsBusy
<1>10. ASSUME NEW f \in Entry \ shared' PROVE WorkedOnOnce(f)'
  <2>1. WorkedOnOnce(f)
    BY <1>3, <1>10
  <2>2. \A c \in Drain \ {d} : (Holds(c, f)' <=> Holds(c, f)) /\ (InHand(c, f)' <=> InHand(c, f))
    BY <1>6 DEF Holds, InHand
  <2>3. CASE f = e
    <3>1. Holds(d, e) /\ InHand(d, e) /\ ~ Holds(d, e)'
      BY <1>2, <1>3, <1>5, <1>6, <1>9 DEF Holds, InHand
    <3>2. posted[e] = 1 /\ \A c \in Drain : Holds(c, e) => c = d
      BY <2>1, <2>3, <3>1 DEF WorkedOnOnce
    <3>3. \A c \in Drain : ~ Holds(c, e)'
      BY <2>2, <2>3, <3>1, <3>2
    <3>4. submission[e] \notin {"new", "enqueue", "deliver"}
      BY <2>1, <2>3, <3>2 DEF WorkedOnOnce
    <3> QED
      BY <1>3, <1>7, <2>1, <2>3, <3>2, <3>3, <3>4 DEF WorkedOnOnce
  <2>4. CASE f # e
    <3>1. (Holds(d, f)' <=> Holds(d, f)) /\ ~ InHand(d, f) /\ ~ InHand(d, f)'
      BY <1>5, <1>6, <1>9, <2>4 DEF Holds, InHand
    <3> QED
      BY <1>3, <1>7, <2>1, <2>2, <2>4, <3>1 DEF WorkedOnOnce
  <2> QED
    BY <2>3, <2>4
<1> QED
  BY <1>8, <1>10

LEMMA LeasesRunOnce == ASSUME IInv, OnceInv, LeasesRun PROVE OnceInv'
<1>1. UNCHANGED <<posted, submission, shared, outboxFaults>>
  BY DEF LeasesRun
<1>2. \A d \in Drain : /\ drain'[d].pc = drain[d].pc /\ drain'[d].batch = drain[d].batch
                       /\ drain'[d].entry = drain[d].entry
  BY DEF LeasesRun, IInv, OutboxTypeOK, DrainState
<1>3. \A e \in Entry : lease'[e] = NoRow <=> lease[e] = NoRow
  <2> TAKE e \in Entry
  <2>1. lease[e] \in Int /\ lease'[e] = IF lease[e] > 0 THEN lease[e] - 1 ELSE lease[e]
    BY Shapes DEF IInv, LeasesRun, Shorter
  <2> QED
    BY <2>1 DEF NoRow
<1> QED
  BY <1>1, <1>2, <1>3 DEF OnceInv, HandsBusy, WorkedOnOnce, Holds, InHand

LEMMA NextOnce == IInv /\ OnceInv /\ [OutboxNext]_outboxVars => OnceInv'
<1> SUFFICES ASSUME IInv, OnceInv, [OutboxNext]_outboxVars PROVE OnceInv'
  OBVIOUS
<1>1. CASE UNCHANGED outboxVars
  BY <1>1 DEF outboxVars, processes, OnceInv, HandsBusy, WorkedOnOnce, Holds, InHand
<1>2. CASE CallFails
  <2>1. outboxFaults' # 0
    BY <1>2, Shapes DEF CallFails, IInv
  <2> QED
    BY <2>1 DEF OnceInv
<1>3. ASSUME NEW d \in Drain, Release(d) PROVE OnceInv'
  BY <1>3 DEF Release, OnceInv, HandsBusy
<1>4. ASSUME NEW d \in Drain, DrainStep(d) PROVE OnceInv'
  BY <1>3, <1>4, ClaimOnce, DrainDeliverOnce, DrainAcknowledgeOnce DEF DrainStep
<1> QED
  BY <1>1, <1>2, <1>4, SubmitOnce, LeasesRunOnce
  DEF OutboxNext, SubmitFault, DrainFault, RestartReplicas, EnqueueFails, DeliverFails,
      AcknowledgeFails, ClaimIsLost, DrainDeliverFails, DrainAcknowledgeFails, ReleaseFails,
      DrainStops

\* The chat shows an entry twice only after a failure, or if a drain claimed it from one
\* that was still at work on it.
THEOREM DuplicatesHaveCause == OutboxSpec => []DuplicatesExplained
<1>1. OnceInv => DuplicatesExplained
  BY DEF OnceInv, WorkedOnOnce, DuplicatesExplained
<1> QED
  BY <1>1, OutboxInvariance, InitOnce, NextOnce, PTL DEF OutboxSpec

-----------------------------------------------------------------------------
(* The upload *)

Part == [name : {"caption", "price", "other"}, valid : BOOLEAN]
          \cup [name : {"media", "file"}, size : Nat]

Form == [caption : {"none", "valid", "invalid"}, price : {"none", "valid", "invalid"},
         fields : Nat, bytes : Nat, mediaSeen : BOOLEAN, limitExceeded : BOOLEAN,
         streaming : Nat]

Disk == [state : {"none", "writing", "done", "failed"}, chunks : Nat, open : BOOLEAN]

\* What is read, collected and written has the shape the code gives it.
UploadTypeOK == body \in Seq(Part) /\ form \in Form /\ disk \in Disk

\* The file is on the disk as it was sent, and no more of it comes.
FileWritten == disk.state = "done" => disk.chunks = form.bytes /\ form.streaming = 0

\* The parser gives a file to the pipeline, and nothing before.
PipelineStarts == form.mediaSeen <=> disk.state # "none"

\* A form that is resolved has a whole file within the limit.
ResolvedIsWhole == promise = "resolved" => disk.state = "done" /\ ~ form.limitExceeded

\* The handler goes on with a form that it has checked.
CheckedIsValid == handler \in {"verifying", "publishing"} => promise = "resolved" /\ FormIsValid

UploadInv ==
  /\ UploadTypeOK /\ FileWritten /\ PipelineStarts /\ ResolvedIsWhole /\ CheckedIsValid
  /\ PublishedIsWhole

\* What a new request begins with.
LEMMA FreshRequest == NoForm \in Form /\ NoFile \in Disk /\ <<>> \in Seq(Part)
  BY DEF NoForm, Form, NoFile, Disk

LEMMA UploadInitInv == UploadInit => UploadInv
<1> SUFFICES ASSUME UploadInit PROVE UploadInv
  OBVIOUS
<1>1. form = NoForm /\ disk = NoFile /\ body = <<>> /\ promise = "pending" /\ handler = "none"
      /\ published = {}
  BY DEF UploadInit, NoRequest
<1>2. /\ NoForm.mediaSeen = FALSE /\ NoFile.state = "none"
  BY DEF NoForm, NoFile
<1> QED
  BY <1>1, <1>2, FreshRequest
  DEF UploadInv, UploadTypeOK, FileWritten, PipelineStarts, ResolvedIsWhole, CheckedIsValid,
      PublishedIsWhole

LEMMA BodiesAreParts == PageBodies \cup OtherBodies \subseteq Seq(Part)
<1>1. /\ \A v \in BOOLEAN : /\ Field("caption", v) \in Part /\ Field("price", v) \in Part
                            /\ Field("other", v) \in Part
      /\ \A n \in Nat : File("media", n) \in Part /\ File("file", n) \in Part
  BY DEF Field, File, Part
<1>2. Size \subseteq Nat /\ 0 .. FileLimit \subseteq Nat /\ 1 \in Nat
  BY UploadBounds DEF Size
<1>3. /\ <<>> \in Seq(Part)
      /\ \A a \in Part : <<a>> \in Seq(Part)
      /\ \A a, b \in Part : <<a, b>> \in Seq(Part)
      /\ \A a, b, c \in Part : <<a, b, c>> \in Seq(Part)
      /\ \A a, b, c, d \in Part : <<a, b, c, d>> \in Seq(Part)
  OBVIOUS
<1>4. ASSUME NEW b \in PageBodies PROVE b \in Seq(Part)
  <2>1. PICK n \in 0 .. FileLimit : b = <<Field("caption", TRUE), Field("price", TRUE), File("media", n)>>
    BY <1>4 DEF PageBodies
  <2> QED
    BY <1>1, <1>2, <1>3, <2>1, Zenon
<1>5. ASSUME NEW b \in FileFirst PROVE b \in Seq(Part)
  <2>1. PICK n \in Size, p \in BOOLEAN, c \in BOOLEAN :
          b = <<File("media", n), Field("price", p), Field("caption", c)>>
    BY <1>5 DEF FileFirst
  <2>2. File("media", n) \in Part /\ Field("price", p) \in Part /\ Field("caption", c) \in Part
    BY <1>1, <1>2
  <2> QED
    BY <1>3, <2>1, <2>2, Zenon
<1>6. ASSUME NEW b \in OddBodies PROVE b \in Seq(Part)
  <2>1. CASE b = <<>>
    BY <1>3, <2>1
  <2>2. CASE b = <<Field("caption", TRUE), Field("price", TRUE)>>
    BY <1>1, <1>3, <2>2, Zenon
  <2>3. CASE b \in {<<File("file", 1)>>, <<File("media", 1), File("media", 1)>>}
    BY <1>1, <1>2, <1>3, <2>3, Zenon
  <2>4. CASE b = <<File("media", 1), Field("caption", TRUE), Field("other", TRUE),
                   Field("price", TRUE)>>
    BY <1>1, <1>2, <1>3, <2>4, Zenon
  <2> QED
    BY <1>6, <2>1, <2>2, <2>3, <2>4, Zenon DEF OddBodies
<1> QED
  BY <1>4, <1>5, <1>6 DEF OtherBodies

LEMMA SendKeeps == ASSUME UploadInv, NEW b \in PageBodies \cup OtherBodies, Send(b) PROVE UploadInv'
<1>1. form' = NoForm /\ disk' = NoFile /\ body' = b /\ promise' = "pending"
      /\ handler' = "reading" /\ published' = published /\ b \in Seq(Part)
  BY BodiesAreParts DEF Send
<1>2. /\ NoForm.mediaSeen = FALSE /\ NoFile.state = "none"
  BY DEF NoForm, NoFile
<1> QED
  BY <1>1, <1>2, FreshRequest
  DEF UploadInv, UploadTypeOK, FileWritten, PipelineStarts, ResolvedIsWhole, CheckedIsValid,
      PublishedIsWhole

\* Steps of the parser, while the promise is pending.
LEMMA ParserKeeps ==
  ASSUME UploadInv, ReadField \/ ReadFile \/ ParserFails \/ StreamChunk \/ ParserCloses
  PROVE  UploadInv'
<1>1. /\ promise = "pending" /\ handler = "reading" /\ UNCHANGED <<handler, published>>
      /\ promise' # "resolved"
  BY DEF ReadField, ReadFile, ParserFails, StreamChunk, ParserCloses, Reading, Settle
<1>2. body \in Seq(Part) /\ form \in Form /\ disk \in Disk /\ FileWritten /\ PipelineStarts
  BY DEF UploadInv, UploadTypeOK
<1>3. body # <<>> => Head(body) \in Part /\ Tail(body) \in Seq(Part)
  BY <1>2
<1>4. ResolvedIsWhole' /\ CheckedIsValid' /\ PublishedIsWhole'
  BY <1>1 DEF UploadInv, ResolvedIsWhole, CheckedIsValid, PublishedIsWhole
<1>5. CASE ReadField
  <2>1. body # <<>> /\ body' = Tail(body) /\ disk' = disk
    BY <1>5 DEF ReadField
  <2>2. /\ form' \in Form /\ form'.bytes = form.bytes /\ form'.streaming = form.streaming
        /\ form'.mediaSeen = form.mediaSeen
    <3>1. CASE form' = form
      BY <1>2, <3>1
    <3>2. CASE form' # form
      <4> DEFINE part == Head(body)
                 caption == IF part.name = "caption" THEN Kept(part.valid) ELSE form.caption
                 price == IF part.name = "price" THEN Kept(part.valid) ELSE form.price
      <4>1. form' = [form EXCEPT !.fields = form.fields + 1, !.caption = caption, !.price = price]
        BY <1>2, <1>5, <3>2 DEF ReadField, Form
      <4>2. caption \in {"none", "valid", "invalid"} /\ price \in {"none", "valid", "invalid"}
            /\ form.fields + 1 \in Nat
        BY <1>2 DEF Kept, Form
      <4> HIDE DEF caption, price
      <4> QED
        BY <1>2, <4>1, <4>2 DEF Form
    <3> QED
      BY <3>1, <3>2
  <2> QED
    BY <1>2, <1>3, <1>4, <2>1, <2>2 DEF UploadInv, UploadTypeOK, FileWritten, PipelineStarts
<1>6. CASE ReadFile
  <2> DEFINE part == Head(body)
             through == IF part.size > FileLimit THEN FileLimit ELSE part.size
             large == part.size > FileLimit
  <2>1. body # <<>> /\ body' = Tail(body) /\ IsFile(part)
    BY <1>6 DEF ReadFile
  <2>2. CASE UNCHANGED <<form, disk>>
    BY <1>2, <1>3, <1>4, <2>1, <2>2 DEF UploadInv, UploadTypeOK, FileWritten, PipelineStarts
  <2>3. CASE /\ form' = [form EXCEPT !.mediaSeen = TRUE, !.streaming = through,
                                     !.limitExceeded = large]
             /\ disk' = [state |-> "writing", chunks |-> 0, open |-> TRUE]
    <3>1. part.size \in Nat
      BY <1>3, <2>1 DEF IsFile, Part
    <3>2. through \in Nat /\ large \in BOOLEAN
      BY <3>1, UploadBounds
    <3> HIDE DEF through, large
    <3>3. form' \in Form /\ form'.mediaSeen = TRUE
      BY <1>2, <2>3, <3>2 DEF Form
    <3>4. disk' \in Disk /\ disk'.state = "writing"
      BY <2>3 DEF Disk
    <3> QED
      BY <1>3, <1>4, <2>1, <3>3, <3>4 DEF UploadInv, UploadTypeOK, FileWritten, PipelineStarts
  <2> QED
    BY <1>6, <2>2, <2>3 DEF ReadFile
<1>7. CASE ParserFails \/ ParserCloses
  BY <1>2, <1>4, <1>7 DEF ParserFails, ParserCloses, UploadInv, UploadTypeOK, FileWritten,
                          PipelineStarts
<1>8. CASE StreamChunk
  <2>1. form.streaming > 0 /\ form' = [form EXCEPT !.streaming = @ - 1, !.bytes = @ + 1]
        /\ UNCHANGED <<body, disk>>
    BY <1>8 DEF StreamChunk
  <2>2. form.streaming - 1 \in Nat /\ form.bytes + 1 \in Nat
    BY <1>2, <2>1 DEF Form
  <2>3. form' \in Form /\ form'.mediaSeen = form.mediaSeen
    BY <1>2, <2>1, <2>2 DEF Form
  <2>4. disk.state # "done"
    BY <1>2, <2>1 DEF FileWritten
  <2> QED
    BY <1>2, <1>4, <2>1, <2>3, <2>4 DEF UploadInv, UploadTypeOK, FileWritten, PipelineStarts
<1> QED
  BY <1>5, <1>6, <1>7, <1>8

\* Steps of the disk.
LEMMA DiskKeeps ==
  ASSUME UploadInv, WriteChunk \/ WriteEnds \/ WriteFails
  PROVE  UploadInv'
<1>1. /\ UNCHANGED <<body, form, promise, handler, published>>
      /\ disk.state = "writing" /\ disk \in Disk /\ form \in Form /\ body \in Seq(Part)
      /\ FileWritten /\ PipelineStarts
  BY DEF WriteChunk, WriteEnds, WriteFails, UploadInv, UploadTypeOK
<1>2. promise # "resolved"
  BY <1>1 DEF UploadInv, ResolvedIsWhole
<1>3. ResolvedIsWhole' /\ CheckedIsValid' /\ PublishedIsWhole'
  BY <1>1, <1>2 DEF UploadInv, ResolvedIsWhole, CheckedIsValid, FormIsValid, PublishedIsWhole
<1>4. disk' \in Disk /\ disk'.state # "none" /\ FileWritten'
  <2>1. CASE WriteChunk
    <3>1. disk' = [disk EXCEPT !.chunks = @ + 1] /\ disk.chunks + 1 \in Nat
      BY <1>1, <2>1 DEF WriteChunk, Disk
    <3>2. disk' \in Disk /\ disk'.state = "writing"
      BY <1>1, <3>1 DEF Disk
    <3> QED
      BY <3>2 DEF FileWritten
  <2>2. CASE WriteEnds
    <3>1. disk' \in Disk /\ disk'.state = "done" /\ disk'.chunks = disk.chunks
      BY <1>1, <2>2 DEF WriteEnds, Disk
    <3> QED
      BY <1>1, <2>2, <3>1 DEF WriteEnds, FileWritten
  <2>3. CASE WriteFails
    <3>1. disk' \in Disk /\ disk'.state = "failed"
      BY <1>1, <2>3 DEF WriteFails, Disk
    <3> QED
      BY <3>1 DEF FileWritten
  <2> QED
    BY <2>1, <2>2, <2>3
<1> QED
  BY <1>1, <1>3, <1>4 DEF UploadInv, UploadTypeOK, PipelineStarts

LEMMA ResolveKeeps == ASSUME UploadInv, Resolve PROVE UploadInv'
<1>1. /\ UNCHANGED <<body, form, disk, handler, published>> /\ promise = "closing"
      /\ promise' = OutcomeOfClose /\ Written /\ form \in Form
  BY DEF Resolve, Settle, UploadInv, UploadTypeOK
<1>2. promise' = "resolved" =>
        disk.state # "failed" /\ ~ form.limitExceeded /\ form.mediaSeen
  <2>1. CASE disk.state = "failed"
    BY <1>1, <2>1 DEF OutcomeOfClose
  <2>2. CASE disk.state # "failed" /\ form.limitExceeded
    BY <1>1, <2>2 DEF OutcomeOfClose
  <2>3. CASE disk.state # "failed" /\ ~ form.limitExceeded
    BY <1>1, <2>3 DEF OutcomeOfClose
  <2> QED
    BY <2>1, <2>2, <2>3
<1>3. ResolvedIsWhole'
  BY <1>1, <1>2 DEF UploadInv, PipelineStarts, ResolvedIsWhole, Written
<1> QED
  BY <1>1, <1>3 DEF UploadInv, UploadTypeOK, FileWritten, PipelineStarts, CheckedIsValid,
                    PublishedIsWhole

\* Steps of the handler, of which one publishes.
LEMMA HandlerKeeps ==
  ASSUME UploadInv, RefuseUpload \/ CheckForm \/ VerifyMedia \/ PublishPost
  PROVE  UploadInv'
<1>1. UNCHANGED <<body, form, disk, promise>>
  BY DEF RefuseUpload, CheckForm, VerifyMedia, PublishPost
<1>2. UploadTypeOK' /\ FileWritten' /\ PipelineStarts' /\ ResolvedIsWhole'
  BY <1>1 DEF UploadInv, UploadTypeOK, FileWritten, PipelineStarts, ResolvedIsWhole
<1>3. CheckedIsValid'
  BY <1>1 DEF RefuseUpload, CheckForm, VerifyMedia, PublishPost, Answer, Accepted, UploadInv,
              CheckedIsValid, FormIsValid
<1>4. PublishedIsWhole'
  <2>1. CASE UNCHANGED published
    BY <2>1 DEF UploadInv, PublishedIsWhole
  <2>2. CASE PublishPost /\ published' # published
    <3> DEFINE new == [caption |-> form.caption, price |-> form.price, chunks |-> disk.chunks,
                       bytes |-> form.bytes, cut |-> form.limitExceeded]
    <3>1. handler = "publishing" /\ published' = published \cup {new}
      BY <2>2 DEF PublishPost
    <3>2. FormIsValid /\ disk.chunks = form.bytes /\ ~ form.limitExceeded
      BY <3>1 DEF UploadInv, CheckedIsValid, ResolvedIsWhole, FileWritten
    <3>3. /\ new.chunks = new.bytes /\ new.bytes > 0 /\ ~ new.cut
          /\ new.caption = "valid" /\ new.price = "valid"
      BY <3>2 DEF FormIsValid
    <3> HIDE DEF new
    <3> QED
      BY <3>1, <3>3 DEF UploadInv, PublishedIsWhole
  <2> QED
    BY <2>1, <2>2 DEF RefuseUpload, CheckForm, VerifyMedia
<1> QED
  BY <1>2, <1>3, <1>4 DEF UploadInv

\* What the end of a request makes of its file: it is closed, or given up.
LEMMA StoppedDisk ==
  ASSUME disk \in Disk, \/ DiscardTempDir \/ PageAnswered \/ ConnectionBreaks \/ ServerRestarts
                        \/ WriteFailsUnheard \/ UNCHANGED uploadVars
  PROVE  /\ disk' \in Disk
         /\ disk'.state = disk.state \/ (disk.state = "writing" /\ disk'.state = "failed")
         /\ disk'.chunks = disk.chunks
<1>1. CASE disk' \in {disk, [disk EXCEPT !.open = FALSE]}
  BY <1>1 DEF Disk
<1>2. CASE ProcessEnds
  BY <1>2 DEF ProcessEnds, Disk
<1> QED
  BY <1>1, <1>2 DEF DiscardTempDir, PageAnswered, ConnectionBreaks, ServerRestarts,
                    WriteFailsUnheard, uploadVars, request

\* The end of a request, and what only the client sees.
LEMMA EndKeeps ==
  ASSUME UploadInv, \/ DiscardTempDir \/ PageAnswered \/ ConnectionBreaks \/ ServerRestarts
                    \/ WriteFailsUnheard \/ UNCHANGED uploadVars
  PROVE  UploadInv'
<1>1. /\ UNCHANGED <<body, form, promise, published>>
      /\ handler' \in {handler, "ended"}
  BY DEF DiscardTempDir, PageAnswered, ConnectionBreaks, ServerRestarts, WriteFailsUnheard,
         ProcessEnds, uploadVars, request
<1>2. disk \in Disk
  BY DEF UploadInv, UploadTypeOK
<1>3. /\ disk' \in Disk
      /\ disk'.state = disk.state \/ (disk.state = "writing" /\ disk'.state = "failed")
      /\ disk'.chunks = disk.chunks
  BY <1>2, StoppedDisk
<1> QED
  BY <1>1, <1>3
  DEF UploadInv, UploadTypeOK, FileWritten, PipelineStarts, ResolvedIsWhole, CheckedIsValid,
      FormIsValid, PublishedIsWhole

LEMMA UploadNextInv == UploadInv /\ [UploadNext]_uploadVars => UploadInv'
<1> SUFFICES ASSUME UploadInv, [UploadNext]_uploadVars PROVE UploadInv'
  OBVIOUS
<1>1. CASE Publish \/ Request
  BY <1>1, SendKeeps DEF Publish, Request
<1> QED
  BY <1>1, ParserKeeps, DiskKeeps, ResolveKeeps, HandlerKeeps, EndKeeps
  DEF UploadNext, ServerStep

\* What is published is the whole file that was sent, within the limit, with a caption and
\* a price that were checked.
THEOREM WholeFilesPublished == UploadSpec => []PublishedIsWhole
<1>1. UploadInv => PublishedIsWhole
  BY DEF UploadInv
<1> QED
  BY <1>1, UploadInitInv, UploadNextInv, PTL DEF UploadSpec

-----------------------------------------------------------------------------
(* What an upload waits for *)

\* The page waits at its progress bar only while its request has a connection.
PageWaits == page = "uploading" => connected /\ handler # "none"

\* The handler is done with no client that is still there and has no answer.
AnswerSent == connected /\ handler \in {"discarding", "ended"} => answer # "none"

\* The disk is never ahead of the parser, and a parser that has closed has given it all of
\* the file: the wait for the file is a wait for writes that are possible.
WritesPossible ==
  /\ disk.chunks <= form.bytes
  /\ promise = "closing" => form.streaming = 0

AnswerAwaited == PageWaits /\ AnswerSent /\ WritesPossible

LEMMA SendAwaits == ASSUME UploadInv, AnswerAwaited, Publish \/ Request PROVE AnswerAwaited'
<1>1. /\ form' = NoForm /\ disk' = NoFile /\ promise' = "pending"
      /\ handler' = "reading" /\ connected' = TRUE
  BY DEF Publish, Request, Send
<1>2. NoForm.bytes = 0 /\ NoFile.chunks = 0
  BY DEF NoForm, NoFile
<1>3. NoFile.chunks <= NoForm.bytes
  BY <1>2
<1> QED
  BY <1>1, <1>3 DEF AnswerAwaited, PageWaits, AnswerSent, WritesPossible

\* Reading, writing and waiting for the file.
LEMMA ReadingAwaits ==
  ASSUME UploadInv, AnswerAwaited,
         \/ ReadField \/ ReadFile \/ ParserFails \/ StreamChunk \/ ParserCloses
         \/ WriteChunk \/ WriteEnds \/ WriteFails \/ Resolve
  PROVE  AnswerAwaited'
<1>1. UNCHANGED <<page, handler, answer, connected>>
  BY DEF ReadField, ReadFile, ParserFails, StreamChunk, ParserCloses, WriteChunk, WriteEnds,
         WriteFails, Resolve
<1>2. PageWaits' /\ AnswerSent'
  BY <1>1 DEF AnswerAwaited, PageWaits, AnswerSent
<1>3. form \in Form /\ disk \in Disk /\ WritesPossible
  BY DEF UploadInv, UploadTypeOK, AnswerAwaited
<1>4. form.bytes \in Nat /\ form.streaming \in Nat /\ disk.chunks \in Nat
  BY <1>3 DEF Form, Disk
<1>5. ASSUME form'.bytes = form.bytes, form'.streaming = form.streaming,
             disk'.chunks = disk.chunks, promise' = "closing" => form.streaming = 0
      PROVE  WritesPossible'
  BY <1>3, <1>5 DEF WritesPossible
<1>6. ASSUME ReadField PROVE WritesPossible'
  <2>1. form'.bytes = form.bytes /\ form'.streaming = form.streaming /\ disk' = disk
    BY <1>3, <1>6 DEF ReadField, Form
  <2> QED
    BY <1>5, <1>6, <2>1 DEF ReadField
<1>7. ASSUME ReadFile PROVE WritesPossible'
  <2>1. promise' # "closing"
    BY <1>7 DEF ReadFile, Reading, Settle
  <2>2. UNCHANGED <<form, disk>> \/ (form'.bytes = form.bytes /\ disk'.chunks = 0)
    <3>1. \A through, large :
            [form EXCEPT !.mediaSeen = TRUE, !.streaming = through,
                         !.limitExceeded = large].bytes = form.bytes
      BY <1>3 DEF Form
    <3>2. UNCHANGED <<form, disk>>
          \/ /\ \E through, large :
                  form' = [form EXCEPT !.mediaSeen = TRUE, !.streaming = through,
                                       !.limitExceeded = large]
             /\ disk' = [state |-> "writing", chunks |-> 0, open |-> TRUE]
      BY <1>7 DEF ReadFile
    <3>3. [state |-> "writing", chunks |-> 0, open |-> TRUE].chunks = 0
      OBVIOUS
    <3>4. CASE \E through, large :
                 form' = [form EXCEPT !.mediaSeen = TRUE, !.streaming = through,
                                      !.limitExceeded = large]
      BY <3>1, <3>2, <3>3, <3>4
    <3> QED
      BY <3>2, <3>4
  <2>3. form'.bytes = form.bytes /\ disk'.chunks <= form.bytes
    BY <1>3, <1>4, <2>2 DEF WritesPossible
  <2> QED
    BY <2>1, <2>3 DEF WritesPossible
<1>8. ASSUME ParserFails \/ ParserCloses \/ Resolve PROVE WritesPossible'
  <2>1. UNCHANGED <<form, disk>> /\ (promise' = "closing" => form.streaming = 0)
    <3>1. promise = "closing" => form.streaming = 0
      BY <1>3 DEF WritesPossible
    <3>2. CASE Resolve
      <4>1. promise' # "closing"
        BY <3>2 DEF Resolve, Settle, OutcomeOfClose
      <4> QED
        BY <3>2, <4>1 DEF Resolve
    <3>3. CASE ParserFails \/ ParserCloses
      BY <3>1, <3>3 DEF ParserFails, ParserCloses, Settle
    <3> QED
      BY <1>8, <3>2, <3>3
  <2> QED
    BY <1>5, <2>1
<1>9. ASSUME StreamChunk PROVE WritesPossible'
  <2>1. promise' # "closing" /\ disk' = disk
    BY <1>9 DEF StreamChunk, Reading
  <2>2. form'.bytes = form.bytes + 1
    BY <1>3, <1>9 DEF StreamChunk, Form
  <2>3. disk.chunks <= form.bytes + 1
    BY <1>3, <1>4 DEF WritesPossible
  <2> QED
    BY <2>1, <2>2, <2>3 DEF WritesPossible
<1>10. ASSUME WriteChunk PROVE WritesPossible'
  <2>1. disk.chunks < form.bytes /\ UNCHANGED <<form, promise>>
    BY <1>10 DEF WriteChunk
  <2>2. disk'.chunks = disk.chunks + 1
    BY <1>3, <1>10 DEF WriteChunk, Disk
  <2>3. disk.chunks + 1 <= form.bytes
    BY <1>4, <2>1
  <2> QED
    BY <1>3, <2>1, <2>2, <2>3 DEF WritesPossible
<1>11. ASSUME WriteEnds \/ WriteFails PROVE WritesPossible'
  <2>1. disk'.chunks = disk.chunks /\ UNCHANGED <<form, promise>>
    BY <1>3, <1>11 DEF WriteEnds, WriteFails, Disk
  <2> QED
    BY <1>3, <2>1 DEF WritesPossible
<1> QED
  BY <1>2, <1>6, <1>7, <1>8, <1>9, <1>10, <1>11 DEF AnswerAwaited

\* The handler after the read, and the end of the request.
LEMMA HandlerAwaits ==
  ASSUME UploadInv, AnswerAwaited,
         \/ RefuseUpload \/ CheckForm \/ VerifyMedia \/ PublishPost \/ DiscardTempDir
         \/ PageAnswered \/ ConnectionBreaks \/ ServerRestarts \/ WriteFailsUnheard
         \/ UNCHANGED uploadVars
  PROVE  AnswerAwaited'
<1>1. UNCHANGED <<form, promise>>
  BY DEF RefuseUpload, CheckForm, VerifyMedia, PublishPost, DiscardTempDir, PageAnswered,
         ConnectionBreaks, ServerRestarts, WriteFailsUnheard, ProcessEnds, uploadVars, request
<1>2. disk'.chunks = disk.chunks
  <2>1. CASE RefuseUpload \/ CheckForm \/ VerifyMedia \/ PublishPost
    BY <2>1 DEF RefuseUpload, CheckForm, VerifyMedia, PublishPost
  <2> QED
    BY <2>1, StoppedDisk DEF UploadInv, UploadTypeOK
<1>3. WritesPossible'
  BY <1>1, <1>2 DEF AnswerAwaited, WritesPossible
<1>4. PageWaits'
  BY DEF RefuseUpload, CheckForm, VerifyMedia, PublishPost, Answer, DiscardTempDir,
         PageAnswered, ConnectionBreaks, ServerRestarts, WriteFailsUnheard, ProcessEnds,
         uploadVars, request, AnswerAwaited, PageWaits
<1>5. AnswerSent'
  BY DEF RefuseUpload, CheckForm, VerifyMedia, PublishPost, Answer, DiscardTempDir,
         PageAnswered, ConnectionBreaks, ServerRestarts, WriteFailsUnheard, ProcessEnds,
         uploadVars, request, AnswerAwaited, AnswerSent
<1> QED
  BY <1>3, <1>4, <1>5 DEF AnswerAwaited

LEMMA UploadStepAwaits ==
  UploadInv /\ AnswerAwaited /\ [UploadNext]_uploadVars => AnswerAwaited'
  BY SendAwaits, ReadingAwaits, HandlerAwaits DEF UploadNext, ServerStep

\* Nobody waits for an upload in vain: a page at its progress bar has a live request, a
\* request that is over has answered whoever is still there, and once the parser has
\* closed nothing but the disk is awaited, which has all it must write.  UploadEnds rests
\* on it.
THEOREM UploadsAnswered == UploadSpec => []AnswerAwaited
<1>1. UploadInit => AnswerAwaited
  <2>1. NoFile.chunks <= NoForm.bytes
    BY DEF NoForm, NoFile
  <2> QED
    BY <2>1 DEF UploadInit, NoRequest, AnswerAwaited, PageWaits, AnswerSent, WritesPossible
<1> QED
  BY <1>1, UploadInitInv, UploadNextInv, UploadStepAwaits, PTL DEF UploadSpec

=============================================================================
