-------------------------- MODULE PaymentWorkflow --------------------------
(***************************************************************************)
(* Pay-per-view payments: the prepare and finalize handlers of the HTTP    *)
(* application, the workflow reconciler of every replica, the payment      *)
(* tables they share, and the chain they pay on.                           *)
(*                                                                         *)
(* A handler or a reconciler pass is a process that performs one store or  *)
(* network call per step, because each is awaited and another process may  *)
(* run in between.  A row of prepared_payments never changes once it is    *)
(* inserted, so a process that read it holds nothing but its id: `issued'  *)
(* remembers the content, and `prepared' only when the row expires.        *)
(***************************************************************************)
EXTENDS Integers, FiniteSets

CONSTANTS
  Post,           \* paid posts published at the start
  Buyer,          \* wallet addresses that buy
  Coin,           \* spendable outputs
  Owner,          \* Owner[c] is the buyer who can spend coin c
  Prep,           \* ids of prepared payments, in the order of ORDER BY
  Request,        \* concurrent HTTP requests
  Replica,        \* concurrent reconciler passes
  NoTx,           \* absence of a transaction
  PreparedTtl,    \* PREPARED_TTL_MS
  StaleWorkflow,  \* STALE_WORKFLOW_MS
  Batch,          \* rows a pass lists
  MaxClock,       \* bound: the last instant of a run
  MaxFaults       \* bound: failures of processes and lost answers in a run

Tx == [post : Post, buyer : Buyer, coin : Coin]

ASSUME IdsArePositive == Prep \subseteq Nat \ {0}
ASSUME OwnersBuy == Owner \in [Coin -> Buyer]
ASSUME NoTxIsNone == NoTx \notin Tx
ASSUME TtlIsPositive == PreparedTtl \in Nat \ {0}
ASSUME BoundsAreNaturals ==
  /\ StaleWorkflow \in Nat /\ Batch \in Nat
  /\ MaxClock \in Nat /\ MaxFaults \in Nat

VARIABLES
  clock,      \* Date.now(), the same for every process
  posts,      \* table posts: those not deleted
  prepared,   \* table prepared_payments: id -> expires_at, 0 for no row
  issued,     \* id -> the transaction prepared under it
  workflows,  \* table payment_workflows: id -> row
  purchases,  \* table purchases: a row is the payment it records
  mempool,    \* payments the node has admitted and not yet accepted
  accepted,   \* payments the chain has accepted
  handler,    \* the state of each HTTP request
  pass,       \* the state of each reconciler pass
  told,       \* id -> the last final answer of a finalize request
  faults      \* failures so far

db == <<posts, prepared, issued, workflows, purchases>>
chain == <<mempool, accepted>>
vars == <<clock, db, chain, handler, pass, told, faults>>

-----------------------------------------------------------------------------
(* Rows and process states *)

NoWorkflow == [state |-> "ABSENT", submittedAt |-> 0, finalized |-> FALSE]

WorkflowRow == [state : {"ABSENT", "SUBMITTED", "CONFIRMED", "REJECTED"},
                submittedAt : Nat, finalized : BOOLEAN]

Idle == [pc |-> "idle", id |-> 0, tx |-> NoTx]

HandlerState ==
  [pc : {"idle", "prune", "save", "workflow", "submit", "status", "pending",
         "rejectWorkflow", "rejectPrepared", "confirm", "insert",
         "cleanCreated", "cleanDuplicate"},
   id : Prep \cup {0}, tx : Tx \cup {NoTx}]

Resting == [pc |-> "idle", id |-> 0, since |-> 0, now |-> 0, todo |-> {}]

PassState ==
  [pc : {"idle", "next", "status", "claimConfirmed", "claimRejected",
         "insert", "delete"},
   id : Prep \cup {0}, since : Nat, now : Nat, todo : SUBSET (Prep \X Nat)]

Answer == {"none", "rejected", "confirmed", "exists"}

\* Tables, chain and processes hold what the code puts into them: an upsert leaves a
\* row.
TypeOK ==
  /\ clock \in Nat
  /\ posts \subseteq Post
  /\ prepared \in [Prep -> Nat]
  /\ issued \in [Prep -> Tx \cup {NoTx}]
  /\ workflows \in [Prep -> WorkflowRow]
  /\ purchases \subseteq Tx
  /\ mempool \subseteq Tx
  /\ accepted \subseteq Tx
  /\ handler \in [Request -> HandlerState]
  /\ pass \in [Replica -> PassState]
  /\ told \in [Prep -> Answer]
  /\ faults \in Nat

Init ==
  /\ clock = 0
  /\ posts = Post
  /\ prepared = [p \in Prep |-> 0]
  /\ issued = [p \in Prep |-> NoTx]
  /\ workflows = [p \in Prep |-> NoWorkflow]
  /\ purchases = {}
  /\ mempool = {}
  /\ accepted = {}
  /\ handler = [r \in Request |-> Idle]
  /\ pass = [c \in Replica |-> Resting]
  /\ told = [p \in Prep |-> "none"]
  /\ faults = 0

-----------------------------------------------------------------------------
(* The store *)

\* getPreparedPayment(id, now) returns the row: expires_at > now.
PreparedAlive(p, now) == prepared[p] > now

\* prunePreparedPayments(now): expired rows are deleted.
Pruned(now) == [p \in Prep |-> IF prepared[p] <= now THEN 0 ELSE prepared[p]]

\* Variant: the state of the answer is stored instead of the row's own.
UpsertedAnswer(row, state, now) ==
  [state |-> IF state = "SUBMITTED" THEN "PENDING" ELSE state,
   submittedAt |-> now, finalized |-> FALSE]

\* savePaymentWorkflow: an upsert that keeps submitted_at and finalized_at.
Upserted(row, state, now) ==
  IF row = NoWorkflow
    THEN [state |-> state, submittedAt |-> now, finalized |-> FALSE]
    ELSE [row EXCEPT !.state = state]

\* The UNIQUE and PRIMARY KEY constraints of table purchases.
HasReceipt(post, buyer) ==
  \E q \in purchases : q.post = post /\ q.buyer = buyer

\* Variant: the primary key (post_id, buyer) is missing.
InsertCollidesByTransaction(t) == t \in purchases

InsertCollides(t) == t \in purchases \/ HasReceipt(t.post, t.buyer)

\* finalizePurchase(id, value): one transaction inserts the receipt, unless a
\* constraint forbids it, and deletes the prepared row in either case.
FinalizePurchase(p) ==
  /\ purchases' = IF InsertCollides(issued[p])
                    THEN purchases ELSE purchases \cup {issued[p]}
  /\ prepared' = [prepared EXCEPT ![p] = 0]
  /\ UNCHANGED <<posts, issued, workflows>>

\* Variant: the rows are listed in descending order.
PendingDescending ==
  LET listed == {p \in Prep : workflows[p].state = "SUBMITTED"} IN
  {p \in listed : Cardinality({q \in listed : q > p}) < Batch}

\* pendingPaymentWorkflows(limit): the first rows in the order of their ids.
Pending ==
  LET listed == {p \in Prep : workflows[p].state = "SUBMITTED"} IN
  {p \in listed : Cardinality({q \in listed : q < p}) < Batch}

-----------------------------------------------------------------------------
(* POST /api/posts/:id/payments/prepare *)

Proceed(r, state) == handler' = [handler EXCEPT ![r] = state]

\* The handler checks the post and the buyer's receipt, and the gateway picks
\* an unspent coin of the buyer.  These are reads: what matters is that the row
\* is saved later, on what was read here.
PrepareRead(r) ==
  /\ handler[r].pc = "idle"
  /\ \E t \in Tx :
       /\ t.post \in posts
       /\ ~ HasReceipt(t.post, t.buyer)
       /\ Owner[t.coin] = t.buyer
       /\ \A u \in accepted : u.coin # t.coin
       /\ Proceed(r, [pc |-> "prune", id |-> 0, tx |-> t])
  /\ UNCHANGED <<clock, db, chain, pass, told, faults>>

PreparePrune(r) ==
  /\ handler[r].pc = "prune"
  /\ prepared' = Pruned(clock)
  /\ Proceed(r, [handler[r] EXCEPT !.pc = "save"])
  /\ UNCHANGED <<clock, posts, issued, workflows, purchases, chain, pass, told,
                 faults>>

\* savePreparedPayment under a fresh random id, and the answer 201 that gives
\* the client the transaction to sign.
PrepareSave(r) ==
  /\ handler[r].pc = "save"
  /\ clock + PreparedTtl <= MaxClock
  /\ \E p \in Prep :
       /\ issued[p] = NoTx
       /\ prepared' = [prepared EXCEPT ![p] = clock + PreparedTtl]
       /\ issued' = [issued EXCEPT ![p] = handler[r].tx]
  /\ Proceed(r, Idle)
  /\ UNCHANGED <<clock, posts, workflows, purchases, chain, pass, told, faults>>

-----------------------------------------------------------------------------
(* POST /api/payments/:id/finalize *)

\* An id that is unknown, expired or another buyer's is answered 404 and
\* changes nothing.
FinalizeRead(r) ==
  /\ handler[r].pc = "idle"
  /\ \E p \in Prep :
       /\ PreparedAlive(p, clock)
       /\ Proceed(r, [Idle EXCEPT !.pc = "workflow", !.id = p])
  /\ UNCHANGED <<clock, db, chain, pass, told, faults>>

\* Variant: a CONFIRMED workflow is taken for a written receipt.
FinalizeWorkflowSkipsInsert(r) ==
  /\ handler[r].pc = "workflow"
  /\ LET state == workflows[handler[r].id].state IN
     Proceed(r, [handler[r] EXCEPT !.pc =
                   CASE state = "ABSENT"    -> "submit"
                     [] state = "CONFIRMED" -> "cleanCreated"
                     [] OTHER               -> "status"])
  /\ UNCHANGED <<clock, db, chain, pass, told, faults>>

\* A workflow already CONFIRMED is finalized without asking the chain again.
FinalizeWorkflow(r) ==
  /\ handler[r].pc = "workflow"
  /\ LET state == workflows[handler[r].id].state IN
     Proceed(r, [handler[r] EXCEPT !.pc =
                   CASE state = "ABSENT"    -> "submit"
                     [] state = "CONFIRMED" -> "confirm"
                     [] OTHER               -> "status"])
  /\ UNCHANGED <<clock, db, chain, pass, told, faults>>

\* The node admits a payment that conflicts with none it knows.
Admissible(t) == \A u \in mempool \cup accepted : u.coin = t.coin => u = t

Admit(t) ==
  /\ Admissible(t)
  /\ mempool' = mempool \cup ({t} \ accepted)
  /\ UNCHANGED accepted

\* submit: the signed transaction is relayed and the gateway asks for its status.
SubmitAdmitted(r) ==
  /\ handler[r].pc = "submit"
  /\ Admit(issued[handler[r].id])
  /\ Proceed(r, [handler[r] EXCEPT !.pc = "status"])
  /\ UNCHANGED <<clock, db, pass, told, faults>>

\* submit: the body is not the prepared transaction with its signatures, or the
\* node refuses it.
SubmitRefused(r) ==
  /\ handler[r].pc = "submit"
  /\ Proceed(r, [handler[r] EXCEPT !.pc = "rejectWorkflow"])
  /\ UNCHANGED <<clock, db, chain, pass, told, faults>>

\* submit: the body cannot be read, or a parent of the transaction cannot be
\* validated; the error leaves every table as it was.
SubmitThrows(r) ==
  /\ handler[r].pc = "submit"
  /\ Proceed(r, Idle)
  /\ UNCHANGED <<clock, db, chain, pass, told, faults>>

\* submit: the node admits the transaction, but its answer is lost; the gateway
\* reports the relay error as a rejection.
SubmitAnswerLost(r) ==
  /\ handler[r].pc = "submit"
  /\ faults < MaxFaults
  /\ faults' = faults + 1
  /\ Admit(issued[handler[r].id])
  /\ Proceed(r, [handler[r] EXCEPT !.pc = "rejectWorkflow"])
  /\ UNCHANGED <<clock, db, pass, told>>

\* Variant: a payment the node has admitted counts as accepted.
StatusAdmitted(r) ==
  /\ handler[r].pc = "status"
  /\ issued[handler[r].id] \in mempool \cup accepted
  /\ Proceed(r, [handler[r] EXCEPT !.pc = "confirm"])
  /\ UNCHANGED <<clock, db, chain, pass, told, faults>>

\* status: acceptance is reported once the chain has accepted the payment.
StatusAccepted(r) ==
  /\ handler[r].pc = "status"
  /\ issued[handler[r].id] \in accepted
  /\ Proceed(r, [handler[r] EXCEPT !.pc = "confirm"])
  /\ UNCHANGED <<clock, db, chain, pass, told, faults>>

\* Variant: only an explicit refusal is not an acceptance.
StatusUnknownConfirms(r) ==
  /\ handler[r].pc = "status"
  /\ Proceed(r, [handler[r] EXCEPT !.pc = "confirm"])
  /\ UNCHANGED <<clock, db, chain, pass, told, faults>>

\* status: not indexed or not accepted yet.
StatusUnknown(r) ==
  /\ handler[r].pc = "status"
  /\ Proceed(r, [handler[r] EXCEPT !.pc = "pending"])
  /\ UNCHANGED <<clock, db, chain, pass, told, faults>>

SaveWorkflow(p, state) ==
  workflows' = [workflows EXCEPT ![p] = Upserted(@, state, clock)]

DeleteWorkflow(p) == workflows' = [workflows EXCEPT ![p] = NoWorkflow]

Reply(p, answer) == told' = [told EXCEPT ![p] = answer]

\* 202 PENDING
SavePending(r) ==
  /\ handler[r].pc = "pending"
  /\ SaveWorkflow(handler[r].id, "SUBMITTED")
  /\ Proceed(r, Idle)
  /\ UNCHANGED <<clock, posts, prepared, issued, purchases, chain, pass, told,
                 faults>>

RejectWorkflow(r) ==
  /\ handler[r].pc = "rejectWorkflow"
  /\ DeleteWorkflow(handler[r].id)
  /\ Proceed(r, [handler[r] EXCEPT !.pc = "rejectPrepared"])
  /\ UNCHANGED <<clock, posts, prepared, issued, purchases, chain, pass, told,
                 faults>>

\* 422 REJECTED
RejectPrepared(r) ==
  /\ handler[r].pc = "rejectPrepared"
  /\ prepared' = [prepared EXCEPT ![handler[r].id] = 0]
  /\ Reply(handler[r].id, "rejected")
  /\ Proceed(r, Idle)
  /\ UNCHANGED <<clock, posts, issued, workflows, purchases, chain, pass, faults>>

SaveConfirmed(r) ==
  /\ handler[r].pc = "confirm"
  /\ SaveWorkflow(handler[r].id, "CONFIRMED")
  /\ Proceed(r, [handler[r] EXCEPT !.pc = "insert"])
  /\ UNCHANGED <<clock, posts, prepared, issued, purchases, chain, pass, told,
                 faults>>

InsertReceipt(r) ==
  /\ handler[r].pc = "insert"
  /\ FinalizePurchase(handler[r].id)
  /\ Proceed(r, [handler[r] EXCEPT !.pc =
                   IF InsertCollides(issued[handler[r].id])
                     THEN "cleanDuplicate" ELSE "cleanCreated"])
  /\ UNCHANGED <<clock, chain, pass, told, faults>>

\* 201 CONFIRMED, or 409 PURCHASE_EXISTS
CleanUp(r) ==
  /\ handler[r].pc \in {"cleanCreated", "cleanDuplicate"}
  /\ DeleteWorkflow(handler[r].id)
  /\ Reply(handler[r].id,
           IF handler[r].pc = "cleanCreated" THEN "confirmed" ELSE "exists")
  /\ Proceed(r, Idle)
  /\ UNCHANGED <<clock, posts, prepared, issued, purchases, chain, pass, faults>>

-----------------------------------------------------------------------------
(* WorkflowReconciler.run *)

Advance(c, state) == pass' = [pass EXCEPT ![c] = state]

\* The loop goes on with the rest of the list.
Continue(c) == Advance(c, [pass[c] EXCEPT !.pc = "next", !.id = 0, !.since = 0])

\* A pass reads the clock once and lists the pending workflows once.
ScanPending(c) ==
  /\ pass[c].pc = "idle"
  /\ Pending # {}
  /\ Advance(c, [Resting EXCEPT !.pc = "next", !.now = clock,
                   !.todo = {<<p, workflows[p].submittedAt>> : p \in Pending}])
  /\ UNCHANGED <<clock, db, chain, handler, told, faults>>

\* Variant: a workflow without a prepared row is skipped.
ReadPreparedOrSkip(c) ==
  /\ pass[c].pc = "next"
  /\ \E w \in pass[c].todo :
       /\ \A v \in pass[c].todo : w[1] <= v[1]
       /\ Advance(c, [pass[c] EXCEPT
                        !.pc = IF PreparedAlive(w[1], pass[c].now)
                                 THEN "status" ELSE "next",
                        !.id = w[1], !.since = w[2], !.todo = @ \ {w}])
  /\ UNCHANGED <<clock, db, chain, handler, told, faults>>

\* The next workflow of the list, and its prepared row as of the pass's clock.
ReadPrepared(c) ==
  /\ pass[c].pc = "next"
  /\ \E w \in pass[c].todo :
       /\ \A v \in pass[c].todo : w[1] <= v[1]
       /\ Advance(c, [pass[c] EXCEPT
                        !.pc = IF PreparedAlive(w[1], pass[c].now)
                                 THEN "status" ELSE "claimRejected",
                        !.id = w[1], !.since = w[2], !.todo = @ \ {w}])
  /\ UNCHANGED <<clock, db, chain, handler, told, faults>>

EndPass(c) ==
  /\ pass[c].pc = "next"
  /\ pass[c].todo = {}
  /\ Advance(c, Resting)
  /\ UNCHANGED <<clock, db, chain, handler, told, faults>>

ReconcileAccepted(c) ==
  /\ pass[c].pc = "status"
  /\ issued[pass[c].id] \in accepted
  /\ Advance(c, [pass[c] EXCEPT !.pc = "claimConfirmed"])
  /\ UNCHANGED <<clock, db, chain, handler, told, faults>>

\* Left for a later pass until the workflow is stale.
ReconcileUnknown(c) ==
  /\ pass[c].pc = "status"
  /\ IF pass[c].now - pass[c].since > StaleWorkflow
       THEN Advance(c, [pass[c] EXCEPT !.pc = "claimRejected"])
       ELSE Continue(c)
  /\ UNCHANGED <<clock, db, chain, handler, told, faults>>

\* Variant: the UPDATE has no condition on finalized_at.
ClaimAgain(c, state) ==
  IF workflows[pass[c].id] # NoWorkflow
    THEN /\ workflows' = [workflows EXCEPT ![pass[c].id] =
                            [@ EXCEPT !.state = state, !.finalized = TRUE]]
         /\ Advance(c, [pass[c] EXCEPT !.pc = IF state = "CONFIRMED"
                                                THEN "insert" ELSE "delete"])
    ELSE /\ UNCHANGED workflows
         /\ Continue(c)

\* claimPaymentWorkflowTerminal: one UPDATE ... WHERE finalized_at IS NULL.
ClaimTerminal(c, state) ==
  LET row == workflows[pass[c].id] IN
  IF row # NoWorkflow /\ ~ row.finalized
    THEN /\ workflows' = [workflows EXCEPT ![pass[c].id] =
                            [@ EXCEPT !.state = state, !.finalized = TRUE]]
         /\ Advance(c, [pass[c] EXCEPT !.pc = IF state = "CONFIRMED"
                                                THEN "insert" ELSE "delete"])
    ELSE /\ UNCHANGED workflows
         /\ Continue(c)

Claim(c) ==
  /\ \/ pass[c].pc = "claimConfirmed" /\ ClaimTerminal(c, "CONFIRMED")
     \/ pass[c].pc = "claimRejected" /\ ClaimTerminal(c, "REJECTED")
  /\ UNCHANGED <<clock, posts, prepared, issued, purchases, chain, handler, told,
                 faults>>

ReconcileInsert(c) ==
  /\ pass[c].pc = "insert"
  /\ FinalizePurchase(pass[c].id)
  /\ Advance(c, [pass[c] EXCEPT !.pc = "delete"])
  /\ UNCHANGED <<clock, chain, handler, told, faults>>

ReconcileDelete(c) ==
  /\ pass[c].pc = "delete"
  /\ DeleteWorkflow(pass[c].id)
  /\ Continue(c)
  /\ UNCHANGED <<clock, posts, prepared, issued, purchases, chain, handler, told,
                 faults>>

-----------------------------------------------------------------------------
(* The environment *)

\* A request fails at any await: the process stops, or a call throws.
HandlerFails(r) ==
  /\ handler[r].pc # "idle"
  /\ faults < MaxFaults
  /\ faults' = faults + 1
  /\ Proceed(r, Idle)
  /\ UNCHANGED <<clock, db, chain, pass, told>>

\* A throw abandons the workflow at hand and the pass goes on; when the process
\* stops, the pass ends with it.
PassFails(c) ==
  /\ pass[c].pc # "idle"
  /\ faults < MaxFaults
  /\ faults' = faults + 1
  /\ \/ pass[c].pc # "next" /\ Continue(c)
     \/ Advance(c, Resting)
  /\ UNCHANGED <<clock, db, chain, handler, told>>

\* deletePost: one transaction deletes the post and its receipts.
DeletePost(d) ==
  /\ d \in posts
  /\ posts' = posts \ {d}
  /\ purchases' = {q \in purchases : q.post # d}
  /\ UNCHANGED <<clock, prepared, issued, workflows, chain, handler, pass, told,
                 faults>>

ChainAccepts(t) ==
  /\ t \in mempool
  /\ mempool' = {u \in mempool : u.coin # t.coin}
  /\ accepted' = accepted \cup {t}
  /\ UNCHANGED <<clock, db, handler, pass, told, faults>>

\* Evicted, or its coin was spent by a transaction of another application.
ChainDrops(t) ==
  /\ t \in mempool
  /\ mempool' = mempool \ {t}
  /\ UNCHANGED <<clock, db, accepted, handler, pass, told, faults>>

Tick ==
  /\ clock < MaxClock
  /\ clock' = clock + 1
  /\ UNCHANGED <<db, chain, handler, pass, told, faults>>

-----------------------------------------------------------------------------
Prepare(r) == PrepareRead(r) \/ PreparePrune(r) \/ PrepareSave(r)

Finalize(r) ==
  \/ FinalizeRead(r) \/ FinalizeWorkflow(r)
  \/ SubmitAdmitted(r) \/ SubmitRefused(r)
  \/ SubmitThrows(r) \/ SubmitAnswerLost(r)
  \/ StatusAccepted(r) \/ StatusUnknown(r) \/ SavePending(r)
  \/ RejectWorkflow(r) \/ RejectPrepared(r)
  \/ SaveConfirmed(r) \/ InsertReceipt(r) \/ CleanUp(r)

Reconcile(c) ==
  \/ ScanPending(c) \/ ReadPrepared(c) \/ EndPass(c)
  \/ ReconcileAccepted(c) \/ ReconcileUnknown(c)
  \/ Claim(c) \/ ReconcileInsert(c) \/ ReconcileDelete(c)

Chain == \E t \in Tx : ChainAccepts(t) \/ ChainDrops(t)

Next ==
  \/ \E r \in Request : Prepare(r) \/ Finalize(r) \/ HandlerFails(r)
  \/ \E c \in Replica : Reconcile(c) \/ PassFails(c)
  \/ \E d \in Post : DeletePost(d)
  \/ Chain
  \/ Tick

Spec == Init /\ [][Next]_vars

(***************************************************************************)
(* Fairness.  A request that was started runs on; the server runs the      *)
(* reconciler at start and every 60 s; and a chain that accepted a payment *)
(* does not deny it for ever.  Nothing is assumed of clients, which may    *)
(* never come back, or of the chain, which need not accept anything.  That *)
(* time passes is assumed apart, where a row has to expire.                *)
(***************************************************************************)
Running(r) == Finalize(r) /\ handler[r].pc # "idle"

PaymentFairness ==
  /\ \A r \in Request : WF_vars(Running(r))
  /\ \A c \in Replica : WF_vars(Reconcile(c)) /\ SF_vars(ReconcileAccepted(c))

FairSpec == Spec /\ PaymentFairness

TimePasses == WF_vars(Tick)

-----------------------------------------------------------------------------
(* Safety *)

\* A receipt exists only for a payment that the chain accepted and that this
\* server prepared for that buyer and post: finalizePurchase is reached on chain
\* evidence, whichever handler or pass reaches it and however stale its reads.
ReceiptBacked ==
  \A q \in purchases : q \in accepted /\ \E p \in Prep : issued[p] = q

\* A CONFIRMED workflow is evidence of acceptance: a later finalize request
\* trusts it and writes the receipt without asking the chain.
ConfirmedBacked ==
  \A p \in Prep : workflows[p].state = "CONFIRMED" => issued[p] \in accepted

\* The buyer has the receipt, or there is no post left to unlock.
Settled(p) ==
  /\ issued[p] # NoTx
  /\ issued[p].post \in posts => HasReceipt(issued[p].post, issued[p].buyer)

\* The answers 201 CONFIRMED and 409 PURCHASE_EXISTS are given only to a buyer
\* who has a receipt, unless the creator deleted the post since.
AnswersKept ==
  \A p \in Prep : told[p] \in {"confirmed", "exists"} => Settled(p)

\* At most one reconciler pass is finalizing a workflow at a time, because the
\* claim is one conditional UPDATE: for a client that finalizes a payment by one
\* request at a time.  (A request that deletes the row and another that saves it
\* again would let a second pass claim it.)
SingleClaimant ==
  \A c, d \in Replica :
    /\ pass[c].pc \in {"insert", "delete"} /\ pass[d].pc \in {"insert", "delete"}
    /\ pass[c].id = pass[d].id
    => c = d

\* "Transaction rejected. Nothing was charged." is the answer 422: the payment it
\* speaks of is never accepted afterwards.
RejectedNotCharged ==
  \A p \in Prep : told[p] = "rejected" => issued[p] \notin accepted

\* The reconciler never abandons a payment that the chain has accepted: its
\* prepared record is read without an expiry window.
AcceptedNotAbandoned ==
  [][\A p \in Prep :
       /\ workflows[p].state # "REJECTED" /\ workflows'[p].state = "REJECTED"
       => issued[p] \notin accepted]_vars

-----------------------------------------------------------------------------
(* Liveness, of FairSpec *)

\* A whole batch of unaccepted payments with smaller ids, none of them expired:
\* every pass lists these, and leaves them for a later one.
Crowded(p) ==
  Cardinality({q \in Prep : /\ q < p
                            /\ workflows[q].state = "SUBMITTED"
                            /\ PreparedAlive(q, clock)
                            /\ issued[q] \notin accepted}) >= Batch

\* A submitted payment that the chain has accepted while its prepared row is alive
\* gets its receipt without the client, unless the row expires first or the creator
\* deletes the post.  Only a batch that is crowded for ever can starve it: smaller
\* ids that are accepted, expire or go make way in time.  Time need not pass, so
\* this says that the passes alone get there.
PaidIsReceipted ==
  \A p \in Prep :
    (/\ workflows[p].state = "SUBMITTED"
     /\ issued[p] \in accepted
     /\ PreparedAlive(p, clock))
    ~> (Settled(p) \/ prepared[p] \in 1..clock \/ []Crowded(p))

\* Every in-flight payment is driven to a terminal state as time passes: its
\* workflow row goes.
DrivenToTerminal ==
  TimePasses => \A p \in Prep : workflows[p] # NoWorkflow ~> workflows[p] = NoWorkflow

-----------------------------------------------------------------------------
(* What pay-per-view promises is what this system does. *)

Promise == INSTANCE PaymentPromise

\* Every step of the handlers, the reconcilers and the chain pays once per
\* coin, grants a receipt for an accepted payment, withdraws a post with its
\* receipts, or changes none of the three.
PromiseKept == Promise!Spec

=============================================================================
