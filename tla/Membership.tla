----------------------------- MODULE Membership -----------------------------
(***************************************************************************)
(* Memberships of one creator: the covenant on the chain, the prepare and  *)
(* finalize handlers of its four kinds of steps, the reconciler's passes,  *)
(* the membership tables, and the discovery of memberships on the chain.   *)
(*                                                                         *)
(* A step is an offer, a purchase, a price update or a cancellation.  It   *)
(* is named by the id of the row that prepared it, because submit relays   *)
(* no transaction but the prepared one.  Every step but an offer spends    *)
(* the minter output of an earlier step, and every step but a cancellation *)
(* has a minter output: the steps of a covenant form a chain.              *)
(***************************************************************************)
EXTENDS Integers, FiniteSets

CONSTANTS
  Prep,         \* ids of prepared memberships
  Coin,         \* outputs of the creator's wallet that an offer may spend
  Price,        \* prices of an offer
  NoPrice,      \* absence of a price
  None,         \* absence of an id
  Request,      \* concurrent HTTP requests
  Replica,      \* concurrent reconciler passes
  MaxFaults     \* bound: failures of processes and lost answers in a run

ASSUME NamesDiffer == None \notin Prep \cup Coin /\ Prep \cap Coin = {}
ASSUME NoPriceIsNone == NoPrice \notin Price
ASSUME FaultsAreNatural == MaxFaults \in Nat

VARIABLES
  prepared,   \* table prepared_memberships: the rows that have not expired
  issued,     \* id -> the step prepared under it
  workflows,  \* table membership_workflows: id -> row
  offer,      \* table creator_covenants: the row of the creator
  history,    \* table creator_covenant_history: covenant -> row
  receipts,   \* table membership_purchases
  mempool,    \* steps the node has admitted and not yet accepted
  accepted,   \* steps the chain has accepted
  handler,    \* the state of each HTTP request
  pass,       \* the state of each reconciler pass
  faults      \* failures so far

registry == <<offer, history, receipts>>
db == <<prepared, issued, workflows, registry>>
chain == <<mempool, accepted>>
vars == <<db, chain, handler, pass, faults>>

-----------------------------------------------------------------------------
(* Steps, rows and process states *)

\* The covenant of an offer is named by the offer's own id.
Step == [kind : {"offer", "purchase", "update", "cancel"},
         covenant : Prep \cup {None}, price : Price,
         spends : Prep \cup Coin \cup {None}]

NoStep == [kind |-> "none", covenant |-> None, price |-> NoPrice, spends |-> None]

NoWorkflow == [state |-> "ABSENT", finalized |-> FALSE]

WorkflowRow == [state : {"ABSENT", "SUBMITTED", "CONFIRMED", "REJECTED"},
                finalized : BOOLEAN]

CovenantRow == [status : {"ACTIVE", "CANCELED"}, price : Price]

NoRow == [status |-> "NONE", price |-> NoPrice]

Idle == [pc |-> "idle", id |-> None, step |-> NoStep, seen |-> NoPrice]

HandlerState ==
  [pc : {"idle", "build", "submit", "wait", "verify", "pending",
         "record", "confirm", "clean", "drop", "dropPrepared"},
   id : Prep \cup {None}, step : Step \cup {NoStep},
   seen : Price \cup {NoPrice}]

Resting == [pc |-> "idle", id |-> None, todo |-> {}]

PassState ==
  [pc : {"idle", "next", "status", "claimConfirmed", "claimRejected", "record",
         "delete"},
   id : Prep \cup {None}, todo : SUBSET Prep]

\* Tables, chain and processes hold what the code puts into them: a covenant is never
\* recorded without a price.
TypeOK ==
  /\ prepared \subseteq Prep
  /\ issued \in [Prep -> Step \cup {NoStep}]
  /\ workflows \in [Prep -> WorkflowRow]
  /\ offer \in [covenant : Prep, row : CovenantRow]
               \cup {[covenant |-> None, row |-> NoRow]}
  /\ history \in [Prep -> CovenantRow \cup {NoRow}]
  /\ receipts \subseteq Prep
  /\ mempool \subseteq Prep
  /\ accepted \subseteq Prep
  /\ handler \in [Request -> HandlerState]
  /\ pass \in [Replica -> PassState]
  /\ faults \in Nat

Init ==
  /\ prepared = {}
  /\ issued = [p \in Prep |-> NoStep]
  /\ workflows = [p \in Prep |-> NoWorkflow]
  /\ offer = [covenant |-> None, row |-> NoRow]
  /\ history = [p \in Prep |-> NoRow]
  /\ receipts = {}
  /\ mempool = {}
  /\ accepted = {}
  /\ handler = [r \in Request |-> Idle]
  /\ pass = [c \in Replica |-> Resting]
  /\ faults = 0

Fault == faults < MaxFaults /\ faults' = faults + 1

-----------------------------------------------------------------------------
(* The covenant, membership.sil *)

KindOf(t) == issued[t].kind

CovenantOf(t) == IF KindOf(t) = "offer" THEN t ELSE issued[t].covenant

\* Variant: cancelMembership returns a state that still is a minter.
IsMinterForever(t) == TRUE

\* The first covenant output of a step is a minter, unless the step cancels.
IsMinter(t) == KindOf(t) # "cancel"

Spent(o) == \E u \in accepted : issued[u].spends = o

\* findMinterUtxo: the unspent minter outputs of a covenant at a price.
Minters(c, price) ==
  {t \in accepted : /\ IsMinter(t) /\ CovenantOf(t) = c
                    /\ issued[t].price = price /\ ~ Spent(t)}

\* mintMembership, updateMembership, cancelMembership: the output that is spent
\* is a minter of the covenant, and only an update changes the price.
ContractAllows(t) ==
  KindOf(t) # "offer" =>
    /\ issued[t].spends \in accepted
    /\ IsMinter(issued[t].spends)
    /\ CovenantOf(issued[t].spends) = CovenantOf(t)
    /\ KindOf(t) # "update" => issued[t].price = issued[issued[t].spends].price

\* The node admits a step that the contract allows and that conflicts with none
\* it knows.
Admit(t) ==
  /\ ContractAllows(t)
  /\ \A u \in mempool \cup accepted : issued[u].spends = issued[t].spends => u = t
  /\ mempool' = mempool \cup ({t} \ accepted)
  /\ UNCHANGED accepted

-----------------------------------------------------------------------------
(* The store *)

SaveWorkflow(p, state) == workflows' = [workflows EXCEPT ![p].state = state]

\* Variant: rows that a pass has claimed are not deleted.
DeleteWorkflowUnclaimed(p) ==
  workflows' = [workflows EXCEPT ![p] = IF @.finalized THEN @ ELSE NoWorkflow]

DeleteWorkflow(p) == workflows' = [workflows EXCEPT ![p] = NoWorkflow]

\* Variant: a prepared step carries no price.
ActiveRowUnpriced(p) == [status |-> "ACTIVE", price |-> NoPrice]

ActiveRow(p) == [status |-> "ACTIVE", price |-> issued[p].price]

\* finalizeOffer: an offer is active, and nothing is written; or the row of the
\* creator is replaced.  A row of the history that exists already is kept: its
\* INSERT fails, and the transaction is committed all the same.
FinalizeOffer(p) ==
  /\ IF offer.row.status = "ACTIVE"
       THEN UNCHANGED <<offer, history>>
       ELSE /\ offer' = [covenant |-> p, row |-> ActiveRow(p)]
            /\ history' = [history EXCEPT ![p] = IF @ = NoRow THEN ActiveRow(p) ELSE @]
  /\ UNCHANGED receipts

OfferStands(c) == offer.covenant = c /\ offer.row.status = "ACTIVE"

\* finalizePriceUpdate: the row of the covenant, unless it is canceled.
FinalizePriceUpdate(p) ==
  LET c == CovenantOf(p) IN
  /\ IF OfferStands(c)
       THEN /\ offer' = [offer EXCEPT !.row = ActiveRow(p)]
            /\ history' = [history EXCEPT ![c] = IF @ = NoRow THEN @ ELSE ActiveRow(p)]
       ELSE UNCHANGED <<offer, history>>
  /\ UNCHANGED receipts

\* finalizeCancellation
FinalizeCancellation(p) ==
  LET c == CovenantOf(p) IN
  /\ IF OfferStands(c)
       THEN /\ offer' = [offer EXCEPT !.row.status = "CANCELED"]
            /\ history' = [history EXCEPT ![c] =
                             IF @ = NoRow THEN @ ELSE [@ EXCEPT !.status = "CANCELED"]]
       ELSE UNCHANGED <<offer, history>>
  /\ UNCHANGED receipts

\* finalizeMembershipPurchase: a receipt that exists already is kept.
FinalizeMembershipPurchase(p) ==
  receipts' = receipts \cup {p} /\ UNCHANGED <<offer, history>>

\* Each of the four is one transaction that deletes the prepared row as well,
\* whatever else it does.
Finalize(p) ==
  /\ \/ KindOf(p) = "offer" /\ FinalizeOffer(p)
     \/ KindOf(p) = "update" /\ FinalizePriceUpdate(p)
     \/ KindOf(p) = "cancel" /\ FinalizeCancellation(p)
     \/ KindOf(p) = "purchase" /\ FinalizeMembershipPurchase(p)
  /\ prepared' = prepared \ {p}
  /\ UNCHANGED <<issued, workflows>>

-----------------------------------------------------------------------------
(* The prepare handlers *)

Proceed(r, state) == handler' = [handler EXCEPT ![r] = state]

\* The row of the creator is read: an offer needs that none stands, the other
\* steps need that one does.
PrepareRead(r) ==
  /\ handler[r].pc = "idle"
  /\ \/ /\ offer.row.status # "ACTIVE"
        /\ \E price \in Price :
             Proceed(r, [Idle EXCEPT !.pc = "build",
                           !.step = [NoStep EXCEPT !.kind = "offer", !.price = price]])
     \/ /\ offer.row.status = "ACTIVE"
        /\ \E kind \in {"purchase", "update", "cancel"}, price \in Price :
             /\ kind # "update" => price = offer.row.price
             /\ Proceed(r, [Idle EXCEPT !.pc = "build", !.seen = offer.row.price,
                              !.step = [kind |-> kind, covenant |-> offer.covenant,
                                        price |-> price, spends |-> None]])
  /\ UNCHANGED <<db, chain, pass, faults>>

\* What prepareOffer, prepareMint, preparePriceUpdate and prepareCancellation can
\* build the transaction on: the outputs the chain has now.
Spendable(step, seen) ==
  IF step.kind = "offer" THEN {k \in Coin : ~ Spent(k)} ELSE Minters(step.covenant, seen)

\* 201.  The read of the chain and the insert are one step, as nobody knows the id
\* before the answer.  The prune in between removes rows that have expired.
PrepareSave(r) ==
  /\ handler[r].pc = "build"
  /\ \E o \in Spendable(handler[r].step, handler[r].seen), p \in Prep :
       /\ issued[p] = NoStep
       /\ issued' = [issued EXCEPT ![p] = [handler[r].step EXCEPT !.spends = o]]
       /\ prepared' = prepared \cup {p}
  /\ Proceed(r, Idle)
  /\ UNCHANGED <<workflows, registry, chain, pass, faults>>

\* No such output (409), or not enough funds in the wallet (422).
PrepareRefused(r) ==
  /\ handler[r].pc = "build"
  /\ Proceed(r, Idle)
  /\ UNCHANGED <<db, chain, pass, faults>>

-----------------------------------------------------------------------------
(* The finalize handlers, and KaspaMembershipGateway.submit *)

\* The row must be alive, of the handler's kind and the requester's; otherwise
\* the answer is 404.
FinalizeRead(r) ==
  /\ handler[r].pc = "idle"
  /\ \E p \in prepared : Proceed(r, [Idle EXCEPT !.pc = "submit", !.id = p])
  /\ UNCHANGED <<db, chain, pass, faults>>

SubmitAdmitted(r) ==
  /\ handler[r].pc = "submit"
  /\ Admit(handler[r].id)
  /\ Proceed(r, [handler[r] EXCEPT !.pc = "wait"])
  /\ UNCHANGED <<db, pass, faults>>

\* The body is not the prepared transaction with its signatures, or the relay
\* fails.
SubmitRefused(r) ==
  /\ handler[r].pc = "submit"
  /\ Proceed(r, [handler[r] EXCEPT !.pc = "drop"])
  /\ UNCHANGED <<db, chain, pass, faults>>

Confirmed(r) ==
  Proceed(r, [handler[r] EXCEPT !.pc = IF KindOf(handler[r].id) = "purchase"
                                         THEN "verify" ELSE "record"])

\* waitForTransaction finds the step, and the chain has accepted it.
WaitAccepted(r) ==
  /\ handler[r].pc = "wait"
  /\ handler[r].id \in accepted
  /\ Confirmed(r)
  /\ UNCHANGED <<db, chain, pass, faults>>

\* It finds the step, not accepted yet.
WaitPending(r) ==
  /\ handler[r].pc = "wait"
  /\ Proceed(r, [handler[r] EXCEPT !.pc = "pending"])
  /\ UNCHANGED <<db, chain, pass, faults>>

\* It does not find the step in all its attempts; or the answer of the relay was lost.
\* The covenant has moved, the gateway says.
WaitTimesOut(r) ==
  /\ handler[r].pc = "wait"
  /\ Proceed(r, [handler[r] EXCEPT !.pc = "drop"])
  /\ UNCHANGED <<db, chain, pass, faults>>

\* A purchase is verified by its member output, which the index of unspent outputs
\* may not know yet.
Verify(r) ==
  /\ handler[r].pc = "verify"
  /\ \/ /\ handler[r].id \in accepted
        /\ Proceed(r, [handler[r] EXCEPT !.pc = "record"])
     \/ Proceed(r, [handler[r] EXCEPT !.pc = "drop"])
  /\ UNCHANGED <<db, chain, pass, faults>>

\* 202
SavePending(r) ==
  /\ handler[r].pc = "pending"
  /\ SaveWorkflow(handler[r].id, "SUBMITTED")
  /\ Proceed(r, Idle)
  /\ UNCHANGED <<prepared, issued, registry, chain, pass, faults>>

Drop(r) ==
  /\ handler[r].pc = "drop"
  /\ DeleteWorkflow(handler[r].id)
  /\ Proceed(r, [handler[r] EXCEPT !.pc = "dropPrepared"])
  /\ UNCHANGED <<prepared, issued, registry, chain, pass, faults>>

\* 409 MEMBERSHIP_OFFER_STALE, or 422
DropPrepared(r) ==
  /\ handler[r].pc = "dropPrepared"
  /\ prepared' = prepared \ {handler[r].id}
  /\ Proceed(r, Idle)
  /\ UNCHANGED <<issued, workflows, registry, chain, pass, faults>>

\* The handlers of offers and purchases save the workflow before they delete it.
Record(r) ==
  /\ handler[r].pc = "record"
  /\ Finalize(handler[r].id)
  /\ Proceed(r, [handler[r] EXCEPT !.pc =
                   IF KindOf(handler[r].id) \in {"offer", "purchase"}
                     THEN "confirm" ELSE "clean"])
  /\ UNCHANGED <<chain, pass, faults>>

SaveConfirmed(r) ==
  /\ handler[r].pc = "confirm"
  /\ SaveWorkflow(handler[r].id, "CONFIRMED")
  /\ Proceed(r, [handler[r] EXCEPT !.pc = "clean"])
  /\ UNCHANGED <<prepared, issued, registry, chain, pass, faults>>

\* 201, or 409 if there was nothing to record
CleanUp(r) ==
  /\ handler[r].pc = "clean"
  /\ DeleteWorkflow(handler[r].id)
  /\ Proceed(r, Idle)
  /\ UNCHANGED <<prepared, issued, registry, chain, pass, faults>>

-----------------------------------------------------------------------------
(* WorkflowReconciler.reconcileMemberships *)

Advance(c, state) == pass' = [pass EXCEPT ![c] = state]

\* The next workflow of the list, if there is one.
Continue(c) ==
  Advance(c, IF pass[c].todo = {} THEN Resting
                                  ELSE [pass[c] EXCEPT !.pc = "next", !.id = None])

ScanPending(c) ==
  LET pending == {p \in Prep : workflows[p].state = "SUBMITTED"} IN
  /\ pass[c].pc = "idle"
  /\ pending # {}
  /\ Advance(c, [Resting EXCEPT !.pc = "next", !.todo = pending])
  /\ UNCHANGED <<db, chain, handler, faults>>

\* The next workflow, in the order of its random id, and its prepared row.
ReadPrepared(c) ==
  /\ pass[c].pc = "next"
  /\ \E p \in pass[c].todo :
       Advance(c, [pass[c] EXCEPT
                     !.pc = IF p \in prepared THEN "status" ELSE "claimRejected",
                     !.id = p, !.todo = @ \ {p}])
  /\ UNCHANGED <<db, chain, handler, faults>>

\* Variant: membershipAccepted does not look at is_accepted.
ReconcileKnown(c) ==
  /\ pass[c].pc = "status"
  /\ Advance(c, [pass[c] EXCEPT !.pc = "claimConfirmed"])
  /\ UNCHANGED <<db, chain, handler, faults>>

\* membershipAccepted: the gateway's status, or the verifier's for a purchase.
ReconcileAccepted(c) ==
  /\ pass[c].pc = "status"
  /\ pass[c].id \in accepted
  /\ Advance(c, [pass[c] EXCEPT !.pc = "claimConfirmed"])
  /\ UNCHANGED <<db, chain, handler, faults>>

\* Not accepted yet, or not verified.  That the workflow is too old by now cannot
\* be: its prepared row is alive, which is for a shorter time.
ReconcileUnknown(c) ==
  /\ pass[c].pc = "status"
  /\ Continue(c)
  /\ UNCHANGED <<db, chain, handler, faults>>

\* The gateway takes a transaction the indexer does not know for a rejected one.
ReconcileMissing(c) ==
  /\ pass[c].pc = "status"
  /\ KindOf(pass[c].id) # "purchase"
  /\ pass[c].id \notin accepted
  /\ Advance(c, [pass[c] EXCEPT !.pc = "claimRejected"])
  /\ UNCHANGED <<db, chain, handler, faults>>

\* claimMembershipWorkflowTerminal: one UPDATE ... WHERE finalized_at IS NULL.
ClaimTerminal(c, state) ==
  LET row == workflows[pass[c].id] IN
  IF row # NoWorkflow /\ ~ row.finalized
    THEN /\ workflows' = [workflows EXCEPT ![pass[c].id] =
                            [state |-> state, finalized |-> TRUE]]
         /\ Advance(c, [pass[c] EXCEPT !.pc = IF state = "CONFIRMED"
                                                THEN "record" ELSE "delete"])
    ELSE /\ UNCHANGED workflows
         /\ Continue(c)

Claim(c) ==
  /\ \/ pass[c].pc = "claimConfirmed" /\ ClaimTerminal(c, "CONFIRMED")
     \/ pass[c].pc = "claimRejected" /\ ClaimTerminal(c, "REJECTED")
  /\ UNCHANGED <<prepared, issued, registry, chain, handler, faults>>

ReconcileRecord(c) ==
  /\ pass[c].pc = "record"
  /\ Finalize(pass[c].id)
  /\ Advance(c, [pass[c] EXCEPT !.pc = "delete"])
  /\ UNCHANGED <<chain, handler, faults>>

ReconcileDelete(c) ==
  /\ pass[c].pc = "delete"
  /\ DeleteWorkflow(pass[c].id)
  /\ Continue(c)
  /\ UNCHANGED <<prepared, issued, registry, chain, handler, faults>>

-----------------------------------------------------------------------------
(* The environment *)

\* MembershipAccess.isActive: a membership that is found on the chain is recorded
\* as well.  It is looked for among the covenants that were recorded, or among all
\* if none was.
Discover(t) ==
  /\ t \in accepted \ receipts
  /\ KindOf(t) = "purchase"
  /\ history[CovenantOf(t)] # NoRow \/ \A c \in Prep : history[c] = NoRow
  /\ receipts' = receipts \cup {t}
  /\ UNCHANGED <<prepared, issued, workflows, offer, history, chain, handler,
                 pass, faults>>

\* A request fails at any await: the process stops, or a call throws.
HandlerFails(r) ==
  /\ handler[r].pc # "idle"
  /\ Fault
  /\ Proceed(r, Idle)
  /\ UNCHANGED <<db, chain, pass>>

\* A throw abandons the workflow at hand and the pass goes on; when the process
\* stops, the pass ends with it.
PassFails(c) ==
  /\ pass[c].pc # "idle"
  /\ Fault
  /\ \/ pass[c].pc # "next" /\ Continue(c)
     \/ Advance(c, Resting)
  /\ UNCHANGED <<db, chain, handler>>

ChainAccepts(t) ==
  /\ t \in mempool
  /\ mempool' = {u \in mempool : issued[u].spends # issued[t].spends}
  /\ accepted' = accepted \cup {t}
  /\ UNCHANGED <<db, handler, pass, faults>>

\* Evicted, or another of its inputs was spent elsewhere.
ChainDrops(t) ==
  /\ t \in mempool
  /\ mempool' = mempool \ {t}
  /\ UNCHANGED <<db, accepted, handler, pass, faults>>

\* PREPARED_TTL_MS have passed since the row was prepared.
Expire(p) ==
  /\ p \in prepared
  /\ prepared' = prepared \ {p}
  /\ UNCHANGED <<issued, workflows, registry, chain, handler, pass, faults>>

-----------------------------------------------------------------------------
Prepare(r) ==
  \/ PrepareRead(r) \/ PrepareSave(r) \/ PrepareRefused(r)

FinalizeStep(r) ==
  \/ FinalizeRead(r) \/ SubmitAdmitted(r) \/ SubmitRefused(r)
  \/ WaitAccepted(r) \/ WaitPending(r) \/ WaitTimesOut(r) \/ Verify(r)
  \/ SavePending(r) \/ Drop(r) \/ DropPrepared(r)
  \/ Record(r) \/ SaveConfirmed(r) \/ CleanUp(r)

Reconcile(c) ==
  \/ ScanPending(c) \/ ReadPrepared(c)
  \/ ReconcileAccepted(c) \/ ReconcileUnknown(c) \/ ReconcileMissing(c)
  \/ Claim(c) \/ ReconcileRecord(c) \/ ReconcileDelete(c)

Next ==
  \/ \E r \in Request : Prepare(r) \/ FinalizeStep(r) \/ HandlerFails(r)
  \/ \E c \in Replica : Reconcile(c) \/ PassFails(c)
  \/ \E t \in Prep : Expire(t) \/ Discover(t) \/ ChainAccepts(t) \/ ChainDrops(t)

Spec == Init /\ [][Next]_vars

-----------------------------------------------------------------------------
(* Safety *)

\* A recorded covenant was opened on the chain, at a price that it had there, and
\* is recorded as canceled only if it is.
BackedRow(c, row) ==
  row # NoRow =>
    /\ c \in accepted /\ KindOf(c) = "offer"
    /\ \E t \in accepted : /\ KindOf(t) \in {"offer", "update"}
                           /\ CovenantOf(t) = c /\ issued[t].price = row.price
    /\ row.status = "CANCELED" =>
         \E t \in accepted : KindOf(t) = "cancel" /\ CovenantOf(t) = c

\* Both tables of covenants say only what the chain has said, in whatever order
\* handlers and passes record it and however stale their reads are.
RegistryBacked ==
  /\ BackedRow(offer.covenant, offer.row)
  /\ \A c \in Prep : BackedRow(c, history[c])

\* A pass is about to delete the workflow, or a handler is.
Held(p) ==
  \/ \E r \in Request : handler[r].id = p /\ handler[r].pc = "clean"
  \/ \E c \in Replica : pass[c].id = p /\ pass[c].pc \in {"record", "delete"}

\* A workflow that no pass lists any more, claimed or ended, is in the hands of the
\* pass that claimed it or of the handler that ended it, unless one of them failed:
\* races alone leave no workflow behind.
StuckByFailureOnly ==
  faults = 0 =>
    \A p \in Prep :
      workflows[p].finalized \/ workflows[p].state \in {"CONFIRMED", "REJECTED"} => Held(p)

Quiet ==
  /\ mempool = {}
  /\ \A r \in Request : handler[r].pc = "idle"
  /\ \A c \in Replica : pass[c].pc = "idle"
  /\ \A p \in Prep : workflows[p].state # "SUBMITTED"

\* "Another submission against the refreshed state can succeed": when nothing is in
\* flight, the offer that is recorded as active can be spent on the chain.
OfferIsLive ==
  Quiet /\ offer.row.status = "ACTIVE" => Minters(offer.covenant, offer.row.price) # {}

-----------------------------------------------------------------------------
(* What memberships promise is what this system does. *)

\* The offer of a covenant, as the last step on the chain left it.
OfferOf(c) ==
  LET last == CHOOSE t \in accepted : CovenantOf(t) = c /\ ~ Spent(t) IN
  IF c \notin accepted \/ KindOf(c) # "offer" THEN [status |-> "absent"]
  ELSE IF KindOf(last) = "cancel" THEN [status |-> "canceled"]
  ELSE [status |-> "open", price |-> issued[last].price]

Purchases == {t \in accepted : KindOf(t) = "purchase"}

Promise == INSTANCE MembershipOffer WITH
  Offer <- Prep, Buy <- Prep,
  offers <- [c \in Prep |-> OfferOf(c)],
  members <- {[buy |-> t, offer |-> CovenantOf(t), price |-> issued[t].price]
                : t \in Purchases},
  recorded <- receipts

\* Steps that were prepared on the same output and race to the chain, stale rows,
\* retries and failures included, opening, repricing, joining and canceling are
\* atomic: a membership is never bought from a canceled offer or at another price.
PromiseKept == Promise!Spec

=============================================================================
