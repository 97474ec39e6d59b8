-------------------------- MODULE Membership_proofs --------------------------
(***************************************************************************)
(* Proofs about Membership, for all ids, prices, coins, requests and       *)
(* replicas.                                                               *)
(***************************************************************************)
EXTENDS Membership, TLAPS

\* An id that has a row, or that the node or the chain knows, was issued: what was
\* prepared under it stays what it is.
StepsIssued == \A p \in prepared \cup mempool \cup accepted : issued[p] \in Step

\* A request past its first read holds a step, and one that will record a step holds
\* one that is accepted, however long ago it learned so.
HandlersHold ==
  \A r \in Request :
    /\ handler[r].pc = "build" => handler[r].step \in Step
    /\ handler[r].pc \notin {"idle", "build"} =>
         handler[r].id \in Prep /\ issued[handler[r].id] \in Step
    /\ handler[r].pc \in {"verify", "record"} => handler[r].id \in accepted

\* So does a pass.
PassesHold ==
  \A c \in Replica :
    /\ pass[c].pc \notin {"idle", "next"} => pass[c].id \in Prep
    /\ pass[c].pc \in {"claimConfirmed", "record"} => pass[c].id \in accepted

\* The inductive invariant.
IInv ==
  /\ TypeOK
  /\ StepsIssued
  /\ HandlersHold
  /\ PassesHold
  /\ RegistryBacked

OfferRow ==
  [covenant : Prep, row : CovenantRow] \cup {[covenant |-> None, row |-> NoRow]}

-----------------------------------------------------------------------------
(* The operations of the store and of the node *)

\* Recording an accepted step keeps the types of the tables.
LEMMA FinalizeType ==
  ASSUME TypeOK, NEW p \in Prep, issued[p] \in Step, Finalize(p)
  PROVE  /\ prepared' \subseteq prepared
         /\ offer' \in OfferRow
         /\ history' \in [Prep -> CovenantRow \cup {NoRow}]
         /\ receipts' \subseteq Prep
         /\ issued' = issued /\ workflows' = workflows
<1>1. ActiveRow(p) \in CovenantRow
  BY DEF ActiveRow, CovenantRow, Step
<1>2. prepared' \subseteq prepared /\ issued' = issued /\ workflows' = workflows
  BY DEF Finalize
<1>3. CASE FinalizeOffer(p)
  BY <1>1, <1>2, <1>3 DEF FinalizeOffer, TypeOK, OfferRow
<1>4. CASE FinalizePriceUpdate(p)
  BY <1>1, <1>2, <1>4 DEF FinalizePriceUpdate, OfferStands, NoRow, TypeOK, OfferRow
<1>5. CASE FinalizeCancellation(p)
  BY <1>2, <1>5 DEF FinalizeCancellation, OfferStands, NoRow, CovenantRow, TypeOK, OfferRow
<1>6. CASE FinalizeMembershipPurchase(p)
  BY <1>2, <1>6 DEF FinalizeMembershipPurchase, TypeOK, OfferRow
<1> QED
  BY <1>3, <1>4, <1>5, <1>6 DEF Finalize

\* Recording an accepted step keeps both tables backed.
LEMMA FinalizeBacked ==
  ASSUME TypeOK, RegistryBacked, NEW p \in Prep, p \in accepted, issued[p] \in Step,
         Finalize(p), UNCHANGED chain
  PROVE  RegistryBacked'
<1> DEFINE c == CovenantOf(p)
<1>0. issued' = issued /\ accepted' = accepted
  BY DEF Finalize, chain
<1>1. \A d, row : BackedRow(d, row)' <=> BackedRow(d, row)
  BY <1>0 DEF BackedRow, KindOf, CovenantOf
<1>2. CASE KindOf(p) = "offer" /\ FinalizeOffer(p)
  <2>1. BackedRow(p, ActiveRow(p))
    BY <1>2 DEF BackedRow, ActiveRow, KindOf, CovenantOf
  <2> QED
    BY <1>1, <1>2, <2>1 DEF FinalizeOffer, RegistryBacked, TypeOK
<1>3. CASE KindOf(p) = "update" /\ FinalizePriceUpdate(p)
  <2>1. ASSUME NEW row, row # NoRow, BackedRow(c, row) PROVE BackedRow(c, ActiveRow(p))
    BY <1>3, <2>1 DEF BackedRow, ActiveRow, KindOf, CovenantOf
  <2> QED
    BY <1>1, <1>3, <2>1
    DEF FinalizePriceUpdate, OfferStands, NoRow, RegistryBacked, TypeOK, OfferRow
<1>4. CASE KindOf(p) = "cancel" /\ FinalizeCancellation(p)
  <2>1. ASSUME NEW row, row \in CovenantRow, BackedRow(c, row)
        PROVE  BackedRow(c, [row EXCEPT !.status = "CANCELED"])
    BY <1>4, <2>1 DEF BackedRow, NoRow, CovenantRow, KindOf, CovenantOf
  <2> QED
    BY <1>1, <1>4, <2>1
    DEF FinalizeCancellation, OfferStands, NoRow, CovenantRow, RegistryBacked, TypeOK
<1>5. CASE KindOf(p) = "purchase" /\ FinalizeMembershipPurchase(p)
  BY <1>1, <1>5 DEF FinalizeMembershipPurchase, RegistryBacked
<1> QED
  BY <1>2, <1>3, <1>4, <1>5 DEF Finalize

-----------------------------------------------------------------------------
(* The invariant is inductive. *)

\* Before anything is prepared it holds.
LEMMA InitIInv == Init => IInv
  BY FaultsAreNatural
  DEF Init, IInv, TypeOK, StepsIssued, HandlersHold, PassesHold, RegistryBacked,
      BackedRow, Idle, Resting, NoWorkflow, WorkflowRow, HandlerState, PassState

\* What a prepare remembers of its first read is a step.
LEMMA PrepareReadStep ==
  ASSUME TypeOK, NEW r \in Request, PrepareRead(r)
  PROVE  \E state \in HandlerState :
           state.pc = "build" /\ state.step \in Step /\ Proceed(r, state)
<1>1. CASE offer.row.status # "ACTIVE"
  <2>1. PICK price \in Price :
          Proceed(r, [Idle EXCEPT !.pc = "build",
                        !.step = [NoStep EXCEPT !.kind = "offer", !.price = price]])
    BY <1>1 DEF PrepareRead
  <2>2. [NoStep EXCEPT !.kind = "offer", !.price = price] \in Step
    BY DEF NoStep, Step
  <2> QED
    BY <2>1, <2>2 DEF Idle, HandlerState
<1>2. CASE offer.row.status = "ACTIVE"
  <2>1. offer.covenant \in Prep /\ offer.row.price \in Price
    BY <1>2 DEF TypeOK, CovenantRow, NoRow
  <2>2. PICK kind \in {"purchase", "update", "cancel"}, price \in Price :
          Proceed(r, [Idle EXCEPT !.pc = "build", !.seen = offer.row.price,
                        !.step = [kind |-> kind, covenant |-> offer.covenant,
                                  price |-> price, spends |-> None]])
    BY <1>2 DEF PrepareRead
  <2>3. [kind |-> kind, covenant |-> offer.covenant, price |-> price,
         spends |-> None] \in Step
    BY <2>1 DEF Step
  <2> QED
    BY <2>1, <2>2, <2>3 DEF Idle, HandlerState
<1> QED
  BY <1>1, <1>2

\* A pass that goes on to the next workflow, and one that ends, keep their type.
LEMMA PassType ==
  ASSUME TypeOK, NEW c \in Replica, Continue(c) \/ Advance(c, Resting)
  PROVE  pass' \in [Replica -> PassState]
<1>1. Resting \in PassState
  BY DEF Resting, PassState
<1>2. [pass[c] EXCEPT !.pc = "next", !.id = None] \in PassState
  BY DEF TypeOK, PassState
<1>3. PICK state \in PassState : Advance(c, state)
  <2>1. CASE Continue(c)
    BY <1>1, <1>2, <2>1 DEF Continue
  <2>2. CASE Advance(c, Resting)
    BY <1>1, <2>2
  <2> QED
    BY <2>1, <2>2
<1> QED
  BY <1>3 DEF Advance, TypeOK

\* Tables, processes and chain keep their types, and issued steps stay issued.
LEMMA TypeStep == IInv /\ [Next]_vars => TypeOK' /\ StepsIssued'
<1> SUFFICES ASSUME IInv, [Next]_vars PROVE TypeOK' /\ StepsIssued'
  OBVIOUS
<1>0. TypeOK /\ StepsIssued /\ HandlersHold /\ PassesHold
  BY DEF IInv
<1> USE <1>0 DEF TypeOK, StepsIssued
<1>1. ASSUME NEW r \in Request, Prepare(r) PROVE TypeOK' /\ StepsIssued'
  <2>1. CASE PrepareRead(r)
    <3>1. PICK state \in HandlerState : Proceed(r, state)
      BY <2>1, PrepareReadStep
    <3> QED
      BY <2>1, <3>1 DEF PrepareRead, Proceed, db, registry, chain
  <2>2. CASE PrepareSave(r)
    <3>1. PICK o \in Spendable(handler[r].step, handler[r].seen), p \in Prep :
            /\ issued[p] = NoStep
            /\ issued' = [issued EXCEPT ![p] = [handler[r].step EXCEPT !.spends = o]]
            /\ prepared' = prepared \cup {p}
      BY <2>2 DEF PrepareSave
    <3>2. o \in Prep \cup Coin
      BY DEF Spendable, Minters
    <3>3. [handler[r].step EXCEPT !.spends = o] \in Step
      BY <2>2, <3>2 DEF PrepareSave, HandlersHold, Step
    <3>4. handler' \in [Request -> HandlerState]
      BY <2>2 DEF PrepareSave, Proceed, Idle, HandlerState
    <3> QED
      BY <2>2, <3>1, <3>3, <3>4 DEF PrepareSave, registry, chain
  <2>3. CASE PrepareRefused(r)
    BY <2>3 DEF PrepareRefused, Proceed, Idle, HandlerState, db, registry, chain
  <2> QED
    BY <1>1, <2>1, <2>2, <2>3 DEF Prepare
<1>2. ASSUME NEW r \in Request, FinalizeStep(r) PROVE TypeOK' /\ StepsIssued'
  <2>1. CASE FinalizeRead(r)
    <3>1. PICK p \in prepared : Proceed(r, [Idle EXCEPT !.pc = "submit", !.id = p])
      BY <2>1 DEF FinalizeRead
    <3>2. [Idle EXCEPT !.pc = "submit", !.id = p] \in HandlerState
      BY DEF Idle, HandlerState
    <3> QED
      BY <2>1, <3>1, <3>2 DEF FinalizeRead, Proceed, db, registry, chain
  <2>2. CASE SubmitAdmitted(r)
    BY <2>2 DEF SubmitAdmitted, Admit, HandlersHold, Proceed, HandlerState, db, registry
  <2>3. CASE SubmitRefused(r) \/ WaitAccepted(r) \/ WaitPending(r) \/ WaitTimesOut(r)
               \/ Verify(r)
    BY <2>3 DEF SubmitRefused, WaitAccepted, WaitPending, WaitTimesOut, Verify,
       Confirmed, Proceed, HandlerState, db, registry, chain
  <2>4. CASE SavePending(r) \/ Drop(r) \/ SaveConfirmed(r) \/ CleanUp(r)
    <3>1. workflows' \in [Prep -> WorkflowRow]
      <4>1. CASE SavePending(r) \/ SaveConfirmed(r)
        <5>1. PICK state \in {"SUBMITTED", "CONFIRMED"} : SaveWorkflow(handler[r].id, state)
          BY <4>1 DEF SavePending, SaveConfirmed
        <5> QED
          BY <5>1 DEF SaveWorkflow, WorkflowRow
      <4>2. CASE Drop(r) \/ CleanUp(r)
        <5>1. DeleteWorkflow(handler[r].id)
          BY <4>2 DEF Drop, CleanUp
        <5> QED
          BY <5>1 DEF DeleteWorkflow, NoWorkflow, WorkflowRow
      <4> QED
        BY <2>4, <4>1, <4>2
    <3>2. handler' \in [Request -> HandlerState]
      BY <2>4 DEF SavePending, Drop, SaveConfirmed, CleanUp, Proceed, Idle,
         HandlerState
    <3> QED
      BY <2>4, <3>1, <3>2
      DEF SavePending, Drop, SaveConfirmed, CleanUp, registry, chain
  <2>5. CASE DropPrepared(r)
    BY <2>5 DEF DropPrepared, Proceed, Idle, HandlerState, registry, chain
  <2>6. CASE Record(r)
    <3>1. handler[r].id \in Prep /\ issued[handler[r].id] \in Step
      BY <2>6 DEF Record, HandlersHold
    <3>2. handler' \in [Request -> HandlerState]
      BY <2>6 DEF Record, Proceed, HandlerState
    <3> QED
      BY <2>6, <3>1, <3>2, FinalizeType DEF Record, OfferRow, chain
  <2> QED
    BY <1>2, <2>1, <2>2, <2>3, <2>4, <2>5, <2>6 DEF FinalizeStep
<1>3. ASSUME NEW r \in Request, HandlerFails(r) PROVE TypeOK' /\ StepsIssued'
  BY <1>3, FaultsAreNatural
  DEF HandlerFails, Fault, Proceed, Idle, HandlerState, db, registry, chain
<1>4. ASSUME NEW c \in Replica, Reconcile(c) PROVE TypeOK' /\ StepsIssued'
  <2>1. CASE ScanPending(c)
    BY <2>1 DEF ScanPending, Advance, Resting, PassState, db, registry, chain
  <2>2. CASE ReadPrepared(c)
    <3>1. pass' \in [Replica -> PassState]
      <4>1. PICK p \in pass[c].todo, pc \in {"status", "claimRejected"} :
              Advance(c, [pass[c] EXCEPT !.pc = pc, !.id = p, !.todo = @ \ {p}])
        BY <2>2 DEF ReadPrepared
      <4>2. [pass[c] EXCEPT !.pc = pc, !.id = p, !.todo = @ \ {p}] \in PassState
        BY DEF PassState
      <4> QED
        BY <4>1, <4>2 DEF Advance
    <3> QED
      BY <2>2, <3>1 DEF ReadPrepared, db, registry, chain
  <2>3. CASE ReconcileAccepted(c) \/ ReconcileUnknown(c) \/ ReconcileMissing(c)
    <3>1. pass' \in [Replica -> PassState]
      BY <2>3, PassType
      DEF ReconcileAccepted, ReconcileUnknown, ReconcileMissing, Advance, PassState
    <3> QED
      BY <2>3, <3>1
      DEF ReconcileAccepted, ReconcileUnknown, ReconcileMissing, db, registry, chain
  <2>4. CASE ReconcileRecord(c)
    <3>1. pass[c].id \in Prep /\ issued[pass[c].id] \in Step
      BY <2>4 DEF ReconcileRecord, PassesHold
    <3>2. pass' \in [Replica -> PassState]
      BY <2>4 DEF ReconcileRecord, Advance, PassState
    <3> QED
      BY <2>4, <3>1, <3>2, FinalizeType DEF ReconcileRecord, OfferRow, chain
  <2>5. CASE ReconcileDelete(c)
    <3>1. workflows' \in [Prep -> WorkflowRow]
      BY <2>5 DEF ReconcileDelete, DeleteWorkflow, NoWorkflow, WorkflowRow
    <3> QED
      BY <2>5, <3>1, PassType DEF ReconcileDelete, registry, chain
  <2>6. CASE Claim(c)
    <3>1. pass' \in [Replica -> PassState]
      BY <2>6, PassType DEF Claim, ClaimTerminal, Advance, PassState
    <3>2. workflows' \in [Prep -> WorkflowRow]
      <4>1. PICK state \in {"CONFIRMED", "REJECTED"} : ClaimTerminal(c, state)
        BY <2>6 DEF Claim
      <4>2. [state |-> state, finalized |-> TRUE] \in WorkflowRow
        BY DEF WorkflowRow
      <4> QED
        BY <4>1, <4>2 DEF ClaimTerminal
    <3> QED
      BY <2>6, <3>1, <3>2 DEF Claim, registry, chain
  <2> QED
    BY <1>4, <2>1, <2>2, <2>3, <2>4, <2>5, <2>6 DEF Reconcile
<1>5. ASSUME NEW c \in Replica, PassFails(c) PROVE TypeOK' /\ StepsIssued'
  <2>1. pass' \in [Replica -> PassState]
    BY <1>5, PassType DEF PassFails
  <2> QED
    BY <1>5, <2>1, FaultsAreNatural DEF PassFails, Fault, db, registry, chain
<1>6. ASSUME NEW t \in Prep, Expire(t) \/ Discover(t) \/ ChainAccepts(t) \/ ChainDrops(t)
      PROVE  TypeOK' /\ StepsIssued'
  BY <1>6 DEF Expire, Discover, ChainAccepts, ChainDrops, db, registry, chain
<1>7. CASE UNCHANGED vars
  BY <1>7 DEF vars, db, registry, chain
<1> QED
  BY <1>1, <1>2, <1>3, <1>4, <1>5, <1>6, <1>7 DEF Next

\* The chain only grows, and an issued step stays what it is.
LEMMA ChainGrows ==
  IInv /\ [Next]_vars =>
    /\ accepted \subseteq accepted'
    /\ \A p \in Prep : issued[p] \in Step => issued'[p] = issued[p]
<1> SUFFICES ASSUME IInv, [Next]_vars
             PROVE  /\ accepted \subseteq accepted'
                    /\ \A p \in Prep : issued[p] \in Step => issued'[p] = issued[p]
  OBVIOUS
<1>0. issued \in [Prep -> Step \cup {NoStep}] /\ NoStep \notin Step
  BY NoPriceIsNone DEF IInv, TypeOK, NoStep, Step
<1>1. ASSUME NEW r \in Request, Prepare(r)
      PROVE  accepted' = accepted /\ \A p \in Prep : issued[p] \in Step => issued'[p] = issued[p]
  BY <1>0, <1>1 DEF Prepare, PrepareRead, PrepareSave, PrepareRefused, db, chain
<1>2. ASSUME NEW r \in Request, FinalizeStep(r) \/ HandlerFails(r)
      PROVE  accepted' = accepted /\ issued' = issued
  <2>1. CASE Record(r)
    BY <2>1 DEF Record, Finalize, chain
  <2> QED
    BY <1>2, <2>1 DEF FinalizeStep, FinalizeRead, SubmitAdmitted, Admit, SubmitRefused,
       WaitAccepted, WaitPending, WaitTimesOut, Verify, SavePending, Drop, DropPrepared,
       SaveConfirmed, CleanUp, HandlerFails, db, chain
<1>3. ASSUME NEW c \in Replica, Reconcile(c) \/ PassFails(c)
      PROVE  accepted' = accepted /\ issued' = issued
  <2>1. CASE ReconcileRecord(c)
    BY <2>1 DEF ReconcileRecord, Finalize, chain
  <2> QED
    BY <1>3, <2>1 DEF Reconcile, ScanPending, ReadPrepared, ReconcileAccepted,
       ReconcileUnknown, ReconcileMissing, Claim, ReconcileDelete, PassFails, db, chain
<1>4. ASSUME NEW t \in Prep, Expire(t) \/ Discover(t) \/ ChainAccepts(t) \/ ChainDrops(t)
      PROVE  accepted \subseteq accepted' /\ issued' = issued
  BY <1>4 DEF Expire, Discover, ChainAccepts, ChainDrops, db, chain
<1>5. CASE UNCHANGED vars
  BY <1>5 DEF vars, db, chain
<1> QED
  BY <1>1, <1>2, <1>3, <1>4, <1>5 DEF Next

\* What a request remembers of its step stays true, whatever others do meanwhile.
LEMMA HandlersStep == IInv /\ [Next]_vars => HandlersHold'
<1> SUFFICES ASSUME IInv, [Next]_vars PROVE HandlersHold'
  OBVIOUS
<1>0. TypeOK /\ StepsIssued /\ HandlersHold
  BY DEF IInv
<1>1. /\ accepted \subseteq accepted'
      /\ \A p \in Prep : issued[p] \in Step => issued'[p] = issued[p]
  BY ChainGrows
<1> USE <1>0, <1>1 DEF TypeOK, HandlersHold
<1>2. ASSUME NEW r \in Request, Prepare(r) PROVE HandlersHold'
  <2>1. CASE PrepareRead(r)
    <3>1. PICK state \in HandlerState :
            state.pc = "build" /\ state.step \in Step /\ Proceed(r, state)
      BY <2>1, PrepareReadStep
    <3> QED
      BY <3>1 DEF Proceed
  <2>2. CASE PrepareSave(r) \/ PrepareRefused(r)
    BY <2>2 DEF PrepareSave, PrepareRefused, Proceed, Idle
  <2> QED
    BY <1>2, <2>1, <2>2 DEF Prepare
<1>3. ASSUME NEW r \in Request, FinalizeStep(r) PROVE HandlersHold'
  <2>1. CASE FinalizeRead(r)
    BY <2>1 DEF FinalizeRead, StepsIssued, Proceed, Idle
  <2>2. CASE SubmitAdmitted(r) \/ SubmitRefused(r)
    BY <2>2 DEF SubmitAdmitted, SubmitRefused, Proceed, HandlerState
  <2>3. CASE WaitAccepted(r) \/ WaitPending(r) \/ WaitTimesOut(r)
    BY <2>3 DEF WaitAccepted, WaitPending, WaitTimesOut, Confirmed, Proceed, HandlerState
  <2>4. CASE Verify(r) \/ Drop(r) \/ Record(r) \/ SaveConfirmed(r)
    BY <2>4 DEF Verify, Drop, Record, SaveConfirmed, Proceed, HandlerState
  <2>5. CASE SavePending(r) \/ DropPrepared(r) \/ CleanUp(r)
    BY <2>5 DEF SavePending, DropPrepared, CleanUp, Proceed, Idle
  <2> QED
    BY <1>3, <2>1, <2>2, <2>3, <2>4, <2>5 DEF FinalizeStep
<1>4. ASSUME NEW r \in Request, HandlerFails(r) PROVE HandlersHold'
  BY <1>4 DEF HandlerFails, Proceed, Idle
<1>5. ASSUME NEW c \in Replica, Reconcile(c) \/ PassFails(c) PROVE HandlersHold'
  <2>1. handler' = handler
    BY <1>5 DEF Reconcile, ScanPending, ReadPrepared, ReconcileAccepted,
       ReconcileUnknown, ReconcileMissing, Claim, ReconcileRecord, ReconcileDelete,
       PassFails
  <2> QED
    BY <2>1
<1>6. ASSUME NEW t \in Prep, Expire(t) \/ Discover(t) \/ ChainAccepts(t) \/ ChainDrops(t)
      PROVE  HandlersHold'
  BY <1>6 DEF Expire, Discover, ChainAccepts, ChainDrops
<1>7. CASE UNCHANGED vars
  BY <1>7 DEF vars
<1> QED
  BY <1>2, <1>3, <1>4, <1>5, <1>6, <1>7 DEF Next

\* What a pass remembers stays true as well.
LEMMA PassesStep == IInv /\ [Next]_vars => PassesHold'
<1> SUFFICES ASSUME IInv, [Next]_vars PROVE PassesHold'
  OBVIOUS
<1>0. TypeOK /\ PassesHold
  BY DEF IInv
<1>1. accepted \subseteq accepted'
  BY ChainGrows
<1> USE <1>0, <1>1 DEF TypeOK, PassesHold
<1>2. ASSUME NEW c \in Replica, Continue(c) \/ Advance(c, Resting) PROVE PassesHold'
  <2>1. PICK state : Advance(c, state) /\ state.pc \in {"idle", "next"}
    <3>1. [pass[c] EXCEPT !.pc = "next", !.id = None].pc = "next"
      BY DEF PassState
    <3>2. CASE Continue(c) /\ pass[c].todo # {}
      BY <3>1, <3>2 DEF Continue
    <3>3. CASE Advance(c, Resting) \/ (Continue(c) /\ pass[c].todo = {})
      <4>1. Advance(c, Resting)
        BY <3>3 DEF Continue
      <4> QED
        BY <4>1 DEF Resting
    <3> QED
      BY <1>2, <3>2, <3>3
  <2> QED
    BY <2>1 DEF Advance
<1>3. ASSUME NEW c \in Replica, Reconcile(c) PROVE PassesHold'
  <2>1. CASE ScanPending(c)
    BY <2>1 DEF ScanPending, Advance, Resting
  <2>2. CASE ReadPrepared(c)
    BY <2>2 DEF ReadPrepared, Advance, PassState
  <2>3. CASE ReconcileAccepted(c) \/ ReconcileUnknown(c) \/ ReconcileMissing(c)
    BY <1>2, <2>3
    DEF ReconcileAccepted, ReconcileUnknown, ReconcileMissing, Advance, PassState
  <2>4. CASE Claim(c)
    BY <1>2, <2>4 DEF Claim, ClaimTerminal, Advance, PassState
  <2>5. CASE ReconcileRecord(c)
    BY <2>5 DEF ReconcileRecord, Advance, PassState
  <2>6. CASE ReconcileDelete(c)
    BY <1>2, <2>6 DEF ReconcileDelete
  <2> QED
    BY <1>3, <2>1, <2>2, <2>3, <2>4, <2>5, <2>6 DEF Reconcile
<1>4. ASSUME NEW c \in Replica, PassFails(c) PROVE PassesHold'
  BY <1>2, <1>4 DEF PassFails
<1>5. ASSUME NEW r \in Request, Prepare(r) \/ FinalizeStep(r) \/ HandlerFails(r)
      PROVE  PassesHold'
  <2>1. pass' = pass
    BY <1>5 DEF Prepare, PrepareRead, PrepareSave, PrepareRefused, FinalizeStep,
       FinalizeRead, SubmitAdmitted, SubmitRefused, WaitAccepted, WaitPending,
       WaitTimesOut, Verify, SavePending, Drop, DropPrepared, Record, SaveConfirmed,
       CleanUp, HandlerFails
  <2> QED
    BY <2>1
<1>6. ASSUME NEW t \in Prep, Expire(t) \/ Discover(t) \/ ChainAccepts(t) \/ ChainDrops(t)
      PROVE  PassesHold'
  BY <1>6 DEF Expire, Discover, ChainAccepts, ChainDrops
<1>7. CASE UNCHANGED vars
  BY <1>7 DEF vars
<1> QED
  BY <1>3, <1>4, <1>5, <1>6, <1>7 DEF Next

\* Only a record changes the tables of covenants, and it records an accepted step.
LEMMA BackedStep == IInv /\ [Next]_vars => RegistryBacked'
<1> SUFFICES ASSUME IInv, [Next]_vars PROVE RegistryBacked'
  OBVIOUS
<1>0. TypeOK /\ StepsIssued /\ HandlersHold /\ PassesHold /\ RegistryBacked
  BY DEF IInv
<1>1. /\ accepted \subseteq accepted'
      /\ \A t \in accepted : issued'[t] = issued[t]
  BY <1>0, ChainGrows DEF TypeOK, StepsIssued
<1>2. CASE UNCHANGED <<offer, history>>
  <2>1. BackedRow(offer.covenant, offer.row)'
    <3>1. BackedRow(offer.covenant, offer.row)
      BY <1>0 DEF RegistryBacked
    <3> QED
      BY <1>1, <1>2, <3>1 DEF BackedRow, KindOf, CovenantOf
  <2>2. ASSUME NEW c \in Prep PROVE BackedRow(c, history[c])'
    <3>1. BackedRow(c, history[c])
      BY <1>0 DEF RegistryBacked
    <3> QED
      BY <1>1, <1>2, <3>1 DEF BackedRow, KindOf, CovenantOf
  <2> QED
    BY <2>1, <2>2 DEF RegistryBacked
<1>3. ASSUME NEW r \in Request, Record(r) PROVE RegistryBacked'
  BY <1>0, <1>3, FinalizeBacked DEF Record, HandlersHold
<1>4. ASSUME NEW c \in Replica, ReconcileRecord(c) PROVE RegistryBacked'
  BY <1>0, <1>4, FinalizeBacked DEF ReconcileRecord, PassesHold, StepsIssued
<1>5. ASSUME NEW r \in Request, Prepare(r) \/ FinalizeStep(r) \/ HandlerFails(r), ~ Record(r)
      PROVE  UNCHANGED <<offer, history>>
  BY <1>5 DEF Prepare, PrepareRead, PrepareSave, PrepareRefused, FinalizeStep,
     FinalizeRead, SubmitAdmitted, SubmitRefused, WaitAccepted, WaitPending,
     WaitTimesOut, Verify, SavePending, Drop, DropPrepared, SaveConfirmed, CleanUp,
     HandlerFails, db, registry
<1>6. ASSUME NEW c \in Replica, Reconcile(c) \/ PassFails(c), ~ ReconcileRecord(c)
      PROVE  UNCHANGED <<offer, history>>
  BY <1>6 DEF Reconcile, ScanPending, ReadPrepared, ReconcileAccepted, ReconcileUnknown,
     ReconcileMissing, Claim, ReconcileDelete, PassFails, db, registry
<1>7. ASSUME NEW t \in Prep, Expire(t) \/ Discover(t) \/ ChainAccepts(t) \/ ChainDrops(t)
      PROVE  UNCHANGED <<offer, history>>
  BY <1>7 DEF Expire, Discover, ChainAccepts, ChainDrops, db, registry
<1>8. CASE UNCHANGED vars
  BY <1>2, <1>8 DEF vars, db, registry
<1> QED
  BY <1>2, <1>3, <1>4, <1>5, <1>6, <1>7, <1>8 DEF Next

-----------------------------------------------------------------------------
(* The theorems *)

\* IInv holds in every state of the system.
THEOREM Inductive == Spec => []IInv
<1>1. IInv /\ [Next]_vars => IInv'
  BY TypeStep, HandlersStep, PassesStep, BackedStep DEF IInv
<1> QED
  BY InitIInv, <1>1, PTL DEF Spec

\* Tables, requests, passes and the chain keep their types.
THEOREM MembershipTypeCorrect == Spec => []TypeOK
<1>1. IInv => TypeOK
  BY DEF IInv
<1> QED
  BY Inductive, <1>1, PTL

\* Both tables of covenants say only what the chain has said.
THEOREM CovenantsBacked == Spec => []RegistryBacked
<1>1. IInv => RegistryBacked
  BY DEF IInv
<1> QED
  BY Inductive, <1>1, PTL

-----------------------------------------------------------------------------
(* Races alone leave no workflow behind. *)

\* Whoever is about to delete the workflow of p still is after the step.
HoldersStay(p) ==
  /\ \A r \in Request : handler[r].id = p /\ handler[r].pc = "clean" => handler'[r] = handler[r]
  /\ \A c \in Replica : pass[c].id = p /\ pass[c].pc \in {"record", "delete"} =>
       pass'[c].id = p /\ pass'[c].pc \in {"record", "delete"}

\* No pass lists the workflow of p any more.
Ended(p) == workflows[p].finalized \/ workflows[p].state \in {"CONFIRMED", "REJECTED"}

LEMMA InitStuck == Init => StuckByFailureOnly
  BY DEF Init, StuckByFailureOnly, NoWorkflow

\* A workflow that was held or not ended before stays so.
LEMMA HeldStays ==
  ASSUME NEW p, HoldersStay(p), Ended(p) => Held(p), Ended(p)' => Ended(p)
  PROVE  Ended(p)' => Held(p)'
  BY DEF HoldersStay, Held

\* The step of a request that was not about to delete a workflow.
LEMMA RequestMoves ==
  ASSUME NEW r \in Request, handler[r].pc # "clean", pass' = pass,
         \A q \in Request \ {r} : handler'[q] = handler[q]
  PROVE  \A p : HoldersStay(p)
  BY DEF HoldersStay

LEMMA StuckStep == IInv /\ StuckByFailureOnly /\ [Next]_vars => StuckByFailureOnly'
<1> SUFFICES ASSUME IInv, StuckByFailureOnly, [Next]_vars, faults' = 0, NEW p \in Prep
             PROVE  Ended(p)' => Held(p)'
  BY DEF StuckByFailureOnly, Ended
<1>0. /\ TypeOK /\ HandlersHold /\ PassesHold
      /\ handler \in [Request -> HandlerState] /\ pass \in [Replica -> PassState]
      /\ workflows \in [Prep -> WorkflowRow] /\ faults \in Nat
  BY DEF IInv, TypeOK
<1>1. ~ Fault
  BY <1>0 DEF Fault
<1>2. faults = 0
  BY <1>1 DEF Next, Prepare, PrepareRead, PrepareSave, PrepareRefused, FinalizeStep,
     FinalizeRead, SubmitAdmitted, SubmitRefused, WaitAccepted, WaitPending, WaitTimesOut,
     Verify, SavePending, Drop, DropPrepared, Record, SaveConfirmed, CleanUp, HandlerFails,
     Reconcile, ScanPending, ReadPrepared, ReconcileAccepted, ReconcileUnknown,
     ReconcileMissing, Claim, ReconcileRecord, ReconcileDelete, PassFails,
     Expire, Discover, ChainAccepts, ChainDrops, vars
<1>3. Ended(p) => Held(p)
  BY <1>2 DEF StuckByFailureOnly, Ended
<1>4. ~ (workflows'[p] = NoWorkflow /\ Ended(p)')
  BY DEF NoWorkflow, Ended
<1>5. ASSUME NEW r \in Request, handler[r].pc # "clean", UNCHANGED <<pass, workflows>>,
             NEW state, Proceed(r, state)
      PROVE  Ended(p)' => Held(p)'
  <2>1. HoldersStay(p)
    BY <1>0, <1>5, RequestMoves DEF Proceed
  <2> QED
    BY <1>3, <1>5, <2>1, HeldStays DEF Ended
<1>6. ASSUME NEW r \in Request, Prepare(r) PROVE Ended(p)' => Held(p)'
  BY <1>5, <1>6 DEF Prepare, PrepareRead, PrepareSave, PrepareRefused, db
<1>7. ASSUME NEW r \in Request, FinalizeStep(r) PROVE Ended(p)' => Held(p)'
  <2>1. CASE FinalizeRead(r) \/ SubmitAdmitted(r) \/ SubmitRefused(r)
    BY <1>5, <2>1 DEF FinalizeRead, SubmitAdmitted, SubmitRefused, db
  <2>2. CASE WaitAccepted(r) \/ WaitPending(r) \/ WaitTimesOut(r) \/ Verify(r)
    BY <1>5, <2>2 DEF WaitAccepted, WaitPending, WaitTimesOut, Verify, Confirmed, db
  <2>3. CASE DropPrepared(r) \/ Record(r)
    BY <1>5, <2>3 DEF DropPrepared, Record, Finalize
  <2>4. CASE SavePending(r) \/ Drop(r)
    <3>1. handler[r].pc # "clean" /\ pass' = pass
          /\ \A q \in Request \ {r} : handler'[q] = handler[q]
      BY <1>0, <2>4 DEF SavePending, Drop, Proceed
    <3>2. Ended(p)' => Ended(p)
      BY <1>0, <2>4
      DEF SavePending, Drop, SaveWorkflow, DeleteWorkflow, NoWorkflow, Ended, WorkflowRow
    <3> QED
      BY <1>3, <3>1, <3>2, RequestMoves, HeldStays
  <2>5. CASE SaveConfirmed(r)
    <3>1. /\ handler[r].pc = "confirm" /\ pass' = pass
          /\ handler'[r].pc = "clean" /\ handler'[r].id = handler[r].id
          /\ \A q \in Request \ {r} : handler'[q] = handler[q]
      BY <1>0, <2>5 DEF SaveConfirmed, Proceed, HandlerState
    <3>2. CASE handler[r].id = p
      BY <3>1, <3>2 DEF Held
    <3>3. CASE handler[r].id # p
      <4>1. workflows'[p] = workflows[p]
        BY <1>0, <2>5, <3>3 DEF SaveConfirmed, SaveWorkflow
      <4> QED
        BY <1>3, <3>1, <4>1, RequestMoves, HeldStays DEF Ended
    <3> QED
      BY <3>2, <3>3
  <2>6. CASE CleanUp(r)
    <3>1. /\ pass' = pass /\ \A q \in Request \ {r} : handler'[q] = handler[q]
      BY <1>0, <2>6 DEF CleanUp, Proceed
    <3>2. CASE handler[r].id = p
      BY <1>0, <1>4, <2>6, <3>2 DEF CleanUp, DeleteWorkflow
    <3>3. CASE handler[r].id # p
      <4>1. workflows'[p] = workflows[p]
        BY <1>0, <2>6, <3>3 DEF CleanUp, DeleteWorkflow
      <4>2. HoldersStay(p)
        BY <3>1, <3>3 DEF HoldersStay
      <4> QED
        BY <1>3, <4>1, <4>2, HeldStays DEF Ended
    <3> QED
      BY <3>2, <3>3
  <2> QED
    BY <1>7, <2>1, <2>2, <2>3, <2>4, <2>5, <2>6 DEF FinalizeStep
<1>8. ASSUME NEW c \in Replica, pass[c].pc \notin {"record", "delete"},
             UNCHANGED <<handler, workflows>>, NEW state, Advance(c, state)
      PROVE  Ended(p)' => Held(p)'
  <2>1. HoldersStay(p)
    BY <1>0, <1>8 DEF Advance, HoldersStay
  <2> QED
    BY <1>3, <1>8, <2>1, HeldStays DEF Ended
<1>9. ASSUME NEW c \in Replica, Reconcile(c) PROVE Ended(p)' => Held(p)'
  <2>1. CASE \/ ScanPending(c) \/ ReadPrepared(c) \/ ReconcileAccepted(c)
             \/ ReconcileUnknown(c) \/ ReconcileMissing(c)
    BY <1>8, <2>1 DEF ScanPending, ReadPrepared, ReconcileAccepted, ReconcileUnknown,
                      ReconcileMissing, Continue, db
  <2>2. CASE Claim(c) /\ UNCHANGED workflows /\ Continue(c)
    BY <1>8, <2>2 DEF Claim, Continue
  <2>3. CASE Claim(c) /\ ~ (UNCHANGED workflows /\ Continue(c))
    <3>1. PICK state \in {"CONFIRMED", "REJECTED"} :
            /\ workflows' = [workflows EXCEPT ![pass[c].id] =
                               [state |-> state, finalized |-> TRUE]]
            /\ Advance(c, [pass[c] EXCEPT !.pc = IF state = "CONFIRMED"
                                                   THEN "record" ELSE "delete"])
      BY <2>3 DEF Claim, ClaimTerminal
    <3>2. /\ pass[c].pc \in {"claimConfirmed", "claimRejected"} /\ handler' = handler
          /\ pass'[c].pc \in {"record", "delete"} /\ pass'[c].id = pass[c].id
          /\ \A d \in Replica \ {c} : pass'[d] = pass[d]
      BY <1>0, <2>3, <3>1 DEF Claim, Advance, PassState
    <3>3. CASE pass[c].id = p
      BY <3>2, <3>3 DEF Held
    <3>4. CASE pass[c].id # p
      <4>1. workflows'[p] = workflows[p]
        BY <1>0, <3>1, <3>4
      <4>2. HoldersStay(p)
        BY <3>2 DEF HoldersStay
      <4> QED
        BY <1>3, <4>1, <4>2, HeldStays DEF Ended
    <3> QED
      BY <3>3, <3>4
  <2>4. CASE ReconcileRecord(c)
    <3>1. /\ UNCHANGED <<handler, workflows>>
          /\ pass'[c].pc = "delete" /\ pass'[c].id = pass[c].id
          /\ \A d \in Replica \ {c} : pass'[d] = pass[d]
      BY <1>0, <2>4 DEF ReconcileRecord, Finalize, Advance, PassState
    <3>2. HoldersStay(p)
      BY <3>1 DEF HoldersStay
    <3> QED
      BY <1>3, <3>1, <3>2, HeldStays DEF Ended
  <2>5. CASE ReconcileDelete(c)
    <3>1. handler' = handler /\ \A d \in Replica \ {c} : pass'[d] = pass[d]
      BY <1>0, <2>5 DEF ReconcileDelete, Continue, Advance
    <3>2. CASE pass[c].id = p
      BY <1>0, <1>4, <2>5, <3>2 DEF ReconcileDelete, DeleteWorkflow
    <3>3. CASE pass[c].id # p
      <4>1. workflows'[p] = workflows[p]
        BY <1>0, <2>5, <3>3 DEF ReconcileDelete, DeleteWorkflow
      <4>2. HoldersStay(p)
        BY <3>1, <3>3 DEF HoldersStay
      <4> QED
        BY <1>3, <4>1, <4>2, HeldStays DEF Ended
    <3> QED
      BY <3>2, <3>3
  <2> QED
    BY <1>9, <2>1, <2>2, <2>3, <2>4, <2>5 DEF Reconcile
<1>10. CASE UNCHANGED <<handler, pass, workflows>>
  BY <1>3, <1>10, HeldStays DEF HoldersStay, Ended
<1>11. ASSUME NEW t \in Prep, Expire(t) \/ Discover(t) \/ ChainAccepts(t) \/ ChainDrops(t)
       PROVE  UNCHANGED <<handler, pass, workflows>>
  BY <1>11 DEF Expire, Discover, ChainAccepts, ChainDrops, db
<1> QED
  BY <1>1, <1>6, <1>7, <1>9, <1>10, <1>11 DEF Next, HandlerFails, PassFails, vars, db

\* A claimed or ended workflow is in the hands of one that will delete it, unless a
\* handler or a pass failed.
THEOREM NothingStuck == Spec => []StuckByFailureOnly
  BY Inductive, InitStuck, StuckStep, PTL DEF Spec

-----------------------------------------------------------------------------
(* The chain of a covenant *)

\* An offer spends an output of the wallet, not one of a covenant.
OffersSpendCoins == \A p \in Prep : KindOf(p) = "offer" => issued[p].spends \in Coin

\* The node has admitted no two steps that spend the same output.
NoConflict ==
  /\ mempool \cap accepted = {}
  /\ \A t, u \in mempool \cup accepted : issued[t].spends = issued[u].spends => t = u

StepsAllowed == \A t \in mempool \cup accepted : ContractAllows(t)

CovenantsOpened ==
  \A t \in accepted : CovenantOf(t) \in accepted /\ KindOf(CovenantOf(t)) = "offer"

\* t is the only step of the covenant that no other spends.
IsLast(t, c) == \A u \in accepted : (CovenantOf(u) = c /\ ~ Spent(u)) <=> u = t

OneLast == \A c \in accepted : KindOf(c) = "offer" => \E t \in accepted : IsLast(t, c)

\* The steps of a covenant form one chain.
ChainInv == OffersSpendCoins /\ NoConflict /\ StepsAllowed /\ CovenantsOpened /\ OneLast

LEMMA InitChain == Init => ChainInv
  BY DEF Init, ChainInv, OffersSpendCoins, NoConflict, StepsAllowed, CovenantsOpened,
         OneLast, KindOf, NoStep

\* What a step can do to the chain, to issued steps and to receipts.
LEMMA ChainEffects ==
  IInv /\ [Next]_vars =>
    \/ UNCHANGED <<chain, issued, receipts>>
    \/ \E r \in Request : PrepareSave(r)
    \/ \E r \in Request : SubmitAdmitted(r)
    \/ \E p \in accepted : Finalize(p) /\ UNCHANGED chain
    \/ \E t \in Prep : Discover(t) \/ ChainAccepts(t) \/ ChainDrops(t)
<1> SUFFICES ASSUME IInv, [Next]_vars,
                    ~ \E r \in Request : PrepareSave(r) \/ SubmitAdmitted(r),
                    ~ \E p \in accepted : Finalize(p) /\ UNCHANGED chain,
                    ~ \E t \in Prep : Discover(t) \/ ChainAccepts(t) \/ ChainDrops(t)
             PROVE  UNCHANGED <<chain, issued, receipts>>
  OBVIOUS
<1>1. ASSUME NEW r \in Request, Prepare(r) \/ FinalizeStep(r) \/ HandlerFails(r)
      PROVE  UNCHANGED <<chain, issued, receipts>>
  <2>1. ~ Record(r)
    BY DEF Record, IInv, HandlersHold
  <2> QED
    BY <1>1, <2>1 DEF Prepare, PrepareRead, PrepareRefused, FinalizeStep, FinalizeRead,
       SubmitRefused, WaitAccepted, WaitPending, WaitTimesOut, Verify, SavePending, Drop,
       DropPrepared, SaveConfirmed, CleanUp, HandlerFails, db, registry
<1>2. ASSUME NEW c \in Replica, Reconcile(c) \/ PassFails(c)
      PROVE  UNCHANGED <<chain, issued, receipts>>
  <2>1. ~ ReconcileRecord(c)
    BY DEF ReconcileRecord, IInv, PassesHold
  <2> QED
    BY <1>2, <2>1 DEF Reconcile, ScanPending, ReadPrepared, ReconcileAccepted,
       ReconcileUnknown, ReconcileMissing, Claim, ReconcileDelete, PassFails, db, registry
<1>3. ASSUME NEW t \in Prep, Expire(t)
      PROVE  UNCHANGED <<chain, issued, receipts>>
  BY <1>3 DEF Expire, registry
<1>4. CASE UNCHANGED vars
  BY <1>4 DEF vars, db, registry
<1> QED
  BY <1>1, <1>2, <1>3, <1>4 DEF Next

\* What has been admitted keeps its step, its covenant and its kind.
LEMMA StepsStay ==
  ASSUME IInv, [Next]_vars, NEW t \in mempool \cup accepted
  PROVE  issued'[t] = issued[t] /\ KindOf(t)' = KindOf(t) /\ CovenantOf(t)' = CovenantOf(t)
<1>1. issued'[t] = issued[t]
  BY ChainGrows DEF IInv, TypeOK, StepsIssued
<1> QED
  BY <1>1 DEF KindOf, CovenantOf

\* A step that a contract allowed is allowed for good.
LEMMA AllowedStays ==
  ASSUME IInv, [Next]_vars, NEW t \in mempool \cup accepted, ContractAllows(t)
  PROVE  ContractAllows(t)'
<1>1. issued'[t] = issued[t] /\ KindOf(t)' = KindOf(t) /\ CovenantOf(t)' = CovenantOf(t)
  BY StepsStay
<1>2. accepted \subseteq accepted'
  BY ChainGrows
<1>3. CASE KindOf(t) = "offer"
  BY <1>1, <1>3 DEF ContractAllows
<1>4. CASE KindOf(t) # "offer"
  <2> DEFINE s == issued[t].spends
  <2>1. s \in accepted
    BY <1>4 DEF ContractAllows
  <2>2. issued'[s] = issued[s] /\ KindOf(s)' = KindOf(s) /\ CovenantOf(s)' = CovenantOf(s)
    BY <2>1, StepsStay
  <2> QED
    BY <1>1, <1>2, <1>4, <2>1, <2>2 DEF ContractAllows, IsMinter
<1> QED
  BY <1>3, <1>4

\* The same chain is a chain of the same steps.
LEMMA SameAccepted ==
  ASSUME IInv, ChainInv, [Next]_vars, accepted' = accepted
  PROVE  /\ CovenantsOpened'
         /\ \A t, c \in accepted : IsLast(t, c) => IsLast(t, c)'
         /\ OneLast'
<1>1. \A t \in accepted : /\ issued'[t] = issued[t] /\ KindOf(t)' = KindOf(t)
                          /\ CovenantOf(t)' = CovenantOf(t)
  BY StepsStay
<1>2. \A o : Spent(o)' <=> Spent(o)
  BY <1>1 DEF Spent
<1>3. CovenantsOpened'
  BY <1>1 DEF ChainInv, CovenantsOpened
<1>4. \A t, c \in accepted : IsLast(t, c) => IsLast(t, c)'
  BY <1>1, <1>2 DEF IsLast
<1>5. OneLast'
  BY <1>1, <1>4 DEF ChainInv, OneLast
<1> QED
  BY <1>3, <1>4, <1>5

\* A step that is accepted is new, and nothing accepted spends what it spends or
\* its own outputs.
LEMMA AcceptedIsNew ==
  ASSUME IInv, ChainInv, [Next]_vars, NEW t \in Prep, ChainAccepts(t)
  PROVE  /\ t \notin accepted /\ accepted' = accepted \cup {t}
         /\ ~ Spent(issued[t].spends) /\ ~ Spent(t)'
         /\ \A o : Spent(o)' <=> Spent(o) \/ o = issued[t].spends
<1>1. t \notin accepted /\ accepted' = accepted \cup {t}
  BY DEF ChainAccepts, ChainInv, NoConflict
<1>2. ~ Spent(issued[t].spends)
  BY <1>1 DEF ChainAccepts, ChainInv, NoConflict, Spent
<1>3. \A u \in accepted \cup {t} : issued'[u] = issued[u]
  BY StepsStay DEF ChainAccepts
<1>4. \A o : Spent(o)' <=> Spent(o) \/ o = issued[t].spends
  BY <1>1, <1>3 DEF Spent
<1>5. ASSUME NEW u \in mempool \cup accepted PROVE issued[u].spends # t
  <2>1. u \in Prep
    BY DEF IInv, TypeOK
  <2>2. CASE KindOf(u) = "offer"
    BY <2>1, <2>2, NamesDiffer DEF ChainInv, OffersSpendCoins
  <2>3. CASE KindOf(u) # "offer"
    BY <1>1, <2>3 DEF ChainInv, StepsAllowed, ContractAllows
  <2> QED
    BY <2>2, <2>3
<1>6. ~ Spent(t)'
  BY <1>1, <1>3, <1>5 DEF Spent, ChainAccepts
<1> QED
  BY <1>1, <1>2, <1>4, <1>6

\* A covenant that is opened is the last step of its own.
LEMMA OpenedLast ==
  ASSUME IInv, ChainInv, [Next]_vars, NEW t \in Prep, ChainAccepts(t), KindOf(t) = "offer"
  PROVE  /\ \A u, c \in accepted : IsLast(u, c) => IsLast(u, c)'
         /\ IsLast(t, t)'
<1>1. /\ \A u \in accepted \cup {t} :
           KindOf(u)' = KindOf(u) /\ CovenantOf(u)' = CovenantOf(u)
      /\ issued[t].spends \in Coin
  BY StepsStay DEF ChainAccepts, ChainInv, OffersSpendCoins
<1>2. \A u \in accepted : u # issued[t].spends
  BY <1>1, NamesDiffer DEF IInv, TypeOK
<1>3. CovenantOf(t) = t /\ \A u \in accepted : CovenantOf(u) \in accepted
  BY DEF ChainInv, CovenantsOpened, CovenantOf
<1>4. \A u, c \in accepted : IsLast(u, c) => IsLast(u, c)'
  BY <1>1, <1>2, <1>3, AcceptedIsNew DEF IsLast
<1>5. IsLast(t, t)'
  BY <1>1, <1>3, AcceptedIsNew DEF IsLast
<1> QED
  BY <1>4, <1>5

\* Every other step takes the place of the one it spends.
LEMMA MovedLast ==
  ASSUME IInv, ChainInv, [Next]_vars, NEW t \in Prep, ChainAccepts(t), KindOf(t) # "offer"
  PROVE  /\ CovenantOf(t) \in accepted /\ KindOf(CovenantOf(t)) = "offer"
         /\ IsLast(issued[t].spends, CovenantOf(t)) /\ IsLast(t, CovenantOf(t))'
         /\ \A u, c \in accepted : c # CovenantOf(t) /\ IsLast(u, c) => IsLast(u, c)'
<1> DEFINE s == issued[t].spends
<1>1. s \in accepted /\ IsMinter(s) /\ CovenantOf(s) = CovenantOf(t)
  BY DEF ChainAccepts, ChainInv, StepsAllowed, ContractAllows
<1>2. CovenantOf(t) \in accepted /\ KindOf(CovenantOf(t)) = "offer"
  BY <1>1 DEF ChainInv, CovenantsOpened
<1>3. PICK l \in accepted : IsLast(l, CovenantOf(t))
  BY <1>2 DEF ChainInv, OneLast
<1>4. l = s
  BY <1>1, <1>3, AcceptedIsNew DEF IsLast
<1>5. \A u \in accepted \cup {t} : KindOf(u)' = KindOf(u) /\ CovenantOf(u)' = CovenantOf(u)
  BY StepsStay DEF ChainAccepts
<1>6. IsLast(t, CovenantOf(t))'
  BY <1>1, <1>3, <1>4, <1>5, AcceptedIsNew DEF IsLast
<1>7. \A u, c \in accepted : c # CovenantOf(t) /\ IsLast(u, c) => IsLast(u, c)'
  BY <1>1, <1>5, AcceptedIsNew DEF IsLast
<1> QED
  BY <1>2, <1>3, <1>4, <1>6, <1>7

LEMMA ChainStep == IInv /\ ChainInv /\ [Next]_vars => ChainInv'
<1> SUFFICES ASSUME IInv, ChainInv, [Next]_vars PROVE ChainInv'
  OBVIOUS
<1>1. OffersSpendCoins'
  <2>1. CASE \E r \in Request : PrepareSave(r)
    <3>0. PICK r \in Request : PrepareSave(r)
      BY <2>1
    <3>1. PICK o \in Spendable(handler[r].step, handler[r].seen), p \in Prep :
            issued' = [issued EXCEPT ![p] = [handler[r].step EXCEPT !.spends = o]]
      BY <3>0 DEF PrepareSave
    <3>2. handler[r].step \in Step
      BY <3>0 DEF PrepareSave, IInv, HandlersHold
    <3>3. KindOf(p)' = "offer" => issued'[p].spends \in Coin
      BY <3>1, <3>2 DEF Spendable, Step, KindOf, IInv, TypeOK
    <3> QED
      BY <3>1, <3>3 DEF ChainInv, OffersSpendCoins, KindOf, IInv, TypeOK
  <2>2. CASE ~ \E r \in Request : PrepareSave(r)
    <3>1. issued' = issued
      BY <2>2, ChainEffects
      DEF chain, db, SubmitAdmitted, Finalize, Discover, ChainAccepts, ChainDrops
    <3> QED
      BY <3>1 DEF ChainInv, OffersSpendCoins, KindOf
  <2> QED
    BY <2>1, <2>2
<1>2. CASE UNCHANGED chain
  <2>1. NoConflict'
    BY <1>2, StepsStay DEF ChainInv, NoConflict, chain
  <2>2. StepsAllowed'
    BY <1>2, AllowedStays DEF ChainInv, StepsAllowed, chain
  <2> QED
    BY <1>1, <1>2, <2>1, <2>2, SameAccepted DEF ChainInv, chain
<1>3. ASSUME NEW r \in Request, SubmitAdmitted(r) PROVE ChainInv'
  <2> DEFINE t == handler[r].id
  <2>1. /\ accepted' = accepted /\ issued' = issued
        /\ mempool' = mempool \cup ({t} \ accepted) /\ ContractAllows(t)
        /\ \A u \in mempool \cup accepted : issued[u].spends = issued[t].spends => u = t
    BY <1>3 DEF SubmitAdmitted, Admit, db
  <2>2. NoConflict'
    BY <2>1 DEF ChainInv, NoConflict
  <2>3. StepsAllowed'
    BY <2>1 DEF ChainInv, StepsAllowed, ContractAllows, KindOf, CovenantOf, IsMinter
  <2> QED
    BY <1>1, <2>1, <2>2, <2>3, SameAccepted DEF ChainInv
<1>4. ASSUME NEW t \in Prep, ChainDrops(t) PROVE ChainInv'
  <2>1. NoConflict'
    BY <1>4, StepsStay DEF ChainDrops, ChainInv, NoConflict
  <2>2. StepsAllowed'
    BY <1>4, AllowedStays DEF ChainDrops, ChainInv, StepsAllowed
  <2> QED
    BY <1>1, <1>4, <2>1, <2>2, SameAccepted DEF ChainDrops, ChainInv
<1>5. ASSUME NEW t \in Prep, ChainAccepts(t) PROVE ChainInv'
  <2>1. NoConflict'
    BY <1>5, StepsStay DEF ChainAccepts, ChainInv, NoConflict
  <2>2. StepsAllowed'
    BY <1>5, AllowedStays DEF ChainAccepts, ChainInv, StepsAllowed
  <2>3. /\ accepted' = accepted \cup {t}
        /\ \A u \in accepted \cup {t} :
             KindOf(u)' = KindOf(u) /\ CovenantOf(u)' = CovenantOf(u)
    BY <1>5, AcceptedIsNew, StepsStay DEF ChainAccepts
  <2>4. CovenantsOpened' /\ OneLast'
    <3>1. CASE KindOf(t) = "offer"
      <4>1. CovenantOf(t) = t
        BY <3>1 DEF CovenantOf
      <4>2. CovenantsOpened'
        BY <2>3, <3>1, <4>1 DEF ChainInv, CovenantsOpened
      <4>3. OneLast'
        BY <1>5, <2>3, <3>1, OpenedLast DEF ChainInv, OneLast
      <4> QED
        BY <4>2, <4>3
    <3>2. CASE KindOf(t) # "offer"
      <4>1. CovenantsOpened'
        BY <1>5, <2>3, <3>2, MovedLast DEF ChainInv, CovenantsOpened
      <4>2. OneLast'
        BY <1>5, <2>3, <3>2, MovedLast DEF ChainInv, OneLast
      <4> QED
        BY <4>1, <4>2
    <3> QED
      BY <3>1, <3>2
  <2> QED
    BY <1>1, <2>1, <2>2, <2>4 DEF ChainInv
<1>6. ASSUME NEW r \in Request, PrepareSave(r) PROVE UNCHANGED chain
  BY <1>6 DEF PrepareSave
<1>7. ASSUME NEW t \in Prep, Discover(t) PROVE UNCHANGED chain
  BY <1>7 DEF Discover
<1> QED
  BY <1>2, <1>3, <1>4, <1>5, <1>6, <1>7, ChainEffects

\* ChainInv holds in every state of the system.
THEOREM OneChain == Spec => []ChainInv
  BY Inductive, InitChain, ChainStep, PTL DEF Spec

-----------------------------------------------------------------------------
(* The system implements the promise. *)

\* The offer that a last step leaves.
Left(t) == IF KindOf(t) = "cancel" THEN [status |-> "canceled"]
                                   ELSE [status |-> "open", price |-> issued[t].price]

Offers == [c \in Prep |-> OfferOf(c)]

Sale(t) == [buy |-> t, offer |-> CovenantOf(t), price |-> issued[t].price]

Members == {Sale(t) : t \in Purchases}

\* The state of an offer is what the last step of its covenant says.
LEMMA OfferIsLast ==
  ASSUME NEW c \in accepted, KindOf(c) = "offer", NEW t \in accepted, IsLast(t, c)
  PROVE  OfferOf(c) = Left(t)
<1>1. \A u \in accepted : (CovenantOf(u) = c /\ ~ Spent(u)) <=> u = t
  BY DEF IsLast
<1>2. (CHOOSE u \in accepted : CovenantOf(u) = c /\ ~ Spent(u)) = t
  BY <1>1
<1> QED
  BY <1>2 DEF OfferOf, Left

\* So it is after a step.
LEMMA OfferIsLastNext ==
  ASSUME NEW c \in accepted', KindOf(c)' = "offer", NEW t \in accepted', IsLast(t, c)'
  PROVE  OfferOf(c)' = Left(t)'
<1>1. \A u \in accepted' : (CovenantOf(u)' = c /\ ~ Spent(u)') <=> u = t
  BY DEF IsLast
<1>2. (CHOOSE u \in accepted' : CovenantOf(u)' = c /\ ~ Spent(u)') = t
  BY <1>1
<1> QED
  BY <1>2 DEF OfferOf, Left

\* An offer whose last step stays the last one stays what it is.
LEMMA OfferStays ==
  ASSUME IInv, ChainInv, [Next]_vars, NEW c \in Prep, c \in accepted' => c \in accepted,
         c \in accepted => \A u \in accepted : IsLast(u, c) => IsLast(u, c)'
  PROVE  OfferOf(c)' = OfferOf(c)
<1>1. CASE c \in accepted /\ KindOf(c) = "offer"
  <2>1. PICK t \in accepted : IsLast(t, c)
    BY <1>1 DEF ChainInv, OneLast
  <2>2. /\ c \in accepted' /\ t \in accepted' /\ KindOf(c)' = "offer" /\ IsLast(t, c)'
        /\ Left(t)' = Left(t)
    BY <1>1, <2>1, ChainGrows, StepsStay DEF Left
  <2> QED
    BY <1>1, <2>1, <2>2, OfferIsLast, OfferIsLastNext
<1>2. CASE ~ (c \in accepted /\ KindOf(c) = "offer")
  <2>1. ~ (c \in accepted' /\ KindOf(c)' = "offer")
    BY <1>2, StepsStay
  <2> QED
    BY <1>2, <2>1 DEF OfferOf
<1> QED
  BY <1>1, <1>2

\* A step that accepts nothing leaves offers and members alone.
LEMMA ChainStays ==
  ASSUME IInv, ChainInv, [Next]_vars, accepted' = accepted
  PROVE  Offers' = Offers /\ Members' = Members /\ Purchases' = Purchases
<1>1. \A c \in Prep : OfferOf(c)' = OfferOf(c)
  BY SameAccepted, OfferStays
<1>2. \A t \in accepted : KindOf(t)' = KindOf(t) /\ Sale(t)' = Sale(t)
  BY StepsStay DEF Sale
<1>3. Purchases' = Purchases
  BY <1>2 DEF Purchases
<1> QED
  BY <1>1, <1>2, <1>3 DEF Offers, Members, Purchases

\* Only the state of one offer changes.
LEMMA OneOffer ==
  ASSUME NEW c \in Prep, \A d \in Prep : d # c => OfferOf(d)' = OfferOf(d),
         Members' = Members, receipts' = receipts
  PROVE  Promise!OnlyOffer(c)
<1>1. Offers' = [Offers EXCEPT ![c] = Offers'[c]]
  BY DEF Offers
<1> QED
  BY <1>1 DEF Promise!OnlyOffer, Offers, Members, Sale

\* A step that is accepted is a purchase, or changes the state of one offer.
LEMMA AcceptRefines ==
  ASSUME IInv, ChainInv, [Next]_vars, NEW t \in Prep, ChainAccepts(t)
  PROVE  Promise!Next
<1>1. /\ t \notin accepted /\ accepted' = accepted \cup {t} /\ receipts' = receipts
      /\ t \in accepted' /\ issued[t] \in Step /\ accepted \subseteq Prep
  BY AcceptedIsNew DEF ChainAccepts, db, registry, IInv, TypeOK, StepsIssued
<1>2. \A u \in accepted \cup {t} :
        /\ issued'[u] = issued[u] /\ KindOf(u)' = KindOf(u)
        /\ CovenantOf(u)' = CovenantOf(u) /\ Sale(u)' = Sale(u)
  BY StepsStay DEF ChainAccepts, Sale
<1>3. Left(t)' = Left(t)
  BY <1>2 DEF Left
<1>4. KindOf(t) # "purchase" => Members' = Members
  BY <1>1, <1>2 DEF Members, Purchases
<1>5. CASE KindOf(t) = "offer"
  <2>1. OfferOf(t)' = Left(t) /\ Left(t) \in Promise!Open
    BY <1>1, <1>2, <1>3, <1>5, OpenedLast, OfferIsLastNext
    DEF Left, Promise!Open, Step, KindOf
  <2>2. ASSUME NEW d \in Prep, d # t PROVE OfferOf(d)' = OfferOf(d)
    <3>1. CASE d \in accepted
      BY <1>5, <3>1, OpenedLast, OfferStays
    <3>2. CASE d \notin accepted
      BY <1>1, <2>2, <3>2 DEF OfferOf
    <3> QED
      BY <3>1, <3>2
  <2>3. OfferOf(t) = [status |-> "absent"]
    BY <1>1 DEF OfferOf
  <2>4. Promise!OnlyOffer(t)
    BY <1>1, <1>4, <1>5, <2>2, OneOffer
  <2>5. Promise!Publish(t)
    BY <2>1, <2>3, <2>4 DEF Promise!Publish
  <2> QED
    BY <2>5 DEF Promise!Next
<1>6. CASE KindOf(t) # "offer"
  <2> DEFINE s == issued[t].spends
  <2>0. PICK c \in Prep : c = CovenantOf(t)
    BY <1>1, <1>6, MovedLast
  <2>1. /\ s \in accepted /\ IsMinter(s) /\ c \in accepted
        /\ KindOf(t) # "update" => issued[t].price = issued[s].price
    BY <1>6, <2>0, MovedLast DEF ChainAccepts, ChainInv, StepsAllowed, ContractAllows
  <2>2. OfferOf(c) = [status |-> "open", price |-> issued[s].price]
    BY <1>6, <2>0, <2>1, MovedLast, OfferIsLast DEF Left, IsMinter
  <2>3. OfferOf(c)' = Left(t)
    <3>1. c \in accepted' /\ KindOf(c)' = "offer" /\ IsLast(t, c)'
      BY <1>1, <1>2, <1>6, <2>0, <2>1, MovedLast
    <3> QED
      BY <1>1, <1>3, <3>1, OfferIsLastNext
  <2>4. ASSUME NEW d \in Prep, d # c PROVE OfferOf(d)' = OfferOf(d)
    <3>1. CASE d \in accepted
      BY <1>6, <2>0, <2>4, <3>1, MovedLast, OfferStays
    <3>2. CASE d \notin accepted
      BY <1>1, <1>2, <1>6, <3>2 DEF OfferOf
    <3> QED
      BY <3>1, <3>2
  <2>5. CASE KindOf(t) = "purchase"
    <3>1. Left(t) = OfferOf(c) /\ Sale(t) = [buy |-> t, offer |-> c, price |-> Offers[c].price]
      BY <2>0, <2>1, <2>2, <2>5 DEF Left, Sale, Offers
    <3>2. Offers' = Offers
      BY <2>3, <2>4, <3>1 DEF Offers
    <3>3. Members' = Members \cup {Sale(t)}
      BY <1>1, <1>2, <2>5 DEF Members, Purchases
    <3>4. t \notin {m.buy : m \in Members}
      BY <1>1 DEF Members, Purchases, Sale
    <3>5. Promise!Join(t, c)
      BY <1>1, <2>1, <2>2, <3>1, <3>2, <3>3
      DEF Promise!Join, Offers, Members, Sale
    <3> QED
      BY <2>1, <3>4, <3>5 DEF Promise!Next, Promise!Bought, Members, Sale
  <2>6. CASE KindOf(t) = "update"
    <3>1. Left(t) \in Promise!Open
      BY <1>1, <2>6 DEF Left, Promise!Open, Step
    <3>2. Promise!OnlyOffer(c)
      BY <1>1, <1>4, <2>1, <2>4, <2>6, OneOffer
    <3>3. Promise!Reprice(c)
      BY <2>1, <2>2, <2>3, <3>1, <3>2 DEF Promise!Reprice
    <3> QED
      BY <2>1, <3>3 DEF Promise!Next
  <2>7. CASE KindOf(t) = "cancel"
    <3>1. Left(t) = [status |-> "canceled"]
      BY <2>7 DEF Left
    <3>2. Promise!OnlyOffer(c)
      BY <1>1, <1>4, <2>1, <2>4, <2>7, OneOffer
    <3>3. Promise!Cancel(c)
      BY <2>1, <2>2, <2>3, <3>1, <3>2 DEF Promise!Cancel
    <3> QED
      BY <2>1, <3>3 DEF Promise!Next
  <2> QED
    BY <1>1, <1>6, <2>5, <2>6, <2>7 DEF Step, KindOf
<1> QED
  BY <1>5, <1>6

\* A receipt is written for a purchase that was made.
LEMMA ReceiptRefines ==
  ASSUME IInv, ChainInv, [Next]_vars, accepted' = accepted, NEW t \in Purchases,
         receipts' = receipts \cup {t}
  PROVE  [Promise!Next]_(Promise!vars)
<1>1. Offers' = Offers /\ Members' = Members
  BY ChainStays
<1>2. CASE t \in receipts
  BY <1>1, <1>2 DEF Promise!vars, Offers, Members, Sale
<1>3. CASE t \notin receipts
  <2>1. t \in {m.buy : m \in Members}
    <3>1. Sale(t) \in Members /\ Sale(t).buy = t
      BY DEF Members, Sale
    <3> QED
      BY <3>1
  <2>2. Promise!Record(t)
    BY <1>1 DEF Promise!Record, Offers, Members, Sale
  <2> QED
    BY <1>3, <2>1, <2>2 DEF Promise!Next, Promise!Bought, Members, Sale
<1> QED
  BY <1>2, <1>3

\* Every step of the system is a step of the promise, or none.
LEMMA StepRefines == IInv /\ ChainInv /\ [Next]_vars => [Promise!Next]_(Promise!vars)
<1> SUFFICES ASSUME IInv, ChainInv, [Next]_vars PROVE [Promise!Next]_(Promise!vars)
  OBVIOUS
<1>1. CASE accepted' = accepted /\ receipts' = receipts
  <2>1. Offers' = Offers /\ Members' = Members
    BY <1>1, ChainStays
  <2> QED
    BY <1>1, <2>1 DEF Promise!vars, Offers, Members, Sale
<1>2. ASSUME NEW p \in accepted, Finalize(p), UNCHANGED chain
      PROVE  [Promise!Next]_(Promise!vars)
  <2>1. CASE KindOf(p) = "purchase"
    BY <1>2, <2>1, ReceiptRefines
    DEF chain, Finalize, FinalizeMembershipPurchase, Purchases
  <2>2. CASE KindOf(p) # "purchase"
    <3>1. accepted' = accepted /\ receipts' = receipts
      BY <1>2, <2>2
      DEF chain, Finalize, FinalizeOffer, FinalizePriceUpdate, FinalizeCancellation
    <3> QED
      BY <1>1, <3>1
  <2> QED
    BY <2>1, <2>2
<1>3. ASSUME NEW t \in Prep, Discover(t) PROVE [Promise!Next]_(Promise!vars)
  BY <1>3, ReceiptRefines DEF Discover, chain, Purchases
<1>4. ASSUME NEW t \in Prep, ChainAccepts(t) PROVE [Promise!Next]_(Promise!vars)
  BY <1>4, AcceptRefines
<1>5. ASSUME \/ UNCHANGED <<chain, issued, receipts>>
             \/ \E r \in Request : PrepareSave(r) \/ SubmitAdmitted(r)
             \/ \E t \in Prep : ChainDrops(t)
      PROVE  accepted' = accepted /\ receipts' = receipts
  BY <1>5 DEF PrepareSave, SubmitAdmitted, Admit, ChainDrops, chain, db, registry
<1> QED
  BY <1>1, <1>2, <1>3, <1>4, <1>5, ChainEffects

\* The handlers, the reconciler and the chain together implement what memberships
\* promise: PromiseKept, for all values of the constants.
THEOREM MembershipRefines == Spec => PromiseKept
<1>1. Init => Promise!Init
  BY DEF Init, Promise!Init, OfferOf, Purchases
<1>2. IInv /\ ChainInv /\ [Next]_vars => [Promise!Next]_(Promise!vars)
  BY StepRefines
<1> QED
  BY <1>1, <1>2, Inductive, OneChain, PTL DEF Spec, PromiseKept, Promise!Spec

-----------------------------------------------------------------------------
(* What the promise is worth to a creator and a member *)

\* An offer that was opened stays, and one that was canceled stays canceled.
OffersKept ==
  \A c \in Prep :
    /\ OfferOf(c).status # "absent" => OfferOf(c)'.status # "absent"
    /\ OfferOf(c).status = "canceled" => OfferOf(c)' = OfferOf(c)

\* A purchase that becomes a membership is one of an offer open until then, at its price;
\* and what was bought stays bought, at that price.
SoldAsOffered ==
  \A t \in Purchases' :
    \/ OfferOf(CovenantOf(t)') = [status |-> "open", price |-> issued'[t].price]
    \/ t \in Purchases /\ issued'[t] = issued[t]

\* The shapes of an offer.
LEMMA OfferShapes ==
  ASSUME NEW c
  PROVE  \/ OfferOf(c) = [status |-> "absent"]
         \/ OfferOf(c) = [status |-> "canceled"]
         \/ \E price : OfferOf(c) = [status |-> "open", price |-> price]
  BY DEF OfferOf

\* What a step of the promise means for offers and members.
LEMMA PromiseSteps ==
  ASSUME [Promise!Next]_(Promise!vars)
  PROVE  /\ OffersKept
         /\ \A m \in Members' :
              \/ m \in Members
              \/ \E c \in Prep : /\ m.offer = c /\ OfferOf(c).status = "open"
                                 /\ m.price = OfferOf(c).price
<1>1. \A d \in Prep : Offers[d] = OfferOf(d) /\ Offers'[d] = OfferOf(d)'
  BY DEF Offers
<1>2. ASSUME NEW c \in Prep, Promise!Publish(c) \/ Promise!Reprice(c) \/ Promise!Cancel(c)
      PROVE  OffersKept /\ Members' = Members
  <2>1. /\ Offers' = [Offers EXCEPT ![c] = Offers'[c]] /\ Members' = Members
        /\ \/ Offers[c].status = "absent" /\ Offers'[c] \in Promise!Open
           \/ Offers[c].status = "open" /\ Offers'[c] \in Promise!Open
           \/ Offers[c].status = "open" /\ Offers'[c] = [status |-> "canceled"]
    BY <1>2 DEF Promise!Publish, Promise!Reprice, Promise!Cancel, Promise!OnlyOffer, Offers,
                Members, Sale
  <2>2. ASSUME NEW d \in Prep
        PROVE  /\ OfferOf(d).status # "absent" => OfferOf(d)'.status # "absent"
               /\ OfferOf(d).status = "canceled" => OfferOf(d)' = OfferOf(d)
    <3>1. CASE d = c
      <4>1. Offers'[c].status \in {"open", "canceled"}
        BY <2>1 DEF Promise!Open
      <4> QED
        BY <3>1, <4>1, <2>1, <1>1
    <3>2. CASE d # c
      <4>1. Offers'[d] = Offers[d]
        BY <3>2, <2>1 DEF Offers
      <4> QED
        BY <4>1, <1>1
    <3> QED
      BY <3>1, <3>2
  <2> QED
    BY <2>1, <2>2 DEF OffersKept
<1>3. ASSUME NEW b, NEW c \in Prep, Promise!Join(b, c)
      PROVE  /\ OffersKept
             /\ OfferOf(c).status = "open"
             /\ Members' = Members \cup {[buy |-> b, offer |-> c, price |-> OfferOf(c).price]}
  <2>1. /\ Offers' = Offers /\ Offers[c].status = "open"
        /\ Members' = Members \cup {[buy |-> b, offer |-> c, price |-> Offers[c].price]}
    BY <1>3 DEF Promise!Join, Offers, Members, Sale
  <2> QED
    BY <2>1, <1>1 DEF OffersKept
<1>4. ASSUME UNCHANGED Promise!vars \/ \E b : Promise!Record(b)
      PROVE  OffersKept /\ Members' = Members
  <2>1. Offers' = Offers /\ Members' = Members
    BY <1>4 DEF Promise!vars, Promise!Record, Offers, Members, Sale
  <2> QED
    BY <2>1, <1>1 DEF OffersKept
<1>5. CASE \E b \in Prep, c \in Prep : Promise!Join(b, c)
  <2>1. PICK b \in Prep, c \in Prep : Promise!Join(b, c)
    BY <1>5
  <2> QED
    BY <1>3, <2>1
<1>6. \/ \E c \in Prep : Promise!Publish(c) \/ Promise!Reprice(c) \/ Promise!Cancel(c)
      \/ \E b \in Prep, c \in Prep : Promise!Join(b, c)
      \/ \E b : Promise!Record(b)
      \/ UNCHANGED Promise!vars
  BY DEF Promise!Next
<1> QED
  BY <1>2, <1>4, <1>5, <1>6

\* Whatever prices, purchases and cancellations race to the chain, an offer is opened
\* once and ends for good.
THEOREM OffersEndForGood == Spec => [][OffersKept]_(Promise!vars)
<1>1. IInv /\ ChainInv /\ [Next]_vars => [OffersKept]_(Promise!vars)
  BY StepRefines, PromiseSteps
<1> QED
  BY <1>1, Inductive, OneChain, PTL DEF Spec

LEMMA SoldStep == IInv /\ ChainInv /\ [Next]_vars => SoldAsOffered
<1> SUFFICES ASSUME IInv, ChainInv, [Next]_vars,
                    NEW t \in Purchases'
             PROVE  \/ OfferOf(CovenantOf(t)') = [status |-> "open", price |-> issued'[t].price]
                    \/ t \in Purchases /\ issued'[t] = issued[t]
  BY DEF SoldAsOffered
<1>1. PICK covenant : covenant = CovenantOf(t)'
  OBVIOUS
<1>2. PICK m : m = [buy |-> t, offer |-> covenant, price |-> issued'[t].price]
  OBVIOUS
<1>3. m \in Members' /\ m.buy = t /\ m.offer = covenant /\ m.price = issued'[t].price
  BY <1>1, <1>2 DEF Members, Sale
<1>4. CASE m \in Members
  <2>1. PICK u \in Purchases : m = Sale(u)
    BY <1>4 DEF Members
  <2>2. u = t
    BY <1>3, <2>1 DEF Sale
  <2>3. issued'[t] = issued[t]
    BY <2>1, <2>2, StepsStay DEF Purchases
  <2> QED
    BY <2>1, <2>2, <2>3
<1>5. CASE \E c \in Prep : m.offer = c /\ OfferOf(c).status = "open" /\ m.price = OfferOf(c).price
  <2>1. OfferOf(covenant).status = "open" /\ OfferOf(covenant).price = issued'[t].price
    BY <1>3, <1>5
  <2>2. PICK price : OfferOf(covenant) = [status |-> "open", price |-> price]
    BY <2>1, OfferShapes
  <2> QED
    BY <1>1, <2>1, <2>2
<1> QED
  BY <1>3, <1>4, <1>5, StepRefines, PromiseSteps

\* A membership is sold at the price that its offer has at that moment, never from an
\* offer that was canceled; and a sale stays what it was.
THEOREM MembersPayTheOffer == Spec => [][SoldAsOffered]_vars
  BY SoldStep, Inductive, OneChain, PTL DEF Spec

=============================================================================
