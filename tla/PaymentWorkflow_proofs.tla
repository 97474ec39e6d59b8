----------------------- MODULE PaymentWorkflow_proofs -----------------------
(***************************************************************************)
(* Proofs about PaymentWorkflow, for all posts, buyers, coins, requests,   *)
(* reconciler passes and bounds.                                           *)
(***************************************************************************)
EXTENDS PaymentWorkflow, TLAPS

-----------------------------------------------------------------------------
(***************************************************************************)
(* The inductive invariant.  Between the step that saw the chain's answer  *)
(* and the step that acts on it, everything else may have moved; what a    *)
(* process still relies on is stated here, per value of its pc.            *)
(***************************************************************************)

\* A live prepared row has a transaction.
RowsIssued == \A p \in Prep : prepared[p] # 0 => issued[p] \in Tx

\* A request holds a payment that was prepared, and one that reached "confirm"
\* or "insert" saw it accepted.
HandlerInformed(h) ==
  /\ h.pc \in {"prune", "save"} => h.tx \in Tx
  /\ h.pc \notin {"idle", "prune", "save"} => h.id \in Prep /\ issued[h.id] \in Tx
  /\ h.pc \in {"confirm", "insert"} => issued[h.id] \in accepted

HandlersInformed == \A r \in Request : HandlerInformed(handler[r])

\* A pass that is to confirm a workflow saw its payment accepted.
PassInformed(w) ==
  /\ w.pc \notin {"idle", "next"} => w.id \in Prep
  /\ w.pc \in {"claimConfirmed", "insert"} => issued[w.id] \in accepted

PassesInformed == \A c \in Replica : PassInformed(pass[c])

\* A coin that an accepted payment spent is not spent again by the mempool.
CoinsSpentOnce == \A t \in mempool, u \in accepted : t.coin # u.coin

IInv ==
  /\ TypeOK
  /\ RowsIssued
  /\ HandlersInformed
  /\ PassesInformed
  /\ CoinsSpentOnce
  /\ ReceiptBacked
  /\ ConfirmedBacked

-----------------------------------------------------------------------------
\* The empty tables and resting processes of a fresh deployment satisfy IInv.
THEOREM InitIInv == Init => IInv
  BY IdsArePositive, BoundsAreNaturals, NoTxIsNone
  DEF Init, IInv, TypeOK, RowsIssued, HandlersInformed, HandlerInformed,
      PassesInformed, PassInformed,
      CoinsSpentOnce, ReceiptBacked, ConfirmedBacked, Idle, HandlerState,
      Resting, PassState, NoWorkflow, WorkflowRow, Answer

\* The transaction of an id never changes, and acceptance is never withdrawn:
\* what a process read about either stays true.
LEMMA EvidenceStable ==
  IInv /\ [Next]_vars =>
    /\ \A p \in Prep : issued[p] \in Tx => issued'[p] = issued[p]
    /\ accepted \subseteq accepted'
<1> SUFFICES ASSUME IInv, [Next]_vars
             PROVE  /\ \A p \in Prep : issued[p] \in Tx => issued'[p] = issued[p]
                    /\ accepted \subseteq accepted'
  OBVIOUS
<1>1. CASE \E r \in Request : PrepareSave(r)
  BY <1>1, NoTxIsNone DEF PrepareSave, IInv, TypeOK, chain
<1>2. CASE \E t \in Tx : ChainAccepts(t)
  BY <1>2 DEF ChainAccepts, db
<1>3. CASE UNCHANGED issued /\ UNCHANGED accepted
  BY <1>3
<1>4. \/ \E r \in Request : PrepareSave(r)
      \/ \E t \in Tx : ChainAccepts(t)
      \/ UNCHANGED issued /\ UNCHANGED accepted
  BY DEF Next, vars, db, chain, Prepare, Finalize, Reconcile, Chain,
         PrepareRead, PreparePrune, FinalizeRead, FinalizeWorkflow,
         SubmitAdmitted, SubmitRefused, SubmitThrows, SubmitAnswerLost,
         Admit, StatusAccepted, StatusUnknown, SavePending, RejectWorkflow,
         RejectPrepared, SaveConfirmed, InsertReceipt, CleanUp,
         FinalizePurchase, ScanPending, ReadPrepared, EndPass,
         ReconcileAccepted, ReconcileUnknown, Claim, ReconcileInsert,
         ReconcileDelete, HandlerFails, PassFails, DeletePost, ChainDrops, Tick
<1> QED
  BY <1>1, <1>2, <1>3, <1>4

-----------------------------------------------------------------------------
(* Most steps only move one process; the rest of the state is read *)

\* A step that only moves a request, to a state it is informed about, keeps IInv.
LEMMA HandlerMoves ==
  ASSUME IInv, NEW r \in Request, NEW h \in HandlerState, HandlerInformed(h),
         Proceed(r, h), UNCHANGED <<clock, db, chain, pass, told>>, faults' \in Nat
  PROVE  IInv'
  BY DEF IInv, TypeOK, RowsIssued, HandlersInformed, HandlerInformed,
         PassesInformed, PassInformed, CoinsSpentOnce, ReceiptBacked,
         ConfirmedBacked, Proceed, db, chain

\* The same for a reconciler pass.
LEMMA PassMoves ==
  ASSUME IInv, NEW c \in Replica, NEW w \in PassState, PassInformed(w),
         Advance(c, w), UNCHANGED <<clock, db, chain, handler, told>>,
         faults' \in Nat
  PROVE  IInv'
  BY DEF IInv, TypeOK, RowsIssued, HandlersInformed, HandlerInformed,
         PassesInformed, PassInformed, CoinsSpentOnce, ReceiptBacked,
         ConfirmedBacked, Advance, db, chain

\* A request that ends, whatever its answer, claims nothing.
LEMMA IdleInformed == Idle \in HandlerState /\ HandlerInformed(Idle)
  BY NoTxIsNone DEF Idle, HandlerState, HandlerInformed

\* Neither does a pass at rest.
LEMMA RestingInformed == Resting \in PassState /\ PassInformed(Resting)
  BY DEF Resting, PassState, PassInformed

\* A request or pass that moves on with the payment it holds.
LEMMA HandlerStep ==
  ASSUME IInv, NEW r \in Request, NEW pc \in {"status", "pending", "confirm",
           "rejectWorkflow", "rejectPrepared", "submit"},
         handler[r].pc \notin {"idle", "prune", "save"},
         pc = "confirm" => issued[handler[r].id] \in accepted
  PROVE  LET h == [handler[r] EXCEPT !.pc = pc] IN
         h \in HandlerState /\ HandlerInformed(h)
  BY DEF IInv, TypeOK, HandlersInformed, HandlerInformed, HandlerState

\* POST /api/posts/:id/payments/prepare keeps IInv: a fresh id gets a transaction.
LEMMA PrepareIInv ==
  ASSUME IInv, NEW r \in Request, Prepare(r)
  PROVE  IInv'
<1>1. CASE PrepareRead(r)
  <2>1. PICK t \in Tx : Proceed(r, [pc |-> "prune", id |-> 0, tx |-> t])
    BY <1>1 DEF PrepareRead
  <2>2. /\ [pc |-> "prune", id |-> 0, tx |-> t] \in HandlerState
        /\ HandlerInformed([pc |-> "prune", id |-> 0, tx |-> t])
    BY DEF HandlerState, HandlerInformed
  <2> QED
    BY <1>1, <2>1, <2>2, HandlerMoves DEF PrepareRead, IInv, TypeOK
<1>2. CASE PreparePrune(r)
  BY <1>2 DEF PreparePrune, Proceed, Pruned, IInv, TypeOK, RowsIssued,
     HandlersInformed, HandlerInformed, HandlerState, PassesInformed,
     PassInformed, CoinsSpentOnce, ReceiptBacked, ConfirmedBacked, chain
<1>3. CASE PrepareSave(r)
  <2> DEFINE t == handler[r].tx
  <2>1. PICK p \in Prep :
          /\ issued[p] = NoTx
          /\ prepared' = [prepared EXCEPT ![p] = clock + PreparedTtl]
          /\ issued' = [issued EXCEPT ![p] = t]
    BY <1>3 DEF PrepareSave
  <2>2. t \in Tx
    BY <1>3 DEF PrepareSave, IInv, HandlersInformed, HandlerInformed
  <2>3. \A q \in Prep : issued[q] \in Tx => issued'[q] = issued[q]
    BY <2>1, NoTxIsNone DEF IInv, TypeOK
  <2>4. /\ Proceed(r, Idle)
        /\ UNCHANGED <<clock, posts, workflows, purchases, mempool, accepted,
                       pass, told, faults>>
    BY <1>3 DEF PrepareSave, chain
  <2>5. TypeOK' /\ RowsIssued'
    BY <2>1, <2>2, <2>4, IdleInformed, TtlIsPositive
    DEF IInv, TypeOK, RowsIssued, Proceed
  <2>6. HandlersInformed'
    BY <2>3, <2>4, IdleInformed
    DEF IInv, TypeOK, HandlersInformed, HandlerInformed, Proceed, Idle
  <2>7. PassesInformed' /\ CoinsSpentOnce' /\ ReceiptBacked' /\ ConfirmedBacked'
    BY <2>3, <2>4
    DEF IInv, TypeOK, PassesInformed, PassInformed, CoinsSpentOnce,
        ReceiptBacked, ConfirmedBacked
  <2> QED
    BY <2>5, <2>6, <2>7 DEF IInv
<1> QED
  BY <1>1, <1>2, <1>3 DEF Prepare

-----------------------------------------------------------------------------
(* The store operations *)

\* finalizePurchase of an accepted, issued payment keeps the tables as they
\* must be.
LEMMA FinalizePurchaseIInv ==
  ASSUME IInv, NEW p \in Prep, issued[p] \in accepted, FinalizePurchase(p),
         UNCHANGED <<clock, chain, told, faults>>
  PROVE  /\ purchases' \subseteq Tx /\ prepared' \in [Prep -> Nat]
         /\ RowsIssued' /\ ReceiptBacked' /\ ConfirmedBacked' /\ CoinsSpentOnce'
<1>1. /\ purchases' \subseteq purchases \cup {issued[p]}
      /\ prepared' = [prepared EXCEPT ![p] = 0]
      /\ UNCHANGED <<issued, workflows, mempool, accepted>>
  BY DEF FinalizePurchase, chain
<1> QED
  BY <1>1 DEF IInv, TypeOK, RowsIssued, ReceiptBacked, ConfirmedBacked,
     CoinsSpentOnce

\* A saved row is a row; it is CONFIRMED only if it was saved so.
LEMMA SaveWorkflowRow ==
  ASSUME IInv, NEW p \in Prep, NEW state \in {"SUBMITTED", "CONFIRMED"},
         SaveWorkflow(p, state)
  PROVE  /\ workflows' \in [Prep -> WorkflowRow]
         /\ \A q \in Prep : workflows'[q].state = "CONFIRMED" =>
              \/ workflows[q].state = "CONFIRMED"
              \/ q = p /\ state = "CONFIRMED"
  BY DEF SaveWorkflow, Upserted, IInv, TypeOK, WorkflowRow

\* A deleted row confirms nothing.
LEMMA DeleteWorkflowRow ==
  ASSUME IInv, NEW p, DeleteWorkflow(p)
  PROVE  /\ workflows' \in [Prep -> WorkflowRow]
         /\ \A q \in Prep : workflows'[q].state = "CONFIRMED" =>
              workflows[q].state = "CONFIRMED"
  BY DEF DeleteWorkflow, NoWorkflow, IInv, TypeOK, WorkflowRow

\* A step of a request that writes the workflow table, and nothing of a payment.
LEMMA HandlerWritesWorkflow ==
  ASSUME IInv, NEW r \in Request, NEW h \in HandlerState, HandlerInformed(h),
         Proceed(r, h),
         UNCHANGED <<clock, posts, prepared, issued, purchases, chain, pass, faults>>,
         told' \in [Prep -> Answer], workflows' \in [Prep -> WorkflowRow],
         ConfirmedBacked'
  PROVE  IInv'
  BY DEF IInv, TypeOK, RowsIssued, HandlersInformed, HandlerInformed,
         PassesInformed, PassInformed, CoinsSpentOnce, ReceiptBacked,
         Proceed, chain

\* The same for a step of a reconciler pass.
LEMMA PassWritesWorkflow ==
  ASSUME IInv, NEW c \in Replica, NEW w \in PassState, PassInformed(w),
         Advance(c, w),
         UNCHANGED <<clock, posts, prepared, issued, purchases, chain, handler,
                     told, faults>>,
         workflows' \in [Prep -> WorkflowRow], ConfirmedBacked'
  PROVE  IInv'
  BY DEF IInv, TypeOK, RowsIssued, HandlersInformed, HandlerInformed,
         PassesInformed, PassInformed, CoinsSpentOnce, ReceiptBacked,
         Advance, chain

-----------------------------------------------------------------------------
\* POST /api/payments/:id/finalize keeps IInv: every way to "insert" passes through
\* the chain's acceptance or a CONFIRMED row.
LEMMA FinalizeIInv ==
  ASSUME IInv, NEW r \in Request, Finalize(r)
  PROVE  IInv'
<1> DEFINE p == handler[r].id
<1>0. /\ handler[r] \in HandlerState /\ HandlerInformed(handler[r])
      /\ faults \in Nat
  BY DEF IInv, TypeOK, HandlersInformed
<1>1. CASE FinalizeRead(r)
  <2>1. PICK q \in Prep :
          /\ PreparedAlive(q, clock)
          /\ Proceed(r, [Idle EXCEPT !.pc = "workflow", !.id = q])
    BY <1>1 DEF FinalizeRead
  <2>2. issued[q] \in Tx
    BY <2>1 DEF PreparedAlive, IInv, TypeOK, RowsIssued
  <2>3. /\ [Idle EXCEPT !.pc = "workflow", !.id = q] \in HandlerState
        /\ HandlerInformed([Idle EXCEPT !.pc = "workflow", !.id = q])
    BY <2>2 DEF Idle, HandlerState, HandlerInformed
  <2> QED
    BY <1>0, <1>1, <2>1, <2>3, HandlerMoves DEF FinalizeRead
<1>2. CASE FinalizeWorkflow(r)
  <2>1. PICK pc \in {"submit", "confirm", "status"} :
          /\ Proceed(r, [handler[r] EXCEPT !.pc = pc])
          /\ pc = "confirm" => workflows[p].state = "CONFIRMED"
    BY <1>2 DEF FinalizeWorkflow
  <2>2. handler[r].pc = "workflow" /\ p \in Prep
    BY <1>0, <1>2 DEF FinalizeWorkflow, HandlerInformed
  <2>3. pc = "confirm" => issued[p] \in accepted
    BY <2>1, <2>2 DEF IInv, ConfirmedBacked
  <2> QED
    BY <1>0, <1>2, <2>1, <2>2, <2>3, HandlerStep, HandlerMoves
    DEF FinalizeWorkflow
<1>3. CASE SubmitAdmitted(r) \/ SubmitAnswerLost(r)
  <2>1. /\ handler[r].pc = "submit" /\ p \in Prep /\ issued[p] \in Tx
        /\ Admit(issued[p])
        /\ UNCHANGED <<clock, db, pass, told>>
    BY <1>0, <1>3 DEF SubmitAdmitted, SubmitAnswerLost, HandlerInformed
  <2>2. faults' \in Nat
    BY <1>0, <1>3 DEF SubmitAdmitted, SubmitAnswerLost
  <2>3. mempool' \subseteq Tx /\ CoinsSpentOnce' /\ accepted' = accepted
    BY <2>1 DEF Admit, Admissible, CoinsSpentOnce, IInv, TypeOK
  <2>4. PICK pc \in {"status", "rejectWorkflow"} :
          Proceed(r, [handler[r] EXCEPT !.pc = pc])
    BY <1>3 DEF SubmitAdmitted, SubmitAnswerLost
  <2>5. /\ [handler[r] EXCEPT !.pc = pc] \in HandlerState
        /\ HandlerInformed([handler[r] EXCEPT !.pc = pc])
    BY <2>1, <2>4, HandlerStep
  <2> QED
    BY <2>1, <2>2, <2>3, <2>4, <2>5
    DEF IInv, TypeOK, RowsIssued, HandlersInformed, HandlerInformed,
        PassesInformed, PassInformed, ReceiptBacked, ConfirmedBacked,
        Proceed, db
<1>4. CASE SubmitRefused(r)
  BY <1>0, <1>4, HandlerStep, HandlerMoves DEF SubmitRefused
<1>5. CASE SubmitThrows(r)
  BY <1>0, <1>5, IdleInformed, HandlerMoves DEF SubmitThrows
<1>6. CASE StatusAccepted(r)
  BY <1>0, <1>6, HandlerStep, HandlerMoves DEF StatusAccepted
<1>7. CASE StatusUnknown(r)
  BY <1>0, <1>7, HandlerStep, HandlerMoves DEF StatusUnknown
<1>8. CASE SavePending(r)
  <2>1. p \in Prep /\ SaveWorkflow(p, "SUBMITTED") /\ Proceed(r, Idle)
    BY <1>0, <1>8 DEF SavePending, HandlerInformed
  <2>2. UNCHANGED <<clock, posts, prepared, issued, purchases, chain, pass,
                    told, faults>>
    BY <1>8 DEF SavePending
  <2>3. workflows' \in [Prep -> WorkflowRow] /\ ConfirmedBacked'
    BY <2>1, <2>2, SaveWorkflowRow DEF IInv, ConfirmedBacked, chain
  <2> QED
    BY <2>1, <2>2, <2>3, IdleInformed, HandlerWritesWorkflow DEF IInv, TypeOK
<1>9. CASE RejectWorkflow(r)
  <2>1. /\ [handler[r] EXCEPT !.pc = "rejectPrepared"] \in HandlerState
        /\ HandlerInformed([handler[r] EXCEPT !.pc = "rejectPrepared"])
    BY <1>9, HandlerStep DEF RejectWorkflow
  <2>2. workflows' \in [Prep -> WorkflowRow] /\ ConfirmedBacked'
    BY <1>9, DeleteWorkflowRow DEF RejectWorkflow, IInv, ConfirmedBacked, chain
  <2> QED
    BY <1>9, <2>1, <2>2, HandlerWritesWorkflow DEF RejectWorkflow, IInv, TypeOK
<1>10. CASE RejectPrepared(r)
  <2>1. /\ prepared' = [prepared EXCEPT ![p] = 0]
        /\ told' = [told EXCEPT ![p] = "rejected"]
        /\ Proceed(r, Idle)
        /\ UNCHANGED <<clock, posts, issued, workflows, purchases, mempool,
                       accepted, pass, faults>>
    BY <1>10 DEF RejectPrepared, Reply, chain
  <2> QED
    BY <2>1, IdleInformed
    DEF IInv, TypeOK, Answer, RowsIssued, HandlersInformed, HandlerInformed,
        PassesInformed, PassInformed, CoinsSpentOnce, ReceiptBacked,
        ConfirmedBacked, Proceed
<1>11. CASE SaveConfirmed(r)
  <2>1. /\ handler[r].pc = "confirm" /\ p \in Prep /\ issued[p] \in accepted
        /\ SaveWorkflow(p, "CONFIRMED")
        /\ Proceed(r, [handler[r] EXCEPT !.pc = "insert"])
        /\ UNCHANGED <<clock, posts, prepared, issued, purchases, chain, pass,
                       told, faults>>
    BY <1>0, <1>11 DEF SaveConfirmed, HandlerInformed
  <2>2. workflows' \in [Prep -> WorkflowRow] /\ ConfirmedBacked'
    BY <2>1, SaveWorkflowRow DEF IInv, ConfirmedBacked, chain
  <2>3. /\ [handler[r] EXCEPT !.pc = "insert"] \in HandlerState
        /\ HandlerInformed([handler[r] EXCEPT !.pc = "insert"])
    BY <1>0, <2>1 DEF HandlerState, HandlerInformed
  <2> QED
    BY <2>1, <2>2, <2>3, HandlerWritesWorkflow DEF IInv, TypeOK
<1>12. CASE InsertReceipt(r)
  <2>1. PICK pc \in {"cleanCreated", "cleanDuplicate"} :
          Proceed(r, [handler[r] EXCEPT !.pc = pc])
    BY <1>12 DEF InsertReceipt
  <2>2. /\ p \in Prep /\ issued[p] \in accepted /\ FinalizePurchase(p)
        /\ UNCHANGED <<clock, posts, issued, workflows, chain, pass, told, faults>>
    BY <1>0, <1>12 DEF InsertReceipt, HandlerInformed, FinalizePurchase
  <2>3. /\ [handler[r] EXCEPT !.pc = pc] \in HandlerState
        /\ HandlerInformed([handler[r] EXCEPT !.pc = pc])
    BY <1>0, <1>12, <2>1 DEF InsertReceipt, HandlerState, HandlerInformed
  <2>4. TypeOK'
    BY <2>1, <2>2, <2>3, FinalizePurchaseIInv DEF IInv, TypeOK, Proceed, chain
  <2>5. HandlersInformed' /\ PassesInformed'
    BY <2>1, <2>2, <2>3
    DEF IInv, TypeOK, HandlersInformed, HandlerInformed, PassesInformed,
        PassInformed, Proceed, chain
  <2> QED
    BY <2>2, <2>4, <2>5, FinalizePurchaseIInv DEF IInv
<1>13. CASE CleanUp(r)
  <2>1. told' \in [Prep -> Answer]
    BY <1>13 DEF CleanUp, Reply, IInv, TypeOK, Answer
  <2>2. workflows' \in [Prep -> WorkflowRow] /\ ConfirmedBacked'
    BY <1>13, DeleteWorkflowRow DEF CleanUp, IInv, ConfirmedBacked, chain
  <2> QED
    BY <1>13, <2>1, <2>2, IdleInformed, HandlerWritesWorkflow DEF CleanUp
<1> QED
  BY <1>1, <1>2, <1>3, <1>4, <1>5, <1>6, <1>7, <1>8, <1>9, <1>10, <1>11, <1>12,
     <1>13 DEF Finalize

\* A reconciler pass keeps IInv, although its list and clock are stale.
LEMMA ReconcileIInv ==
  ASSUME IInv, NEW c \in Replica, Reconcile(c)
  PROVE  IInv'
<1> DEFINE p == pass[c].id
<1>0. /\ pass[c] \in PassState /\ PassInformed(pass[c]) /\ faults \in Nat
      /\ clock \in Nat
  BY DEF IInv, TypeOK, PassesInformed
<1> DEFINE Rest == [pass[c] EXCEPT !.pc = "next", !.id = 0, !.since = 0]
<1>a. Rest \in PassState /\ PassInformed(Rest)
  BY <1>0 DEF PassState, PassInformed
<1>1. CASE ScanPending(c)
  <2> DEFINE w == [Resting EXCEPT !.pc = "next", !.now = clock,
                     !.todo = {<<q, workflows[q].submittedAt>> : q \in Pending}]
  <2>1. \A q \in Pending : q \in Prep /\ workflows[q].submittedAt \in Nat
    BY DEF Pending, IInv, TypeOK, WorkflowRow
  <2>2. {<<q, workflows[q].submittedAt>> : q \in Pending} \in SUBSET (Prep \X Nat)
    BY <2>1
  <2>3. w \in PassState /\ PassInformed(w)
    BY <1>0, <2>2 DEF Resting, PassState, PassInformed
  <2> QED
    BY <1>0, <1>1, <2>3, PassMoves DEF ScanPending
<1>2. CASE ReadPrepared(c)
  <2>1. PICK v \in pass[c].todo, pc \in {"status", "claimRejected"} :
          Advance(c, [pass[c] EXCEPT !.pc = pc, !.id = v[1], !.since = v[2],
                        !.todo = @ \ {v}])
    BY <1>2 DEF ReadPrepared
  <2> DEFINE w == [pass[c] EXCEPT !.pc = pc, !.id = v[1], !.since = v[2],
                     !.todo = @ \ {v}]
  <2>2. v[1] \in Prep /\ v[2] \in Nat
    BY <1>0 DEF PassState
  <2>3. w \in PassState /\ PassInformed(w)
    BY <1>0, <2>2 DEF PassState, PassInformed
  <2> QED
    BY <1>0, <1>2, <2>1, <2>3, PassMoves DEF ReadPrepared
<1>3. CASE EndPass(c)
  BY <1>0, <1>3, RestingInformed, PassMoves DEF EndPass
<1>4. CASE ReconcileAccepted(c)
  <2>1. /\ [pass[c] EXCEPT !.pc = "claimConfirmed"] \in PassState
        /\ PassInformed([pass[c] EXCEPT !.pc = "claimConfirmed"])
    BY <1>0, <1>4 DEF ReconcileAccepted, PassState, PassInformed
  <2> QED
    BY <1>0, <1>4, <2>1, PassMoves DEF ReconcileAccepted
<1>5. CASE ReconcileUnknown(c)
  <2>1. /\ [pass[c] EXCEPT !.pc = "claimRejected"] \in PassState
        /\ PassInformed([pass[c] EXCEPT !.pc = "claimRejected"])
    BY <1>0, <1>5 DEF ReconcileUnknown, PassState, PassInformed
  <2>2. \/ Advance(c, [pass[c] EXCEPT !.pc = "claimRejected"])
        \/ Advance(c, Rest)
    BY <1>5 DEF ReconcileUnknown, Continue
  <2> QED
    BY <1>0, <1>5, <1>a, <2>1, <2>2, PassMoves DEF ReconcileUnknown
<1>6. CASE Claim(c)
  <2>1. PICK state \in {"CONFIRMED", "REJECTED"} :
          /\ ClaimTerminal(c, state)
          /\ pass[c].pc = IF state = "CONFIRMED" THEN "claimConfirmed"
                                                 ELSE "claimRejected"
    BY <1>6 DEF Claim
  <2>2. p \in Prep /\ (state = "CONFIRMED" => issued[p] \in accepted)
    BY <1>0, <2>1 DEF PassInformed
  <2>3. /\ workflows' \in [Prep -> WorkflowRow]
        /\ \A q \in Prep : workflows'[q].state = "CONFIRMED" =>
             \/ workflows[q].state = "CONFIRMED"
             \/ q = p /\ state = "CONFIRMED"
    <3> DEFINE row == [workflows[p] EXCEPT !.state = state, !.finalized = TRUE]
    <3>1. \/ workflows' = [workflows EXCEPT ![p] = row]
          \/ workflows' = workflows
      BY <2>1 DEF ClaimTerminal
    <3>2. workflows \in [Prep -> WorkflowRow]
      BY DEF IInv, TypeOK
    <3>3. row \in WorkflowRow /\ row.state = state
      BY <2>2, <3>2 DEF WorkflowRow
    <3>4. CASE workflows' = [workflows EXCEPT ![p] = row]
      <4> HIDE DEF row
      <4> QED
        BY <2>2, <3>2, <3>3, <3>4
    <3>5. CASE workflows' = workflows
      BY <3>2, <3>5
    <3> QED
      BY <3>1, <3>4, <3>5
  <2>4. ConfirmedBacked'
    BY <1>6, <2>2, <2>3 DEF Claim, IInv, ConfirmedBacked, chain
  <2> DEFINE w == [pass[c] EXCEPT !.pc = IF state = "CONFIRMED"
                                           THEN "insert" ELSE "delete"]
  <2>5. Advance(c, w) \/ Advance(c, Rest)
    BY <2>1 DEF ClaimTerminal, Continue
  <2>6. w \in PassState /\ PassInformed(w)
    BY <1>0, <2>2 DEF PassState, PassInformed
  <2>7. UNCHANGED <<clock, posts, prepared, issued, purchases, chain, handler,
                    told, faults>>
    BY <1>6 DEF Claim
  <2>8. CASE Advance(c, w)
    BY <2>3, <2>4, <2>6, <2>7, <2>8, PassWritesWorkflow
  <2>9. CASE Advance(c, Rest)
    BY <1>a, <2>3, <2>4, <2>7, <2>9, PassWritesWorkflow
  <2> QED
    BY <2>5, <2>8, <2>9
<1>7. CASE ReconcileInsert(c)
  <2> DEFINE w == [pass[c] EXCEPT !.pc = "delete"]
  <2>1. /\ p \in Prep /\ issued[p] \in accepted /\ FinalizePurchase(p)
        /\ Advance(c, w)
        /\ UNCHANGED <<clock, posts, issued, workflows, chain, handler, told,
                       faults>>
    BY <1>0, <1>7 DEF ReconcileInsert, PassInformed, FinalizePurchase
  <2>2. w \in PassState /\ PassInformed(w)
    BY <1>0, <2>1 DEF PassState, PassInformed
  <2>3. TypeOK'
    BY <2>1, <2>2, FinalizePurchaseIInv DEF IInv, TypeOK, Advance, chain
  <2>4. HandlersInformed' /\ PassesInformed'
    BY <2>1, <2>2
    DEF IInv, TypeOK, HandlersInformed, HandlerInformed, PassesInformed,
        PassInformed, Advance, chain
  <2> QED
    BY <2>1, <2>3, <2>4, FinalizePurchaseIInv DEF IInv
<1>8. CASE ReconcileDelete(c)
  <2>1. workflows' \in [Prep -> WorkflowRow] /\ ConfirmedBacked'
    BY <1>8, DeleteWorkflowRow DEF ReconcileDelete, IInv, ConfirmedBacked, chain
  <2> QED
    BY <1>8, <1>a, <2>1, PassWritesWorkflow DEF ReconcileDelete, Continue
<1> QED
  BY <1>1, <1>2, <1>3, <1>4, <1>5, <1>6, <1>7, <1>8 DEF Reconcile

\* Failures, the deletion of a post, the chain and time keep IInv.
LEMMA EnvironmentIInv ==
  ASSUME IInv,
         \/ \E r \in Request : HandlerFails(r)
         \/ \E c \in Replica : PassFails(c)
         \/ \E d \in Post : DeletePost(d)
         \/ Chain
         \/ Tick
  PROVE  IInv'
<1>1. CASE \E r \in Request : HandlerFails(r)
  BY <1>1, IdleInformed, HandlerMoves DEF HandlerFails, IInv, TypeOK
<1>2. ASSUME NEW c \in Replica, PassFails(c) PROVE IInv'
  <2> DEFINE Rest == [pass[c] EXCEPT !.pc = "next", !.id = 0, !.since = 0]
  <2>1. Rest \in PassState /\ PassInformed(Rest)
    BY DEF IInv, TypeOK, PassState, PassInformed
  <2> QED
    <3>1. /\ Advance(c, Rest) \/ Advance(c, Resting)
          /\ UNCHANGED <<clock, db, chain, handler, told>>
      BY <1>2 DEF PassFails, Continue
    <3>4. faults' \in Nat
      BY <1>2 DEF PassFails, IInv, TypeOK
    <3>2. CASE Advance(c, Rest)
      BY <2>1, <3>1, <3>2, <3>4, PassMoves
    <3>3. CASE Advance(c, Resting)
      BY <3>1, <3>3, <3>4, RestingInformed, PassMoves
    <3> QED
      BY <3>1, <3>2, <3>3
<1>3. CASE \E d \in Post : DeletePost(d)
  BY <1>3
  DEF DeletePost, IInv, TypeOK, RowsIssued, HandlersInformed, HandlerInformed,
      PassesInformed, PassInformed, CoinsSpentOnce, ReceiptBacked,
      ConfirmedBacked, chain
<1>4. CASE Chain
  BY <1>4
  DEF Chain, ChainAccepts, ChainDrops, IInv, TypeOK, RowsIssued,
      HandlersInformed, HandlerInformed, PassesInformed, PassInformed,
      CoinsSpentOnce, ReceiptBacked, ConfirmedBacked, db
<1>5. CASE Tick
  BY <1>5
  DEF Tick, IInv, TypeOK, RowsIssued, HandlersInformed, HandlerInformed,
      PassesInformed, PassInformed, CoinsSpentOnce, ReceiptBacked,
      ConfirmedBacked, db, chain
<1> QED
  BY <1>1, <1>2, <1>3, <1>4, <1>5

\* So does a step of something else.
LEMMA StutterIInv == IInv /\ UNCHANGED vars => IInv'
  BY DEF vars, db, chain, IInv, TypeOK, RowsIssued, HandlersInformed,
         HandlerInformed, PassesInformed, PassInformed, CoinsSpentOnce,
         ReceiptBacked, ConfirmedBacked

\* IInv is inductive.
LEMMA NextIInv == IInv /\ [Next]_vars => IInv'
  BY PrepareIInv, FinalizeIInv, ReconcileIInv, EnvironmentIInv, StutterIInv
  DEF Next

-----------------------------------------------------------------------------
(* The invariants of the specification *)

\* IInv holds in every reachable state: whatever a request or a pass still acts
\* on was true when it was read and cannot have become false since.
THEOREM Invariance == Spec => []IInv
  BY InitIInv, NextIInv, PTL DEF Spec

\* Every table row, process and message keeps its shape (TypeOK), whatever the
\* number of requests, passes, payments and failures.
THEOREM TypeCorrect == Spec => []TypeOK
  BY Invariance, PTL DEF IInv

\* A row of table purchases is always backed by a payment that this server
\* prepared and the chain accepted, whoever wrote it.
THEOREM ReceiptsBacked == Spec => []ReceiptBacked
  BY Invariance, PTL DEF IInv

\* A CONFIRMED workflow row always stands for an accepted payment, which is why
\* the handler may write the receipt from it without asking the chain.
THEOREM ConfirmationsBacked == Spec => []ConfirmedBacked
  BY Invariance, PTL DEF IInv

-----------------------------------------------------------------------------
(* What a step can do to posts, receipts and the chain *)

\* Only the two writers of receipts, the deletion of a post and the chain touch
\* what a buyer cares about.
LEMMA Effects ==
  [Next]_vars =>
    \/ UNCHANGED <<posts, accepted, purchases>>
    \/ \E r \in Request : InsertReceipt(r)
    \/ \E c \in Replica : ReconcileInsert(c)
    \/ \E d \in Post : DeletePost(d)
    \/ \E t \in Tx : ChainAccepts(t)
  BY DEF Next, vars, db, chain, Prepare, Finalize, Reconcile, Chain,
         PrepareRead, PreparePrune, PrepareSave, FinalizeRead, FinalizeWorkflow,
         SubmitAdmitted, SubmitRefused, SubmitThrows, SubmitAnswerLost,
         Admit, StatusAccepted, StatusUnknown, SavePending, RejectWorkflow,
         RejectPrepared, SaveConfirmed, CleanUp, ScanPending, ReadPrepared,
         EndPass, ReconcileAccepted, ReconcileUnknown, Claim, ReconcileDelete,
         HandlerFails, PassFails, ChainDrops, Tick

\* A receipt that is written is the payment of the id, and the first of its buyer
\* for its post.
LEMMA FinalizeGrants ==
  ASSUME IInv, NEW p \in Prep, issued[p] \in accepted, FinalizePurchase(p),
         UNCHANGED accepted
  PROVE  [Promise!Next]_(Promise!vars)
<1>1. issued[p] \in Tx
  BY DEF IInv, TypeOK
<1>2. CASE InsertCollides(issued[p])
  BY <1>2 DEF FinalizePurchase, Promise!vars
<1>3. CASE ~ InsertCollides(issued[p])
  <2>1. Promise!Grant(issued[p])
    BY <1>3 DEF FinalizePurchase, InsertCollides, HasReceipt, Promise!Grant
  <2> QED
    BY <1>1, <2>1 DEF Promise!Next, Promise!Tx, Tx
<1> QED
  BY <1>2, <1>3

\* Every step of the system is a step of the promise, or none.
LEMMA StepRefines == IInv /\ [Next]_vars => [Promise!Next]_(Promise!vars)
<1> SUFFICES ASSUME IInv, [Next]_vars
             PROVE  [Promise!Next]_(Promise!vars)
  OBVIOUS
<1>1. CASE UNCHANGED <<posts, accepted, purchases>>
  BY <1>1 DEF Promise!vars
<1>2. ASSUME NEW r \in Request, InsertReceipt(r)
      PROVE  [Promise!Next]_(Promise!vars)
  <2>1. handler[r].id \in Prep /\ issued[handler[r].id] \in accepted
    BY <1>2 DEF InsertReceipt, IInv, HandlersInformed, HandlerInformed
  <2> QED
    BY <1>2, <2>1, FinalizeGrants DEF InsertReceipt, chain
<1>3. ASSUME NEW c \in Replica, ReconcileInsert(c)
      PROVE  [Promise!Next]_(Promise!vars)
  <2>1. pass[c].id \in Prep /\ issued[pass[c].id] \in accepted
    BY <1>3 DEF ReconcileInsert, IInv, PassesInformed, PassInformed
  <2> QED
    BY <1>3, <2>1, FinalizeGrants DEF ReconcileInsert, chain
<1>4. ASSUME NEW d \in Post, DeletePost(d)
      PROVE  [Promise!Next]_(Promise!vars)
  BY <1>4 DEF DeletePost, chain, Promise!Withdraw, Promise!Next
<1>5. ASSUME NEW t \in Tx, ChainAccepts(t)
      PROVE  [Promise!Next]_(Promise!vars)
  <2>1. Promise!Pay(t)
    BY <1>5 DEF ChainAccepts, db, Promise!Pay, IInv, CoinsSpentOnce
  <2> QED
    BY <2>1 DEF Promise!Next, Promise!Tx, Tx
<1> QED
  BY <1>1, <1>2, <1>3, <1>4, <1>5, Effects

\* The handlers, the reconcilers and the chain together implement what
\* pay-per-view promises: PromiseKept, for all values of the constants.
THEOREM Refinement == Spec => PromiseKept
<1>1. Init => Promise!Init
  BY DEF Init, Promise!Init
<1> QED
  BY <1>1, StepRefines, Invariance, PTL DEF Spec, PromiseKept, Promise!Spec

-----------------------------------------------------------------------------
(* What the promise is worth to a buyer *)

\* A receipt goes only with the post it unlocks.
ReceiptsKept == \A t \in purchases : t \in purchases' \/ t.post \notin posts'

\* A buyer holds one receipt of a post, and no coin pays twice.
PaidOnce ==
  /\ \A t, u \in purchases : t.post = u.post /\ t.buyer = u.buyer => t = u
  /\ \A t, u \in accepted : t.coin = u.coin => t = u

LEMMA PaidOnceStep == PaidOnce /\ [Promise!Next]_(Promise!vars) => PaidOnce'
<1> SUFFICES ASSUME PaidOnce, [Promise!Next]_(Promise!vars) PROVE PaidOnce'
  OBVIOUS
<1>1. ASSUME NEW t, Promise!Pay(t) PROVE PaidOnce'
  BY <1>1 DEF PaidOnce, Promise!Pay
<1>2. ASSUME NEW t, Promise!Grant(t) PROVE PaidOnce'
  <2>1. \A u \in purchases : ~ (u.post = t.post /\ u.buyer = t.buyer)
    BY <1>2 DEF Promise!Grant
  <2> QED
    BY <1>2, <2>1 DEF PaidOnce, Promise!Grant
<1>3. ASSUME NEW d, Promise!Withdraw(d) PROVE PaidOnce'
  BY <1>3 DEF PaidOnce, Promise!Withdraw
<1>4. CASE UNCHANGED Promise!vars
  BY <1>4 DEF PaidOnce, Promise!vars
<1> QED
  BY <1>1, <1>2, <1>3, <1>4 DEF Promise!Next

\* Whatever requests, reconcilers and the chain do, nobody has two receipts of one post,
\* and the accepted payments spend different coins.
THEOREM BuyersPayOnce == Spec => []PaidOnce
<1>1. Init => PaidOnce
  BY DEF Init, PaidOnce
<1>2. IInv /\ PaidOnce /\ [Next]_vars => PaidOnce'
  BY StepRefines, PaidOnceStep
<1> QED
  BY <1>1, <1>2, Invariance, PTL DEF Spec

\* No step takes a receipt from its buyer while the post is there.
THEOREM ReceiptsStay == Spec => [][ReceiptsKept]_<<posts, accepted, purchases>>
<1>1. IInv /\ [Next]_vars => [ReceiptsKept]_<<posts, accepted, purchases>>
  <2> SUFFICES ASSUME IInv, [Next]_vars PROVE [ReceiptsKept]_<<posts, accepted, purchases>>
    OBVIOUS
  <2>1. [Promise!Next]_(Promise!vars)
    BY StepRefines
  <2> QED
    BY <2>1 DEF Promise!Next, Promise!Pay, Promise!Grant, Promise!Withdraw, Promise!vars,
                ReceiptsKept
<1> QED
  BY <1>1, Invariance, PTL DEF Spec

-----------------------------------------------------------------------------
(* What a buyer was told stays true *)

\* Once a buyer has the receipt, only the deletion of the post takes it away.
LEMMA SettledStable ==
  ASSUME IInv, [Next]_vars, NEW p \in Prep, Settled(p)
  PROVE  Settled(p)'
<1>1. issued[p] \in Tx /\ issued'[p] = issued[p] /\ issued'[p] # NoTx
  BY EvidenceStable, NoTxIsNone DEF Settled, IInv, TypeOK
<1>2. CASE UNCHANGED <<posts, accepted, purchases>>
  BY <1>1, <1>2 DEF Settled, HasReceipt
<1>3. CASE \/ \E r \in Request : InsertReceipt(r)
           \/ \E c \in Replica : ReconcileInsert(c)
  <2>1. posts' = posts /\ purchases \subseteq purchases'
    BY <1>3 DEF InsertReceipt, ReconcileInsert, FinalizePurchase
  <2> QED
    BY <1>1, <2>1 DEF Settled, HasReceipt
<1>4. CASE \E d \in Post : DeletePost(d)
  BY <1>1, <1>4 DEF DeletePost, Settled, HasReceipt
<1>5. CASE \E t \in Tx : ChainAccepts(t)
  BY <1>1, <1>5 DEF ChainAccepts, db, Settled, HasReceipt
<1> QED
  BY <1>2, <1>3, <1>4, <1>5, Effects

\* A request that has inserted the receipt, or found one, answers from it.
HandlersSettled ==
  \A r \in Request :
    handler[r].pc \in {"cleanCreated", "cleanDuplicate"} => Settled(handler[r].id)

\* The answers and the requests about to answer keep what they say.
LEMMA AnswersStep ==
  IInv /\ HandlersSettled /\ AnswersKept /\ [Next]_vars
    => HandlersSettled' /\ AnswersKept'
<1> SUFFICES ASSUME IInv, HandlersSettled, AnswersKept, [Next]_vars
             PROVE  HandlersSettled' /\ AnswersKept'
  OBVIOUS
<1>1. ASSUME NEW r \in Request, InsertReceipt(r)
      PROVE  HandlersSettled' /\ AnswersKept'
  <2> DEFINE p == handler[r].id
  <2>1. p \in Prep /\ issued[p] \in Tx /\ handler'[r].id = p
    BY <1>1 DEF InsertReceipt, Proceed, IInv, TypeOK, HandlersInformed,
                HandlerInformed, HandlerState
  <2>2. Settled(p)'
    BY <1>1, <2>1, NoTxIsNone
    DEF InsertReceipt, FinalizePurchase, InsertCollides, HasReceipt, Settled
  <2>3. /\ \A s \in Request \ {r} : handler'[s] = handler[s]
        /\ told' = told
    BY <1>1 DEF InsertReceipt, Proceed, IInv, TypeOK
  <2>4. \A s \in Request : HandlerInformed(handler[s])
    BY DEF IInv, HandlersInformed
  <2> QED
    BY <2>1, <2>2, <2>3, <2>4, SettledStable
    DEF HandlersSettled, AnswersKept, HandlerInformed
<1>2. ASSUME NEW r \in Request, CleanUp(r)
      PROVE  HandlersSettled' /\ AnswersKept'
  <2> DEFINE p == handler[r].id
  <2>1. p \in Prep /\ Settled(p)
    BY <1>2 DEF CleanUp, IInv, HandlersInformed, HandlerInformed,
                HandlersSettled
  <2>2. \A q \in Prep \ {p} : told'[q] = told[q]
    BY <1>2 DEF CleanUp, Reply, IInv, TypeOK
  <2>3. AnswersKept'
    BY <2>1, <2>2, SettledStable DEF AnswersKept
  <2>4. \A s \in Request :
          handler'[s].pc \in {"cleanCreated", "cleanDuplicate"} =>
            handler'[s] = handler[s] /\ handler[s].id \in Prep
    BY <1>2 DEF CleanUp, Proceed, Idle, IInv, TypeOK, HandlersInformed,
                HandlerInformed
  <2> QED
    BY <2>3, <2>4, SettledStable DEF HandlersSettled
<1>3. ASSUME /\ \A s \in Request :
                  handler'[s].pc \in {"cleanCreated", "cleanDuplicate"} =>
                    handler'[s] = handler[s]
             /\ \A q \in Prep : told'[q] \in {"confirmed", "exists"} =>
                  told'[q] = told[q]
      PROVE  HandlersSettled' /\ AnswersKept'
  <2>1. \A s \in Request :
          handler[s].pc \in {"cleanCreated", "cleanDuplicate"} =>
            handler[s].id \in Prep
    BY DEF IInv, HandlersInformed, HandlerInformed
  <2> QED
    BY <1>3, <2>1, SettledStable DEF HandlersSettled, AnswersKept
<1>4. ASSUME NEW r \in Request, Prepare(r) \/ Finalize(r) \/ HandlerFails(r),
             ~ InsertReceipt(r), ~ CleanUp(r)
      PROVE  HandlersSettled' /\ AnswersKept'
  <2>1. /\ \A s \in Request \ {r} : handler'[s] = handler[s]
        /\ handler'[r].pc \notin {"cleanCreated", "cleanDuplicate"}
    <3>1. handler \in [Request -> HandlerState]
      BY DEF IInv, TypeOK
    <3>2. CASE Prepare(r)
      <4>1. CASE PrepareRead(r)
        BY <3>1, <4>1 DEF PrepareRead, Proceed
      <4>2. CASE PreparePrune(r) \/ PrepareSave(r)
        BY <3>1, <4>2
        DEF PreparePrune, PrepareSave, Proceed, Idle, HandlerState
      <4> QED
        BY <3>2, <4>1, <4>2 DEF Prepare
    <3>3. CASE FinalizeRead(r)
      BY <3>1, <3>3 DEF FinalizeRead, Proceed, Idle
    <3>4. CASE FinalizeWorkflow(r)
      <4>1. PICK pc \in {"submit", "confirm", "status"} :
              Proceed(r, [handler[r] EXCEPT !.pc = pc])
        BY <3>4 DEF FinalizeWorkflow
      <4> QED
        BY <3>1, <4>1 DEF Proceed, HandlerState
    <3>5. CASE \/ SubmitAdmitted(r) \/ SubmitRefused(r) \/ SubmitThrows(r)
               \/ SubmitAnswerLost(r) \/ StatusAccepted(r) \/ StatusUnknown(r)
      BY <3>1, <3>5
      DEF SubmitAdmitted, SubmitRefused, SubmitThrows, SubmitAnswerLost,
          StatusAccepted, StatusUnknown, Proceed, Idle, HandlerState
    <3>6. CASE \/ SavePending(r) \/ RejectWorkflow(r) \/ RejectPrepared(r)
               \/ SaveConfirmed(r) \/ HandlerFails(r)
      BY <3>1, <3>6
      DEF SavePending, RejectWorkflow, RejectPrepared, SaveConfirmed,
          HandlerFails, Proceed, Idle, HandlerState
    <3> QED
      BY <1>4, <3>2, <3>3, <3>4, <3>5, <3>6 DEF Finalize
  <2>2. told' = told \/ told' = [told EXCEPT ![handler[r].id] = "rejected"]
    BY <1>4
    DEF Prepare, PrepareRead, PreparePrune, PrepareSave, Finalize, FinalizeRead,
        FinalizeWorkflow, SubmitAdmitted, SubmitRefused, SubmitThrows,
        SubmitAnswerLost, StatusAccepted, StatusUnknown, SavePending,
        RejectWorkflow, RejectPrepared, SaveConfirmed, HandlerFails, Reply
  <2> QED
    BY <1>3, <2>1, <2>2 DEF IInv, TypeOK
<1>5. CASE UNCHANGED <<handler, told>>
  BY <1>3, <1>5
<1>6. \/ \E r \in Request : Prepare(r) \/ Finalize(r) \/ HandlerFails(r)
      \/ UNCHANGED <<handler, told>>
  BY DEF Next, vars, Reconcile, ScanPending, ReadPrepared, EndPass,
         ReconcileAccepted, ReconcileUnknown, Claim, ReconcileInsert,
         ReconcileDelete, PassFails, DeletePost, Chain, ChainAccepts,
         ChainDrops, Tick
<1> QED
  BY <1>1, <1>2, <1>4, <1>5, <1>6

\* A buyer who was answered 201 CONFIRMED or 409 PURCHASE_EXISTS has the receipt
\* for as long as the post exists.
THEOREM AnswersStayTrue == Spec => []AnswersKept
<1>1. Init => HandlersSettled /\ AnswersKept
  BY DEF Init, HandlersSettled, AnswersKept, Idle
<1> QED
  BY <1>1, AnswersStep, Invariance, PTL DEF Spec

-----------------------------------------------------------------------------
(* One pass finalizes a workflow at a time. *)

\* A client finalizes a payment by one request at a time.
OneAtATime ==
  \A q, r \in Request : handler[q].id = handler[r].id /\ handler[r].id \in Prep => q = r

Claimant(c) == pass[c].pc \in {"insert", "delete"}

Busy(p) == \E r \in Request : handler[r].id = p

\* Nothing is left of the payment but its transaction, and nobody works on it.
Over(p) ==
  issued[p] # NoTx /\ prepared[p] = 0 /\ workflows[p] = NoWorkflow /\ ~ Busy(p)

\* A row that says nothing is none.
RowsWhole == \A p \in Prep : workflows[p].state = "ABSENT" => workflows[p] = NoWorkflow

\* What a pass has claimed stays claimed until the row goes for good.
ClaimsHold ==
  \A c \in Replica :
    Claimant(c) => workflows[pass[c].id].finalized \/ Over(pass[c].id)

\* A request submits a payment only as long as no pass can know of it.
SubmitsUnknown ==
  \A r \in Request :
    handler[r].pc \in {"submit", "rejectWorkflow"} => workflows[handler[r].id] = NoWorkflow

\* A request that cleans up has used up the prepared row.
CleansSpent ==
  \A r \in Request :
    handler[r].pc \in {"cleanCreated", "cleanDuplicate"} => prepared[handler[r].id] = 0

ClaimInv == SingleClaimant /\ RowsWhole /\ ClaimsHold /\ SubmitsUnknown /\ CleansSpent

LEMMA InitClaim == Init => ClaimInv
  BY DEF Init, ClaimInv, SingleClaimant, RowsWhole, ClaimsHold, Claimant, SubmitsUnknown,
         CleansSpent, Idle, Resting, NoWorkflow

\* A prepared row that is gone does not come back.
LEMMA SpentStays ==
  ASSUME IInv, [Next]_vars, NEW p \in Prep, issued[p] # NoTx, prepared[p] = 0
  PROVE  issued'[p] # NoTx /\ prepared'[p] = 0
<1>0. /\ prepared \in [Prep -> Nat] /\ clock \in Nat
      /\ issued \in [Prep -> Tx \cup {NoTx}] /\ issued[p] \in Tx
  BY DEF IInv, TypeOK
<1>1. issued'[p] # NoTx
  BY <1>0, EvidenceStable, NoTxIsNone
<1>2. prepared'[p] = 0
  <2>1. CASE \E r \in Request : PrepareSave(r)
    BY <1>0, <2>1 DEF PrepareSave
  <2>2. CASE \E r \in Request : PreparePrune(r)
    BY <1>0, <2>2 DEF PreparePrune, Pruned
  <2>3. CASE \E q \in Prep : prepared' = [prepared EXCEPT ![q] = 0]
    BY <1>0, <2>3
  <2>4. \/ \E r \in Request : PrepareSave(r) \/ PreparePrune(r)
        \/ \E q \in Prep : prepared' = [prepared EXCEPT ![q] = 0]
        \/ prepared' = prepared
    <3>1. /\ \A r \in Request : RejectPrepared(r) \/ InsertReceipt(r) => handler[r].id \in Prep
          /\ \A c \in Replica : ReconcileInsert(c) => pass[c].id \in Prep
      BY DEF IInv, HandlersInformed, HandlerInformed, PassesInformed, PassInformed,
             RejectPrepared, InsertReceipt, ReconcileInsert
    <3> QED
      BY <3>1
      DEF Next, vars, db, Prepare, Finalize, Reconcile, Chain, PrepareRead, FinalizeRead,
          FinalizeWorkflow, SubmitAdmitted, SubmitRefused, SubmitThrows, SubmitAnswerLost,
          StatusAccepted, StatusUnknown, SavePending, RejectWorkflow, RejectPrepared,
          SaveConfirmed, InsertReceipt, CleanUp, FinalizePurchase, ScanPending,
          ReadPrepared, EndPass, ReconcileAccepted, ReconcileUnknown, Claim,
          ReconcileInsert, ReconcileDelete, HandlerFails, PassFails, DeletePost,
          ChainAccepts, ChainDrops, Tick
  <2> QED
    BY <1>0, <2>1, <2>2, <2>3, <2>4
<1> QED
  BY <1>1, <1>2

\* Whoever writes the workflows.
LEMMA WorkflowWrites ==
  [Next]_vars =>
    \/ workflows' = workflows
    \/ \E r \in Request : SavePending(r) \/ SaveConfirmed(r) \/ RejectWorkflow(r) \/ CleanUp(r)
    \/ \E c \in Replica : Claim(c) \/ ReconcileDelete(c)
  BY DEF Next, vars, db, Prepare, Finalize, Reconcile, Chain, PrepareRead, PreparePrune,
         PrepareSave, FinalizeRead, FinalizeWorkflow, SubmitAdmitted, SubmitRefused,
         SubmitThrows, SubmitAnswerLost, StatusAccepted, StatusUnknown, RejectPrepared,
         InsertReceipt, FinalizePurchase, ScanPending, ReadPrepared, EndPass,
         ReconcileAccepted, ReconcileUnknown, ReconcileInsert, HandlerFails, PassFails,
         DeletePost, ChainAccepts, ChainDrops, Tick

\* Only a request saves a row where there is none.
LEMMA RowAppears ==
  ASSUME IInv, [Next]_vars, NEW p \in Prep, workflows[p] = NoWorkflow
  PROVE  \/ workflows'[p] = NoWorkflow
         \/ \E r \in Request : handler[r].id = p /\ (SavePending(r) \/ SaveConfirmed(r))
<1>0. workflows \in [Prep -> WorkflowRow]
  BY DEF IInv, TypeOK
<1>1. ASSUME NEW r \in Request, SavePending(r) \/ SaveConfirmed(r), handler[r].id # p
      PROVE  workflows'[p] = NoWorkflow
  BY <1>0, <1>1 DEF SavePending, SaveConfirmed, SaveWorkflow
<1>2. ASSUME NEW r \in Request, RejectWorkflow(r) \/ CleanUp(r)
      PROVE  workflows'[p] = NoWorkflow
  BY <1>0, <1>2 DEF RejectWorkflow, CleanUp, DeleteWorkflow
<1>3. ASSUME NEW c \in Replica, Claim(c) PROVE workflows'[p] = NoWorkflow
  BY <1>0, <1>3 DEF Claim, ClaimTerminal
<1>4. ASSUME NEW c \in Replica, ReconcileDelete(c) PROVE workflows'[p] = NoWorkflow
  BY <1>0, <1>4 DEF ReconcileDelete, DeleteWorkflow
<1> QED
  BY <1>1, <1>2, <1>3, <1>4, WorkflowWrites

\* A claim is lost only with the row.
LEMMA ClaimEnds ==
  ASSUME IInv, [Next]_vars, NEW p \in Prep, workflows[p].finalized
  PROVE  \/ workflows'[p].finalized
         \/ \E r \in Request : handler[r].id = p /\ (RejectWorkflow(r) \/ CleanUp(r))
         \/ \E c \in Replica : pass[c].id = p /\ ReconcileDelete(c)
<1>0. workflows \in [Prep -> WorkflowRow] /\ workflows[p] # NoWorkflow
  BY DEF IInv, TypeOK, NoWorkflow
<1>1. ASSUME NEW r \in Request, SavePending(r) \/ SaveConfirmed(r)
      PROVE  workflows'[p].finalized
  <2>1. PICK state \in {"SUBMITTED", "CONFIRMED"} : SaveWorkflow(handler[r].id, state)
    BY <1>1 DEF SavePending, SaveConfirmed
  <2> QED
    BY <1>0, <2>1 DEF SaveWorkflow, Upserted, WorkflowRow
<1>2. ASSUME NEW r \in Request, RejectWorkflow(r) \/ CleanUp(r), handler[r].id # p
      PROVE  workflows'[p].finalized
  BY <1>0, <1>2 DEF RejectWorkflow, CleanUp, DeleteWorkflow
<1>3. ASSUME NEW c \in Replica, Claim(c) PROVE workflows'[p].finalized
  BY <1>0, <1>3 DEF Claim, ClaimTerminal, WorkflowRow
<1>4. ASSUME NEW c \in Replica, ReconcileDelete(c), pass[c].id # p
      PROVE  workflows'[p].finalized
  BY <1>0, <1>4 DEF ReconcileDelete, DeleteWorkflow
<1> QED
  BY <1>1, <1>2, <1>3, <1>4, WorkflowWrites

LEMMA RowsWholeStep == IInv /\ RowsWhole /\ [Next]_vars => RowsWhole'
<1> SUFFICES ASSUME IInv, RowsWhole, [Next]_vars, NEW p \in Prep
             PROVE  workflows'[p].state = "ABSENT" => workflows'[p] = NoWorkflow
  BY DEF RowsWhole
<1>0. workflows \in [Prep -> WorkflowRow] /\ (workflows[p].state = "ABSENT" => workflows[p] = NoWorkflow)
  BY DEF IInv, TypeOK, RowsWhole
<1>1. ASSUME NEW r \in Request, SavePending(r) \/ SaveConfirmed(r)
      PROVE  workflows'[p].state = "ABSENT" => workflows'[p] = NoWorkflow
  <2>1. PICK state \in {"SUBMITTED", "CONFIRMED"} : SaveWorkflow(handler[r].id, state)
    BY <1>1 DEF SavePending, SaveConfirmed
  <2> QED
    BY <1>0, <2>1 DEF SaveWorkflow, Upserted, WorkflowRow
<1>2. ASSUME NEW r \in Request, RejectWorkflow(r) \/ CleanUp(r)
      PROVE  workflows'[p].state = "ABSENT" => workflows'[p] = NoWorkflow
  BY <1>0, <1>2 DEF RejectWorkflow, CleanUp, DeleteWorkflow
<1>3. ASSUME NEW c \in Replica, Claim(c)
      PROVE  workflows'[p].state = "ABSENT" => workflows'[p] = NoWorkflow
  <2>1. PICK state \in {"CONFIRMED", "REJECTED"} : ClaimTerminal(c, state)
    BY <1>3 DEF Claim
  <2>2. CASE workflows' = workflows
    BY <1>0, <2>2
  <2>3. CASE workflows' # workflows
    <3>1. workflows' = [workflows EXCEPT ![pass[c].id] =
                          [@ EXCEPT !.state = state, !.finalized = TRUE]]
      BY <2>1, <2>3 DEF ClaimTerminal
    <3>2. [workflows[p] EXCEPT !.state = state, !.finalized = TRUE].state # "ABSENT"
      BY <1>0 DEF WorkflowRow
    <3> QED
      BY <1>0, <3>1, <3>2
  <2> QED
    BY <2>2, <2>3
<1>4. ASSUME NEW c \in Replica, ReconcileDelete(c)
      PROVE  workflows'[p].state = "ABSENT" => workflows'[p] = NoWorkflow
  BY <1>0, <1>4 DEF ReconcileDelete, DeleteWorkflow
<1> QED
  BY <1>0, <1>1, <1>2, <1>3, <1>4, WorkflowWrites

\* A request that goes on keeps its id, and one that starts finds the prepared row.
LEMMA RequestMoves ==
  ASSUME IInv, [Next]_vars, NEW r \in Request
  PROVE  /\ handler'[r].id \in {handler[r].id, 0} \cup {p \in Prep : prepared[p] # 0}
         /\ handler'[r].pc \in {"submit", "rejectWorkflow"} =>
              /\ handler'[r].id = handler[r].id
              /\ \/ handler[r].pc \in {"submit", "rejectWorkflow"}
                 \/ workflows[handler[r].id].state = "ABSENT"
              /\ ~ SavePending(r) /\ ~ SaveConfirmed(r)
         /\ handler'[r].pc \in {"cleanCreated", "cleanDuplicate"} =>
              /\ handler'[r].id = handler[r].id
              /\ \/ handler[r].pc \in {"cleanCreated", "cleanDuplicate"}
                 \/ prepared'[handler[r].id] = 0
<1>0. /\ handler \in [Request -> HandlerState] /\ prepared \in [Prep -> Nat] /\ clock \in Nat
      /\ HandlerInformed(handler[r])
  BY DEF IInv, TypeOK, HandlersInformed
<1> DEFINE Moves == /\ handler'[r].id \in {handler[r].id, 0} \cup {p \in Prep : prepared[p] # 0}
                    /\ handler'[r].pc \notin {"submit", "rejectWorkflow"}
                    /\ handler'[r].pc \notin {"cleanCreated", "cleanDuplicate"}
<1>1. CASE PrepareRead(r) \/ PreparePrune(r) \/ PrepareSave(r)
  <2>1. Moves
    BY <1>0, <1>1 DEF PrepareRead, PreparePrune, PrepareSave, Proceed, Idle, HandlerState
  <2> QED
    BY <2>1
<1>2. CASE FinalizeRead(r)
  <2>1. PICK p \in Prep : PreparedAlive(p, clock) /\
          Proceed(r, [Idle EXCEPT !.pc = "workflow", !.id = p])
    BY <1>2 DEF FinalizeRead
  <2>2. prepared[p] # 0
    BY <1>0, <2>1 DEF PreparedAlive
  <2>3. handler'[r].id = p /\ handler'[r].pc = "workflow"
    BY <1>0, <2>1 DEF Proceed, Idle
  <2> QED
    BY <2>2, <2>3
<1>3. CASE FinalizeWorkflow(r)
  <2>1. PICK pc \in {"submit", "confirm", "status"} :
          /\ Proceed(r, [handler[r] EXCEPT !.pc = pc])
          /\ pc = "submit" => workflows[handler[r].id].state = "ABSENT"
    BY <1>3 DEF FinalizeWorkflow
  <2>2. handler'[r].id = handler[r].id /\ handler'[r].pc = pc
    BY <1>0, <2>1 DEF Proceed, HandlerState
  <2>3. ~ SavePending(r) /\ ~ SaveConfirmed(r)
    BY <1>3 DEF FinalizeWorkflow, SavePending, SaveConfirmed
  <2> QED
    BY <2>1, <2>2, <2>3
<1>4. CASE SubmitRefused(r) \/ SubmitAnswerLost(r)
  <2>1. /\ handler[r].pc = "submit"
        /\ handler'[r].id = handler[r].id /\ handler'[r].pc = "rejectWorkflow"
    BY <1>0, <1>4 DEF SubmitRefused, SubmitAnswerLost, Proceed, HandlerState
  <2> QED
    BY <2>1 DEF SavePending, SaveConfirmed
<1>5. CASE SubmitAdmitted(r) \/ SubmitThrows(r) \/ StatusAccepted(r) \/ StatusUnknown(r)
  <2>1. Moves
    BY <1>0, <1>5
    DEF SubmitAdmitted, SubmitThrows, StatusAccepted, StatusUnknown, Proceed, Idle, HandlerState
  <2> QED
    BY <2>1
<1>6. CASE \/ SavePending(r) \/ RejectWorkflow(r) \/ RejectPrepared(r) \/ SaveConfirmed(r)
           \/ CleanUp(r) \/ HandlerFails(r)
  <2>1. Moves
    BY <1>0, <1>6
    DEF SavePending, RejectWorkflow, RejectPrepared, SaveConfirmed, CleanUp, HandlerFails,
        Proceed, Idle, HandlerState
  <2> QED
    BY <2>1
<1>7. CASE InsertReceipt(r)
  <2>1. /\ handler'[r].id = handler[r].id
        /\ handler'[r].pc \in {"cleanCreated", "cleanDuplicate"}
    BY <1>0, <1>7 DEF InsertReceipt, Proceed, HandlerState
  <2>2. prepared'[handler[r].id] = 0
    BY <1>0, <1>7 DEF InsertReceipt, FinalizePurchase, HandlerInformed
  <2> QED
    BY <2>1, <2>2
<1>8. CASE handler'[r] = handler[r] /\ ~ SavePending(r) /\ ~ SaveConfirmed(r)
  BY <1>8
<1>9. ~ (Prepare(r) \/ Finalize(r) \/ HandlerFails(r)) =>
        handler'[r] = handler[r] /\ ~ SavePending(r) /\ ~ SaveConfirmed(r)
  <2>1. ASSUME NEW q \in Request, q # r, Prepare(q) \/ Finalize(q) \/ HandlerFails(q)
        PROVE  handler'[r] = handler[r]
    BY <1>0, <2>1
    DEF Prepare, Finalize, PrepareRead, PreparePrune, PrepareSave, FinalizeRead,
        FinalizeWorkflow, SubmitAdmitted, SubmitRefused, SubmitThrows, SubmitAnswerLost,
        StatusAccepted, StatusUnknown, SavePending, RejectWorkflow, RejectPrepared,
        SaveConfirmed, InsertReceipt, CleanUp, HandlerFails, Proceed
  <2>2. \/ \E q \in Request : Prepare(q) \/ Finalize(q) \/ HandlerFails(q)
        \/ handler' = handler
    BY DEF Next, vars, Reconcile, ScanPending, ReadPrepared, EndPass, ReconcileAccepted,
           ReconcileUnknown, Claim, ReconcileInsert, ReconcileDelete, PassFails, DeletePost,
           Chain, ChainAccepts, ChainDrops, Tick
  <2> QED
    BY <2>1, <2>2 DEF Finalize
<1> QED
  BY <1>1, <1>2, <1>3, <1>4, <1>5, <1>6, <1>7, <1>8, <1>9 DEF Prepare, Finalize

\* A pass that finalizes did so before or claims the workflow in this step.
LEMMA ClaimantMoves ==
  ASSUME IInv, [Next]_vars, NEW c \in Replica, Claimant(c)'
  PROVE  /\ pass'[c].id = pass[c].id /\ pass[c].id \in Prep
         /\ \/ Claimant(c) /\ ~ ReconcileDelete(c)
            \/ /\ workflows[pass[c].id] # NoWorkflow /\ ~ workflows[pass[c].id].finalized
               /\ workflows'[pass[c].id].finalized
               /\ \A d \in Replica : d # c => pass'[d] = pass[d]
<1>0. /\ pass \in [Replica -> PassState] /\ PassInformed(pass[c])
      /\ workflows \in [Prep -> WorkflowRow]
  BY DEF IInv, TypeOK, PassesInformed
<1>1. CASE Claim(c)
  <2>1. PICK state \in {"CONFIRMED", "REJECTED"} : ClaimTerminal(c, state)
    BY <1>1 DEF Claim
  <2>2. pass[c].id \in Prep
    BY <1>0, <1>1 DEF Claim, PassInformed
  <2>3. ~ Continue(c)
    BY <1>0 DEF Continue, Advance, Claimant, PassState
  <2>4. /\ workflows[pass[c].id] # NoWorkflow /\ ~ workflows[pass[c].id].finalized
        /\ workflows' = [workflows EXCEPT ![pass[c].id] =
                           [@ EXCEPT !.state = state, !.finalized = TRUE]]
        /\ Advance(c, [pass[c] EXCEPT !.pc = IF state = "CONFIRMED"
                                               THEN "insert" ELSE "delete"])
    BY <2>1, <2>3 DEF ClaimTerminal
  <2>5. workflows'[pass[c].id].finalized
    BY <1>0, <2>2, <2>4 DEF WorkflowRow
  <2>6. pass'[c].id = pass[c].id /\ \A d \in Replica : d # c => pass'[d] = pass[d]
    BY <1>0, <2>4 DEF Advance, PassState
  <2> QED
    BY <2>2, <2>4, <2>5, <2>6
<1>2. CASE ReconcileInsert(c)
  BY <1>0, <1>2 DEF ReconcileInsert, ReconcileDelete, Advance, Claimant, PassInformed, PassState
<1>3. CASE pass'[c] = pass[c] /\ ~ ReconcileDelete(c)
  BY <1>0, <1>3 DEF Claimant, PassInformed
<1>4. CASE ReconcileDelete(c) \/ PassFails(c)
  <2>1. CASE Continue(c)
    BY <1>0, <2>1 DEF Continue, Advance, Claimant, PassState
  <2>2. CASE Advance(c, Resting)
    BY <1>0, <2>2 DEF Advance, Claimant, Resting
  <2> QED
    BY <1>4, <2>1, <2>2 DEF ReconcileDelete, PassFails
<1>5. CASE \/ ScanPending(c) \/ ReadPrepared(c) \/ EndPass(c) \/ ReconcileAccepted(c)
           \/ ReconcileUnknown(c)
  <2>1. CASE ScanPending(c) \/ EndPass(c)
    <3>1. CASE ScanPending(c)
      <4>1. PICK todo : Advance(c, [Resting EXCEPT !.pc = "next", !.now = clock, !.todo = todo])
        BY <3>1 DEF ScanPending
      <4> QED
        BY <1>0, <4>1 DEF Advance, Claimant, Resting
    <3>2. CASE EndPass(c)
      BY <1>0, <3>2 DEF EndPass, Advance, Claimant, Resting
    <3> QED
      BY <2>1, <3>1, <3>2
  <2>2. CASE ReadPrepared(c)
    <3>1. PICK w \in pass[c].todo :
            Advance(c, [pass[c] EXCEPT
                          !.pc = IF PreparedAlive(w[1], pass[c].now)
                                   THEN "status" ELSE "claimRejected",
                          !.id = w[1], !.since = w[2], !.todo = @ \ {w}])
      BY <2>2 DEF ReadPrepared
    <3>2. pass'[c].pc \in {"status", "claimRejected"}
      BY <1>0, <3>1 DEF Advance, PassState
    <3> QED
      BY <3>2 DEF Claimant
  <2>3. CASE ReconcileAccepted(c) \/ ReconcileUnknown(c)
    BY <1>0, <2>3
    DEF ReconcileAccepted, ReconcileUnknown, Continue, Advance, Claimant, PassState
  <2> QED
    BY <1>5, <2>1, <2>2, <2>3
<1>6. ~ (Reconcile(c) \/ PassFails(c)) => pass'[c] = pass[c] /\ ~ ReconcileDelete(c)
  <2>1. ASSUME NEW d \in Replica, d # c, Reconcile(d) \/ PassFails(d)
        PROVE  pass'[c] = pass[c]
    BY <1>0, <2>1
    DEF Reconcile, ScanPending, ReadPrepared, EndPass, ReconcileAccepted, ReconcileUnknown,
        Claim, ClaimTerminal, ReconcileInsert, ReconcileDelete, PassFails, Continue, Advance
  <2>2. (\E d \in Replica : Reconcile(d) \/ PassFails(d)) \/ pass' = pass
    BY DEF Next, vars, Prepare, Finalize, PrepareRead, PreparePrune, PrepareSave,
           FinalizeRead, FinalizeWorkflow, SubmitAdmitted, SubmitRefused, SubmitThrows,
           SubmitAnswerLost, StatusAccepted, StatusUnknown, SavePending, RejectWorkflow,
           RejectPrepared, SaveConfirmed, InsertReceipt, CleanUp, HandlerFails, DeletePost,
           Chain, ChainAccepts, ChainDrops, Tick
  <2> QED
    BY <2>1, <2>2 DEF Reconcile
<1> QED
  BY <1>1, <1>2, <1>3, <1>4, <1>5, <1>6 DEF Reconcile

\* What is over stays over.
LEMMA OverStays ==
  ASSUME IInv, [Next]_vars, NEW p \in Prep, Over(p)
  PROVE  Over(p)'
<1>1. issued'[p] # NoTx /\ prepared'[p] = 0
  BY SpentStays DEF Over
<1>2. workflows'[p] = NoWorkflow
  BY RowAppears DEF Over, Busy
<1>3. ASSUME NEW r \in Request PROVE handler'[r].id # p
  BY <1>3, RequestMoves, IdsArePositive DEF Over, Busy
<1> QED
  BY <1>1, <1>2, <1>3 DEF Over, Busy

\* A claim is kept, or the request that ends the payment takes its row away.
LEMMA ClaimsStep ==
  ASSUME IInv, ClaimInv, OneAtATime, [Next]_vars, NEW c \in Replica, Claimant(c),
         Claimant(c)', NEW p \in Prep, pass[c].id = p, pass'[c].id = p
  PROVE  workflows'[p].finalized \/ Over(p)'
<1>1. CASE Over(p)
  BY <1>1, OverStays
<1>2. CASE workflows[p].finalized /\ ~ workflows'[p].finalized
  <2>1. ASSUME NEW r \in Request, handler[r].id = p, RejectWorkflow(r) PROVE FALSE
    BY <1>2, <2>1 DEF RejectWorkflow, ClaimInv, SubmitsUnknown, NoWorkflow
  <2>2. ASSUME NEW d \in Replica, pass[d].id = p, ReconcileDelete(d) PROVE FALSE
    <3>1. d = c
      BY <2>2 DEF ReconcileDelete, ClaimInv, SingleClaimant, Claimant
    <3> QED
      BY <1>2, <2>2, <3>1, ClaimantMoves
  <2>3. ASSUME NEW r \in Request, handler[r].id = p, CleanUp(r) PROVE Over(p)'
    <3>1. prepared[p] = 0 /\ issued[p] # NoTx
      BY <2>3, NoTxIsNone
      DEF CleanUp, ClaimInv, CleansSpent, IInv, HandlersInformed, HandlerInformed
    <3>2. issued'[p] # NoTx /\ prepared'[p] = 0
      BY <3>1, SpentStays
    <3>3. workflows'[p] = NoWorkflow
      BY <2>3 DEF CleanUp, DeleteWorkflow, IInv, TypeOK
    <3>4. ASSUME NEW q \in Request PROVE handler'[q].id # p
      <4>1. CASE q = r
        BY <2>3, <4>1, IdsArePositive DEF CleanUp, Proceed, Idle, IInv, TypeOK
      <4>2. CASE q # r
        BY <2>3, <3>1, <4>2, RequestMoves, IdsArePositive DEF OneAtATime
      <4> QED
        BY <4>1, <4>2
    <3> QED
      BY <3>2, <3>3, <3>4 DEF Over, Busy
  <2> QED
    BY <1>2, <2>1, <2>2, <2>3, ClaimEnds
<1> QED
  BY <1>1, <1>2 DEF ClaimInv, ClaimsHold

LEMMA ClaimStep == IInv /\ ClaimInv /\ OneAtATime /\ [Next]_vars => ClaimInv'
<1> SUFFICES ASSUME IInv, ClaimInv, OneAtATime, [Next]_vars PROVE ClaimInv'
  OBVIOUS
<1>1. SingleClaimant'
  <2> SUFFICES ASSUME NEW c \in Replica, NEW d \in Replica, Claimant(c)', Claimant(d)',
                      pass'[c].id = pass'[d].id, c # d
               PROVE  FALSE
    BY DEF SingleClaimant, Claimant
  <2>1. pass[c].id = pass[d].id /\ pass[c].id \in Prep
    BY ClaimantMoves
  <2>2. ~ (Claimant(c) /\ Claimant(d))
    BY <2>1 DEF ClaimInv, SingleClaimant, Claimant
  <2>3. ASSUME NEW e \in Replica, NEW f \in Replica, pass[e].id = pass[f].id,
               pass[e].id \in Prep, ~ Claimant(e), Claimant(e)', Claimant(f)', e # f
        PROVE  FALSE
    <3>1. /\ workflows[pass[e].id] # NoWorkflow /\ ~ workflows[pass[e].id].finalized
          /\ pass'[f] = pass[f]
      BY <2>3, ClaimantMoves
    <3>2. Claimant(f)
      BY <2>3, <3>1 DEF Claimant
    <3> QED
      BY <2>3, <3>1, <3>2 DEF ClaimInv, ClaimsHold, Over
  <2> QED
    BY <2>1, <2>2, <2>3
<1>2. RowsWhole'
  BY RowsWholeStep DEF ClaimInv
<1>3. ClaimsHold'
  <2> SUFFICES ASSUME NEW c \in Replica, Claimant(c)'
               PROVE  (workflows[pass[c].id].finalized \/ Over(pass[c].id))'
    BY DEF ClaimsHold
  <2>1. PICK p \in Prep : pass[c].id = p /\ pass'[c].id = p
    BY ClaimantMoves
  <2>2. workflows'[p].finalized \/ Over(p)'
    BY <2>1, ClaimantMoves, ClaimsStep
  <2> QED
    BY <2>1, <2>2 DEF Over, Busy
<1>4. SubmitsUnknown'
  <2> SUFFICES ASSUME NEW r \in Request, handler'[r].pc \in {"submit", "rejectWorkflow"}
               PROVE  workflows'[handler'[r].id] = NoWorkflow
    BY DEF SubmitsUnknown
  <2>1. handler'[r].id = handler[r].id /\ ~ SavePending(r) /\ ~ SaveConfirmed(r)
    BY RequestMoves
  <2>2. handler[r].id \in Prep
    <3>1. HandlerInformed(handler[r])'
      BY NextIInv DEF IInv, HandlersInformed
    <3> QED
      BY <2>1, <3>1 DEF HandlerInformed
  <2>3. workflows[handler[r].id] = NoWorkflow
    BY <2>2, RequestMoves DEF ClaimInv, SubmitsUnknown, RowsWhole
  <2> QED
    BY <2>1, <2>2, <2>3, RowAppears DEF OneAtATime
<1>5. CleansSpent'
  <2> SUFFICES ASSUME NEW r \in Request, handler'[r].pc \in {"cleanCreated", "cleanDuplicate"}
               PROVE  prepared'[handler'[r].id] = 0
    BY DEF CleansSpent
  <2>1. handler'[r].id = handler[r].id
    BY RequestMoves
  <2>2. CASE handler[r].pc \in {"cleanCreated", "cleanDuplicate"}
    <3>1. handler[r].id \in Prep /\ issued[handler[r].id] # NoTx
      BY <2>2, NoTxIsNone DEF IInv, HandlersInformed, HandlerInformed
    <3> QED
      BY <2>1, <2>2, <3>1, SpentStays DEF ClaimInv, CleansSpent
  <2> QED
    BY <2>1, <2>2, RequestMoves
<1> QED
  BY <1>1, <1>2, <1>3, <1>4, <1>5 DEF ClaimInv

\* One pass finalizes a workflow at a time, of any number of passes, for clients that
\* finalize a payment by one request at a time.
THEOREM OnePassFinalizes == Spec /\ []OneAtATime => []SingleClaimant
<1>1. ClaimInv => SingleClaimant
  BY DEF ClaimInv
<1> QED
  BY <1>1, InitClaim, ClaimStep, Invariance, PTL DEF Spec

-----------------------------------------------------------------------------
(* Races alone leave no workflow behind. *)

\* A request or a pass that will delete the workflow of p.
Held(p) ==
  \/ \E r \in Request :
       handler[r].id = p /\ handler[r].pc \in {"insert", "cleanCreated", "cleanDuplicate"}
  \/ \E c \in Replica : pass[c].id = p /\ Claimant(c)

\* No pass lists the workflow of p, or none can claim it any more.
Ended(p) == workflows[p].finalized \/ workflows[p].state \in {"CONFIRMED", "REJECTED"}

\* A workflow that is claimed or ended is in the hands of the pass that claimed it or of
\* the request that ended it, unless one of them failed.
StuckByFailureOnly == faults = 0 => \A p \in Prep : Ended(p) => Held(p)

\* Whoever is about to delete the workflow of p still is after the step.
HoldersStay(p) ==
  /\ \A r \in Request :
       /\ handler[r].id = p
       /\ handler[r].pc \in {"insert", "cleanCreated", "cleanDuplicate"}
       => /\ handler'[r].id = p
          /\ handler'[r].pc \in {"insert", "cleanCreated", "cleanDuplicate"}
  /\ \A c \in Replica : pass[c].id = p /\ Claimant(c) => pass'[c].id = p /\ Claimant(c)'

LEMMA InitStuck == Init => StuckByFailureOnly
  BY DEF Init, StuckByFailureOnly, Ended, NoWorkflow

\* A workflow that was held or not ended before stays so.
LEMMA HeldStays ==
  ASSUME NEW p, HoldersStay(p), Ended(p) => Held(p), Ended(p)' => Ended(p)
  PROVE  Ended(p)' => Held(p)'
  BY DEF HoldersStay, Held

\* The step of a request that does not hold a workflow.
LEMMA OtherRequestMoves ==
  ASSUME NEW r \in Request,
         handler[r].pc \notin {"insert", "cleanCreated", "cleanDuplicate"}, pass' = pass,
         \A q \in Request \ {r} : handler'[q] = handler[q]
  PROVE  \A p : HoldersStay(p)
  BY DEF HoldersStay, Claimant

\* The step of a pass that does not.
LEMMA OtherPassMoves ==
  ASSUME NEW c \in Replica, ~ Claimant(c), handler' = handler,
         \A d \in Replica \ {c} : pass'[d] = pass[d]
  PROVE  \A p : HoldersStay(p)
  BY DEF HoldersStay, Claimant

LEMMA StuckRequest ==
  ASSUME IInv, NEW p \in Prep, Ended(p) => Held(p), faults' = faults,
         NEW r \in Request, Prepare(r) \/ Finalize(r)
  PROVE  Ended(p)' => Held(p)'
<1>1. /\ handler \in [Request -> HandlerState] /\ workflows \in [Prep -> WorkflowRow]
      /\ ~ (workflows'[p] = NoWorkflow /\ Ended(p)')
  BY DEF IInv, TypeOK, NoWorkflow, Ended
<1>2. pass' = pass
  BY DEF Prepare, PrepareRead, PreparePrune, PrepareSave,
         Finalize, FinalizeRead, FinalizeWorkflow, SubmitAdmitted, SubmitRefused, SubmitThrows,
         SubmitAnswerLost, StatusAccepted, StatusUnknown, SavePending, RejectWorkflow,
         RejectPrepared, SaveConfirmed, InsertReceipt, CleanUp
<1>3. \A q \in Request \ {r} : handler'[q] = handler[q]
  BY <1>1 DEF Prepare, PrepareRead, PreparePrune, PrepareSave, Finalize, FinalizeRead,
         FinalizeWorkflow, SubmitAdmitted, SubmitRefused, SubmitThrows, SubmitAnswerLost,
         StatusAccepted, StatusUnknown, SavePending, RejectWorkflow, RejectPrepared,
         SaveConfirmed, InsertReceipt, CleanUp, Proceed
<1>4. CASE SavePending(r)
  <2>1. HoldersStay(p)
    BY <1>1, <1>2, <1>3, <1>4, OtherRequestMoves DEF SavePending
  <2>2. Ended(p)' => Ended(p)
    <3>1. workflows'[p] = workflows[p] \/ workflows'[p] = Upserted(workflows[p], "SUBMITTED", clock)
      BY <1>1, <1>4 DEF SavePending, SaveWorkflow
    <3>2. CASE workflows'[p] = Upserted(workflows[p], "SUBMITTED", clock)
      BY <1>1, <3>2 DEF Upserted, WorkflowRow, Ended
    <3> QED
      BY <3>1, <3>2 DEF Ended
  <2> QED
    BY <2>1, <2>2, HeldStays
<1>5. CASE RejectWorkflow(r)
  <2>1. HoldersStay(p)
    BY <1>1, <1>2, <1>3, <1>5, OtherRequestMoves DEF RejectWorkflow
  <2>2. Ended(p)' => Ended(p)
    BY <1>1, <1>5 DEF RejectWorkflow, DeleteWorkflow, Ended
  <2> QED
    BY <2>1, <2>2, HeldStays
<1>6. CASE SaveConfirmed(r)
  <2>1. handler'[r].id = handler[r].id /\ handler'[r].pc = "insert"
    BY <1>1, <1>6 DEF SaveConfirmed, Proceed, HandlerState
  <2>2. CASE handler[r].id = p
    BY <2>1, <2>2 DEF Held
  <2>3. CASE handler[r].id # p
    <3>1. HoldersStay(p)
      BY <1>1, <1>2, <1>3, <1>6, OtherRequestMoves DEF SaveConfirmed
    <3>2. workflows'[p] = workflows[p]
      BY <1>1, <1>6, <2>3 DEF SaveConfirmed, SaveWorkflow
    <3> QED
      BY <3>1, <3>2, HeldStays DEF Ended
  <2> QED
    BY <2>2, <2>3
<1>7. CASE InsertReceipt(r)
  <2>1. /\ handler'[r].id = handler[r].id
        /\ handler'[r].pc \in {"cleanCreated", "cleanDuplicate"}
        /\ workflows' = workflows
    BY <1>1, <1>7 DEF InsertReceipt, FinalizePurchase, Proceed, HandlerState
  <2>2. HoldersStay(p)
    BY <1>1, <1>2, <1>3, <2>1 DEF HoldersStay, Claimant
  <2> QED
    BY <2>1, <2>2, HeldStays DEF Ended
<1>8. CASE CleanUp(r)
  <2>1. CASE handler[r].id = p
    BY <1>1, <1>8, <2>1 DEF CleanUp, DeleteWorkflow
  <2>2. CASE handler[r].id # p
    <3>1. workflows'[p] = workflows[p]
      BY <1>1, <1>8, <2>2 DEF CleanUp, DeleteWorkflow
    <3>2. HoldersStay(p)
      BY <1>1, <1>2, <1>3, <2>2 DEF HoldersStay, Claimant
    <3> QED
      BY <3>1, <3>2, HeldStays DEF Ended
  <2> QED
    BY <2>1, <2>2
<1>9. CASE ~ (\/ SavePending(r) \/ RejectWorkflow(r) \/ SaveConfirmed(r) \/ InsertReceipt(r)
              \/ CleanUp(r))
  <2>1. /\ workflows' = workflows
        /\ handler[r].pc \notin {"insert", "cleanCreated", "cleanDuplicate"}
    BY <1>9 DEF db, Prepare, PrepareRead, PreparePrune, PrepareSave, Finalize, FinalizeRead,
         FinalizeWorkflow, SubmitAdmitted, SubmitRefused, SubmitThrows, SubmitAnswerLost,
         StatusAccepted, StatusUnknown, RejectPrepared
  <2>2. HoldersStay(p)
    BY <1>1, <1>2, <1>3, <2>1, OtherRequestMoves
  <2> QED
    BY <2>1, <2>2, HeldStays DEF Ended
<1> QED
  BY <1>4, <1>5, <1>6, <1>7, <1>8, <1>9

LEMMA StuckPass ==
  ASSUME IInv, NEW p \in Prep, Ended(p) => Held(p), NEW c \in Replica, Reconcile(c)
  PROVE  Ended(p)' => Held(p)'
<1>1. /\ pass \in [Replica -> PassState] /\ workflows \in [Prep -> WorkflowRow]
      /\ ~ (workflows'[p] = NoWorkflow /\ Ended(p)')
  BY DEF IInv, TypeOK, NoWorkflow, Ended
<1>2. handler' = handler
  BY DEF Reconcile, ScanPending, ReadPrepared, EndPass,
         ReconcileAccepted, ReconcileUnknown, Claim, ReconcileInsert, ReconcileDelete
<1>3. \A d \in Replica \ {c} : pass'[d] = pass[d]
  BY <1>1 DEF Reconcile, ScanPending, ReadPrepared, EndPass, ReconcileAccepted,
         ReconcileUnknown, Claim, ClaimTerminal, ReconcileInsert, ReconcileDelete, Continue,
         Advance
<1>4. CASE Claim(c)
  <2>1. ~ Claimant(c)
    BY <1>4 DEF Claim, Claimant
  <2>2. HoldersStay(p)
    BY <1>1, <1>2, <1>3, <2>1, OtherPassMoves
  <2>3. PICK state \in {"CONFIRMED", "REJECTED"} : ClaimTerminal(c, state)
    BY <1>4 DEF Claim
  <2>4. CASE workflows'[p] = workflows[p]
    BY <2>2, <2>4, HeldStays DEF Ended
  <2>5. CASE workflows'[p] # workflows[p]
    <3>1. /\ pass[c].id = p
          /\ pass' = [pass EXCEPT ![c] = [pass[c] EXCEPT !.pc = IF state = "CONFIRMED"
                                                                  THEN "insert" ELSE "delete"]]
      BY <1>1, <2>3, <2>5 DEF ClaimTerminal, Advance
    <3>2. pass'[c].id = p /\ pass'[c].pc \in {"insert", "delete"}
      BY <1>1, <3>1 DEF PassState
    <3> QED
      BY <3>2 DEF Held, Claimant
  <2> QED
    BY <2>4, <2>5
<1>5. CASE ReconcileInsert(c)
  <2>1. pass'[c].id = pass[c].id /\ pass'[c].pc = "delete" /\ workflows' = workflows
    BY <1>1, <1>5 DEF ReconcileInsert, FinalizePurchase, Advance, PassState
  <2>2. HoldersStay(p)
    BY <1>1, <1>2, <1>3, <2>1 DEF HoldersStay, Claimant
  <2> QED
    BY <2>1, <2>2, HeldStays DEF Ended
<1>6. CASE ReconcileDelete(c)
  <2>1. CASE pass[c].id = p
    BY <1>1, <1>6, <2>1 DEF ReconcileDelete, DeleteWorkflow
  <2>2. CASE pass[c].id # p
    <3>1. workflows'[p] = workflows[p]
      BY <1>1, <1>6, <2>2 DEF ReconcileDelete, DeleteWorkflow
    <3>2. HoldersStay(p)
      BY <1>1, <1>2, <1>3, <2>2 DEF HoldersStay, Claimant
    <3> QED
      BY <3>1, <3>2, HeldStays DEF Ended
  <2> QED
    BY <2>1, <2>2
<1>7. CASE ~ (Claim(c) \/ ReconcileInsert(c) \/ ReconcileDelete(c))
  <2>1. workflows' = workflows /\ ~ Claimant(c)
    BY <1>7 DEF db, Reconcile, ScanPending, ReadPrepared, EndPass, ReconcileAccepted,
                ReconcileUnknown, Claimant
  <2>2. HoldersStay(p)
    BY <1>1, <1>2, <1>3, <2>1, OtherPassMoves
  <2> QED
    BY <2>1, <2>2, HeldStays DEF Ended
<1> QED
  BY <1>4, <1>5, <1>6, <1>7

LEMMA StuckStep == IInv /\ StuckByFailureOnly /\ [Next]_vars => StuckByFailureOnly'
<1> SUFFICES ASSUME IInv, StuckByFailureOnly, [Next]_vars, faults' = 0, NEW p \in Prep
             PROVE  Ended(p)' => Held(p)'
  BY DEF StuckByFailureOnly
<1>1. faults' = faults \/ faults' = faults + 1
  BY DEF Next, vars, Prepare, PrepareRead, PreparePrune, PrepareSave, Finalize, FinalizeRead,
         FinalizeWorkflow, SubmitAdmitted, SubmitRefused, SubmitThrows, SubmitAnswerLost,
         StatusAccepted, StatusUnknown, SavePending, RejectWorkflow, RejectPrepared,
         SaveConfirmed, InsertReceipt, CleanUp, Reconcile, ScanPending, ReadPrepared, EndPass,
         ReconcileAccepted, ReconcileUnknown, Claim, ReconcileInsert, ReconcileDelete, Chain,
         HandlerFails, PassFails, DeletePost, ChainAccepts, ChainDrops, Tick
<1>2. faults = 0 /\ faults' = faults
  BY <1>1 DEF IInv, TypeOK
<1>3. Ended(p) => Held(p)
  BY <1>2 DEF StuckByFailureOnly
<1>4. \A r \in Request : ~ HandlerFails(r)
  BY <1>2 DEF HandlerFails
<1>5. \A c \in Replica : ~ PassFails(c)
  BY <1>2 DEF PassFails
<1>6. ASSUME UNCHANGED <<workflows, handler, pass>> PROVE Ended(p)' => Held(p)'
  BY <1>3, <1>6, HeldStays DEF HoldersStay, Claimant, Ended
<1>7. ASSUME NEW d \in Post, DeletePost(d) PROVE UNCHANGED <<workflows, handler, pass>>
  BY <1>7 DEF DeletePost
<1>8. Chain \/ Tick \/ UNCHANGED vars => UNCHANGED <<workflows, handler, pass>>
  BY DEF Chain, ChainAccepts, ChainDrops, Tick, vars, db
<1> QED
  BY <1>2, <1>3, <1>4, <1>5, <1>6, <1>7, <1>8, StuckRequest, StuckPass DEF Next

\* A confirmed or rejected payment whose workflow row is still there is being finalized
\* by someone who will delete the row, unless a request or a pass failed: requests,
\* passes and deletions of posts that race leave none behind.
THEOREM NoPaymentStuck == Spec => []StuckByFailureOnly
  BY Invariance, InitStuck, StuckStep, PTL DEF Spec

=============================================================================
