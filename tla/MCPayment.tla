------------------------------ MODULE MCPayment ------------------------------
(* Instances of PaymentWorkflow for TLC. *)
EXTENDS PaymentWorkflow, TLC

CONSTANTS b1

OneOwner == [c \in Coin |-> b1]

Symmetric == Permutations(Request) \cup Permutations(Replica)

\* FairSpec from where the first payment is prepared, under the smallest id.  Which coin
\* it spends makes no difference, and of a payment that is not prepared nothing is asked.
PreparedInit ==
  \E p \in Prep, t \in {CHOOSE t \in Tx : TRUE} :
    /\ \A q \in Prep : p <= q
    /\ clock = 0
    /\ posts = Post
    /\ prepared = [q \in Prep |-> IF q = p THEN PreparedTtl ELSE 0]
    /\ issued = [q \in Prep |-> IF q = p THEN t ELSE NoTx]
    /\ workflows = [q \in Prep |-> NoWorkflow]
    /\ purchases = {} /\ mempool = {} /\ accepted = {}
    /\ handler = [r \in Request |-> Idle]
    /\ pass = [c \in Replica |-> Resting]
    /\ told = [q \in Prep |-> "none"]
    /\ faults = 0

PreparedSpec == PreparedInit /\ [][Next]_vars /\ PaymentFairness

=============================================================================
