--------------------------- MODULE PaymentPromise ---------------------------
(***************************************************************************)
(* What pay-per-view promises, without how it is kept: a buyer's coin is   *)
(* spent at most once, a receipt is written only for a payment the chain   *)
(* accepted, a buyer holds at most one receipt per post, and a receipt     *)
(* leaves only together with the post it unlocks.                          *)
(*                                                                         *)
(* PaymentWorkflow implements this specification.                          *)
(***************************************************************************)
CONSTANTS
  Post,     \* paid posts
  Buyer,    \* wallet addresses that buy
  Coin      \* spendable outputs of the buyers

\* A payment spends one coin of a buyer for one post; it is its own identity.
Tx == [post : Post, buyer : Buyer, coin : Coin]

VARIABLES
  posts,      \* posts that are published
  accepted,   \* payments the chain has accepted
  purchases   \* receipts

vars == <<posts, accepted, purchases>>

TypeOK ==
  /\ posts \subseteq Post
  /\ accepted \subseteq Tx
  /\ purchases \subseteq Tx

Init ==
  /\ posts = Post
  /\ accepted = {}
  /\ purchases = {}

Pay(t) ==
  /\ \A u \in accepted : u.coin # t.coin
  /\ accepted' = accepted \cup {t}
  /\ UNCHANGED <<posts, purchases>>

Grant(t) ==
  /\ t \in accepted
  /\ \A q \in purchases : <<q.post, q.buyer>> # <<t.post, t.buyer>>
  /\ purchases' = purchases \cup {t}
  /\ UNCHANGED <<posts, accepted>>

Withdraw(d) ==
  /\ d \in posts
  /\ posts' = posts \ {d}
  /\ purchases' = {q \in purchases : q.post # d}
  /\ UNCHANGED accepted

Next ==
  \/ \E t \in Tx : Pay(t) \/ Grant(t)
  \/ \E d \in Post : Withdraw(d)

Spec == Init /\ [][Next]_vars

=============================================================================
