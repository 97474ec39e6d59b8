--------------------------- MODULE MembershipOffer ---------------------------
(***************************************************************************)
(* What memberships promise, without how it is kept: an offer is opened    *)
(* once, changes its price, and ends for good when it is canceled;         *)
(* a membership is bought from an open offer at its price of that moment;  *)
(* and a membership is recorded only once it was bought.                   *)
(*                                                                         *)
(* Membership implements this specification.                               *)
(***************************************************************************)
CONSTANTS
  Offer,    \* offers that may be opened
  Buy,      \* purchases that may be made
  Price     \* prices of an offer

Closed == [status : {"absent", "canceled"}]
Open == [status : {"open"}, price : Price]

VARIABLES
  offers,    \* the state of each offer
  members,   \* memberships that were bought: what, of which offer, at what price
  recorded   \* purchases with a receipt

vars == <<offers, members, recorded>>

TypeOK ==
  /\ offers \in [Offer -> Closed \cup Open]
  /\ members \subseteq [buy : Buy, offer : Offer, price : Price]
  /\ recorded \subseteq Buy

Init ==
  /\ offers = [c \in Offer |-> [status |-> "absent"]]
  /\ members = {}
  /\ recorded = {}

Bought == {m.buy : m \in members}

\* Nothing but the state of one offer changes.
OnlyOffer(c) ==
  /\ offers' = [offers EXCEPT ![c] = offers'[c]]
  /\ UNCHANGED <<members, recorded>>

Publish(c) == offers[c].status = "absent" /\ offers'[c] \in Open /\ OnlyOffer(c)

Reprice(c) == offers[c].status = "open" /\ offers'[c] \in Open /\ OnlyOffer(c)

Cancel(c) ==
  /\ offers[c].status = "open"
  /\ offers'[c] = [status |-> "canceled"]
  /\ OnlyOffer(c)

Join(b, c) ==
  /\ offers[c].status = "open"
  /\ members' = members \cup {[buy |-> b, offer |-> c, price |-> offers[c].price]}
  /\ UNCHANGED <<offers, recorded>>

Record(b) ==
  /\ recorded' = recorded \cup {b}
  /\ UNCHANGED <<offers, members>>

Next ==
  \/ \E c \in Offer : Publish(c) \/ Reprice(c) \/ Cancel(c)
  \/ \E b \in Buy \ Bought, c \in Offer : Join(b, c)
  \/ \E b \in Bought \ recorded : Record(b)

Spec == Init /\ [][Next]_vars

=============================================================================
