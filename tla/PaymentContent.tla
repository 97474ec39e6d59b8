--------------------------- MODULE PaymentContent ---------------------------
(***************************************************************************)
(* What a payment pays, and how the server knows it again: the transaction *)
(* that prepare builds from the coins of a buyer, the comparison of what   *)
(* the wallet signed with it, and verifyPurchase, which later reads the    *)
(* transaction from the chain and has only its content to go by.           *)
(*                                                                         *)
(* One payment of one post, whose price, creator and buyer are chosen at   *)
(* the start.  A script stands for its address, and the fee of the network *)
(* for its mass at the rate of the moment: so much for each input and each *)
(* output above a base that holds the payload.                             *)
(***************************************************************************)
EXTENDS PaymentFee, Sequences, FiniteSets

CONSTANTS
  Payer,          \* addresses of buyers and creators
  Platform,       \* platformFeeAddress
  Price,           \* prices of a post
  Coin,            \* amounts of unspent outputs
  MaxCoins,        \* bound: unspent outputs of the buyer
  ChangeDust,      \* CHANGE_DUST_SOMPI
  BaseCost, InputCost, OutputCost,  \* the fee of the network by parts
  MaxAttempts      \* VERIFY_MAX_ATTEMPTS

ASSUME PricesAreAmounts == \A p \in Price : p \in Nat

ASSUME ContentConstants ==
  /\ \A c \in Coin : c \in Nat
  /\ MaxCoins \in Nat
  /\ ChangeDust \in Nat \ {0}
  /\ BaseCost \in Nat /\ InputCost \in Nat /\ OutputCost \in Nat

VARIABLES
  order,     \* the price, the buyer, the creator, and the buyer's coins by amount
  paying,    \* how far the payment is
  prepared,  \* the transaction that prepare has built
  signed,    \* the one that the wallet has returned
  attempts,  \* queries of the verification that found nothing
  verdict    \* what the verification has answered

contentVars == <<order, paying, prepared, signed, attempts, verdict>>

-----------------------------------------------------------------------------
(* prepare *)

Ascending(coins) == \A i \in 1 .. Len(coins) - 1 : coins[i] <= coins[i + 1]

\* What the first n of some amounts add up to.
SumTo(amounts, n) ==
  LET sum[i \in 0 .. n] == IF i = 0 THEN 0 ELSE sum[i - 1] + amounts[i]
  IN sum[n]

\* The creator's output, the platform's if it has a share, and room for the change.
OutputCount(price) == IF PlatformFee(price) > 0 THEN 3 ELSE 2

\* estimatedFee.
EstimatedFee(inputs, price) ==
  BaseCost + InputCost * inputs + OutputCost * OutputCount(price)

\* The first n coins pay the price and their own fee.
Enough(coins, n, price) ==
  SumTo(coins, n) >= price + EstimatedFee(n, price)

\* Variant: the first coins that pay the price, without the fee.
SelectedForPrice(coins, price) ==
  IF SumTo(coins, Len(coins)) < price THEN Len(coins)
  ELSE CHOOSE n \in 1 .. Len(coins) :
         /\ SumTo(coins, n) >= price
         /\ \A m \in 1 .. n - 1 : SumTo(coins, m) < price

\* The smallest coins that are enough, or all of them.
Selected(coins, price) ==
  IF \E n \in 1 .. Len(coins) : Enough(coins, n, price)
  THEN CHOOSE n \in 1 .. Len(coins) :
         Enough(coins, n, price) /\ \A m \in 1 .. n - 1 : ~ Enough(coins, m, price)
  ELSE Len(coins)

\* Variant: a platform output of nothing when it has no share.
PlatformOutputsAlways(price) == <<[to |-> Platform, value |-> PlatformFee(price)]>>

PlatformOutputs(price) ==
  IF PlatformFee(price) > 0 THEN <<[to |-> Platform, value |-> PlatformFee(price)]>>
  ELSE << >>

ChangeOutputs(change) ==
  IF change >= ChangeDust THEN <<[to |-> order.buyer, value |-> change]>> ELSE << >>

\* The template: what the buyer spends, to whom, and the post it names.
Template(coins, n, price) ==
  [from |-> order.buyer,
   spends |-> SubSeq(coins, 1, n),
   outputs |->
     <<[to |-> order.creator, value |-> price - PlatformFee(price)]>>
       \o PlatformOutputs(price)
       \o ChangeOutputs(SumTo(coins, n) - price - EstimatedFee(n, price)),
   names |-> "post",
   complete |-> FALSE]

-----------------------------------------------------------------------------
(* verifyPurchase *)

Pays(tx, to, value) ==
  \E i \in DOMAIN tx.outputs : tx.outputs[i] = [to |-> to, value |-> value]

PaysAnything(tx, to) == \E i \in DOMAIN tx.outputs : tx.outputs[i].to = to

\* The payload names the post and its media; a transaction without a payload names no
\* post and is not held against it.
NamesNoOther(tx) == tx.names \in {"post", "nothing"}

\* The content of an accepted transaction.
PurchaseContent(tx, buyer, creator, price) ==
  /\ NamesNoOther(tx)
  /\ tx.from = buyer
  /\ Pays(tx, creator, price - PlatformFee(price))
  /\ IF PlatformFee(price) = 0 THEN ~ PaysAnything(tx, Platform)
     ELSE Pays(tx, Platform, PlatformFee(price))

-----------------------------------------------------------------------------
(* The payment *)

NoTransaction == [spends |-> << >>]

Orders ==
  {o \in [price : Price, buyer : Payer, creator : Payer,
          coins : {s \in UNION {[1 .. n -> Coin] : n \in 0 .. MaxCoins} : Ascending(s)}] :
     o.buyer # o.creator}

ContentStarts(orders) ==
  /\ order \in orders
  /\ paying = "new"
  /\ prepared = NoTransaction
  /\ signed = NoTransaction
  /\ attempts = 0
  /\ verdict = "none"

ContentInit == ContentStarts(Orders)

CanPay == Enough(order.coins, Selected(order.coins, order.price), order.price)

Prepare ==
  /\ paying = "new"
  /\ CanPay
  /\ prepared' = Template(order.coins, Selected(order.coins, order.price), order.price)
  /\ paying' = "prepared"
  /\ UNCHANGED <<order, signed, attempts, verdict>>

\* INSUFFICIENT_FUNDS.
PrepareRefuses ==
  /\ paying = "new"
  /\ ~ CanPay
  /\ paying' = "refused"
  /\ UNCHANGED <<order, prepared, signed, attempts, verdict>>

\* The wallet signs what it was given, or returns it unsigned or changed.
WalletSigns ==
  /\ paying = "prepared"
  /\ paying' = "signed"
  /\ \/ signed' = [prepared EXCEPT !.complete = TRUE]
     \/ signed' = prepared
     \/ signed' = [prepared EXCEPT !.complete = TRUE, !.outputs = SubSeq(@, 1, 1)]
     \/ signed' = [prepared EXCEPT !.complete = TRUE, !.names = "another"]
  /\ UNCHANGED <<order, prepared, attempts, verdict>>

\* sameTransaction: everything but the signatures.
Same(tx) == [tx EXCEPT !.complete = FALSE] = prepared

SubmitRelays ==
  /\ paying = "signed"
  /\ Same(signed) /\ signed.complete
  /\ paying' = "relayed"
  /\ UNCHANGED <<order, prepared, signed, attempts, verdict>>

\* The transaction was changed, lacks a signature, or an input is not what it was.
SubmitRejects ==
  /\ paying = "signed"
  /\ paying' = "rejected"
  /\ UNCHANGED <<order, prepared, signed, attempts, verdict>>

Accepted ==
  /\ paying = "relayed"
  /\ paying' = "accepted"
  /\ UNCHANGED <<order, prepared, signed, attempts, verdict>>

\* requestRetryingMissing: a transaction that the indexer does not know is asked for
\* again, and given up after the last attempt.
VerifyMissing ==
  /\ paying \in {"relayed", "accepted"}
  /\ verdict = "none"
  /\ attempts' = attempts + 1
  /\ verdict' = IF attempts' = MaxAttempts THEN "no" ELSE "none"
  /\ UNCHANGED <<order, paying, prepared, signed>>

VerifyAnswers ==
  /\ paying \in {"relayed", "accepted"}
  /\ verdict = "none"
  /\ verdict' =
       IF paying = "accepted"
            /\ PurchaseContent(signed, order.buyer, order.creator, order.price)
       THEN "yes" ELSE "no"
  /\ UNCHANGED <<order, paying, prepared, signed, attempts>>

\* Access is verified anew each time it is asked for.
VerifyAgain ==
  /\ verdict # "none"
  /\ verdict' = "none"
  /\ attempts' = 0
  /\ UNCHANGED <<order, paying, prepared, signed>>

ContentNext ==
  \/ Prepare \/ PrepareRefuses \/ WalletSigns \/ SubmitRelays \/ SubmitRejects
  \/ Accepted \/ VerifyMissing \/ VerifyAnswers \/ VerifyAgain

ContentSpec == ContentInit /\ [][ContentNext]_contentVars

-----------------------------------------------------------------------------
(* Properties *)

\* A payment that was relayed is recognised once it is accepted: the content that
\* verifyPurchase looks for is the content that prepare wrote, whatever the price, the
\* rounding and the change.  Where the platform has no share it must not be paid at all,
\* so its own wallet, as a creator or as a buyer with change, is the exception.
RelayedVerifies ==
  /\ paying \in {"relayed", "accepted"}
  /\ PlatformFee(order.price) = 0 => Platform \notin {order.buyer, order.creator}
  => PurchaseContent(signed, order.buyer, order.creator, order.price)

\* A buyer is refused only if no selection of the coins pays, provided that each coin is
\* worth more than the fee for spending it; and what is paid beyond the outputs is the
\* fee of the network and less than the smallest change.
RefusedOnlyWhenPoor ==
  /\ (paying = "refused" /\ \A i \in DOMAIN order.coins : order.coins[i] >= InputCost) =>
       \A S \in SUBSET DOMAIN order.coins :
         SumTo([i \in DOMAIN order.coins |-> IF i \in S THEN order.coins[i] ELSE 0],
               Len(order.coins))
           < order.price + EstimatedFee(Cardinality(S), order.price)
  /\ paying = "prepared" =>
       LET kept == SumTo(prepared.spends, Len(prepared.spends))
                     - SumTo([i \in DOMAIN prepared.outputs |-> prepared.outputs[i].value],
                             Len(prepared.outputs))
                     - EstimatedFee(Len(prepared.spends), order.price)
       IN 0 <= kept /\ kept < ChangeDust

=============================================================================
