---------------------------- MODULE MemberAccess ----------------------------
(***************************************************************************)
(* Whether a buyer is a member: MembershipAccess.isActive asks the chain,  *)
(* through the verifier, about the receipts of the buyer and then about    *)
(* the index outputs in the buyer's wallet, one request after another,     *)
(* while memberships are minted, recorded and expire.                      *)
(*                                                                         *)
(* A mint leaves a member output, which the contract lets nobody spend,    *)
(* and an index output of MEMBERSHIP_INDEX_VALUE in the owner's wallet,    *)
(* which is spent like any coin.  The checks of the shape of a transaction *)
(* (version, payload, redeem script, covenant, authorizing input) hold of  *)
(* a mint and of nothing else.                                             *)
(***************************************************************************)
EXTENDS Integers, FiniteSets

CONSTANTS
  Mint,         \* transactions that may mint a membership
  Owner,       \* their owners
  Creator,      \* creators
  Covenant,     \* covenants
  NoCovenant,   \* a receipt without one, a search without one
  Buyer,        \* who asks,
  Of,           \* and whose posts for
  MaxDaa        \* bound: the DAA score

ASSUME MemberAssumption ==
  Buyer \in Owner /\ Of \in Creator /\ NoCovenant \notin Covenant /\ MaxDaa \in Nat

VARIABLES
  founder,    \* the creator of each covenant
  minted,     \* the owner, covenant and expiry of each mint on the chain
  indexed,    \* mints that the indexer knows
  inWallet,   \* mints whose index output is unspent
  recorded,   \* covenants of the creator that the server has recorded
  receipts,   \* the receipts of the buyer: the mint, and the covenant if it is known
  daa,        \* the virtual DAA score
  asking,     \* the check: where it is, what it has read
  held        \* mints that were good for the check when it began, and whether by a receipt

memberVars ==
  <<founder, minted, indexed, inWallet, recorded, receipts, daa, asking, held>>

Membership == [owner : Owner, covenant : Covenant, expiry : 1 .. MaxDaa]

HasReceipt(t) == \E r \in receipts : r.mint = t

\* Variant: an EXPIRED membership will do.
ValidOnce(t, covenant) ==
  /\ t \in indexed
  /\ minted[t].owner = Buyer
  /\ founder[minted[t].covenant] = Of
  /\ covenant \in {NoCovenant, minted[t].covenant}

\* checkMemberOutput: VALID for the owner, the covenant if one is expected, the creator.
Valid(t, covenant) ==
  /\ t \in indexed
  /\ minted[t].owner = Buyer
  /\ founder[minted[t].covenant] = Of
  /\ covenant \in {NoCovenant, minted[t].covenant}
  /\ minted[t].expiry > daa

NotAsking == [pc |-> "idle", ids |-> {}, todo |-> {}, since |-> 0]

MemberInit ==
  /\ founder \in [Covenant -> Creator]
  /\ minted = << >>
  /\ indexed = {} /\ inWallet = {}
  /\ recorded = {}
  /\ receipts = {}
  /\ daa = 0
  /\ asking = NotAsking
  /\ held = {}

-----------------------------------------------------------------------------
(* The chain and the server's records *)

ChainMints(t, m) ==
  /\ t \notin DOMAIN minted
  /\ m.expiry > daa
  /\ minted' = [u \in DOMAIN minted \cup {t} |-> IF u = t THEN m ELSE minted[u]]
  /\ inWallet' = inWallet \cup {t}
  /\ UNCHANGED <<founder, indexed, recorded, receipts, daa, asking, held>>

Indexes(t) ==
  /\ t \in DOMAIN minted \ indexed
  /\ indexed' = indexed \cup {t}
  /\ UNCHANGED <<founder, minted, inWallet, recorded, receipts, daa, asking, held>>

\* The owner spends the index output in another payment.
SpendsIndex(t) ==
  /\ t \in inWallet
  /\ inWallet' = inWallet \ {t}
  /\ UNCHANGED <<founder, minted, indexed, recorded, receipts, daa, asking, held>>

RecordsCovenant(k) ==
  /\ founder[k] = Of /\ k \notin recorded
  /\ recorded' = recorded \cup {k}
  /\ UNCHANGED <<founder, minted, indexed, inWallet, receipts, daa, asking, held>>

\* A purchase is finalized, with its covenant; rows of before the column have none.
RecordsReceipt(t) ==
  /\ t \in DOMAIN minted
  /\ minted[t].owner = Buyer /\ minted[t].covenant \in recorded
  /\ ~ HasReceipt(t)
  /\ \E k \in {minted[t].covenant, NoCovenant} :
       receipts' = receipts \cup {[mint |-> t, covenant |-> k]}
  /\ UNCHANGED <<founder, minted, indexed, inWallet, recorded, daa, asking, held>>

DaaGrows ==
  /\ daa < MaxDaa
  /\ daa' = daa + 1
  /\ UNCHANGED <<founder, minted, indexed, inWallet, recorded, receipts, asking, held>>

-----------------------------------------------------------------------------
(* isActive *)

\* A membership that this check is bound to find: one with a receipt, or with an index
\* output, under a covenant that is recorded.
Good ==
  {t \in indexed : /\ Valid(t, NoCovenant)
                   /\ minted[t].covenant \in recorded
                   /\ (t \in inWallet \/ HasReceipt(t))}

Ask ==
  /\ asking.pc = "idle"
  /\ asking' = [pc |-> "receipts", ids |-> recorded, todo |-> {}, since |-> daa]
  /\ held' = {[mint |-> t, receipt |-> HasReceipt(t)] : t \in Good}
  /\ UNCHANGED <<founder, minted, indexed, inWallet, recorded, receipts, daa>>

\* A receipt is checked under its covenant, or else under each that is recorded.
ReadReceipts ==
  /\ asking.pc = "receipts"
  /\ asking' = [asking EXCEPT !.pc = "verify",
       !.todo = UNION {{[mint |-> r.mint, covenant |-> k] :
                          k \in IF r.covenant # NoCovenant THEN {r.covenant} ELSE asking.ids} :
                         r \in receipts}]
  /\ UNCHANGED <<founder, minted, indexed, inWallet, recorded, receipts, daa, held>>

\* verifyUtxo; a transaction that the indexer does not know is an error, and ends it.
VerifyReceipt(c) ==
  /\ asking.pc = "verify" /\ c \in asking.todo
  /\ c.mint \in indexed
  /\ asking' = IF Valid(c.mint, c.covenant) THEN [asking EXCEPT !.pc = "granted"]
               ELSE [asking EXCEPT !.todo = @ \ {c}]
  /\ UNCHANGED <<founder, minted, indexed, inWallet, recorded, receipts, daa, held>>

\* Then the wallet is searched, under each covenant or under any.
SearchesWallet ==
  /\ asking.pc = "verify" /\ asking.todo = {}
  /\ asking' = [asking EXCEPT !.pc = "search",
                              !.ids = IF @ = {} THEN {NoCovenant} ELSE @]
  /\ UNCHANGED <<founder, minted, indexed, inWallet, recorded, receipts, daa, held>>

\* findMembership: the unspent index outputs and the score, read at once.
Found(k) == {t \in inWallet \cap indexed : Valid(t, k)}

\* What is found is recorded; a failure to record it is ignored.
SearchFinds(k) ==
  /\ asking.pc = "search" /\ k \in asking.ids
  /\ \E t \in Found(k) :
       receipts' \in {receipts,
         IF HasReceipt(t) THEN receipts
         ELSE receipts \cup {[mint |-> t, covenant |-> k]}}
  /\ asking' = [asking EXCEPT !.pc = "granted"]
  /\ UNCHANGED <<founder, minted, indexed, inWallet, recorded, daa, held>>

SearchMisses(k) ==
  /\ asking.pc = "search" /\ k \in asking.ids
  /\ Found(k) = {}
  /\ asking' = [asking EXCEPT !.ids = @ \ {k}]
  /\ UNCHANGED <<founder, minted, indexed, inWallet, recorded, receipts, daa, held>>

Refuses ==
  /\ asking.pc = "search" /\ asking.ids = {}
  /\ asking' = [asking EXCEPT !.pc = "refused"]
  /\ UNCHANGED <<founder, minted, indexed, inWallet, recorded, receipts, daa, held>>

\* The answer is given; or a request fails, and no answer is.
AskEnds ==
  /\ asking.pc # "idle"
  /\ asking' = NotAsking
  /\ held' = {}
  /\ UNCHANGED <<founder, minted, indexed, inWallet, recorded, receipts, daa>>

MemberNext ==
  \/ \E t \in Mint : \E m \in Membership : ChainMints(t, m)
  \/ \E t \in Mint : Indexes(t) \/ SpendsIndex(t) \/ RecordsReceipt(t)
  \/ \E k \in Covenant : RecordsCovenant(k)
  \/ DaaGrows
  \/ Ask \/ ReadReceipts \/ SearchesWallet \/ Refuses \/ AskEnds
  \/ \E c \in asking.todo : VerifyReceipt(c)
  \/ \E k \in asking.ids : SearchFinds(k) \/ SearchMisses(k)

MemberSpec == MemberInit /\ [][MemberNext]_memberVars

-----------------------------------------------------------------------------
(* Properties *)

\* Whoever is let in owns a membership of this creator that was in force when the check
\* began, under a covenant the server has recorded if there was one.
LetInRightly ==
  asking.pc = "granted" =>
    \E t \in indexed :
      /\ minted[t].owner = Buyer /\ founder[minted[t].covenant] = Of
      /\ minted[t].expiry > asking.since
      /\ asking.ids \subseteq {NoCovenant} \/ minted[t].covenant \in recorded

\* Whoever is refused had no such membership that the server could know of, or has lost
\* it during the check: it has expired, or had no receipt and its index output is spent.
RefusedRightly ==
  asking.pc = "refused" =>
    \A h \in held :
      \/ minted[h.mint].expiry <= daa
      \/ ~ h.receipt /\ h.mint \notin inWallet

\* The answer of isActive to a buyer is right, although it is made of many requests.
AccessJudged == LetInRightly /\ RefusedRightly

=============================================================================
