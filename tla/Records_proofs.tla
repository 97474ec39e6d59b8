--------------------------- MODULE Records_proofs ---------------------------
(***************************************************************************)
(* Proofs about what the server has on record: the membership check, for   *)
(* all mints, owners, creators, covenants and scores; and the two stores,  *)
(* for all people, ids, media, prices and sequences of calls.              *)
(***************************************************************************)
EXTENDS MemberAccess, Stores, FiniteSetTheorems, TLAPS

-----------------------------------------------------------------------------
(* The membership check *)

Receipt == [mint : Mint, covenant : Covenant \cup {NoCovenant}]

Asking == [pc : {"idle", "receipts", "verify", "granted", "search", "refused"},
           ids : SUBSET (Covenant \cup {NoCovenant}), todo : SUBSET Receipt, since : Nat]

\* The chain, the records and the check hold what the code puts into them.
MemberTypeOK ==
  /\ founder \in [Covenant -> Creator]
  /\ DOMAIN minted \subseteq Mint
  /\ \A t \in DOMAIN minted : minted[t] \in Membership
  /\ indexed \subseteq DOMAIN minted
  /\ inWallet \subseteq DOMAIN minted
  /\ recorded \subseteq Covenant
  /\ receipts \subseteq Receipt
  /\ daa \in Nat
  /\ asking \in Asking
  /\ held \subseteq [mint : Mint, receipt : BOOLEAN]

\* A receipt is of a mint on the chain, under its covenant, which is recorded, or none.
ReceiptsTrue ==
  \A r \in receipts :
    /\ r.mint \in DOMAIN minted
    /\ r.covenant # NoCovenant => /\ r.covenant = minted[r.mint].covenant
                                  /\ r.covenant \in recorded

\* The check asks under recorded covenants, or searches under none where it found none.
AskedRecorded ==
  /\ asking.since <= daa
  /\ asking.ids \subseteq recorded \/ asking.ids \subseteq {NoCovenant}
  /\ asking.pc \in {"receipts", "verify"} => asking.ids \subseteq recorded
  /\ \A c \in asking.todo : c.covenant \in recorded

\* A mint that is no longer good for the check.
Lapsed(h) == minted[h.mint].expiry <= daa \/ (~ h.receipt /\ h.mint \notin inWallet)

Expired(h) == minted[h.mint].expiry <= daa

\* What was good for the check when it began is the buyer's, of this creator.
HeldIsOwned ==
  \A h \in held :
    /\ h.mint \in indexed
    /\ minted[h.mint].owner = Buyer
    /\ founder[minted[h.mint].covenant] = Of
    /\ minted[h.mint].covenant \in recorded

\* While it lasts it is still to be checked, by its receipt or in the wallet.
HeldIsAhead ==
  \A h \in held :
    LET k == minted[h.mint].covenant IN
    /\ asking.pc \in {"receipts", "verify"} => k \in asking.ids
    /\ asking.pc = "receipts" /\ h.receipt => HasReceipt(h.mint)
    /\ asking.pc = "verify" /\ h.receipt =>
         Expired(h) \/ [mint |-> h.mint, covenant |-> k] \in asking.todo
    /\ asking.pc = "search" => Lapsed(h) \/ (~ h.receipt /\ k \in asking.ids)

MemberInv ==
  /\ MemberTypeOK /\ ReceiptsTrue /\ AskedRecorded /\ HeldIsOwned /\ HeldIsAhead
  /\ LetInRightly /\ RefusedRightly

LEMMA MemberInitInv == MemberInit => MemberInv
  BY MemberAssumption
  DEF MemberInit, NotAsking, MemberInv, MemberTypeOK, Asking, ReceiptsTrue, AskedRecorded,
      HeldIsOwned, HeldIsAhead, LetInRightly, RefusedRightly

\* What a step of the chain or of the other requests may do to what the check reads.
WorldMoves ==
  /\ UNCHANGED <<founder, asking, held>>
  /\ MemberTypeOK' /\ ReceiptsTrue'
  /\ \A t \in DOMAIN minted : minted'[t] = minted[t] /\ (t \in inWallet' => t \in inWallet)
  /\ indexed \subseteq indexed' /\ recorded \subseteq recorded' /\ receipts \subseteq receipts'
  /\ daa <= daa'

LEMMA WorldKeeps == ASSUME MemberInv, WorldMoves PROVE MemberInv'
<1>1. /\ \A t \in indexed : minted'[t] = minted[t] /\ (t \in inWallet' => t \in inWallet)
      /\ \A t \in indexed : minted[t].expiry \in Nat
      /\ daa \in Nat /\ daa' \in Nat /\ daa <= daa' /\ asking.since \in Nat
  BY DEF MemberInv, MemberTypeOK, WorldMoves, Asking, Membership
<1>2. AskedRecorded' /\ HeldIsOwned'
  BY <1>1 DEF MemberInv, AskedRecorded, HeldIsOwned, WorldMoves
<1>3. ASSUME NEW h \in held
      PROVE  /\ h.mint \in indexed /\ minted'[h.mint] = minted[h.mint]
             /\ Expired(h) => Expired(h)'
             /\ Lapsed(h) => Lapsed(h)'
             /\ HasReceipt(h.mint) => HasReceipt(h.mint)'
  <2>1. h.mint \in indexed
    BY DEF MemberInv, HeldIsOwned
  <2> QED
    BY <1>1, <2>1 DEF Expired, Lapsed, HasReceipt, WorldMoves
<1>4. HeldIsAhead'
  BY <1>3 DEF MemberInv, HeldIsAhead, WorldMoves
<1>5. RefusedRightly'
  BY <1>3 DEF MemberInv, RefusedRightly, Lapsed, WorldMoves
<1>6. LetInRightly'
  BY <1>1 DEF MemberInv, LetInRightly, WorldMoves
<1> QED
  BY <1>2, <1>4, <1>5, <1>6 DEF MemberInv, WorldMoves

LEMMA ChainMintsKeeps ==
  ASSUME MemberInv, NEW t \in Mint, NEW m \in Membership, ChainMints(t, m)
  PROVE  MemberInv'
<1>1. /\ t \notin DOMAIN minted /\ inWallet' = inWallet \cup {t}
      /\ minted' = [u \in DOMAIN minted \cup {t} |-> IF u = t THEN m ELSE minted[u]]
      /\ UNCHANGED <<founder, indexed, recorded, receipts, daa, asking, held>>
  BY DEF ChainMints
<1>2. /\ DOMAIN minted' = DOMAIN minted \cup {t} /\ minted'[t] = m
      /\ \A u \in DOMAIN minted : minted'[u] = minted[u] /\ u # t
  BY <1>1
<1>3. MemberTypeOK' /\ daa <= daa'
  BY <1>1, <1>2 DEF MemberInv, MemberTypeOK
<1>4. ReceiptsTrue'
  BY <1>1, <1>2 DEF MemberInv, ReceiptsTrue
<1>5. WorldMoves
  BY <1>1, <1>2, <1>3, <1>4 DEF WorldMoves
<1> QED
  BY <1>5, WorldKeeps

LEMMA RecordsMove ==
  ASSUME MemberInv,
         \/ \E t \in Mint : Indexes(t) \/ SpendsIndex(t) \/ RecordsReceipt(t)
         \/ \E k \in Covenant : RecordsCovenant(k)
         \/ DaaGrows
  PROVE  MemberInv'
<1>1. UNCHANGED <<founder, minted, asking, held>>
  BY DEF Indexes, SpendsIndex, RecordsReceipt, RecordsCovenant, DaaGrows
<1>2. MemberTypeOK /\ ReceiptsTrue /\ daa \in Nat
  BY DEF MemberInv, MemberTypeOK
<1>3. CASE \/ \E t \in Mint : Indexes(t) \/ SpendsIndex(t)
           \/ \E k \in Covenant : RecordsCovenant(k)
  <2>1. /\ indexed \subseteq indexed' /\ indexed' \subseteq DOMAIN minted
        /\ inWallet' \subseteq inWallet /\ UNCHANGED <<receipts, daa>>
        /\ recorded \subseteq recorded' /\ recorded' \subseteq Covenant
    BY <1>2, <1>3 DEF Indexes, SpendsIndex, RecordsCovenant, MemberTypeOK
  <2>2. WorldMoves
    BY <1>1, <1>2, <2>1 DEF WorldMoves, MemberTypeOK, ReceiptsTrue
  <2> QED
    BY <2>2, WorldKeeps
<1>4. ASSUME NEW t \in Mint, RecordsReceipt(t) PROVE MemberInv'
  <2>1. PICK c \in {minted[t].covenant, NoCovenant} :
          receipts' = receipts \cup {[mint |-> t, covenant |-> c]}
    BY <1>4 DEF RecordsReceipt
  <2> DEFINE new == [mint |-> t, covenant |-> c]
  <2>2. /\ t \in DOMAIN minted /\ minted[t].covenant \in recorded
        /\ UNCHANGED <<indexed, inWallet, recorded, daa>>
    BY <1>4 DEF RecordsReceipt
  <2>3. new.mint = t /\ new.covenant = c /\ new \in Receipt
    BY <1>2, <2>2 DEF MemberTypeOK, Receipt
  <2> HIDE DEF new
  <2>4. receipts' = receipts \cup {new}
    BY <2>1 DEF new
  <2>5. MemberTypeOK' /\ ReceiptsTrue'
    BY <1>1, <1>2, <2>2, <2>3, <2>4 DEF MemberTypeOK, ReceiptsTrue
  <2>6. WorldMoves
    BY <1>1, <1>2, <2>2, <2>4, <2>5 DEF WorldMoves
  <2> QED
    BY <2>6, WorldKeeps
<1>5. CASE DaaGrows
  <2>1. daa' = daa + 1 /\ UNCHANGED <<indexed, inWallet, recorded, receipts>>
    BY <1>5 DEF DaaGrows
  <2>2. daa' \in Nat /\ daa <= daa'
    BY <1>2, <2>1
  <2>3. WorldMoves
    BY <1>1, <1>2, <2>1, <2>2 DEF WorldMoves, MemberTypeOK, ReceiptsTrue
  <2> QED
    BY <2>3, WorldKeeps
<1> QED
  BY <1>3, <1>4, <1>5

\* What the steps of the check leave alone.
CheckMoves == UNCHANGED <<founder, minted, indexed, inWallet, recorded, daa>>

LEMMA AskKeeps == ASSUME MemberInv, Ask PROVE MemberInv'
<1> DEFINE begun == [pc |-> "receipts", ids |-> recorded, todo |-> {}, since |-> daa]
<1>1. /\ asking' = begun /\ CheckMoves /\ receipts' = receipts
      /\ held' = {[mint |-> t, receipt |-> HasReceipt(t)] : t \in Good}
  BY DEF Ask, CheckMoves
<1>2. begun.pc = "receipts" /\ begun.ids = recorded /\ begun.todo = {} /\ begun.since = daa
      /\ begun \in Asking
  BY DEF MemberInv, MemberTypeOK, Asking
<1> HIDE DEF begun
<1>3. ASSUME NEW h \in held'
      PROVE  /\ h \in [mint : Mint, receipt : BOOLEAN]
             /\ h.mint \in indexed /\ minted[h.mint].owner = Buyer
             /\ founder[minted[h.mint].covenant] = Of /\ minted[h.mint].covenant \in recorded
             /\ h.receipt => HasReceipt(h.mint)
  <2>1. PICK t \in Good : h = [mint |-> t, receipt |-> HasReceipt(t)]
    BY <1>1
  <2>2. HasReceipt(t) \in BOOLEAN
    BY DEF HasReceipt
  <2> QED
    BY <2>1, <2>2 DEF Good, Valid, MemberInv, MemberTypeOK
<1>4. MemberTypeOK' /\ ReceiptsTrue'
  BY <1>1, <1>2, <1>3 DEF CheckMoves, MemberInv, MemberTypeOK, ReceiptsTrue
<1>5. AskedRecorded' /\ HeldIsOwned' /\ HeldIsAhead'
  BY <1>1, <1>2, <1>3 DEF CheckMoves, MemberInv, MemberTypeOK, AskedRecorded, HeldIsOwned,
                          HeldIsAhead, HasReceipt
<1> QED
  BY <1>1, <1>2, <1>4, <1>5 DEF MemberInv, LetInRightly, RefusedRightly

\* A step of the check that reads, and gives it another state.
LEMMA CheckKeeps ==
  ASSUME MemberInv, CheckMoves, UNCHANGED <<receipts, held>>, NEW state \in Asking,
         asking' = state
  PROVE  MemberTypeOK' /\ ReceiptsTrue' /\ HeldIsOwned'
  BY DEF CheckMoves, MemberInv, MemberTypeOK, ReceiptsTrue, HeldIsOwned

LEMMA ReadReceiptsKeeps == ASSUME MemberInv, ReadReceipts PROVE MemberInv'
<1> DEFINE Under(r) == IF r.covenant # NoCovenant THEN {r.covenant} ELSE asking.ids
           todo == UNION {{[mint |-> r.mint, covenant |-> k] : k \in Under(r)} : r \in receipts}
           state == [pc |-> "verify", ids |-> asking.ids, todo |-> todo, since |-> asking.since]
<1>1. /\ asking \in Asking /\ asking.pc = "receipts" /\ CheckMoves
      /\ UNCHANGED <<receipts, held>> /\ asking.ids \subseteq recorded
      /\ recorded \subseteq Covenant
  BY DEF ReadReceipts, CheckMoves, MemberInv, MemberTypeOK, AskedRecorded
<1>2. \A r \in receipts : Under(r) \subseteq recorded /\ r.mint \in Mint
  BY <1>1 DEF MemberInv, MemberTypeOK, ReceiptsTrue, Receipt
<1>3. \A r \in receipts : \A k \in Under(r) : [mint |-> r.mint, covenant |-> k] \in todo
  OBVIOUS
<1>4. ASSUME NEW c \in todo PROVE c \in Receipt /\ c.covenant \in recorded
  <2>1. PICK r \in receipts : \E k \in Under(r) : c = [mint |-> r.mint, covenant |-> k]
    BY <1>4
  <2> QED
    BY <1>1, <1>2, <2>1 DEF Receipt
<1>5. \A h \in held : h.receipt =>
        [mint |-> h.mint, covenant |-> minted[h.mint].covenant] \in todo
  <2> SUFFICES ASSUME NEW h \in held, h.receipt
               PROVE  [mint |-> h.mint, covenant |-> minted[h.mint].covenant] \in todo
    OBVIOUS
  <2>1. PICK r \in receipts : r.mint = h.mint
    BY <1>1 DEF MemberInv, HeldIsAhead, HasReceipt
  <2>2. minted[h.mint].covenant \in Under(r)
    BY <1>1, <2>1 DEF MemberInv, HeldIsAhead, ReceiptsTrue
  <2> QED
    BY <1>3, <2>1, <2>2
<1> HIDE DEF todo
<1>6. asking' = state
  BY <1>1 DEF ReadReceipts, Asking, todo
<1>7. state \in Asking /\ state.pc = "verify" /\ state.ids = asking.ids /\ state.todo = todo
      /\ state.since = asking.since
  BY <1>1, <1>4 DEF Asking
<1> HIDE DEF state
<1>8. MemberTypeOK' /\ ReceiptsTrue' /\ HeldIsOwned'
  BY <1>1, <1>6, <1>7, CheckKeeps
<1>9. AskedRecorded' /\ HeldIsAhead'
  BY <1>1, <1>4, <1>5, <1>6, <1>7
  DEF MemberInv, AskedRecorded, HeldIsAhead, CheckMoves
<1> QED
  BY <1>6, <1>7, <1>8, <1>9 DEF MemberInv, LetInRightly, RefusedRightly

LEMMA VerifyReceiptKeeps ==
  ASSUME MemberInv, NEW c \in asking.todo, VerifyReceipt(c)
  PROVE  MemberInv'
<1>1. /\ asking \in Asking /\ asking.pc = "verify" /\ CheckMoves
      /\ UNCHANGED <<receipts, held>> /\ asking.ids \subseteq recorded
      /\ c.covenant \in recorded /\ c.mint \in indexed /\ NoCovenant \notin recorded
      /\ daa \in Nat /\ asking.since \in Nat /\ asking.since <= daa
      /\ c \in Receipt
      /\ \A t \in indexed : minted[t].expiry \in Nat
  BY MemberAssumption
  DEF VerifyReceipt, CheckMoves, MemberInv, MemberTypeOK, AskedRecorded, Asking, Membership
<1>2. CASE Valid(c.mint, c.covenant) /\ asking' = [asking EXCEPT !.pc = "granted"]
  <2>1. /\ asking' \in Asking /\ asking'.pc = "granted" /\ asking'.ids = asking.ids
        /\ asking'.todo = asking.todo /\ asking'.since = asking.since
    BY <1>1, <1>2 DEF Asking
  <2>2. MemberTypeOK' /\ ReceiptsTrue' /\ HeldIsOwned'
    BY <1>1, <2>1, CheckKeeps
  <2>3. AskedRecorded' /\ HeldIsAhead'
    BY <1>1, <2>1 DEF MemberInv, AskedRecorded, HeldIsAhead, CheckMoves
  <2>4. LetInRightly'
    BY <1>1, <1>2, <2>1 DEF Valid, LetInRightly, CheckMoves
  <2> QED
    BY <2>1, <2>2, <2>3, <2>4 DEF MemberInv, RefusedRightly
<1>3. CASE ~ Valid(c.mint, c.covenant) /\ asking' = [asking EXCEPT !.todo = @ \ {c}]
  <2>1. /\ asking' \in Asking /\ asking'.pc = "verify" /\ asking'.ids = asking.ids
        /\ asking'.todo = asking.todo \ {c} /\ asking'.since = asking.since
    BY <1>1, <1>3 DEF Asking
  <2>2. MemberTypeOK' /\ ReceiptsTrue' /\ HeldIsOwned'
    BY <1>1, <2>1, CheckKeeps
  <2>3. ASSUME NEW h \in held, c = [mint |-> h.mint, covenant |-> minted[h.mint].covenant]
        PROVE  Expired(h)
    <3>1. c.mint = h.mint /\ c.covenant = minted[h.mint].covenant
      BY <2>3
    <3>2. ~ minted[h.mint].expiry > daa
      BY <1>1, <1>3, <3>1 DEF MemberInv, HeldIsOwned, Valid
    <3> QED
      BY <1>1, <3>1, <3>2 DEF Expired
  <2>4. AskedRecorded' /\ HeldIsAhead'
    BY <1>1, <2>1, <2>3 DEF MemberInv, AskedRecorded, HeldIsAhead, CheckMoves, Expired
  <2> QED
    BY <2>1, <2>2, <2>4 DEF MemberInv, LetInRightly, RefusedRightly
<1> QED
  BY <1>2, <1>3 DEF VerifyReceipt

LEMMA SearchesWalletKeeps == ASSUME MemberInv, SearchesWallet PROVE MemberInv'
<1> DEFINE ids == IF asking.ids = {} THEN {NoCovenant} ELSE asking.ids
           state == [pc |-> "search", ids |-> ids, todo |-> {}, since |-> asking.since]
<1>1. /\ asking \in Asking /\ asking.pc = "verify" /\ CheckMoves /\ asking.todo = {}
      /\ UNCHANGED <<receipts, held>> /\ asking.ids \subseteq recorded
  BY DEF SearchesWallet, CheckMoves, MemberInv, MemberTypeOK, AskedRecorded
<1>2. asking' = state
  BY <1>1 DEF SearchesWallet, Asking
<1>3. /\ state \in Asking /\ state.pc = "search" /\ state.ids = ids /\ state.todo = {}
      /\ state.since = asking.since
  BY <1>1 DEF Asking
<1> HIDE DEF state
<1>4. MemberTypeOK' /\ ReceiptsTrue' /\ HeldIsOwned'
  BY <1>1, <1>2, <1>3, CheckKeeps
<1>5. ASSUME NEW h \in held
      PROVE  Lapsed(h) \/ (~ h.receipt /\ minted[h.mint].covenant \in ids)
  BY <1>1, <1>5 DEF MemberInv, HeldIsAhead, Expired, Lapsed
<1>6. AskedRecorded' /\ HeldIsAhead'
  BY <1>1, <1>2, <1>3, <1>5 DEF MemberInv, AskedRecorded, HeldIsAhead, CheckMoves, Lapsed
<1> QED
  BY <1>2, <1>3, <1>4, <1>6 DEF MemberInv, LetInRightly, RefusedRightly

LEMMA SearchFindsKeeps ==
  ASSUME MemberInv, NEW k \in asking.ids, SearchFinds(k)
  PROVE  MemberInv'
<1>1. /\ asking \in Asking /\ asking.pc = "search" /\ CheckMoves /\ held' = held
      /\ asking' = [asking EXCEPT !.pc = "granted"]
      /\ daa \in Nat /\ asking.since \in Nat /\ asking.since <= daa
      /\ \A t \in indexed : minted[t].expiry \in Nat
      /\ k \in recorded \/ asking.ids \subseteq {NoCovenant}
      /\ NoCovenant \notin recorded
  BY MemberAssumption
  DEF SearchFinds, CheckMoves, MemberInv, MemberTypeOK, AskedRecorded, Asking, Membership
<1>2. /\ asking' \in Asking /\ asking'.pc = "granted" /\ asking'.ids = asking.ids
      /\ asking'.todo = asking.todo /\ asking'.since = asking.since
  BY <1>1 DEF Asking
<1>3. PICK t \in Found(k) :
        receipts' \in {receipts, IF HasReceipt(t) THEN receipts
                                 ELSE receipts \cup {[mint |-> t, covenant |-> k]}}
  BY DEF SearchFinds
<1>4. t \in indexed /\ Valid(t, k)
  BY <1>3 DEF Found
<1> DEFINE new == [mint |-> t, covenant |-> k]
<1>5. /\ new.mint = t /\ new.covenant = k /\ new \in Receipt
      /\ k # NoCovenant => k = minted[t].covenant /\ k \in recorded
  BY <1>1, <1>4 DEF Valid, MemberInv, MemberTypeOK, Receipt, Asking
<1> HIDE DEF new
<1>6. receipts' \in {receipts, receipts \cup {new}}
  BY <1>3 DEF new
<1>7. MemberTypeOK' /\ ReceiptsTrue' /\ HeldIsOwned'
  BY <1>1, <1>2, <1>4, <1>5, <1>6
  DEF CheckMoves, MemberInv, MemberTypeOK, ReceiptsTrue, HeldIsOwned
<1>8. AskedRecorded' /\ HeldIsAhead'
  BY <1>1, <1>2 DEF MemberInv, AskedRecorded, HeldIsAhead, CheckMoves
<1>9. LetInRightly'
  <2>1. /\ minted[t].owner = Buyer /\ founder[minted[t].covenant] = Of
        /\ minted[t].expiry > asking.since
    BY <1>1, <1>4 DEF Valid
  <2>2. asking.ids \subseteq {NoCovenant} \/ minted[t].covenant \in recorded
    BY <1>1, <1>5
  <2> QED
    BY <1>1, <1>2, <1>4, <2>1, <2>2 DEF LetInRightly, CheckMoves
<1> QED
  BY <1>2, <1>7, <1>8, <1>9 DEF MemberInv, RefusedRightly

LEMMA SearchMissesKeeps ==
  ASSUME MemberInv, NEW k \in asking.ids, SearchMisses(k)
  PROVE  MemberInv'
<1>1. /\ asking \in Asking /\ asking.pc = "search" /\ CheckMoves /\ Found(k) = {}
      /\ UNCHANGED <<receipts, held>> /\ asking' = [asking EXCEPT !.ids = @ \ {k}]
      /\ daa \in Nat /\ \A t \in indexed : minted[t].expiry \in Nat
  BY DEF SearchMisses, CheckMoves, MemberInv, MemberTypeOK, Membership
<1>2. /\ asking' \in Asking /\ asking'.pc = "search" /\ asking'.ids = asking.ids \ {k}
      /\ asking'.todo = asking.todo /\ asking'.since = asking.since
  BY <1>1 DEF Asking
<1>3. MemberTypeOK' /\ ReceiptsTrue' /\ HeldIsOwned'
  BY <1>1, <1>2, CheckKeeps
<1>4. ASSUME NEW h \in held, minted[h.mint].covenant = k, ~ h.receipt
      PROVE  Lapsed(h)
  <2>1. h.mint \in indexed /\ minted[h.mint].owner = Buyer
        /\ founder[minted[h.mint].covenant] = Of
    BY DEF MemberInv, HeldIsOwned
  <2>2. h.mint \notin inWallet \/ ~ minted[h.mint].expiry > daa
    BY <1>1, <1>4, <2>1 DEF Found, Valid
  <2> QED
    BY <1>1, <1>4, <2>1, <2>2 DEF Lapsed
<1>5. AskedRecorded' /\ HeldIsAhead'
  BY <1>1, <1>2, <1>4 DEF MemberInv, AskedRecorded, HeldIsAhead, CheckMoves, Lapsed
<1> QED
  BY <1>2, <1>3, <1>5 DEF MemberInv, LetInRightly, RefusedRightly

LEMMA RefusesKeeps == ASSUME MemberInv, Refuses PROVE MemberInv'
<1>1. /\ asking \in Asking /\ asking.pc = "search" /\ CheckMoves /\ asking.ids = {}
      /\ UNCHANGED <<receipts, held>> /\ asking' = [asking EXCEPT !.pc = "refused"]
  BY DEF Refuses, CheckMoves, MemberInv, MemberTypeOK
<1>2. /\ asking' \in Asking /\ asking'.pc = "refused" /\ asking'.ids = asking.ids
      /\ asking'.todo = asking.todo /\ asking'.since = asking.since
  BY <1>1 DEF Asking
<1>3. MemberTypeOK' /\ ReceiptsTrue' /\ HeldIsOwned'
  BY <1>1, <1>2, CheckKeeps
<1>4. RefusedRightly'
  BY <1>1 DEF MemberInv, HeldIsAhead, Lapsed, RefusedRightly, CheckMoves
<1>5. AskedRecorded' /\ HeldIsAhead'
  BY <1>1, <1>2 DEF MemberInv, AskedRecorded, HeldIsAhead, CheckMoves
<1> QED
  BY <1>2, <1>3, <1>4, <1>5 DEF MemberInv, LetInRightly

LEMMA AskEndsKeeps == ASSUME MemberInv, AskEnds PROVE MemberInv'
  BY DEF AskEnds, NotAsking, MemberInv, MemberTypeOK, Asking, ReceiptsTrue, AskedRecorded,
         HeldIsOwned, HeldIsAhead, LetInRightly, RefusedRightly

LEMMA MemberNextInv == MemberInv /\ [MemberNext]_memberVars => MemberInv'
<1> SUFFICES ASSUME MemberInv, [MemberNext]_memberVars PROVE MemberInv'
  OBVIOUS
<1>1. CASE UNCHANGED memberVars
  <2>1. WorldMoves
    BY <1>1 DEF memberVars, WorldMoves, MemberInv, MemberTypeOK, ReceiptsTrue
  <2> QED
    BY <2>1, WorldKeeps
<1> QED
  BY <1>1, ChainMintsKeeps, RecordsMove, AskKeeps, ReadReceiptsKeeps, VerifyReceiptKeeps,
     SearchesWalletKeeps, SearchFindsKeeps, SearchMissesKeeps, RefusesKeeps, AskEndsKeeps
  DEF MemberNext

\* Whoever is let in owned a membership of this creator in force when the check began;
\* whoever is refused had none that the server could know of, or has lost it meanwhile.
THEOREM AccessIsRight == MemberSpec => []AccessJudged
<1>1. MemberInv => AccessJudged
  BY DEF MemberInv, AccessJudged
<1> QED
  BY <1>1, MemberInitInv, MemberNextInv, PTL DEF MemberSpec

-----------------------------------------------------------------------------
(* The two stores *)

\* The key under which a map keeps a row.
KeyOf(t, r) ==
  CASE t = "profiles" -> r.address
    [] t = "covenants" -> r.creator
    [] t = "history" -> r.covenant
    [] t = "receipts" -> r.transaction
    [] t = "purchases" -> <<r.post, r.buyer>>
    [] OTHER -> r.id

ExpiringRow == [id : Id, expires : Int, consumed : BOOLEAN]

WorkflowRow == [id : Id, state : {"SUBMITTED", "CONFIRMED", "REJECTED"},
                finalized : BOOLEAN, submitted : Int]

OfferRow == [creator : Person, covenant : Id, price : Amount,
             status : {"ACTIVE", "CANCELED"}]

RowOf(t) ==
  CASE t = "profiles" ->
         [address : Person, name : Name \cup {Absent}, public : BOOLEAN]
    [] t \in {"covenants", "history"} -> OfferRow
    [] t = "receipts" -> [transaction : Id, buyer : Person, creator : Person]
    [] t = "purchases" -> [post : Id, buyer : Person, transaction : Id]
    [] t = "posts" -> [id : Id, creator : Person, digest : Digest]
    [] t = "pending" -> [id : Id, creator : Person, digest : Digest, expires : Int]
    [] t \in {"paymentWorkflows", "membershipWorkflows"} -> WorkflowRow
    [] OTHER -> ExpiringRow

\* A map and a table have the same rows, finitely many, each under its key.
Mirror(t, map, rows) ==
  /\ IsFiniteSet(DOMAIN map)
  /\ \A k \in DOMAIN map : map[k] \in rows /\ KeyOf(t, map[k]) = k
  /\ \A r \in rows : /\ r \in RowOf(t)
                     /\ KeyOf(t, r) \in DOMAIN map
                     /\ map[KeyOf(t, r)] = r

Agree(m, s) ==
  /\ DOMAIN m = Table /\ DOMAIN s = Table
  /\ \A t \in Table : Mirror(t, m[t], s[t])

\* The row of a creator is in the history, and whoever is in the history has a row.
OffersKept(s) ==
  /\ s["covenants"] \subseteq s["history"]
  /\ \A h \in s["history"] : \E r \in s["covenants"] : r.creator = h.creator

\* No media is reserved twice, nor once it has a post.
MediaApart(s) ==
  /\ \A p, q \in s["pending"] : SameMedia(p, q) => p = q
  /\ \A p \in s["pending"], q \in s["posts"] : ~ SameMedia(p, q)

Matched(m, s) == Agree(m, s) /\ OffersKept(s) /\ MediaApart(s)

StoresInv == late = {} => Matched(memory, sql) /\ alike = TRUE /\ now \in Nat

-----------------------------------------------------------------------------
(* Maps and tables in general *)

LEMMA TablesAre ==
  /\ Table = {"challenges", "sessions", "profiles", "posts", "pending", "purchases",
              "covenants", "history", "receipts", "preparedPayments",
              "preparedMemberships", "paymentWorkflows", "membershipWorkflows"}
  /\ Expiring = {"challenges", "sessions", "preparedPayments", "preparedMemberships"}
  BY DEF Table, Expiring, Kind, Prepared, Workflows

ById == {"challenges", "sessions", "posts", "pending", "preparedPayments",
         "preparedMemberships", "paymentWorkflows", "membershipWorkflows"}

LEMMA KeysAre ==
  ASSUME NEW r
  PROVE  /\ \A t \in ById : KeyOf(t, r) = r.id
         /\ KeyOf("profiles", r) = r.address
         /\ KeyOf("covenants", r) = r.creator
         /\ KeyOf("history", r) = r.covenant
         /\ KeyOf("receipts", r) = r.transaction
         /\ KeyOf("purchases", r) = <<r.post, r.buyer>>
  BY DEF KeyOf, ById

LEMMA RowsAre ==
  /\ \A t \in Expiring : RowOf(t) = ExpiringRow
  /\ \A t \in {"paymentWorkflows", "membershipWorkflows"} : RowOf(t) = WorkflowRow
  /\ RowOf("profiles") = [address : Person, name : Name \cup {Absent}, public : BOOLEAN]
  /\ RowOf("covenants") = OfferRow /\ RowOf("history") = OfferRow
  /\ RowOf("receipts") = [transaction : Id, buyer : Person, creator : Person]
  /\ RowOf("purchases") = [post : Id, buyer : Person, transaction : Id]
  /\ RowOf("posts") = [id : Id, creator : Person, digest : Digest]
  /\ RowOf("pending") = [id : Id, creator : Person, digest : Digest, expires : Int]
<1>1. \A t \in Expiring : RowOf(t) = ExpiringRow
  BY TablesAre DEF RowOf
<1> QED  BY <1>1 DEF RowOf

LEMMA PutKeeps ==
  ASSUME NEW t, NEW map, NEW rows, NEW k, NEW row, NEW after,
         Mirror(t, map, rows), row \in RowOf(t), KeyOf(t, row) = k,
         after = {r \in rows : KeyOf(t, r) # k} \cup {row}
  PROVE  Mirror(t, Put(map, k, row), after)
<1>1. IsFiniteSet(DOMAIN Put(map, k, row))
  BY FS_AddElement DEF Mirror, Put
<1> QED  BY <1>1 DEF Mirror, Put

LEMMA DropKeeps ==
  ASSUME NEW t, NEW map, NEW rows, NEW keys, NEW after,
         Mirror(t, map, rows), after = {r \in rows : KeyOf(t, r) \notin keys}
  PROVE  Mirror(t, Drop(map, keys), after)
<1>1. IsFiniteSet(DOMAIN Drop(map, keys))
  <2>1. DOMAIN Drop(map, keys) \subseteq DOMAIN map
    BY DEF Drop, Restrict
  <2> QED  BY <2>1, FS_Subset DEF Mirror
<1> QED  BY <1>1 DEF Mirror, Drop, Restrict

\* One table changes, and not one of those that are related to another.
LEMMA OneTable ==
  ASSUME NEW m, NEW s, NEW t \in Table, NEW a, NEW b, Matched(m, s), Mirror(t, a, b),
         t \notin {"covenants", "history", "pending", "posts"}
  PROVE  Matched([m EXCEPT ![t] = a], [s EXCEPT ![t] = b])
<1> DEFINE m2 == [m EXCEPT ![t] = a]
           s2 == [s EXCEPT ![t] = b]
<1>1. DOMAIN m = Table /\ DOMAIN s = Table
  BY DEF Matched, Agree
<1>2. /\ DOMAIN m2 = Table /\ DOMAIN s2 = Table /\ m2[t] = a /\ s2[t] = b
      /\ \A u \in Table \ {t} : m2[u] = m[u] /\ s2[u] = s[u]
  BY <1>1
<1>3. /\ s2["covenants"] = s["covenants"] /\ s2["history"] = s["history"]
      /\ s2["pending"] = s["pending"] /\ s2["posts"] = s["posts"]
  BY <1>2, TablesAre
<1> HIDE DEF m2, s2
<1>4. Agree(m2, s2)
  BY <1>2 DEF Matched, Agree
<1>5. OffersKept(s2) /\ MediaApart(s2)
  BY <1>3 DEF Matched, OffersKept, MediaApart
<1> QED  BY <1>4, <1>5 DEF Matched, m2, s2

\* Tables that are written back as they were.
LEMMA SameTables ==
  ASSUME NEW m, NEW s, NEW s2, Matched(m, s), DOMAIN s2 = Table,
         \A u \in Table : s2[u] = s[u]
  PROVE  Matched(m, s2)
<1>1. /\ s2["covenants"] = s["covenants"] /\ s2["history"] = s["history"]
      /\ s2["pending"] = s["pending"] /\ s2["posts"] = s["posts"]
  BY TablesAre
<1>2. Agree(m, s2)
  BY DEF Matched, Agree
<1> QED  BY <1>1, <1>2 DEF Matched, OffersKept, MediaApart

LEMMA CallKeeps ==
  ASSUME NEW mem, NEW lib, Call(mem, lib), alike = TRUE, now \in Nat,
         mem.answer = lib.answer, Matched(mem.store, lib.store)
  PROVE  Matched(memory, sql)' /\ alike' = TRUE /\ now' \in Nat
  BY DEF Call

LEMMA OutcomeIs ==
  ASSUME NEW a, NEW st
  PROVE  Outcome(a, st).answer = a /\ Outcome(a, st).store = st
  BY DEF Outcome

-----------------------------------------------------------------------------
(* Calls about rows that expire *)

LEMMA SaveRowKeeps ==
  ASSUME Matched(memory, sql), now \in Nat, NEW t \in Expiring, NEW id \in Id,
         SqlById(t, id) = {}
  PROVE  Matched(MemSet(t, id, FreshRow(id)), SqlInsert(t, FreshRow(id)))
<1> DEFINE row == FreshRow(id)
<1>1. t \in Table /\ t \in ById /\ t \notin {"covenants", "history", "pending", "posts"}
  BY TablesAre DEF ById
<1>2. row \in RowOf(t) /\ KeyOf(t, row) = id
  <2>1. now + RowLife \in Int
    BY StoresConstants
  <2>2. row \in ExpiringRow /\ row.id = id
    BY <2>1 DEF FreshRow, ExpiringRow
  <2> QED  BY <1>1, <2>2, RowsAre, KeysAre
<1>3. \A r \in sql[t] : KeyOf(t, r) # id
  BY <1>1, KeysAre DEF SqlById
<1>4. sql[t] \cup {row} = {r \in sql[t] : KeyOf(t, r) # id} \cup {row}
  BY <1>3
<1>5. Mirror(t, memory[t], sql[t])
  BY <1>1 DEF Matched, Agree
<1> HIDE DEF row
<1>6. Mirror(t, Put(memory[t], id, row), sql[t] \cup {row})
  BY <1>2, <1>4, <1>5, PutKeeps
<1> QED  BY <1>1, <1>6, OneTable DEF MemSet, SqlInsert, row

LEMMA DropRowKeeps ==
  ASSUME Matched(memory, sql), NEW t \in ById \ {"posts", "pending"}, NEW id
  PROVE  Matched(MemDrop(t, id), SqlDelete(t, SqlById(t, id)))
<1>1. t \in Table /\ t \notin {"covenants", "history", "pending", "posts"}
  BY TablesAre DEF ById
<1>2. Mirror(t, memory[t], sql[t])
  BY <1>1 DEF Matched, Agree
<1>3. sql[t] \ SqlById(t, id) = {r \in sql[t] : KeyOf(t, r) \notin {id}}
  BY KeysAre DEF SqlById
<1>4. Mirror(t, Drop(memory[t], {id}), sql[t] \ SqlById(t, id))
  BY <1>2, <1>3, DropKeeps
<1> QED  BY <1>1, <1>4, OneTable DEF MemDrop, SqlDelete

\* Rows of a table go by a condition on the row.
LEMMA PruneMirrors ==
  ASSUME NEW t, NEW map, NEW rows, NEW keys, NEW gone,
         Mirror(t, map, rows),
         gone \subseteq rows, keys \subseteq DOMAIN map,
         \A k \in DOMAIN map : k \in keys <=> map[k] \in gone
  PROVE  Mirror(t, Drop(map, keys), rows \ gone)
<1>1. rows \ gone = {r \in rows : KeyOf(t, r) \notin keys}
  BY DEF Mirror
<1> QED  BY <1>1, DropKeeps

LEMMA PruneRowsKeeps ==
  ASSUME Matched(memory, sql), NEW t \in Expiring
  PROVE  Matched(MemPrune(t), SqlPrune(t))
<1> DEFINE keys == {k \in DOMAIN memory[t] : memory[t][k].expires <= now}
           gone == {r \in sql[t] : r.expires <= now}
<1>1. t \in Table /\ t \notin {"covenants", "history", "pending", "posts"}
  BY TablesAre
<1>2. Mirror(t, memory[t], sql[t])
  BY <1>1 DEF Matched, Agree
<1>3. \A k \in DOMAIN memory[t] : k \in keys <=> memory[t][k] \in gone
  BY <1>2 DEF Mirror
<1>4. Mirror(t, Drop(memory[t], keys), sql[t] \ gone)
  BY <1>2, <1>3, PruneMirrors
<1>5. Matched([memory EXCEPT ![t] = Drop(memory[t], keys)],
           [sql EXCEPT ![t] = sql[t] \ gone])
  BY <1>1, <1>4, OneTable
<1> QED  BY <1>5 DEF MemPrune, SqlPrune, SqlDelete

LEMMA PruneChallengesKeeps ==
  ASSUME Matched(memory, sql)
  PROVE  Matched(MemPruneChallenges, SqlPruneChallenges)
<1> DEFINE t == "challenges"
           keys == {k \in DOMAIN memory[t] :
                      memory[t][k].consumed \/ memory[t][k].expires <= now}
           gone == {r \in sql[t] : r.consumed \/ r.expires <= now}
<1>1. t \in Table
  BY TablesAre
<1>2. Mirror(t, memory[t], sql[t])
  BY <1>1 DEF Matched, Agree
<1>3. \A k \in DOMAIN memory[t] : k \in keys <=> memory[t][k] \in gone
  BY <1>2 DEF Mirror
<1>4. Mirror(t, Drop(memory[t], keys), sql[t] \ gone)
  BY <1>2, <1>3, PruneMirrors
<1>5. Matched([memory EXCEPT ![t] = Drop(memory[t], keys)],
           [sql EXCEPT ![t] = sql[t] \ gone])
  BY <1>1, <1>4, OneTable
<1> QED  BY <1>5 DEF MemPruneChallenges, SqlPruneChallenges, SqlDelete

\* The row of an id in either store.
LEMMA RowById ==
  ASSUME Matched(memory, sql), NEW t \in ById, NEW id
  PROVE  /\ MemHas(t, id) => /\ SqlById(t, id) = {memory[t][id]}
                             /\ memory[t][id] \in RowOf(t)
                             /\ memory[t][id].id = id
         /\ ~ MemHas(t, id) => SqlById(t, id) = {}
<1>1. t \in Table
  BY TablesAre DEF ById
<1>2. Mirror(t, memory[t], sql[t])
  BY <1>1 DEF Matched, Agree
<1>3. \A r : KeyOf(t, r) = r.id
  BY KeysAre
<1> QED  BY <1>2, <1>3 DEF Mirror, MemHas, SqlById

LEMMA ConsumeKeeps ==
  ASSUME Matched(memory, sql), now \in Nat, NEW id \in Id
  PROVE  /\ MemConsume(id).answer = SqlConsume(id).answer
         /\ Matched(MemConsume(id).store, SqlConsume(id).store)
<1> DEFINE t == "challenges"
           old == memory[t][id]
           rows == {r \in SqlById(t, id) : ~ r.consumed /\ r.expires > now}
           row == [old EXCEPT !.consumed = TRUE]
<1>1. t \in Table /\ t \in ById /\ t \in Expiring
  BY TablesAre DEF ById
<1>2. Mirror(t, memory[t], sql[t])
  BY <1>1 DEF Matched, Agree
<1>3. CASE ~ MemHas(t, id) \/ old.consumed \/ old.expires <= now
  <2>1. rows = {}
    <3>1. MemHas(t, id) => SqlById(t, id) = {old} /\ old \in ExpiringRow
      BY <1>1, RowById, RowsAre
    <3>2. MemHas(t, id) => old.consumed \/ ~ (old.expires > now)
      BY <1>3, <3>1 DEF ExpiringRow
    <3> QED  BY <1>1, <3>1, <3>2, RowById
  <2>2. MemConsume(id) = Outcome(Absent, memory)
    BY <1>3 DEF MemConsume
  <2>3. SqlConsume(id).answer = Absent
    BY <2>1, OutcomeIs DEF SqlConsume
  <2> DEFINE after == (sql[t] \ rows) \cup {[r EXCEPT !.consumed = TRUE] : r \in rows}
  <2>4. after = sql[t]
    BY <2>1
  <2>5. Matched(memory, SqlConsume(id).store)
    <3>1. DOMAIN sql = Table
      BY DEF Matched, Agree
    <3>2. SqlConsume(id).store = [sql EXCEPT ![t] = after]
      BY OutcomeIs DEF SqlConsume
    <3> HIDE DEF after
    <3>3. /\ DOMAIN SqlConsume(id).store = Table
          /\ \A u \in Table : SqlConsume(id).store[u] = sql[u]
      BY <1>1, <2>4, <3>1, <3>2
    <3> QED  BY <3>3, SameTables
  <2> QED  BY <2>2, <2>3, <2>5, OutcomeIs
<1>4. CASE ~ (~ MemHas(t, id) \/ old.consumed \/ old.expires <= now)
  <2>1. SqlById(t, id) = {old} /\ old \in ExpiringRow /\ old.id = id
    BY <1>1, <1>4, RowById, RowsAre
  <2>2. rows = {old}
    BY <1>4, <2>1 DEF ExpiringRow
  <2>3. row \in ExpiringRow /\ row.id = id
    BY <2>1 DEF ExpiringRow
  <2>4. \A r \in sql[t] : KeyOf(t, r) = id <=> r \in {old}
    BY <1>1, <2>1, KeysAre DEF SqlById
  <2>5. {[r EXCEPT !.consumed = TRUE] : r \in rows} = {row}
    BY <2>2
  <2>6. (sql[t] \ rows) \cup {row} = {r \in sql[t] : KeyOf(t, r) # id} \cup {row}
    BY <2>2, <2>4
  <2>7. row \in RowOf(t) /\ KeyOf(t, row) = id
    BY <1>1, <2>3, RowsAre, KeysAre
  <2>8. Mirror(t, Put(memory[t], id, row), (sql[t] \ rows) \cup {row})
    <3> HIDE DEF row, rows, t
    <3> QED  BY <1>2, <2>6, <2>7, PutKeeps
  <2>9. Matched([memory EXCEPT ![t] = Put(memory[t], id, row)],
             [sql EXCEPT ![t] = (sql[t] \ rows) \cup {row}])
    BY <1>1, <2>8, OneTable
  <2>10. MemConsume(id) = Outcome("consumed", [memory EXCEPT ![t] = Put(memory[t], id, row)])
    BY <1>4 DEF MemConsume, MemSet
  <2>11. SqlConsume(id) = Outcome("consumed", [sql EXCEPT ![t] = (sql[t] \ rows) \cup {row}])
    BY <2>2, <2>5 DEF SqlConsume
  <2> QED  BY <2>9, <2>10, <2>11, OutcomeIs
<1> QED  BY <1>3, <1>4

\* A row by id is replaced by one with the same id, at both stores.
LEMMA ReplaceKeeps ==
  ASSUME Matched(memory, sql), NEW t \in ById \ {"posts", "pending"}, NEW id,
         NEW row \in RowOf(t), row.id = id
  PROVE  Matched([memory EXCEPT ![t] = Put(memory[t], id, row)],
              [sql EXCEPT ![t] = (sql[t] \ SqlById(t, id)) \cup {row}])
<1>1. t \in Table /\ t \notin {"covenants", "history", "pending", "posts"}
  BY TablesAre DEF ById
<1>2. Mirror(t, memory[t], sql[t])
  BY <1>1 DEF Matched, Agree
<1>3. KeyOf(t, row) = id /\ \A r : KeyOf(t, r) = r.id
  BY KeysAre
<1>4. (sql[t] \ SqlById(t, id)) \cup {row} = {r \in sql[t] : KeyOf(t, r) # id} \cup {row}
  BY <1>3 DEF SqlById
<1>5. Mirror(t, Put(memory[t], id, row), (sql[t] \ SqlById(t, id)) \cup {row})
  BY <1>2, <1>3, <1>4, PutKeeps
<1> QED  BY <1>1, <1>5, OneTable

LEMMA SameMaps ==
  ASSUME NEW m, NEW s, NEW m2, Matched(m, s), DOMAIN m2 = Table,
         \A t \in Table : /\ DOMAIN m2[t] = DOMAIN m[t]
                          /\ \A k \in DOMAIN m[t] : m2[t][k] = m[t][k]
  PROVE  Matched(m2, s)
  BY DEF Matched, Agree, Mirror

\* The same, for a map whose row is written in place.
LEMMA InPlaceKeeps ==
  ASSUME Matched(memory, sql), NEW t \in ById \ {"posts", "pending"}, NEW id,
         MemHas(t, id), NEW row \in RowOf(t), row.id = id
  PROVE  Matched([memory EXCEPT ![t] = [memory[t] EXCEPT ![id] = row]],
              [sql EXCEPT ![t] = (sql[t] \ SqlById(t, id)) \cup {row}])
<1> DEFINE m == [memory EXCEPT ![t] = Put(memory[t], id, row)]
           m2 == [memory EXCEPT ![t] = [memory[t] EXCEPT ![id] = row]]
           s2 == [sql EXCEPT ![t] = (sql[t] \ SqlById(t, id)) \cup {row}]
<1>1. t \in Table /\ DOMAIN memory = Table /\ id \in DOMAIN memory[t]
  BY TablesAre DEF ById, Matched, Agree, MemHas
<1>2. Matched(m, s2)
  BY ReplaceKeeps
<1>3. /\ DOMAIN m = Table /\ DOMAIN m2 = Table
      /\ \A u \in Table \ {t} : m[u] = memory[u] /\ m2[u] = memory[u]
      /\ m[t] = Put(memory[t], id, row) /\ m2[t] = [memory[t] EXCEPT ![id] = row]
  BY <1>1
<1>4. /\ DOMAIN Put(memory[t], id, row) = DOMAIN memory[t]
      /\ \A k \in DOMAIN memory[t] :
           Put(memory[t], id, row)[k] = [memory[t] EXCEPT ![id] = row][k]
  BY <1>1 DEF Put
<1> HIDE DEF m, m2, s2
<1>5. \A u \in Table : /\ DOMAIN m2[u] = DOMAIN m[u]
                       /\ \A k \in DOMAIN m[u] : m2[u][k] = m[u][k]
  BY <1>3, <1>4
<1>6. Matched(m2, s2)
  BY <1>2, <1>3, <1>5, SameMaps
<1> QED  BY <1>6 DEF m2, s2

LEMMA RollKeeps ==
  ASSUME Matched(memory, sql), now \in Nat, NEW id \in Id
  PROVE  Matched(MemRoll(id), SqlRoll(id))
<1> DEFINE t == "sessions"
           old == memory[t][id]
           row == [old EXCEPT !.expires = now + RowLife]
           rows == SqlById(t, id)
           after == (sql[t] \ rows) \cup {[r EXCEPT !.expires = now + RowLife] : r \in rows}
<1>1. t \in Table /\ t \in ById \ {"posts", "pending"} /\ t \in Expiring
  BY TablesAre DEF ById
<1>2. SqlRoll(id) = [sql EXCEPT ![t] = after]
  BY DEF SqlRoll
<1>3. DOMAIN memory = Table /\ DOMAIN sql = Table
  BY DEF Matched, Agree
<1>4. CASE ~ MemHas(t, id)
  <2>1. rows = {}
    BY <1>1, <1>4, RowById
  <2>2. after = sql[t]
    BY <2>1
  <2> HIDE DEF after
  <2>3. DOMAIN SqlRoll(id) = Table /\ \A u \in Table : SqlRoll(id)[u] = sql[u]
    BY <1>2, <1>3, <2>2
  <2>4. MemRoll(id) = memory
    BY <1>4 DEF MemRoll
  <2> QED  BY <2>3, <2>4, SameTables
<1>5. CASE MemHas(t, id)
  <2>1. rows = {old} /\ old \in ExpiringRow /\ old.id = id
    BY <1>1, <1>5, RowById, RowsAre
  <2>2. now + RowLife \in Int
    BY StoresConstants
  <2>3. row \in ExpiringRow /\ row.id = id
    BY <2>1, <2>2 DEF ExpiringRow
  <2>4. after = (sql[t] \ SqlById(t, id)) \cup {row}
    BY <2>1
  <2>5. MemRoll(id) = [memory EXCEPT ![t] = [memory[t] EXCEPT ![id] = row]]
    BY <1>5 DEF MemRoll
  <2>6. row \in RowOf(t)
    BY <1>1, <2>3, RowsAre
  <2> HIDE DEF after, row
  <2>7. SqlRoll(id) = [sql EXCEPT ![t] = (sql[t] \ SqlById(t, id)) \cup {row}]
    BY <1>2, <2>4
  <2>8. Matched([memory EXCEPT ![t] = [memory[t] EXCEPT ![id] = row]],
             [sql EXCEPT ![t] = (sql[t] \ SqlById(t, id)) \cup {row}])
    BY <1>1, <1>5, <2>3, <2>6, InPlaceKeeps
  <2> QED  BY <2>5, <2>7, <2>8
<1> QED  BY <1>4, <1>5

WorkflowTables == {"paymentWorkflows", "membershipWorkflows"}

LEMMA WithState ==
  ASSUME NEW w \in WorkflowRow, NEW state, NEW open, w.finalized = open
  PROVE  [w EXCEPT !.state = state] =
         [id |-> w.id, state |-> state, finalized |-> open, submitted |-> w.submitted]
  BY DEF WorkflowRow

LEMMA SaveWorkflowKeeps ==
  ASSUME Matched(memory, sql), now \in Nat, NEW t \in WorkflowTables, NEW id \in Id,
         NEW state \in {"SUBMITTED", "CONFIRMED"},
         \A w \in SqlById(t, id) : ~ w.finalized
  PROVE  Matched(MemSaveWorkflow(t, id, state), SqlSaveWorkflow(t, id, state))
<1> DEFINE old == memory[t][id]
           since == IF MemHas(t, id) THEN memory[t][id].submitted ELSE now
           row == [id |-> id, state |-> state, finalized |-> FALSE, submitted |-> since]
           after == IF SqlById(t, id) # {} THEN [TheRow(SqlById(t, id)) EXCEPT !.state = state]
                    ELSE [id |-> id, state |-> state, finalized |-> FALSE, submitted |-> now]
<1>1. t \in Table /\ t \in ById \ {"posts", "pending"} /\ RowOf(t) = WorkflowRow
  BY TablesAre, RowsAre DEF ById, WorkflowTables
<1>2. MemHas(t, id) => SqlById(t, id) = {old} /\ old \in WorkflowRow /\ old.id = id
  BY <1>1, RowById
<1>3. ~ MemHas(t, id) => SqlById(t, id) = {}
  BY <1>1, RowById
<1>4. row \in WorkflowRow /\ row.id = id
  BY <1>2 DEF WorkflowRow
<1>5. after = row
  <2>1. CASE MemHas(t, id)
    <3>1. TheRow(SqlById(t, id)) = old /\ SqlById(t, id) # {}
      BY <1>2, <2>1 DEF TheRow
    <3>2. ~ old.finalized /\ old \in WorkflowRow
      BY <1>2, <2>1
    <3>3. old.finalized = FALSE
      BY <3>2 DEF WorkflowRow
    <3> HIDE DEF old
    <3>4. [old EXCEPT !.state = state] =
          [id |-> id, state |-> state, finalized |-> FALSE, submitted |-> old.submitted]
      BY <1>2, <2>1, <3>2, <3>3, WithState
    <3> USE DEF old
    <3> QED  BY <2>1, <3>1, <3>4
  <2>2. CASE ~ MemHas(t, id)
    BY <1>3, <2>2
  <2> QED  BY <2>1, <2>2
<1>6. SqlSaveWorkflow(t, id, state) = [sql EXCEPT ![t] = (sql[t] \ SqlById(t, id)) \cup {after}]
  BY DEF SqlSaveWorkflow
<1>7. MemSaveWorkflow(t, id, state) = [memory EXCEPT ![t] = Put(memory[t], id, row)]
  BY DEF MemSaveWorkflow, MemSet
<1> HIDE DEF row, after
<1>8. Matched([memory EXCEPT ![t] = Put(memory[t], id, row)],
           [sql EXCEPT ![t] = (sql[t] \ SqlById(t, id)) \cup {row}])
  BY <1>1, <1>4, ReplaceKeeps
<1> QED  BY <1>5, <1>6, <1>7, <1>8

LEMMA ClaimKeeps ==
  ASSUME Matched(memory, sql), NEW t \in WorkflowTables, NEW id \in Id,
         NEW state \in {"CONFIRMED", "REJECTED"}
  PROVE  /\ MemClaim(t, id, state).answer = SqlClaim(t, id, state).answer
         /\ Matched(MemClaim(t, id, state).store, SqlClaim(t, id, state).store)
<1> DEFINE old == memory[t][id]
           row == [old EXCEPT !.state = state, !.finalized = TRUE]
           rows == {r \in SqlById(t, id) : ~ r.finalized}
           after == (sql[t] \ rows) \cup
                      {[r EXCEPT !.state = state, !.finalized = TRUE] : r \in rows}
           mem == MemClaim(t, id, state)
           lib == SqlClaim(t, id, state)
<1>1. t \in Table /\ t \in ById \ {"posts", "pending"} /\ RowOf(t) = WorkflowRow
  BY TablesAre, RowsAre DEF ById, WorkflowTables
<1>2. lib.store = [sql EXCEPT ![t] = after]
      /\ lib.answer = IF rows = {} THEN Absent ELSE "claimed"
  <2>1. lib = Outcome(IF rows = {} THEN Absent ELSE "claimed", [sql EXCEPT ![t] = after])
    BY DEF SqlClaim
  <2> HIDE DEF lib, rows, after
  <2> QED  BY <2>1, OutcomeIs
<1>3. DOMAIN sql = Table
  BY DEF Matched, Agree
<1>4. CASE MemHas(t, id) => memory[t][id].finalized
  <2>1. rows = {}
    BY <1>1, <1>4, RowById
  <2>2. after = sql[t]
    BY <2>1
  <2>3. mem.answer = Absent /\ mem.store = memory
    BY <1>4, OutcomeIs DEF MemClaim
  <2>4. lib.answer = Absent
    BY <1>2, <2>1
  <2> HIDE DEF after, rows, lib
  <2>5. DOMAIN lib.store = Table /\ \A u \in Table : lib.store[u] = sql[u]
    BY <1>2, <1>3, <2>2
  <2>6. Matched(memory, lib.store)
    BY <2>5, SameTables
  <2> QED  BY <2>3, <2>4, <2>6 DEF lib
<1>5. CASE ~ (MemHas(t, id) => memory[t][id].finalized)
  <2>1. SqlById(t, id) = {old} /\ old \in WorkflowRow /\ old.id = id /\ ~ old.finalized
    BY <1>1, <1>5, RowById
  <2>2. rows = {old}
    BY <2>1
  <2>3. row \in WorkflowRow /\ row.id = id
    BY <2>1 DEF WorkflowRow
  <2>4. after = (sql[t] \ SqlById(t, id)) \cup {row}
    BY <2>1, <2>2
  <2>5. mem.answer = "claimed"
        /\ mem.store = [memory EXCEPT ![t] = [memory[t] EXCEPT ![id] = row]]
    <3>1. mem = Outcome("claimed", [memory EXCEPT ![t] = [memory[t] EXCEPT ![id] = row]])
      BY <1>5 DEF MemClaim
    <3> HIDE DEF mem, row
    <3> QED  BY <3>1, OutcomeIs
  <2>6. lib.answer = "claimed"
    BY <1>2, <2>2
  <2> HIDE DEF after, row, rows, lib, mem
  <2>7. Matched([memory EXCEPT ![t] = [memory[t] EXCEPT ![id] = row]],
             [sql EXCEPT ![t] = (sql[t] \ SqlById(t, id)) \cup {row}])
    BY <1>1, <1>5, <2>3, InPlaceKeeps
  <2> QED  BY <1>2, <2>4, <2>5, <2>6, <2>7 DEF lib, mem
<1> QED  BY <1>4, <1>5

LEMMA ForgetKeeps ==
  ASSUME NEW m, NEW s, Matched(m, s), NEW kind \in Kind, NEW id
  PROVE  Matched(MemForget(m, kind, id), SqlForget(s, kind, id))
<1> DEFINE t == Prepared(kind)
<1>1. t \in {"preparedPayments", "preparedMemberships"}
  BY DEF Prepared, Kind
<1> HIDE DEF t
<1>2. /\ t \in Table /\ t \in ById
      /\ t \notin {"covenants", "history", "pending", "posts"}
  BY <1>1, TablesAre DEF ById
<1>3. Mirror(t, m[t], s[t])
  BY <1>2 DEF Matched, Agree
<1>4. {r \in s[t] : r.id # id} = {r \in s[t] : KeyOf(t, r) \notin {id}}
  BY <1>2, KeysAre
<1>5. Mirror(t, Drop(m[t], {id}), {r \in s[t] : r.id # id})
  BY <1>3, <1>4, DropKeeps
<1>6. Matched([m EXCEPT ![t] = Drop(m[t], {id})], [s EXCEPT ![t] = {r \in s[t] : r.id # id}])
  BY <1>2, <1>5, OneTable
<1> QED  BY <1>6 DEF MemForget, SqlForget, t

\* A step is finalized if both stores do the same about it.
LEMMA FinalizeKeeps ==
  ASSUME NEW kind \in Kind, NEW id, NEW mem, NEW lib, Finalize(kind, id, mem, lib),
         alike = TRUE, now \in Nat, mem.answer = lib.answer, Matched(mem.store, lib.store)
  PROVE  Matched(memory, sql)' /\ alike' = TRUE /\ now' \in Nat
<1> DEFINE mem2 == Outcome(mem.answer, MemForget(mem.store, kind, id))
           lib2 == Outcome(lib.answer, SqlForget(lib.store, kind, id))
<1>1. mem2.answer = lib2.answer /\ Matched(mem2.store, lib2.store)
  BY ForgetKeeps, OutcomeIs
<1>2. Call(mem2, lib2)
  BY DEF Finalize
<1> HIDE DEF mem2, lib2
<1> QED  BY <1>1, <1>2, CallKeeps

\* A row that no other collides with is inserted at both stores.
LEMMA KeySets ==
  /\ Keys["receipts"] = {{"transaction"}}
  /\ Keys["purchases"] = {{"post", "buyer"}, {"transaction"}}
  /\ Keys["covenants"] = {{"creator"}, {"covenant"}}
  /\ Keys["history"] = {{"creator", "covenant"}, {"covenant"}}
  /\ Keys["posts"] = {{"id"}, {"creator", "digest"}}
  /\ Keys["pending"] = {{"id"}, {"creator", "digest"}}
  BY TablesAre DEF Keys

LEMMA Collisions ==
  ASSUME NEW rows, NEW row
  PROVE  /\ Collides(rows, "receipts", row) <=>
               \E r \in rows : r.transaction = row.transaction
         /\ Collides(rows, "purchases", row) <=>
               \E r \in rows : \/ r.post = row.post /\ r.buyer = row.buyer
                               \/ r.transaction = row.transaction
         /\ Collides(rows, "covenants", row) <=>
               \E r \in rows : r.creator = row.creator \/ r.covenant = row.covenant
         /\ Collides(rows, "history", row) <=> \E r \in rows : r.covenant = row.covenant
         /\ \A t \in {"posts", "pending"} :
              Collides(rows, t, row) <=>
                \E r \in rows : \/ r.id = row.id
                                \/ r.creator = row.creator /\ r.digest = row.digest
<1>1. Collides(rows, "receipts", row) <=>
        \E r \in rows : r.transaction = row.transaction
  BY KeySets DEF Collides
<1>2. Collides(rows, "purchases", row) <=>
        \E r \in rows : \/ r.post = row.post /\ r.buyer = row.buyer
                        \/ r.transaction = row.transaction
  BY KeySets DEF Collides
<1>3. Collides(rows, "covenants", row) <=>
        \E r \in rows : r.creator = row.creator \/ r.covenant = row.covenant
  BY KeySets DEF Collides
<1>4. Collides(rows, "history", row) <=> \E r \in rows : r.covenant = row.covenant
  BY KeySets DEF Collides
<1>5. \A t \in {"posts", "pending"} :
        Collides(rows, t, row) <=>
          \E r \in rows : \/ r.id = row.id
                          \/ r.creator = row.creator /\ r.digest = row.digest
  <2> SUFFICES ASSUME NEW t \in {"posts", "pending"}
               PROVE  Collides(rows, t, row) <=>
                        \E r \in rows : \/ r.id = row.id
                                        \/ r.creator = row.creator /\ r.digest = row.digest
    OBVIOUS
  <2>1. Keys[t] = {{"id"}, {"creator", "digest"}}
    BY KeySets
  <2> QED  BY <2>1 DEF Collides
<1> QED  BY <1>1, <1>2, <1>3, <1>4, <1>5

LEMMA InsertKeeps ==
  ASSUME Matched(memory, sql), NEW t \in {"receipts", "purchases"}, NEW row \in RowOf(t),
         NEW taken, taken <=> Collides(sql[t], t, row),
         \A r \in sql[t] : KeyOf(t, r) = KeyOf(t, row) => taken
  PROVE  /\ MemInsert(t, KeyOf(t, row), row, taken).answer = SqlFinalize(t, row).answer
         /\ Matched(MemInsert(t, KeyOf(t, row), row, taken).store, SqlFinalize(t, row).store)
<1>1. t \in Table /\ t \notin {"covenants", "history", "pending", "posts"}
  BY TablesAre
<1>2. Mirror(t, memory[t], sql[t])
  BY <1>1 DEF Matched, Agree
<1>3. CASE taken
  <2>1. /\ MemInsert(t, KeyOf(t, row), row, taken) = Outcome("DUPLICATE", memory)
        /\ SqlFinalize(t, row) = Outcome("DUPLICATE", sql)
    BY <1>3 DEF MemInsert, SqlFinalize
  <2> QED  BY <2>1, OutcomeIs
<1>4. CASE ~ taken
  <2>1. /\ MemInsert(t, KeyOf(t, row), row, taken) =
             Outcome("CREATED", [memory EXCEPT ![t] = Put(memory[t], KeyOf(t, row), row)])
        /\ SqlFinalize(t, row) = Outcome("CREATED", [sql EXCEPT ![t] = sql[t] \cup {row}])
    BY <1>4 DEF MemInsert, SqlFinalize, MemSet, SqlInsert
  <2>2. sql[t] \cup {row} = {r \in sql[t] : KeyOf(t, r) # KeyOf(t, row)} \cup {row}
    BY <1>4
  <2>3. Mirror(t, Put(memory[t], KeyOf(t, row), row), sql[t] \cup {row})
    BY <1>2, <2>2, PutKeeps
  <2>4. Matched([memory EXCEPT ![t] = Put(memory[t], KeyOf(t, row), row)],
             [sql EXCEPT ![t] = sql[t] \cup {row}])
    BY <1>1, <2>3, OneTable
  <2> QED  BY <2>1, <2>4, OutcomeIs
<1> QED  BY <1>3, <1>4

LEMMA ReceiptKeeps ==
  ASSUME Matched(memory, sql), NEW id \in Id, NEW buyer \in Person, NEW creator \in Person
  PROVE  LET row == [transaction |-> id, buyer |-> buyer, creator |-> creator]
             mem == MemInsert("receipts", id, row, MemHas("receipts", id))
             lib == SqlFinalize("receipts", row)
         IN  mem.answer = lib.answer /\ Matched(mem.store, lib.store)
<1> DEFINE t == "receipts"
           row == [transaction |-> id, buyer |-> buyer, creator |-> creator]
           taken == MemHas(t, id)
<1>1. Mirror(t, memory[t], sql[t])
  BY TablesAre DEF Matched, Agree
<1>2. row \in RowOf(t) /\ KeyOf(t, row) = id /\ \A r : KeyOf(t, r) = r.transaction
  <2>1. /\ row \in [transaction : Id, buyer : Person, creator : Person]
        /\ row.transaction = id
    OBVIOUS
  <2> HIDE DEF row
  <2> QED  BY <2>1, RowsAre, KeysAre
<1>3. Collides(sql[t], t, row) <=> \E r \in sql[t] : r.transaction = id
  BY Collisions
<1>4. MemHas(t, id) <=> \E r \in sql[t] : r.transaction = id
  BY <1>1, <1>2 DEF Mirror, MemHas
<1>6. taken <=> Collides(sql[t], t, row)
  BY <1>3, <1>4
<1>7. \A r \in sql[t] : KeyOf(t, r) = KeyOf(t, row) => taken
  BY <1>2, <1>4
<1> HIDE DEF row, taken
<1>8. /\ MemInsert(t, KeyOf(t, row), row, taken).answer = SqlFinalize(t, row).answer
      /\ Matched(MemInsert(t, KeyOf(t, row), row, taken).store, SqlFinalize(t, row).store)
  BY <1>2, <1>6, <1>7, InsertKeeps
<1> QED  BY <1>2, <1>8 DEF row, taken

LEMMA PurchaseKeeps ==
  ASSUME Matched(memory, sql), NEW id \in Id, NEW post \in Id, NEW buyer \in Person
  PROVE  LET row == [post |-> post, buyer |-> buyer, transaction |-> id]
             mem == MemInsert("purchases", <<post, buyer>>, row,
                              MemPurchaseTaken(post, buyer, id))
             lib == SqlFinalize("purchases", row)
         IN  mem.answer = lib.answer /\ Matched(mem.store, lib.store)
<1> DEFINE t == "purchases"
           row == [post |-> post, buyer |-> buyer, transaction |-> id]
           taken == MemPurchaseTaken(post, buyer, id)
<1>1. Mirror(t, memory[t], sql[t])
  BY TablesAre DEF Matched, Agree
<1>2. /\ row \in RowOf(t) /\ KeyOf(t, row) = <<post, buyer>>
      /\ \A r : KeyOf(t, r) = <<r.post, r.buyer>>
  <2>1. /\ row \in [post : Id, buyer : Person, transaction : Id]
        /\ row.post = post /\ row.buyer = buyer /\ row.transaction = id
    OBVIOUS
  <2> HIDE DEF row
  <2> QED  BY <2>1, RowsAre, KeysAre
<1>3. Collides(sql[t], t, row) <=>
        \E r \in sql[t] : (r.post = post /\ r.buyer = buyer) \/ r.transaction = id
  BY Collisions
<1>4. taken <=> \E r \in sql[t] : (r.post = post /\ r.buyer = buyer) \/ r.transaction = id
  <2>1. MemHas(t, <<post, buyer>>) <=> \E r \in sql[t] : r.post = post /\ r.buyer = buyer
    <3>1. \A r : <<r.post, r.buyer>> = <<post, buyer>> <=> r.post = post /\ r.buyer = buyer
      OBVIOUS
    <3>2. MemHas(t, <<post, buyer>>) <=> \E r \in sql[t] : KeyOf(t, r) = <<post, buyer>>
      BY <1>1 DEF Mirror, MemHas
    <3> QED  BY <1>2, <3>1, <3>2
  <2>2. (\E k \in DOMAIN memory[t] : memory[t][k].transaction = id) <=>
          \E r \in sql[t] : r.transaction = id
    BY <1>1 DEF Mirror
  <2> QED  BY <2>1, <2>2 DEF MemPurchaseTaken
<1>6. taken <=> Collides(sql[t], t, row)
  BY <1>3, <1>4
<1>7. \A r \in sql[t] : KeyOf(t, r) = KeyOf(t, row) => taken
  BY <1>2, <1>4
<1> HIDE DEF row, taken
<1>8. /\ MemInsert(t, KeyOf(t, row), row, taken).answer = SqlFinalize(t, row).answer
      /\ Matched(MemInsert(t, KeyOf(t, row), row, taken).store, SqlFinalize(t, row).store)
  BY <1>2, <1>6, <1>7, InsertKeeps
<1> QED  BY <1>2, <1>8 DEF row, taken

\* Several tables change.
LEMMA SomeTables ==
  ASSUME NEW m, NEW s, NEW m2, NEW s2, NEW changed, Matched(m, s),
         DOMAIN m2 = Table, DOMAIN s2 = Table,
         \A t \in Table \ changed : m2[t] = m[t] /\ s2[t] = s[t],
         \A t \in changed : Mirror(t, m2[t], s2[t]),
         OffersKept(s2), MediaApart(s2)
  PROVE  Matched(m2, s2)
<1>1. Agree(m2, s2)
  BY DEF Matched, Agree
<1> QED  BY <1>1 DEF Matched

-----------------------------------------------------------------------------
(* Offers *)

\* The row of a creator, and the row of a covenant, in either store.
LEMMA OfferRows ==
  ASSUME Matched(memory, sql), NEW creator, NEW covenant
  PROVE  /\ MemHas("covenants", creator) =>
              LET old == memory["covenants"][creator]
              IN  /\ {r \in sql["covenants"] : r.creator = creator} = {old}
                  /\ old \in OfferRow /\ old.creator = creator
         /\ ~ MemHas("covenants", creator) =>
              {r \in sql["covenants"] : r.creator = creator} = {}
         /\ MemHas("history", covenant) <=> Known(covenant)
         /\ \A r \in sql["covenants"] :
              {h \in sql["history"] : h.covenant = r.covenant} = {r}
         /\ (\E c \in DOMAIN memory["covenants"] :
               memory["covenants"][c].covenant = covenant) <=>
              \E r \in sql["covenants"] : r.covenant = covenant
<1>1. /\ Mirror("covenants", memory["covenants"], sql["covenants"])
      /\ Mirror("history", memory["history"], sql["history"])
  BY TablesAre DEF Matched, Agree
<1>2. /\ \A r : KeyOf("covenants", r) = r.creator
      /\ \A r : KeyOf("history", r) = r.covenant
      /\ RowOf("covenants") = OfferRow
  BY KeysAre, RowsAre
<1>3. sql["covenants"] \subseteq sql["history"]
  BY DEF Matched, OffersKept
<1>4. MemHas("covenants", creator) =>
        LET old == memory["covenants"][creator]
        IN  /\ {r \in sql["covenants"] : r.creator = creator} = {old}
            /\ old \in OfferRow /\ old.creator = creator
  BY <1>1, <1>2 DEF Mirror, MemHas
<1>5. ~ MemHas("covenants", creator) =>
        {r \in sql["covenants"] : r.creator = creator} = {}
  BY <1>1, <1>2 DEF Mirror, MemHas
<1>6. MemHas("history", covenant) <=> Known(covenant)
  BY <1>1, <1>2 DEF Mirror, MemHas, Known
<1>7. \A r \in sql["covenants"] : {h \in sql["history"] : h.covenant = r.covenant} = {r}
  BY <1>1, <1>2, <1>3 DEF Mirror
<1>8. (\E c \in DOMAIN memory["covenants"] :
         memory["covenants"][c].covenant = covenant) <=>
        \E r \in sql["covenants"] : r.covenant = covenant
  BY <1>1 DEF Mirror
<1> QED  BY <1>4, <1>5, <1>6, <1>7, <1>8

LEMMA RecordKeeps ==
  ASSUME Matched(memory, sql), NEW row \in OfferRow, NEW lib,
         \A r \in sql["covenants"] :
           r.covenant = row.covenant => r.creator = row.creator,
         DOMAIN lib = Table,
         \A t \in Table \ {"covenants", "history"} : lib[t] = sql[t],
         lib["covenants"] =
           {r \in sql["covenants"] : r.creator # row.creator} \cup {row},
         lib["history"] = {r \in sql["history"] : r.covenant # row.covenant} \cup {row}
  PROVE  Matched(MemRecord(row), lib)
<1>1. /\ Mirror("covenants", memory["covenants"], sql["covenants"])
      /\ Mirror("history", memory["history"], sql["history"])
      /\ DOMAIN memory = Table
      /\ "covenants" \in Table /\ "history" \in Table
  BY TablesAre DEF Matched, Agree
<1>2. /\ \A r : KeyOf("covenants", r) = r.creator
      /\ \A r : KeyOf("history", r) = r.covenant
      /\ RowOf("covenants") = OfferRow /\ RowOf("history") = OfferRow
  BY KeysAre, RowsAre
<1> DEFINE mem == MemRecord(row)
<1>3. /\ DOMAIN mem = Table
      /\ \A t \in Table \ {"covenants", "history"} : mem[t] = memory[t]
      /\ mem["covenants"] = Put(memory["covenants"], row.creator, row)
      /\ mem["history"] = Put(memory["history"], row.covenant, row)
  BY <1>1 DEF MemRecord
<1> HIDE DEF mem
<1>4. Mirror("covenants", mem["covenants"], lib["covenants"])
  BY <1>1, <1>2, <1>3, PutKeeps
<1>5. Mirror("history", mem["history"], lib["history"])
  BY <1>1, <1>2, <1>3, PutKeeps
<1>6. OffersKept(lib)
  <2>1. lib["covenants"] \subseteq lib["history"]
    BY DEF Matched, OffersKept
  <2>2. ASSUME NEW h \in lib["history"]
        PROVE  \E r \in lib["covenants"] : r.creator = h.creator
    <3>1. CASE h = row
      BY <3>1
    <3>2. CASE h \in sql["history"]
      <4>1. PICK r \in sql["covenants"] : r.creator = h.creator
        BY <3>2 DEF Matched, OffersKept
      <4> QED  BY <4>1
    <3> QED  BY <3>1, <3>2
  <2> QED  BY <2>1, <2>2 DEF OffersKept
<1>7. MediaApart(lib)
  <2>1. lib["pending"] = sql["pending"] /\ lib["posts"] = sql["posts"]
    BY TablesAre
  <2> QED  BY <2>1 DEF Matched, MediaApart
<1>8. Matched(mem, lib)
  <2> DEFINE changed == {"covenants", "history"}
  <2>1. \A t \in changed : Mirror(t, mem[t], lib[t])
    BY <1>4, <1>5
  <2>2. \A t \in Table \ changed : mem[t] = memory[t] /\ lib[t] = sql[t]
    BY <1>3
  <2> HIDE DEF changed
  <2> QED  BY <1>3, <1>6, <1>7, <2>1, <2>2, SomeTables
<1> QED  BY <1>8 DEF mem

\* The row of an offer after an update or a cancellation.
Offered(w, price, status) == [w EXCEPT !.price = price, !.status = status]

LEMMA OfferWith ==
  ASSUME NEW w \in OfferRow, NEW price, NEW status
  PROVE  Offered(w, price, status) = Row(w.creator, w.covenant, price, status)
<1>1. [w EXCEPT !.price = price, !.status = status] =
      [creator |-> w.creator, covenant |-> w.covenant, price |-> price, status |-> status]
  <2> DEFINE v == [w EXCEPT !.price = price]
  <2>1. [w EXCEPT !.price = price, !.status = status] = [v EXCEPT !.status = status]
    OBVIOUS
  <2>2. v = [creator |-> w.creator, covenant |-> w.covenant, price |-> price,
             status |-> w.status]
    BY DEF OfferRow
  <2> HIDE DEF v
  <2>3. PICK a, b, c, d :
          /\ v = [creator |-> a, covenant |-> b, price |-> c, status |-> d]
          /\ a = w.creator /\ b = w.covenant /\ c = price
    BY <2>2
  <2>4. [v EXCEPT !.status = status] =
        [creator |-> a, covenant |-> b, price |-> c, status |-> status]
    BY <2>3
  <2> QED  BY <2>1, <2>3, <2>4 DEF v
<1> QED  BY <1>1 DEF Row, Offered

LEMMA RowIs ==
  ASSUME NEW creator, NEW covenant, NEW price, NEW status
  PROVE  LET row == Row(creator, covenant, price, status)
         IN  /\ row.creator = creator /\ row.covenant = covenant
             /\ row.price = price /\ row.status = status
             /\ (/\ creator \in Person /\ covenant \in Id /\ price \in Amount
                 /\ status \in {"ACTIVE", "CANCELED"}) => row \in OfferRow
  BY DEF Row, OfferRow

LEMMA OfferKeeps ==
  ASSUME Matched(memory, sql), NEW creator \in Person, NEW id \in Id, NEW price \in Amount,
         \A r \in sql["history"] : r.covenant = id => r.creator = creator,
         ~ (Canceled(creator) /\ Known(id))
  PROVE  LET mem == MemOffer(creator, id, price)
             lib == SqlOffer(creator, id, price)
         IN  mem.answer = lib.answer /\ Matched(mem.store, lib.store)
<1> DEFINE row == Row(creator, id, price, "ACTIVE")
           mine == memory["covenants"][creator]
           old == {r \in sql["covenants"] : r.creator = creator}
           refused == Collides(sql["covenants"] \ old, "covenants", row)
           mem == MemOffer(creator, id, price)
           lib == SqlOffer(creator, id, price)
<1>1. /\ row \in OfferRow /\ row.creator = creator /\ row.covenant = id
  BY RowIs
<1> HIDE DEF row
<1>2. refused <=> \E r \in sql["covenants"] : r.creator # creator /\ r.covenant = id
  BY <1>1, Collisions
<1>3. sql["covenants"] \subseteq sql["history"]
  BY DEF Matched, OffersKept
<1>4. ~ refused
  BY <1>2, <1>3
<1>5. /\ MemHas("covenants", creator) =>
           old = {mine} /\ mine \in OfferRow /\ mine.creator = creator
      /\ ~ MemHas("covenants", creator) => old = {}
      /\ MemHas("history", id) <=> Known(id)
  BY OfferRows
<1>6. Collides(sql["history"], "history", row) <=> Known(id)
  BY <1>1, Collisions DEF Known
<1>7. CASE MemHas("covenants", creator) /\ mine.status # "CANCELED"
  <2>1. mem = Outcome("DUPLICATE", memory)
    BY <1>7 DEF MemOffer
  <2>2. lib = Outcome("DUPLICATE", sql)
    BY <1>5, <1>7 DEF SqlOffer
  <2> QED  BY <2>1, <2>2, OutcomeIs
<1>8. CASE ~ (MemHas("covenants", creator) /\ mine.status # "CANCELED")
  <2>1. ~ Known(id)
    <3>1. CASE MemHas("covenants", creator)
      BY <1>5, <1>8, <3>1 DEF Canceled
    <3>2. CASE ~ MemHas("covenants", creator)
      <4>1. \A h \in sql["history"] : h.creator # creator
        BY <1>5, <3>2 DEF Matched, OffersKept
      <4> QED  BY <4>1 DEF Known
    <3> QED  BY <3>1, <3>2
  <2>2. \A r \in sql["covenants"] : r.covenant # id
    BY <1>3, <2>1 DEF Known
  <2>3. mem = Outcome("CREATED", MemRecord(row))
    <3>1. ~ \E c \in DOMAIN memory["covenants"] : memory["covenants"][c].covenant = id
      BY <2>2, OfferRows
    <3>2. ~ MemHas("history", id)
      BY <1>5, <2>1
    <3> QED  BY <1>8, <3>1, <3>2 DEF MemOffer, row
  <2> DEFINE covenants == (sql["covenants"] \ old) \cup {row}
             history == sql["history"] \cup {row}
             written == [sql EXCEPT !["covenants"] = covenants]
             store == [written EXCEPT !["history"] = @ \cup {row}]
  <2>4. lib = Outcome("CREATED", store)
    <3>1. ~ \E r \in old : r.status # "CANCELED"
      BY <1>5, <1>8
    <3>2. ~ Collides(sql["history"], "history", row)
      BY <1>6, <2>1
    <3> QED  BY <1>4, <3>1, <3>2 DEF SqlOffer, row
  <2>5. DOMAIN sql = Table /\ "covenants" \in Table /\ "history" \in Table
    BY TablesAre DEF Matched, Agree
  <2>6. covenants = {r \in sql["covenants"] : r.creator # row.creator} \cup {row}
    BY <1>1
  <2>7. history = {r \in sql["history"] : r.covenant # row.covenant} \cup {row}
    BY <1>1, <2>1 DEF Known
  <2>8. /\ DOMAIN store = Table
        /\ \A t \in Table \ {"covenants", "history"} : store[t] = sql[t]
        /\ store["covenants"] = covenants /\ store["history"] = history
    <3> HIDE DEF covenants
    <3> QED  BY <2>5
  <2> HIDE DEF store, covenants, history
  <2>9. Matched(MemRecord(row), store)
    BY <1>1, <2>2, <2>6, <2>7, <2>8, RecordKeeps
  <2> QED  BY <2>3, <2>4, <2>9, OutcomeIs
<1> QED  BY <1>7, <1>8

\* The row of a creator is written over, here and in the history.
LEMMA RewriteKeeps ==
  ASSUME Matched(memory, sql), NEW old \in sql["covenants"], NEW row \in OfferRow,
         row.creator = old.creator, row.covenant = old.covenant
  PROVE  Matched(MemRecord(row),
              [sql EXCEPT !["covenants"] = (@ \ {old}) \cup {row},
                          !["history"] = (@ \ {old}) \cup {row}])
<1> DEFINE lib == [sql EXCEPT !["covenants"] = (@ \ {old}) \cup {row},
                              !["history"] = (@ \ {old}) \cup {row}]
<1>1. DOMAIN sql = Table /\ "covenants" \in Table /\ "history" \in Table
  BY TablesAre DEF Matched, Agree
<1>2. /\ {h \in sql["history"] : h.covenant = row.covenant} = {old}
      /\ {r \in sql["covenants"] : r.creator = row.creator} = {old}
  <2>1. {h \in sql["history"] : h.covenant = row.covenant} = {old}
    BY OfferRows
  <2>2. {r \in sql["covenants"] : r.creator = row.creator} = {old}
    BY OfferRows
  <2> QED  BY <2>1, <2>2
<1>3. sql["covenants"] \subseteq sql["history"]
  BY DEF Matched, OffersKept
<1>4. \A r \in sql["covenants"] : r.covenant = row.covenant => r.creator = row.creator
  BY <1>2, <1>3
<1>5. /\ DOMAIN lib = Table
      /\ \A t \in Table \ {"covenants", "history"} : lib[t] = sql[t]
      /\ lib["covenants"] = (sql["covenants"] \ {old}) \cup {row}
      /\ lib["history"] = (sql["history"] \ {old}) \cup {row}
  BY <1>1
<1> HIDE DEF lib
<1>6. /\ lib["covenants"] =
           {r \in sql["covenants"] : r.creator # row.creator} \cup {row}
      /\ lib["history"] = {r \in sql["history"] : r.covenant # row.covenant} \cup {row}
  BY <1>2, <1>5
<1>7. Matched(MemRecord(row), lib)
  BY <1>4, <1>5, <1>6, RecordKeeps
<1> QED  BY <1>7 DEF lib

LEMMA RepriceKeeps ==
  ASSUME Matched(memory, sql), NEW creator \in Person, NEW covenant \in Id,
         NEW price \in Amount,
         ~ \E row \in sql["covenants"] :
             row.creator = creator /\ row.covenant = covenant /\ row.status = "CANCELED"
  PROVE  LET mem == MemReprice(creator, covenant, price)
             lib == SqlReprice(creator, covenant, price)
         IN  mem.answer = lib.answer /\ Matched(mem.store, lib.store)
<1> DEFINE mine == memory["covenants"][creator]
           row == Row(creator, covenant, price, "ACTIVE")
           rows == {r \in sql["covenants"] :
                      r.creator = creator /\ r.covenant = covenant /\ r.status # "CANCELED"}
           past == {r \in sql["history"] : r.creator = creator /\ r.covenant = covenant}
           Repriced(old) == {[r EXCEPT !.price = price, !.status = "ACTIVE"] : r \in old}
           mem == MemReprice(creator, covenant, price)
           lib == SqlReprice(creator, covenant, price)
<1>1. /\ row \in OfferRow /\ row.creator = creator /\ row.covenant = covenant
  BY RowIs
<1>2. /\ MemHas("covenants", creator) =>
           /\ {r \in sql["covenants"] : r.creator = creator} = {mine}
           /\ mine \in OfferRow /\ mine.creator = creator
      /\ ~ MemHas("covenants", creator) =>
           {r \in sql["covenants"] : r.creator = creator} = {}
  BY OfferRows
<1>3. CASE ~ (MemHas("covenants", creator) /\ mine.covenant = covenant)
  <2>1. rows = {}
    BY <1>2, <1>3
  <2>2. mem = Outcome("DUPLICATE", memory) /\ lib = Outcome("DUPLICATE", sql)
    BY <1>3, <2>1 DEF MemReprice, SqlReprice
  <2> QED  BY <2>2, OutcomeIs
<1>4. CASE MemHas("covenants", creator) /\ mine.covenant = covenant
  <2>1. mine \in sql["covenants"] /\ rows = {mine}
    BY <1>2, <1>4
  <2>2. past = {mine}
    <3>1. {h \in sql["history"] : h.covenant = mine.covenant} = {mine}
      BY <2>1, OfferRows
    <3> QED  BY <1>2, <1>4, <3>1
  <2>3. Repriced({mine}) = {row}
    <3>1. mine \in OfferRow /\ mine.creator = creator /\ mine.covenant = covenant
      BY <1>2, <1>4
    <3> HIDE DEF mine
    <3>2. Offered(mine, price, "ACTIVE") = row
      BY <3>1, OfferWith
    <3>3. [mine EXCEPT !.price = price, !.status = "ACTIVE"] = row
      BY <3>2 DEF Offered
    <3> QED  BY <3>3
  <2>4. mem = Outcome("CREATED", MemRecord(row))
    BY <1>4 DEF MemReprice
  <2>5. lib = Outcome("CREATED",
                 [sql EXCEPT !["covenants"] = (@ \ rows) \cup Repriced(rows),
                             !["history"] = (@ \ past) \cup Repriced(past)])
    BY <2>1 DEF SqlReprice
  <2> HIDE DEF rows, past, Repriced, row
  <2>6. lib = Outcome("CREATED",
                 [sql EXCEPT !["covenants"] = (@ \ {mine}) \cup {row},
                             !["history"] = (@ \ {mine}) \cup {row}])
    <3> HIDE DEF mine, lib
    <3> QED  BY <2>1, <2>2, <2>3, <2>5
  <2>7. Matched(MemRecord(row), [sql EXCEPT !["covenants"] = (@ \ {mine}) \cup {row},
                                         !["history"] = (@ \ {mine}) \cup {row}])
    BY <1>1, <1>2, <1>4, <2>1, RewriteKeeps
  <2> QED  BY <2>4, <2>6, <2>7, OutcomeIs
<1> QED  BY <1>3, <1>4

LEMMA CancelKeeps ==
  ASSUME Matched(memory, sql), NEW creator \in Person, NEW covenant \in Id
  PROVE  LET mem == MemCancel(creator, covenant)
             lib == SqlCancel(creator, covenant)
         IN  mem.answer = lib.answer /\ Matched(mem.store, lib.store)
<1> DEFINE mine == memory["covenants"][creator]
           row == [mine EXCEPT !.status = "CANCELED"]
           rows == {r \in sql["covenants"] :
                      r.creator = creator /\ r.covenant = covenant /\ r.status # "CANCELED"}
           past == {r \in sql["history"] : r.creator = creator /\ r.covenant = covenant}
           Closed(old) == {[r EXCEPT !.status = "CANCELED"] : r \in old}
           mem == MemCancel(creator, covenant)
           lib == SqlCancel(creator, covenant)
           open == /\ MemHas("covenants", creator)
                   /\ mine.covenant = covenant
                   /\ mine.status # "CANCELED"
<1>1. /\ MemHas("covenants", creator) =>
           /\ {r \in sql["covenants"] : r.creator = creator} = {mine}
           /\ mine \in OfferRow /\ mine.creator = creator
      /\ ~ MemHas("covenants", creator) =>
           {r \in sql["covenants"] : r.creator = creator} = {}
  BY OfferRows
<1>2. CASE ~ open
  <2>1. rows = {}
    BY <1>1, <1>2
  <2>2. mem = Outcome("DUPLICATE", memory) /\ lib = Outcome("DUPLICATE", sql)
    BY <1>2, <2>1 DEF MemCancel, SqlCancel
  <2> QED  BY <2>2, OutcomeIs
<1>3. CASE open
  <2>1. mine \in sql["covenants"] /\ rows = {mine}
    BY <1>1, <1>3
  <2>2. past = {mine}
    <3>1. {h \in sql["history"] : h.covenant = mine.covenant} = {mine}
      BY <2>1, OfferRows
    <3> QED  BY <1>1, <1>3, <3>1
  <2>3. Closed({mine}) = {row}
    OBVIOUS
  <2>4. row \in OfferRow /\ row.creator = mine.creator /\ row.covenant = mine.covenant
    BY <1>1, <1>3 DEF OfferRow
  <2>5. mem = Outcome("CREATED", MemRecord(row))
    BY <1>3 DEF MemCancel
  <2>6. lib = Outcome("CREATED",
                 [sql EXCEPT !["covenants"] = (@ \ rows) \cup Closed(rows),
                             !["history"] = (@ \ past) \cup Closed(past)])
    BY <2>1 DEF SqlCancel
  <2> HIDE DEF rows, past, Closed, row
  <2>7. lib = Outcome("CREATED",
                 [sql EXCEPT !["covenants"] = (@ \ {mine}) \cup {row},
                             !["history"] = (@ \ {mine}) \cup {row}])
    <3> HIDE DEF mine, lib
    <3> QED  BY <2>1, <2>2, <2>3, <2>6
  <2>8. Matched(MemRecord(row), [sql EXCEPT !["covenants"] = (@ \ {mine}) \cup {row},
                                         !["history"] = (@ \ {mine}) \cup {row}])
    BY <2>1, <2>4, RewriteKeeps
  <2> QED  BY <2>5, <2>7, <2>8, OutcomeIs
<1> QED  BY <1>2, <1>3

-----------------------------------------------------------------------------
(* Profiles and posts *)

LEMMA ProfileKeeps ==
  ASSUME Matched(memory, sql), NEW address \in Person, NEW name \in Name \cup {Absent},
         NEW public \in BOOLEAN
  PROVE  LET row == [address |-> address, name |-> name, public |-> public]
         IN  Matched(MemSet("profiles", address, row),
                  [sql EXCEPT !["profiles"] = {r \in @ : r.address # address} \cup {row}])
<1> DEFINE t == "profiles"
           row == [address |-> address, name |-> name, public |-> public]
<1>1. /\ row \in [address : Person, name : Name \cup {Absent}, public : BOOLEAN]
      /\ row.address = address
  OBVIOUS
<1> HIDE DEF row
<1>2. t \in Table /\ Mirror(t, memory[t], sql[t])
  BY TablesAre DEF Matched, Agree
<1>3. row \in RowOf(t) /\ \A r : KeyOf(t, r) = r.address
  BY <1>1, RowsAre, KeysAre
<1>4. {r \in sql[t] : r.address # address} \cup {row}
        = {r \in sql[t] : KeyOf(t, r) # address} \cup {row}
  BY <1>3
<1>5. Mirror(t, Put(memory[t], address, row),
             {r \in sql[t] : r.address # address} \cup {row})
  BY <1>1, <1>2, <1>3, <1>4, PutKeeps
<1>6. Matched([memory EXCEPT ![t] = Put(memory[t], address, row)],
           [sql EXCEPT ![t] = {r \in sql[t] : r.address # address} \cup {row}])
  BY <1>2, <1>5, OneTable
<1> QED  BY <1>6 DEF MemSet, row

\* Reservations and posts change, and no others.
LEMMA MediaTables ==
  ASSUME Matched(memory, sql), NEW mem, NEW lib, DOMAIN mem = Table, DOMAIN lib = Table,
         \A t \in Table \ {"pending", "posts"} : mem[t] = memory[t] /\ lib[t] = sql[t],
         Mirror("pending", mem["pending"], lib["pending"]),
         Mirror("posts", mem["posts"], lib["posts"]), MediaApart(lib)
  PROVE  Matched(mem, lib)
<1> DEFINE changed == {"pending", "posts"}
<1>1. OffersKept(lib)
  <2>1. lib["covenants"] = sql["covenants"] /\ lib["history"] = sql["history"]
    BY TablesAre
  <2> QED  BY <2>1 DEF Matched, OffersKept
<1>2. \A t \in changed : Mirror(t, mem[t], lib[t])
  OBVIOUS
<1>3. \A t \in Table \ changed : mem[t] = memory[t] /\ lib[t] = sql[t]
  OBVIOUS
<1> HIDE DEF changed
<1> QED  BY <1>1, <1>2, <1>3, SomeTables

LEMMA MediaMirrors ==
  ASSUME Matched(memory, sql)
  PROVE  /\ Mirror("pending", memory["pending"], sql["pending"])
         /\ Mirror("posts", memory["posts"], sql["posts"])
         /\ DOMAIN memory = Table /\ DOMAIN sql = Table
         /\ "pending" \in Table /\ "posts" \in Table
         /\ "pending" \in ById /\ "posts" \in ById
         /\ \A r : KeyOf("pending", r) = r.id /\ KeyOf("posts", r) = r.id
<1>1. "pending" \in Table /\ "posts" \in Table /\ "pending" \in ById /\ "posts" \in ById
  BY TablesAre DEF ById
<1> QED  BY <1>1, KeysAre DEF Matched, Agree

\* Reservations go, at both stores.
LEMMA ReleaseKeeps ==
  ASSUME Matched(memory, sql), NEW map, NEW rows, rows \subseteq sql["pending"],
         Mirror("pending", map, rows)
  PROVE  Matched([memory EXCEPT !["pending"] = map], [sql EXCEPT !["pending"] = rows])
<1> DEFINE mem == [memory EXCEPT !["pending"] = map]
           lib == [sql EXCEPT !["pending"] = rows]
<1>1. /\ DOMAIN mem = Table /\ DOMAIN lib = Table
      /\ mem["pending"] = map /\ lib["pending"] = rows
      /\ mem["posts"] = memory["posts"] /\ lib["posts"] = sql["posts"]
      /\ \A t \in Table \ {"pending", "posts"} : mem[t] = memory[t] /\ lib[t] = sql[t]
  BY MediaMirrors
<1> HIDE DEF mem, lib
<1>2. MediaApart(lib)
  BY <1>1 DEF Matched, MediaApart
<1>3. Matched(mem, lib)
  BY <1>1, <1>2, MediaMirrors, MediaTables
<1> QED  BY <1>3 DEF mem, lib

LEMMA DropPendingKeeps ==
  ASSUME Matched(memory, sql), NEW id
  PROVE  Matched(MemDrop("pending", id), SqlDelete("pending", SqlById("pending", id)))
<1> DEFINE t == "pending"
<1>1. sql[t] \ SqlById(t, id) = {r \in sql[t] : KeyOf(t, r) \notin {id}}
  BY MediaMirrors DEF SqlById
<1>2. Mirror(t, Drop(memory[t], {id}), sql[t] \ SqlById(t, id))
  BY <1>1, MediaMirrors, DropKeeps
<1>3. Matched([memory EXCEPT ![t] = Drop(memory[t], {id})],
           [sql EXCEPT ![t] = sql[t] \ SqlById(t, id)])
  BY <1>2, ReleaseKeeps
<1> QED  BY <1>3 DEF MemDrop, SqlDelete

LEMMA PrunePendingKeeps ==
  ASSUME Matched(memory, sql)
  PROVE  Matched(MemPrune("pending"), SqlPrune("pending"))
<1> DEFINE t == "pending"
           keys == {k \in DOMAIN memory[t] : memory[t][k].expires <= now}
           gone == {r \in sql[t] : r.expires <= now}
<1>1. Mirror(t, memory[t], sql[t])
  BY MediaMirrors
<1>2. \A k \in DOMAIN memory[t] : k \in keys <=> memory[t][k] \in gone
  BY <1>1 DEF Mirror
<1>3. Mirror(t, Drop(memory[t], keys), sql[t] \ gone)
  BY <1>1, <1>2, PruneMirrors
<1>4. Matched([memory EXCEPT ![t] = Drop(memory[t], keys)],
           [sql EXCEPT ![t] = sql[t] \ gone])
  BY <1>3, ReleaseKeeps
<1> QED  BY <1>4 DEF MemPrune, SqlPrune, SqlDelete

PostRow == [id : Id, creator : Person, digest : Digest]

LEMMA ReserveKeeps ==
  ASSUME Matched(memory, sql), now \in Nat, NEW post \in PostRow,
         SqlById("posts", post.id) \cup SqlById("pending", post.id) = {}
  PROVE  /\ MemReserve(post).answer = SqlReserve(post).answer
         /\ Matched(MemReserve(post).store, SqlReserve(post).store)
<1> DEFINE t == "pending"
           row == Reserved(post)
           taken == \E r \in sql["posts"] \cup sql[t] : SameMedia(r, post)
<1>1. /\ row \in RowOf(t) /\ row.id = post.id
      /\ row.creator = post.creator /\ row.digest = post.digest
  <2>1. now + RowLife \in Int
    BY StoresConstants
  <2>2. /\ row \in [id : Id, creator : Person, digest : Digest, expires : Int]
        /\ row.id = post.id /\ row.creator = post.creator /\ row.digest = post.digest
    BY <2>1 DEF Reserved, PostRow
  <2> HIDE DEF row
  <2> QED  BY <2>2, RowsAre
<1> HIDE DEF row
<1>2. /\ Mirror(t, memory[t], sql[t])
      /\ Mirror("posts", memory["posts"], sql["posts"])
      /\ \A r : KeyOf(t, r) = r.id
  BY MediaMirrors
<1>3. \A r \in sql[t] : r.id # post.id
  BY DEF SqlById
<1>4. Collides(sql[t], t, row) <=> \E r \in sql[t] : SameMedia(r, post)
  <2>1. Collides(sql[t], t, row) <=>
          \E r \in sql[t] : \/ r.id = row.id
                            \/ r.creator = row.creator /\ r.digest = row.digest
    BY Collisions
  <2> QED  BY <1>1, <1>3, <2>1 DEF SameMedia
<1>5. \/ \E k \in DOMAIN memory["posts"] : SameMedia(memory["posts"][k], post)
      \/ \E k \in DOMAIN memory[t] : SameMedia(memory[t][k], post)
      <=> taken
  BY <1>2 DEF Mirror
<1>6. CASE taken
  <2>1. MemReserve(post) = Outcome("DUPLICATE", memory)
    BY <1>5, <1>6 DEF MemReserve
  <2>2. SqlReserve(post) = Outcome("DUPLICATE", sql)
    BY <1>4, <1>6 DEF SqlReserve, row
  <2> QED  BY <2>1, <2>2, OutcomeIs
<1>7. CASE ~ taken
  <2> DEFINE map == Put(memory[t], post.id, row)
             rows == sql[t] \cup {row}
             mem == [memory EXCEPT ![t] = map]
             lib == [sql EXCEPT ![t] = rows]
  <2>1. MemReserve(post) = Outcome("RESERVED", mem)
    BY <1>5, <1>7 DEF MemReserve, MemSet, row
  <2>2. SqlReserve(post) = Outcome("RESERVED", lib)
    BY <1>4, <1>7 DEF SqlReserve, SqlInsert, row
  <2>3. rows = {r \in sql[t] : KeyOf(t, r) # post.id} \cup {row}
    BY <1>2, <1>3
  <2>4. Mirror(t, map, rows)
    BY <1>1, <1>2, <2>3, PutKeeps
  <2>5. /\ DOMAIN mem = Table /\ DOMAIN lib = Table
        /\ mem[t] = map /\ lib[t] = rows
        /\ mem["posts"] = memory["posts"] /\ lib["posts"] = sql["posts"]
        /\ \A u \in Table \ {t, "posts"} : mem[u] = memory[u] /\ lib[u] = sql[u]
    <3> HIDE DEF map, rows
    <3> QED  BY MediaMirrors
  <2> HIDE DEF mem, lib, map
  <2>6. MediaApart(lib)
    <3>1. \A r : SameMedia(r, row) <=> SameMedia(r, post)
      BY <1>1 DEF SameMedia
    <3>2. \A r : SameMedia(row, r) <=> SameMedia(r, row)
      BY DEF SameMedia
    <3>3. /\ \A p, q \in sql[t] : SameMedia(p, q) => p = q
          /\ \A p \in sql[t], q \in sql["posts"] : ~ SameMedia(p, q)
      BY DEF Matched, MediaApart
    <3>4. \A r \in sql["posts"] \cup sql[t] : ~ SameMedia(r, row) /\ ~ SameMedia(row, r)
      BY <1>7, <3>1, <3>2
    <3> QED  BY <2>5, <3>3, <3>4 DEF MediaApart
  <2>7. Matched(mem, lib)
    BY <1>2, <2>4, <2>5, <2>6, MediaTables
  <2> QED  BY <2>1, <2>2, <2>7, OutcomeIs
<1> QED  BY <1>6, <1>7

LEMMA CommitKeeps ==
  ASSUME Matched(memory, sql), NEW post \in PostRow,
         SqlById("posts", post.id) = {},
         \A r \in SqlById("pending", post.id) : SameMedia(r, post)
  PROVE  /\ MemCommit(post).answer = SqlCommit(post).answer
         /\ Matched(MemCommit(post).store, SqlCommit(post).store)
<1> DEFINE id == post.id
           rows == SqlById("pending", id)
           released == SqlDelete("pending", rows)
           mine == memory["pending"][id]
           open == MemHas("pending", id) /\ mine.digest = post.digest
<1>1. /\ MemHas("pending", id) => rows = {mine}
      /\ ~ MemHas("pending", id) => rows = {}
  BY MediaMirrors, RowById
<1>2. Matched(MemDrop("pending", id), released)
  BY DropPendingKeeps
<1>3. CASE ~ open
  <2>1. \A r \in rows : r.digest # post.digest
    BY <1>1, <1>3
  <2>2. MemCommit(post) = Outcome("DUPLICATE", MemDrop("pending", id))
    BY <1>3 DEF MemCommit
  <2>3. SqlCommit(post) = Outcome("DUPLICATE", released)
    BY <2>1 DEF SqlCommit
  <2> QED  BY <1>2, <2>2, <2>3, OutcomeIs
<1>4. CASE open
  <2>1. rows = {mine} /\ mine \in sql["pending"] /\ mine.id = id /\ SameMedia(mine, post)
    BY <1>1, <1>4 DEF SqlById
  <2>2. \A r \in sql["posts"] : r.id # id /\ ~ SameMedia(r, post)
    <3>1. \A r \in sql["posts"] : ~ SameMedia(mine, r)
      BY <2>1 DEF Matched, MediaApart
    <3> QED  BY <2>1, <3>1 DEF SqlById, SameMedia
  <2>3. ~ Collides(sql["posts"], "posts", post)
    BY <2>2, Collisions DEF SameMedia
  <2> DEFINE mem == [MemSet("posts", id, post) EXCEPT !["pending"] = Drop(@, {id})]
             lib == [released EXCEPT !["posts"] = @ \cup {post}]
  <2>4. MemCommit(post) = Outcome("COMMITTED", mem)
    BY <1>4 DEF MemCommit
  <2>5. SqlCommit(post) = Outcome("COMMITTED", lib)
    BY <2>1, <2>3, <1>4 DEF SqlCommit
  <2>6. /\ DOMAIN mem = Table
        /\ mem["pending"] = Drop(memory["pending"], {id})
        /\ mem["posts"] = Put(memory["posts"], id, post)
        /\ \A u \in Table \ {"pending", "posts"} : mem[u] = memory[u]
    BY MediaMirrors DEF MemSet
  <2>7. /\ DOMAIN lib = Table
        /\ lib["pending"] = sql["pending"] \ rows
        /\ lib["posts"] = sql["posts"] \cup {post}
        /\ \A u \in Table \ {"pending", "posts"} : lib[u] = sql[u]
    BY MediaMirrors DEF SqlDelete
  <2> HIDE DEF mem, lib
  <2>8. Mirror("pending", mem["pending"], lib["pending"])
    <3>1. sql["pending"] \ rows = {r \in sql["pending"] : KeyOf("pending", r) \notin {id}}
      BY MediaMirrors DEF SqlById
    <3> QED  BY <2>6, <2>7, <3>1, MediaMirrors, DropKeeps
  <2>9. Mirror("posts", mem["posts"], lib["posts"])
    <3>1. sql["posts"] \cup {post} =
            {r \in sql["posts"] : KeyOf("posts", r) # id} \cup {post}
      BY <2>2, MediaMirrors
    <3>2. post \in RowOf("posts") /\ KeyOf("posts", post) = id
      BY RowsAre, MediaMirrors DEF PostRow
    <3> QED  BY <2>6, <2>7, <3>1, <3>2, MediaMirrors, PutKeeps
  <2>10. MediaApart(lib)
    <3>1. /\ \A p, q \in sql["pending"] : SameMedia(p, q) => p = q
          /\ \A p \in sql["pending"], q \in sql["posts"] : ~ SameMedia(p, q)
      BY DEF Matched, MediaApart
    <3>2. \A p \in lib["pending"] : p \in sql["pending"] /\ p # mine
      BY <2>1, <2>7
    <3>3. \A p \in lib["pending"] : ~ SameMedia(p, post)
      BY <2>1, <3>1, <3>2 DEF SameMedia
    <3> QED  BY <2>7, <3>1, <3>2, <3>3 DEF MediaApart
  <2>11. Matched(mem, lib)
    BY <2>6, <2>7, <2>8, <2>9, <2>10, MediaTables
  <2> QED  BY <2>4, <2>5, <2>11, OutcomeIs
<1> QED  BY <1>3, <1>4

LEMMA DeletePostKeeps ==
  ASSUME Matched(memory, sql), NEW id
  PROVE  /\ MemDeletePost(id).answer = SqlDeletePost(id).answer
         /\ Matched(MemDeletePost(id).store, SqlDeletePost(id).store)
<1> DEFINE rows == SqlById("posts", id)
           mine == memory["posts"][id]
<1>1. /\ MemHas("posts", id) => rows = {mine}
      /\ ~ MemHas("posts", id) => rows = {}
  BY MediaMirrors, RowById
<1>2. CASE ~ MemHas("posts", id)
  <2>1. MemDeletePost(id) = Outcome(Absent, memory) /\ SqlDeletePost(id) = Outcome(Absent, sql)
    BY <1>1, <1>2 DEF MemDeletePost, SqlDeletePost
  <2> QED  BY <2>1, OutcomeIs
<1>3. CASE MemHas("posts", id)
  <2> DEFINE keys == {k \in DOMAIN memory["purchases"] : memory["purchases"][k].post = id}
             gone == {r \in sql["purchases"] : r.post = id}
             mem == [MemDrop("posts", id) EXCEPT
                       !["purchases"] = Drop(@, {k \in DOMAIN @ : @[k].post = id})]
             lib == [SqlDelete("posts", rows) EXCEPT !["purchases"] = {r \in @ : r.post # id}]
  <2>1. MemDeletePost(id) = Outcome(mine, mem)
    BY <1>3 DEF MemDeletePost
  <2>2. SqlDeletePost(id) = Outcome(mine, lib)
    <3>1. rows # {} /\ TheRow(rows) = mine
      BY <1>1, <1>3 DEF TheRow
    <3> QED  BY <3>1 DEF SqlDeletePost
  <2>3. /\ "purchases" \in Table
        /\ Mirror("purchases", memory["purchases"], sql["purchases"])
    BY TablesAre DEF Matched, Agree
  <2>4. /\ DOMAIN mem = Table
        /\ mem["posts"] = Drop(memory["posts"], {id})
        /\ mem["purchases"] = Drop(memory["purchases"], keys)
        /\ \A u \in Table \ {"posts", "purchases"} : mem[u] = memory[u]
    BY <2>3, MediaMirrors DEF MemDrop
  <2>5. /\ DOMAIN lib = Table
        /\ lib["posts"] = sql["posts"] \ rows
        /\ lib["purchases"] = {r \in sql["purchases"] : r.post # id}
        /\ \A u \in Table \ {"posts", "purchases"} : lib[u] = sql[u]
    BY <2>3, MediaMirrors DEF SqlDelete
  <2> HIDE DEF mem, lib
  <2>6. Mirror("posts", mem["posts"], lib["posts"])
    <3>1. sql["posts"] \ rows = {r \in sql["posts"] : KeyOf("posts", r) \notin {id}}
      BY MediaMirrors DEF SqlById
    <3> QED  BY <2>4, <2>5, <3>1, MediaMirrors, DropKeeps
  <2>7. Mirror("purchases", mem["purchases"], lib["purchases"])
    <3>1. \A k \in DOMAIN memory["purchases"] : k \in keys <=> memory["purchases"][k] \in gone
      BY <2>3 DEF Mirror
    <3>2. Mirror("purchases", Drop(memory["purchases"], keys), sql["purchases"] \ gone)
      BY <2>3, <3>1, PruneMirrors
    <3>3. sql["purchases"] \ gone = {r \in sql["purchases"] : r.post # id}
      OBVIOUS
    <3> QED  BY <2>4, <2>5, <3>2, <3>3
  <2>8. /\ lib["covenants"] = sql["covenants"] /\ lib["history"] = sql["history"]
        /\ lib["pending"] = sql["pending"] /\ lib["posts"] \subseteq sql["posts"]
    BY <2>5, TablesAre
  <2>9. OffersKept(lib) /\ MediaApart(lib)
    BY <2>8 DEF Matched, OffersKept, MediaApart
  <2>10. Matched(mem, lib)
    <3> DEFINE changed == {"posts", "purchases"}
    <3>1. \A t \in changed : Mirror(t, mem[t], lib[t])
      BY <2>6, <2>7
    <3>2. \A t \in Table \ changed : mem[t] = memory[t] /\ lib[t] = sql[t]
      BY <2>4, <2>5
    <3> HIDE DEF changed
    <3> QED  BY <2>4, <2>5, <2>9, <3>1, <3>2, SomeTables
  <2> QED  BY <2>1, <2>2, <2>10, OutcomeIs
<1> QED  BY <1>2, <1>3

-----------------------------------------------------------------------------
(* Every call keeps the stores alike *)

LEMMA InitStores == StoresInit => StoresInv
<1> SUFFICES ASSUME StoresInit PROVE StoresInv
  OBVIOUS
<1>1. \A t \in Table : Mirror(t, <<>>, {})
  BY FS_EmptySet DEF Mirror
<1>2. /\ \A t \in Table : memory[t] = <<>> /\ sql[t] = {}
      /\ DOMAIN memory = Table /\ DOMAIN sql = Table
  BY DEF StoresInit
<1>3. Agree(memory, sql)
  BY <1>1, <1>2 DEF Agree
<1>4. OffersKept(sql) /\ MediaApart(sql)
  BY <1>2, TablesAre DEF OffersKept, MediaApart
<1> QED  BY <1>3, <1>4 DEF StoresInit, StoresInv, Matched

\* What holds while no call came late.
Kept == Matched(memory, sql) /\ alike = TRUE /\ now \in Nat

LEMMA DoneKeeps ==
  ASSUME Kept, NEW m, NEW s, Matched(m, s), Call(Outcome("done", m), Outcome("done", s))
  PROVE  Kept'
<1> DEFINE mem == Outcome("done", m)
           lib == Outcome("done", s)
<1>1. /\ mem.answer = "done" /\ mem.store = m
      /\ lib.answer = "done" /\ lib.store = s
  BY OutcomeIs
<1> HIDE DEF mem, lib
<1>2. Call(mem, lib)
  BY DEF mem, lib
<1> QED  BY <1>1, <1>2, CallKeeps DEF Kept

\* Calls about rows that expire, and about workflows.
LEMMA DropRowCall ==
  ASSUME Kept, NEW t \in ById \ {"posts"}, NEW id, DropRow(t, id)
  PROVE  Kept'
<1>1. Matched(MemDrop(t, id), SqlDelete(t, SqlById(t, id)))
  BY DropRowKeeps, DropPendingKeeps DEF Kept
<1>2. Call(Outcome("done", MemDrop(t, id)),
           Outcome("done", SqlDelete(t, SqlById(t, id))))
  BY DEF DropRow
<1> QED  BY <1>1, <1>2, DoneKeeps

LEMMA SaveRowCall ==
  ASSUME Kept, NEW t \in Expiring, NEW id \in Id, SaveRow(t, id)
  PROVE  Kept'
<1>1. Matched(MemSet(t, id, FreshRow(id)), SqlInsert(t, FreshRow(id)))
  BY SaveRowKeeps DEF Kept, SaveRow
<1>2. Call(Outcome("done", MemSet(t, id, FreshRow(id))),
           Outcome("done", SqlInsert(t, FreshRow(id))))
  BY DEF SaveRow
<1> QED  BY <1>1, <1>2, DoneKeeps

LEMMA PruneRowsCall ==
  ASSUME Kept, NEW t \in Expiring \cup {"pending"}, PruneRows(t)
  PROVE  Kept'
<1>1. Matched(MemPrune(t), SqlPrune(t))
  BY PruneRowsKeeps, PrunePendingKeeps DEF Kept
<1>2. Call(Outcome("done", MemPrune(t)), Outcome("done", SqlPrune(t)))
  BY DEF PruneRows
<1> QED  BY <1>1, <1>2, DoneKeeps

LEMMA LoginsKeep == ASSUME Kept, LoginCalls PROVE Kept'
<1>1. ASSUME NEW t \in {"challenges", "sessions"}, NEW id \in Id, SaveRow(t, id)
      PROVE  Kept'
  BY <1>1, TablesAre, SaveRowCall
<1>2. ASSUME NEW id \in Id, ChallengeConsumed(id) PROVE Kept'
  BY <1>2, ConsumeKeeps, CallKeeps DEF Kept, ChallengeConsumed
<1>3. ASSUME NEW id \in Id, SessionRolled(id) PROVE Kept'
  <2>1. Matched(MemRoll(id), SqlRoll(id))
    BY RollKeeps DEF Kept
  <2>2. Call(Outcome("done", MemRoll(id)), Outcome("done", SqlRoll(id)))
    BY <1>3 DEF SessionRolled
  <2> QED  BY <2>1, <2>2, DoneKeeps
<1>4. ASSUME NEW id \in Id, DropRow("sessions", id) PROVE Kept'
  BY <1>4, DropRowCall DEF ById
<1>5. ASSUME PruneChallenges PROVE Kept'
  <2>1. Call(Outcome("done", MemPruneChallenges), Outcome("done", SqlPruneChallenges))
    BY <1>5 DEF PruneChallenges
  <2>2. Matched(MemPruneChallenges, SqlPruneChallenges)
    BY PruneChallengesKeeps DEF Kept
  <2> QED  BY <2>1, <2>2, DoneKeeps
<1>6. ASSUME PruneRows("sessions") PROVE Kept'
  BY <1>6, TablesAre, PruneRowsCall
<1> QED  BY <1>1, <1>2, <1>3, <1>4, <1>5, <1>6 DEF LoginCalls

LEMMA PurchaseCall ==
  ASSUME Kept, NEW id \in Id, NEW post \in Id, NEW buyer \in Person,
         FinalizePurchase(id, post, buyer)
  PROVE  Kept'
<1> DEFINE row == [post |-> post, buyer |-> buyer, transaction |-> id]
           mem == MemInsert("purchases", <<post, buyer>>, row,
                            MemPurchaseTaken(post, buyer, id))
           lib == SqlFinalize("purchases", row)
<1>1. mem.answer = lib.answer /\ Matched(mem.store, lib.store)
  BY PurchaseKeeps DEF Kept
<1>2. Finalize("payment", id, mem, lib)
  BY DEF FinalizePurchase
<1> HIDE DEF mem, lib
<1> QED  BY <1>1, <1>2, FinalizeKeeps DEF Kept, Kind

LEMMA ReceiptCall ==
  ASSUME Kept, NEW id \in Id, NEW buyer \in Person, NEW creator \in Person,
         FinalizeMembershipPurchase(id, buyer, creator)
  PROVE  Kept'
<1> DEFINE row == [transaction |-> id, buyer |-> buyer, creator |-> creator]
           mem == MemInsert("receipts", id, row, MemHas("receipts", id))
           lib == SqlFinalize("receipts", row)
<1>1. mem.answer = lib.answer /\ Matched(mem.store, lib.store)
  BY ReceiptKeeps DEF Kept
<1>2. Finalize("membership", id, mem, lib)
  BY DEF FinalizeMembershipPurchase
<1> HIDE DEF mem, lib
<1> QED  BY <1>1, <1>2, FinalizeKeeps DEF Kept, Kind

LEMMA WorkflowsKeep ==
  ASSUME Kept, late' = {}, NEW kind \in Kind, WorkflowCalls(kind)
  PROVE  Kept'
<1>1. /\ Prepared(kind) \in Expiring
      /\ Prepared(kind) \in ById \ {"posts"}
      /\ Workflows(kind) \in WorkflowTables
      /\ Workflows(kind) \in ById \ {"posts"}
  BY TablesAre DEF Kind, Prepared, Workflows, ById, WorkflowTables
<1>2. ASSUME NEW id \in Id, SaveRow(Prepared(kind), id) PROVE Kept'
  BY <1>1, <1>2, SaveRowCall
<1>3. ASSUME NEW id \in Id, DropRow(Prepared(kind), id) PROVE Kept'
  BY <1>1, <1>3, DropRowCall
<1>4. ASSUME PruneRows(Prepared(kind)) PROVE Kept'
  BY <1>1, <1>4, PruneRowsCall
<1>5. ASSUME NEW id \in Id, NEW state \in {"SUBMITTED", "CONFIRMED"},
             SaveWorkflow(kind, id, state)
      PROVE  Kept'
  <2> DEFINE t == Workflows(kind)
  <2>1. \A w \in SqlById(t, id) : ~ w.finalized
    BY <1>5 DEF SaveWorkflow
  <2>2. Call(Outcome("done", MemSaveWorkflow(t, id, state)),
             Outcome("done", SqlSaveWorkflow(t, id, state)))
    BY <1>5 DEF SaveWorkflow
  <2> HIDE DEF t
  <2>3. t \in WorkflowTables
    BY <1>1 DEF t
  <2>4. Matched(MemSaveWorkflow(t, id, state), SqlSaveWorkflow(t, id, state))
    BY <2>1, <2>3, SaveWorkflowKeeps DEF Kept
  <2> QED  BY <2>2, <2>4, DoneKeeps
<1>6. ASSUME NEW id \in Id, NEW state \in {"CONFIRMED", "REJECTED"},
             ClaimTerminal(kind, id, state)
      PROVE  Kept'
  BY <1>1, <1>6, ClaimKeeps, CallKeeps DEF Kept, ClaimTerminal
<1>7. ASSUME NEW id \in Id, DeleteWorkflow(kind, id) PROVE Kept'
  BY <1>1, <1>7, DropRowCall DEF DeleteWorkflow
<1>8. ASSUME NEW id \in Id, NEW post \in Id, NEW buyer \in Person,
             FinalizePurchase(id, post, buyer)
      PROVE  Kept'
  BY <1>8, PurchaseCall
<1>9. ASSUME NEW id \in Id, NEW buyer \in Person, NEW creator \in Person,
             FinalizeMembershipPurchase(id, buyer, creator)
      PROVE  Kept'
  BY <1>9, ReceiptCall
<1> QED
  BY <1>2, <1>3, <1>4, <1>5, <1>6, <1>7, <1>8, <1>9 DEF WorkflowCalls

LEMMA OffersKeep == ASSUME Kept, late' = {}, OfferCalls PROVE Kept'
<1> SUFFICES ASSUME NEW creator \in Person, NEW id \in Id, NEW covenant \in Id,
                    NEW price \in Amount,
                    \/ SaveRow("preparedMemberships", id)
                    \/ FinalizeOffer(id, creator, price)
                    \/ FinalizePriceUpdate(id, creator, covenant, price)
                    \/ FinalizeCancellation(id, creator, covenant)
             PROVE  Kept'
  BY DEF OfferCalls
<1>1. "membership" \in Kind
  BY DEF Kind
<1>2. CASE SaveRow("preparedMemberships", id)
  BY <1>2, TablesAre, SaveRowCall
<1>3. CASE FinalizeOffer(id, creator, price)
  <2> DEFINE mem == MemOffer(creator, id, price)
             lib == SqlOffer(creator, id, price)
  <2>1. /\ \A r \in sql["history"] : r.covenant = id => r.creator = creator
        /\ ~ (Canceled(creator) /\ Known(id))
        /\ Finalize("membership", id, mem, lib)
    BY <1>3 DEF FinalizeOffer
  <2>2. mem.answer = lib.answer /\ Matched(mem.store, lib.store)
    BY <2>1, OfferKeeps DEF Kept
  <2> HIDE DEF mem, lib
  <2> QED  BY <1>1, <2>1, <2>2, FinalizeKeeps DEF Kept
<1>4. CASE FinalizePriceUpdate(id, creator, covenant, price)
  <2> DEFINE mem == MemReprice(creator, covenant, price)
             lib == SqlReprice(creator, covenant, price)
  <2>1. /\ ~ \E row \in sql["covenants"] :
             row.creator = creator /\ row.covenant = covenant /\ row.status = "CANCELED"
        /\ Finalize("membership", id, mem, lib)
    BY <1>4 DEF FinalizePriceUpdate
  <2>2. mem.answer = lib.answer /\ Matched(mem.store, lib.store)
    BY <2>1, RepriceKeeps DEF Kept
  <2> HIDE DEF mem, lib
  <2> QED  BY <1>1, <2>1, <2>2, FinalizeKeeps DEF Kept
<1>5. CASE FinalizeCancellation(id, creator, covenant)
  <2> DEFINE mem == MemCancel(creator, covenant)
             lib == SqlCancel(creator, covenant)
  <2>1. Finalize("membership", id, mem, lib)
    BY <1>5 DEF FinalizeCancellation
  <2>2. mem.answer = lib.answer /\ Matched(mem.store, lib.store)
    BY CancelKeeps DEF Kept
  <2> HIDE DEF mem, lib
  <2> QED  BY <1>1, <2>1, <2>2, FinalizeKeeps DEF Kept
<1> QED  BY <1>2, <1>3, <1>4, <1>5

LEMMA PostsAreRows ==
  ASSUME NEW id \in Id, NEW creator \in Person, NEW digest \in Digest
  PROVE  Post(id, creator, digest) \in PostRow /\ Post(id, creator, digest).id = id
  BY DEF Post, PostRow

\* Calls that make a post and take it away.
LEMMA MediaCall ==
  ASSUME Kept,
         \/ \E post \in PostRow : ReservePublication(post) \/ CommitPublication(post)
         \/ \E id \in Id : DeletePost(id)
  PROVE  Kept'
<1>1. ASSUME NEW post \in PostRow, ReservePublication(post) PROVE Kept'
  BY <1>1, ReserveKeeps, CallKeeps DEF Kept, ReservePublication
<1>2. ASSUME NEW post \in PostRow, CommitPublication(post) PROVE Kept'
  BY <1>2, CommitKeeps, CallKeeps DEF Kept, CommitPublication
<1>3. ASSUME NEW id \in Id, DeletePost(id) PROVE Kept'
  BY <1>3, DeletePostKeeps, CallKeeps DEF Kept, DeletePost
<1> QED  BY <1>1, <1>2, <1>3

LEMMA PostsKeep == ASSUME Kept, PostCalls PROVE Kept'
<1>1. CASE \E id \in Id, creator \in Person, digest \in Digest :
              \/ ReservePublication(Post(id, creator, digest))
              \/ CommitPublication(Post(id, creator, digest))
  BY <1>1, PostsAreRows, MediaCall
<1>2. ASSUME NEW id \in Id, DropRow("pending", id) PROVE Kept'
  BY <1>2, DropRowCall DEF ById
<1>3. ASSUME NEW id \in Id, DeletePost(id) PROVE Kept'
  BY <1>3, MediaCall
<1>4. ASSUME PruneRows("pending") PROVE Kept'
  BY <1>4, PruneRowsCall
<1>5. ASSUME NEW id \in Id, NEW post \in Id, NEW buyer \in Person,
             FinalizePurchase(id, post, buyer)
      PROVE  Kept'
  BY <1>5, PurchaseCall
<1> QED  BY <1>1, <1>2, <1>3, <1>4, <1>5 DEF PostCalls

LEMMA CreatorsKeep == ASSUME Kept, CreatorCalls PROVE Kept'
<1>1. CASE \E id \in Id, creator \in Person, digest \in Digest :
              \/ ReservePublication(Post(id, creator, digest))
              \/ CommitPublication(Post(id, creator, digest))
  BY <1>1, PostsAreRows, MediaCall
<1>2. ASSUME NEW id \in Id, DeletePost(id) PROVE Kept'
  BY <1>2, MediaCall
<1>3. ASSUME NEW address \in Person, NEW name \in Name \cup {Absent},
             NEW public \in BOOLEAN, ProfileSaved(address, name, public)
      PROVE  Kept'
  <2> DEFINE row == [address |-> address, name |-> name, public |-> public]
             mem == MemSet("profiles", address, row)
             lib == [sql EXCEPT !["profiles"] = {r \in @ : r.address # address} \cup {row}]
  <2>1. Matched(mem, lib)
    BY ProfileKeeps DEF Kept
  <2>2. Call(Outcome("done", mem), Outcome("done", lib))
    BY <1>3 DEF ProfileSaved
  <2> HIDE DEF mem, lib
  <2> QED  BY <2>1, <2>2, DoneKeeps
<1> QED  BY <1>1, <1>2, <1>3 DEF CreatorCalls

LEMMA StoresStep == StoresInv /\ [StoresNext]_storesVars => StoresInv'
<1> SUFFICES ASSUME StoresInv, [StoresNext]_storesVars, late' = {}
             PROVE  Kept'
  BY DEF StoresInv, Kept
<1>1. CASE StoresNext
  <2>1. Kept
    BY <1>1 DEF StoresNext, StoresInv, Kept
  <2>2. CASE Tick
    BY <2>1, <2>2 DEF Tick, Kept, Matched, Agree, OffersKept, MediaApart
  <2>3. CASE LoginCalls
    BY <2>1, <2>3, LoginsKeep
  <2>4. CASE OfferCalls
    BY <2>1, <2>4, OffersKeep
  <2>5. CASE PostCalls
    BY <2>1, <2>5, PostsKeep
  <2>6. CASE area \in Kind /\ WorkflowCalls(area)
    BY <2>1, <2>6, WorkflowsKeep
  <2>7. CASE CreatorCalls
    BY <2>1, <2>7, CreatorsKeep
  <2> QED  BY <1>1, <2>2, <2>3, <2>4, <2>5, <2>6, <2>7 DEF StoresNext
<1>2. CASE UNCHANGED storesVars
  BY <1>2 DEF storesVars, StoresInv, Kept, Matched, Agree, OffersKept, MediaApart
<1> QED  BY <1>1, <1>2

\* The stores mirror each other until a call comes late.
THEOREM StoresInvariance == StoresSpec => []StoresInv
  BY InitStores, StoresStep, PTL DEF StoresSpec

\* MemoryStore and LibsqlStore hold the same rows until a call comes late, for any
\* people, ids, media and prices and any sequence of the calls that the program makes.
THEOREM StoresHoldTheSame == StoresSpec => []SameRows
<1>1. StoresInv => SameRows
  <2> SUFFICES ASSUME Matched(memory, sql), NEW t \in Table
               PROVE  {memory[t][k] : k \in DOMAIN memory[t]} = sql[t]
    BY DEF StoresInv, SameRows
  <2>1. Mirror(t, memory[t], sql[t])
    BY DEF Matched, Agree
  <2> QED  BY <2>1 DEF Mirror
<1> QED  BY <1>1, StoresInvariance, PTL

\* A list that is not cut has all the rows.
LEMMA ShortList ==
  ASSUME NEW rows, NEW order, NEW limit \in Nat, IsFiniteSet(rows),
         Cardinality(rows) <= limit
  PROVE  Who(Listed(rows, order, limit)) = rows
<1> DEFINE Before(a) == Cardinality({b \in rows \ {a} : <<b, a>> \in order})
           listed == {a \in rows : Before(a) < limit}
<1>1. ASSUME NEW a \in rows PROVE Before(a) < limit
  <2> DEFINE others == {b \in rows \ {a} : <<b, a>> \in order}
  <2>1. others \subseteq rows \ {a} /\ rows \ {a} \subseteq rows
    OBVIOUS
  <2>2. /\ IsFiniteSet(rows \ {a})
        /\ Cardinality(rows) \in Nat /\ Cardinality(rows \ {a}) = Cardinality(rows) - 1
    BY FS_RemoveElement, FS_CardinalityType
  <2>3. Cardinality(others) \in Nat /\ Cardinality(others) <= Cardinality(rows \ {a})
    <3>1. IsFiniteSet(others) /\ Cardinality(others) <= Cardinality(rows \ {a})
      BY <2>1, <2>2, FS_Subset
    <3> QED  BY <3>1, FS_CardinalityType
  <2> HIDE DEF others
  <2>4. Cardinality(others) < limit
    BY <2>2, <2>3
  <2> QED  BY <2>4 DEF others
<1>2. Listed(rows, order, limit) = {<<Before(a), a>> : a \in listed}
  BY DEF Listed
<1>3. listed = rows
  BY <1>1
<1> HIDE DEF Before, listed
<1>4. Listed(rows, order, limit) = {<<Before(a), a>> : a \in rows}
  BY <1>2, <1>3
<1> DEFINE list == Listed(rows, order, limit)
<1>5. ASSUME NEW a PROVE <<Before(a), a>>[2] = a
  OBVIOUS
<1>6. \A x : x \in Who(list) <=> \E entry \in list : x = entry[2]
  BY DEF Who
<1>7. \A entry : entry \in list <=> \E a \in rows : entry = <<Before(a), a>>
  BY <1>4
<1> HIDE DEF list
<1>8. ASSUME NEW x \in Who(list) PROVE x \in rows
  <2>1. PICK entry \in list : x = entry[2]
    BY <1>6
  <2>2. PICK a \in rows : entry = <<Before(a), a>>
    BY <1>7
  <2> QED  BY <1>5, <2>1, <2>2
<1>9. ASSUME NEW a \in rows PROVE a \in Who(list)
  <2>1. <<Before(a), a>> \in list
    BY <1>7
  <2> QED  BY <1>5, <1>6, <2>1
<1> QED  BY <1>8, <1>9 DEF list

\* A list is the same under orders that agree on its rows.
LEMMA SameList ==
  ASSUME NEW rows, NEW order, NEW other, NEW limit,
         \A a, b \in rows : a # b => (<<a, b>> \in order <=> <<a, b>> \in other)
  PROVE  Listed(rows, order, limit) = Listed(rows, other, limit)
<1>1. ASSUME NEW a \in rows
      PROVE  {b \in rows \ {a} : <<b, a>> \in order} = {b \in rows \ {a} : <<b, a>> \in other}
  OBVIOUS
<1> DEFINE Before(a) == Cardinality({b \in rows \ {a} : <<b, a>> \in order})
           After(a) == Cardinality({b \in rows \ {a} : <<b, a>> \in other})
<1>2. \A a \in rows : Before(a) = After(a)
  BY <1>1
<1>3. /\ Listed(rows, order, limit)
           = {<<Before(a), a>> : a \in {a \in rows : Before(a) < limit}}
      /\ Listed(rows, other, limit)
           = {<<After(a), a>> : a \in {a \in rows : After(a) < limit}}
  BY DEF Listed
<1> HIDE DEF Before, After
<1>4. {a \in rows : Before(a) < limit} = {a \in rows : After(a) < limit}
  BY <1>2
<1>5. {<<Before(a), a>> : a \in {a \in rows : After(a) < limit}}
        = {<<After(a), a>> : a \in {a \in rows : After(a) < limit}}
  BY <1>2
<1> QED  BY <1>3, <1>4, <1>5

\* The creators who have a post are the same at both stores, and finitely many.
LEMMA CreatorsMatch ==
  ASSUME Matched(memory, sql)
  PROVE  /\ MemCreators = SqlCreators
         /\ IsFiniteSet(SqlCreators)
         /\ \A r \in SqlCreators : /\ r.address \in Person
                                   /\ r.name \in Name \cup {Absent}
<1>1. /\ Mirror("profiles", memory["profiles"], sql["profiles"])
      /\ Mirror("posts", memory["posts"], sql["posts"])
      /\ \A r : KeyOf("profiles", r) = r.address
  BY TablesAre, KeysAre DEF Matched, Agree
<1>2. \A a : (\E k \in DOMAIN memory["posts"] : memory["posts"][k].creator = a)
             <=> \E r \in sql["posts"] : r.creator = a
  BY <1>1 DEF Mirror
<1>3. MemCreators = SqlCreators
  BY <1>1, <1>2 DEF Mirror, MemCreators, SqlCreators
<1>4. IsFiniteSet(SqlCreators)
  <2> DEFINE keys == {a \in DOMAIN memory["profiles"] :
                 \E k \in DOMAIN memory["posts"] : memory["posts"][k].creator = a}
  <2>1. IsFiniteSet(keys)
    BY <1>1, FS_Subset DEF Mirror
  <2> DEFINE map == [a \in keys |-> memory["profiles"][a]]
  <2>2. map \in Surjection(keys, MemCreators)
    BY DEF Surjection, MemCreators
  <2> HIDE DEF keys, map
  <2>3. IsFiniteSet(MemCreators)
    BY <2>1, <2>2, FS_Surjection
  <2> QED  BY <1>3, <2>3
<1>5. ASSUME NEW r \in SqlCreators
      PROVE  r.address \in Person /\ r.name \in Name \cup {Absent}
  <2>1. r \in RowOf("profiles")
    BY <1>1 DEF Mirror, SqlCreators
  <2>2. r \in [address : Person, name : Name \cup {Absent}, public : BOOLEAN]
    BY <2>1, RowsAre, Zenon
  <2> QED  BY <2>2
<1> QED  BY <1>3, <1>4, <1>5

\* A search that matches alike answers the same creators while they are few.
LEMMA SearchMatches ==
  ASSUME Matched(memory, sql), NEW q \in Query, SameMatches(q),
         Cardinality(SqlMatches(q)) <= SearchLimit
  PROVE  Who(MemSearch(q)) = Who(SqlSearch(q))
<1>1. MemMatches(q) = SqlMatches(q)
  BY CreatorsMatch DEF SameMatches, MemMatches, SqlMatches
<1>2. IsFiniteSet(SqlMatches(q))
  BY CreatorsMatch, FS_Subset DEF SqlMatches
<1>3. SearchLimit \in Nat
  BY SearchConstants
<1>4. Who(MemSearch(q)) = SqlMatches(q)
  BY <1>1, <1>2, <1>3, ShortList DEF MemSearch
<1>5. Who(SqlSearch(q)) = SqlMatches(q)
  BY <1>2, <1>3, ShortList DEF SqlSearch
<1> QED  BY <1>4, <1>5

\* The public list has the same creators while they are few, and is the same list,
\* cut or not, where the collations agree.
LEMMA ListsMatch ==
  ASSUME Matched(memory, sql)
  PROVE  /\ Cardinality(SqlPublic) <= ListLimit => Who(MemPublicList) = Who(SqlPublicList)
         /\ SameOrder => MemPublicList = SqlPublicList
<1>1. MemPublic = SqlPublic
  BY CreatorsMatch DEF MemPublic, SqlPublic
<1>2. IsFiniteSet(SqlPublic)
  BY CreatorsMatch, FS_Subset DEF SqlPublic
<1>3. ListLimit \in Nat
  BY SearchConstants
<1>4. ASSUME Cardinality(SqlPublic) <= ListLimit
      PROVE  Who(MemPublicList) = Who(SqlPublicList)
  <2>1. Who(MemPublicList) = SqlPublic
    BY <1>1, <1>2, <1>3, <1>4, ShortList DEF MemPublicList
  <2>2. Who(SqlPublicList) = SqlPublic
    BY <1>2, <1>3, <1>4, ShortList DEF SqlPublicList
  <2> QED  BY <2>1, <2>2
<1>5. ASSUME SameOrder PROVE MemPublicList = SqlPublicList
  <2> DEFINE mine == ByLabel(SqlPublic, Collation, entered)
             theirs == ByLabel(SqlPublic, Binary, Scan)
  <2>1. ASSUME NEW a \in SqlPublic, NEW b \in SqlPublic, a # b
        PROVE  <<a, b>> \in mine <=> <<a, b>> \in theirs
    <3> DEFINE x == LabelOf(a)
               y == LabelOf(b)
    <3>1. x \in Label /\ y \in Label
      BY CreatorsMatch DEF SqlPublic, LabelOf, Label
    <3>2. /\ x # y /\ (Binary[x] < Binary[y] <=> Collation[x] < Collation[y])
          /\ (Binary[y] < Binary[x] <=> Collation[y] < Collation[x])
      BY <1>5, <2>1 DEF SameOrder
    <3>3. /\ <<a, b>> \in mine <=>
               \/ Collation[x] < Collation[y]
               \/ Collation[x] = Collation[y] /\ <<a.address, b.address>> \in entered
          /\ <<a, b>> \in theirs <=>
               \/ Binary[x] < Binary[y]
               \/ Binary[x] = Binary[y] /\ <<a.address, b.address>> \in Scan
      BY DEF ByLabel
    <3> HIDE DEF x, y, mine, theirs
    <3>4. /\ Binary[x] \in Nat /\ Binary[y] \in Nat /\ Binary[x] # Binary[y]
          /\ Collation[x] \in Nat /\ Collation[y] \in Nat
      BY <3>1, <3>2, SearchConstants
    <3>5. Collation[x] # Collation[y]
      BY <3>2, <3>4
    <3> QED  BY <3>2, <3>3, <3>4, <3>5
  <2> HIDE DEF mine, theirs
  <2>2. Listed(SqlPublic, mine, ListLimit) = Listed(SqlPublic, theirs, ListLimit)
    BY <2>1, SameList
  <2> QED  BY <1>1, <2>2 DEF MemPublicList, SqlPublicList, mine, theirs
<1> QED  BY <1>4, <1>5

\* Until a call comes late, both stores answer every call alike, and every question:
\* a search that both match alike and the public list with the same creators while they
\* are within the limits, and the public list in the same order, cut at the same place,
\* where the collations agree; for any names, queries, collations and limits.
THEOREM StoresAnswerTheSame == StoresSpec => []SameAnswers
<1>1. StoresInv => SameAnswers
  <2> SUFFICES ASSUME Matched(memory, sql), alike
               PROVE  /\ \A t \in Expiring \ {"challenges"}, id \in Id :
                           MemRead(t, id) = SqlRead(t, id)
                      /\ \A k \in Kind : MemPending(Workflows(k)) = SqlPending(Workflows(k))
                      /\ \A p \in Person : MemOpenOffer(p) = SqlOpenOffer(p)
    BY SearchMatches, ListsMatch DEF StoresInv, SameAnswers
  <2>1. ASSUME NEW t \in Expiring \ {"challenges"}, NEW id \in Id
        PROVE  MemRead(t, id) = SqlRead(t, id)
    <3>1. t \in ById
      BY TablesAre DEF ById
    <3>2. /\ MemHas(t, id) => SqlById(t, id) = {memory[t][id]}
          /\ ~ MemHas(t, id) => SqlById(t, id) = {}
      BY <3>1, RowById
    <3>3. CASE MemHas(t, id) /\ memory[t][id].expires > now
      <4>1. {r \in SqlById(t, id) : r.expires > now} = {memory[t][id]}
        BY <3>2, <3>3
      <4> QED  BY <3>3, <4>1 DEF MemRead, SqlRead, TheRow
    <3>4. CASE ~ (MemHas(t, id) /\ memory[t][id].expires > now)
      <4>1. {r \in SqlById(t, id) : r.expires > now} = {}
        BY <3>2, <3>4
      <4> QED  BY <3>4, <4>1 DEF MemRead, SqlRead, TheRow
    <3> QED  BY <3>3, <3>4
  <2>2. ASSUME NEW k \in Kind
        PROVE  MemPending(Workflows(k)) = SqlPending(Workflows(k))
    <3> DEFINE t == Workflows(k)
    <3>1. t \in Table /\ t \in ById
      BY TablesAre DEF Kind, Workflows, ById
    <3> HIDE DEF t
    <3>2. Mirror(t, memory[t], sql[t]) /\ \A r : KeyOf(t, r) = r.id
      BY <3>1, KeysAre DEF Matched, Agree
    <3>3. MemPending(t) = SqlPending(t)
      BY <3>2 DEF Mirror, MemPending, SqlPending
    <3> QED  BY <3>3 DEF t
  <2>3. ASSUME NEW p \in Person PROVE MemOpenOffer(p) = SqlOpenOffer(p)
    <3> DEFINE mine == memory["covenants"][p]
               open == {r \in sql["covenants"] : r.creator = p /\ r.status # "CANCELED"}
    <3>1. /\ MemHas("covenants", p) => {r \in sql["covenants"] : r.creator = p} = {mine}
          /\ ~ MemHas("covenants", p) => {r \in sql["covenants"] : r.creator = p} = {}
      BY OfferRows
    <3>2. CASE MemHas("covenants", p) /\ mine.status # "CANCELED"
      <4>1. open = {mine}
        BY <3>1, <3>2
      <4> QED  BY <3>2, <4>1 DEF MemOpenOffer, SqlOpenOffer, TheRow
    <3>3. CASE ~ (MemHas("covenants", p) /\ mine.status # "CANCELED")
      <4>1. open = {}
        BY <3>1, <3>3
      <4> QED  BY <3>3, <4>1 DEF MemOpenOffer, SqlOpenOffer, TheRow
    <3> QED  BY <3>2, <3>3
  <2> QED  BY <2>1, <2>2, <2>3
<1> QED  BY <1>1, StoresInvariance, PTL

=============================================================================
