------------------------------- MODULE Stores -------------------------------
(***************************************************************************)
(* The two stores behind the same interface, called alike: MemoryStore,    *)
(* maps that the tests of the application run on, and LibsqlStore, tables  *)
(* that production runs on.  store-contract.test.ts holds both to one      *)
(* contract on short scripts; here every sequence of the calls the program *)
(* makes is sent to both, and their rows and answers are compared.         *)
(*                                                                         *)
(* A map is a function from keys to rows, a table a set of rows under      *)
(* unique constraints.  A call is atomic in both: what another call does   *)
(* between two queries of one is the matter of the other modules.          *)
(*                                                                         *)
(* Payments and memberships have prepared rows and workflows of the same   *)
(* form, with the same code written twice; `kind' says which.              *)
(***************************************************************************)
EXTENDS Integers, FiniteSets, Functions

CONSTANTS
  Person,        \* wallet addresses: creators, buyers, users
  Id,            \* random ids: of challenges, sessions, prepared rows and posts
  Digest,        \* digests of media
  Amount,        \* prices of an offer
  Name,          \* display names
  Query,         \* what a reader may search for
  Includes,      \* <<query, name>>: the name has the query in it, in lower case
  Like,          \* <<query, name>>: LIKE, with % and _ as wildcards and ASCII case
  Collation,     \* place of a name or an address by localeCompare
  Binary,        \* place of a name or an address by its bytes
  Scan,          \* <<person, person>>: the order of rows that ORDER BY leaves open
  SearchLimit,   \* 20, creators that a search answers
  ListLimit,     \* 100, creators that the public list answers
  Absent,        \* null
  RowLife,       \* life of a row that expires, in ticks
  MaxNow         \* bound: ticks of the clock in a run

ASSUME StoresConstants ==
  RowLife \in Nat \ {0} /\ MaxNow \in Nat /\ Absent \notin Name

Label == Name \cup Person

ASSUME SearchConstants ==
  /\ Includes \subseteq Query \X Name /\ Like \subseteq Query \X Name
  /\ Collation \in [Label -> Nat] /\ Binary \in [Label -> Nat]
  /\ \A l, m \in Label : Binary[l] = Binary[m] => l = m
  /\ Scan \subseteq Person \X Person
  /\ SearchLimit \in Nat /\ ListLimit \in Nat

VARIABLES
  area,      \* the part of the interface that a run calls
  memory,    \* MemoryStore: name of a map -> the map
  sql,       \* LibsqlStore: name of a table -> its rows
  entered,   \* <<a, b>>: the map of profiles got the key a before b
  now,       \* the time that callers pass in
  alike,     \* whether the two answered every call alike so far
  late       \* calls about a row that had come to its end

storesVars == <<area, memory, sql, entered, now, alike, late>>

Kind == {"payment", "membership"}
Prepared(kind) == IF kind = "payment" THEN "preparedPayments" ELSE "preparedMemberships"
Workflows(kind) == IF kind = "payment" THEN "paymentWorkflows" ELSE "membershipWorkflows"

Table ==
  {"challenges", "sessions", "profiles", "posts", "pending", "purchases", "covenants",
   "history", "receipts"} \cup {Prepared(k) : k \in Kind} \cup {Workflows(k) : k \in Kind}

\* PRIMARY KEY and UNIQUE, each a set of columns.
Keys == [t \in Table |->
  CASE t \in {"posts", "pending"} -> {{"id"}, {"creator", "digest"}}
    [] t = "purchases" -> {{"post", "buyer"}, {"transaction"}}
    [] t = "covenants" -> {{"creator"}, {"covenant"}}
    [] t = "history"   -> {{"creator", "covenant"}, {"covenant"}}
    [] t = "receipts"  -> {{"transaction"}}
    [] t = "profiles"  -> {{"address"}}
    [] OTHER           -> {{"id"}}]

StoresInit ==
  /\ area \in {"logins", "payment", "membership", "offers", "posts", "creators"}
  /\ memory = [t \in Table |-> <<>>]
  /\ sql = [t \in Table |-> {}]
  /\ entered = {}
  /\ now = 0
  /\ alike = TRUE
  /\ late = {}

\* A call with what each of the stores answers and holds afterwards.
Call(mem, lib) ==
  /\ memory' = mem.store
  /\ sql' = lib.store
  /\ entered' = LET before == DOMAIN memory["profiles"] IN
       entered \cup (before \X (DOMAIN mem.store["profiles"] \ before))
  /\ alike' = (alike /\ mem.answer = lib.answer)
  /\ UNCHANGED <<area, now>>

InTime == UNCHANGED late

Outcome(answer, store) == [answer |-> answer, store |-> store]

Tick ==
  /\ now < MaxNow
  /\ now' = now + 1
  /\ UNCHANGED <<area, memory, sql, entered, alike, late>>

-----------------------------------------------------------------------------
(* Maps *)

Put(map, key, row) == [k \in DOMAIN map \cup {key} |-> IF k = key THEN row ELSE map[k]]

Drop(map, keys) == Restrict(map, DOMAIN map \ keys)

MemSet(t, key, row) == [memory EXCEPT ![t] = Put(@, key, row)]

MemDrop(t, key) == [memory EXCEPT ![t] = Drop(@, {key})]

MemHas(t, key) == key \in DOMAIN memory[t]

MemRead(t, id) ==
  IF MemHas(t, id) /\ memory[t][id].expires > now THEN memory[t][id] ELSE Absent

MemPrune(t) ==
  [memory EXCEPT ![t] = Drop(@, {k \in DOMAIN @ : @[k].expires <= now})]

(* Tables *)

Collides(rows, t, row) ==
  \E r \in rows : \E key \in Keys[t] : \A column \in key : r[column] = row[column]

SqlInsert(t, row) == [sql EXCEPT ![t] = @ \cup {row}]

SqlDelete(t, rows) == [sql EXCEPT ![t] = @ \ rows]

SqlById(t, id) == {r \in sql[t] : r.id = id}

TheRow(rows) == IF rows = {} THEN Absent ELSE CHOOSE r \in rows : TRUE

\* Variant: a row is still read at the moment it expires.
SqlReadAtEnd(t, id) == TheRow({r \in SqlById(t, id) : r.expires >= now})

SqlRead(t, id) == TheRow({r \in SqlById(t, id) : r.expires > now})

SqlPrune(t) == SqlDelete(t, {r \in sql[t] : r.expires <= now})

-----------------------------------------------------------------------------
(* Rows that expire: challenges, sessions, prepared payments and memberships *)

Expiring == {"challenges", "sessions"} \cup {Prepared(k) : k \in Kind}

FreshRow(id) == [id |-> id, expires |-> now + RowLife, consumed |-> FALSE]

SaveRow(t, id) ==
  /\ SqlById(t, id) = {}
  /\ Call(Outcome("done", MemSet(t, id, FreshRow(id))),
          Outcome("done", SqlInsert(t, FreshRow(id))))
  /\ InTime

DropRow(t, id) ==
  /\ Call(Outcome("done", MemDrop(t, id)),
          Outcome("done", SqlDelete(t, SqlById(t, id))))
  /\ InTime

PruneRows(t) ==
  /\ t # "challenges"
  /\ Call(Outcome("done", MemPrune(t)), Outcome("done", SqlPrune(t)))
  /\ InTime

MemConsume(id) ==
  LET row == memory["challenges"][id] IN
  IF ~ MemHas("challenges", id) \/ row.consumed \/ row.expires <= now
  THEN Outcome(Absent, memory)
  ELSE Outcome("consumed", MemSet("challenges", id, [row EXCEPT !.consumed = TRUE]))

SqlConsume(id) ==
  LET rows == {r \in SqlById("challenges", id) : ~ r.consumed /\ r.expires > now}
  IN Outcome(IF rows = {} THEN Absent ELSE "consumed",
             [sql EXCEPT !["challenges"] =
                (@ \ rows) \cup {[r EXCEPT !.consumed = TRUE] : r \in rows}])

ChallengeConsumed(id) == Call(MemConsume(id), SqlConsume(id)) /\ InTime

MemPruneChallenges ==
  [memory EXCEPT !["challenges"] =
     Drop(@, {k \in DOMAIN @ : @[k].consumed \/ @[k].expires <= now})]

SqlPruneChallenges ==
  SqlDelete("challenges", {r \in sql["challenges"] : r.consumed \/ r.expires <= now})

PruneChallenges ==
  Call(Outcome("done", MemPruneChallenges), Outcome("done", SqlPruneChallenges))
  /\ InTime

MemRoll(id) ==
  IF ~ MemHas("sessions", id) THEN memory
  ELSE [memory EXCEPT !["sessions"][id].expires = now + RowLife]

SqlRoll(id) ==
  LET rows == SqlById("sessions", id)
  IN [sql EXCEPT !["sessions"] =
        (@ \ rows) \cup {[r EXCEPT !.expires = now + RowLife] : r \in rows}]

SessionRolled(id) ==
  Call(Outcome("done", MemRoll(id)), Outcome("done", SqlRoll(id))) /\ InTime

-----------------------------------------------------------------------------
(* Workflows of prepared rows *)

\* The map keeps nothing of the row it replaces but the time of submission.
MemSaveWorkflow(t, id, state) ==
  MemSet(t, id, [id |-> id, state |-> state, finalized |-> FALSE,
                 submitted |-> IF MemHas(t, id) THEN memory[t][id].submitted ELSE now])

\* The upsert leaves finalized_at and a time of submission as they are.
SqlSaveWorkflow(t, id, state) ==
  LET rows == SqlById(t, id)
      row == IF rows # {} THEN [TheRow(rows) EXCEPT !.state = state]
             ELSE [id |-> id, state |-> state, finalized |-> FALSE, submitted |-> now]
  IN [sql EXCEPT ![t] = (@ \ rows) \cup {row}]

\* A finalize handler saves the workflow of a row that a pass has finalized.
SaveWorkflow(kind, id, state) ==
  LET t == Workflows(kind) IN
  /\ Call(Outcome("done", MemSaveWorkflow(t, id, state)),
          Outcome("done", SqlSaveWorkflow(t, id, state)))
  /\ late' = late \cup {r \in {"saved again"} : \E w \in SqlById(t, id) : w.finalized}

MemClaim(t, id, state) ==
  IF MemHas(t, id) => memory[t][id].finalized
  THEN Outcome(Absent, memory)
  ELSE Outcome("claimed",
               [memory EXCEPT ![t][id] = [@ EXCEPT !.state = state, !.finalized = TRUE]])

SqlClaim(t, id, state) ==
  LET rows == {r \in SqlById(t, id) : ~ r.finalized}
  IN Outcome(IF rows = {} THEN Absent ELSE "claimed",
             [sql EXCEPT ![t] = (@ \ rows) \cup
                {[r EXCEPT !.state = state, !.finalized = TRUE] : r \in rows}])

ClaimTerminal(kind, id, state) ==
  Call(MemClaim(Workflows(kind), id, state), SqlClaim(Workflows(kind), id, state))
  /\ InTime

DeleteWorkflow(kind, id) == DropRow(Workflows(kind), id)

\* The workflows a pass would take up: the first of them by id are the same ones.
MemPending(t) == {k \in DOMAIN memory[t] : memory[t][k].state = "SUBMITTED"}
SqlPending(t) == {r.id : r \in {r \in sql[t] : r.state = "SUBMITTED"}}

-----------------------------------------------------------------------------
(* Offers and memberships.  A step is finalized with the id of its prepared *)
(* row, which goes in the same call; a covenant is the id of its offer.     *)

MemForget(store, kind, id) ==
  [store EXCEPT ![Prepared(kind)] = Drop(@, {id})]

SqlForget(store, kind, id) ==
  [store EXCEPT ![Prepared(kind)] = {r \in @ : r.id # id}]

Row(creator, covenant, price, status) ==
  [creator |-> creator, covenant |-> covenant, price |-> price, status |-> status]

MemRecord(row) ==
  [memory EXCEPT !["covenants"] = Put(@, row.creator, row),
                 !["history"] = Put(@, row.covenant, row)]

\* saveNewCovenant, after a cancellation, and saveCreatorCovenant.
MemOffer(creator, covenant, price) ==
  LET covenants == memory["covenants"]
      canceled == MemHas("covenants", creator) /\ covenants[creator].status = "CANCELED"
      taken == IF canceled THEN MemHas("history", covenant)
               ELSE \/ MemHas("covenants", creator)
                    \/ \E c \in DOMAIN covenants : covenants[c].covenant = covenant
  IN IF taken THEN Outcome("DUPLICATE", memory)
     ELSE Outcome("CREATED", MemRecord(Row(creator, covenant, price, "ACTIVE")))

\* The row of the creator is written before the history refuses the covenant,
\* and the transaction is committed all the same.
SqlOffer(creator, covenant, price) ==
  LET row == Row(creator, covenant, price, "ACTIVE")
      old == {r \in sql["covenants"] : r.creator = creator}
      refused == Collides(sql["covenants"] \ old, "covenants", row)
      written == [sql EXCEPT !["covenants"] = (@ \ old) \cup {row}]
  IN IF (\E r \in old : r.status # "CANCELED") \/ refused
     THEN Outcome("DUPLICATE", sql)
     ELSE IF Collides(sql["history"], "history", row)
     THEN Outcome("DUPLICATE", written)
     ELSE Outcome("CREATED", [written EXCEPT !["history"] = @ \cup {row}])

\* The rows that end a step at both stores.
Finalize(kind, id, mem, lib) ==
  Call(Outcome(mem.answer, MemForget(mem.store, kind, id)),
       Outcome(lib.answer, SqlForget(lib.store, kind, id)))

Canceled(creator) ==
  \E r \in sql["covenants"] : r.creator = creator /\ r.status = "CANCELED"

Known(covenant) == \E r \in sql["history"] : r.covenant = covenant

\* An offer is finalized by the handler and again by a pass.
FinalizeOffer(id, creator, price) ==
  /\ \A r \in sql["history"] : r.covenant = id => r.creator = creator
  /\ Finalize("membership", id, MemOffer(creator, id, price),
              SqlOffer(creator, id, price))
  /\ late' = late \cup {r \in {"offered again"} : Canceled(creator) /\ Known(id)}

MemReprice(creator, covenant, price) ==
  IF \/ ~ MemHas("covenants", creator)
     \/ MemHas("covenants", creator) /\ memory["covenants"][creator].covenant # covenant
  THEN Outcome("DUPLICATE", memory)
  ELSE Outcome("CREATED", MemRecord(Row(creator, covenant, price, "ACTIVE")))

SqlReprice(creator, covenant, price) ==
  LET rows == {r \in sql["covenants"] :
                 r.creator = creator /\ r.covenant = covenant /\ r.status # "CANCELED"}
      Repriced(old) == {[r EXCEPT !.price = price, !.status = "ACTIVE"] : r \in old}
      past == {r \in sql["history"] : r.creator = creator /\ r.covenant = covenant}
  IN IF rows = {} THEN Outcome("DUPLICATE", sql)
     ELSE Outcome("CREATED",
            [sql EXCEPT !["covenants"] = (@ \ rows) \cup Repriced(rows),
                        !["history"] = (@ \ past) \cup Repriced(past)])

\* A price update that the chain accepted before a cancellation is finalized after it.
FinalizePriceUpdate(id, creator, covenant, price) ==
  /\ Finalize("membership", id, MemReprice(creator, covenant, price),
              SqlReprice(creator, covenant, price))
  /\ late' = late \cup {r \in {"repriced"} :
       \E row \in sql["covenants"] :
         row.creator = creator /\ row.covenant = covenant /\ row.status = "CANCELED"}

MemCancel(creator, covenant) ==
  LET row == memory["covenants"][creator]
      open == /\ MemHas("covenants", creator)
              /\ row.covenant = covenant
              /\ row.status # "CANCELED"
  IN IF open THEN Outcome("CREATED", MemRecord([row EXCEPT !.status = "CANCELED"]))
     ELSE Outcome("DUPLICATE", memory)

SqlCancel(creator, covenant) ==
  LET rows == {r \in sql["covenants"] :
                 r.creator = creator /\ r.covenant = covenant /\ r.status # "CANCELED"}
      past == {r \in sql["history"] : r.creator = creator /\ r.covenant = covenant}
      Closed(old) == {[r EXCEPT !.status = "CANCELED"] : r \in old}
  IN IF rows = {} THEN Outcome("DUPLICATE", sql)
     ELSE Outcome("CREATED",
            [sql EXCEPT !["covenants"] = (@ \ rows) \cup Closed(rows),
                        !["history"] = (@ \ past) \cup Closed(past)])

FinalizeCancellation(id, creator, covenant) ==
  /\ Finalize("membership", id, MemCancel(creator, covenant), SqlCancel(creator, covenant))
  /\ InTime

MemInsert(t, key, row, taken) ==
  IF taken THEN Outcome("DUPLICATE", memory) ELSE Outcome("CREATED", MemSet(t, key, row))

\* transactionalFinalize: a row that is refused does not keep the prepared row.
SqlFinalize(t, row) ==
  IF Collides(sql[t], t, row) THEN Outcome("DUPLICATE", sql)
  ELSE Outcome("CREATED", SqlInsert(t, row))

\* A transaction is the one its prepared row holds.
FinalizeMembershipPurchase(id, buyer, creator) ==
  LET row == [transaction |-> id, buyer |-> buyer, creator |-> creator] IN
  /\ Finalize("membership", id, MemInsert("receipts", id, row, MemHas("receipts", id)),
              SqlFinalize("receipts", row))
  /\ InTime

MemPurchaseTaken(post, buyer, transaction) ==
  LET purchases == memory["purchases"] IN
  \/ \E k \in DOMAIN purchases : purchases[k].transaction = transaction
  \/ MemHas("purchases", <<post, buyer>>)

FinalizePurchase(id, post, buyer) ==
  LET row == [post |-> post, buyer |-> buyer, transaction |-> id] IN
  /\ Finalize("payment", id,
              MemInsert("purchases", <<post, buyer>>, row, MemPurchaseTaken(post, buyer, id)),
              SqlFinalize("purchases", row))
  /\ InTime

-----------------------------------------------------------------------------
(* Posts and profiles *)

Post(id, creator, digest) == [id |-> id, creator |-> creator, digest |-> digest]

Reserved(post) ==
  [id |-> post.id, creator |-> post.creator, digest |-> post.digest,
   expires |-> now + RowLife]

SameMedia(p, q) == p.creator = q.creator /\ p.digest = q.digest

MemReserve(post) ==
  LET Holds(t) == \E k \in DOMAIN memory[t] : SameMedia(memory[t][k], post)
  IN IF Holds("posts") \/ Holds("pending") THEN Outcome("DUPLICATE", memory)
     ELSE Outcome("RESERVED", MemSet("pending", post.id, Reserved(post)))

SqlReserve(post) ==
  IF \/ \E r \in sql["posts"] : SameMedia(r, post)
     \/ Collides(sql["pending"], "pending", Reserved(post))
  THEN Outcome("DUPLICATE", sql)
  ELSE Outcome("RESERVED", SqlInsert("pending", Reserved(post)))

\* Ids of posts are random.
ReservePublication(post) ==
  /\ SqlById("posts", post.id) \cup SqlById("pending", post.id) = {}
  /\ Call(MemReserve(post), SqlReserve(post))
  /\ InTime

MemCommit(post) ==
  IF MemHas("pending", post.id) /\ memory["pending"][post.id].digest = post.digest
  THEN Outcome("COMMITTED", [MemSet("posts", post.id, post) EXCEPT
                               !["pending"] = Drop(@, {post.id})])
  ELSE Outcome("DUPLICATE", MemDrop("pending", post.id))

SqlCommit(post) ==
  LET rows == SqlById("pending", post.id)
      released == SqlDelete("pending", rows)
  IN IF \/ \A r \in rows : r.digest # post.digest
        \/ Collides(sql["posts"], "posts", post)
     THEN Outcome("DUPLICATE", released)
     ELSE Outcome("COMMITTED", [released EXCEPT !["posts"] = @ \cup {post}])

\* The request that reserved a post commits it, perhaps after another pruned it.
CommitPublication(post) ==
  /\ SqlById("posts", post.id) = {}
  /\ \A r \in SqlById("pending", post.id) : SameMedia(r, post)
  /\ Call(MemCommit(post), SqlCommit(post))
  /\ InTime

\* Variant: the purchases of the post stay.
MemDeletePostOnly(id) ==
  IF ~ MemHas("posts", id) THEN Outcome(Absent, memory)
  ELSE Outcome(memory["posts"][id], MemDrop("posts", id))

MemDeletePost(id) ==
  IF ~ MemHas("posts", id) THEN Outcome(Absent, memory)
  ELSE Outcome(memory["posts"][id],
         [MemDrop("posts", id) EXCEPT
            !["purchases"] = Drop(@, {k \in DOMAIN @ : @[k].post = id})])

SqlDeletePost(id) ==
  LET rows == SqlById("posts", id)
  IN IF rows = {} THEN Outcome(Absent, sql)
     ELSE Outcome(TheRow(rows),
            [SqlDelete("posts", rows) EXCEPT !["purchases"] = {r \in @ : r.post # id}])

DeletePost(id) == Call(MemDeletePost(id), SqlDeletePost(id)) /\ InTime

ProfileSaved(address, name, public) ==
  LET row == [address |-> address, name |-> name, public |-> public] IN
  /\ Call(Outcome("done", MemSet("profiles", address, row)),
          Outcome("done", [sql EXCEPT !["profiles"] =
                             {r \in @ : r.address # address} \cup {row}]))
  /\ InTime

-----------------------------------------------------------------------------
(* What callers read *)

MemOpenOffer(creator) ==
  LET row == memory["covenants"][creator]
  IN IF MemHas("covenants", creator) THEN IF row.status = "CANCELED" THEN Absent ELSE row
     ELSE Absent

SqlOpenOffer(creator) ==
  TheRow({r \in sql["covenants"] : r.creator = creator /\ r.status # "CANCELED"})

(* Creators who have a post, by name or in the public list *)

MemCreators ==
  {memory["profiles"][a] : a \in {a \in DOMAIN memory["profiles"] :
     \E k \in DOMAIN memory["posts"] : memory["posts"][k].creator = a}}

SqlCreators ==
  {r \in sql["profiles"] : \E p \in sql["posts"] : p.creator = r.address}

MemMatches(q) == {r \in MemCreators : <<q, r.name>> \in Includes}
SqlMatches(q) == {r \in SqlCreators : <<q, r.name>> \in Like}

MemPublic == {r \in MemCreators : r.public}
SqlPublic == {r \in SqlCreators : r.public}

LabelOf(row) == IF row.name = Absent THEN row.address ELSE row.name

Entered(rows) == {e \in rows \X rows : <<e[1].address, e[2].address>> \in entered}

\* By label, and rows of one label in the order of `ties'.
ByLabel(rows, place, ties) ==
  {e \in rows \X rows :
     LET x == place[LabelOf(e[1])]  y == place[LabelOf(e[2])]
     IN x < y \/ (x = y /\ <<e[1].address, e[2].address>> \in ties)}

\* The first rows of an order, each with the number of those before it.
Listed(rows, order, limit) ==
  LET Before(a) == Cardinality({b \in rows \ {a} : <<b, a>> \in order})
  IN {<<Before(a), a>> : a \in {a \in rows : Before(a) < limit}}

MemSearch(q) == Listed(MemMatches(q), Entered(MemMatches(q)), SearchLimit)
SqlSearch(q) == Listed(SqlMatches(q), ByLabel(SqlMatches(q), Binary, Scan), SearchLimit)

MemPublicList == Listed(MemPublic, ByLabel(MemPublic, Collation, entered), ListLimit)
SqlPublicList == Listed(SqlPublic, ByLabel(SqlPublic, Binary, Scan), ListLimit)

-----------------------------------------------------------------------------
(* The calls *)

LoginCalls ==
  \/ \E t \in {"challenges", "sessions"}, id \in Id : SaveRow(t, id)
  \/ \E id \in Id : ChallengeConsumed(id) \/ SessionRolled(id) \/ DropRow("sessions", id)
  \/ PruneChallenges
  \/ PruneRows("sessions")

WorkflowCalls(kind) ==
  \/ \E id \in Id : SaveRow(Prepared(kind), id) \/ DropRow(Prepared(kind), id)
  \/ PruneRows(Prepared(kind))
  \/ \E id \in Id, state \in {"SUBMITTED", "CONFIRMED"} : SaveWorkflow(kind, id, state)
  \/ \E id \in Id, state \in {"CONFIRMED", "REJECTED"} : ClaimTerminal(kind, id, state)
  \/ \E id \in Id : DeleteWorkflow(kind, id)
  \/ kind = "payment"
     /\ \E id, post \in Id, buyer \in Person : FinalizePurchase(id, post, buyer)
  \/ kind = "membership"
     /\ \E id \in Id, buyer, creator \in Person :
          FinalizeMembershipPurchase(id, buyer, creator)

OfferCalls ==
  \E creator \in Person, id, covenant \in Id, price \in Amount :
    \/ SaveRow("preparedMemberships", id)
    \/ FinalizeOffer(id, creator, price)
    \/ FinalizePriceUpdate(id, creator, covenant, price)
    \/ FinalizeCancellation(id, creator, covenant)

PostCalls ==
  \/ \E id \in Id, creator \in Person, digest \in Digest :
       \/ ReservePublication(Post(id, creator, digest))
       \/ CommitPublication(Post(id, creator, digest))
  \/ \E id \in Id : DropRow("pending", id) \/ DeletePost(id)
  \/ PruneRows("pending")
  \/ \E id, post \in Id, buyer \in Person : FinalizePurchase(id, post, buyer)

CreatorCalls ==
  \/ \E id \in Id, creator \in Person, digest \in Digest :
       \/ ReservePublication(Post(id, creator, digest))
       \/ CommitPublication(Post(id, creator, digest))
  \/ \E id \in Id : DeletePost(id)
  \/ \E address \in Person, name \in Name \cup {Absent}, public \in BOOLEAN :
       ProfileSaved(address, name, public)

\* Once a row was written after its end the stores may differ: a run stops there.
StoresNext ==
  /\ late = {}
  /\ \/ Tick
     \/ area = "logins" /\ LoginCalls
     \/ area = "offers" /\ OfferCalls
     \/ area = "posts" /\ PostCalls
     \/ area = "creators" /\ CreatorCalls
     \/ area \in Kind /\ WorkflowCalls(area)

StoresSpec == StoresInit /\ [][StoresNext]_storesVars

-----------------------------------------------------------------------------
(* Properties *)

\* MemoryStore and LibsqlStore hold the same rows after the same calls, as the
\* tests that run on the one and speak of the other take for granted, until a call
\* comes late: a workflow saved again after a pass finalized it, or an offer
\* repriced or offered again after its cancellation.
SameRows ==
  late = {} => \A t \in Table : {memory[t][k] : k \in DOMAIN memory[t]} = sql[t]

Who(list) == {entry[2] : entry \in list}

\* LIKE and includes agree about a query on the names of the creators there are.
SameMatches(q) ==
  \A r \in SqlCreators : <<q, r.name>> \in Includes <=> <<q, r.name>> \in Like

\* The two collations agree about the labels of the public creators, no two the same.
SameOrder ==
  \A a, b \in SqlPublic : a # b =>
    LET x == LabelOf(a)  y == LabelOf(b)
    IN x # y /\ (Binary[x] < Binary[y] <=> Collation[x] < Collation[y])

\* Every call is answered alike by both stores, and so is every question: rows that
\* have expired, pending workflows, open offers; a search that matches alike and the
\* public list, in some order while they are within their limits, and the public list
\* in its order, cut at its limit too, where the collations agree.
SameAnswers ==
  late = {} =>
    /\ alike
    /\ \A t \in Expiring \ {"challenges"}, id \in Id : MemRead(t, id) = SqlRead(t, id)
    /\ \A k \in Kind : MemPending(Workflows(k)) = SqlPending(Workflows(k))
    /\ \A p \in Person : MemOpenOffer(p) = SqlOpenOffer(p)
    /\ \A q \in Query :
         SameMatches(q) /\ Cardinality(SqlMatches(q)) <= SearchLimit
           => Who(MemSearch(q)) = Who(SqlSearch(q))
    /\ Cardinality(SqlPublic) <= ListLimit => Who(MemPublicList) = Who(SqlPublicList)
    /\ SameOrder => MemPublicList = SqlPublicList

\* The contract of store-contract.test.ts without any exception.
OneContract ==
  /\ alike
  /\ \A t \in Table : {memory[t][k] : k \in DOMAIN memory[t]} = sql[t]
  /\ \A q \in Query : MemSearch(q) = SqlSearch(q)
  /\ MemPublicList = SqlPublicList

=============================================================================
