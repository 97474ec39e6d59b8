# Verification of onlykas (Kaskama)

TLA+ modules, TLC configurations and TLAPS proofs kept beside the program under
`src/`. onlykas is a pay-per-view site: creators publish media, buyers pay for a
post with a Kaspa transaction, and members hold a covenant on the chain. A Node
server (`src/backend`) keeps its tables in libsql, its media in an S3-compatible
bucket (R2), and talks to a Kaspa node and an indexer; a React client
(`src/frontend`) drives it and a wallet extension.

## 1. The system

All paths below are relative to `src/backend/src/` unless they say otherwise.

| Component | State | Operations | Hard behaviours | What makes it correct |
|---|---|---|---|---|
| **Payment workflow**: `app.ts` (prepare, finalize), `application/reconcile-workflows.ts`, `payment-gateway.ts`, `libsql-store.ts` | tables `prepared_payments`, `payment_workflows`, `purchases`; the node's mempool and the chain | prepare, finalize, reconciler pass (start and every 60 s, per replica), expiry | every await is a window for another request or replica; a crash between claim and receipt; a lost relay answer; rows that expire before acceptance | a receipt only for an accepted payment, one receipt per buyer and post, answers that stay true, every workflow ends |
| **Publication and deletion**: `application/publication-use-cases.ts`, `application/delete-post.ts`, `libsql-store.ts`, `r2-storage.ts` | tables `posts`, `pending_publications`; the bucket, keyed by creator and digest | publish, delete, prune | requests of one media share one object; reservations expire under slow uploads; two-query look-and-reserve; partial failures of storage | one post per media, exclusive uploads, a published post has its object, a deleted one leaves nothing |
| **Media previews**: `adapters/media/media-preview.ts` | table of generations in flight, preview objects | ensure | concurrent readers of one key, failures, deletion in the middle | one generation per key, none that blocks later ones |
| **Membership covenant and workflow**: `membership-gateway.ts`, `membership-contract.ts`, `contracts/membership.sil`, `app.ts`, `reconcile-workflows.ts` | tables `prepared_memberships`, `membership_workflows`, `creator_covenants`, `creator_covenant_history`, `membership_purchases`; the covenant's outputs on the chain | offer, price update, purchase, cancellation, reconciliation | a chain of covenant states that concurrent buyers race to spend; retries of a pending finalize | the recorded offer matches the live covenant state, an accepted step is recorded, a stale step is refused |
| **Membership verification**: `verifier.ts`, `application/membership-access.ts` | none (reads the chain, the covenants and the receipts) | check receipts, search the wallet, grant access | one check is many requests, while memberships are minted, recorded and expire, and index outputs are spent | access exactly for holders of a live membership that the server can know of |
| **Authentication**: `application/auth-use-cases.ts`, `app.ts`, `libsql-store.ts` | challenges, sessions, profiles | challenge, authenticate, roll, log out, update the profile | a challenge presented twice at once; a session that rolls while it is revoked; a profile read and written back by two requests | a challenge opens one session, for the wallet that signed; no service after a logout or a lapse; an update keeps what it does not mention |
| **Feedback outbox**: `adapters/feedback/feedback.ts`, `libsql-store.ts`, `server.ts` | outbox rows with leases | submit, claim, deliver, acknowledge, release, drain | leases that end under a delivery, lost answers, releases that throw, restarts | every message is delivered at least once, and twice only for a reason |
| **Rate limiter**: `adapters/http/rate-limit.ts` | windows per client | check, sweep | full table, window boundary | at most `limit` per window for a client that is not evicted |
| **Platform fee, coins, verification by content**: `payment-fee.ts`, `payment-gateway.ts`, `ppv-payload.ts` | none | fee, choice of coins, outputs, comparison of a transaction | rounding, threshold, dust; the verifier has only the content of a transaction to go by | amounts add up; what was relayed is recognised; who can pay is not refused |
| **Media route, publish upload**: `app.ts` (`parseRange`), `r2-storage.ts`, `adapters/http/publish-upload.ts`, `src/frontend/src/upload.ts` | one stream, one file on disk | range, stream; multipart callbacks | callbacks in any order, aborts, an object deleted on the way | the bytes of the range, announced truly; what is published is whole, and the page is answered |
| **Memory store and libsql store**: `memory-store.ts`, `libsql-store.ts`, `adapters/persistence/migrations.ts` | the same rows as maps, and as tables under constraints | every call of the store | the application is tested on one and runs on the other | both hold and answer the same |
| **Frontend pages and wallet**: `src/frontend/src/{PostPage,CreatorPage,App}.tsx`, `kasware.ts`, `purchase.ts` | page state, session of the tab, wallet network | load, act, purchase, sign in and out, switch network | stale answers after navigation, prompts that time out, accounts that change meanwhile | a page shows its own post or creator; a tab follows its wallet; nothing is signed on the wrong network |
| Configuration, logging, metrics, public pages, presentation, contract tests | - | - | - | not modelled, see section 7 |

How they interact: the handlers and the reconciler share the payment tables and
nothing else, and both act on the chain through the gateway; `DELETE
/api/posts/:id` removes receipts that a finalize may be writing; publication,
deletion and previews share the bucket; the rate limiter and the sessions guard
every handler without sharing their state.

The hazards of each part, at the line where they bite, are listed in
`PROJECT.json` with the properties that would catch them. Five have none because the
code does not keep what one would say ("Known disagreements" in section 4), and where a
property exempts what the code does, the note of the hazard says so.

## 2. Plan

In order of importance; each module is written with CONSTANTS and named
assumptions and without RECURSIVE operators, so that it can be proved about.

1. `PaymentPromise`, `PaymentWorkflow` and their proofs. **Done.**
2. `Publication` (with previews and deletion) and its proofs. **Done.**
3. `MembershipOffer`, `Membership` and its proofs. **Done.**
4. `MemberAccess`: the membership check against a chain that moves. **Done**;
   the encoding of scripts and payloads is left out.
5. `FeedbackOutbox` and its proofs. **Done.**
6. `Sessions` and its proofs. **Done.**
7. `RateLimiter`: windows and eviction, and its proofs. **Done.**
8. `PaymentFee`, `PaymentContent`, `MediaRange` and their proofs. **Done.**
9. `NetworkSwitch`, `CreatorView`, `PostView`, `TabSession` and their proofs. **Done.**
10. `PublishUpload`, `Stores`, `MemberAccess` and their proofs. **Done.**

What is worth adding next: the line of schema migrations, and the encoding of scripts and
payloads.

## 3. Modules and how they correspond to the code

### PaymentPromise

What pay-per-view promises, with three variables: the posts, the payments the
chain accepted, the receipts. Its four actions are a payment, a receipt
for an accepted one, and the withdrawal of a post with its receipts.

### PaymentWorkflow

A *handler* (one HTTP request) and a *pass* (one run of a replica's reconciler)
are processes with a program counter; each step is one awaited call to the store
or the network, so all interleavings the event loops and replicas allow are
explored. Tables are variables:

| Variable | Code |
|---|---|
| `prepared`, `issued` | `prepared_payments`: `expires_at` (0 for no row) and the content, which no statement ever changes |
| `workflows` | `payment_workflows`: state, `submitted_at`, whether `finalized_at` is set |
| `purchases` | `purchases`; a row is the payment it records |
| `mempool`, `accepted` | what the node admitted and what the chain accepted |
| `told` | the last final answer of the finalize handler for an id |
| `handler`, `pass` | local variables between two awaits |

Actions are named in the order of the code: `PrepareRead`, `PreparePrune`,
`PrepareSave`; `FinalizeRead`, `FinalizeWorkflow`, `Submit*`, `Status*`,
`SavePending`, `RejectWorkflow`, `RejectPrepared`, `SaveConfirmed`,
`InsertReceipt`, `CleanUp`; `ScanPending`, `ReadPrepared`, `ReconcileAccepted`,
`ReconcileUnknown`, `Claim`, `ReconcileInsert`, `ReconcileDelete`, `EndPass`.
`HandlerFails` and `PassFails` are a throw at any await, or the end of the
process. `ChainAccepts` and `ChainDrops` are the outside world.

Abstractions, all of data and none of control: a transaction is the post, the
buyer and the coin it spends (two transactions that spend one coin conflict, and
the chain accepts one); amounts, addresses, scripts and signatures are left out;
`SubmitRefused` covers every way the relay or the gateway says no. All processes
read one clock. A pass reads the clock and the list in one step.

### Publication

A publish request creates the id of its post, so requests, posts, reservations
and deletions are all indexed by it. The object key is derived from creator
and digest, so a `media` is that pair, and `objects` and `previews` are sets of
it. The steps of a request follow the awaits of the use case (`Prune`,
`Lookup`, `Reserve`, `Put`, `Commit`, `Find`), with the failure paths
(`PutFails`, `Release`, `Discard`, `CommitFails`) as in the `catch` blocks: a
failed call may have had its effect (lost answer) or not. `commitPublication`
is one write transaction and one step. Deletion is `DeleteRow`, `DeleteMedia`,
`DeletePreview`. `MediaPreview.ensure` is `PreviewMiss`, `Join`, `ReadSource`,
`StorePreview`, `GenerationFails`, with the table `inflight` lost at `Restart`.

A storage call is atomic. The read of a post that precedes its deletion, or a
look for its preview, is one step with it. The release that the store tries
after a rolled back commit and the one of the use case are one step.

### MembershipOffer

What memberships promise, with three variables: the state of each offer, the
memberships bought, the receipts. An offer is opened once, repriced while it is
open, and canceled for good; a membership is bought from an open offer at its
price of that moment; a receipt needs a purchase.

### Membership

One creator, as the tables and the chain relate nothing of two. A *step* is an
offer, a purchase, a price update or a cancellation: a transaction that spends the
minter output of the step before it (an offer: a coin of the wallet) and, but for
a cancellation, leaves a new one. That is all `membership.sil` is here:
`ContractAllows` says what the spent output must be and that only an update
changes the price.

| Variable | Code |
|---|---|
| `prepared`, `issued` | `prepared_memberships`: the rows that are alive, and their content, which no statement ever changes |
| `workflows` | `membership_workflows`: state, whether `finalized_at` is set |
| `offer`, `history` | the row of the creator in `creator_covenants`; `creator_covenant_history` by covenant |
| `receipts` | `membership_purchases` |
| `mempool`, `accepted` | steps the node admitted, steps the chain accepted |
| `handler`, `pass` | local variables between two awaits |

The prepare handlers are `PrepareRead`, `PrepareSave` and `PrepareRefused` for the
four kinds. The finalize handlers share one sequence: `FinalizeRead`, `Submit*`,
`Wait*`, `Verify` (purchases only), then `SavePending`, or `Drop` and
`DropPrepared`, or `Record`, `SaveConfirmed` (offers and purchases only) and
`CleanUp`. `Finalize` is the transaction of the store for each kind, which deletes
the prepared row whatever else it does: a row of the history that exists keeps its
status when its `INSERT` fails, and the transaction is committed with the rest. The
passes are `ScanPending`, `ReadPrepared`, `ReconcileAccepted`,
`ReconcileUnknown`, `ReconcileMissing` (a 404 of the indexer is taken for a
rejection), `Claim`, `ReconcileRecord`, `ReconcileDelete`. `Discover` is the
receipt that `MembershipAccess.isActive` writes for a membership it finds.

Abstractions: there is no clock, `Expire` may take a row at any time (a superset of
what five minutes allow, and of what prunes remove). A step is named by the id of
its prepared row, as `submit` relays no other transaction; two preparations on the
same outputs may build the very same transaction, and count as conflicting ones,
which the node refuses alike. `PrepareSave` joins the read of the chain, the prune
and the insert: the id is known to nobody in between. The answer of a relay that
is lost and an indexer that does not find the step end in the same call, and are
`WaitTimesOut`. A batch is all that is pending. Fees, scripts, signatures, the
expiry of a membership and the buyer are left out.

### MemberAccess

One buyer asks for the posts of one creator. The chain mints memberships (owner,
covenant, expiry), indexes them, and spends index outputs; the server records
covenants and receipts; the DAA score grows. `Ask`, `ReadReceipts`,
`VerifyReceipt`, `SearchesWallet`, `SearchFinds`, `SearchMisses` and `Refuses` are
the awaits of `MembershipAccess.isActive`, `Valid` is `checkMemberOutput`, `Found`
is `findMembership`. `held` remembers which memberships were good when the check
began, for the property. That a transaction with the shape of a mint is one (script,
payload, covenant, authorizing input) is assumed: the contract is `Membership`'s.

### Sessions

Issuing requests and sign-ins are named by the id of the challenge or session they
create. A *visit* is any other request with a cookie: `LookupSession`,
`RefreshSession` and `RollSession` are the middleware `optional`, which reads the
row, decides, and rolls it by an `UPDATE` that does nothing to a row that is gone;
then the handler serves, logs out, or reads and writes the profile (`ReadProfile`,
`SaveProfile`: `getProfile`, then a row made of it). A signature is who made it; a
display name is one of the forms that `normalizeDisplayName` tells apart.

### FeedbackOutbox

`lease` is the table `feedback_outbox` (what is left of `lease_until`). Each entry
is one `submit` (`Accept`, `Enqueue`, `Deliver`, `Acknowledge` and their failures);
each drain is one `drainPending` (`Claim`, `Hold`, `DrainDeliver`,
`DrainAcknowledge`, `Release`, `ReleaseFails`, `Proceed`). A call that fails may
have had its effect. `LeasesRun` is time: no bound on it ends a behaviour, so
liveness is about runs that really go on. `RestartReplicas` loses submissions and
drains, not rows.

### PublishUpload

`form` is what the closure of `readPublishMedia` has collected, `disk` the file and
its pipeline, `promise` how the promise is settled (once: later calls do nothing),
`handler` and `answer` the publish handler, `page` the page that sends the form.
The events of parser, stream, disk, client and server come in every order the
libraries allow. A file is counted in chunks, of which the limit is two. When the
client goes away in the middle of a body, nothing tells the parser, the promise is
never settled and the temporary file stays until a restart: `UploadEnds` promises an
answer to the page only while it is connected. A write that fails after the close event
is answered 400 (`WriteFails`). One that fails before it meets no handler, as the promise
of the pipeline is awaited by the listener of close only (`publish-upload.ts:87-101`), and
nothing in the repository listens to unhandled rejections: Node ends the process
(`WriteFailsUnheard`), as a stop of the server does (`ProcessEnds`).

### RateLimiter

`windows` is the `Map`; a window carries the turn at which it was inserted, the order in
which JavaScript iterates. `Check` is `check` with its `sweep`, one step as it is
synchronous: `Kept` are the windows that the sweep leaves, `Counted` the one that counts
the check. An instant is a tick (a millisecond of the code, half a second in the run), and
`RetryAfter` rounds what is left of a window up to whole seconds as `Math.ceil` does.
`checks`, `admissions` (who was admitted when, in the window begun when),
`forgotten` and `retryAt` are histories for the properties.

### PaymentFee, PaymentContent

`PlatformFee` is `platformFeeSompi`. `PaymentContent` follows one payment, whatever
its price, creator, buyer and coins: `Prepare` (coins by amount, the platform's
output if it has a share, the change if it is no dust), `WalletSigns` (anything),
`SubmitRelays` (only a transaction equal to the template), and the verification,
which retries a missing transaction and compares content only. With a share of 0 the
platform must not be paid at all, so a purchase by the platform's own wallet with
change, or of its own post, is relayed and never verified: the exception in
`RelayedVerifies`. Coins that are worth less than the fee of spending them can make
`prepare` refuse a buyer whose other coins would do: the premise of
`RefusedOnlyWhenPoor`.

### MediaRange

`ParseRange` is `parseRange` on the kinds of header its expression tells apart;
`ReadRow`, `RefuseRange`, `FetchObject`, `Chunk`, `StreamEnds`, `StreamFails` are the
media handler, while `RemoveRow` and `RemoveObject` delete the post under it.
A position that is no safe integer (`IsSafe`) is refused. It makes a difference for the last
byte of a `first-last` header only (`Overlong`): `bytes=0-9007199254740992` is answered 416,
though it names bytes of any media that has one. A first byte of that size lies beyond
every media, and a suffix of that length begins with byte 0 and is served.

### Stores

Every call goes to `memory` (maps) and to `sql` (sets of rows under the keys of
`Keys`), and the answers are compared. Operators come in pairs, `Mem...` and
`Sql...`, one for each body in `memory-store.ts` and `libsql-store.ts`; payments and
memberships have prepared rows and workflows with the same code twice, which `kind`
selects. `area` limits a behaviour to the calls that share tables. The arguments are
those that callers can pass: ids are fresh, a publication is committed by whom it was
reserved by, an id of an offer is its covenant.

Creators who have a post are searched by name and listed, with a limit, and there the
bodies are not twins. `MemSearch` takes names that have the query in them (`Includes`), in
the order in which profiles were first saved (`entered`); `SqlSearch` takes what `LIKE`
matches, with `%` and `_` as wildcards and ASCII case (`Like`), by name. `MemPublicList`
sorts by `localeCompare` (`Collation`), `SqlPublicList` by bytes (`Binary`), before both cut
the list. The constants relate names and queries in any way, as strings may.
`SameAnswers` says what is left: `SameMatches` and `SameOrder` are the premises under which
the stores answer the same creators, or the same list.

### NetworkSwitch, TabSession, CreatorView, PostView

A browser tab is single threaded; a step is one task with the continuations that run
right after it, and every `await` ends one.

* `NetworkSwitch`: `ensureWalletNetwork` and `requestNetworkSwitch` for several
  actions (`LookOpens`, `AskNetwork`, `HearNetwork`, `Refuse`, `Deadline`, `Settle`),
  the flag `switching` and its one timer `quiet`, and the listener of `App.tsx`.
* `TabSession`: the session check at load, the comparison of the wallet's account
  (`Compare` to `NetworkHeard`), sign-in, sign-out and reload.
* `CreatorView`: `LoadCreator` with its counter of requests, and the actions, each in
  the render of its click (`of`, `known`), which is what a closure keeps.
* `PostView`: loads that nothing orders, and the purchase, by a reader who is neither the
  creator nor a member. The page is not told when the session of its reader ends
  (`SessionMoves`), and `GET /api/posts/:id` then answers it as anyone (`PostServed`);
  `PageMounts` is every way to a new page. A request is numbered when it begins: by
  these numbers `newest` and `late` tell what was shown out of order, without regard to
  what the answer says.

## 4. What is model-checked

`CHECK_DEADLOCK FALSE` in every run: the clock and the ids are bounded, so the
system of a run really stops once they are used up and nobody retries.

| Run | Question and result |
|---|---|
| `payment_handlers` | Two requests, two payments of one post by one buyer, deletion, one fault: types, the answers 201 and 409 stay true, and the whole implements `PaymentPromise`. Holds. |
| `payment_race` | Two passes and a request over one workflow, expiry and a fault: a receipt or a CONFIRMED row always has an accepted payment behind it, and at most one pass finalizes a workflow at a time. The last holds for a client that finalizes a payment by one request at a time, as `src/frontend/src/purchase.ts` does. With two at once it does not, nor does a claim bind the handlers, whatever the comment of the reconciler says ("Exactly one process finalizes a workflow"): only the constraints of table `purchases` keep the receipt single, which `PromiseKept` and its proof rest on. |
| `payment_liveness` | Without faults, two payments of two coins and a batch of one: as time passes workflows end; a payment accepted in the life of its row is receipted by the passes alone before the row expires. Holds under `FairSpec`, from where the first payment has been prepared, with the one exception that the property names: an unaccepted payment of a smaller id that fills the batch for ever (`Crowded`). The exception is real, as TLC refutes the property without it: a batch full of payments the chain never takes holds back the ones after it until its rows expire, which is at most `PREPARED_TTL_MS` later, while the rows it holds back expire too. A payment accepted after its row expired is another matter (`AcceptedNotAbandoned` below). |
| `publish_requests` | Three requests of one media, expiry, deletions, two readers, one fault or restart: one post per media, exclusive uploads in the life of a reservation, one preview generation per key and no entry left behind, and no object lost to races and expiry alone. Holds. |
| `publish_lost` | A post's digest is that of media that is stored. **Violated**: the cleanup of a failed upload deletes the committed object of another request. |
| `membership_steps` | Three steps of a creator's covenants, of any kinds, at two prices, prepared on stale rows and raced to the chain, with a pass and expiry: the whole implements `MembershipOffer`; and no workflow is left behind by races alone. Holds. |
| `membership_faults` | Two requests, a pass and a failure at any await over two steps at two prices: the covenant tables name only covenants, prices and cancellations that the chain accepted. Holds. |
| `membership_stale` | "another submission against the refreshed state can succeed". **Violated**: an update or a cancellation that is not indexed in time is dropped and accepted later, and the row of the creator names a price at which no minter exists. |
| `delivery` | Feedback: two entries, two drains, a lease, one failure, restart or lost call: nothing thanked for is lost; duplicates only after a failure or a shared claim; one leaseholder; and the chat shows it in the end. Upload: whole files only, and an answer. Holds. |
| `access` | Rate limiter (three clients, a table of one), sessions (two wallets, two sign-ins, two visits, one challenge), payments (prices 1 to 9, up to three coins of five amounts), ranges (sizes 0 to 4, the safe integers end at 5, every header with positions 0 to 6): what a request is let do, and what it is served. Holds. |
| `records` | Both stores under every sequence of calls in each area, with a clock; and a membership check against two mints, two covenants and two creators. Holds, for the stores until a call comes *late*, and of searches and lists of creators as far as `SameMatches` and `SameOrder` say (below). |
| `pages` | Two actions on the network switch; a tab and two accounts; two creators; two posts. Holds, with the exceptions that the properties name. |

`delivery`, `access`, `records` and `pages` check parts that share no state. Each has
a variable that says which part moves and never changes, so TLC explores each part
alone, in one run: interleaving them would add states and no behaviour of a part.

The findings in `PROJECT.json` quote the line of the repository that each violated
property states. `MediaStored` fails with one failure; `MediaKept`, the same for
runs without failures and for media without deletions, holds, which locates the
fault in the two cleanups.

**Known disagreements.** The modules define further properties that a comment, a text
or a test of the repository states and the code does not keep. No run lists them; TLC
refutes each when it is put in a configuration in place of the ones named here.

| Definition | Says | Why not | Try it in |
|---|---|---|---|
| `PaymentWorkflow.AcceptedNotAbandoned` | the prepared record "is read without an expiry window" (`application/reconcile-workflows.ts:110-111`) | the query has `expires_at>?` (`libsql-store.ts:147`): a payment accepted after that is abandoned | `PaymentRace.cfg` |
| `PaymentWorkflow.RejectedNotCharged` | "Transaction rejected. Nothing was charged. Try again." (`adapters/http/api-copy.ts:20`) | a lost relay answer, or the second of two finalize requests, is reported so although the chain accepts the payment (`payment-gateway.ts:101`) | `PaymentHandlers.cfg` |
| `PaymentWorkflow.DrivenToTerminal`, with a fault | "every in-flight payment ... to a terminal off-chain state" (`application/reconcile-workflows.ts:45-46`) | a failure between CONFIRMED, saved or claimed, and the receipt: passes list SUBMITTED rows only (`libsql-store.ts:207`) | `PaymentLiveness.cfg` with `MaxFaults = 1` |
| `Publication.DeletedIsGone` | "Delete this post and its media? This can't be undone." (`src/frontend/src/CreatorPage.tsx:254`) | a preview generation in flight stores its result after the deletion (`adapters/media/media-preview.ts:61`) | `PublishRequests.cfg` |
| `Stores.OneContract` | both stores keep one contract (`store-contract.test.ts:14`) | late calls: a saved workflow loses `finalized` in memory only; an offer of a known covenant after a cancellation replaces the row at libsql only; a canceled offer is repriced in memory only. Creators: a search with `%` or `_`, or in letters beyond ASCII, matches differently (`memory-store.ts:171-178`, `libsql-store.ts:348-354`) and is ordered differently; a public list of names in mixed case is ordered, and beyond its limit cut, differently (`memory-store.ts:183`, `libsql-store.ts:357`) | `Records.cfg` |
| `NetworkSwitch.QuietWhileOpen` | the listener is quiet from the opening of the switcher until after it settles (`src/frontend/src/kasware.ts:80-85`) | the quiet window of an earlier action clears the flag of a later one: the timer is not cleared when a switcher opens | `Pages.cfg` |
| `TabSession.AccountFollowed` | a tab signs out when the wallet changes its account (`src/frontend/src/App.test.tsx:149`) | a change during a comparison or a sign-in is dropped (`App.tsx:110`) | `Pages.cfg` |

**Bounds, and why they are enough.** *Payments, publications, memberships*: each
hazard is a race of two processes; the runs have two of the racing kind and, for
publication, a third request, which a reservation released or expired under the second needs.
*Data*: two payments of one post are enough for a receipt to collide; payments
of different posts share nothing but the clock. One media is enough for
publication requests, reservations and generations, as nothing relates two. Three
steps are the shortest covenant in which an update or a cancellation comes between
the preparation of a purchase and its acceptance; two steps are enough for two
requests to race for the same row or the same output, which is what a failure can
disturb. *Clock*: `PREPARED_TTL_MS` is 5 min and
`STALE_WORKFLOW_MS` 24 h; the model keeps their order (1 and 5 ticks) and lets
a row be prepared, alive and expired within `MaxClock`. The stale branch of
`ReconcileUnknown` needs a row that outlives 24 h, which five minutes forbid:
the code reaches it as little as the model does. *Batch*: 100 in the code, 1 in
the models, so that two workflows exceed it; the liveness run has two coins, so that
one payment may be accepted and the other not, and two instants, so that the row that
holds a batch may expire before the row it holds back. It begins when the payment of the
smaller id is prepared (`PreparedSpec`), which saves half of the time: from where the other
one is, it holds too, and so it does from `Init`, in four minutes. *Faults*: one, at any await, as the
comments and tests of the code promise to survive one at a time. *Symmetry* is
used for requests, replicas, posts, readers, prepared steps and prices in safety
runs only; none of them is treated apart by a definition.
*Feedback*: two drains are enough to share an entry, two entries for a batch that is
cut short; faults are one, as above, and time is not bounded. *Uploads*: a limit of
two chunks has files below, at and above it; two requests are a failure and a retry.
*Rate limiter*: the table holds one window and three clients compete for it; `Limit` is
2, so that a burst over two windows exceeds one; a second has two ticks and `Window` three,
so that what is left of a window is now a whole number of seconds and now not. *Sessions*: a
challenge has one sign-in too many; the times to live are 1 and 2, and a run ends at
instant 2, so that both end within it. *Payments*: `FeeBps`/`BpsDenominator` is a quarter, so that
every residue of the rounding occurs, the least fee and the dust lie inside the range
of prices. *Stores*: two of each thing is what a constraint on a pair of columns needs
to be told from one on a column; the two names are ordered one way by `localeCompare` and
the other by bytes, one of the two queries matches one name by `includes` and both by `LIKE`,
and the limits are 2 for a search, which two creators fill, and 1 for the list, which cuts
it (20 and 100 in the code). *Membership checks*: two mints under two covenants of
one or two creators, expiring at 1 or 2. *Pages*: two routes, and one request more than
the answers that must overtake each other: on the post page, three for the opening, a
sign-in, navigation or refresh, and another that it meets (with four the run takes five
minutes and holds as well); the first route of the post page is one of the two, which
nothing tells apart; three starts for two actions, so that one begins in the quiet
window of another; three events of the wallet.

**Fairness.** `FairSpec` (`PaymentFairness`) assumes what the server's scheduling provides: a request
that was started runs on (the event loop), and the reconciler runs at start and
every 60 s (`server.ts`). Strong fairness of `ReconcileAccepted` says that an
indexer that knows an accepted transaction does not deny it at every pass.
Nothing is assumed of clients, who may never call finalize again, nor of the
chain, which may never accept. That time passes is a premise of
`DrivenToTerminal` only (`TimePasses`), as a payment that is never accepted must
expire; `PaidIsReceipted` asks for the receipt before the row expires, so it does
without.
`OutboxFairness`: submissions and drains that run go on, the interval starts drains
again, leases run out; nobody need configure the bot, which is the premise of
`ThankedIsPosted`. `UploadFairness`: callbacks run and the browser takes an answer.
`SwitchFairness`: the browser's timers fire, while neither the wallet nor the user
need ever answer; that is why the deadline matters. `TabFairness`: React runs its
effects and the wallet's queries and the server's requests are answered or fail;
prompts need not be. `ViewFairness`: requests are answered or fail (`fetch` rejects).

**Mutants.** Every property of a passing run has a variant of a modelled
definition (named next to it in the module, marked `Variant`) under which TLC finds the property
violated: a dropped constraint, a release by media instead of by id, a claim
without its condition, an off-by-one limit.

## 5. What is proved

For every number of requests, replicas, posts, media, coins and faults, every time
to live and every bound of the clock:

| Module | About | Theorems |
| --- | --- | --- |
| `PaymentWorkflow_proofs` | `PaymentWorkflow` | `TypeCorrect`; `ReceiptsBacked`, `ConfirmationsBacked`; `AnswersStayTrue`; `OnePassFinalizes`; `Refinement`, `BuyersPayOnce`, `ReceiptsStay`; `NoPaymentStuck` |
| `Publication_proofs` | `Publication` | `PublicationTypeCorrect`; `OnePost`, `ExclusiveUploads`; `OneGenerationPerKey`; `RacesLoseNoMedia` |
| `Membership_proofs` | `Membership` | `MembershipTypeCorrect`; `CovenantsBacked`; `NothingStuck`; `OneChain`; `MembershipRefines`, `OffersEndForGood`, `MembersPayTheOffer` |
| `Delivery_proofs` | `FeedbackOutbox` | `OutboxTypeCorrect`; `NothingLost`, `LeasesExclusive`; `DuplicatesHaveCause` |
| | `PublishUpload` | `WholeFilesPublished`; `UploadsAnswered` |
| `Access_proofs` | `Sessions` | `EverySessionEarned`; `NobodyServedLate`; `ProfilesKeepFields` |
| | `RateLimiter` | `BurstsBounded`; `ReturnersAdmitted` |
| `Content_proofs` | `PaymentFee`, `PaymentContent` | `FeeRoundsHalfUp`, `FeeWithinPrice`, `HigherPrice`; `RefusalJustified`; `RelayedRecognised` |
| | `MediaRange` | `ParseRangeExact`; `MediaServed` |
| `Records_proofs` | `MemberAccess` | `AccessIsRight` |
| | `Stores` | `StoresHoldTheSame`, `StoresAnswerTheSame` |
| `Pages_proofs` | `NetworkSwitch` | `ListenerKeptQuiet`, `SignaturesJustified`; `SilenceHasTimer` |
| | `CreatorView`, `PostView` | `RightCreatorShown`, `SpinnerHasRequest`; `RightPostShown` |
| | `TabSession` | `MismatchNoticed` |

Every invariant that a passing run checks is stated by a theorem; so are both
refinements (`Refinement` and `MembershipRefines`: the initial states map to initial
states, each action to a step or a stutter) and the action property `RetryHonoured`.
`SingleClaimant` has a premise, below. The invariant of each proof is named after what
it carries; the rest of this section says why it is needed.

*Payments.* `ReceiptBacked` is not inductive: a receipt is written by a process
that only remembers being about to. The invariant `IInv` therefore says that every
process past its status check, every CONFIRMED row and every pass that claimed
CONFIRMED holds an id whose payment is accepted (acceptance is stable, which is why a
stale read is harmless), that a process holds an id that was issued, and that
accepted payments spend different coins, which `Pay` of the promise needs.
For `AnswersKept` it adds that a process about to answer has its receipt in the
table, or its post is gone.

`OnePassFinalizes` has a premise, `[]OneAtATime`: no two requests hold the same payment,
which is how `purchase.ts` uses the API. Without it `SingleClaimant` is false, as section
4 says. Its invariant `ClaimInv` says that what a pass has claimed stays claimed until
the row goes for good (`ClaimsHold`: nothing will save it again, as the prepared row is
spent and no request holds the payment), that a request about to submit has no workflow
yet (`SubmitsUnknown`), and that a request at a cleanup has spent the prepared row.

`BuyersPayOnce` and `ReceiptsStay` are proved of `PaymentPromise`, a few lines long, and
hold of the handlers because their steps refine it (`StepRefines`). `NoPaymentStuck` is the
safety part of `DrivenToTerminal`: a row that is claimed or ended is listed by no pass, so
it must be in the hands of a process that will delete it (`Held`). Each step keeps the
holders of every other payment (`HoldersStay`); the steps that claim or end a row leave it
with who took them.

*Publications.* `OnePostPerMedia` is kept by the constraint of the table;
`UploadsExclusive` needs that a request at "put" holds its reservation until it expires,
that two reservations never have the same media, and that the rows of both tables belong
to requests that have a media. `now` is never in the future, so a prune by a slow request
removes only what is expired. For `GenerationsInFlight`, `GenerationsOwned` says that the
entries of the table and the calls that generate belong to each other one by one, and that
whichever way a generation ends it removes its own. For `MediaKept`, `UploadsKept` says
that while nothing failed no request is at a cleanup that deletes an object, and that the
media of every upload that is over is in the bucket, so that only the deletion of a post
of the same media, which must have been published first (`DeletedBegun`), removes one.

*Memberships.* `RegistryBacked` is about rows that are written long after the chain
was read. Its `IInv` says that every id that is prepared, known to the chain or held
by a handler was issued as a step, that a handler about to record, and a pass about to
claim CONFIRMED or to record, holds an accepted step, and that acceptance is never
taken back (`ChainGrows`); `FinalizeBacked` then shows for each of the four
transactions of the store that it keeps both tables backed, however late it runs.
`NothingStuck` says who holds a claimed or ended workflow: the pass that claimed it or the
handler that saved it CONFIRMED, until it deletes it or fails. The refinement of
`MembershipOffer`, whose offer is the state of its covenant's last step, rests on
`ChainInv`: the steps of a covenant form one chain. No two steps in the mempool or
accepted spend the same output (`NoConflict`), each was allowed by the contract at the
output it spends (`StepsAllowed`), every covenant of an accepted step was opened by an
accepted offer (`CovenantsOpened`), and exactly one of its steps is unspent (`OneLast`).
What the promise is worth follows from it: `OffersEndForGood` and `MembersPayTheOffer`
are about steps of the offer, of which a step of the system is one or none.

*Feedback.* `NeverLost` needs that a process about to acknowledge has posted
(`AcknowledgedIsPosted`) and that a submission about to deliver is in the table
(`DeliverIsStored`). `OneLeaseholder` is not inductive: the invariant `LeaseCovers` says
that while a drain's own lease runs, the row of every entry in its batch has at least as
much left, so that no other drain may claim it; a release sets the lease of a row to
its full length and so never shortens another's. `DuplicatesExplained` says when an entry is
posted twice; its invariant `OnceInv` says that otherwise one process works on an entry
at a time: a submission that still has it, or the one drain in whose batch it is, and
that it is posted at most once and not before that process posted it.

*Uploads.* `UploadInv` follows the file from the parser to the handler: the pipeline
begins with the file (`PipelineStarts`), a file that is done has every chunk that was
sent and no more will come (`FileWritten`), a promise that resolved has a whole file
within the limit (`ResolvedIsWhole`), and the handler goes on with a form it has checked
(`CheckedIsValid`). `UploadsAnswered` is the safety part of `UploadEnds`: the disk is never
ahead of the parser, and a parser that has closed has given it everything
(`WritesPossible`), so what is awaited after the close is a write that is possible.

*Sessions.* `ChallengeSpent` says that a sign-in that will create a session, or has, is
the only one of its challenge, which is consumed and stays so; `ChallengePresented` that
a row that was issued keeps its wallet. Both follow the rows through every prune.
`NoLateService` is about a visit that began after its session was over. `RowsLapse` says
that neither a row nor a roll under way outlasts the last use of its session by more than
`IdleTtl`, and that a logged-out session has no row, so that a roll that lost the race
against a logout finds nothing to update; `LateStaysLate` that a late visit does not get
past its first lookup, unless it is a logout. `ProfilesFollowed` relates the profile in
the table to the fields last chosen for its wallet, unless two updates of it overlapped.

*Rate limiter.* `RetryHonoured` is a property of steps: whoever comes back when told is
admitted. `RetryAfterWindow` says that the time a client was told is no earlier than the
end of its window, if it has one; a window that was evicted only helps it. That rests on
`RoundedUp`: the seconds of the header, in ticks, are no fewer than what is left. `BurstBounded`
counts admissions of any interval of `Window` ticks. Its invariant `BurstInv` says
that every admission falls into the window it was counted in, which begins with an admission
(`CheckInWindow`), and of a client that was not forgotten that its windows are `Window`
apart (`WindowsApart`, `LastWindow`) and admit `Limit` at most, the one in the table no more
than it counts (`CountHolds`). An interval of `Window`
ticks then meets two windows at most, and where it meets two it begins after the first
admission of the earlier: `2 * Limit - 1`.

*Network switch.* `Flags` relates the flag, its timer and the open switchers: unless
switchers overlapped, an open switcher has the flag up and no timer running, so the
listener cannot have set out. `Signing` says that a query on its way that found the
network right, and an action that signs, saw it right since the action began.
`SilenceTimed`, the safety part of `SwitchEnds`, needs no such premise: however switchers
overlap, a silent listener has a switcher with a deadline ahead, or the quiet window.

*Pages.* The creator's page shows the route because requests are numbered
(`LoadsNumbered`) and the one asked last is about the route, unless an action asked
(`LastAsksRoute`); the effect and the answers preserve the two together. The page of a
post shows what was asked for its route because every request since the route changed
is for it (`AskedInOrder`); what it or an answer shows open was bought (`OpenIsBought`);
and of a post that it has shown as bought, an answer to a later request, made since
the page was opened, is open, if the session lasted (`AnsweredOpen`). A spinner
always has the request asked last in flight (`SpinnerAwaits`), the safety part of
`CreatorLoads`: a later request takes over from it, an earlier answer leaves it alone.

*The account of the tab.* `MismatchPending`, the safety part of `MismatchSignsOut`, says
that while the tab shows another account than the wallet's, the session check or a
comparison waits for the wallet or has heard of the other account, unless a change was
missed. It needs that the account which is signing in is the wallet's until it is shown
(`EntryCurrent`).

*Membership checks.* `AccessJudged` says that whoever is let in owns a membership that
was in force when the check began, and that whoever is refused had none or lost it
meanwhile. Who is let in needs that receipts are true (`ReceiptsTrue`) and that the
covenants asked for are of the creator (`AskedRecorded`); who is refused needs that a
membership which the buyer held when the check began, and still holds, is one that the
check has yet to look at, by its receipt or in the wallet (`HeldIsAhead`): no loop of the
check may pass it by, whatever the chain, the indexer and other requests do meanwhile.

*Stores.* `StoresInv` says that, until a call comes late, each map of `MemoryStore` holds
the rows of its table under their keys (`Agree`), whichever call is next. It needs two
facts about what the calls leave behind: the row of a creator's covenant is in the
history and every creator of the history has one (`OffersKept`), else `repriceOffer` and
`finalizeOffer`, which look in one table and write two, would differ; and reserved media
are apart from each other and from the posts (`MediaApart`), else the conditional INSERT
of one store and the checks of the other would. Maps are finite, so a list that is within its
limit has every row (`ShortList`), and where the collations agree the rows before a row are
the same (`SameList`). That no call is late is the premise of
both properties, and what the difference looks like otherwise is in section 4.

*Payments by content, ranges.* The fee's theorems are integer arithmetic about `\div`.
`RefusedOnlyWhenPoor` is about sums of coins, which `SumTo` computes by a recursive
function; its lemmas are proved by induction, as a set of numbers without a least element
is empty (`LeastNat`, `InductNat`). Coins that are worth their fee never hurt
(`EveryCoinHelps`: what leaving some out saves is no more than they are worth), and all were
tried before a refusal (`PoorIsRefused`); of a payment that was prepared the outputs add up
to the coins less the fee, and less the change if that was dust (`OutputsAddUp`,
`KeptIsDust`).
`RelayedRecognised` carries the shape of the template through signing (what is relayed
equals it but for signatures). `ParseRangeExact` compares `parseRange` with the set of
bytes that a header names, header by header, but for the `Overlong` ones, which are
refused; `MediaServed` carries it through the stream.

Assumptions: the constants' types as named in the modules (`IdsArePositive`,
`OwnersBuy`, `NoTxIsNone`, `TtlIsPositive`, `BoundsAreNaturals`; `NoneIsNoMedia`,
`DeletablePosts`, `PublicationBounds`; `NamesDiffer`, `NoPriceIsNone`,
`FaultsAreNatural`; `LeaseIsPositive`, `OutboxBounds`; `UploadBounds`; `NobodyIsNobody`,
`SessionTimes`; `LimiterParameters`, `LimiterBounds`; `MemberAssumption`;
`StoresConstants`, `SearchConstants`; `SwitchTimers`; `CreatorsDiffer`, `PostsDiffer`; `PricesAreAmounts`,
`FeeConstants` and `ContentConstants`; `SizesAreSafe`, `MaxPositionIsNat`). TLC evaluates them in every run.

*Only model-checked*: the liveness properties (`PaidIsReceipted`, `DrivenToTerminal`,
`UploadEnds`, `ThankedIsPosted`, `SwitchEnds`, `MismatchSignsOut`, `CreatorLoads`) and all
violations. What a liveness property rests on is proved where it can be said of a state
(`NoPaymentStuck`, `UploadsAnswered`, `NothingLost`, `SilenceHasTimer`, `MismatchNoticed`,
`SpinnerHasRequest`): that the steps it waits for are then taken is left to TLC.

Three things stay with TLC by their nature: liveness and `ENABLED`, which the prover
does not treat; what a fold of the community modules computes for every input (the library's
theorems of induction take an operator, which the provers cannot instantiate, so
`Content_proofs` argues by sets and least elements, and its sum is a recursive function); and
RECURSIVE operators, of which there are none.

## 6. Reading and running

    tlc -config PaymentRace.cfg MCPayment.tla
    tlapm PaymentWorkflow_proofs.tla

`MCPayment`, `MCPublication` and `MCMembership` give the constants that a configuration
cannot write, and `MCDelivery`, `MCAccess`, `MCRecords` and `MCPages` join parts that
share no state. A run takes seconds to four minutes.

## 7. What is not modelled, and why

* The reconciler's `rejectPayment`: the payment gateway's `status` returns true or
  null, never false, so nothing calls it.
* A failing `transaction()` of libsql, network partitions and the AWS client's own
  retries: they look like a failed call, with or without its effect.
* Different clocks on different replicas: all read one clock.
* Media verification and image decoding: external libraries; only the digest
  matters, and for an upload that the verification may refuse.
* `FeedbackSpill`: the server passes one, but `FeedbackService` uses it only when it is
  given no store, which happens in tests.
* Text and bytes: display names beyond the forms the code tells apart, payloads and
  redeem scripts (`ppv-payload.ts`, the pushes of `membership-contract.ts`), the
  command line verifier and the public verification routes, which repeat the checks of
  the gateway on what they are given.
* The query of a deployed indexer: `VerifyMissing` ends in "no" for an accepted
  transaction that the indexer does not know after the last attempt; nobody retries.
* That a tab shows the account whose session the browser holds: a sign-in may overlap
  the session check and a logout in flight, and the tab then shows one and holds
  another until the next load. `missed` exempts it; no property promises it.
* Of the frontend: the search for creators, the editor of the profile's name, whose
  last answer wins, and everything that only draws.
* Migrations from one version of the schema to the next: each runs once, in one
  transaction, before the server listens; where they end up is in `Keys` and in the
  models of the tables.
* Configuration, logging, metrics: nothing reads them back. Public pages and
  presentation: formatting. Contract consensus tests: tests of the compiled contract in
  the node's script engine.
