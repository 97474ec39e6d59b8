----------------------------- MODULE TabSession -----------------------------
(***************************************************************************)
(* Who a tab is signed in as: App.tsx restores the session of the server   *)
(* when it loads, signs in through the wallet, and signs out when it finds *)
(* the wallet on another account.  Every step of a process but its last    *)
(* waits for an answer of the wallet or of the server, and the answers of  *)
(* different processes come in any order.                                  *)
(*                                                                         *)
(* The wallet is installed; ensureWalletNetwork is the matter of           *)
(* NetworkSwitch and here only succeeds or fails.                          *)
(***************************************************************************)
EXTENDS Integers

CONSTANTS
  Account,     \* accounts of the wallet
  NoAccount,   \* no account: signed out, no session, a wallet that withholds it
  MaxEvents    \* bound: changes of the account or the network in a run

ASSUME AccountsDiffer == NoAccount \notin Account

VARIABLES
  wallet,      \* the account the wallet is on
  cookie,      \* the account whose session the browser holds
  address,     \* the state of App that pages see
  signedIn,    \* signedInAddress.current, which follows address in an effect
  restore,     \* the session check at load, and what it has been answered
  reconcile,   \* the comparison of the wallet with the session, and its answer
  entry,       \* signIn, the account it was given and the one that signed
  leaving,     \* signOut: "no", "logout" or "reload"
  missed,      \* whether a change of account went unheard, or the wallet did not tell its
               \* account when asked, since the last comparison
  events       \* events so far

tabVars ==
  <<wallet, cookie, address, signedIn, restore, reconcile, entry, leaving, missed,
    events>>

Anyone == Account \cup {NoAccount}

Restoring == [pc |-> "session", heard |-> NoAccount]
NotReconciling == [pc |-> "idle", signed |-> NoAccount, heard |-> NoAccount]
NotEntering == [pc |-> "idle", account |-> NoAccount, signer |-> NoAccount]

TabInit ==
  /\ wallet \in Anyone
  /\ cookie \in Anyone
  /\ address = NoAccount
  /\ signedIn = NoAccount
  /\ restore = Restoring
  /\ reconcile = NotReconciling
  /\ entry = NotEntering
  /\ leaving = "no"
  /\ missed = FALSE
  /\ events = 0

\* setAddress(null), then the request that the tab waits for before it reloads.
SignOut == address' = NoAccount /\ leaving' = "logout"

EffectRuns ==
  /\ signedIn # address
  /\ signedIn' = address
  /\ UNCHANGED <<wallet, cookie, address, restore, reconcile, entry, leaving, missed,
                 events>>

-----------------------------------------------------------------------------
(* The session check at load *)

\* GET /api/auth/session as the server answers it; a failure counts as no session.
SessionAnswered ==
  /\ restore.pc = "session"
  /\ \/ restore' = [pc |-> "answered", heard |-> cookie]
     \/ restore' = [pc |-> "answered", heard |-> NoAccount]
  /\ UNCHANGED <<wallet, cookie, address, signedIn, reconcile, entry, leaving, missed,
                 events>>

SessionHeard ==
  /\ restore.pc = "answered"
  /\ IF restore.heard = NoAccount
     THEN restore' = [restore EXCEPT !.pc = "done"] /\ UNCHANGED address
     ELSE restore' = [restore EXCEPT !.pc = "accounts"] /\ address' = restore.heard
  /\ UNCHANGED <<wallet, cookie, signedIn, reconcile, entry, leaving, missed, events>>

\* The wallet must be on the account of the session, or withhold it; a query of the
\* wallet that fails counts as the latter.
SessionCompared ==
  /\ restore.pc = "accounts"
  /\ restore' = [restore EXCEPT !.pc = "done"]
  /\ \/ /\ IF wallet \notin {NoAccount, restore.heard} THEN SignOut
           ELSE UNCHANGED <<address, leaving>>
        /\ UNCHANGED missed
     \/ UNCHANGED <<address, leaving>> /\ missed' = TRUE
  /\ UNCHANGED <<wallet, cookie, signedIn, reconcile, entry, events>>

-----------------------------------------------------------------------------
(* The wallet's events *)

\* The listener: nothing while signed out, nothing while a comparison is under way.
Listens == signedIn # NoAccount /\ reconcile.pc = "idle"

\* A comparison that begins now is of the address that the pages show, and nothing else
\* is about to set that address.
ListensWell ==
  Listens /\ signedIn = address /\ restore.pc \in {"accounts", "done"} /\ entry.pc = "idle"

\* An unheard change of account that nothing later in the tab makes up for: a session
\* check that is still to compare the accounts would.
Unheard ==
  /\ ~ ListensWell
  /\ \/ entry.pc # "idle"
     \/ address # NoAccount /\ (restore.pc # "accounts" \/ restore.heard # address)

Compare ==
  reconcile' = [pc |-> "accounts", signed |-> signedIn, heard |-> NoAccount]

AccountChanges(a) ==
  /\ a # wallet
  /\ events < MaxEvents
  /\ events' = events + 1
  /\ wallet' = a
  /\ missed' = (Unheard \/ (missed /\ ~ ListensWell))
  /\ IF Listens THEN Compare ELSE UNCHANGED reconcile
  /\ UNCHANGED <<cookie, address, signedIn, restore, entry, leaving>>

NetworkChanges ==
  /\ events < MaxEvents
  /\ events' = events + 1
  /\ missed' = (missed /\ ~ ListensWell)
  /\ IF Listens THEN Compare ELSE UNCHANGED reconcile
  /\ UNCHANGED <<wallet, cookie, address, signedIn, restore, entry, leaving>>

AccountsAnswered ==
  /\ reconcile.pc = "accounts"
  /\ \/ /\ reconcile' = [reconcile EXCEPT !.pc = "heard", !.heard = wallet]
        /\ UNCHANGED missed
     \/ /\ reconcile' = [reconcile EXCEPT !.pc = "heard"]
        /\ missed' = TRUE
  /\ UNCHANGED <<wallet, cookie, address, signedIn, restore, entry, leaving, events>>

\* Variant: another account is treated like another network, of which the user is told.
MovedNever == FALSE

\* The wallet is on another account than the session was when the comparison began.
Moved == reconcile.heard \notin {NoAccount, reconcile.signed}

AccountsHeard ==
  /\ reconcile.pc = "heard"
  /\ LET other == Moved IN
     /\ reconcile' = CASE other -> [reconcile EXCEPT !.pc = "out"]
                       [] reconcile.heard = NoAccount -> NotReconciling
                       [] OTHER -> [reconcile EXCEPT !.pc = "network"]
     /\ IF other THEN SignOut ELSE UNCHANGED <<address, leaving>>
  /\ UNCHANGED <<wallet, cookie, signedIn, restore, entry, missed, events>>

\* The network is compared last, and the comparison ends.
NetworkHeard ==
  /\ reconcile.pc = "network"
  /\ reconcile' = NotReconciling
  /\ UNCHANGED <<wallet, cookie, address, signedIn, restore, entry, leaving, missed,
                 events>>

-----------------------------------------------------------------------------
(* Signing in and out *)

EntryEnds ==
  /\ entry' = NotEntering
  /\ UNCHANGED <<wallet, cookie, address, signedIn, restore, reconcile, leaving, missed,
                 events>>

\* A page or the header asks for it while nobody is signed in.
SignIn ==
  /\ address = NoAccount
  /\ entry.pc = "idle"
  /\ entry' = [NotEntering EXCEPT !.pc = "accounts"]
  /\ UNCHANGED <<wallet, cookie, address, signedIn, restore, reconcile, leaving, missed,
                 events>>

\* The network is right and the wallet gives its account, or asks the user for one.
AccountGiven ==
  /\ entry.pc = "accounts"
  /\ wallet # NoAccount
  /\ entry' = [entry EXCEPT !.pc = "sign", !.account = wallet]
  /\ UNCHANGED <<wallet, cookie, address, signedIn, restore, reconcile, leaving, missed,
                 events>>

\* The wallet signs the challenge with the account it is then on.
ChallengeSigned ==
  /\ entry.pc = "sign"
  /\ wallet # NoAccount
  /\ entry' = [entry EXCEPT !.pc = "post", !.signer = wallet]
  /\ UNCHANGED <<wallet, cookie, address, signedIn, restore, reconcile, leaving, missed,
                 events>>

\* The server opens a session if the signature is that of the account.
SessionOpened ==
  /\ entry.pc = "post"
  /\ entry.signer = entry.account
  /\ entry' = [entry EXCEPT !.pc = "opened"]
  /\ cookie' = entry.account
  /\ UNCHANGED <<wallet, address, signedIn, restore, reconcile, leaving, missed, events>>

Entered ==
  /\ entry.pc = "opened"
  /\ address' = entry.account
  /\ entry' = NotEntering
  /\ missed' = (missed \/ restore.pc # "done" \/ reconcile.pc # "idle")
  /\ UNCHANGED <<wallet, cookie, signedIn, restore, reconcile, leaving, events>>

\* The network, the account, the signature or the server is refused.
SignInFails == entry.pc \notin {"idle", "opened"} /\ EntryEnds

UserSignsOut ==
  /\ address # NoAccount
  /\ leaving = "no"
  /\ SignOut
  /\ UNCHANGED <<wallet, cookie, signedIn, restore, reconcile, entry, missed, events>>

\* The request is done or has failed; the tab reloads either way.
LoggedOut ==
  /\ leaving = "logout"
  /\ cookie' \in {NoAccount, cookie}
  /\ leaving' = "reload"
  /\ UNCHANGED <<wallet, address, signedIn, restore, reconcile, entry, missed, events>>

Reload ==
  /\ leaving = "reload"
  /\ leaving' = "no"
  /\ address' = NoAccount
  /\ signedIn' = NoAccount
  /\ restore' = Restoring
  /\ reconcile' = NotReconciling
  /\ entry' = NotEntering
  /\ missed' = FALSE
  /\ UNCHANGED <<wallet, cookie, events>>

\* The session ends at the server; the next request of a page is answered 401, and
\* the tab that shows an address reloads.
SessionExpires ==
  /\ cookie # NoAccount
  /\ cookie' = NoAccount
  /\ UNCHANGED <<wallet, address, signedIn, restore, reconcile, entry, leaving, missed,
                 events>>

Unauthorized ==
  /\ cookie = NoAccount
  /\ signedIn # NoAccount
  /\ leaving' = "reload"
  /\ UNCHANGED <<wallet, cookie, address, signedIn, restore, reconcile, entry, missed,
                 events>>

TabSteps ==
  \/ EffectRuns \/ SessionAnswered \/ SessionHeard \/ SessionCompared
  \/ AccountsAnswered \/ AccountsHeard \/ NetworkHeard \/ LoggedOut \/ Reload

TabNext ==
  \/ TabSteps
  \/ \E a \in Anyone : AccountChanges(a)
  \/ NetworkChanges
  \/ SignIn \/ AccountGiven \/ ChallengeSigned \/ SessionOpened \/ Entered \/ SignInFails
  \/ UserSignsOut \/ SessionExpires \/ Unauthorized

\* React runs its effects, and the wallet's queries, the session check and the logout
\* are answered or fail; the user and the wallet's prompts need not answer.
TabFairness ==
  /\ WF_tabVars(EffectRuns)
  /\ WF_tabVars(SessionAnswered) /\ WF_tabVars(SessionHeard) /\ WF_tabVars(SessionCompared)
  /\ WF_tabVars(AccountsAnswered) /\ WF_tabVars(AccountsHeard) /\ WF_tabVars(NetworkHeard)
  /\ WF_tabVars(LoggedOut) /\ WF_tabVars(Reload)

TabSpec == TabInit /\ [][TabNext]_tabVars /\ TabFairness

-----------------------------------------------------------------------------
(* Properties *)

Mismatch == address # NoAccount /\ wallet \notin {NoAccount, address}

\* A tab whose wallet has moved to another account signs out, as App.test.tsx has it,
\* unless the change was made while a comparison was under way or a sign-in had not yet
\* ended, or the wallet failed to tell its account: it then stays until the next event.
MismatchSignsOut == Mismatch /\ ~ missed ~> ~ Mismatch \/ missed

\* The same without the exception.
AccountFollowed == Mismatch ~> ~ Mismatch

=============================================================================
