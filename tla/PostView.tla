------------------------------ MODULE PostView ------------------------------
(***************************************************************************)
(* What PostPage shows.  It loads the post when the route or the viewer    *)
(* changes and whenever the window is focused, and buys it; no answer is   *)
(* compared with what was asked since, and the page is not told when the   *)
(* session of its viewer ends.                                             *)
(*                                                                         *)
(* Of a post, which has a price, the page holds its identity and whether   *)
(* it is unlocked.  The viewer has one account.                            *)
(***************************************************************************)
EXTENDS Integers, FiniteSets

CONSTANTS
  Post,          \* posts whose page may be opened
  NoPost,        \* nothing shown; a request that failed
  Unanswered,    \* a request that has not been answered
  MaxPostLoads   \* bound: requests begun

ASSUME PostsDiffer == NoPost \notin Post /\ Unanswered \notin Post \cup {NoPost}

VARIABLES
  reader,        \* whether the page has been given an address: signed in
  session,       \* whether the server has a session for the cookie of the browser
  bought,        \* posts the server has unlocked for the viewer
  postRoute,     \* the post of the route
  post,          \* the state `post`
  postLoading,   \* the state `loading`
  postLoads,     \* requests in flight
  unlocking,     \* the purchase under way, if any
  loadsBegun,    \* requests so far, by which they are numbered
  openedAt,      \* the request of the last effect, for this route and viewer
  movedAt,       \* the request of the last effect that changed the route
  newest,        \* requests up to this one were begun before what the page has shown
  late,          \* whether what is shown came out of order
  shownOpen,     \* posts whose purchase the page has shown
  lapsed         \* whether the viewer had no session at some time since the last effect

asked == <<loadsBegun, openedAt, movedAt>>
shown == <<post, newest, late, shownOpen>>
postVars == <<reader, session, bought, postRoute, postLoading, postLoads, unlocking, lapsed,
              asked, shown>>

AskedOf(n, p) == [n |-> n, of |-> p, reply |-> Unanswered]

\* What is shown was asked since the page was opened, and not before anything it showed.
Settled == ~ late /\ newest >= openedAt

PostInit ==
  /\ reader \in BOOLEAN
  /\ session \in BOOLEAN
  /\ bought = {}
  /\ postRoute \in Post
  /\ post = NoPost
  /\ postLoading = TRUE
  /\ loadsBegun = 1
  /\ postLoads = {AskedOf(1, postRoute)}
  /\ unlocking = {}
  /\ openedAt = 1
  /\ movedAt = 1
  /\ newest = 0
  /\ late = FALSE
  /\ shownOpen = {}
  /\ lapsed = ~ session

\* The effect clears the page and loads the post; nothing in flight is cancelled.
ShowPost(p) ==
  /\ loadsBegun < MaxPostLoads
  /\ loadsBegun' = loadsBegun + 1
  /\ openedAt' = loadsBegun'
  /\ post' = NoPost
  /\ postLoading' = TRUE
  /\ postLoads' = postLoads \cup {AskedOf(loadsBegun', p)}
  /\ lapsed' = ~ session'
  /\ UNCHANGED <<bought, newest, late, shownOpen>>

OpenPost(p) ==
  /\ p # postRoute
  /\ postRoute' = p
  /\ UNCHANGED <<reader, session, unlocking>>
  /\ ShowPost(p)
  /\ movedAt' = loadsBegun'

\* By the session check at load, from the header, or by unlock, which goes on.
ReaderSignsIn ==
  /\ ~ reader
  /\ reader' = TRUE
  /\ session' = TRUE
  /\ ShowPost(postRoute)
  /\ unlocking' = {[u EXCEPT !.buyer = TRUE] : u \in unlocking}
  /\ UNCHANGED <<postRoute, movedAt>>

\* The logout and the reload follow.
ReaderSignsOut ==
  /\ reader
  /\ reader' = FALSE
  /\ UNCHANGED <<session, unlocking, postRoute, movedAt>>
  /\ ShowPost(postRoute)

\* The session lapses, or is ended or begun by another tab, or ended by the logout.
SessionMoves ==
  /\ session' = ~ session
  /\ lapsed' = TRUE
  /\ UNCHANGED <<reader, bought, postRoute, postLoading, postLoads, unlocking, asked, shown>>

\* The page is left and opened again, or the tab reloaded: after a logout, by the user,
\* or because the server answered a purchase 401. Answers to the old page are dropped.
PageMounts(p) ==
  /\ loadsBegun < MaxPostLoads
  /\ reader' \in {reader, FALSE}
  /\ postRoute' = p
  /\ post' = NoPost
  /\ postLoading' = TRUE
  /\ loadsBegun' = loadsBegun + 1
  /\ postLoads' = {AskedOf(loadsBegun', p)}
  /\ unlocking' = {}
  /\ openedAt' = loadsBegun'
  /\ movedAt' = loadsBegun'
  /\ late' = FALSE
  /\ shownOpen' = {}
  /\ lapsed' = ~ session
  /\ UNCHANGED <<session, bought, newest>>

\* Variant: the listener keeps the loadPost of the post that was shown.
LoadsShown == IF post = NoPost THEN postRoute ELSE post.id

\* The post that loadPost asks for: a new one is made for every id.
Loads == postRoute

\* The window is focused or shown again.
Refresh ==
  /\ loadsBegun < MaxPostLoads
  /\ loadsBegun' = loadsBegun + 1
  /\ postLoads' = postLoads \cup {AskedOf(loadsBegun', Loads)}
  /\ UNCHANGED <<reader, session, bought, postRoute, postLoading, unlocking, lapsed,
                 openedAt, movedAt, shown>>

\* GET /api/posts/:id serves whoever has no session, too.
PostServed(l) ==
  /\ l.reply = Unanswered
  /\ \E reply \in {[id |-> l.of, open |-> session /\ l.of \in bought], NoPost} :
       postLoads' = (postLoads \ {l}) \cup {[l EXCEPT !.reply = reply]}
  /\ UNCHANGED <<reader, session, bought, postRoute, postLoading, unlocking, lapsed,
                 asked, shown>>

\* Every answer is shown.
PostLoaded(l) ==
  /\ l.reply # Unanswered
  /\ postLoads' = postLoads \ {l}
  /\ post' = l.reply
  /\ postLoading' = FALSE
  /\ late' = (l.n <= newest)
  /\ newest' = IF late' THEN newest ELSE l.n
  /\ UNCHANGED <<reader, session, bought, postRoute, unlocking, lapsed, asked, shownOpen>>

Unlock ==
  /\ ~ postLoading /\ post # NoPost
  /\ ~ post.open
  /\ unlocking = {}
  /\ unlocking' = {[n |-> loadsBegun, of |-> post.id, buyer |-> reader, sure |-> Settled,
                    reply |-> Unanswered]}
  /\ UNCHANGED <<reader, session, bought, postRoute, postLoading, postLoads, lapsed,
                 asked, shown>>

\* The server confirms the purchase of the buyer.
Bought(u) ==
  /\ u.buyer /\ u.reply = Unanswered
  /\ session
  /\ bought' = bought \cup {u.of}
  /\ unlocking' = {[u EXCEPT !.reply = u.of]}
  /\ UNCHANGED <<reader, session, postRoute, postLoading, postLoads, lapsed, asked, shown>>

\* Variant: the post is unlocked when it is next loaded.
OpenedLater(u) == [id |-> u.of, open |-> FALSE]

\* setPost({...currentPost, canView: true}).
Opened(u) == [id |-> u.of, open |-> TRUE]

\* It comes out of order if the reader has moved on since the click, or if the page was
\* not settled at the click.
Unlocked(u) ==
  /\ u.reply # Unanswered
  /\ unlocking' = {}
  /\ post' = Opened(u)
  /\ newest' = loadsBegun
  /\ late' = ~ (u.sure /\ u.n >= movedAt)
  /\ shownOpen' = shownOpen \cup {u.of}
  /\ UNCHANGED <<reader, session, bought, postRoute, postLoading, postLoads, lapsed, asked>>

\* The purchase is pending, refused or has failed, or its answer is lost.
UnlockEnds(u) ==
  /\ unlocking' = {}
  /\ UNCHANGED <<reader, session, bought, postRoute, postLoading, postLoads, lapsed,
                 asked, shown>>

PostNext ==
  \/ \E p \in Post : OpenPost(p) \/ PageMounts(p)
  \/ ReaderSignsIn \/ ReaderSignsOut \/ SessionMoves
  \/ Refresh
  \/ \E l \in postLoads : PostServed(l) \/ PostLoaded(l)
  \/ Unlock
  \/ \E u \in unlocking : Bought(u) \/ Unlocked(u) \/ UnlockEnds(u)

PostSpec == PostInit /\ [][PostNext]_postVars

-----------------------------------------------------------------------------
(* Properties *)

\* Once an answer that was asked for since the page was opened is shown, the page shows
\* the post of its route or none; what it shows as unlocked was bought; and what it has
\* shown as bought it shows as unlocked, through every refresh, navigation and sign-in,
\* while the viewer has a session. Nothing orders the answers of this page: one that was
\* asked for before something shown earlier, or a purchase from before the route changed,
\* voids this until the next answer.
PostShown ==
  Settled /\ post # NoPost =>
    /\ post.id = postRoute
    /\ post.open => post.id \in bought
    /\ post.id \in shownOpen /\ ~ lapsed => post.open

=============================================================================
