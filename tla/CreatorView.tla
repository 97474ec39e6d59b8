---------------------------- MODULE CreatorView ----------------------------
(***************************************************************************)
(* What CreatorPage shows when its requests, and the actions of the user,  *)
(* end in another order than they began: the component stays mounted while *)
(* the route changes, and a handler keeps the route and the state of the   *)
(* render it was created in.                                               *)
(*                                                                         *)
(* Of a creator the page holds the address: the rest of an answer moves    *)
(* with it, and an edit of the posts leaves it alone.  The effects of a    *)
(* render run with the change that caused them.                            *)
(***************************************************************************)
EXTENDS Integers, FiniteSets

CONSTANTS
  Creator,      \* creators whose page may be opened
  NoCreator,    \* nothing shown; a request that failed
  NoReply,      \* a request that has not been answered
  MaxLoads,     \* bound: requests begun
  MaxActs       \* bound: actions begun

ASSUME CreatorsDiffer == NoCreator \notin Creator /\ NoReply \notin Creator \cup {NoCreator}

VARIABLES
  viewer,       \* whether the page has been given an address: signed in
  route,        \* the creator of the route
  creator,      \* the state `creator`
  loading,      \* the state `loading`
  requestId,    \* requestId.current
  loads,        \* requests in flight
  acts,         \* actions under way, each in the render of its click
  carried,      \* whether an action of a route the page had left has written since
  actsBegun     \* actions so far

viewVars == <<viewer, route, creator, loading, requestId, loads, acts, carried, actsBegun>>

\* loadCreator in a render that shows `known` under the route `of`; `kept` if an
\* action called it, in the render of its click.
LoadCreator(of, known, kept) ==
  LET fresh == known # of IN
  /\ requestId < MaxLoads
  /\ requestId' = requestId + 1
  /\ loads' = loads \cup {[n |-> requestId', of |-> of, kept |-> kept, reply |-> NoReply]}
  /\ loading' = (loading \/ fresh)
  /\ creator' = IF fresh THEN NoCreator ELSE creator

\* The effect of a render: a new route, or an address.
Follow(c) == LoadCreator(c, creator, FALSE) /\ carried' = FALSE

ViewInit ==
  /\ viewer \in BOOLEAN
  /\ route \in Creator
  /\ creator = NoCreator
  /\ loading = TRUE
  /\ requestId = 1
  /\ loads = {[n |-> 1, of |-> route, kept |-> FALSE, reply |-> NoReply]}
  /\ acts = {}
  /\ carried = FALSE
  /\ actsBegun = 0

OpenCreator(c) ==
  /\ c # route
  /\ route' = c
  /\ Follow(c)
  /\ UNCHANGED <<viewer, acts, actsBegun>>

\* From the header, or by an action that needs it.
ViewerSignsIn ==
  /\ ~ viewer
  /\ viewer' = TRUE
  /\ Follow(route)
  /\ UNCHANGED <<route, acts, actsBegun>>

Served(l) ==
  /\ l.reply = NoReply
  /\ \E reply \in {l.of, NoCreator} :
       loads' = (loads \ {l}) \cup {[l EXCEPT !.reply = reply]}
  /\ UNCHANGED <<viewer, route, creator, loading, requestId, acts, carried, actsBegun>>

\* An answer counts only if nothing was asked since.
\* Variant: every answer counts.
CountsAlways(l) == TRUE

\* Variant: a failure returns before the spinner is taken away.
CountsIfFound(l) == l.n = requestId /\ l.reply # NoCreator

Counts(l) == l.n = requestId

Loaded(l) ==
  /\ l.reply # NoReply
  /\ loads' = loads \ {l}
  /\ IF Counts(l)
     THEN /\ loading' = FALSE
          /\ creator' = IF l.reply # NoCreator THEN l.reply ELSE creator
          /\ carried' = (carried \/ (l.kept /\ l.of # route))
     ELSE UNCHANGED <<loading, creator, carried>>
  /\ UNCHANGED <<viewer, route, requestId, acts, actsBegun>>

\* membershipAction, updateMembershipPrice, cancelMembership, buyPost and deletePost
\* are "act", and some of them may be under way together; toggleVisibility is
\* "visibility", and its button is then disabled.
Click(kind) ==
  /\ ~ loading /\ creator # NoCreator
  /\ kind = "visibility" => \A a \in acts : a.kind # kind
  /\ actsBegun < MaxActs
  /\ acts' = acts \cup {[kind |-> kind, n |-> actsBegun, of |-> route, known |-> creator]}
  /\ actsBegun' = actsBegun + 1
  /\ UNCHANGED <<viewer, route, creator, loading, requestId, loads, carried>>

\* The action fails or is refused, a payment is pending, a post is bought or deleted.
ActEnds(a) ==
  /\ acts' = acts \ {a}
  /\ UNCHANGED <<viewer, route, creator, loading, requestId, loads, carried, actsBegun>>

\* A membership action is confirmed, or the server asks for a refresh.
ActReloads(a) ==
  /\ a.kind = "act" /\ viewer
  /\ acts' = acts \ {a}
  /\ LoadCreator(a.of, a.known, TRUE)
  /\ UNCHANGED <<viewer, route, carried, actsBegun>>

\* setCreator({...currentCreator, isPublic: next}).
VisibilitySaved(a) ==
  /\ a.kind = "visibility" /\ viewer
  /\ acts' = acts \ {a}
  /\ creator' = a.known
  /\ carried' = (carried \/ a.known # route)
  /\ UNCHANGED <<viewer, route, loading, requestId, loads, actsBegun>>

ViewAnswered == \E l \in loads : Served(l) \/ Loaded(l)

ViewNext ==
  \/ ViewAnswered
  \/ \E c \in Creator : OpenCreator(c)
  \/ ViewerSignsIn
  \/ \E kind \in {"act", "visibility"} : Click(kind)
  \/ \E a \in acts : ActEnds(a) \/ ActReloads(a) \/ VisibilitySaved(a)

\* Every request is answered or fails, and its answer is handled.
ViewFairness == WF_viewVars(ViewAnswered)

ViewSpec == ViewInit /\ [][ViewNext]_viewVars /\ ViewFairness

-----------------------------------------------------------------------------
(* Properties *)

\* A creator page shows the creator of its route or none, whatever order the answers of
\* its loads came in, unless an action begun on another creator's page ended after the
\* route had changed.
CreatorShown == ~ carried => creator \in {route, NoCreator}

\* A creator page does not show its spinner forever.
CreatorLoads == loading ~> ~ loading

=============================================================================
