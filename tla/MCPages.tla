------------------------------ MODULE MCPages ------------------------------
(***************************************************************************)
(* The tab: the wallet's network, the account it is signed in as, and the  *)
(* two pages that hold what the server answered.  They share no state that *)
(* a property is about, and a behaviour of the run is one of one of them,  *)
(* chosen at the start.                                                    *)
(***************************************************************************)
EXTENDS NetworkSwitch, TabSession, CreatorView, PostView

VARIABLE screen  \* the part that moves

\* The parts that do not move are at rest: nothing in them is fair to happen.  The first
\* route of the post page is any post, as nothing tells two of them apart.
TabAtRest ==
  /\ wallet = NoAccount /\ cookie = NoAccount
  /\ address = NoAccount /\ signedIn = NoAccount
  /\ restore = [Restoring EXCEPT !.pc = "done"]
  /\ reconcile = NotReconciling
  /\ entry = NotEntering
  /\ leaving = "no" /\ missed = FALSE
  /\ events = 0

ViewAtRest ==
  LET c == CHOOSE c \in Creator : TRUE IN
  /\ viewer = TRUE /\ loading = FALSE /\ carried = FALSE
  /\ route = c /\ creator = c
  /\ requestId = 1
  /\ loads = {} /\ acts = {}
  /\ actsBegun = 0

PagesInit ==
  /\ screen \in {"switch", "session", "creator", "post"}
  /\ SwitchInit /\ (screen # "switch" => expected)
  /\ IF screen = "session" THEN TabInit ELSE TabAtRest
  /\ IF screen = "creator" THEN ViewInit ELSE ViewAtRest
  /\ PostInit /\ postRoute = CHOOSE p \in Post : TRUE
  /\ screen # "post" => reader /\ session

PagesNext ==
  /\ UNCHANGED screen
  /\ \/ /\ screen = "switch"
        /\ SwitchNext
        /\ UNCHANGED <<tabVars, viewVars, postVars>>
     \/ /\ screen = "session"
        /\ TabNext
        /\ UNCHANGED <<switchVars, viewVars, postVars>>
     \/ /\ screen = "creator"
        /\ ViewNext
        /\ UNCHANGED <<switchVars, tabVars, postVars>>
     \/ /\ screen = "post"
        /\ PostNext
        /\ UNCHANGED <<switchVars, tabVars, viewVars>>

PagesSpec ==
  /\ PagesInit
  /\ [][PagesNext]_<<screen, switchVars, tabVars, viewVars, postVars>>
  /\ SwitchFairness /\ TabFairness /\ ViewFairness

=============================================================================
