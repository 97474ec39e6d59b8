------------------------------ MODULE MCAccess ------------------------------
(***************************************************************************)
(* Who is let in and what is served: the rate limiter, the sessions, the   *)
(* content of a payment and the media route.  They share no state in these *)
(* models, and a behaviour of the run is one of one part, chosen at the    *)
(* start: interleavings would add nothing that a part alone does not show. *)
(***************************************************************************)
EXTENDS RateLimiter, Sessions, PaymentContent, MediaRange, TLC

VARIABLE guard  \* the part that moves

\* The parts that do not move begin in one of their initial states only.
AccessInit ==
  /\ guard \in {"limiter", "sessions", "content", "media"}
  /\ LimiterInit
  /\ SessionsInit
  /\ ContentStarts(IF guard = "content" THEN Orders ELSE {CHOOSE o \in Orders : TRUE})
  /\ MediaStarts(IF guard = "media" THEN Requests ELSE {CHOOSE r \in Requests : TRUE})
  /\ guard # "media" => listed

AccessNext ==
  /\ UNCHANGED guard
  /\ \/ guard = "limiter" /\ LimiterNext
     \/ guard # "limiter" /\ UNCHANGED limiterVars
  /\ \/ guard = "sessions" /\ SessionsNext
     \/ guard # "sessions" /\ UNCHANGED sessionVars
  /\ \/ guard = "content" /\ ContentNext
     \/ guard # "content" /\ UNCHANGED contentVars
  /\ \/ guard = "media" /\ MediaNext
     \/ guard # "media" /\ UNCHANGED mediaVars

AccessSpec ==
  AccessInit /\ [][AccessNext]_<<guard, limiterVars, sessionVars, contentVars, mediaVars>>

Symmetric == UNION {Permutations(S) : S \in {Wallet, Session, Visit}}

=============================================================================
