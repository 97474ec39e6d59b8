------------------------------ MODULE Sessions ------------------------------
(***************************************************************************)
(* Sign-in with a wallet, rolling sessions, log out, and the profile that  *)
(* a signed-in wallet edits.                                               *)
(*                                                                         *)
(* A request creates the id of its challenge or of its session, so issuing *)
(* requests and sign-ins are named by them.  A visit is any other request  *)
(* that carries a session cookie: the middleware `optional' rolls the      *)
(* session, then the handler answers, logs out or saves the profile.       *)
(***************************************************************************)
EXTENDS Integers, FiniteSets

CONSTANTS
  Wallet,        \* addresses
  Challenge,     \* ids of challenges
  Session,       \* ids of sessions
  Visit,         \* requests with a session cookie
  Nobody,        \* absence of a wallet, challenge or session
  ChallengeTtl,  \* challengeTtlMs
  IdleTtl,       \* sessionIdleTtlMs
  MaxInstant     \* bound: the last instant of a run

ASSUME NobodyIsNobody == Nobody \notin Wallet \cup Challenge \cup Session
ASSUME SessionTimes ==
  ChallengeTtl \in Nat \ {0} /\ IdleTtl \in Nat \ {0} /\ MaxInstant \in Nat

VARIABLES
  instant,     \* Date.now()
  challenges,  \* table auth_challenges
  sessions,    \* table sessions: expires_at, 0 for no row
  profiles,    \* table profiles
  signIn,      \* the state of each sign-in
  visit,       \* the state of each visit
  lastUse,     \* history: when each session was last opened or rolled
  loggedOut,   \* history: sessions that were logged out
  chosen,      \* history: what the wallet's last saved updates asked for
  clashed      \* history: wallets with two updates at once

authTables == <<challenges, sessions, profiles>>
sessionHistory == <<lastUse, loggedOut, chosen, clashed>>
sessionVars == <<instant, authTables, signIn, visit, sessionHistory>>

-----------------------------------------------------------------------------
\* A display name as it is sent, and what normalizeDisplayName makes of it: a long
\* one has more than 40 characters.
NameInput == {"blank", "spaced", "long", "absent"}

Normalized(name) == IF name = "spaced" THEN "short" ELSE name

InvalidName(name) == name = "long"

\* An absent row, and what the handler takes for the fields of one.
NoProfile == [name |-> "blank", isPublic |-> "yes"]

Profile == [name : {"blank", "short"}, isPublic : {"yes", "no"}]

ChallengeRow ==
  [pc : {"new", "issue", "live", "consumed", "gone"}, wallet : Wallet \cup {Nobody},
   expiresAt : Nat]

SignInState ==
  [pc : {"new", "prune", "consume", "create", "created", "refused"},
   challenge : Challenge \cup {Nobody}, wallet : Wallet \cup {Nobody},
   signer : Wallet \cup {Nobody}]

NewVisit ==
  [pc |-> "new", kind |-> "page", session |-> Nobody, deadline |-> 0,
   name |-> "absent", isPublic |-> "absent", read |-> NoProfile, late |-> FALSE]

SessionsInit ==
  /\ instant = 0
  /\ challenges = [c \in Challenge |->
                     [pc |-> "new", wallet |-> Nobody, expiresAt |-> 0]]
  /\ sessions = [s \in Session |-> 0]
  /\ profiles = [w \in Wallet |-> NoProfile]
  /\ signIn = [s \in Session |-> [pc |-> "new", challenge |-> Nobody,
                                  wallet |-> Nobody, signer |-> Nobody]]
  /\ visit = [v \in Visit |-> NewVisit]
  /\ lastUse = [s \in Session |-> 0]
  /\ loggedOut = {}
  /\ chosen = profiles
  /\ clashed = {}

-----------------------------------------------------------------------------
(* POST /api/auth/challenge *)

\* A wallet asks for a challenge; pruneChallenges removes what is consumed or expired.
AskChallenge(c, w) ==
  /\ challenges[c].pc = "new"
  /\ challenges' = [d \in Challenge |->
       IF d = c THEN [pc |-> "issue", wallet |-> w, expiresAt |-> 0]
       ELSE IF \/ challenges[d].pc = "consumed"
               \/ challenges[d].pc = "live" /\ challenges[d].expiresAt <= instant
              THEN [challenges[d] EXCEPT !.pc = "gone"]
              ELSE challenges[d]]
  /\ UNCHANGED <<instant, sessions, profiles, signIn, visit, sessionHistory>>

\* createChallenge
IssueChallenge(c) ==
  /\ challenges[c].pc = "issue"
  /\ challenges' = [challenges EXCEPT ![c].pc = "live",
                                      ![c].expiresAt = instant + ChallengeTtl]
  /\ UNCHANGED <<instant, sessions, profiles, signIn, visit, sessionHistory>>

-----------------------------------------------------------------------------
(* POST /api/auth/session *)

SignInTo(s, pc) == signIn' = [signIn EXCEPT ![s].pc = pc]

Refuse(s) ==
  signIn' = [signIn EXCEPT ![s] = [pc |-> "refused", challenge |-> Nobody,
                                   wallet |-> Nobody, signer |-> Nobody]]

\* Anybody presents a challenge, an address and what some wallet signed.
StartSignIn(s, c, w, signer) ==
  /\ signIn[s].pc = "new"
  /\ challenges[c].pc \notin {"new", "issue"}
  /\ signIn' = [signIn EXCEPT ![s] = [pc |-> "prune", challenge |-> c,
                                      wallet |-> w, signer |-> signer]]
  /\ UNCHANGED <<instant, authTables, visit, sessionHistory>>

\* pruneSessions
PruneSessions(s) ==
  /\ signIn[s].pc = "prune"
  /\ sessions' = [t \in Session |-> IF sessions[t] <= instant THEN 0 ELSE sessions[t]]
  /\ SignInTo(s, "consume")
  /\ UNCHANGED <<instant, challenges, profiles, visit, sessionHistory>>

\* Variant: the UPDATE does not ask for consumed_at IS NULL.
ConsumableAgain(c) ==
  challenges[c].pc \in {"live", "consumed"} /\ instant < challenges[c].expiresAt

\* The WHERE of consumeChallenge.
Consumable(c) == challenges[c].pc = "live" /\ instant < challenges[c].expiresAt

\* KaspaWalletVerifier.verify of the message, which names the challenge's wallet.
Verified(s) ==
  /\ signIn[s].wallet = challenges[signIn[s].challenge].wallet
  /\ signIn[s].signer = signIn[s].wallet

\* The challenge is consumed by one UPDATE, whether or not the signature is good.
ConsumeChallenge(s) ==
  LET c == signIn[s].challenge IN
  /\ signIn[s].pc = "consume"
  /\ IF Consumable(c)
       THEN /\ challenges' = [challenges EXCEPT ![c].pc = "consumed"]
            /\ IF Verified(s) THEN SignInTo(s, "create") ELSE Refuse(s)
       ELSE Refuse(s) /\ UNCHANGED challenges
  /\ UNCHANGED <<instant, sessions, profiles, visit, sessionHistory>>

\* createSession
CreateSession(s) ==
  /\ signIn[s].pc = "create"
  /\ sessions' = [sessions EXCEPT ![s] = instant + IdleTtl]
  /\ lastUse' = [lastUse EXCEPT ![s] = instant]
  /\ SignInTo(s, "created")
  /\ UNCHANGED <<instant, challenges, profiles, visit, loggedOut, chosen, clashed>>

-----------------------------------------------------------------------------
(* The middleware optional *)

VisitTo(v, pc) == visit' = [visit EXCEPT ![v].pc = pc]

LiveSession(s) == instant < sessions[s]

\* A request arrives with the cookie of a session; a profile update names a field.
Arrive(v, s, kind, name, isPublic) ==
  /\ visit[v].pc = "new"
  /\ signIn[s].pc = "created"
  /\ kind # "profile" => name = "absent" /\ isPublic = "absent"
  /\ kind = "profile" => name # "absent" \/ isPublic # "absent"
  /\ visit' = [visit EXCEPT ![v] =
       [NewVisit EXCEPT !.pc = "lookup", !.session = s, !.kind = kind,
          !.name = name, !.isPublic = isPublic,
          !.late = s \in loggedOut \/ lastUse[s] + IdleTtl <= instant]]
  /\ UNCHANGED <<instant, authTables, signIn, sessionHistory>>

\* A request without a live session is refused and leaves nothing, but POST /api/auth/logout deletes
\* the row of its cookie all the same.
Unauthenticated(v) ==
  IF visit[v].kind = "logout" THEN VisitTo(v, "handle")
                              ELSE visit' = [visit EXCEPT ![v] = NewVisit]

\* The first getSession.
LookupSession(v) ==
  /\ visit[v].pc = "lookup"
  /\ IF LiveSession(visit[v].session) THEN VisitTo(v, "refresh")
                                      ELSE Unauthenticated(v)
  /\ UNCHANGED <<instant, authTables, signIn, sessionHistory>>

\* refreshSession: the new expiry is computed, the row is read once more.
RefreshSession(v) ==
  LET s == visit[v].session IN
  /\ visit[v].pc = "refresh"
  /\ IF LiveSession(s)
       THEN /\ visit' = [visit EXCEPT ![v].pc = "roll",
                                      ![v].deadline = instant + IdleTtl]
            /\ lastUse' = [lastUse EXCEPT ![s] = instant]
       ELSE Unauthenticated(v) /\ UNCHANGED lastUse
  /\ UNCHANGED <<instant, authTables, signIn, loggedOut, chosen, clashed>>

\* Variant: rollSession is an upsert.
RolledAnyhow(s, deadline) == [sessions EXCEPT ![s] = deadline]

\* rollSession: an UPDATE, which brings back no row.
Rolled(s, deadline) == [sessions EXCEPT ![s] = IF @ = 0 THEN 0 ELSE deadline]

RollSession(v) ==
  /\ visit[v].pc = "roll"
  /\ sessions' = Rolled(visit[v].session, visit[v].deadline)
  /\ visit' = [visit EXCEPT ![v].pc = "handle", ![v].deadline = 0]
  /\ UNCHANGED <<instant, challenges, profiles, signIn, sessionHistory>>

-----------------------------------------------------------------------------
(* The handlers *)

WalletOf(s) == signIn[s].wallet

\* The answer is sent; all that is left of the request is whether it came late.
Serve(v) ==
  visit' = [visit EXCEPT ![v] =
              [NewVisit EXCEPT !.pc = "served", !.late = visit[v].late]]

ServePage(v) ==
  /\ visit[v].pc = "handle" /\ visit[v].kind = "page"
  /\ Serve(v)
  /\ UNCHANGED <<instant, authTables, signIn, sessionHistory>>

\* POST /api/auth/logout
Logout(v) ==
  LET s == visit[v].session IN
  /\ visit[v].pc = "handle" /\ visit[v].kind = "logout"
  /\ sessions' = [sessions EXCEPT ![s] = 0]
  /\ loggedOut' = loggedOut \cup {s}
  /\ visit' = [visit EXCEPT ![v] = NewVisit]
  /\ UNCHANGED <<instant, challenges, profiles, signIn, lastUse, chosen, clashed>>

\* PUT /api/profile reads the row, and refuses a name that is too long.
ReadProfile(v) ==
  LET w == WalletOf(visit[v].session) IN
  /\ visit[v].pc = "handle" /\ visit[v].kind = "profile"
  /\ IF InvalidName(Normalized(visit[v].name))
       THEN Serve(v) /\ UNCHANGED clashed
       ELSE /\ visit' = [visit EXCEPT ![v].pc = "save", ![v].read = profiles[w]]
            /\ clashed' = IF \E u \in Visit \ {v} :
                               /\ visit[u].pc = "save"
                               /\ WalletOf(visit[u].session) = w
                            THEN clashed \cup {w} ELSE clashed
  /\ UNCHANGED <<instant, authTables, signIn, lastUse, loggedOut, chosen>>

\* What a wallet asks for on top of a profile.
Updated(profile, v) ==
  [name |-> IF visit[v].name = "absent" THEN profile.name
            ELSE Normalized(visit[v].name),
   isPublic |-> IF visit[v].isPublic = "absent" THEN profile.isPublic
                ELSE visit[v].isPublic]

\* Variant: a field that is not sent gets its default.
SavedWithDefaults(v) == Updated(NoProfile, v)

\* saveProfile writes the whole row, from what was read before.
Saved(v) == Updated(visit[v].read, v)

SaveProfile(v) ==
  LET w == WalletOf(visit[v].session) IN
  /\ visit[v].pc = "save"
  /\ profiles' = [profiles EXCEPT ![w] = Saved(v)]
  /\ chosen' = [chosen EXCEPT ![w] = Updated(@, v)]
  /\ Serve(v)
  /\ UNCHANGED <<instant, challenges, sessions, signIn, lastUse, loggedOut, clashed>>

InstantPasses ==
  /\ instant < MaxInstant
  /\ instant' = instant + 1
  /\ UNCHANGED <<authTables, signIn, visit, sessionHistory>>

-----------------------------------------------------------------------------
SignInStep(s) ==
  \/ \E c \in Challenge, w, signer \in Wallet : StartSignIn(s, c, w, signer)
  \/ PruneSessions(s) \/ ConsumeChallenge(s) \/ CreateSession(s)

VisitStep(v) ==
  \/ \E s \in Session, kind \in {"page", "logout", "profile"}, name \in NameInput,
        isPublic \in {"yes", "no", "absent"} : Arrive(v, s, kind, name, isPublic)
  \/ LookupSession(v) \/ RefreshSession(v) \/ RollSession(v)
  \/ ServePage(v) \/ Logout(v) \/ ReadProfile(v) \/ SaveProfile(v)

SessionsNext ==
  \/ \E c \in Challenge : IssueChallenge(c) \/ \E w \in Wallet : AskChallenge(c, w)
  \/ \E s \in Session : SignInStep(s)
  \/ \E v \in Visit : VisitStep(v)
  \/ InstantPasses

SessionsSpec == SessionsInit /\ [][SessionsNext]_sessionVars

-----------------------------------------------------------------------------
\* A session belongs to the wallet that a challenge was issued to and that signed it,
\* and no challenge opens two, although it is presented twice at once, late, or with
\* another wallet's signature.
SessionsEarned ==
  \A s \in Session : signIn[s].pc \in {"create", "created"} =>
    /\ signIn[s].signer = signIn[s].wallet
    /\ challenges[signIn[s].challenge].wallet = signIn[s].wallet
    /\ \A t \in Session \ {s} :
         signIn[t].pc \in {"create", "created"} =>
           signIn[t].challenge # signIn[s].challenge

\* A request that arrives after its session was logged out, or when the session was
\* not used for idleTtl, is not served, although requests that arrived before roll
\* the session meanwhile.
NoLateService ==
  \A v \in Visit : visit[v].pc \in {"save", "served"} => ~visit[v].late

\* A profile has what its wallet's updates last asked for, field by field, unless two
\* of them were under way at once.
ProfileKeepsFields ==
  \A w \in Wallet \ clashed : profiles[w] = chosen[w]

=============================================================================
