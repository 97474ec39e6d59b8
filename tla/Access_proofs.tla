---------------------------- MODULE Access_proofs ----------------------------
(***************************************************************************)
(* Proofs about Sessions, for all wallets, challenges, sessions, visits    *)
(* and times to live, and about RateLimiter, for all clients and limits.   *)
(***************************************************************************)
EXTENDS Sessions, RateLimiter, FiniteSetTheorems, TLAPS

\* Challenges and sign-ins hold what the code puts into them.
SignInsTyped ==
  /\ challenges \in [Challenge -> ChallengeRow]
  /\ signIn \in [Session -> SignInState]
  /\ instant \in Nat

\* A sign-in under way holds a challenge that was issued, to whomever.
ChallengePresented ==
  \A s \in Session : signIn[s].pc \notin {"new", "refused"} =>
    /\ signIn[s].challenge \in Challenge
    /\ challenges[signIn[s].challenge].pc \notin {"new", "issue"}

\* The challenge of a sign-in that has succeeded is used up for good: a row that is
\* pruned is gone, and no other step makes a challenge live again.
ChallengeSpent ==
  \A s \in Session : signIn[s].pc \in {"create", "created"} =>
    challenges[signIn[s].challenge].pc \in {"consumed", "gone"}

\* The inductive invariant.
IInv == SignInsTyped /\ ChallengePresented /\ ChallengeSpent /\ SessionsEarned

LEMMA InitIInv == SessionsInit => IInv
  BY DEF SessionsInit, IInv, SignInsTyped, ChallengeRow, SignInState, ChallengePresented,
         ChallengeSpent, SessionsEarned

-----------------------------------------------------------------------------
(* Challenges *)

\* What an issue does to the challenges: no wallet is changed but that of a new row,
\* and no row that is used up comes back.
ChallengesAdvance ==
  /\ challenges' \in [Challenge -> ChallengeRow]
  /\ \A c \in Challenge :
       /\ challenges[c].pc \notin {"new", "issue"} =>
            /\ challenges'[c].wallet = challenges[c].wallet
            /\ challenges'[c].pc \notin {"new", "issue"}
       /\ challenges[c].pc \in {"consumed", "gone"} =>
            challenges'[c].pc \in {"consumed", "gone"}

LEMMA AskAdvances ==
  ASSUME IInv, NEW c \in Challenge, NEW w \in Wallet, AskChallenge(c, w)
  PROVE  ChallengesAdvance /\ UNCHANGED <<signIn, instant>>
<1> DEFINE Row(d) ==
      IF d = c THEN [pc |-> "issue", wallet |-> w, expiresAt |-> 0]
      ELSE IF \/ challenges[d].pc = "consumed"
              \/ challenges[d].pc = "live" /\ challenges[d].expiresAt <= instant
             THEN [challenges[d] EXCEPT !.pc = "gone"]
             ELSE challenges[d]
<1>1. challenges' = [d \in Challenge |-> Row(d)] /\ challenges[c].pc = "new"
  BY DEF AskChallenge
<1>2. ASSUME NEW d \in Challenge
      PROVE  /\ Row(d) \in ChallengeRow
             /\ d # c => Row(d).wallet = challenges[d].wallet
             /\ d # c => Row(d).pc \in {challenges[d].pc, "gone"}
  <2>1. challenges[d] \in ChallengeRow
    BY DEF IInv, SignInsTyped
  <2> QED
    BY <2>1 DEF ChallengeRow
<1> HIDE DEF Row
<1>3. challenges' \in [Challenge -> ChallengeRow]
  BY <1>1, <1>2
<1>4. \A d \in Challenge : challenges'[d] = Row(d)
  BY <1>1
<1> QED
  BY <1>1, <1>2, <1>3, <1>4 DEF ChallengesAdvance, AskChallenge

LEMMA IssueAdvances ==
  ASSUME IInv, NEW c \in Challenge, IssueChallenge(c)
  PROVE  ChallengesAdvance /\ UNCHANGED <<signIn, instant>>
<1>1. challenges \in [Challenge -> ChallengeRow] /\ instant + ChallengeTtl \in Nat
  BY SessionTimes DEF IInv, SignInsTyped
<1> QED
  BY <1>1 DEF ChallengesAdvance, IssueChallenge, ChallengeRow

\* An issue keeps the invariant.
LEMMA AdvanceKeeps ==
  ASSUME IInv, ChallengesAdvance, UNCHANGED <<signIn, instant>>
  PROVE  IInv'
<1>1. SignInsTyped'
  BY DEF IInv, SignInsTyped, ChallengesAdvance
<1>2. ChallengePresented'
  BY DEF IInv, ChallengePresented, ChallengesAdvance
<1>3. ChallengeSpent'
  BY DEF IInv, ChallengePresented, ChallengeSpent, ChallengesAdvance
<1>4. SessionsEarned'
  BY DEF IInv, ChallengePresented, SessionsEarned, ChallengesAdvance
<1> QED
  BY <1>1, <1>2, <1>3, <1>4 DEF IInv

-----------------------------------------------------------------------------
(* Sign-ins *)

\* A sign-in that starts presents a challenge that was issued.
LEMMA StartKeeps ==
  ASSUME IInv, NEW s \in Session, NEW c \in Challenge, NEW w \in Wallet,
         NEW signer \in Wallet, StartSignIn(s, c, w, signer)
  PROVE  IInv'
<1> DEFINE state == [pc |-> "prune", challenge |-> c, wallet |-> w, signer |-> signer]
<1>1. /\ signIn' = [signIn EXCEPT ![s] = state]
      /\ UNCHANGED <<instant, challenges>>
      /\ challenges[c].pc \notin {"new", "issue"}
  BY DEF StartSignIn, authTables
<1>2. state \in SignInState /\ state.pc = "prune" /\ state.challenge = c
  BY DEF SignInState
<1> HIDE DEF state
<1>3. /\ signIn' \in [Session -> SignInState] /\ signIn'[s] = state
      /\ \A t \in Session \ {s} : signIn'[t] = signIn[t]
  BY <1>1, <1>2 DEF IInv, SignInsTyped
<1>4. SignInsTyped'
  BY <1>1, <1>3 DEF IInv, SignInsTyped
<1>5. ChallengePresented' /\ ChallengeSpent'
  BY <1>1, <1>2, <1>3 DEF IInv, ChallengePresented, ChallengeSpent
<1>6. SessionsEarned'
  BY <1>1, <1>2, <1>3 DEF IInv, SessionsEarned
<1> QED
  BY <1>4, <1>5, <1>6 DEF IInv

\* A refused one is none any more.
LEMMA RefuseKeeps ==
  ASSUME IInv, NEW s \in Session, Refuse(s), UNCHANGED instant,
         ChallengesAdvance
  PROVE  IInv'
<1> DEFINE state == [pc |-> "refused", challenge |-> Nobody, wallet |-> Nobody,
                     signer |-> Nobody]
<1>1. signIn' = [signIn EXCEPT ![s] = state]
  BY DEF Refuse
<1>2. state \in SignInState /\ state.pc = "refused"
  BY DEF SignInState
<1> HIDE DEF state
<1>3. /\ signIn' \in [Session -> SignInState] /\ signIn'[s] = state
      /\ \A t \in Session \ {s} : signIn'[t] = signIn[t]
  BY <1>1, <1>2 DEF IInv, SignInsTyped
<1>4. SignInsTyped'
  BY <1>3 DEF IInv, SignInsTyped, ChallengesAdvance
<1>5. ChallengePresented'
  BY <1>2, <1>3 DEF IInv, ChallengePresented, ChallengesAdvance
<1>6. ChallengeSpent'
  BY <1>2, <1>3 DEF IInv, ChallengePresented, ChallengeSpent, ChallengesAdvance
<1>7. SessionsEarned'
  BY <1>2, <1>3 DEF IInv, ChallengePresented, SessionsEarned, ChallengesAdvance
<1> QED
  BY <1>4, <1>5, <1>6, <1>7 DEF IInv

\* One that succeeds uses up a live challenge, which is nobody else's success.
LEMMA SucceedKeeps ==
  ASSUME IInv, NEW s \in Session, signIn[s].pc = "consume",
         Consumable(signIn[s].challenge), Verified(s),
         challenges' = [challenges EXCEPT ![signIn[s].challenge].pc = "consumed"],
         SignInTo(s, "create"), UNCHANGED instant
  PROVE  IInv'
<1> DEFINE c == signIn[s].challenge
<1>1. c \in Challenge /\ challenges[c].pc = "live"
  BY DEF IInv, ChallengePresented, Consumable
<1>2. /\ signIn' \in [Session -> SignInState]
      /\ signIn'[s].pc = "create" /\ signIn'[s].challenge = c
      /\ signIn'[s].wallet = signIn[s].wallet /\ signIn'[s].signer = signIn[s].signer
      /\ \A t \in Session \ {s} : signIn'[t] = signIn[t]
  BY DEF IInv, SignInsTyped, SignInTo, SignInState
<1>3. /\ challenges' \in [Challenge -> ChallengeRow]
      /\ challenges'[c].pc = "consumed"
      /\ \A d \in Challenge : challenges'[d].wallet = challenges[d].wallet
      /\ \A d \in Challenge \ {c} : challenges'[d] = challenges[d]
  BY <1>1 DEF IInv, SignInsTyped, ChallengeRow
<1>4. \A t \in Session \ {s} : signIn[t].pc \in {"create", "created"} =>
        signIn[t].challenge \in Challenge \ {c}
  BY <1>1 DEF IInv, ChallengePresented, ChallengeSpent
<1> HIDE DEF c
<1>5. SignInsTyped'
  BY <1>2, <1>3 DEF IInv, SignInsTyped
<1>6. ChallengePresented'
  BY <1>1, <1>2, <1>3 DEF IInv, ChallengePresented
<1>7. ChallengeSpent'
  BY <1>2, <1>3, <1>4 DEF IInv, ChallengeSpent
<1>8. SessionsEarned'
  <2>1. /\ signIn[s].wallet = challenges[c].wallet
        /\ signIn[s].signer = signIn[s].wallet
    BY DEF Verified, c
  <2> QED
    BY <1>1, <1>2, <1>3, <1>4, <2>1 DEF IInv, SessionsEarned
<1> QED
  BY <1>5, <1>6, <1>7, <1>8 DEF IInv

LEMMA ConsumeKeeps ==
  ASSUME IInv, NEW s \in Session, ConsumeChallenge(s)
  PROVE  IInv'
<1> DEFINE c == signIn[s].challenge
<1>1. signIn[s].pc = "consume" /\ UNCHANGED instant /\ c \in Challenge
  BY DEF ConsumeChallenge, IInv, ChallengePresented
<1>2. CASE Consumable(c) /\ Verified(s)
  BY <1>1, <1>2, SucceedKeeps DEF ConsumeChallenge
<1>3. CASE Consumable(c) /\ ~ Verified(s)
  <2>1. challenges' = [challenges EXCEPT ![c].pc = "consumed"] /\ Refuse(s)
    BY <1>3 DEF ConsumeChallenge
  <2>2. challenges \in [Challenge -> ChallengeRow] /\ challenges[c].pc = "live"
    BY <1>3 DEF IInv, SignInsTyped, Consumable
  <2>3. ChallengesAdvance
    BY <1>1, <2>1, <2>2 DEF ChallengesAdvance, ChallengeRow
  <2> QED
    BY <1>1, <2>1, <2>3, RefuseKeeps
<1>4. CASE ~ Consumable(c)
  <2>1. UNCHANGED challenges /\ Refuse(s)
    BY <1>4 DEF ConsumeChallenge
  <2>2. ChallengesAdvance
    BY <2>1 DEF ChallengesAdvance, IInv, SignInsTyped
  <2> QED
    BY <1>1, <2>1, <2>2, RefuseKeeps
<1> QED
  BY <1>2, <1>3, <1>4

\* A sign-in that goes on keeps what it holds.
LEMMA GoOnKeeps ==
  ASSUME IInv, NEW s \in Session, UNCHANGED <<challenges, instant>>,
         \/ signIn[s].pc = "prune" /\ SignInTo(s, "consume")
         \/ signIn[s].pc = "create" /\ SignInTo(s, "created")
  PROVE  IInv'
<1>1. /\ signIn' \in [Session -> SignInState]
      /\ signIn'[s].challenge = signIn[s].challenge
      /\ signIn'[s].wallet = signIn[s].wallet /\ signIn'[s].signer = signIn[s].signer
      /\ signIn'[s].pc \in {"create", "created"} <=> signIn[s].pc \in {"create", "created"}
      /\ signIn[s].pc \notin {"new", "refused"}
      /\ \A t \in Session \ {s} : signIn'[t] = signIn[t]
  BY DEF IInv, SignInsTyped, SignInTo, SignInState
<1>2. SignInsTyped'
  BY <1>1 DEF IInv, SignInsTyped
<1>3. ChallengePresented' /\ ChallengeSpent'
  BY <1>1 DEF IInv, ChallengePresented, ChallengeSpent
<1>4. SessionsEarned'
  BY <1>1 DEF IInv, SessionsEarned
<1> QED
  BY <1>2, <1>3, <1>4 DEF IInv

-----------------------------------------------------------------------------
\* Every step keeps the invariant.
LEMMA NextIInv == IInv /\ [SessionsNext]_sessionVars => IInv'
<1> SUFFICES ASSUME IInv, [SessionsNext]_sessionVars PROVE IInv'
  OBVIOUS
<1>1. ASSUME NEW c \in Challenge, NEW w \in Wallet, AskChallenge(c, w) PROVE IInv'
  BY <1>1, AskAdvances, AdvanceKeeps
<1>2. ASSUME NEW c \in Challenge, IssueChallenge(c) PROVE IInv'
  BY <1>2, IssueAdvances, AdvanceKeeps
<1>3. ASSUME NEW s \in Session, SignInStep(s) PROVE IInv'
  <2>1. ASSUME NEW c \in Challenge, NEW w \in Wallet, NEW signer \in Wallet,
               StartSignIn(s, c, w, signer)
        PROVE  IInv'
    BY <2>1, StartKeeps
  <2>2. CASE PruneSessions(s)
    BY <2>2, GoOnKeeps DEF PruneSessions
  <2>3. CASE ConsumeChallenge(s)
    BY <2>3, ConsumeKeeps
  <2>4. CASE CreateSession(s)
    BY <2>4, GoOnKeeps DEF CreateSession
  <2> QED
    BY <1>3, <2>1, <2>2, <2>3, <2>4 DEF SignInStep
<1>4. ASSUME UNCHANGED <<challenges, signIn>>, instant' \in Nat PROVE IInv'
  BY <1>4 DEF IInv, SignInsTyped, ChallengePresented, ChallengeSpent, SessionsEarned
<1>5. instant \in Nat
  BY DEF IInv, SignInsTyped
<1>6. ASSUME NEW v \in Visit, VisitStep(v)
      PROVE  UNCHANGED <<challenges, signIn, instant>>
  BY <1>6
  DEF VisitStep, Arrive, LookupSession, RefreshSession, RollSession, ServePage, Logout,
      ReadProfile, SaveProfile, authTables
<1>7. InstantPasses => UNCHANGED <<challenges, signIn>> /\ instant' \in Nat
  BY <1>5 DEF InstantPasses, authTables
<1>8. UNCHANGED sessionVars => UNCHANGED <<challenges, signIn, instant>>
  BY DEF sessionVars, authTables
<1> QED
  BY <1>1, <1>2, <1>3, <1>4, <1>5, <1>6, <1>7, <1>8 DEF SessionsNext

\* IInv holds in every reachable state.
THEOREM SessionsInvariance == SessionsSpec => []IInv
  BY InitIInv, NextIInv, PTL DEF SessionsSpec

\* A session belongs to the wallet that a challenge was issued to and that signed it,
\* and no challenge opens two, however sign-ins are interleaved.
THEOREM EverySessionEarned == SessionsSpec => []SessionsEarned
  BY SessionsInvariance, PTL DEF IInv

-----------------------------------------------------------------------------
(* Visits *)

VisitState ==
  [pc : {"new", "lookup", "refresh", "roll", "handle", "save", "served"},
   kind : {"page", "logout", "profile"}, session : Session \cup {Nobody}, deadline : Nat,
   name : NameInput, isPublic : {"yes", "no", "absent"}, read : Profile, late : BOOLEAN]

Saving(v) == visit[v].pc = "save"

\* Rows, visits and histories hold what the code puts into them; a name that is too
\* long is refused before anything is to be saved.
VisitsTyped ==
  /\ sessions \in [Session -> Nat]
  /\ profiles \in [Wallet -> Profile]
  /\ visit \in [Visit -> VisitState]
  /\ lastUse \in [Session -> Nat]
  /\ loggedOut \subseteq Session
  /\ chosen \in [Wallet -> Profile]
  /\ clashed \subseteq Wallet \cup {Nobody}
  /\ \A v \in Visit : Saving(v) => visit[v].name # "long"

Visiting(v) == visit[v].pc \notin {"new", "served"}

\* A visit carries the cookie of a session that was opened, as does a logout.
VisitsHeld ==
  /\ \A v \in Visit : Visiting(v) =>
       visit[v].session \in Session /\ signIn[visit[v].session].pc = "created"
  /\ \A s \in loggedOut : signIn[s].pc = "created"

\* Whoever logs out, or does not use a session for idleTtl, has ended it.
Over(s) == s \in loggedOut \/ lastUse[s] + IdleTtl <= instant

\* No row, and no roll under way, outlasts the last use of its session by more than
\* idleTtl; a session that was logged out has no row.
RowsLapse ==
  /\ \A s \in Session : /\ sessions[s] <= lastUse[s] + IdleTtl
                        /\ lastUse[s] <= instant
                        /\ s \in loggedOut => sessions[s] = 0
  /\ \A v \in Visit : visit[v].pc = "roll" =>
       visit[v].deadline <= lastUse[visit[v].session] + IdleTtl

\* A visit that came late is still late, and has not got beyond the first look for its
\* session, but for a logout.
LateStaysLate ==
  \A v \in Visit : Visiting(v) /\ visit[v].late =>
    /\ Over(visit[v].session)
    /\ \/ visit[v].pc = "lookup"
       \/ visit[v].pc = "handle" /\ visit[v].kind = "logout"

VInv == VisitsTyped /\ VisitsHeld /\ RowsLapse /\ LateStaysLate /\ NoLateService

LEMMA InitVInv == SessionsInit => VInv
  BY SessionTimes
  DEF SessionsInit, VInv, VisitsTyped, VisitsHeld, RowsLapse, LateStaysLate,
      NoLateService, NewVisit, VisitState, NameInput, NoProfile, Profile, Saving,
      Visiting

\* A session that is over has no live row.
LEMMA OverIsDead ==
  ASSUME IInv, VInv, NEW s \in Session, Over(s)
  PROVE  ~ LiveSession(s)
  BY SessionTimes DEF IInv, SignInsTyped, VInv, VisitsTyped, RowsLapse, Over, LiveSession

\* A step that is no visit's keeps the visits, as it rolls no session: it may open one,
\* remove rows, or be time.
LEMMA OthersKeepVisits ==
  ASSUME IInv, VInv, UNCHANGED <<profiles, visit, loggedOut, chosen, clashed>>,
         instant' \in Nat, instant <= instant',
         \A s \in Session : signIn[s].pc = "created" => signIn'[s].pc = "created",
         \/ /\ UNCHANGED lastUse
            /\ sessions' \in [Session -> Nat]
            /\ \A s \in Session : sessions'[s] \in {0, sessions[s]}
         \/ \E s \in Session : /\ signIn[s].pc = "create"
                               /\ sessions' = [sessions EXCEPT ![s] = instant + IdleTtl]
                               /\ lastUse' = [lastUse EXCEPT ![s] = instant]
  PROVE  VInv'
<1>0. instant \in Nat /\ IdleTtl \in Nat
  BY SessionTimes DEF IInv, SignInsTyped
<1>1. /\ sessions' \in [Session -> Nat] /\ lastUse' \in [Session -> Nat]
      /\ \A s \in Session : signIn[s].pc = "created" =>
           sessions'[s] \in {0, sessions[s]} /\ lastUse'[s] = lastUse[s]
      /\ \A s \in Session : /\ sessions'[s] <= lastUse'[s] + IdleTtl
                            /\ lastUse'[s] <= instant'
  BY <1>0 DEF VInv, VisitsTyped, RowsLapse
<1>2. VisitsTyped'
  BY <1>1 DEF VInv, VisitsTyped, Saving
<1>3. VisitsHeld'
  BY DEF VInv, VisitsTyped, VisitsHeld, Visiting
<1>4. RowsLapse'
  <2>1. \A s \in loggedOut : s \in Session /\ signIn[s].pc = "created"
    BY DEF VInv, VisitsTyped, VisitsHeld
  <2>2. \A v \in Visit : visit[v].pc = "roll" =>
          /\ visit[v].session \in Session
          /\ signIn[visit[v].session].pc = "created"
    BY DEF VInv, VisitsHeld, Visiting
  <2> QED
    BY <1>1, <2>1, <2>2 DEF VInv, RowsLapse
<1>5. LateStaysLate'
  <2>1. \A s \in Session : signIn[s].pc = "created" /\ Over(s) => Over(s)'
    BY <1>0, <1>1 DEF Over, VInv, VisitsTyped
  <2> QED
    BY <2>1 DEF VInv, LateStaysLate, VisitsHeld, Visiting
<1>6. NoLateService'
  BY DEF VInv, NoLateService
<1> QED
  BY <1>2, <1>3, <1>4, <1>5, <1>6 DEF VInv

\* A sign-in that succeeded stays what it is.
LEMMA CreatedStays ==
  ASSUME IInv, [SessionsNext]_sessionVars, NEW s \in Session, signIn[s].pc = "created"
  PROVE  signIn'[s] = signIn[s]
<1>1. ASSUME NEW t \in Session, SignInStep(t) PROVE signIn'[s] = signIn[s]
  <2>1. t # s
    BY <1>1 DEF SignInStep, StartSignIn, PruneSessions, ConsumeChallenge, CreateSession
  <2>2. \E r : signIn' = [signIn EXCEPT ![t] = r]
    BY <1>1 DEF SignInStep, StartSignIn, PruneSessions, ConsumeChallenge, CreateSession,
       SignInTo, Refuse
  <2> QED
    BY <2>1, <2>2 DEF IInv, SignInsTyped
<1>2. ASSUME ~ \E t \in Session : SignInStep(t) PROVE signIn' = signIn
  BY <1>2
  DEF SessionsNext, AskChallenge, IssueChallenge, VisitStep, Arrive, LookupSession,
      RefreshSession, RollSession, ServePage, Logout, ReadProfile, SaveProfile,
      InstantPasses, sessionVars
<1> QED
  BY <1>1, <1>2

\* A sign-in under way was asked for by a wallet.
WalletsNamed ==
  \A s \in Session : signIn[s].pc \notin {"new", "refused"} => signIn[s].wallet \in Wallet

LEMMA WalletsNamedStep ==
  IInv /\ WalletsNamed /\ [SessionsNext]_sessionVars => WalletsNamed'
<1> SUFFICES ASSUME IInv, WalletsNamed, [SessionsNext]_sessionVars PROVE WalletsNamed'
  OBVIOUS
<1>0. signIn \in [Session -> SignInState]
  BY DEF IInv, SignInsTyped
<1>1. ASSUME NEW s \in Session, SignInStep(s) PROVE WalletsNamed'
  <2>1. \/ /\ signIn[s].pc \notin {"new", "refused"}
           /\ signIn'[s].wallet = signIn[s].wallet
        \/ signIn'[s].wallet \in Wallet
        \/ signIn'[s].pc = "refused"
    BY <1>0, <1>1
    DEF SignInStep, StartSignIn, PruneSessions, ConsumeChallenge, CreateSession, SignInTo,
        Refuse, SignInState
  <2>2. \A t \in Session \ {s} : signIn'[t] = signIn[t]
    BY <1>0, <1>1
    DEF SignInStep, StartSignIn, PruneSessions, ConsumeChallenge, CreateSession, SignInTo,
        Refuse
  <2> QED
    BY <2>1, <2>2 DEF WalletsNamed
<1>2. CASE UNCHANGED signIn
  BY <1>2 DEF WalletsNamed
<1>3. UNCHANGED signIn \/ \E s \in Session : SignInStep(s)
  BY DEF SessionsNext, AskChallenge, IssueChallenge, VisitStep, Arrive, LookupSession,
         RefreshSession, RollSession, ServePage, Logout, ReadProfile, SaveProfile,
         InstantPasses, sessionVars
<1> QED
  BY <1>1, <1>2, <1>3

\* What a visit's step leaves alone.
LEMMA VisitLeavesSignIns ==
  ASSUME NEW v \in Visit, VisitStep(v)
  PROVE  UNCHANGED <<instant, challenges, signIn>>
  BY DEF VisitStep, Arrive, LookupSession, RefreshSession, RollSession, ServePage, Logout,
         ReadProfile, SaveProfile, authTables

\* A step of v that leaves the rows of its session, and its own state, as they may be,
\* keeps the visits: whoever has come late is no nearer to being served.
LEMMA VisitMoves ==
  ASSUME IInv, VInv, NEW v \in Visit, NEW state \in VisitState,
         UNCHANGED <<instant, signIn>>,
         visit' = [visit EXCEPT ![v] = state],
         profiles' \in [Wallet -> Profile], chosen' \in [Wallet -> Profile],
         clashed' \subseteq Wallet \cup {Nobody},
         loggedOut \subseteq loggedOut', loggedOut' \subseteq Session,
         \A t \in loggedOut' : signIn[t].pc = "created",
         \/ UNCHANGED lastUse
         \/ \E t \in Session : LiveSession(t) /\ lastUse' = [lastUse EXCEPT ![t] = instant],
         sessions' \in [Session -> Nat],
         \A t \in Session : /\ sessions'[t] <= lastUse[t] + IdleTtl
                            /\ t \in loggedOut' => sessions'[t] = 0,
         state.pc = "save" => state.name # "long",
         state.pc \notin {"new", "served"} =>
           state.session \in Session /\ signIn[state.session].pc = "created",
         state.pc = "roll" => state.deadline <= lastUse'[state.session] + IdleTtl,
         state.late /\ state.pc # "new" =>
           /\ Over(state.session)
           /\ state.session \in Session
           /\ \/ state.pc = "lookup"
              \/ state.pc = "handle" /\ state.kind = "logout"
  PROVE  VInv'
<1>0. instant \in Nat /\ IdleTtl \in Nat \ {0} /\ visit \in [Visit -> VisitState]
  BY SessionTimes DEF IInv, SignInsTyped, VInv, VisitsTyped
<1>1. /\ visit' \in [Visit -> VisitState] /\ visit'[v] = state
      /\ \A u \in Visit \ {v} : visit'[u] = visit[u]
  BY <1>0
<1>2. /\ lastUse' \in [Session -> Nat]
      /\ \A t \in Session : /\ lastUse[t] <= lastUse'[t]
                            /\ lastUse'[t] <= instant
                            /\ Over(t) => lastUse'[t] = lastUse[t]
  BY <1>0, OverIsDead DEF VInv, VisitsTyped, RowsLapse
<1>3. VisitsTyped'
  BY <1>1, <1>2 DEF VInv, VisitsTyped, Saving
<1>4. VisitsHeld'
  BY <1>1 DEF VInv, VisitsHeld, Visiting
<1>5. RowsLapse'
  <2>1. \A u \in Visit : visit[u].pc = "roll" =>
          visit[u].session \in Session /\ visit[u].deadline \in Nat
    BY <1>0 DEF VInv, VisitsHeld, Visiting, VisitState
  <2>2. \A t \in Session : /\ sessions'[t] \in Nat
                           /\ lastUse[t] \in Nat /\ lastUse'[t] \in Nat
    BY <1>2 DEF VInv, VisitsTyped
  <2>3. ASSUME NEW t \in Session
        PROVE  /\ sessions'[t] <= lastUse'[t] + IdleTtl
               /\ lastUse'[t] <= instant'
               /\ t \in loggedOut' => sessions'[t] = 0
    <3>1. /\ sessions'[t] <= lastUse[t] + IdleTtl /\ lastUse[t] <= lastUse'[t]
          /\ lastUse'[t] <= instant /\ instant' = instant
          /\ t \in loggedOut' => sessions'[t] = 0
      BY <1>2
    <3> QED
      BY <1>0, <2>2, <3>1
  <2>4. ASSUME NEW u \in Visit, visit'[u].pc = "roll"
        PROVE  visit'[u].deadline <= lastUse'[visit'[u].session] + IdleTtl
    BY <1>0, <1>1, <1>2, <2>1, <2>2, <2>4 DEF VInv, RowsLapse
  <2> QED
    BY <2>3, <2>4, Zenon DEF RowsLapse
<1>6. LateStaysLate'
  <2>1. \A t \in Session : Over(t) => Over(t)'
    BY <1>0, <1>2 DEF Over
  <2> QED
    BY <1>1, <2>1 DEF VInv, LateStaysLate, VisitsHeld, Visiting
<1>7. NoLateService'
  BY <1>1 DEF VInv, NoLateService
<1> QED
  BY <1>3, <1>4, <1>5, <1>6, <1>7 DEF VInv

\* Each step of a visit keeps the visits.
LEMMA VisitKeeps ==
  ASSUME IInv, WalletsNamed, VInv, NEW v \in Visit, VisitStep(v)
  PROVE  VInv'
<1> DEFINE s == visit[v].session
           moved(pc) == [visit[v] EXCEPT !.pc = pc]
<1>1. /\ visit \in [Visit -> VisitState] /\ visit[v] \in VisitState
      /\ instant \in Nat /\ IdleTtl \in Nat \ {0} /\ UNCHANGED <<instant, signIn>>
  BY SessionTimes, VisitLeavesSignIns DEF IInv, SignInsTyped, VInv, VisitsTyped
<1>2. NewVisit \in VisitState /\ ~ NewVisit.late /\ NewVisit.pc = "new"
  BY DEF NewVisit, VisitState, NameInput, NoProfile, Profile
<1>3. /\ profiles \in [Wallet -> Profile] /\ chosen \in [Wallet -> Profile]
      /\ clashed \subseteq Wallet \cup {Nobody} /\ loggedOut \subseteq Session
      /\ sessions \in [Session -> Nat] /\ lastUse \in [Session -> Nat]
      /\ \A t \in loggedOut : signIn[t].pc = "created"
      /\ \A t \in Session : /\ sessions[t] <= lastUse[t] + IdleTtl
                            /\ t \in loggedOut => sessions[t] = 0
  BY DEF VInv, VisitsTyped, VisitsHeld, RowsLapse
<1>4. Visiting(v) => s \in Session /\ signIn[s].pc = "created"
  BY DEF VInv, VisitsHeld
<1>5. Visiting(v) /\ visit[v].late =>
        /\ Over(s) /\ ~ LiveSession(s)
        /\ visit[v].pc = "lookup" \/ visit[v].kind = "logout"
        /\ visit[v].pc \in {"lookup", "handle"}
  BY <1>4, OverIsDead DEF VInv, LateStaysLate
<1>6. ASSUME NEW pc, VisitTo(v, pc) PROVE visit' = [visit EXCEPT ![v] = moved(pc)]
  BY <1>1, <1>6 DEF VisitTo
<1>7. ASSUME NEW pc \in {"refresh", "handle"}
      PROVE  /\ moved(pc) \in VisitState /\ moved(pc).pc = pc
             /\ moved(pc).session = s /\ moved(pc).late = visit[v].late
             /\ moved(pc).kind = visit[v].kind
  BY <1>1 DEF VisitState
<1> HIDE DEF moved
<1>8. ASSUME NEW t \in Session, NEW kind \in {"page", "logout", "profile"},
             NEW name \in NameInput, NEW isPublic \in {"yes", "no", "absent"},
             Arrive(v, t, kind, name, isPublic)
      PROVE  VInv'
  <2> DEFINE state == [NewVisit EXCEPT !.pc = "lookup", !.session = t, !.kind = kind,
                         !.name = name, !.isPublic = isPublic,
                         !.late = t \in loggedOut \/ lastUse[t] + IdleTtl <= instant]
  <2>1. /\ visit' = [visit EXCEPT ![v] = state] /\ signIn[t].pc = "created"
        /\ UNCHANGED <<sessions, profiles, lastUse, loggedOut, chosen, clashed>>
    BY <1>8 DEF Arrive, authTables, sessionHistory
  <2>2. /\ state \in VisitState /\ state.pc = "lookup" /\ state.session = t
        /\ state.late => Over(t)
    BY <1>2 DEF NewVisit, VisitState, Over
  <2> HIDE DEF state
  <2> QED
    BY <1>1, <1>3, <2>1, <2>2, VisitMoves
<1>9. CASE Unauthenticated(v) /\ Visiting(v) /\ UNCHANGED <<authTables, sessionHistory>>
  <2>1. UNCHANGED <<sessions, profiles, lastUse, loggedOut, chosen, clashed>>
    BY <1>9 DEF authTables, sessionHistory
  <2>2. CASE visit[v].kind = "logout"
    <3>1. visit' = [visit EXCEPT ![v] = moved("handle")]
      BY <1>6, <1>9, <2>2 DEF Unauthenticated
    <3> QED
      BY <1>1, <1>3, <1>4, <1>5, <1>7, <1>9, <2>1, <2>2, <3>1, VisitMoves
  <2>3. CASE visit[v].kind # "logout"
    <3>1. visit' = [visit EXCEPT ![v] = NewVisit]
      BY <1>9, <2>3 DEF Unauthenticated
    <3> QED
      BY <1>1, <1>2, <1>3, <2>1, <3>1, VisitMoves
  <2> QED
    BY <2>2, <2>3
<1>10. CASE LookupSession(v)
  <2>1. Visiting(v) /\ UNCHANGED <<authTables, sessionHistory>>
    BY <1>10 DEF LookupSession, Visiting
  <2>2. CASE LiveSession(s)
    <3>1. visit' = [visit EXCEPT ![v] = moved("refresh")]
      BY <1>6, <1>10, <2>2 DEF LookupSession
    <3>2. ~ visit[v].late
      BY <1>5, <2>1, <2>2
    <3>3. UNCHANGED <<sessions, profiles, lastUse, loggedOut, chosen, clashed>>
      BY <2>1 DEF authTables, sessionHistory
    <3> QED
      BY <1>1, <1>3, <1>4, <1>7, <2>1, <3>1, <3>2, <3>3, VisitMoves
  <2> QED
    BY <1>9, <1>10, <2>1, <2>2 DEF LookupSession
<1>11. CASE RefreshSession(v)
  <2>1. Visiting(v) /\ visit[v].pc = "refresh" /\ ~ visit[v].late
    BY <1>5, <1>11 DEF RefreshSession, Visiting
  <2>2. CASE LiveSession(s)
    <3> DEFINE state == [visit[v] EXCEPT !.pc = "roll", !.deadline = instant + IdleTtl]
    <3>1. /\ visit' = [visit EXCEPT ![v] = state]
          /\ lastUse' = [lastUse EXCEPT ![s] = instant]
          /\ UNCHANGED <<sessions, profiles, loggedOut, chosen, clashed>>
      BY <1>1, <1>11, <2>2 DEF RefreshSession, authTables
    <3>2. /\ state \in VisitState /\ state.pc = "roll" /\ state.session = s
          /\ state.late = visit[v].late /\ state.deadline = instant + IdleTtl
      <4> DEFINE deadline == instant + IdleTtl
      <4>1. deadline \in Nat
        BY <1>1
      <4> HIDE DEF deadline
      <4>2. [visit[v] EXCEPT !.pc = "roll", !.deadline = deadline] \in VisitState
        BY <1>1, <4>1 DEF VisitState
      <4> QED
        BY <1>1, <4>2 DEF deadline, VisitState
    <3> HIDE DEF state
    <3>3. state.deadline <= lastUse'[state.session] + IdleTtl
      BY <1>1, <1>3, <1>4, <2>1, <3>1, <3>2
    <3> QED
      BY <1>1, <1>3, <1>4, <2>1, <2>2, <3>1, <3>2, <3>3, VisitMoves
  <2>3. CASE ~ LiveSession(s)
    BY <1>9, <1>11, <2>1, <2>3 DEF RefreshSession, authTables, sessionHistory
  <2> QED
    BY <2>2, <2>3
<1>12. CASE RollSession(v)
  <2> DEFINE state == [visit[v] EXCEPT !.pc = "handle", !.deadline = 0]
  <2>1. /\ visit[v].pc = "roll" /\ Visiting(v) /\ ~ visit[v].late
        /\ visit[v].deadline <= lastUse[s] + IdleTtl
    BY <1>5, <1>12 DEF RollSession, Visiting, VInv, RowsLapse
  <2>2. /\ visit' = [visit EXCEPT ![v] = state]
        /\ sessions' = Rolled(s, visit[v].deadline)
        /\ UNCHANGED <<profiles, lastUse, loggedOut, chosen, clashed>>
    BY <1>1, <1>12 DEF RollSession, sessionHistory
  <2>3. /\ state \in VisitState /\ state.pc = "handle" /\ state.session = s
        /\ state.late = visit[v].late /\ visit[v].deadline \in Nat
    BY <1>1 DEF VisitState
  <2>4. /\ sessions' \in [Session -> Nat]
        /\ \A t \in Session : sessions'[t] = 0 <=> sessions[t] = 0 \/ sessions'[t] = 0
        /\ \A t \in Session : \/ sessions'[t] = sessions[t]
                              \/ sessions[t] # 0 /\ t = s /\ sessions'[t] = visit[v].deadline
    BY <1>3, <1>4, <2>1, <2>2, <2>3 DEF Rolled
  <2> HIDE DEF state
  <2>5. \A t \in Session : /\ sessions'[t] <= lastUse[t] + IdleTtl
                           /\ t \in loggedOut => sessions'[t] = 0
    BY <1>3, <2>1, <2>4
  <2> QED
    BY <1>1, <1>3, <1>4, <2>1, <2>2, <2>3, <2>4, <2>5, VisitMoves
<1>13. ASSUME Serve(v), Visiting(v), ~ visit[v].late,
              UNCHANGED <<sessions, lastUse, loggedOut>>,
              profiles' \in [Wallet -> Profile], chosen' \in [Wallet -> Profile],
              clashed' \subseteq Wallet \cup {Nobody}
       PROVE  VInv'
  <2> DEFINE state == [NewVisit EXCEPT !.pc = "served", !.late = visit[v].late]
  <2>1. visit' = [visit EXCEPT ![v] = state]
    BY <1>13 DEF Serve
  <2>2. state \in VisitState /\ state.pc = "served" /\ ~ state.late
    BY <1>1, <1>2, <1>13 DEF VisitState, NewVisit
  <2> HIDE DEF state
  <2> QED
    BY <1>1, <1>3, <1>13, <2>1, <2>2, VisitMoves
<1>14. CASE ServePage(v)
  BY <1>3, <1>5, <1>13, <1>14 DEF ServePage, Visiting, authTables, sessionHistory
<1>15. CASE Logout(v)
  <2>1. /\ Visiting(v) /\ visit' = [visit EXCEPT ![v] = NewVisit]
        /\ sessions' = [sessions EXCEPT ![s] = 0]
        /\ loggedOut' = loggedOut \cup {s}
        /\ UNCHANGED <<profiles, lastUse, chosen, clashed>>
    BY <1>15 DEF Logout, Visiting
  <2>2. /\ sessions' \in [Session -> Nat]
        /\ \A t \in Session : /\ sessions'[t] <= lastUse[t] + IdleTtl
                              /\ t \in loggedOut' => sessions'[t] = 0
        /\ loggedOut' \subseteq Session
        /\ \A t \in loggedOut' : signIn[t].pc = "created"
    BY <1>1, <1>3, <1>4, <2>1
  <2> QED
    BY <1>1, <1>2, <1>3, <2>1, <2>2, VisitMoves
<1>16. CASE ReadProfile(v)
  <2>1. /\ Visiting(v) /\ ~ visit[v].late
        /\ UNCHANGED <<sessions, profiles, lastUse, loggedOut, chosen>>
        /\ WalletOf(s) \in Wallet \cup {Nobody}
    BY <1>4, <1>5, <1>16
    DEF ReadProfile, Visiting, authTables, WalletOf, IInv, SignInsTyped, SignInState
  <2>2. clashed' \subseteq Wallet \cup {Nobody}
    BY <1>3, <1>16, <2>1 DEF ReadProfile
  <2>3. CASE InvalidName(Normalized(visit[v].name))
    BY <1>3, <1>13, <1>16, <2>1, <2>2, <2>3 DEF ReadProfile
  <2>4. CASE ~ InvalidName(Normalized(visit[v].name))
    <3> DEFINE state == [visit[v] EXCEPT !.pc = "save", !.read = profiles[WalletOf(s)]]
    <3>1. visit' = [visit EXCEPT ![v] = state]
      BY <1>1, <1>16, <2>4 DEF ReadProfile
    <3>2. visit[v].name # "long"
      BY <2>4 DEF InvalidName, Normalized
    <3>3. WalletOf(s) \in Wallet
      BY <1>4, <2>1 DEF WalletsNamed, WalletOf
    <3>4. /\ state \in VisitState /\ state.pc = "save" /\ state.session = s
          /\ state.late = visit[v].late /\ state.name = visit[v].name
      BY <1>1, <1>3, <3>3 DEF VisitState
    <3> HIDE DEF state
    <3> QED
      BY <1>1, <1>3, <1>4, <2>1, <2>2, <3>1, <3>2, <3>4, VisitMoves
  <2> QED
    BY <2>3, <2>4
<1>17. CASE SaveProfile(v)
  <2>1. /\ Visiting(v) /\ ~ visit[v].late /\ Serve(v)
        /\ UNCHANGED <<sessions, lastUse, loggedOut, clashed>>
        /\ visit[v].name # "long"
    BY <1>5, <1>17 DEF SaveProfile, Visiting, VInv, VisitsTyped, Saving
  <2>2. \A profile \in Profile : Updated(profile, v) \in Profile
    BY <1>1, <2>1 DEF Updated, Profile, Normalized, VisitState, NameInput
  <2>3. Saved(v) \in Profile
    BY <1>1, <2>2 DEF Saved, VisitState
  <2>4. profiles' \in [Wallet -> Profile] /\ chosen' \in [Wallet -> Profile]
    BY <1>3, <1>17, <2>2, <2>3 DEF SaveProfile
  <2> QED
    BY <1>3, <1>13, <2>1, <2>4
<1> QED
  BY <1>8, <1>10, <1>11, <1>12, <1>14, <1>15, <1>16, <1>17 DEF VisitStep

\* Every step keeps the visits.
LEMMA VisitsStep ==
  IInv /\ WalletsNamed /\ VInv /\ [SessionsNext]_sessionVars => VInv'
<1> SUFFICES ASSUME IInv, WalletsNamed, VInv, [SessionsNext]_sessionVars PROVE VInv'
  OBVIOUS
<1>0. instant \in Nat /\ sessions \in [Session -> Nat]
  BY DEF IInv, SignInsTyped, VInv, VisitsTyped
<1>1. \A s \in Session : signIn[s].pc = "created" => signIn'[s].pc = "created"
  BY CreatedStays
<1>2. ASSUME NEW v \in Visit, VisitStep(v) PROVE VInv'
  BY <1>2, VisitKeeps
<1>3. ASSUME NEW s \in Session, SignInStep(s) PROVE VInv'
  <2>0. UNCHANGED <<instant, profiles, visit, loggedOut, chosen, clashed>>
    BY <1>3 DEF SignInStep, StartSignIn, PruneSessions, ConsumeChallenge, CreateSession,
       authTables, sessionHistory
  <2>1. CASE CreateSession(s)
    <3>1. /\ signIn[s].pc = "create"
          /\ sessions' = [sessions EXCEPT ![s] = instant + IdleTtl]
          /\ lastUse' = [lastUse EXCEPT ![s] = instant]
          /\ instant' \in Nat /\ instant <= instant'
      BY <1>0, <2>0, <2>1 DEF CreateSession
    <3> QED
      BY <1>1, <2>0, <3>1, OthersKeepVisits
  <2>2. CASE ~ CreateSession(s)
    <3>1. /\ UNCHANGED lastUse
          /\ sessions' \in [Session -> Nat]
          /\ \A t \in Session : sessions'[t] \in {0, sessions[t]}
      BY <1>0, <1>3, <2>2 DEF SignInStep, StartSignIn, PruneSessions, ConsumeChallenge,
         authTables, sessionHistory
    <3> QED
      BY <1>0, <1>1, <2>0, <3>1, OthersKeepVisits
  <2> QED
    BY <2>1, <2>2
<1>4. CASE /\ UNCHANGED <<sessions, profiles, visit, sessionHistory>>
           /\ instant' \in Nat /\ instant <= instant'
  BY <1>0, <1>1, <1>4, OthersKeepVisits DEF sessionHistory
<1>5. \/ \E v \in Visit : VisitStep(v)
      \/ \E s \in Session : SignInStep(s)
      \/ /\ UNCHANGED <<sessions, profiles, visit, sessionHistory>>
         /\ instant' \in Nat /\ instant <= instant'
  <2>1. CASE \E c \in Challenge : IssueChallenge(c) \/ \E w \in Wallet : AskChallenge(c, w)
    BY <1>0, <2>1 DEF AskChallenge, IssueChallenge
  <2>2. CASE InstantPasses \/ UNCHANGED sessionVars
    BY <1>0, <2>2 DEF InstantPasses, sessionVars, authTables
  <2> QED
    BY <2>1, <2>2 DEF SessionsNext
<1> QED
  BY <1>2, <1>3, <1>4, <1>5

LEMMA VisitsInvariance == SessionsSpec => [](WalletsNamed /\ VInv)
<1>1. SessionsInit => WalletsNamed /\ VInv
  BY InitVInv DEF SessionsInit, WalletsNamed
<1> QED
  BY <1>1, VisitsStep, WalletsNamedStep, SessionsInvariance, PTL DEF SessionsSpec

\* Nobody is served by a session that was logged out, or lapsed, before the request came,
\* although requests that came before roll the session by a value computed earlier.
THEOREM NobodyServedLate == SessionsSpec => []NoLateService
  BY VisitsInvariance, PTL DEF VInv

-----------------------------------------------------------------------------
(* Profiles *)

Saver(v) == WalletOf(visit[v].session)

\* Unless two updates of a wallet were under way at once, its profile is what its updates
\* asked for, the one under way has read it, and there is only one.
ProfilesFollowed ==
  \A w \in Wallet \ clashed :
    /\ profiles[w] = chosen[w]
    /\ \A v \in Visit : Saving(v) /\ Saver(v) = w => visit[v].read = profiles[w]
    /\ \A u, v \in Visit : Saving(u) /\ Saving(v) /\ Saver(u) = w /\ Saver(v) = w => u = v

LEMMA ProfilesStep ==
  IInv /\ VInv /\ ProfilesFollowed /\ [SessionsNext]_sessionVars => ProfilesFollowed'
<1> SUFFICES ASSUME IInv, VInv, ProfilesFollowed, [SessionsNext]_sessionVars
             PROVE  ProfilesFollowed'
  OBVIOUS
<1>0. /\ visit \in [Visit -> VisitState]
      /\ profiles \in [Wallet -> Profile] /\ chosen \in [Wallet -> Profile]
  BY DEF VInv, VisitsTyped
\* Any other step than a visit's.
<1>1. CASE UNCHANGED <<profiles, visit, chosen, clashed>>
  <2>1. \A v \in Visit : Saving(v) => Saver(v)' = Saver(v)
    <3>1. \A v \in Visit : Saving(v) =>
            /\ visit[v].session \in Session
            /\ signIn[visit[v].session].pc = "created"
      BY DEF VInv, VisitsHeld, Visiting, Saving
    <3> QED
      BY <1>1, <3>1, CreatedStays DEF Saver, WalletOf
  <2> QED
    BY <1>1, <2>1 DEF ProfilesFollowed, Saving
<1>2. ASSUME NEW v \in Visit, VisitStep(v) PROVE ProfilesFollowed'
  <2>1. UNCHANGED signIn
    BY <1>2, VisitLeavesSignIns
  <2>2. ASSUME visit'[v].pc # "save", \A u \in Visit \ {v} : visit'[u] = visit[u],
               UNCHANGED <<profiles, chosen, clashed>>
        PROVE  ProfilesFollowed'
    <3>1. \A u \in Visit : Saving(u)' => /\ Saving(u) /\ visit'[u] = visit[u]
                                         /\ Saver(u)' = Saver(u)
      BY <2>1, <2>2 DEF Saving, Saver, WalletOf
    <3> QED
      BY <2>2, <3>1 DEF ProfilesFollowed
  <2>3. CASE ReadProfile(v) /\ ~ InvalidName(Normalized(visit[v].name))
    <3> DEFINE w == Saver(v)
    <3>1. /\ visit' = [visit EXCEPT ![v].pc = "save", ![v].read = profiles[w]]
          /\ clashed' = IF \E u \in Visit \ {v} : Saving(u) /\ Saver(u) = w
                          THEN clashed \cup {w} ELSE clashed
          /\ UNCHANGED <<profiles, chosen>>
      BY <2>3 DEF ReadProfile, Saving, Saver, authTables
    <3>2. /\ Saving(v)' /\ visit'[v].read = profiles[w] /\ Saver(v)' = w
          /\ \A u \in Visit \ {v} : /\ visit'[u] = visit[u]
                                    /\ Saving(u)' <=> Saving(u)
                                    /\ Saver(u)' = Saver(u)
      BY <1>0, <2>1, <3>1 DEF Saving, Saver, WalletOf, VisitState
    <3> HIDE DEF w
    <3> SUFFICES ASSUME NEW x \in Wallet \ clashed'
                 PROVE  /\ profiles'[x] = chosen'[x]
                        /\ \A u \in Visit : Saving(u)' /\ Saver(u)' = x =>
                             visit'[u].read = profiles'[x]
                        /\ \A t, u \in Visit :
                             Saving(t)' /\ Saving(u)' /\ Saver(t)' = x /\ Saver(u)' = x => t = u
      BY DEF ProfilesFollowed
    <3>3. x \in Wallet \ clashed
      BY <3>1
    <3>4. CASE x = w
      <4>1. \A u \in Visit \ {v} : ~ (Saving(u)' /\ Saver(u)' = x)
        BY <3>1, <3>2, <3>4
      <4> QED
        BY <3>1, <3>2, <3>3, <3>4, <4>1 DEF ProfilesFollowed
    <3>5. CASE x # w
      <4>1. \A u \in Visit : Saving(u)' /\ Saver(u)' = x =>
              Saving(u) /\ Saver(u) = x /\ visit'[u] = visit[u]
        BY <3>2, <3>5
      <4>2. /\ profiles[x] = chosen[x]
            /\ \A u \in Visit : Saving(u) /\ Saver(u) = x => visit[u].read = profiles[x]
            /\ \A t, u \in Visit :
                 Saving(t) /\ Saving(u) /\ Saver(t) = x /\ Saver(u) = x => t = u
        BY <3>3 DEF ProfilesFollowed
      <4> QED
        BY <3>1, <4>1, <4>2
    <3> QED
      BY <3>4, <3>5
  <2>4. CASE SaveProfile(v)
    <3> DEFINE w == Saver(v)
    <3>1. /\ Saving(v)
          /\ profiles' = [profiles EXCEPT ![w] = Updated(visit[v].read, v)]
          /\ chosen' = [chosen EXCEPT ![w] = Updated(chosen[w], v)]
          /\ clashed' = clashed
          /\ ~ Saving(v)'
          /\ \A u \in Visit \ {v} : visit'[u] = visit[u]
      BY <1>0, <2>4 DEF SaveProfile, Saver, Saved, Serve, Saving, NewVisit
    <3>2. \A u \in Visit \ {v} : /\ Saving(u)' <=> Saving(u)
                                 /\ Saver(u)' = Saver(u)
      BY <2>1, <3>1 DEF Saving, Saver, WalletOf
    <3> HIDE DEF w
    <3>3. ASSUME NEW x \in Wallet \ clashed, x = w
          PROVE  /\ visit[v].read = chosen[w] /\ profiles'[x] = chosen'[x]
                 /\ \A u \in Visit : ~ (Saving(u)' /\ Saver(u)' = x)
      BY <1>0, <3>1, <3>2, <3>3 DEF ProfilesFollowed, w
    <3>4. ASSUME NEW x \in Wallet \ clashed, x # w
          PROVE  profiles'[x] = profiles[x] /\ chosen'[x] = chosen[x]
      BY <1>0, <3>1, <3>4
    <3> QED
      BY <3>1, <3>2, <3>3, <3>4 DEF ProfilesFollowed
  <2>5. CASE ~ (ReadProfile(v) /\ ~ InvalidName(Normalized(visit[v].name))) /\ ~ SaveProfile(v)
    <3>1. UNCHANGED <<profiles, chosen, clashed>>
      BY <1>2, <2>5
      DEF VisitStep, Arrive, LookupSession, RefreshSession, RollSession, ServePage, Logout,
          ReadProfile, authTables, sessionHistory
    <3>2. \/ \E s \in Session, kind \in {"page", "logout", "profile"}, name \in NameInput,
               isPublic \in {"yes", "no", "absent"} : Arrive(v, s, kind, name, isPublic)
          \/ \E pc \in {"refresh", "handle"} : VisitTo(v, pc)
          \/ \E deadline : \E pc \in {"roll", "handle"} :
               visit' = [visit EXCEPT ![v].pc = pc, ![v].deadline = deadline]
          \/ Serve(v)
          \/ visit' = [visit EXCEPT ![v] = NewVisit]
      BY <1>2, <2>5 DEF VisitStep, LookupSession, RefreshSession, RollSession, ServePage,
         Logout, ReadProfile, Unauthenticated
    <3>3. visit'[v].pc # "save" /\ \A u \in Visit \ {v} : visit'[u] = visit[u]
      <4>1. CASE \E s \in Session, kind \in {"page", "logout", "profile"},
                    name \in NameInput, isPublic \in {"yes", "no", "absent"} :
                   Arrive(v, s, kind, name, isPublic)
        BY <1>0, <4>1 DEF Arrive, NewVisit
      <4>2. CASE Serve(v) \/ visit' = [visit EXCEPT ![v] = NewVisit]
        <5> DEFINE served == [NewVisit EXCEPT !.pc = "served", !.late = visit[v].late]
        <5>1. served.pc = "served" /\ NewVisit.pc = "new"
          BY DEF NewVisit
        <5>2. \E state \in {served, NewVisit} : visit' = [visit EXCEPT ![v] = state]
          BY <4>2 DEF Serve
        <5> HIDE DEF served
        <5> QED
          BY <1>0, <5>1, <5>2
      <4>3. CASE \/ \E pc \in {"refresh", "handle"} : VisitTo(v, pc)
                 \/ \E deadline : \E pc \in {"roll", "handle"} :
                      visit' = [visit EXCEPT ![v].pc = pc, ![v].deadline = deadline]
        BY <1>0, <4>3 DEF VisitTo, VisitState
      <4> QED
        BY <3>2, <4>1, <4>2, <4>3
    <3> QED
      BY <2>2, <3>1, <3>3
  <2> QED
    BY <2>3, <2>4, <2>5
<1>3. UNCHANGED <<profiles, visit, chosen, clashed>> \/ \E v \in Visit : VisitStep(v)
  BY DEF SessionsNext, AskChallenge, IssueChallenge, SignInStep, StartSignIn, PruneSessions,
         ConsumeChallenge, CreateSession, InstantPasses, sessionVars, authTables,
         sessionHistory
<1> QED
  BY <1>1, <1>2, <1>3

\* A wallet's profile is what its updates asked for, field by field, unless two of them
\* were under way at once: an update writes the whole row, from what it read before.
THEOREM ProfilesKeepFields == SessionsSpec => []ProfileKeepsFields
<1>1. SessionsInit => ProfilesFollowed
  BY DEF SessionsInit, ProfilesFollowed, NewVisit, Saving
<1>2. ProfilesFollowed => ProfileKeepsFields
  BY DEF ProfilesFollowed, ProfileKeepsFields
<1> QED
  BY <1>1, <1>2, ProfilesStep, SessionsInvariance, VisitsInvariance, PTL DEF SessionsSpec

-----------------------------------------------------------------------------
(* The rate limiter *)

\* Windows begin at an instant, and clients are told to come back at one.
LimiterTyped ==
  /\ tick \in Nat
  /\ \A c \in DOMAIN windows : windows[c].startedAt \in Nat
  /\ retryAt \in [Client -> Nat]

\* A client that was refused is told to come back no sooner than its window ends.
RetryAfterWindow ==
  \A c \in Client \cap DOMAIN windows :
    retryAt[c] # 0 => windows[c].startedAt + Window <= retryAt[c]

LimiterInv == LimiterTyped /\ RetryAfterWindow

LEMMA Division ==
  ASSUME NEW x \in Nat, NEW d \in Nat \ {0}
  PROVE  x \div d \in Nat /\ d * (x \div d) <= x /\ x < d * (x \div d) + d
  OBVIOUS

LEMMA InitLimiter == LimiterInit => LimiterInv
  BY DEF LimiterInit, LimiterInv, LimiterTyped, RetryAfterWindow

\* What a check of c does to its own window, and that it leaves the others alone.
LEMMA CheckEffect ==
  ASSUME LimiterInv, NEW c \in Client, Check(c)
  PROVE  /\ Kept(tick) \subseteq DOMAIN windows /\ DOMAIN windows' = Kept(tick) \cup {c}
         /\ \A k \in Kept(tick) \ {c} : windows'[k] = windows[k]
         /\ windows'[c] = Counted(c, tick) /\ tick' = tick
         /\ \A k \in Client \ {c} : retryAt'[k] = retryAt[k]
         /\ c \in Kept(tick) => windows'[c].startedAt = windows[c].startedAt
         /\ c \notin Kept(tick) => windows'[c].startedAt = tick /\ windows'[c].count = 1
<1>1. /\ DOMAIN windows' = Kept(tick) \cup {c} /\ tick' = tick
      /\ \A k \in Kept(tick) \ {c} : windows'[k] = windows[k]
      /\ windows'[c] = Counted(c, tick)
      /\ \A k \in Client \ {c} : retryAt'[k] = retryAt[k]
  BY DEF Check, LimiterInv, LimiterTyped
<1>2. Kept(tick) \subseteq DOMAIN windows
  BY DEF Kept
<1>3. c \in Kept(tick) => Counted(c, tick).startedAt = windows[c].startedAt
  BY DEF Counted
<1>4. c \notin Kept(tick) =>
        Counted(c, tick).startedAt = tick /\ Counted(c, tick).count = 1
  BY DEF Counted
<1> QED
  BY <1>1, <1>2, <1>3, <1>4

\* The seconds of the answer, rounded up, are no shorter than what is left of a window:
\* no multiple of a second that is shorter than it can come out of the division.
LEMMA RoundedUp ==
  ASSUME NEW w, w.startedAt \in Nat, NEW now \in Nat
  PROVE  /\ Second * RetryAfter(w, now) \in Nat
         /\ w.startedAt + Window <= now + Second * RetryAfter(w, now)
<1> DEFINE wait == w.startedAt + Window - now
           seconds == (wait + Second - 1) \div Second
<1>1. Second \in Nat \ {0} /\ wait \in Int /\ wait = w.startedAt + Window - now
  BY LimiterParameters
<1>2. RetryAfter(w, now) = IF seconds < 1 THEN 1 ELSE seconds
  BY DEF RetryAfter
<1>3. seconds = (wait + Second - 1) \div Second
  OBVIOUS
<1> HIDE DEF wait, seconds
<1>4. CASE wait <= 0
  <2>1. RetryAfter(w, now) \in Nat \ {0}
    <3>1. seconds \in Int
      BY <1>1, <1>3
    <3> QED
      BY <1>2, <3>1
  <2>2. Second * RetryAfter(w, now) \in Nat
    BY <1>1, <2>1
  <2> QED
    BY <1>1, <1>4, <2>2, LimiterParameters
<1>5. CASE wait > 0
  <2>1. wait + Second - 1 \in Nat
    BY <1>1, <1>5
  <2>2. seconds \in Nat /\ wait + Second - 1 < Second * seconds + Second
    BY <1>1, <1>3, <2>1, Division
  <2>3. wait <= Second * seconds /\ seconds # 0
    <3>1. Second * seconds \in Nat
      BY <1>1, <2>2
    <3>2. wait <= Second * seconds
      BY <1>1, <1>5, <2>2, <3>1
    <3> QED
      BY <1>1, <1>5, <3>2
  <2>4. RetryAfter(w, now) = seconds
    BY <1>2, <2>2, <2>3
  <2>5. Second * RetryAfter(w, now) \in Nat /\ wait <= Second * RetryAfter(w, now)
    BY <1>1, <2>2, <2>3, <2>4
  <2> QED
    BY <1>1, <2>5, LimiterParameters
<1> QED
  BY <1>1, <1>4, <1>5

\* The answer to c, refused or not.
LEMMA Answered ==
  ASSUME LimiterInv, NEW c \in Client, Check(c)
  PROVE  /\ windows'[c].startedAt \in Nat
         /\ \/ retryAt'[c] = 0
            \/ /\ windows'[c].startedAt + Window <= retryAt'[c] /\ retryAt'[c] \in Nat
               /\ ~ windows'[c].count <= Limit
         /\ retryAt' \in [Client -> Nat]
<1> DEFINE own == Counted(c, tick)
<1>0. windows'[c] = own /\ tick \in Nat
  BY CheckEffect DEF LimiterInv, LimiterTyped
<1>1. own.startedAt \in Nat
  <2>1. CASE c \in Kept(tick)
    BY <1>0, <2>1, CheckEffect DEF LimiterInv, LimiterTyped
  <2>2. CASE c \notin Kept(tick)
    BY <1>0, <2>2, CheckEffect
  <2> QED
    BY <2>1, <2>2
<1> HIDE DEF own
<1>2. /\ Second * RetryAfter(own, tick) \in Nat
      /\ own.startedAt + Window <= tick + Second * RetryAfter(own, tick)
  BY <1>0, <1>1, RoundedUp
<1>3. CASE own.count <= Limit
  BY <1>0, <1>1, <1>3 DEF Check, LimiterInv, LimiterTyped, own
<1>4. CASE ~ own.count <= Limit
  <2>1. retryAt' = [retryAt EXCEPT ![c] = tick + Second * RetryAfter(own, tick)]
    BY <1>4 DEF Check, own
  <2>2. PICK at : at = tick + Second * RetryAfter(own, tick)
    OBVIOUS
  <2>3. at \in Nat /\ own.startedAt + Window <= at
    BY <1>0, <1>2, <2>2
  <2>4. retryAt' = [retryAt EXCEPT ![c] = at] /\ retryAt \in [Client -> Nat]
    BY <2>1, <2>2 DEF LimiterInv, LimiterTyped
  <2> QED
    BY <1>0, <1>1, <1>4, <2>3, <2>4
<1> QED
  BY <1>3, <1>4

LEMMA LimiterStep == LimiterInv /\ [LimiterNext]_limiterVars => LimiterInv'
<1> SUFFICES ASSUME LimiterInv, [LimiterNext]_limiterVars PROVE LimiterInv'
  OBVIOUS
<1>1. ASSUME NEW c \in Client, Check(c) PROVE LimiterInv'
  <2>1. LimiterTyped'
    BY <1>1, CheckEffect, Answered DEF LimiterInv, LimiterTyped
  <2>2. RetryAfterWindow'
    <3> SUFFICES ASSUME NEW k \in Client, k \in DOMAIN windows', retryAt'[k] # 0
                 PROVE  windows'[k].startedAt + Window <= retryAt'[k]
      BY DEF RetryAfterWindow
    <3>1. CASE k = c
      BY <1>1, <3>1, Answered
    <3>2. CASE k # c
      BY <1>1, <3>2, CheckEffect DEF LimiterInv, RetryAfterWindow
    <3> QED
      BY <3>1, <3>2
  <2> QED
    BY <2>1, <2>2 DEF LimiterInv
<1>2. CASE TimeGoesOn
  BY <1>2 DEF TimeGoesOn, LimiterInv, LimiterTyped, RetryAfterWindow
<1>3. CASE UNCHANGED limiterVars
  BY <1>3 DEF limiterVars, LimiterInv, LimiterTyped, RetryAfterWindow
<1> QED
  BY <1>1, <1>2, <1>3 DEF LimiterNext

\* A client that comes back when it was told to is admitted, whatever other clients do
\* to the table meanwhile: the header is in seconds, and rounding them up never sends it
\* back before its window ends.
THEOREM ReturnersAdmitted == LimiterSpec => RetryHonoured
<1>1. ASSUME LimiterInv, [LimiterNext]_limiterVars, NEW c \in Client,
             retryAt[c] # 0, retryAt[c] <= tick
      PROVE  retryAt'[c] \in {0, retryAt[c]}
  <2>1. CASE Check(c)
    <3>1. c \notin Kept(tick)
      BY <1>1, LimiterParameters
      DEF Kept, Live, LimiterInv, LimiterTyped, RetryAfterWindow
    <3>2. windows'[c].count <= Limit
      <4>1. windows'[c].count = 1
        BY <1>1, <2>1, <3>1, CheckEffect
      <4> QED
        BY <4>1, LimiterParameters
    <3> QED
      BY <1>1, <2>1, <3>2, Answered
  <2>2. ASSUME NEW d \in Client \ {c}, Check(d) PROVE retryAt'[c] = retryAt[c]
    BY <1>1, <2>2, CheckEffect
  <2>3. CASE TimeGoesOn \/ UNCHANGED limiterVars
    BY <2>3 DEF TimeGoesOn, limiterVars
  <2> QED
    BY <1>1, <2>1, <2>2, <2>3 DEF LimiterNext
<1>2. LimiterInv /\ [LimiterNext]_limiterVars =>
        [\A c \in Client :
           retryAt[c] # 0 /\ retryAt[c] <= tick => retryAt'[c] \in {0, retryAt[c]}
        ]_limiterVars
  BY <1>1
<1> QED
  BY <1>2, InitLimiter, LimiterStep, PTL DEF LimiterSpec, RetryHonoured

-----------------------------------------------------------------------------
(* How many checks of a client are admitted *)

Admission == [client : Client, at : Nat, since : Nat]

Of(c) == {i \in DOMAIN admissions : admissions[i].client = c}

\* Those of c in the window begun at s.
AdmittedIn(c, s) == {i \in Of(c) : admissions[i].since = s}

\* Windows begin no later than now, and count the checks from one.
AdmissionsTyped ==
  /\ admissions \in Seq(Admission)
  /\ \A c \in DOMAIN windows : windows[c].count \in Nat /\ windows[c].startedAt <= tick

\* The window of c that began at s began with an admission.
Begun(c, s) == \E o \in AdmittedIn(c, s) : admissions[o].at = s

\* A check is counted in a window that it falls into.
CheckInWindow ==
  /\ \A i \in DOMAIN admissions : /\ admissions[i].since <= admissions[i].at
                               /\ admissions[i].at < admissions[i].since + Window
                               /\ Begun(admissions[i].client, admissions[i].since)
  /\ \A c \in DOMAIN windows : c \in Client /\ Begun(c, windows[c].startedAt)

\* The window in the table is the last of its client; all the others are over.
LastWindow(c) ==
  IF c \in DOMAIN windows
    THEN \A i \in Of(c) : LET w == windows[c].startedAt IN
           admissions[i].since = w \/ admissions[i].since + Window <= w
    ELSE \A i \in Of(c) : admissions[i].since + Window <= tick

WindowsApart(c) ==
  \A i, j \in Of(c) :
    admissions[i].since < admissions[j].since => admissions[i].since + Window <= admissions[j].since

CountHolds(c) ==
  /\ \A s \in Nat : Cardinality(AdmittedIn(c, s)) <= Limit
  /\ c \in DOMAIN windows =>
       Cardinality(AdmittedIn(c, windows[c].startedAt)) <= windows[c].count

\* What is counted of a client whose windows were not evicted.
BurstInv ==
  /\ AdmissionsTyped /\ CheckInWindow
  /\ \A c \in Client \ forgotten : LastWindow(c) /\ WindowsApart(c) /\ CountHolds(c)

LEMMA InitBurst == LimiterInit => BurstInv
<1> SUFFICES ASSUME LimiterInit PROVE BurstInv
  OBVIOUS
<1>1. admissions = <<>> /\ windows = <<>> /\ DOMAIN admissions = {} /\ DOMAIN windows = {}
  BY DEF LimiterInit
<1>2. \A c \in Client, s \in Nat : AdmittedIn(c, s) = {} /\ Of(c) = {}
  BY <1>1 DEF AdmittedIn, Of
<1>3. \A c \in Client : LastWindow(c) /\ WindowsApart(c)
  BY <1>1, <1>2 DEF LastWindow, WindowsApart
<1>5. \A c \in Client : CountHolds(c)
  <2>1. Cardinality({}) <= Limit
    BY FS_EmptySet, LimiterParameters
  <2> QED
    BY <1>1, <1>2, <2>1 DEF CountHolds
<1>4. AdmissionsTyped /\ CheckInWindow
  BY <1>1 DEF AdmissionsTyped, CheckInWindow
<1> QED
  BY <1>3, <1>4, <1>5 DEF BurstInv

\* The checks so far are finitely many.
LEMMA ChecksFinite ==
  ASSUME AdmissionsTyped, NEW c, NEW s
  PROVE  IsFiniteSet(AdmittedIn(c, s)) /\ Cardinality(AdmittedIn(c, s)) \in Nat
<1>1. DOMAIN admissions = 1 .. Len(admissions) /\ Len(admissions) \in Nat
  BY DEF AdmissionsTyped
<1>2. IsFiniteSet(DOMAIN admissions)
  BY <1>1, FS_Interval
<1>3. AdmittedIn(c, s) \subseteq DOMAIN admissions
  BY DEF AdmittedIn, Of
<1> QED
  BY <1>2, <1>3, FS_Subset, FS_CardinalityType

LEMMA UnionAtMost ==
  ASSUME NEW S, NEW T, IsFiniteSet(S), IsFiniteSet(T)
  PROVE  IsFiniteSet(S \cup T) /\ Cardinality(S \cup T) <= Cardinality(S) + Cardinality(T)
<1>1. IsFiniteSet(S \cap T) /\ Cardinality(S \cap T) \in Nat
  BY FS_Intersection, FS_CardinalityType
<1>2. Cardinality(S) \in Nat /\ Cardinality(T) \in Nat
  BY FS_CardinalityType
<1>3. /\ IsFiniteSet(S \cup T)
      /\ Cardinality(S \cup T) = Cardinality(S) + Cardinality(T) - Cardinality(S \cap T)
  BY FS_Union
<1> QED
  BY <1>1, <1>2, <1>3

\* In any Window ticks a client has checks in no more than two windows, and not the
\* first check of the earlier one.
LEMMA BurstOfTwo ==
  ASSUME BurstInv, NEW c \in Client \ forgotten, NEW t \in Nat,
         NEW B, B = {i \in Of(c) : t <= admissions[i].at /\ admissions[i].at < t + Window}
  PROVE  IsFiniteSet(B) /\ Cardinality(B) < 2 * Limit
<1>1. /\ Limit \in Nat \ {0} /\ Window \in Nat \ {0}
      /\ \A i \in Of(c) : /\ admissions[i].at \in Nat /\ admissions[i].since \in Nat
                          /\ admissions[i].client = c
                          /\ admissions[i].since <= admissions[i].at
                          /\ admissions[i].at < admissions[i].since + Window
  <2>1. \A i \in DOMAIN admissions : admissions[i] \in Admission
    BY DEF BurstInv, AdmissionsTyped
  <2> QED
    BY <2>1, LimiterParameters DEF BurstInv, CheckInWindow, Admission, Of
<1>2. \A s \in Nat : /\ IsFiniteSet(AdmittedIn(c, s))
                     /\ Cardinality(AdmittedIn(c, s)) \in 0 .. Limit
  BY <1>1, ChecksFinite DEF BurstInv, CountHolds
<1>3. CASE B = {}
  BY <1>1, <1>3, FS_EmptySet
<1>4. CASE \E i \in B : \A j \in B : admissions[j].since = admissions[i].since
  <2>1. PICK i \in B : \A j \in B : admissions[j].since = admissions[i].since
    BY <1>4
  <2> DEFINE all == AdmittedIn(c, admissions[i].since)
  <2>2. B \subseteq all /\ IsFiniteSet(all) /\ Cardinality(all) \in 0 .. Limit
    BY <1>1, <1>2, <2>1 DEF AdmittedIn
  <2> HIDE DEF all
  <2>3. IsFiniteSet(B) /\ Cardinality(B) <= Cardinality(all)
    BY <2>2, FS_Subset
  <2>4. Cardinality(B) \in Nat
    BY <2>3, FS_CardinalityType
  <2> QED
    BY <1>1, <2>2, <2>3, <2>4
<1>5. CASE \E i, j \in B : admissions[i].since < admissions[j].since
  <2>1. PICK i \in B, j \in B : admissions[i].since < admissions[j].since
    BY <1>5
  <2> DEFINE earlier == AdmittedIn(c, admissions[i].since)
             later == AdmittedIn(c, admissions[j].since)
  <2>2. WindowsApart(c)
    BY DEF BurstInv
  <2>3. ASSUME NEW k \in B
        PROVE  admissions[k].since = admissions[i].since \/ admissions[k].since = admissions[j].since
    <3>1. /\ i \in Of(c) /\ j \in Of(c) /\ k \in Of(c)
          /\ \A b \in {i, j, k} : t <= admissions[b].at /\ admissions[b].at < t + Window
      BY <2>1
    <3>2. admissions[i].since + Window <= admissions[j].since
      BY <2>1, <2>2, <3>1 DEF WindowsApart
    <3>3. \A b \in {i, j} :
            \/ admissions[k].since = admissions[b].since
            \/ admissions[k].since + Window <= admissions[b].since
            \/ admissions[b].since + Window <= admissions[k].since
      BY <1>1, <2>2, <3>1 DEF WindowsApart
    <3> QED
      BY <1>1, <3>1, <3>2, <3>3
  <2>4. PICK o \in earlier : admissions[o].at = admissions[i].since
    BY <1>1, <2>1 DEF BurstInv, CheckInWindow, Begun, Of
  <2>5. o \notin B
    <3>1. admissions[i].since + Window <= admissions[j].since
      BY <2>1, <2>2 DEF WindowsApart
    <3> QED
      BY <1>1, <2>1, <2>4, <3>1
  <2>6. B \subseteq (earlier \ {o}) \cup later
    BY <2>3, <2>5 DEF AdmittedIn
  <2>7. /\ IsFiniteSet(earlier) /\ Cardinality(earlier) \in 0 .. Limit
        /\ IsFiniteSet(later) /\ Cardinality(later) \in 0 .. Limit
    BY <1>1, <1>2, <2>1
  <2>8. IsFiniteSet(earlier \ {o}) /\ Cardinality(earlier \ {o}) = Cardinality(earlier) - 1
    BY <2>4, <2>7, FS_RemoveElement
  <2>9. /\ IsFiniteSet((earlier \ {o}) \cup later)
        /\ Cardinality((earlier \ {o}) \cup later) <= 2 * Limit - 1
    <3> HIDE DEF earlier, later
    <3>1. /\ IsFiniteSet((earlier \ {o}) \cup later)
          /\ Cardinality((earlier \ {o}) \cup later)
               <= Cardinality(earlier \ {o}) + Cardinality(later)
      BY <2>7, <2>8, UnionAtMost
    <3> QED
      BY <1>1, <2>7, <2>8, <3>1, UnionAtMost, FS_CardinalityType
  <2> HIDE DEF earlier, later
  <2> QED
    BY <1>1, <2>6, <2>9, FS_Subset, FS_CardinalityType
<1> QED
  BY <1>1, <1>3, <1>4, <1>5

\* A check counts in a window of its client that it falls into, and adds an admission
\* unless it refuses.
LEMMA CheckCounts ==
  ASSUME LimiterInv, BurstInv, NEW c \in Client, Check(c),
         NEW n, n = Len(admissions) + 1, NEW s, s = windows'[c].startedAt
  PROVE  /\ windows'[c].count \in Nat \ {0}
         /\ c \in Kept(tick) => windows'[c].count = windows[c].count + 1
         /\ s \in Nat /\ s <= tick /\ tick < s + Window
         /\ windows'[c].count <= Limit =>
              /\ n \notin DOMAIN admissions /\ DOMAIN admissions' = DOMAIN admissions \cup {n}
              /\ \A i \in DOMAIN admissions : admissions'[i] = admissions[i]
              /\ admissions'[n] = [client |-> c, at |-> tick, since |-> s]
              /\ admissions' \in Seq(Admission)
         /\ ~ windows'[c].count <= Limit => admissions' = admissions /\ c \in Kept(tick)
<1>1. /\ windows'[c] = Counted(c, tick) /\ s \in Nat
      /\ c \in Kept(tick) => s = windows[c].startedAt
      /\ c \notin Kept(tick) => s = tick /\ windows'[c].count = 1
  BY CheckEffect, Answered
<1>2. tick \in Nat /\ Window \in Nat \ {0} /\ Limit \in Nat \ {0}
  BY LimiterParameters DEF LimiterInv, LimiterTyped
<1>3. c \in Kept(tick) =>
        /\ c \in DOMAIN windows /\ tick - windows[c].startedAt < Window
        /\ windows[c].startedAt \in Nat /\ windows[c].count \in Nat
        /\ windows[c].startedAt <= tick
  BY DEF Kept, Live, BurstInv, AdmissionsTyped, LimiterInv, LimiterTyped
<1>4. c \in Kept(tick) => windows'[c].count = windows[c].count + 1
  BY <1>1, <1>3 DEF Counted
<1>5. /\ windows'[c].count \in Nat \ {0}
      /\ s <= tick /\ tick < s + Window
  BY <1>1, <1>2, <1>3, <1>4
<1>6. ASSUME windows'[c].count <= Limit
      PROVE  /\ n \notin DOMAIN admissions /\ DOMAIN admissions' = DOMAIN admissions \cup {n}
             /\ \A i \in DOMAIN admissions : admissions'[i] = admissions[i]
             /\ admissions'[n] = [client |-> c, at |-> tick, since |-> s]
             /\ admissions' \in Seq(Admission)
  <2>1. admissions' = Append(admissions, [client |-> c, at |-> tick, since |-> s])
    BY <1>1, <1>6 DEF Check
  <2>2. admissions \in Seq(Admission) /\ [client |-> c, at |-> tick, since |-> s] \in Admission
    BY <1>1, <1>2 DEF BurstInv, AdmissionsTyped, Admission
  <2> QED
    BY <2>1, <2>2
<1>7. ASSUME ~ windows'[c].count <= Limit PROVE admissions' = admissions /\ c \in Kept(tick)
  BY <1>1, <1>2, <1>7 DEF Check
<1> QED
  BY <1>1, <1>4, <1>5, <1>6, <1>7

\* Only the client of a check is admitted, and once, in the window that counts it.
LEMMA AdmissionAdded ==
  ASSUME LimiterInv, BurstInv, NEW c \in Client, Check(c), NEW n, n = Len(admissions) + 1
  PROVE  /\ \A k \in Client \ {c} :
              Of(k)' = Of(k) /\ \A s : AdmittedIn(k, s)' = AdmittedIn(k, s)
         /\ windows'[c].count <= Limit =>
              /\ Of(c)' = Of(c) \cup {n} /\ n \notin Of(c)
              /\ \A s : AdmittedIn(c, s)' = IF s = windows'[c].startedAt
                          THEN AdmittedIn(c, s) \cup {n} ELSE AdmittedIn(c, s)
         /\ ~ windows'[c].count <= Limit =>
              Of(c)' = Of(c) /\ \A s : AdmittedIn(c, s)' = AdmittedIn(c, s)
<1>1. CASE windows'[c].count <= Limit
  <2>0. PICK w : w = windows'[c].startedAt
    OBVIOUS
  <2>1. /\ n \notin DOMAIN admissions /\ DOMAIN admissions' = DOMAIN admissions \cup {n}
        /\ \A i \in DOMAIN admissions : admissions'[i] = admissions[i]
        /\ admissions'[n].client = c /\ admissions'[n].since = windows'[c].startedAt
    <3>1. admissions'[n] = [client |-> c, at |-> tick, since |-> w]
      BY <1>1, <2>0, CheckCounts
    <3>2. admissions'[n].client = c /\ admissions'[n].since = w
      BY <3>1
    <3>3. /\ n \notin DOMAIN admissions /\ DOMAIN admissions' = DOMAIN admissions \cup {n}
          /\ \A i \in DOMAIN admissions : admissions'[i] = admissions[i]
      BY <1>1, <2>0, CheckCounts
    <3> QED
      BY <2>0, <3>2, <3>3
  <2>2. Of(c)' = Of(c) \cup {n} /\ n \notin Of(c)
    BY <2>1 DEF Of
  <2>3. ASSUME NEW k \in Client \ {c} PROVE Of(k)' = Of(k)
    BY <2>1 DEF Of
  <2>4. \A i, s : admissions'[n].since = s <=> s = windows'[c].startedAt
    BY <2>1
  <2>5. ASSUME NEW s
        PROVE  AdmittedIn(c, s)' = IF s = windows'[c].startedAt
                                     THEN AdmittedIn(c, s) \cup {n} ELSE AdmittedIn(c, s)
    <3>1. \A i \in Of(c) : admissions'[i] = admissions[i]
      BY <2>1 DEF Of
    <3>2. AdmittedIn(c, s)' = {i \in Of(c) \cup {n} : admissions'[i].since = s}
      BY <2>2 DEF AdmittedIn
    <3> QED
      BY <2>1, <2>2, <3>1, <3>2 DEF AdmittedIn
  <2>6. ASSUME NEW k \in Client \ {c}, NEW s PROVE AdmittedIn(k, s)' = AdmittedIn(k, s)
    BY <2>1, <2>3 DEF AdmittedIn, Of
  <2> QED
    BY <1>1, <2>2, <2>3, <2>5, <2>6
<1>2. CASE ~ windows'[c].count <= Limit
  <2>1. admissions' = admissions
    BY <1>2, CheckCounts
  <2>2. \A k, s : Of(k)' = Of(k) /\ AdmittedIn(k, s)' = AdmittedIn(k, s)
    BY <2>1 DEF Of, AdmittedIn
  <2> QED
    BY <1>2, <2>2
<1> QED
  BY <1>1, <1>2

\* A window that a check removes is over, unless its client is forgotten.
LEMMA RemovedIsOver ==
  ASSUME LimiterInv, NEW c \in Client, Check(c), NEW k \in Client \ forgotten'
  PROVE  /\ k \notin forgotten
         /\ k \in DOMAIN windows \ Kept(tick) => windows[k].startedAt + Window <= tick
<1>1. forgotten' = forgotten \cup {d \in DOMAIN windows \ Kept(tick) :
                                     Live(windows[d], tick)}
  BY DEF Check
<1>2. tick \in Nat /\ \A d \in DOMAIN windows : windows[d].startedAt \in Nat
  BY DEF LimiterInv, LimiterTyped
<1> QED
  BY <1>1, <1>2, LimiterParameters DEF Live

\* A window that has begun has begun for good, and so has the one that counts the check.
LEMMA BegunStays ==
  ASSUME LimiterInv, BurstInv, NEW c \in Client, Check(c)
  PROVE  /\ \A k \in Client : \A s : Begun(k, s) => Begun(k, s)'
         /\ \A s : s = windows'[c].startedAt => Begun(c, s)'
<1>1. PICK n : n = Len(admissions) + 1
  OBVIOUS
<1>2. PICK w : w = windows'[c].startedAt
  OBVIOUS
<1>3. ASSUME NEW k \in Client, NEW s, Begun(k, s) PROVE Begun(k, s)'
  <2>1. PICK o \in AdmittedIn(k, s) : admissions[o].at = s
    BY <1>3 DEF Begun
  <2>2. admissions'[o] = admissions[o]
    BY <1>1, <1>2, <2>1, CheckCounts DEF AdmittedIn, Of
  <2>3. o \in AdmittedIn(k, s)'
    BY <1>1, <2>1, AdmissionAdded
  <2> QED
    BY <2>1, <2>2, <2>3 DEF Begun
<1>4. CASE c \in Kept(tick)
  BY <1>2, <1>3, <1>4, CheckEffect DEF BurstInv, CheckInWindow
<1>5. ASSUME c \notin Kept(tick), NEW s, s = windows'[c].startedAt PROVE Begun(c, s)'
  <2>1. windows'[c].count = 1 /\ s = tick
    BY <1>5, CheckEffect
  <2>2. windows'[c].count <= Limit
    BY <2>1, LimiterParameters
  <2>3. n \in AdmittedIn(c, s)'
    BY <1>1, <1>5, <2>2, AdmissionAdded
  <2>4. admissions'[n] = [client |-> c, at |-> tick, since |-> s]
    BY <1>1, <1>5, <2>2, CheckCounts
  <2> QED
    BY <2>1, <2>3, <2>4 DEF Begun
<1> QED
  BY <1>3, <1>4, <1>5

LEMMA CheckKeepsBurst ==
  ASSUME LimiterInv, BurstInv, NEW c \in Client, Check(c)
  PROVE  BurstInv'
<1>1. PICK n : n = Len(admissions) + 1
  OBVIOUS
<1>2. PICK w : w = windows'[c].startedAt
  OBVIOUS
<1> DEFINE Admits == windows'[c].count <= Limit
<1>3. /\ windows'[c].count \in Nat \ {0}
      /\ w \in Nat /\ w <= tick /\ tick < w + Window
      /\ c \in Kept(tick) => windows'[c].count = windows[c].count + 1
      /\ Admits =>
           /\ n \notin DOMAIN admissions /\ DOMAIN admissions' = DOMAIN admissions \cup {n}
           /\ admissions'[n].client = c /\ admissions'[n].at = tick /\ admissions'[n].since = w
      /\ ~ Admits => admissions' = admissions /\ c \in Kept(tick)
      /\ \A i \in DOMAIN admissions : admissions'[i] = admissions[i]
      /\ admissions' \in Seq(Admission)
  <2>1. CASE Admits
    <3>1. admissions'[n] = [client |-> c, at |-> tick, since |-> w]
      BY <1>1, <1>2, <2>1, CheckCounts
    <3>2. /\ admissions'[n].client = c /\ admissions'[n].at = tick
          /\ admissions'[n].since = w
      BY <3>1
    <3> HIDE DEF Admits
    <3>3. /\ n \notin DOMAIN admissions /\ DOMAIN admissions' = DOMAIN admissions \cup {n}
          /\ \A i \in DOMAIN admissions : admissions'[i] = admissions[i]
          /\ admissions' \in Seq(Admission)
      BY <1>1, <1>2, <2>1, CheckCounts DEF Admits
    <3>4. /\ windows'[c].count \in Nat \ {0}
          /\ w \in Nat /\ w <= tick /\ tick < w + Window
          /\ c \in Kept(tick) => windows'[c].count = windows[c].count + 1
      BY <1>1, <1>2, CheckCounts
    <3> QED
      BY <2>1, <3>2, <3>3, <3>4
  <2>2. CASE ~ Admits
    BY <1>1, <1>2, <2>2, CheckCounts DEF BurstInv, AdmissionsTyped
  <2> QED
    BY <2>1, <2>2
<1>4. /\ Kept(tick) \subseteq DOMAIN windows /\ DOMAIN windows' = Kept(tick) \cup {c}
      /\ \A k \in Kept(tick) \ {c} : windows'[k] = windows[k]
      /\ tick' = tick /\ tick \in Nat /\ Window \in Nat \ {0} /\ Limit \in Nat \ {0}
      /\ c \in Kept(tick) => w = windows[c].startedAt
      /\ c \notin Kept(tick) => w = tick /\ windows'[c].count = 1
  BY <1>2, CheckEffect, LimiterParameters DEF LimiterInv, LimiterTyped
<1>5. \A i \in DOMAIN admissions : admissions[i] \in Admission
  BY DEF BurstInv, AdmissionsTyped
<1>6. AdmissionsTyped'
  BY <1>2, <1>3, <1>4 DEF BurstInv, AdmissionsTyped
<1>7. CheckInWindow'
  <2>1. ASSUME NEW i \in DOMAIN admissions'
        PROVE  /\ admissions'[i].since <= admissions'[i].at
               /\ admissions'[i].at < admissions'[i].since + Window
               /\ \A k, s : k = admissions'[i].client /\ s = admissions'[i].since => Begun(k, s)'
    <3>1. CASE i \in DOMAIN admissions
      <4>1. admissions'[i] = admissions[i] /\ admissions[i].client \in Client
        BY <1>3, <1>5, <3>1 DEF Admission
      <4> QED
        BY <3>1, <4>1, BegunStays DEF BurstInv, CheckInWindow
    <3>2. CASE i \notin DOMAIN admissions
      <4>1. i = n /\ Admits
        BY <1>3, <3>2
      <4> QED
        BY <1>2, <1>3, <4>1, BegunStays
    <3> QED
      BY <3>1, <3>2
  <2>2. ASSUME NEW k \in DOMAIN windows'
        PROVE  k \in Client /\ \A s : s = windows'[k].startedAt => Begun(k, s)'
    <3>1. CASE k = c
      BY <3>1, BegunStays
    <3>2. CASE k # c
      BY <1>4, <3>2, BegunStays DEF BurstInv, CheckInWindow
    <3> QED
      BY <3>1, <3>2
  <2> QED
    BY <2>1, <2>2 DEF CheckInWindow
<1>8. ASSUME NEW k \in Client \ forgotten', k # c
      PROVE  (LastWindow(k) /\ WindowsApart(k) /\ CountHolds(k))'
  <2>1. /\ Of(k)' = Of(k) /\ \A s : AdmittedIn(k, s)' = AdmittedIn(k, s)
        /\ LastWindow(k) /\ WindowsApart(k) /\ CountHolds(k)
        /\ k \in DOMAIN windows \ Kept(tick) => windows[k].startedAt + Window <= tick
    BY <1>1, <1>8, AdmissionAdded, RemovedIsOver DEF BurstInv
  <2>2. /\ k \in DOMAIN windows' <=> k \in Kept(tick)
        /\ k \in DOMAIN windows' => k \in DOMAIN windows /\ windows'[k] = windows[k]
    BY <1>4, <1>8
  <2>3. \A i \in Of(k) : admissions'[i] = admissions[i] /\ admissions[i].since \in Nat
    BY <1>3, <1>5 DEF Of, Admission
  <2>4. \A d \in DOMAIN windows : windows[d].startedAt \in Nat
    BY DEF LimiterInv, LimiterTyped
  <2>5. LastWindow(k)'
    BY <1>4, <2>1, <2>2, <2>3, <2>4 DEF LastWindow
  <2>6. WindowsApart(k)'
    BY <2>1, <2>3 DEF WindowsApart
  <2>7. CountHolds(k)'
    BY <2>1, <2>2 DEF CountHolds
  <2> QED
    BY <2>5, <2>6, <2>7
<1>9. ASSUME c \notin forgotten'
      PROVE  (LastWindow(c) /\ WindowsApart(c) /\ CountHolds(c))'
  <2>1. /\ Admits => /\ Of(c)' = Of(c) \cup {n} /\ n \notin Of(c)
                     /\ \A s : AdmittedIn(c, s)' =
                          IF s = w THEN AdmittedIn(c, s) \cup {n} ELSE AdmittedIn(c, s)
        /\ ~ Admits => Of(c)' = Of(c) /\ \A s : AdmittedIn(c, s)' = AdmittedIn(c, s)
    BY <1>1, <1>2, AdmissionAdded
  <2>2. /\ LastWindow(c) /\ WindowsApart(c) /\ CountHolds(c)
        /\ c \in DOMAIN windows \ Kept(tick) => windows[c].startedAt + Window <= tick
    BY <1>9, RemovedIsOver DEF BurstInv
  <2>3. \A i \in Of(c) : admissions'[i] = admissions[i] /\ admissions[i].since \in Nat
    BY <1>3, <1>5 DEF Of, Admission
  <2>4. c \in DOMAIN windows => windows[c].startedAt \in Nat /\ windows[c].count \in Nat
    BY DEF LimiterInv, LimiterTyped, BurstInv, AdmissionsTyped
  <2>5. \A i \in Of(c) : \/ admissions[i].since + Window <= w
                         \/ admissions[i].since = w /\ c \in Kept(tick)
    BY <1>4, <2>2, <2>3, <2>4 DEF LastWindow
  <2>6. \A i \in Of(c)' : \/ i \in Of(c)
                          \/ i = n /\ Admits /\ admissions'[i].since = w
    BY <1>3, <2>1
  <2>7. LastWindow(c)'
    BY <1>2, <1>4, <2>3, <2>5, <2>6 DEF LastWindow
  <2>8. WindowsApart(c)'
    <3> SUFFICES ASSUME NEW i \in Of(c)', NEW j \in Of(c)',
                        admissions'[i].since < admissions'[j].since
                 PROVE  admissions'[i].since + Window <= admissions'[j].since
      BY DEF WindowsApart
    <3>1. CASE i \in Of(c) /\ j \in Of(c)
      BY <2>2, <2>3, <3>1 DEF WindowsApart
    <3>2. CASE i \in Of(c) /\ j \notin Of(c)
      BY <1>3, <1>4, <2>3, <2>5, <2>6, <3>2
    <3>3. CASE i \notin Of(c)
      <4>1. admissions'[i].since = w
        BY <2>6, <3>3
      <4>2. CASE j \in Of(c)
        BY <1>3, <1>4, <2>3, <2>5, <4>1, <4>2
      <4>3. CASE j \notin Of(c)
        BY <1>3, <2>6, <4>1, <4>3
      <4> QED
        BY <4>2, <4>3
    <3> QED
      BY <3>1, <3>2, <3>3
  <2>9. CountHolds(c)'
    <3>1. \A s \in Nat : /\ IsFiniteSet(AdmittedIn(c, s))
                         /\ Cardinality(AdmittedIn(c, s)) \in 0 .. Limit
      BY <1>4, <2>2, ChecksFinite DEF BurstInv, CountHolds
    <3>2. Cardinality(AdmittedIn(c, w)) < windows'[c].count
      <4>1. CASE c \in Kept(tick)
        <5>1. Cardinality(AdmittedIn(c, w)) <= windows[c].count
          BY <1>4, <2>2, <4>1 DEF CountHolds
        <5>2. Cardinality(AdmittedIn(c, w)) \in Nat /\ windows[c].count \in Nat
          <6>1. windows[c].count \in Nat
            BY <1>4, <2>4, <4>1
          <6>2. Cardinality(AdmittedIn(c, w)) \in 0 .. Limit
            BY <1>3, <3>1
          <6> QED
            BY <1>4, <6>1, <6>2
        <5>3. windows'[c].count = windows[c].count + 1
          BY <1>3, <4>1
        <5> QED
          BY <5>1, <5>2, <5>3
      <4>2. CASE c \notin Kept(tick)
        <5>1. AdmittedIn(c, w) = {}
          BY <1>3, <1>4, <2>3, <2>5, <4>2 DEF AdmittedIn
        <5> QED
          BY <1>4, <4>2, <5>1, FS_EmptySet
      <4> QED
        BY <4>1, <4>2
    <3>3. ASSUME NEW s \in Nat
          PROVE  /\ Cardinality(AdmittedIn(c, s)') <= Limit
                 /\ s = w => Cardinality(AdmittedIn(c, s)') <= windows'[c].count
      <4>1. CASE Admits /\ s = w
        <5>1. AdmittedIn(c, s)' = AdmittedIn(c, s) \cup {n}
          BY <2>1, <4>1
        <5>2. \/ Cardinality(AdmittedIn(c, s) \cup {n}) = Cardinality(AdmittedIn(c, s))
              \/ Cardinality(AdmittedIn(c, s) \cup {n}) = Cardinality(AdmittedIn(c, s)) + 1
          <6>1. IsFiniteSet(AdmittedIn(c, s))
            BY <3>1
          <6> QED
            BY <6>1, FS_AddElement
        <5>3. Cardinality(AdmittedIn(c, s)) \in Nat /\ s = w /\ Admits
          BY <3>1, <4>1
        <5> QED
          BY <1>3, <1>4, <3>2, <5>1, <5>2, <5>3
      <4>2. CASE ~ (Admits /\ s = w)
        <5>1. AdmittedIn(c, s)' = AdmittedIn(c, s)
          BY <2>1, <4>2
        <5>2. Cardinality(AdmittedIn(c, s)) \in Nat /\ Cardinality(AdmittedIn(c, s)) <= Limit
          BY <1>4, <3>1
        <5>3. s = w => Cardinality(AdmittedIn(c, s)) < windows'[c].count
          BY <3>2
        <5>4. windows'[c].count \in Nat
          BY <1>3
        <5> QED
          BY <5>1, <5>2, <5>3, <5>4
      <4> QED
        BY <4>1, <4>2
    <3> QED
      BY <1>2, <1>3, <3>3 DEF CountHolds
  <2> QED
    BY <2>7, <2>8, <2>9
<1>10. \A k \in Client \ forgotten' : (LastWindow(k) /\ WindowsApart(k) /\ CountHolds(k))'
  BY <1>8, <1>9
<1> QED
  BY <1>6, <1>7, <1>10 DEF BurstInv

LEMMA BurstStep == LimiterInv /\ BurstInv /\ [LimiterNext]_limiterVars => BurstInv'
<1> SUFFICES ASSUME LimiterInv, BurstInv, [LimiterNext]_limiterVars PROVE BurstInv'
  OBVIOUS
<1>1. CASE UNCHANGED <<windows, admissions, forgotten>> /\ tick <= tick'
  <2>1. \A c, s : Of(c)' = Of(c) /\ AdmittedIn(c, s)' = AdmittedIn(c, s)
    BY <1>1 DEF Of, AdmittedIn
  <2>2. /\ tick \in Nat /\ tick' \in Nat
        /\ \A c \in DOMAIN windows : windows[c].startedAt \in Nat
    BY LimiterStep DEF LimiterInv, LimiterTyped
  <2>3. AdmissionsTyped' /\ CheckInWindow'
    BY <1>1, <2>1, <2>2 DEF BurstInv, AdmissionsTyped, CheckInWindow, Begun
  <2>4. ASSUME NEW c \in Client \ forgotten PROVE (LastWindow(c) /\ WindowsApart(c) /\ CountHolds(c))'
    <3>1. \A i \in Of(c) : admissions[i].since \in Nat
      <4>1. \A i \in DOMAIN admissions : admissions[i] \in Admission
        BY DEF BurstInv, AdmissionsTyped
      <4> QED
        BY <4>1 DEF Of, Admission
    <3>2. LastWindow(c)'
      BY <1>1, <2>1, <2>2, <3>1, LimiterParameters DEF BurstInv, LastWindow
    <3>3. WindowsApart(c)'
      BY <1>1, <2>1 DEF BurstInv, WindowsApart
    <3>4. CountHolds(c)'
      BY <1>1, <2>1 DEF BurstInv, CountHolds
    <3> QED
      BY <3>2, <3>3, <3>4
  <2> QED
    BY <1>1, <2>3, <2>4 DEF BurstInv
<1>2. ASSUME NEW c \in Client, Check(c) PROVE BurstInv'
  BY <1>2, CheckKeepsBurst
<1>3. CASE TimeGoesOn
  BY <1>1, <1>3 DEF TimeGoesOn, LimiterInv, LimiterTyped
<1>4. CASE UNCHANGED limiterVars
  BY <1>1, <1>4 DEF limiterVars, LimiterInv, LimiterTyped
<1> QED
  BY <1>2, <1>3, <1>4 DEF LimiterNext

\* Nobody is admitted twice Limit times in Window ticks, however the checks of all
\* clients fall, unless a window was evicted while it was live.
THEOREM BurstsBounded == LimiterSpec => []BurstBounded
<1>1. BurstInv => BurstBounded
  <2> SUFFICES ASSUME BurstInv, NEW c \in Client \ forgotten, NEW t \in 0 .. MaxTick
               PROVE  Cardinality({i \in DOMAIN admissions :
                         /\ admissions[i].client = c
                         /\ t <= admissions[i].at /\ admissions[i].at < t + Window}) < 2 * Limit
    BY DEF BurstBounded
  <2> DEFINE B == {i \in Of(c) : t <= admissions[i].at /\ admissions[i].at < t + Window}
  <2>1. B = {i \in DOMAIN admissions :
               /\ admissions[i].client = c
               /\ t <= admissions[i].at /\ admissions[i].at < t + Window}
    BY DEF Of
  <2>2. Cardinality(B) < 2 * Limit
    BY BurstOfTwo
  <2> QED
    BY <2>1, <2>2
<1> QED
  BY <1>1, InitLimiter, LimiterStep, InitBurst, BurstStep, PTL DEF LimiterSpec

=============================================================================
