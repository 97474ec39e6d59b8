----------------------------- MODULE RateLimiter -----------------------------
(***************************************************************************)
(* The fixed-window limiter in front of POST /api/feedback.  A check is    *)
(* synchronous, so it is one step.  The table is a Map, which JavaScript   *)
(* iterates in the order of insertion: a window has the turn at which it   *)
(* was inserted.  An instant is a tick of Date.now(), of which a second has *)
(* many: the header Retry-After is in whole seconds.                       *)
(***************************************************************************)
EXTENDS Integers, FiniteSets, Sequences

CONSTANTS
  Client,        \* keys: addresses of clients
  Limit,         \* limit
  Window,        \* windowMs, in ticks
  Second,        \* ticks of a second: 1000
  MaxKeys,       \* maxKeys
  MaxTick,       \* bound: the last instant of a run
  MaxChecks      \* bound: checks in a run

ASSUME LimiterParameters ==
  /\ Limit \in Nat \ {0} /\ MaxKeys \in Nat
  /\ Window \in Nat \ {0} /\ Second \in Nat \ {0}
ASSUME LimiterBounds == MaxTick \in Nat /\ MaxChecks \in Nat

VARIABLES
  tick,       \* now()
  windows,    \* the table: client -> window
  checks,     \* how many checks there were
  admissions, \* history: whom they admitted, when, and when that window had begun
  forgotten,  \* history: clients whose window was evicted while it was live
  retryAt     \* when a client that was refused was told to come back, or 0

limiterVars == <<tick, windows, checks, admissions, forgotten, retryAt>>

-----------------------------------------------------------------------------
\* Variant: a window lives for an instant too short.
LiveTooShort(w, now) == now - w.startedAt < Window - 1

Live(w, now) == now - w.startedAt < Window

\* sweep: dead windows go, then the oldest live ones beyond MaxKeys.
Kept(now) ==
  LET live == {c \in DOMAIN windows : Live(windows[c], now)}
      Younger(c) == {d \in live : windows[d].turn > windows[c].turn}
  IN  {c \in live : Cardinality(Younger(c)) < MaxKeys}

\* Variant: seconds are rounded down.
RetryAfterFloor(w, now) ==
  LET seconds == (w.startedAt + Window - now) \div Second
  IN  IF seconds < 1 THEN 1 ELSE seconds

\* What is left of the window in seconds, rounded up: Math.max(1, Math.ceil(... / 1000)).
RetryAfter(w, now) ==
  LET seconds == (w.startedAt + Window - now + Second - 1) \div Second
  IN  IF seconds < 1 THEN 1 ELSE seconds

\* The window of c at a check: the one that the sweep left, or a new one, counts.
Counted(c, now) ==
  IF c \in Kept(now) THEN [windows[c] EXCEPT !.count = @ + 1]
                     ELSE [startedAt |-> now, count |-> 1, turn |-> checks]

LimiterInit ==
  /\ tick = 0
  /\ windows = <<>>
  /\ checks = 0
  /\ admissions = <<>>
  /\ forgotten = {}
  /\ retryAt = [c \in Client |-> 0]

\* check(c): the route answers 429 with Retry-After to a refused one.
Check(c) ==
  LET kept == Kept(tick)
      own == Counted(c, tick)
  IN /\ checks < MaxChecks
     /\ checks' = checks + 1
     /\ windows' = [k \in kept \cup {c} |-> IF k = c THEN own ELSE windows[k]]
     /\ forgotten' = forgotten \cup {k \in DOMAIN windows \ kept : Live(windows[k], tick)}
     /\ IF own.count <= Limit
          THEN /\ admissions' = Append(admissions, [client |-> c, at |-> tick,
                                                   since |-> own.startedAt])
               /\ retryAt' = [retryAt EXCEPT ![c] = 0]
          ELSE /\ retryAt' = [retryAt EXCEPT ![c] = tick + Second * RetryAfter(own, tick)]
               /\ UNCHANGED admissions
     /\ UNCHANGED tick

TimeGoesOn ==
  /\ tick < MaxTick
  /\ tick' = tick + 1
  /\ UNCHANGED <<windows, checks, admissions, forgotten, retryAt>>

LimiterNext == (\E c \in Client : Check(c)) \/ TimeGoesOn

LimiterSpec == LimiterInit /\ [][LimiterNext]_limiterVars

-----------------------------------------------------------------------------
\* A client whose windows were not evicted is admitted fewer than twice Limit times
\* in any Window ticks: the end of one window and the start of the next.
BurstBounded ==
  \A c \in Client \ forgotten, t \in 0 .. MaxTick :
    Cardinality({i \in DOMAIN admissions :
                   /\ admissions[i].client = c
                   /\ t <= admissions[i].at /\ admissions[i].at < t + Window}) < 2 * Limit

\* A client that was told to come back after some seconds, and comes back no sooner,
\* is admitted.
RetryHonoured ==
  [][\A c \in Client :
       retryAt[c] # 0 /\ retryAt[c] <= tick => retryAt'[c] \in {0, retryAt[c]}
    ]_limiterVars

=============================================================================
