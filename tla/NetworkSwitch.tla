---------------------------- MODULE NetworkSwitch ----------------------------
(***************************************************************************)
(* ensureWalletNetwork: before an action signs with the wallet, the wallet *)
(* is brought to the network of the server.  An action opens the wallet's  *)
(* switcher, listens and polls, and gives the user until a deadline; the   *)
(* flag `switching' keeps the background listener of App.tsx quiet until   *)
(* a quiet window has passed after the switcher settled.                   *)
(*                                                                         *)
(* The script is single threaded: a step is one task with the promise      *)
(* continuations that run right after it.  Time is counted in ticks:       *)
(* only the order in which the timers fire matters.                        *)
(***************************************************************************)
EXTENDS Integers

CONSTANTS
  Action,         \* actions of the user that need the wallet
  SwitchTimeout,  \* NETWORK_SWITCH_TIMEOUT_MS in ticks
  QuietWindow,    \* NETWORK_QUIET_WINDOW_MS in ticks
  MaxMoves,       \* bound: times the user moves the wallet to another network
  MaxStarts       \* bound: actions started in a run

ASSUME SwitchTimers == SwitchTimeout \in Nat \ {0} /\ QuietWindow \in Nat \ {0}

VARIABLES
  expected,   \* whether the wallet is on the network of the server
  action,     \* the state of each action
  switching,  \* switchingNetwork
  quiet,      \* ticks until quietTimer fires, 0 when it is not set
  overlapped, \* whether a switcher was opened before an earlier one's quiet window ended
  listener,   \* "idle", or asking for the network since a switcher was "shut" or "open"
  spoken,     \* whether the listener spoke for all that it found a switcher open
  moves,      \* moves so far
  starts      \* starts so far

switchVars ==
  <<expected, action, switching, quiet, overlapped, listener, spoken, moves, starts>>

\* `heard' is the answer of a check that is on its way, `good' whether the wallet was
\* on the right network, or did not say, since the action began.
Waiting == [pc |-> "idle", left |-> 0, heard |-> "none", good |-> FALSE]

Open(a) == action[a].pc = "open"

SwitchInit ==
  /\ expected \in BOOLEAN
  /\ action = [a \in Action |-> Waiting]
  /\ switching = FALSE
  /\ quiet = 0
  /\ overlapped = FALSE
  /\ listener = "idle"
  /\ spoken = FALSE
  /\ moves = 0
  /\ starts = 0

-----------------------------------------------------------------------------
(* The action *)

Start(a) ==
  /\ action[a].pc = "idle"
  /\ starts < MaxStarts
  /\ starts' = starts + 1
  /\ action' = [action EXCEPT ![a] = [Waiting EXCEPT !.pc = "look", !.good = expected]]
  /\ UNCHANGED <<expected, switching, quiet, overlapped, listener, spoken, moves>>

\* The first query finds the network right, or the error of the query ends the action.
LookPasses(a) ==
  /\ action[a].pc = "look"
  /\ \/ expected /\ action' = [action EXCEPT ![a].pc = "sign"]
     \/ action' = [action EXCEPT ![a] = Waiting]
  /\ UNCHANGED <<expected, switching, quiet, overlapped, listener, spoken, moves, starts>>

\* The switcher is opened.  A timer that an earlier action has left is not cleared.
LookOpens(a) ==
  /\ action[a].pc = "look"
  /\ ~ expected
  /\ action' = [action EXCEPT ![a].pc = "open", ![a].left = SwitchTimeout]
  /\ switching' = TRUE
  /\ overlapped' = (overlapped \/ quiet > 0 \/ \E b \in Action : Open(b))
  /\ UNCHANGED <<expected, quiet, listener, spoken, moves, starts>>

\* A poll, or the event of a change, asks the wallet; a failed query counts as right.
AskNetwork(a) ==
  /\ Open(a)
  /\ action[a].heard = "none"
  /\ \/ action' = [action EXCEPT ![a].heard = IF expected THEN "right" ELSE "wrong"]
     \/ action' = [action EXCEPT ![a].heard = "right", ![a].good = TRUE]
  /\ UNCHANGED <<expected, switching, quiet, overlapped, listener, spoken, moves, starts>>

\* Variant: the quiet window is held only after an approval.
HoldQuietIfApproved(approved) == quiet' = IF approved THEN QuietWindow ELSE quiet

\* holdQuietWindow, in the finally of ensureWalletNetwork.
HoldQuiet(approved) == quiet' = QuietWindow

\* finish, the clean-up, and the outcome that ensureWalletNetwork gives its caller.
Settle(a, approved) ==
  /\ action' = [action EXCEPT ![a] =
       IF approved THEN [@ EXCEPT !.pc = "sign", !.left = 0, !.heard = "none"] ELSE Waiting]
  /\ HoldQuiet(approved)
  /\ UNCHANGED <<expected, switching, overlapped, listener, spoken, moves, starts>>

HearNetwork(a) ==
  /\ Open(a)
  /\ \/ action[a].heard = "right" /\ Settle(a, TRUE)
     \/ /\ action[a].heard = "wrong"
        /\ action' = [action EXCEPT ![a].heard = "none"]
        /\ UNCHANGED <<expected, switching, quiet, overlapped, listener, spoken, moves, starts>>

\* The wallet refuses to switch, or the user dismisses its switcher.
Refuse(a) == Open(a) /\ Settle(a, FALSE)

\* Variant: the deadline takes the switch for granted.
DeadlineApproves(a) == Open(a) /\ action[a].left = 0 /\ Settle(a, TRUE)

Deadline(a) == Open(a) /\ action[a].left = 0 /\ Settle(a, FALSE)

\* signPskt answers, or throws.
Sign(a) ==
  /\ action[a].pc = "sign"
  /\ action' = [action EXCEPT ![a] = Waiting]
  /\ UNCHANGED <<expected, switching, quiet, overlapped, listener, spoken, moves, starts>>

-----------------------------------------------------------------------------
(* Time, the wallet and the listener *)

\* No timer is overtaken by the clock.
SwitchTick ==
  /\ \A a \in Action : Open(a) => action[a].left > 0
  /\ quiet > 0 \/ \E a \in Action : Open(a)
  /\ action' = [a \in Action |->
       IF Open(a) THEN [action[a] EXCEPT !.left = @ - 1] ELSE action[a]]
  /\ quiet' = IF quiet > 0 THEN quiet - 1 ELSE 0
  /\ switching' = (switching /\ quiet # 1)
  /\ UNCHANGED <<expected, overlapped, listener, spoken, moves, starts>>

\* The user switches, asked or not; each action that is under way may notice.
Move ==
  /\ moves < MaxMoves
  /\ moves' = moves + 1
  /\ expected' = ~ expected
  /\ action' = [a \in Action |->
       IF action[a].pc = "idle" THEN action[a]
       ELSE [action[a] EXCEPT !.good = @ \/ expected']]
  /\ UNCHANGED <<switching, quiet, overlapped, listener, spoken, starts>>

SomeOpen == IF \E a \in Action : Open(a) THEN "open" ELSE "shut"

\* Variant: the listener does not look at the flag.
ListenerAsksAlways ==
  /\ listener = "idle"
  /\ listener' = SomeOpen
  /\ UNCHANGED <<expected, action, switching, quiet, overlapped, spoken, moves, starts>>

\* The listener of App.tsx asks for the network, unless an action owns the message.
ListenerAsks ==
  /\ listener = "idle"
  /\ ~ switching
  /\ listener' = SomeOpen
  /\ UNCHANGED <<expected, action, switching, quiet, overlapped, spoken, moves, starts>>

\* It tells of a wrong network; a failed query counts as right.
ListenerSpeaks ==
  /\ listener # "idle"
  /\ listener' = "idle"
  /\ \/ UNCHANGED spoken
     \/ ~ expected /\ spoken' = (spoken \/ listener = "open")
  /\ UNCHANGED <<expected, action, switching, quiet, overlapped, moves, starts>>

SwitchNext ==
  \/ \E a \in Action :
       \/ Start(a) \/ LookPasses(a) \/ LookOpens(a) \/ AskNetwork(a) \/ HearNetwork(a)
       \/ Refuse(a) \/ Deadline(a) \/ Sign(a)
  \/ SwitchTick \/ Move \/ ListenerAsks \/ ListenerSpeaks

\* The timers of the browser fire; neither the wallet nor the user need ever answer.
SwitchFairness ==
  /\ WF_switchVars(SwitchTick)
  /\ \A a \in Action : WF_switchVars(Deadline(a))

SwitchSpec == SwitchInit /\ [][SwitchNext]_switchVars /\ SwitchFairness

-----------------------------------------------------------------------------
(* Properties *)

\* While an action has the wallet's switcher open the listener does not set out to
\* tell of the network, unless the switcher was opened while the quiet window of an
\* earlier one ran, or beside another: the timer then clears the flag of the later one.
QuietOwned == spoken => overlapped

\* The comment of switchingNetwork, without the exception.
QuietWhileOpen == ~ spoken

\* An action signs only if the wallet was on the right network, or would not say, at
\* some moment since the action began.
SignsJustified == \A a \in Action : action[a].pc = "sign" => action[a].good

\* A switcher does not stay open, and the listener is not silenced, for ever.
SwitchEnds ==
  /\ \A a \in Action : Open(a) ~> ~ Open(a)
  /\ switching ~> ~ switching

=============================================================================
