---------------------------- MODULE Pages_proofs ----------------------------
(***************************************************************************)
(* Proofs about the pages: the switch of the wallet's network, for all     *)
(* actions, timers and numbers of moves and starts; the creator page and   *)
(* the post page, for all creators, posts and numbers of requests; and     *)
(* the account of the tab, for all accounts and numbers of events.         *)
(***************************************************************************)
EXTENDS NetworkSwitch, CreatorView, PostView, TabSession, TLAPS

ActionState == [pc : {"idle", "look", "open", "sign"}, left : Int,
                heard : {"none", "right", "wrong"}, good : BOOLEAN]

\* The flags and timers hold what the code puts into them.
SwitchTypeOK ==
  /\ expected \in BOOLEAN
  /\ action \in [Action -> ActionState]
  /\ switching \in BOOLEAN
  /\ quiet \in Nat
  /\ overlapped \in BOOLEAN
  /\ listener \in {"idle", "shut", "open"}
  /\ spoken \in BOOLEAN

\* An action that is under way knows of the wallet what its checks may tell it.
ChecksAreGood ==
  \A a \in Action :
    /\ action[a].pc # "idle" /\ expected => action[a].good
    /\ action[a].pc = "open" /\ action[a].heard = "right" => action[a].good
    /\ action[a].pc # "open" => action[a].heard = "none"

\* Without an overlap the flag and the timer are those of the one open switcher.
FlagIsOwned ==
  ~ overlapped =>
    /\ \A a \in Action : Open(a) => switching /\ quiet = 0
    /\ \A a, b \in Action : Open(a) /\ Open(b) => a = b

\* The listener hears of an open switcher only after an overlap.
ListenerIsQuiet == listener = "open" => overlapped

\* The inductive invariant, in the parts that the steps disturb together.
Signing == ChecksAreGood /\ SignsJustified
Flags == FlagIsOwned /\ ListenerIsQuiet /\ QuietOwned
IInv == SwitchTypeOK /\ Signing /\ Flags

\* A record of an action, by its fields.
Made(pc, left, heard, good) == [pc |-> pc, left |-> left, heard |-> heard, good |-> good]

LEMMA InitIInv == SwitchInit => IInv
<1> SUFFICES ASSUME SwitchInit PROVE IInv
  OBVIOUS
<1>1. \A a \in Action : action[a] = Made("idle", 0, "none", FALSE)
  BY DEF SwitchInit, Waiting, Made
<1>2. SwitchTypeOK
  <2>1. action \in [Action -> ActionState]
    BY DEF SwitchInit, Waiting, ActionState
  <2> QED
    BY <2>1 DEF SwitchInit, SwitchTypeOK
<1>3. Signing
  BY <1>1 DEF Made, Signing, ChecksAreGood, SignsJustified
<1>4. Flags
  BY <1>1 DEF SwitchInit, Made, Flags, FlagIsOwned, ListenerIsQuiet, QuietOwned, Open
<1> QED
  BY <1>2, <1>3, <1>4 DEF IInv

-----------------------------------------------------------------------------
(* What a step makes of the record of one action *)

\* A step that gives one action another record, which the action may have.
Remakes(a, state) ==
  /\ state \in ActionState
  /\ state.pc # "idle" /\ expected => state.good
  /\ state.pc = "open" /\ state.heard = "right" => state.good
  /\ state.pc = "sign" => state.good
  /\ state.pc # "open" => state.heard = "none"
  /\ action' = [action EXCEPT ![a] = state]
  /\ UNCHANGED expected

\* Such a step keeps what the checks say, and touches no other action.
LEMMA SigningKept ==
  ASSUME SwitchTypeOK, Signing, NEW a \in Action, NEW state, Remakes(a, state)
  PROVE  /\ Signing'
         /\ action' \in [Action -> ActionState]
         /\ action'[a] = state
         /\ \A b \in Action \ {a} : action'[b] = action[b]
<1>1. /\ action'[a] = state
      /\ \A b \in Action \ {a} : action'[b] = action[b]
      /\ action' \in [Action -> ActionState]
  BY DEF SwitchTypeOK, Remakes
<1> QED
  BY <1>1 DEF Signing, ChecksAreGood, SignsJustified, Remakes

\* A step that opens no switcher and leaves the flags alone.
LEMMA FlagsKept ==
  ASSUME Flags, UNCHANGED <<switching, quiet, overlapped, listener, spoken>>,
         \A a \in Action : action'[a].pc = "open" => action[a].pc = "open"
  PROVE  Flags'
  BY DEF Flags, FlagIsOwned, ListenerIsQuiet, QuietOwned, Open

\* The two together: a step of an action that opens no switcher and touches no flag.
LEMMA PlainStep ==
  ASSUME IInv, NEW a \in Action, NEW state, Remakes(a, state),
         state.pc = "open" => action[a].pc = "open",
         UNCHANGED <<switching, quiet, overlapped, listener, spoken>>
  PROVE  IInv'
<1>1. SwitchTypeOK /\ Signing /\ Flags
  BY DEF IInv
<1>2. /\ Signing' /\ action' \in [Action -> ActionState] /\ action'[a] = state
      /\ \A b \in Action \ {a} : action'[b] = action[b]
  BY <1>1, SigningKept
<1>3. Flags'
  BY <1>1, <1>2, FlagsKept
<1>4. SwitchTypeOK'
  BY <1>1, <1>2 DEF SwitchTypeOK, Remakes
<1> QED
  BY <1>2, <1>3, <1>4 DEF IInv

\* What an action has, and what it waits with.
LEMMA Fields ==
  ASSUME SwitchTypeOK
  PROVE  /\ Waiting \in ActionState /\ Waiting.pc = "idle" /\ Waiting.heard = "none"
         /\ expected \in BOOLEAN /\ \A a \in Action : action[a] \in ActionState
  BY DEF SwitchTypeOK, ActionState, Waiting

\* What the assignments to two or three fields make of a record.
LEMMA SetPcLeft ==
  ASSUME NEW r \in ActionState, NEW x, NEW y
  PROVE  [r EXCEPT !.pc = x, !.left = y] = Made(x, y, r.heard, r.good)
<1>1. [r EXCEPT !.pc = x] = Made(x, r.left, r.heard, r.good)
  BY DEF Made, ActionState
<1>2. [Made(x, r.left, r.heard, r.good) EXCEPT !.left = y] = Made(x, y, r.heard, r.good)
  BY DEF Made
<1> QED
  BY <1>1, <1>2

LEMMA SetPcLeftHeard ==
  ASSUME NEW r \in ActionState, NEW x, NEW y, NEW z
  PROVE  [r EXCEPT !.pc = x, !.left = y, !.heard = z] = Made(x, y, z, r.good)
<1>1. [Made(x, y, r.heard, r.good) EXCEPT !.heard = z] = Made(x, y, z, r.good)
  BY DEF Made
<1> QED
  BY <1>1, SetPcLeft

LEMMA SetPcGood ==
  ASSUME NEW r \in ActionState, NEW x, NEW y
  PROVE  [r EXCEPT !.pc = x, !.good = y] = Made(x, r.left, r.heard, y)
<1>1. [r EXCEPT !.pc = x] = Made(x, r.left, r.heard, r.good)
  BY DEF Made, ActionState
<1>2. [Made(x, r.left, r.heard, r.good) EXCEPT !.good = y] = Made(x, r.left, r.heard, y)
  BY DEF Made
<1> QED
  BY <1>1, <1>2

LEMMA SetHeardGood ==
  ASSUME NEW r \in ActionState, NEW x, NEW y
  PROVE  [r EXCEPT !.heard = x, !.good = y] = Made(r.pc, r.left, x, y)
<1>1. [r EXCEPT !.heard = x] = Made(r.pc, r.left, x, r.good)
  BY DEF Made, ActionState
<1>2. [Made(r.pc, r.left, x, r.good) EXCEPT !.good = y] = Made(r.pc, r.left, x, y)
  BY DEF Made
<1> QED
  BY <1>1, <1>2

-----------------------------------------------------------------------------
(* The steps of an action *)

LEMMA StartKeeps == ASSUME IInv, NEW a \in Action, Start(a) PROVE IInv'
<1> DEFINE state == Made("look", Waiting.left, Waiting.heard, expected)
<1>1. expected \in BOOLEAN /\ Waiting \in ActionState
  BY Fields DEF IInv
<1>2. \A x : [Waiting EXCEPT !.pc = "look", !.good = x]
               = Made("look", Waiting.left, Waiting.heard, x)
  <2> TAKE x
  <2> QED
    BY <1>1, SetPcGood
<1>3. state \in ActionState /\ state.pc = "look" /\ state.good = expected
      /\ state.heard = "none"
  BY <1>1, Fields DEF IInv, Made, ActionState
<1>4. /\ action' = [action EXCEPT ![a] = state]
      /\ UNCHANGED <<expected, switching, quiet, overlapped, listener, spoken>>
  BY <1>2 DEF Start
<1> HIDE DEF state
<1>5. Remakes(a, state)
  BY <1>3, <1>4 DEF Remakes
<1> QED
  BY <1>3, <1>4, <1>5, PlainStep

\* An action goes back to waiting: after its signature, a refusal or an error.
LEMMA WaitingAgain ==
  ASSUME IInv, NEW a \in Action, action' = [action EXCEPT ![a] = Waiting], UNCHANGED expected
  PROVE  Remakes(a, Waiting) /\ Waiting.pc = "idle"
<1>1. Waiting \in ActionState /\ Waiting.pc = "idle" /\ Waiting.heard = "none"
  BY Fields DEF IInv
<1> QED
  BY <1>1 DEF Remakes

LEMMA LookPassesKeeps == ASSUME IInv, NEW a \in Action, LookPasses(a) PROVE IInv'
<1>1. UNCHANGED <<expected, switching, quiet, overlapped, listener, spoken>>
  BY DEF LookPasses
<1>2. CASE expected /\ action' = [action EXCEPT ![a].pc = "sign"]
  <2> DEFINE state == Made("sign", action[a].left, action[a].heard, action[a].good)
  <2>1. SwitchTypeOK /\ action[a].pc = "look"
    BY DEF IInv, LookPasses
  <2>2. action[a].good /\ action[a].heard = "none"
    BY <1>2, <2>1 DEF IInv, Signing, ChecksAreGood
  <2>3. state \in ActionState /\ state.pc = "sign" /\ state.good = action[a].good
        /\ state.heard = action[a].heard
    BY <2>1, Fields DEF Made, ActionState
  <2>4. [action[a] EXCEPT !.pc = "sign"] = state
    BY <2>1 DEF Made, SwitchTypeOK, ActionState
  <2>5. action' = [action EXCEPT ![a] = state]
    BY <1>2, <2>4
  <2> HIDE DEF state
  <2>6. Remakes(a, state)
    BY <1>1, <2>2, <2>3, <2>5 DEF Remakes
  <2> QED
    BY <1>1, <2>3, <2>6, PlainStep
<1>3. CASE action' = [action EXCEPT ![a] = Waiting]
  BY <1>1, <1>3, WaitingAgain, PlainStep
<1> QED
  BY <1>2, <1>3 DEF LookPasses

LEMMA SignKeeps == ASSUME IInv, NEW a \in Action, Sign(a) PROVE IInv'
  BY WaitingAgain, PlainStep DEF Sign

LEMMA LookOpensKeeps == ASSUME IInv, NEW a \in Action, LookOpens(a) PROVE IInv'
<1> DEFINE state == Made("open", SwitchTimeout, action[a].heard, action[a].good)
<1>1. SwitchTypeOK /\ Signing /\ Flags
  BY DEF IInv
<1>2. /\ UNCHANGED <<expected, quiet, listener, spoken>> /\ switching' = TRUE /\ ~ expected
      /\ overlapped' = (overlapped \/ quiet > 0 \/ \E b \in Action : Open(b))
      /\ action[a].pc = "look"
  BY DEF LookOpens
<1>3. state \in ActionState /\ state.pc = "open" /\ state.heard = action[a].heard
      /\ state.good = action[a].good
  BY <1>1, SwitchTimers, Fields DEF Made, ActionState
<1>4. [action[a] EXCEPT !.pc = "open", !.left = SwitchTimeout] = state
  BY <1>1, Fields, SetPcLeft
<1>5. action' = [action EXCEPT ![a] = state]
  BY <1>1, <1>4 DEF LookOpens, SwitchTypeOK
<1>6. action[a].heard = "none"
  BY <1>1, <1>2 DEF Signing, ChecksAreGood
<1> HIDE DEF state
<1>7. Remakes(a, state)
  BY <1>2, <1>3, <1>5, <1>6 DEF Remakes
<1>8. /\ Signing' /\ action' \in [Action -> ActionState] /\ action'[a] = state
      /\ \A b \in Action \ {a} : action'[b] = action[b]
  BY <1>1, <1>7, SigningKept
<1>9. SwitchTypeOK'
  BY <1>1, <1>2, <1>8 DEF SwitchTypeOK
<1>10. Flags'
  <2>0. ~ (quiet > 0) => quiet = 0
    BY <1>1 DEF SwitchTypeOK
  <2>1. ~ overlapped' => ~ overlapped /\ quiet = 0 /\ \A b \in Action : ~ Open(b)
    BY <1>2, <2>0, Zenon
  <2>2. \A b \in Action : ~ overlapped' /\ Open(b)' => b = a
    BY <1>8, <2>1 DEF Open
  <2>3. FlagIsOwned'
    BY <1>2, <2>1, <2>2 DEF FlagIsOwned
  <2>4. ListenerIsQuiet' /\ QuietOwned'
    BY <1>1, <1>2 DEF Flags, ListenerIsQuiet, QuietOwned
  <2> QED
    BY <2>3, <2>4 DEF Flags
<1> QED
  BY <1>8, <1>9, <1>10 DEF IInv

LEMMA AskNetworkKeeps == ASSUME IInv, NEW a \in Action, AskNetwork(a) PROVE IInv'
<1>1. /\ UNCHANGED <<expected, switching, quiet, overlapped, listener, spoken>>
      /\ action[a].pc = "open" /\ SwitchTypeOK
  BY DEF AskNetwork, Open, IInv
<1>2. CASE action' = [action EXCEPT ![a].heard = IF expected THEN "right" ELSE "wrong"]
  <2> DEFINE answer == IF expected THEN "right" ELSE "wrong"
             state == Made("open", action[a].left, answer, action[a].good)
  <2>1. answer \in {"none", "right", "wrong"}
    OBVIOUS
  <2>2. expected => action[a].good
    BY <1>1 DEF IInv, Signing, ChecksAreGood
  <2>3. answer = "right" => action[a].good
    BY <2>2
  <2>4. action' = [action EXCEPT ![a].heard = answer]
    BY <1>2
  <2> HIDE DEF answer
  <2>5. state \in ActionState /\ state.pc = "open" /\ state.heard = answer
        /\ state.good = action[a].good
    BY <1>1, <2>1, Fields DEF Made, ActionState
  <2>6. [action[a] EXCEPT !.heard = answer] = state
    BY <1>1 DEF Made, SwitchTypeOK, ActionState
  <2>7. action' = [action EXCEPT ![a] = state]
    BY <2>4, <2>6
  <2> HIDE DEF state
  <2>8. Remakes(a, state)
    BY <1>1, <2>2, <2>3, <2>5, <2>7 DEF Remakes
  <2> QED
    BY <1>1, <2>5, <2>8, PlainStep
<1>3. CASE action' = [action EXCEPT ![a].heard = "right", ![a].good = TRUE]
  <2> DEFINE state == Made(action[a].pc, action[a].left, "right", TRUE)
  <2>1. state \in ActionState /\ state.pc = "open" /\ state.good = TRUE
    BY <1>1, Fields DEF Made, ActionState
  <2>2. \A x : [action[a] EXCEPT !.heard = "right", !.good = x]
                 = Made(action[a].pc, action[a].left, "right", x)
    <3> TAKE x
    <3>1. action[a] \in ActionState
      BY <1>1, Fields
    <3> QED
      BY <3>1, SetHeardGood
  <2>3. action' = [action EXCEPT ![a] = state]
    BY <1>1, <1>3, <2>2 DEF SwitchTypeOK
  <2> HIDE DEF state
  <2>4. Remakes(a, state)
    BY <1>1, <2>1, <2>3 DEF Remakes
  <2> QED
    BY <1>1, <2>1, <2>4, PlainStep
<1> QED
  BY <1>2, <1>3 DEF AskNetwork

\* A switcher settles: its action signs or waits again, and the quiet window begins.
LEMMA SettleKeeps ==
  ASSUME IInv, NEW a \in Action, NEW approved \in BOOLEAN, Open(a), Settle(a, approved),
         approved => action[a].good, QuietWindow \in Nat
  PROVE  IInv'
<1> DEFINE state == IF approved THEN Made("sign", 0, "none", action[a].good) ELSE Waiting
<1>1. SwitchTypeOK /\ Signing /\ Flags
  BY DEF IInv
<1>2. UNCHANGED <<expected, switching, overlapped, listener, spoken>> /\ quiet' = QuietWindow
  BY DEF Settle, HoldQuiet
<1>3. /\ state \in ActionState /\ state.pc \in {"sign", "idle"}
      /\ state.pc = "sign" => state.good
      /\ state.pc # "idle" => state.good
      /\ state.heard = "none"
  BY <1>1, Fields DEF Made, ActionState
<1>4. [action[a] EXCEPT !.pc = "sign", !.left = 0, !.heard = "none"]
        = Made("sign", 0, "none", action[a].good)
  <2>1. action[a] \in ActionState
    BY <1>1, Fields
  <2> QED
    BY <2>1, SetPcLeftHeard
<1>5. action' = [action EXCEPT ![a] = state]
  BY <1>4 DEF Settle
<1> HIDE DEF state
<1>6. Remakes(a, state)
  BY <1>2, <1>3, <1>5 DEF Remakes
<1>7. /\ Signing' /\ action' \in [Action -> ActionState] /\ action'[a] = state
      /\ \A b \in Action \ {a} : action'[b] = action[b]
  BY <1>1, <1>6, SigningKept
<1>8. SwitchTypeOK'
  BY <1>1, <1>2, <1>7 DEF SwitchTypeOK
<1>9. Flags'
  <2>1. ~ overlapped' => \A b \in Action : ~ Open(b)'
    BY <1>1, <1>2, <1>3, <1>7 DEF Flags, FlagIsOwned, Open
  <2>2. FlagIsOwned'
    BY <2>1 DEF FlagIsOwned
  <2>3. ListenerIsQuiet' /\ QuietOwned'
    BY <1>1, <1>2 DEF Flags, ListenerIsQuiet, QuietOwned
  <2> QED
    BY <2>2, <2>3 DEF Flags
<1> QED
  BY <1>7, <1>8, <1>9 DEF IInv

LEMMA HearNetworkKeeps == ASSUME IInv, NEW a \in Action, HearNetwork(a) PROVE IInv'
<1>1. SwitchTypeOK /\ Open(a) /\ action[a].pc = "open"
  BY DEF IInv, HearNetwork, Open
<1>2. CASE action[a].heard = "right" /\ Settle(a, TRUE)
  <2>1. action[a].good
    BY <1>1, <1>2 DEF IInv, Signing, ChecksAreGood
  <2> QED
    BY <1>1, <1>2, <2>1, SwitchTimers, SettleKeeps
<1>3. CASE /\ action' = [action EXCEPT ![a].heard = "none"]
           /\ UNCHANGED <<expected, switching, quiet, overlapped, listener, spoken>>
  <2> DEFINE state == Made("open", action[a].left, "none", action[a].good)
  <2>1. state \in ActionState /\ state.pc = "open" /\ state.heard = "none"
        /\ state.good = action[a].good
    BY <1>1, Fields DEF Made, ActionState
  <2>2. [action[a] EXCEPT !.heard = "none"] = state
    BY <1>1 DEF Made, SwitchTypeOK, ActionState
  <2>3. action' = [action EXCEPT ![a] = state]
    BY <1>3, <2>2
  <2>4. expected => action[a].good
    BY <1>1 DEF IInv, Signing, ChecksAreGood
  <2> HIDE DEF state
  <2>5. Remakes(a, state)
    BY <1>3, <2>1, <2>3, <2>4 DEF Remakes
  <2> QED
    BY <1>1, <1>3, <2>1, <2>5, PlainStep
<1> QED
  BY <1>2, <1>3 DEF HearNetwork

LEMMA ActionKeeps ==
  ASSUME IInv, NEW a \in Action,
         \/ Start(a) \/ LookPasses(a) \/ LookOpens(a) \/ AskNetwork(a) \/ HearNetwork(a)
         \/ Refuse(a) \/ Deadline(a) \/ Sign(a)
  PROVE  IInv'
<1>1. CASE Refuse(a) \/ Deadline(a)
  BY <1>1, SwitchTimers, SettleKeeps DEF Refuse, Deadline
<1> QED
  BY <1>1, StartKeeps, LookPassesKeeps, LookOpensKeeps, AskNetworkKeeps, HearNetworkKeeps,
     SignKeeps

-----------------------------------------------------------------------------
(* Time, the wallet and the listener *)

\* A step after which every action knows as much as before, or more, and is where it was.
LEMMA AllActionsKept ==
  ASSUME SwitchTypeOK, Signing, action' \in [Action -> ActionState],
         \A a \in Action :
           /\ action'[a].pc = action[a].pc /\ action'[a].heard = action[a].heard
           /\ action[a].good => action'[a].good
           /\ action[a].pc # "idle" /\ expected' => expected \/ action'[a].good
  PROVE  Signing'
  BY DEF Signing, ChecksAreGood, SignsJustified

LEMMA TickKeeps == ASSUME IInv, SwitchTick PROVE IInv'
<1>1. SwitchTypeOK /\ Signing /\ Flags
  BY DEF IInv
<1>2. \A a \in Action :
        /\ action'[a] \in ActionState
        /\ action'[a].pc = action[a].pc /\ action'[a].heard = action[a].heard
        /\ action'[a].good = action[a].good
  BY <1>1 DEF SwitchTick, SwitchTypeOK, ActionState
<1>3. action' \in [Action -> ActionState]
  BY <1>2 DEF SwitchTick
<1>4. UNCHANGED <<expected, overlapped, listener, spoken>>
      /\ quiet' = (IF quiet > 0 THEN quiet - 1 ELSE 0)
      /\ switching' = (switching /\ quiet # 1)
  BY DEF SwitchTick
<1>5. Signing'
  BY <1>1, <1>2, <1>3, <1>4, AllActionsKept
<1>6. quiet \in Nat
  BY <1>1 DEF SwitchTypeOK
<1>7. quiet' \in Nat
  BY <1>4, <1>6
<1>8. SwitchTypeOK'
  BY <1>1, <1>3, <1>4, <1>7 DEF SwitchTypeOK
<1>9. quiet = 0 => quiet' = 0 /\ switching' = switching
  <2>1. quiet = 0 => quiet # 1 /\ quiet' = 0
    BY <1>4
  <2>2. switching \in BOOLEAN
    BY <1>1 DEF SwitchTypeOK
  <2> QED
    BY <1>4, <2>1, <2>2
<1>10. Flags'
  BY <1>1, <1>2, <1>4, <1>9 DEF Flags, FlagIsOwned, ListenerIsQuiet, QuietOwned, Open
<1> QED
  BY <1>5, <1>8, <1>10 DEF IInv

LEMMA MoveKeeps == ASSUME IInv, Move PROVE IInv'
<1>1. SwitchTypeOK /\ Signing /\ Flags
  BY DEF IInv
<1>2. expected \in BOOLEAN /\ expected' = ~ expected
      /\ UNCHANGED <<switching, quiet, overlapped, listener, spoken>>
  BY <1>1 DEF Move, SwitchTypeOK
<1>3. \A a \in Action :
        /\ action[a] \in ActionState
        /\ action'[a] = IF action[a].pc = "idle" THEN action[a]
                        ELSE [action[a] EXCEPT !.good = @ \/ expected']
  BY <1>1 DEF Move, SwitchTypeOK
<1>4. \A a \in Action :
        /\ action'[a] \in ActionState
        /\ action'[a].pc = action[a].pc /\ action'[a].heard = action[a].heard
        /\ action[a].good => action'[a].good
        /\ action[a].pc # "idle" /\ expected' => action'[a].good
  <2> SUFFICES ASSUME NEW a \in Action
               PROVE  /\ action'[a] \in ActionState
                      /\ action'[a].pc = action[a].pc /\ action'[a].heard = action[a].heard
                      /\ action[a].good => action'[a].good
                      /\ action[a].pc # "idle" /\ expected' => action'[a].good
    OBVIOUS
  <2>1. CASE action[a].pc = "idle"
    BY <1>3, <2>1
  <2>2. CASE action[a].pc # "idle"
    <3> DEFINE good == action[a].good \/ expected'
               state == Made(action[a].pc, action[a].left, action[a].heard, good)
    <3>1. good \in BOOLEAN
      OBVIOUS
    <3>2. action'[a] = [action[a] EXCEPT !.good = good]
      BY <1>3, <2>2
    <3>3. (action[a].good => good) /\ (expected' => good)
      OBVIOUS
    <3> HIDE DEF good
    <3>4. action'[a] = state
      BY <1>3, <3>2 DEF Made, ActionState
    <3>5. state \in ActionState /\ state.pc = action[a].pc /\ state.heard = action[a].heard
          /\ state.good = good
      BY <1>1, <3>1, Fields DEF Made, ActionState
    <3> QED
      BY <3>3, <3>4, <3>5
  <2> QED
    BY <2>1, <2>2
<1>5. action' \in [Action -> ActionState]
  BY <1>4 DEF Move
<1>6. Signing'
  BY <1>1, <1>4, <1>5, AllActionsKept
<1>7. SwitchTypeOK'
  BY <1>1, <1>2, <1>5 DEF SwitchTypeOK
<1>8. Flags'
  BY <1>1, <1>2, <1>4, FlagsKept
<1> QED
  BY <1>6, <1>7, <1>8 DEF IInv

LEMMA ListenerKeeps == ASSUME IInv, ListenerAsks \/ ListenerSpeaks PROVE IInv'
<1>1. SwitchTypeOK /\ Signing /\ Flags /\ UNCHANGED <<expected, action, switching, quiet, overlapped>>
  BY DEF IInv, ListenerAsks, ListenerSpeaks
<1>2. Signing' /\ FlagIsOwned'
  BY <1>1 DEF Signing, Flags, ChecksAreGood, SignsJustified, FlagIsOwned, Open
<1>3. CASE ListenerAsks
  <2>1. UNCHANGED spoken /\ ~ switching /\ listener' = SomeOpen
    BY <1>3 DEF ListenerAsks
  <2>2. ListenerIsQuiet' /\ QuietOwned' /\ listener' \in {"idle", "shut", "open"}
    BY <1>1, <2>1 DEF Flags, FlagIsOwned, ListenerIsQuiet, QuietOwned, SomeOpen
  <2>3. SwitchTypeOK'
    BY <1>1, <2>1, <2>2 DEF SwitchTypeOK
  <2> QED
    BY <1>2, <2>2, <2>3 DEF IInv, Flags
<1>4. CASE ListenerSpeaks
  <2>1. listener' = "idle" /\ (spoken' = spoken \/ spoken' = (spoken \/ listener = "open"))
    BY <1>4 DEF ListenerSpeaks
  <2>2. ListenerIsQuiet'
    BY <2>1 DEF ListenerIsQuiet
  <2>3. QuietOwned'
    BY <1>1, <2>1, Zenon DEF Flags, ListenerIsQuiet, QuietOwned
  <2>4. SwitchTypeOK'
    BY <1>1, <2>1 DEF SwitchTypeOK
  <2> QED
    BY <1>2, <2>2, <2>3, <2>4 DEF IInv, Flags
<1> QED
  BY <1>3, <1>4

LEMMA NextIInv == IInv /\ [SwitchNext]_switchVars => IInv'
<1> SUFFICES ASSUME IInv, [SwitchNext]_switchVars PROVE IInv'
  OBVIOUS
<1>1. CASE UNCHANGED switchVars
  BY <1>1 DEF switchVars, IInv, SwitchTypeOK, Signing, Flags, ChecksAreGood, SignsJustified,
              FlagIsOwned, ListenerIsQuiet, QuietOwned, Open
<1> QED
  BY <1>1, ActionKeeps, TickKeeps, MoveKeeps, ListenerKeeps DEF SwitchNext

-----------------------------------------------------------------------------
(* Theorems about the switch *)

\* In every reachable state the inductive invariant holds.
THEOREM SwitchInvariance == SwitchSpec => []IInv
  BY InitIInv, NextIInv, PTL DEF SwitchSpec

\* The listener sets out to tell of the network beside an open switcher only where two
\* switchers, or a switcher and an earlier quiet window, overlapped.
THEOREM ListenerKeptQuiet == SwitchSpec => []QuietOwned
<1>1. IInv => QuietOwned
  BY DEF IInv, Flags
<1> QED
  BY <1>1, SwitchInvariance, PTL

\* Every action that signs saw the wallet on the right network, or heard no answer.
THEOREM SignaturesJustified == SwitchSpec => []SignsJustified
<1>1. IInv => SignsJustified
  BY DEF IInv, Signing
<1> QED
  BY <1>1, SwitchInvariance, PTL

-----------------------------------------------------------------------------
(* The silence of the listener *)

\* Whoever silences the listener has a timer running: a switcher its deadline, and what
\* comes after it the quiet window.
SilenceTimed ==
  /\ switching => quiet > 0 \/ \E a \in Action : Open(a)
  /\ \A a \in Action : Open(a) => action[a].left \in 0 .. SwitchTimeout

\* What an action does to itself leaves the timers of the others running.
LEMMA OthersTimed ==
  ASSUME SwitchTypeOK, SilenceTimed, NEW a \in Action, NEW state,
         action' = [action EXCEPT ![a] = state],
         state.pc = "open" => state.left \in 0 .. SwitchTimeout,
         switching' => quiet' > 0 \/ state.pc = "open"
                       \/ (switching /\ quiet' = quiet /\ ~ Open(a))
  PROVE  SilenceTimed'
<1>1. \A b \in Action : action'[b] = IF b = a THEN state ELSE action[b]
  BY DEF SwitchTypeOK
<1>2. \A b \in Action : Open(b)' => action'[b].left \in 0 .. SwitchTimeout
  BY <1>1 DEF SilenceTimed, Open
<1>3. ASSUME switching' PROVE quiet' > 0 \/ \E b \in Action : Open(b)'
  <2>1. CASE state.pc = "open"
    BY <1>1, <2>1 DEF Open
  <2>2. CASE switching /\ quiet' = quiet /\ ~ Open(a)
    BY <1>1, <2>2 DEF SilenceTimed, Open
  <2> QED
    BY <1>3, <2>1, <2>2
<1> QED
  BY <1>2, <1>3 DEF SilenceTimed, Open

LEMMA ActionTimed ==
  ASSUME IInv, SilenceTimed, NEW a \in Action,
         \/ Start(a) \/ LookPasses(a) \/ LookOpens(a) \/ AskNetwork(a) \/ HearNetwork(a)
         \/ Refuse(a) \/ Deadline(a) \/ Sign(a)
  PROVE  SilenceTimed'
<1>1. SwitchTypeOK /\ action[a] \in ActionState /\ quiet \in Nat
  BY DEF IInv, SwitchTypeOK
<1>2. QuietWindow > 0 /\ SwitchTimeout \in 0 .. SwitchTimeout
  BY SwitchTimers
<1>3. CASE Start(a) \/ LookPasses(a) \/ Sign(a)
  <2>1. PICK state : state.pc # "open" /\ action' = [action EXCEPT ![a] = state]
    <3>1. CASE Start(a)
      BY <3>1 DEF Start, Waiting
    <3>2. CASE LookPasses(a) /\ action' = [action EXCEPT ![a].pc = "sign"]
      <4>1. [action[a] EXCEPT !.pc = "sign"].pc # "open"
        BY <1>1 DEF ActionState
      <4> QED
        BY <3>2, <4>1
    <3>3. CASE action' = [action EXCEPT ![a] = Waiting]
      BY <3>3 DEF Waiting
    <3> QED
      BY <1>3, <3>1, <3>2, <3>3 DEF LookPasses, Sign
  <2>2. ~ Open(a) /\ UNCHANGED <<switching, quiet>>
    BY <1>3 DEF Start, LookPasses, Sign, Open
  <2> QED
    BY <1>1, <2>1, <2>2, OthersTimed
<1>4. CASE LookOpens(a)
  <2> DEFINE state == [action[a] EXCEPT !.pc = "open", !.left = SwitchTimeout]
  <2>1. state.pc = "open" /\ state.left = SwitchTimeout
    BY <1>1 DEF ActionState
  <2>2. action' = [action EXCEPT ![a] = state]
    BY <1>4 DEF LookOpens
  <2> HIDE DEF state
  <2> QED
    BY <1>1, <1>2, <2>1, <2>2, OthersTimed
<1>5. ASSUME Open(a), UNCHANGED <<switching, quiet>>,
             NEW state, state.pc = action[a].pc, state.left = action[a].left,
             action' = [action EXCEPT ![a] = state]
      PROVE  SilenceTimed'
  BY <1>1, <1>5, OthersTimed DEF SilenceTimed, Open
<1>6. CASE AskNetwork(a)
  <2>1. PICK state : /\ state.pc = action[a].pc /\ state.left = action[a].left
                     /\ action' = [action EXCEPT ![a] = state]
    <3>1. PICK heard, good :
            action' = [action EXCEPT ![a] = [@ EXCEPT !.heard = heard, !.good = good]]
      <4>1. CASE action' = [action EXCEPT ![a].heard = IF expected THEN "right" ELSE "wrong"]
        <5>1. \A heard : [action[a] EXCEPT !.heard = heard]
                         = [action[a] EXCEPT !.heard = heard, !.good = action[a].good]
          BY <1>1 DEF ActionState
        <5> QED
          BY <4>1, <5>1
      <4>2. CASE action' = [action EXCEPT ![a].heard = "right", ![a].good = TRUE]
        BY <4>2
      <4> QED
        BY <1>6, <4>1, <4>2 DEF AskNetwork
    <3> DEFINE state == [action[a] EXCEPT !.heard = heard, !.good = good]
    <3>2. state.pc = action[a].pc /\ state.left = action[a].left
      BY <1>1 DEF ActionState
    <3> QED
      BY <3>1, <3>2
  <2> QED
    BY <1>5, <1>6, <2>1 DEF AskNetwork
<1>7. ASSUME NEW approved \in BOOLEAN, Settle(a, approved) PROVE SilenceTimed'
  <2>1. PICK state : state.pc # "open" /\ action' = [action EXCEPT ![a] = state]
    <3>1. [action[a] EXCEPT !.pc = "sign", !.left = 0, !.heard = "none"].pc # "open"
      BY <1>1 DEF ActionState
    <3> QED
      BY <1>7, <3>1 DEF Settle, Waiting
  <2>2. quiet' > 0
    BY <1>2, <1>7 DEF Settle, HoldQuiet
  <2> QED
    BY <1>1, <2>1, <2>2, OthersTimed
<1>8. CASE Open(a) /\ action' = [action EXCEPT ![a].heard = "none"]
           /\ UNCHANGED <<switching, quiet>>
  <2> DEFINE state == [action[a] EXCEPT !.heard = "none"]
  <2>1. state.pc = action[a].pc /\ state.left = action[a].left
    BY <1>1 DEF ActionState
  <2>2. action' = [action EXCEPT ![a] = state]
    BY <1>8
  <2> HIDE DEF state
  <2> QED
    BY <1>5, <1>8, <2>1, <2>2
<1> QED
  BY <1>3, <1>4, <1>6, <1>7, <1>8 DEF HearNetwork, Refuse, Deadline

LEMMA TickTimed == ASSUME IInv, SilenceTimed, SwitchTick PROVE SilenceTimed'
<1>1. quiet \in Nat /\ action \in [Action -> ActionState] /\ SwitchTimeout \in Nat
  BY SwitchTimers DEF IInv, SwitchTypeOK
<1>2. \A a \in Action : /\ Open(a)' <=> Open(a)
                        /\ Open(a) => action'[a].left = action[a].left - 1
  BY <1>1 DEF SwitchTick, Open, ActionState
<1>3. \A a \in Action : Open(a) => action[a].left \in 1 .. SwitchTimeout
  BY <1>1 DEF SwitchTick, SilenceTimed, ActionState
<1>4. \A a \in Action : Open(a)' => action'[a].left \in 0 .. SwitchTimeout
  BY <1>1, <1>2, <1>3
<1>5. ASSUME switching' PROVE quiet' > 0 \/ \E a \in Action : Open(a)'
  <2>1. switching /\ quiet # 1 /\ quiet' = IF quiet > 0 THEN quiet - 1 ELSE 0
    BY <1>5 DEF SwitchTick
  <2>2. CASE quiet > 0
    BY <1>1, <2>1, <2>2
  <2>3. CASE ~ quiet > 0
    BY <1>2, <2>1, <2>3 DEF SilenceTimed
  <2> QED
    BY <2>2, <2>3
<1> QED
  BY <1>4, <1>5 DEF SilenceTimed

LEMMA MoveTimed == ASSUME IInv, SilenceTimed, Move PROVE SilenceTimed'
<1>1. \A a \in Action : action'[a].pc = action[a].pc /\ action'[a].left = action[a].left
  BY DEF IInv, SwitchTypeOK, Move, ActionState
<1>2. UNCHANGED <<switching, quiet>>
  BY DEF Move
<1> QED
  BY <1>1, <1>2 DEF SilenceTimed, Open

LEMMA SwitchStepTimed == IInv /\ SilenceTimed /\ [SwitchNext]_switchVars => SilenceTimed'
<1> SUFFICES ASSUME IInv, SilenceTimed, [SwitchNext]_switchVars PROVE SilenceTimed'
  OBVIOUS
<1>1. ASSUME UNCHANGED <<action, switching, quiet>> PROVE SilenceTimed'
  BY <1>1 DEF SilenceTimed, Open
<1>2. UNCHANGED switchVars \/ ListenerAsks \/ ListenerSpeaks
      => UNCHANGED <<action, switching, quiet>>
  BY DEF switchVars, ListenerAsks, ListenerSpeaks
<1> QED
  BY <1>1, <1>2, ActionTimed, TickTimed, MoveTimed DEF SwitchNext

\* While the listener is silent a switcher is open, with no more than its timeout left, or
\* the quiet window runs: whatever order actions, timers and the wallet take, nothing
\* leaves the flag up without a timer that takes it down.  SwitchEnds rests on it.
THEOREM SilenceHasTimer == SwitchSpec => []SilenceTimed
<1>1. SwitchInit => SilenceTimed
  BY DEF SwitchInit, SilenceTimed, Open, Waiting
<1> QED
  BY <1>1, SwitchInvariance, SwitchStepTimed, PTL DEF SwitchSpec

-----------------------------------------------------------------------------
(* The creator page *)

\* The requests and the actions hold what the code puts into them: a request is answered
\* by what it asked for, an action was begun where a creator was shown.
ViewTypeOK ==
  /\ route \in Creator
  /\ requestId \in Nat
  /\ loads \subseteq [n : Nat, of : Creator, kept : BOOLEAN,
                      reply : Creator \cup {NoCreator, NoReply}]
  /\ \A l \in loads : l.reply \in {NoReply, NoCreator, l.of}
  /\ \A a \in acts : a.of \in Creator

\* The requests are numbered in the order they began, each with its own number.
LoadsNumbered ==
  /\ \A l \in loads : l.n <= requestId
  /\ \A l, m \in loads : l.n = m.n => l = m

\* What was asked last is about the route, unless an action asked.
LastAsksRoute == \A l \in loads : l.n = requestId /\ ~ l.kept => l.of = route

ViewInv == ViewTypeOK /\ LoadsNumbered /\ LastAsksRoute /\ CreatorShown

LEMMA ViewInitInv == ViewInit => ViewInv
  BY DEF ViewInit, ViewInv, ViewTypeOK, LoadsNumbered, LastAsksRoute, CreatorShown

\* A request is numbered past the others.
LEMMA LoadCreatorNumbers ==
  ASSUME ViewInv, NEW of \in Creator, NEW known, NEW kept \in BOOLEAN,
         LoadCreator(of, known, kept), route' \in Creator, acts' \subseteq acts
  PROVE  /\ ViewTypeOK' /\ LoadsNumbered'
         /\ \A l \in loads' : l.n = requestId' => l.of = of /\ l.kept = kept
         /\ creator' \in {creator, NoCreator}
         /\ known # of => creator' = NoCreator
<1> DEFINE new == [n |-> requestId', of |-> of, kept |-> kept, reply |-> NoReply]
           Load == [n : Nat, of : Creator, kept : BOOLEAN,
                    reply : Creator \cup {NoCreator, NoReply}]
<1>1. /\ requestId \in Nat /\ requestId' = requestId + 1
      /\ loads' = loads \cup {new}
      /\ loads \subseteq Load
      /\ creator' = IF known # of THEN NoCreator ELSE creator
  BY DEF ViewInv, ViewTypeOK, LoadCreator
<1>2. /\ requestId' \in Nat /\ requestId <= requestId' /\ requestId' <= requestId'
      /\ \A n \in Nat : n <= requestId => n <= requestId' /\ n # requestId'
  BY <1>1
<1>3. /\ new.n = requestId' /\ new.of = of /\ new.kept = kept /\ new.reply = NoReply
      /\ new \in Load
  BY <1>2
<1>4. \A l \in loads : l.n \in Nat
  BY <1>1
<1> HIDE DEF new, Load
<1>5. \A l \in loads : l.n <= requestId' /\ l.n # new.n
  BY <1>2, <1>3, <1>4 DEF ViewInv, LoadsNumbered
<1>6. LoadsNumbered'
  BY <1>1, <1>2, <1>3, <1>5 DEF ViewInv, LoadsNumbered
<1>7. ViewTypeOK'
  BY <1>1, <1>2, <1>3 DEF ViewInv, ViewTypeOK, Load
<1> QED
  BY <1>1, <1>3, <1>5, <1>6, <1>7

LEMMA OpenCreatorShows == ASSUME ViewInv, NEW c \in Creator, OpenCreator(c) PROVE ViewInv'
<1>1. LoadCreator(c, creator, FALSE) /\ route' = c /\ acts' = acts
  BY DEF OpenCreator, Follow
<1>2. ViewTypeOK' /\ LoadsNumbered' /\ LastAsksRoute' /\ creator' \in {c, NoCreator}
  BY <1>1, LoadCreatorNumbers DEF LastAsksRoute
<1> QED
  BY <1>1, <1>2 DEF ViewInv, CreatorShown

LEMMA ViewerSignsInShows == ASSUME ViewInv, ViewerSignsIn PROVE ViewInv'
<1>1. LoadCreator(route, creator, FALSE) /\ route' = route /\ acts' = acts
      /\ route \in Creator
  BY DEF ViewerSignsIn, Follow, ViewInv, ViewTypeOK
<1>2. ViewTypeOK' /\ LoadsNumbered' /\ LastAsksRoute' /\ creator' \in {route, NoCreator}
  BY <1>1, LoadCreatorNumbers DEF LastAsksRoute
<1> QED
  BY <1>1, <1>2 DEF ViewInv, CreatorShown

LEMMA ServedShows == ASSUME ViewInv, NEW l \in loads, Served(l) PROVE ViewInv'
<1>1. PICK reply \in {l.of, NoCreator} :
        loads' = (loads \ {l}) \cup {[l EXCEPT !.reply = reply]}
  BY DEF Served
<1>2. UNCHANGED <<requestId, route, creator, carried, acts>>
  BY DEF Served
<1> DEFINE answered == [l EXCEPT !.reply = reply]
           Load == [n : Nat, of : Creator, kept : BOOLEAN,
                    reply : Creator \cup {NoCreator, NoReply}]
<1>3. l \in Load /\ l.of \in Creator
  BY DEF ViewInv, ViewTypeOK
<1>4. /\ answered.n = l.n /\ answered.of = l.of /\ answered.kept = l.kept
      /\ answered.reply = reply /\ answered \in Load
  BY <1>3
<1> HIDE DEF answered, Load
<1>5. loads' = (loads \ {l}) \cup {answered}
  BY <1>1 DEF answered
<1>6. ViewTypeOK'
  BY <1>2, <1>4, <1>5 DEF ViewInv, ViewTypeOK, Load
<1>7. LoadsNumbered'
  BY <1>2, <1>4, <1>5 DEF ViewInv, LoadsNumbered
<1>8. LastAsksRoute' /\ CreatorShown'
  BY <1>2, <1>4, <1>5 DEF ViewInv, LastAsksRoute, CreatorShown
<1> QED
  BY <1>6, <1>7, <1>8 DEF ViewInv

LEMMA LoadedShows == ASSUME ViewInv, NEW l \in loads, Loaded(l) PROVE ViewInv'
<1>1. UNCHANGED <<requestId, route, acts>> /\ loads' = loads \ {l}
  BY DEF Loaded
<1>2. ViewTypeOK' /\ LoadsNumbered' /\ LastAsksRoute'
  BY <1>1 DEF ViewInv, ViewTypeOK, LoadsNumbered, LastAsksRoute
<1>3. CreatorShown'
  <2>1. CASE l.n # requestId
    BY <1>1, <2>1 DEF Loaded, Counts, ViewInv, CreatorShown
  <2>2. CASE l.n = requestId
    <3>1. /\ carried' = (carried \/ (l.kept /\ l.of # route))
          /\ creator' = IF l.reply # NoCreator THEN l.reply ELSE creator
      BY <2>2 DEF Loaded, Counts
    <3>2. l.reply \in {NoCreator, l.of} /\ (~ l.kept => l.of = route)
      BY <2>2 DEF Loaded, ViewInv, ViewTypeOK, LastAsksRoute
    <3> QED
      BY <1>1, <3>1, <3>2 DEF ViewInv, CreatorShown
  <2> QED
    BY <2>1, <2>2
<1> QED
  BY <1>2, <1>3 DEF ViewInv

LEMMA ActShows ==
  ASSUME ViewInv, NEW a \in acts, ActEnds(a) \/ ActReloads(a) \/ VisibilitySaved(a)
  PROVE  ViewInv'
<1>1. CASE ActEnds(a)
  BY <1>1 DEF ActEnds, ViewInv, ViewTypeOK, LoadsNumbered, LastAsksRoute, CreatorShown
<1>2. CASE ActReloads(a)
  <2>1. LoadCreator(a.of, a.known, TRUE) /\ UNCHANGED <<route, carried>> /\ acts' \subseteq acts
        /\ a.of \in Creator /\ route \in Creator
    BY <1>2 DEF ActReloads, ViewInv, ViewTypeOK
  <2>2. /\ ViewTypeOK' /\ LoadsNumbered' /\ creator' \in {creator, NoCreator}
        /\ \A l \in loads' : l.n = requestId' => l.kept = TRUE
    BY <2>1, LoadCreatorNumbers
  <2> QED
    BY <2>1, <2>2 DEF ViewInv, LastAsksRoute, CreatorShown
<1>3. CASE VisibilitySaved(a)
  BY <1>3 DEF VisibilitySaved, ViewInv, ViewTypeOK, LoadsNumbered, LastAsksRoute,
              CreatorShown
<1> QED
  BY <1>1, <1>2, <1>3

LEMMA ViewNextInv == ViewInv /\ [ViewNext]_viewVars => ViewInv'
<1> SUFFICES ASSUME ViewInv, [ViewNext]_viewVars PROVE ViewInv'
  OBVIOUS
<1>1. CASE UNCHANGED viewVars
  BY <1>1 DEF viewVars, ViewInv, ViewTypeOK, LoadsNumbered, LastAsksRoute, CreatorShown
<1>2. ASSUME NEW kind, Click(kind) PROVE ViewInv'
  <2>1. route \in Creator /\ UNCHANGED <<route, creator, requestId, loads, carried>>
        /\ acts' = acts \cup {[kind |-> kind, n |-> actsBegun, of |-> route, known |-> creator]}
    BY <1>2 DEF Click, ViewInv, ViewTypeOK
  <2>2. \A a \in acts' : a.of \in Creator
    BY <2>1 DEF ViewInv, ViewTypeOK
  <2> QED
    BY <2>1, <2>2 DEF ViewInv, ViewTypeOK, LoadsNumbered, LastAsksRoute, CreatorShown
<1> QED
  BY <1>1, <1>2, OpenCreatorShows, ViewerSignsInShows, ServedShows, LoadedShows, ActShows
  DEF ViewNext, ViewAnswered

\* A creator page shows the creator of its route or none, unless an action begun on
\* another creator's page ended after the route had changed.
THEOREM RightCreatorShown == ViewSpec => []CreatorShown
<1>1. ViewInv => CreatorShown
  BY DEF ViewInv
<1> QED
  BY <1>1, ViewInitInv, ViewNextInv, PTL DEF ViewSpec

\* Behind a spinner the request asked last is in flight, or its answer yet to be handled.
SpinnerAwaits == loading => \E l \in loads : l.n = requestId

LEMMA LoadAwaits ==
  ASSUME NEW of, NEW known, NEW kept, LoadCreator(of, known, kept) PROVE SpinnerAwaits'
<1> DEFINE new == [n |-> requestId', of |-> of, kept |-> kept, reply |-> NoReply]
<1>1. loads' = loads \cup {new}
  BY DEF LoadCreator
<1>2. new.n = requestId'
  OBVIOUS
<1> HIDE DEF new
<1> QED
  BY <1>1, <1>2 DEF SpinnerAwaits

LEMMA AnswerAwaits ==
  ASSUME ViewInv, SpinnerAwaits, NEW l \in loads, Served(l) \/ Loaded(l)
  PROVE  SpinnerAwaits'
<1>1. CASE Served(l)
  <2>1. PICK reply : loads' = (loads \ {l}) \cup {[l EXCEPT !.reply = reply]}
    BY <1>1 DEF Served
  <2>2. [l EXCEPT !.reply = reply].n = l.n
    BY DEF ViewInv, ViewTypeOK
  <2>3. UNCHANGED <<loading, requestId>>
    BY <1>1 DEF Served
  <2> QED
    BY <2>1, <2>2, <2>3 DEF SpinnerAwaits
<1>2. CASE Loaded(l) /\ l.n = requestId
  BY <1>2 DEF Loaded, Counts, SpinnerAwaits
<1>3. CASE Loaded(l) /\ l.n # requestId
  BY <1>3 DEF Loaded, Counts, SpinnerAwaits
<1> QED
  BY <1>1, <1>2, <1>3

LEMMA ViewStepAwaits == ViewInv /\ SpinnerAwaits /\ [ViewNext]_viewVars => SpinnerAwaits'
<1> SUFFICES ASSUME ViewInv, SpinnerAwaits, [ViewNext]_viewVars PROVE SpinnerAwaits'
  OBVIOUS
<1>1. ASSUME UNCHANGED <<loading, loads, requestId>> PROVE SpinnerAwaits'
  BY <1>1 DEF SpinnerAwaits
<1>2. ASSUME NEW a \in acts, ActEnds(a) \/ ActReloads(a) \/ VisibilitySaved(a)
      PROVE  SpinnerAwaits'
  <2>1. CASE ActReloads(a)
    BY <2>1, LoadAwaits DEF ActReloads
  <2>2. CASE ActEnds(a) \/ VisibilitySaved(a)
    BY <1>1, <2>2 DEF ActEnds, VisibilitySaved
  <2> QED
    BY <1>2, <2>1, <2>2
<1>3. ASSUME NEW kind, Click(kind) PROVE SpinnerAwaits'
  BY <1>1, <1>3 DEF Click
<1>4. ASSUME NEW c \in Creator, OpenCreator(c) PROVE SpinnerAwaits'
  BY <1>4, LoadAwaits DEF OpenCreator, Follow
<1>5. CASE ViewerSignsIn
  BY <1>5, LoadAwaits DEF ViewerSignsIn, Follow
<1>6. CASE UNCHANGED viewVars
  BY <1>1, <1>6 DEF viewVars
<1> QED
  BY <1>2, <1>3, <1>4, <1>5, <1>6, AnswerAwaits DEF ViewNext, ViewAnswered

\* A spinner waits for an answer that will count: however requests, answers, routes and
\* actions interleave, no answer is dropped that the page still waits for.  CreatorLoads
\* rests on it.
THEOREM SpinnerHasRequest == ViewSpec => []SpinnerAwaits
<1>1. ViewInit => SpinnerAwaits
  BY DEF ViewInit, SpinnerAwaits
<1> QED
  BY <1>1, ViewInitInv, ViewNextInv, ViewStepAwaits, PTL DEF ViewSpec

-----------------------------------------------------------------------------
(* The post page *)

Answer == [id : Post, open : BOOLEAN]

Load == [n : Nat, of : Post, reply : Answer \cup {NoPost, Unanswered}]

Purchase == [n : Nat, of : Post, buyer : BOOLEAN, sure : BOOLEAN,
             reply : Post \cup {Unanswered}]

\* The page, its requests and its purchase hold what the code puts into them.
PostTypeOK ==
  /\ reader \in BOOLEAN /\ session \in BOOLEAN /\ lapsed \in BOOLEAN /\ late \in BOOLEAN
  /\ postRoute \in Post
  /\ post \in Answer \cup {NoPost}
  /\ loadsBegun \in Nat /\ openedAt \in Nat /\ movedAt \in Nat /\ newest \in Nat
  /\ postLoads \subseteq Load
  /\ unlocking \subseteq Purchase

\* Requests are numbered as they begin, and the last effect was for the route.
AskedInOrder ==
  /\ movedAt <= openedAt /\ openedAt <= loadsBegun /\ newest <= loadsBegun
  /\ \A l \in postLoads : l.n <= loadsBegun /\ (l.n >= movedAt => l.of = postRoute)
  /\ \A u \in unlocking : u.n <= loadsBegun /\ (u.sure /\ u.n >= movedAt => u.of = postRoute)

Answered(l) == l.reply \notin {NoPost, Unanswered}

\* The page is told of posts that were bought only, each by an answer about itself.
OpenIsBought ==
  /\ shownOpen \subseteq bought
  /\ \A u \in unlocking : u.reply # Unanswered => u.of \in bought
  /\ \A l \in postLoads : Answered(l) => /\ l.reply.id = l.of
                                         /\ l.reply.open => l.of \in bought

\* A request begun after the page has shown a purchase of its post, and since the last
\* effect, is answered that the post is open, if the session has lasted.
AnsweredOpen ==
  /\ ~ lapsed => session
  /\ \A l \in postLoads :
       Answered(l) /\ l.n > newest /\ l.n >= openedAt /\ l.of \in shownOpen /\ ~ lapsed
       => l.reply.open

PostInv == PostTypeOK /\ AskedInOrder /\ OpenIsBought /\ AnsweredOpen /\ PostShown

LEMMA PostInitInv == PostInit => PostInv
<1> SUFFICES ASSUME PostInit PROVE PostInv
  OBVIOUS
<1>1. /\ AskedOf(1, postRoute) \in Load /\ ~ Answered(AskedOf(1, postRoute))
      /\ AskedOf(1, postRoute).n = 1 /\ AskedOf(1, postRoute).of = postRoute
  BY DEF PostInit, AskedOf, Load, Answered
<1>2. reader \in BOOLEAN /\ session \in BOOLEAN /\ lapsed \in BOOLEAN /\ late \in BOOLEAN
  BY Zenon DEF PostInit
<1>3. PostTypeOK
  BY <1>1, <1>2 DEF PostInit, PostTypeOK
<1>4. AskedInOrder
  BY <1>1 DEF PostInit, AskedInOrder
<1> QED
  BY <1>1, <1>3, <1>4 DEF PostInit, PostInv, OpenIsBought, AnsweredOpen, PostShown

\* A new request is the last one and has no answer.
LEMMA AskedIs ==
  ASSUME NEW n \in Nat, NEW p \in Post
  PROVE  /\ AskedOf(n, p) \in Load /\ ~ Answered(AskedOf(n, p))
         /\ AskedOf(n, p).n = n /\ AskedOf(n, p).of = p
  BY DEF AskedOf, Load, Answered

\* The effect: the page is empty until a request that begins now, or later, is answered.
LEMMA ShowPostKeeps ==
  ASSUME PostInv, NEW p \in Post, ShowPost(p), reader' \in BOOLEAN, session' \in BOOLEAN,
         postRoute' = p,
         \/ movedAt' = loadsBegun'
         \/ movedAt' = movedAt /\ postRoute' = postRoute,
         \/ unlocking' = unlocking
         \/ unlocking' = {[u EXCEPT !.buyer = TRUE] : u \in unlocking}
  PROVE  PostInv'
<1> DEFINE new == AskedOf(loadsBegun', p)
<1>1. /\ loadsBegun' = loadsBegun + 1 /\ openedAt' = loadsBegun' /\ post' = NoPost
      /\ postLoads' = postLoads \cup {new} /\ lapsed' = ~ session'
      /\ UNCHANGED <<bought, newest, late, shownOpen>>
  BY DEF ShowPost
<1>2. /\ loadsBegun \in Nat /\ openedAt \in Nat /\ movedAt \in Nat /\ newest \in Nat
      /\ movedAt <= openedAt /\ openedAt <= loadsBegun /\ newest <= loadsBegun
  BY DEF PostInv, PostTypeOK, AskedInOrder
<1>3. loadsBegun' \in Nat /\ loadsBegun' > loadsBegun
  BY <1>1, <1>2
<1>4. new \in Load /\ ~ Answered(new) /\ new.n = loadsBegun' /\ new.of = p
  BY <1>3, AskedIs
<1> HIDE DEF new
<1>5. movedAt' \in Nat /\ movedAt' <= openedAt' /\ newest' <= loadsBegun'
  BY <1>1, <1>2, <1>3
<1>6. \A l \in postLoads : l.n \in Nat /\ l.n < loadsBegun'
  BY <1>1, <1>2 DEF PostInv, PostTypeOK, Load, AskedInOrder
<1>7. \A u \in unlocking' :
        /\ u \in Purchase /\ u.n < loadsBegun'
        /\ \E v \in unlocking : u.n = v.n /\ u.of = v.of /\ u.sure = v.sure
                                /\ u.reply = v.reply
  <2>1. \A v \in unlocking : v \in Purchase /\ v.n \in Nat /\ v.n < loadsBegun'
    BY <1>1, <1>2 DEF PostInv, PostTypeOK, Purchase, AskedInOrder
  <2>2. ASSUME NEW v \in unlocking
        PROVE  LET u == [v EXCEPT !.buyer = TRUE]
               IN /\ u \in Purchase /\ u.n = v.n /\ u.of = v.of /\ u.sure = v.sure
                  /\ u.reply = v.reply
    BY <2>1 DEF Purchase
  <2>3. CASE unlocking' = unlocking
    BY <2>1, <2>3
  <2>4. CASE unlocking' = {[u EXCEPT !.buyer = TRUE] : u \in unlocking}
    BY <2>1, <2>2, <2>4
  <2> QED  BY <2>3, <2>4
<1>8. PostTypeOK'
  BY <1>1, <1>3, <1>4, <1>5, <1>7 DEF PostInv, PostTypeOK
<1>9. AskedInOrder'
  <2>1. ASSUME NEW l \in postLoads', l.n >= movedAt' PROVE l.of = postRoute'
    <3>1. CASE l = new
      BY <1>4, <3>1
    <3>2. CASE l \in postLoads
      BY <1>6, <2>1, <3>2, <1>3 DEF PostInv, AskedInOrder
    <3> QED  BY <1>1, <3>1, <3>2
  <2>2. \A l \in postLoads' : l.n <= loadsBegun'
    BY <1>1, <1>3, <1>4, <1>6
  <2>3. ASSUME NEW u \in unlocking', u.sure, u.n >= movedAt' PROVE u.of = postRoute'
    <3>1. u.n \in Nat /\ u.n < loadsBegun'
      BY <1>7 DEF Purchase
    <3>2. movedAt' = movedAt /\ postRoute' = postRoute
      BY <1>3, <2>3, <3>1
    <3>3. PICK v \in unlocking : u.n = v.n /\ u.of = v.of /\ u.sure = v.sure
      BY <1>7
    <3> QED  BY <2>3, <3>2, <3>3 DEF PostInv, AskedInOrder
  <2>4. \A u \in unlocking' : u.n <= loadsBegun'
    <3>1. \A u \in unlocking' : u.n \in Nat /\ u.n < loadsBegun'
      BY <1>7 DEF Purchase
    <3> QED  BY <1>3, <3>1
  <2>5. openedAt' <= loadsBegun'
    BY <1>1, <1>3
  <2> QED  BY <1>5, <2>1, <2>2, <2>3, <2>4, <2>5 DEF AskedInOrder
<1>10. OpenIsBought'
  <2>1. \A u \in unlocking' : u.reply # Unanswered => u.of \in bought'
    BY <1>1, <1>7 DEF PostInv, OpenIsBought
  <2>2. \A l \in postLoads' : Answered(l) => l \in postLoads
    BY <1>1, <1>4
  <2> QED  BY <1>1, <2>1, <2>2 DEF PostInv, OpenIsBought, Answered
<1>11. AnsweredOpen'
  <2>1. \A l \in postLoads' : Answered(l) => l.n \in Nat /\ l.n < openedAt'
    BY <1>1, <1>4, <1>6
  <2>2. ~ lapsed' => session'
    BY <1>1
  <2>3. openedAt' \in Nat
    BY <1>1, <1>3
  <2> QED  BY <2>1, <2>2, <2>3 DEF AnsweredOpen, Answered
<1>12. PostShown'
  BY <1>1 DEF PostShown
<1> QED  BY <1>8, <1>9, <1>10, <1>11, <1>12 DEF PostInv

LEMMA PageMountsKeeps == ASSUME PostInv, NEW p \in Post, PageMounts(p) PROVE PostInv'
<1> DEFINE new == AskedOf(loadsBegun', p)
<1>1. /\ reader' \in BOOLEAN /\ postRoute' = p /\ post' = NoPost /\ late' = FALSE
      /\ loadsBegun' = loadsBegun + 1 /\ postLoads' = {new} /\ unlocking' = {}
      /\ openedAt' = loadsBegun' /\ movedAt' = loadsBegun'
      /\ shownOpen' = {} /\ lapsed' = ~ session
      /\ UNCHANGED <<session, bought, newest>>
  BY DEF PageMounts, PostInv, PostTypeOK
<1>2. /\ loadsBegun \in Nat /\ newest \in Nat /\ newest <= loadsBegun
      /\ session \in BOOLEAN
  BY DEF PostInv, PostTypeOK, AskedInOrder
<1>3. loadsBegun' \in Nat /\ newest' <= loadsBegun' /\ lapsed' \in BOOLEAN
  BY <1>1, <1>2
<1>4. new \in Load /\ ~ Answered(new) /\ new.n = loadsBegun' /\ new.of = p
  BY <1>3, AskedIs
<1> HIDE DEF new
<1>5. PostTypeOK'
  BY <1>1, <1>2, <1>3, <1>4 DEF PostTypeOK
<1>6. AskedInOrder'
  BY <1>1, <1>3, <1>4 DEF AskedInOrder
<1>7. OpenIsBought' /\ AnsweredOpen'
  BY <1>1, <1>4 DEF OpenIsBought, AnsweredOpen, Answered
<1> QED  BY <1>1, <1>5, <1>6, <1>7 DEF PostInv, PostShown

LEMMA SessionMovesKeeps == ASSUME PostInv, SessionMoves PROVE PostInv'
<1>1. /\ session' \in BOOLEAN /\ lapsed' = TRUE
      /\ UNCHANGED <<reader, bought, postRoute, postLoads, unlocking, loadsBegun, openedAt,
                     movedAt, post, newest, late, shownOpen>>
  BY DEF SessionMoves, asked, shown, PostInv, PostTypeOK
<1>2. PostTypeOK' /\ AskedInOrder'
  BY <1>1 DEF PostInv, PostTypeOK, AskedInOrder
<1> QED
  BY <1>1, <1>2 DEF PostInv, OpenIsBought, AnsweredOpen, Answered, PostShown, Settled

LEMMA RefreshKeeps == ASSUME PostInv, Refresh PROVE PostInv'
<1> DEFINE new == AskedOf(loadsBegun', postRoute)
<1>1. /\ loadsBegun' = loadsBegun + 1 /\ postLoads' = postLoads \cup {new}
      /\ UNCHANGED <<reader, session, bought, postRoute, unlocking, lapsed, openedAt, movedAt,
                     post, newest, late, shownOpen>>
  BY DEF Refresh, Loads, shown
<1>2. /\ loadsBegun \in Nat /\ openedAt \in Nat /\ movedAt \in Nat /\ newest \in Nat
      /\ movedAt <= openedAt /\ openedAt <= loadsBegun /\ newest <= loadsBegun
      /\ postRoute \in Post
  BY DEF PostInv, PostTypeOK, AskedInOrder
<1>3. loadsBegun' \in Nat
  BY <1>1, <1>2
<1>4. new \in Load /\ ~ Answered(new) /\ new.n = loadsBegun' /\ new.of = postRoute
  BY <1>2, <1>3, AskedIs
<1> HIDE DEF new
<1>5. PostTypeOK'
  BY <1>1, <1>3, <1>4 DEF PostInv, PostTypeOK
<1>6. AskedInOrder'
  <2>1. \A l \in postLoads : l.n \in Nat /\ l.n <= loadsBegun
    BY DEF PostInv, PostTypeOK, Load, AskedInOrder
  <2>2. \A u \in unlocking : u.n \in Nat /\ u.n <= loadsBegun
    BY DEF PostInv, PostTypeOK, Purchase, AskedInOrder
  <2>3. \A l \in postLoads' : l.n <= loadsBegun' /\ (l.n >= movedAt' => l.of = postRoute')
    BY <1>1, <1>2, <1>4, <2>1 DEF PostInv, AskedInOrder
  <2>4. \A u \in unlocking' :
          u.n <= loadsBegun' /\ (u.sure /\ u.n >= movedAt' => u.of = postRoute')
    BY <1>1, <1>2, <2>2 DEF PostInv, AskedInOrder
  <2> QED  BY <1>1, <1>2, <2>3, <2>4 DEF AskedInOrder
<1>7. \A l \in postLoads' : Answered(l) => l \in postLoads
  BY <1>1, <1>4
<1>8. OpenIsBought' /\ AnsweredOpen'
  BY <1>1, <1>7 DEF PostInv, OpenIsBought, AnsweredOpen, Answered
<1>9. PostShown'
  BY <1>1 DEF PostInv, PostShown, Settled
<1> QED  BY <1>5, <1>6, <1>8, <1>9 DEF PostInv

LEMMA PostServedKeeps == ASSUME PostInv, NEW l \in postLoads, PostServed(l) PROVE PostInv'
<1> DEFINE open == session /\ l.of \in bought
           reads == [id |-> l.of, open |-> open]
<1>1. PICK reply \in {reads, NoPost} :
        postLoads' = (postLoads \ {l}) \cup {[l EXCEPT !.reply = reply]}
  BY DEF PostServed
<1>2. /\ l \in Load /\ l.of \in Post /\ session \in BOOLEAN
      /\ UNCHANGED <<reader, session, bought, postRoute, unlocking, lapsed, loadsBegun,
                     openedAt, movedAt, post, newest, late, shownOpen>>
  BY DEF PostServed, PostInv, PostTypeOK, Load, asked, shown
<1>3. /\ open \in BOOLEAN /\ (open => l.of \in bought)
      /\ (l.of \in shownOpen /\ ~ lapsed => open)
  BY <1>2 DEF PostInv, OpenIsBought, AnsweredOpen
<1> HIDE DEF open
<1>4. /\ reply \in Answer \cup {NoPost}
      /\ reply # NoPost => reply.id = l.of /\ reply.open = open
  BY <1>2, <1>3 DEF Answer
<1> DEFINE answered == [l EXCEPT !.reply = reply]
<1>5. /\ answered \in Load
      /\ answered.n = l.n /\ answered.of = l.of /\ answered.reply = reply
  BY <1>2, <1>4 DEF Load
<1> HIDE DEF answered
<1>6. postLoads' = (postLoads \ {l}) \cup {answered}
  BY <1>1 DEF answered
<1>7. PostTypeOK'
  BY <1>2, <1>5, <1>6 DEF PostInv, PostTypeOK
<1>8. AskedInOrder'
  BY <1>2, <1>5, <1>6 DEF PostInv, AskedInOrder
<1>9. OpenIsBought'
  BY <1>2, <1>3, <1>4, <1>5, <1>6 DEF PostInv, OpenIsBought, Answered
<1>10. AnsweredOpen'
  BY <1>2, <1>3, <1>4, <1>5, <1>6 DEF PostInv, AnsweredOpen, Answered
<1>11. PostShown'
  BY <1>2 DEF PostInv, PostShown, Settled
<1> QED
  BY <1>7, <1>8, <1>9, <1>10, <1>11 DEF PostInv

LEMMA PostLoadedKeeps == ASSUME PostInv, NEW l \in postLoads, PostLoaded(l) PROVE PostInv'
<1>1. /\ l.reply # Unanswered /\ postLoads' = postLoads \ {l} /\ post' = l.reply
      /\ late' = (l.n <= newest) /\ newest' = IF late' THEN newest ELSE l.n
      /\ UNCHANGED <<reader, session, bought, postRoute, unlocking, lapsed, loadsBegun,
                     openedAt, movedAt, shownOpen>>
  BY DEF PostLoaded, asked
<1>2. /\ l \in Load /\ l.n \in Nat /\ newest \in Nat /\ loadsBegun \in Nat
      /\ openedAt \in Nat /\ movedAt \in Nat /\ movedAt <= openedAt
      /\ l.n <= loadsBegun /\ newest <= loadsBegun
      /\ l.reply \in Answer \cup {NoPost}
  BY <1>1 DEF PostInv, PostTypeOK, Load, AskedInOrder
<1>3. late' \in BOOLEAN /\ newest' \in Nat /\ newest <= newest' /\ newest' <= loadsBegun
  <2>1. CASE l.n <= newest
    <3>1. late' = TRUE
      BY <1>1, <2>1, Zenon
    <3> QED  BY <1>1, <1>2, <3>1
  <2>2. CASE ~ l.n <= newest
    <3>1. late' # TRUE
      BY <1>1, <2>2, Zenon
    <3>2. late' = FALSE
      <4>1. (l.n <= newest) \in BOOLEAN
        BY <1>2
      <4> QED  BY <1>1, <3>1, <4>1, Zenon
    <3> QED  BY <1>1, <1>2, <2>2, <3>2
  <2> QED  BY <2>1, <2>2
<1>4. PostTypeOK'
  BY <1>1, <1>2, <1>3 DEF PostInv, PostTypeOK
<1>5. AskedInOrder'
  BY <1>1, <1>3 DEF PostInv, AskedInOrder
<1>6. OpenIsBought'
  BY <1>1 DEF PostInv, OpenIsBought, Answered
<1>7. AnsweredOpen'
  <2>1. \A k \in postLoads' : k \in postLoads /\ k.n \in Nat /\ (k.n > newest' => k.n > newest)
    BY <1>1, <1>2, <1>3 DEF PostInv, PostTypeOK, Load
  <2> QED  BY <1>1, <2>1 DEF PostInv, AnsweredOpen, Answered
<1>8. PostShown'
  <2> SUFFICES ASSUME Settled', l.reply # NoPost
               PROVE  /\ l.reply.id = postRoute
                      /\ l.reply.open => l.reply.id \in bought
                      /\ l.reply.id \in shownOpen /\ ~ lapsed => l.reply.open
    BY <1>1 DEF PostShown
  <2>1. l.n > newest /\ l.n >= openedAt /\ l.n >= movedAt
    <3>1. ~ late' /\ newest' >= openedAt'
      BY DEF Settled
    <3>2. ~ l.n <= newest /\ newest' = l.n /\ openedAt' = openedAt
      BY <1>1, <3>1
    <3> QED  BY <1>2, <3>1, <3>2
  <2>2. Answered(l) /\ l.of = postRoute
    BY <1>1, <2>1 DEF PostInv, AskedInOrder, Answered
  <2>3. l.reply.id = l.of /\ (l.reply.open => l.of \in bought)
    BY <2>2 DEF PostInv, OpenIsBought
  <2> QED
    BY <2>1, <2>2, <2>3 DEF PostInv, AnsweredOpen
<1> QED
  BY <1>4, <1>5, <1>6, <1>7, <1>8 DEF PostInv

LEMMA UnlockKeeps == ASSUME PostInv, Unlock PROVE PostInv'
<1> DEFINE new == [n |-> loadsBegun, of |-> post.id, buyer |-> reader, sure |-> Settled,
                   reply |-> Unanswered]
<1>1. /\ UNCHANGED <<reader, session, bought, postRoute, postLoads, lapsed, loadsBegun,
                     openedAt, movedAt, post, newest, late, shownOpen>>
      /\ post # NoPost /\ unlocking' = {new}
  BY DEF Unlock, asked, shown
<1>2. /\ post \in Answer /\ loadsBegun \in Nat /\ reader \in BOOLEAN
      /\ Settled \in BOOLEAN /\ (Settled => post.id = postRoute)
  BY <1>1 DEF PostInv, PostTypeOK, PostShown, Settled
<1>3. /\ new \in Purchase /\ new.n = loadsBegun /\ new.of = post.id /\ new.sure = Settled
      /\ new.reply = Unanswered
  BY <1>2 DEF Purchase, Answer
<1> HIDE DEF new
<1>4. PostTypeOK'
  BY <1>1, <1>3 DEF PostInv, PostTypeOK
<1>5. AskedInOrder'
  BY <1>1, <1>2, <1>3 DEF PostInv, AskedInOrder
<1>6. OpenIsBought' /\ AnsweredOpen'
  BY <1>1, <1>3 DEF PostInv, OpenIsBought, AnsweredOpen, Answered
<1>7. PostShown'
  BY <1>1 DEF PostInv, PostShown, Settled
<1> QED
  BY <1>4, <1>5, <1>6, <1>7 DEF PostInv

LEMMA BoughtKeeps == ASSUME PostInv, NEW u \in unlocking, Bought(u) PROVE PostInv'
<1> DEFINE confirmed == [u EXCEPT !.reply = u.of]
<1>1. /\ bought' = bought \cup {u.of} /\ unlocking' = {confirmed}
      /\ UNCHANGED <<reader, session, postRoute, postLoads, lapsed, loadsBegun, openedAt,
                     movedAt, post, newest, late, shownOpen>>
  BY DEF Bought, asked, shown
<1>2. u \in Purchase
  BY DEF PostInv, PostTypeOK
<1>3. /\ confirmed \in Purchase /\ confirmed.n = u.n /\ confirmed.of = u.of
      /\ confirmed.sure = u.sure
  BY <1>2 DEF Purchase
<1> HIDE DEF confirmed
<1>4. PostTypeOK'
  BY <1>1, <1>3 DEF PostInv, PostTypeOK
<1>5. AskedInOrder'
  BY <1>1, <1>3 DEF PostInv, AskedInOrder
<1>6. OpenIsBought' /\ AnsweredOpen'
  BY <1>1, <1>3 DEF PostInv, OpenIsBought, AnsweredOpen, Answered
<1>7. PostShown'
  BY <1>1 DEF PostInv, PostShown, Settled
<1> QED
  BY <1>4, <1>5, <1>6, <1>7 DEF PostInv

\* Every request so far was begun before the purchase is shown.
LEMMA UnlockedKeeps == ASSUME PostInv, NEW u \in unlocking, Unlocked(u) PROVE PostInv'
<1>1. /\ u.reply # Unanswered /\ unlocking' = {} /\ post' = [id |-> u.of, open |-> TRUE]
      /\ newest' = loadsBegun /\ late' = ~ (u.sure /\ u.n >= movedAt)
      /\ shownOpen' = shownOpen \cup {u.of}
      /\ UNCHANGED <<reader, session, bought, postRoute, postLoads, lapsed, loadsBegun,
                     openedAt, movedAt>>
  BY DEF Unlocked, Opened, asked
<1>2. u.of \in Post /\ u.of \in bought /\ loadsBegun \in Nat
  BY <1>1 DEF PostInv, PostTypeOK, OpenIsBought, Purchase
<1>3. PostTypeOK'
  BY <1>1, <1>2 DEF PostInv, PostTypeOK, Answer
<1>4. AskedInOrder'
  BY <1>1, <1>2 DEF PostInv, AskedInOrder
<1>5. OpenIsBought'
  BY <1>1, <1>2 DEF PostInv, OpenIsBought, Answered
<1>6. AnsweredOpen'
  <2>1. \A l \in postLoads' : l.n \in Nat /\ l.n <= newest'
    BY <1>1 DEF PostInv, PostTypeOK, Load, AskedInOrder
  <2> QED  BY <1>1, <1>2, <2>1 DEF PostInv, AnsweredOpen
<1>7. PostShown'
  BY <1>1, <1>2 DEF PostInv, AskedInOrder, PostShown, Settled
<1> QED
  BY <1>3, <1>4, <1>5, <1>6, <1>7 DEF PostInv

LEMMA UnlockEndsKeeps == ASSUME PostInv, NEW u \in unlocking, UnlockEnds(u) PROVE PostInv'
<1>1. /\ unlocking' = {}
      /\ UNCHANGED <<reader, session, bought, postRoute, postLoads, lapsed, loadsBegun,
                     openedAt, movedAt, post, newest, late, shownOpen>>
  BY DEF UnlockEnds, asked, shown
<1>2. PostTypeOK' /\ AskedInOrder'
  BY <1>1 DEF PostInv, PostTypeOK, AskedInOrder
<1> QED
  BY <1>1, <1>2 DEF PostInv, OpenIsBought, AnsweredOpen, Answered, PostShown, Settled

LEMMA PostNextInv == PostInv /\ [PostNext]_postVars => PostInv'
<1> SUFFICES ASSUME PostInv, [PostNext]_postVars PROVE PostInv'
  OBVIOUS
<1> USE DEF PostInv, PostTypeOK
<1>1. CASE UNCHANGED postVars
  <2>1. UNCHANGED <<reader, session, bought, postRoute, postLoads, unlocking, lapsed,
                    loadsBegun, openedAt, movedAt, post, newest, late, shownOpen>>
    BY <1>1 DEF postVars, asked, shown
  <2>2. PostTypeOK' /\ AskedInOrder'
    BY <2>1 DEF AskedInOrder
  <2> QED
    BY <2>1, <2>2 DEF OpenIsBought, AnsweredOpen, Answered, PostShown, Settled
<1>2. ASSUME NEW p \in Post, OpenPost(p) PROVE PostInv'
  <2>1. /\ ShowPost(p) /\ reader' \in BOOLEAN /\ session' \in BOOLEAN /\ postRoute' = p
        /\ movedAt' = loadsBegun' /\ unlocking' = unlocking
    BY <1>2 DEF OpenPost
  <2> QED  BY <2>1, ShowPostKeeps
<1>3. CASE ReaderSignsIn
  <2>1. /\ ShowPost(postRoute) /\ reader' \in BOOLEAN /\ session' \in BOOLEAN
        /\ postRoute' = postRoute /\ movedAt' = movedAt
        /\ unlocking' = {[u EXCEPT !.buyer = TRUE] : u \in unlocking}
    BY <1>3 DEF ReaderSignsIn
  <2> QED  BY <2>1, ShowPostKeeps
<1>4. CASE ReaderSignsOut
  <2>1. /\ ShowPost(postRoute) /\ reader' \in BOOLEAN /\ session' \in BOOLEAN
        /\ postRoute' = postRoute /\ movedAt' = movedAt /\ unlocking' = unlocking
    BY <1>4 DEF ReaderSignsOut
  <2> QED  BY <2>1, ShowPostKeeps
<1> QED
  BY <1>1, <1>2, <1>3, <1>4, PageMountsKeeps, SessionMovesKeeps, RefreshKeeps,
     PostServedKeeps, PostLoadedKeeps, UnlockKeeps, BoughtKeeps, UnlockedKeeps,
     UnlockEndsKeeps DEF PostNext

\* Once an answer asked for since the page was opened is shown, and nothing came out of
\* order, the page shows the post of its route, open only if it was bought, and open if a
\* purchase of it was shown and the session has lasted: for any posts and requests.
THEOREM RightPostShown == PostSpec => []PostShown
<1>1. PostInv => PostShown
  BY DEF PostInv
<1> QED
  BY <1>1, PostInitInv, PostNextInv, PTL DEF PostSpec

-----------------------------------------------------------------------------
(* The account of the tab *)

\* What the tab waits for, as the code writes it.
TabTypeOK ==
  /\ restore \in [pc : {"session", "answered", "accounts", "done"}, heard : Anyone]
  /\ reconcile \in [pc : {"idle", "accounts", "heard", "network", "out"},
                    signed : Anyone, heard : Anyone]
  /\ entry \in [pc : {"idle", "accounts", "sign", "post", "opened"},
                account : Anyone, signer : Anyone]
  /\ {wallet, cookie, address, signedIn} \subseteq Anyone

\* A tab that shows another account than the wallet's is about to notice: the session
\* check or a comparison is waiting for the wallet, or has heard of the other account.
\* (The exceptions are those of MismatchSignsOut, and this is the reason it holds.)
MismatchPending ==
  Mismatch /\ ~ missed =>
    \/ restore.pc = "accounts" /\ restore.heard = address
    \/ reconcile.pc = "accounts" /\ reconcile.signed = address
    \/ reconcile.pc = "heard" /\ Moved

\* The wallet stays on the account that is signing in, or the change was missed.
EntryCurrent ==
  entry.pc \in {"sign", "post", "opened"} /\ ~ missed => wallet = entry.account

TabInv == TabTypeOK /\ MismatchPending /\ EntryCurrent

LEMMA TabInitInv == TabInit => TabInv
  BY DEF TabInit, Restoring, NotReconciling, NotEntering, Anyone, TabInv, TabTypeOK,
         MismatchPending, EntryCurrent, Mismatch

LEMMA RestoreKeeps ==
  ASSUME TabInv, EffectRuns \/ SessionAnswered \/ SessionHeard \/ SessionCompared
  PROVE  TabInv'
<1>1. CASE EffectRuns
  BY <1>1 DEF EffectRuns, TabInv, TabTypeOK, MismatchPending, EntryCurrent, Mismatch, Moved
<1>2. CASE SessionAnswered
  BY <1>2 DEF SessionAnswered, Anyone, TabInv, TabTypeOK, MismatchPending, EntryCurrent,
              Mismatch, Moved
<1>3. CASE SessionHeard
  BY <1>3 DEF SessionHeard, Anyone, TabInv, TabTypeOK, MismatchPending, EntryCurrent,
              Mismatch, Moved
<1>4. CASE SessionCompared
  BY <1>4 DEF SessionCompared, SignOut, Anyone, TabInv, TabTypeOK, MismatchPending,
              EntryCurrent, Mismatch, Moved
<1> QED
  BY <1>1, <1>2, <1>3, <1>4

\* A comparison that begins when it is listened well to is one of the address shown, and
\* a change at any other time is missed, if anybody is signed in or signing in.
LEMMA EventsKeep ==
  ASSUME TabInv, NetworkChanges \/ \E a \in Anyone : AccountChanges(a)
  PROVE  TabInv'
<1> DEFINE Comparing == reconcile' = [pc |-> "accounts", signed |-> signedIn, heard |-> NoAccount]
<1>1. CASE NetworkChanges
  <2>1. /\ UNCHANGED <<wallet, cookie, address, signedIn, restore, entry>>
        /\ missed' = (missed /\ ~ ListensWell)
        /\ IF Listens THEN Comparing ELSE reconcile' = reconcile
    BY <1>1 DEF NetworkChanges, Compare
  <2>2. TabTypeOK'
    BY <2>1 DEF Anyone, TabInv, TabTypeOK
  <2>3. MismatchPending'
    <3>1. CASE ListensWell
      BY <2>1, <3>1 DEF ListensWell, Listens, MismatchPending
    <3>2. CASE ~ ListensWell /\ Listens
      BY <2>1, <3>2 DEF Listens, TabInv, MismatchPending, Mismatch
    <3>3. CASE ~ ListensWell /\ ~ Listens
      BY <2>1, <3>3 DEF TabInv, MismatchPending, Mismatch, Moved
    <3> QED
      BY <3>1, <3>2, <3>3
  <2>4. EntryCurrent'
    BY <2>1 DEF ListensWell, TabInv, EntryCurrent
  <2> QED
    BY <2>2, <2>3, <2>4 DEF TabInv
<1>2. ASSUME NEW a \in Anyone, AccountChanges(a) PROVE TabInv'
  <2>1. TabTypeOK'
    BY <1>2 DEF AccountChanges, Listens, Compare, Anyone, TabInv, TabTypeOK
  <2>2. MismatchPending'
    <3> SUFFICES ASSUME Mismatch', ~ missed' PROVE MismatchPending'
      BY DEF MismatchPending
    <3>1. /\ UNCHANGED <<address, signedIn, restore>> /\ address # NoAccount
          /\ missed' = (Unheard \/ (missed /\ ~ ListensWell))
          /\ Listens => Comparing
      BY <1>2 DEF AccountChanges, Compare, Mismatch
    <3>2. CASE ListensWell
      BY <3>1, <3>2 DEF ListensWell, MismatchPending
    <3>3. CASE ~ ListensWell
      <4>1. ~ Unheard
        BY <3>1
      <4>2. restore.pc = "accounts" /\ restore.heard = address
        BY <3>1, <3>3, <4>1 DEF Unheard
      <4> QED
        BY <3>1, <4>2 DEF MismatchPending
    <3> QED
      BY <3>2, <3>3
  <2>3. EntryCurrent'
    BY <1>2 DEF AccountChanges, Unheard, ListensWell, TabInv, TabTypeOK, EntryCurrent
  <2> QED
    BY <2>1, <2>2, <2>3 DEF TabInv
<1> QED
  BY <1>1, <1>2

LEMMA ComparisonKeeps ==
  ASSUME TabInv, AccountsAnswered \/ AccountsHeard \/ NetworkHeard PROVE TabInv'
<1>1. CASE AccountsAnswered
  BY <1>1 DEF AccountsAnswered, Anyone, TabInv, TabTypeOK, MismatchPending, EntryCurrent,
              Mismatch, Moved
<1>2. CASE AccountsHeard
  BY <1>2 DEF AccountsHeard, SignOut, NotReconciling, Anyone, TabInv, TabTypeOK,
              MismatchPending, EntryCurrent, Mismatch, Moved
<1>3. CASE NetworkHeard
  BY <1>3 DEF NetworkHeard, NotReconciling, Anyone, TabInv, TabTypeOK, MismatchPending,
              EntryCurrent, Mismatch, Moved
<1> QED
  BY <1>1, <1>2, <1>3

LEMMA EntryKeeps ==
  ASSUME TabInv,
         \/ SignIn \/ AccountGiven \/ ChallengeSigned \/ SessionOpened \/ Entered
         \/ SignInFails
  PROVE  TabInv'
<1>1. CASE SignIn \/ SignInFails
  BY <1>1 DEF SignIn, SignInFails, EntryEnds, NotEntering, Anyone, TabInv, TabTypeOK,
              MismatchPending, EntryCurrent, Mismatch, Moved
<1>2. CASE AccountGiven
  BY <1>2 DEF AccountGiven, Anyone, TabInv, TabTypeOK, MismatchPending, EntryCurrent,
              Mismatch, Moved
<1>3. CASE ChallengeSigned
  BY <1>3 DEF ChallengeSigned, Anyone, TabInv, TabTypeOK, MismatchPending, EntryCurrent,
              Mismatch, Moved
<1>4. CASE SessionOpened
  BY <1>4 DEF SessionOpened, Anyone, TabInv, TabTypeOK, MismatchPending, EntryCurrent,
              Mismatch, Moved
<1>5. CASE Entered
  BY <1>5 DEF Entered, NotEntering, Anyone, TabInv, TabTypeOK, MismatchPending,
              EntryCurrent, Mismatch, Moved
<1> QED
  BY <1>1, <1>2, <1>3, <1>4, <1>5

LEMMA LeavingKeeps ==
  ASSUME TabInv, UserSignsOut \/ LoggedOut \/ Reload \/ SessionExpires \/ Unauthorized
  PROVE  TabInv'
<1>1. CASE Reload
  BY <1>1 DEF Reload, Restoring, NotReconciling, NotEntering, Anyone, TabInv, TabTypeOK,
              MismatchPending, EntryCurrent, Mismatch
<1>2. CASE UserSignsOut \/ LoggedOut \/ SessionExpires \/ Unauthorized
  BY <1>2 DEF UserSignsOut, SignOut, LoggedOut, SessionExpires, Unauthorized, Anyone, TabInv,
              TabTypeOK, MismatchPending, EntryCurrent, Mismatch, Moved
<1> QED
  BY <1>1, <1>2

LEMMA TabNextInv == TabInv /\ [TabNext]_tabVars => TabInv'
<1>1. CASE UNCHANGED tabVars
  BY <1>1 DEF tabVars, TabInv, TabTypeOK, MismatchPending, EntryCurrent, Mismatch, Moved
<1> QED
  BY <1>1, RestoreKeeps, EventsKeep, ComparisonKeeps, EntryKeeps, LeavingKeeps
     DEF TabNext, TabSteps

\* However the answers of the wallet and of the server, changes of the account, sign-ins
\* and reloads interleave, a tab whose wallet is on another account never rests: the step
\* that will sign it out is under way.
THEOREM MismatchNoticed == TabSpec => []MismatchPending
<1>1. TabInv => MismatchPending
  BY DEF TabInv
<1> QED
  BY <1>1, TabInitInv, TabNextInv, PTL DEF TabSpec

=============================================================================
