------------------------------- MODULE KeyEntry -------------------------------
(***************************************************************************)
(* The entry of a channel number with the digit keys (tv_app.c).  The      *)
(* remote controller thread runs inputChannelNumber for each digit, which  *)
(* arms keyTimer for two seconds; when it expires the C library runs       *)
(* changeChannel on a thread of its own (SIGEV_THREAD), so two such        *)
(* threads may run at the same time.  Nothing guards keysPressed and keys: *)
(* every read and write of them is a step.  changeChannelKey, which may    *)
(* block for as long as startChannel waits for its PMT, is the module      *)
(* StreamController's; here it takes any time and may never return.        *)
(***************************************************************************)
EXTENDS Integers, Sequences

CONSTANTS
  Digits, HastyDigits,  \* keys of a user who waits until a number is dialled
                        \* before he types the next one, of one who does not
  Timers,               \* threads that may run changeChannel at the same time
  Garbage,              \* what an uninitialised int32_t may hold
  MaxDigits, HastyMax   \* digits they type before the two seconds are over

ASSUME EntryConstants ==
  /\ Digits \subseteq 0 .. 9 /\ HastyDigits \subseteq Digits
  /\ Garbage \subseteq Int
  /\ MaxDigits \in Nat /\ HastyMax \in 0 .. MaxDigits

VARIABLES
  keysPressed, keys, armed,
  rc,      \* inputChannelNumber: pc, the key, the test it is at, its register
  th,      \* changeChannel: pc, the test or key it is at, channel
  typed,   \* history: the digits since keyTimer last expired
  wanted,  \* history: the number that the thread should dial
  hasty    \* which of the two users it is

vars == <<keysPressed, keys, armed, rc, th, typed, wanted, hasty>>

Slots == 0 .. 2

RcIdle == [pc |-> "idle", key |-> 0, i |-> 0, tmp |-> 0]
Idle == [pc |-> "idle", i |-> 0, n |-> 0, channel |-> 0]

Init ==
  /\ keysPressed = 0
  /\ keys = [s \in Slots |-> 0]
  /\ armed = FALSE
  /\ rc = RcIdle
  /\ th = [t \in Timers |-> Idle]
  /\ typed = <<>>
  /\ wanted = [t \in Timers |-> 0]
  /\ hasty \in BOOLEAN

-----------------------------------------------------------------------------
(* inputChannelNumber                                                      *)

MayType(key) ==
  IF hasty THEN key \in HastyDigits /\ Len(typed) < HastyMax
           ELSE Len(typed) < MaxDigits /\ \A t \in Timers : th[t] = Idle

ArmsOnFirstDigit(key) ==
  /\ rc.pc = "idle"
  /\ MayType(key)
  /\ armed' = (armed \/ keysPressed = 0)
  /\ rc' = [RcIdle EXCEPT !.pc = "test", !.key = key]
  /\ typed' = Append(typed, key)
  /\ UNCHANGED <<keysPressed, keys, th, wanted, hasty>>

(* timer_settime(keyTimer, ...)                                            *)
Press(key) ==
  /\ rc.pc = "idle"
  /\ MayType(key)
  /\ armed' = TRUE
  /\ rc' = [RcIdle EXCEPT !.pc = "test", !.key = key]
  /\ typed' = Append(typed, key)
  /\ UNCHANGED <<keysPressed, keys, th, wanted, hasty>>

(* The chain of if (keysPressed == i): each test reads keysPressed anew,   *)
(* and a digit that passes none of them is lost.                           *)
TestCount ==
  /\ rc.pc = "test"
  /\ rc' = IF keysPressed = rc.i THEN [rc EXCEPT !.pc = "store"]
           ELSE IF rc.i < 3 THEN [rc EXCEPT !.i = @ + 1] ELSE RcIdle
  /\ UNCHANGED <<keysPressed, keys, armed, th, typed, wanted, hasty>>

FourthCounts ==
  /\ rc.pc = "store"
  /\ keys' = [keys EXCEPT ![rc.i % 3] = rc.key]
  /\ rc' = [rc EXCEPT !.pc = "load"]
  /\ UNCHANGED <<keysPressed, armed, th, typed, wanted, hasty>>

(* keys[i] = key; the fourth digit goes to keys[0].                        *)
StoreKey ==
  /\ rc.pc = "store"
  /\ keys' = [keys EXCEPT ![rc.i % 3] = rc.key]
  /\ rc' = [rc EXCEPT !.pc = IF rc.i = 3 THEN "clear" ELSE "load"]
  /\ UNCHANGED <<keysPressed, armed, th, typed, wanted, hasty>>

(* keysPressed++ is a read and a write.                                    *)
LoadCount ==
  /\ rc.pc = "load"
  /\ rc' = [rc EXCEPT !.pc = "incr", !.tmp = keysPressed]
  /\ UNCHANGED <<keysPressed, keys, armed, th, typed, wanted, hasty>>

StoreCount ==
  /\ rc.pc = "incr"
  /\ keysPressed' = rc.tmp + 1
  /\ rc' = RcIdle
  /\ UNCHANGED <<keys, armed, th, typed, wanted, hasty>>

(* The fourth digit: keysPressed == 1 is no assignment, the count stays 3; *)
(* keys[1] = 0, keys[2] = 0.                                               *)
ClearKeys ==
  /\ rc.pc = "clear"
  /\ keys' = [keys EXCEPT ![4 - rc.i] = 0]
  /\ rc' = IF rc.i = 3 THEN [rc EXCEPT !.i = 2] ELSE RcIdle
  /\ UNCHANGED <<keysPressed, armed, th, typed, wanted, hasty>>

-----------------------------------------------------------------------------
(* changeChannel                                                           *)

(* The number a user means by the digits s: after three digits, the next   *)
(* one begins a new number.                                                *)
NumberOf(s) ==
  LET Digit(k) == IF k <= (Len(s) - 1) % 3 THEN s[Len(s) - k] ELSE 0
  IN  100 * Digit(2) + 10 * Digit(1) + Digit(0)

(* keyTimer expires.  inputChannelNumber takes less than the two seconds   *)
(* it has given itself, so it is not running.                              *)
Expire(t) ==
  /\ armed /\ rc.pc = "idle" /\ th[t] = Idle
  /\ armed' = FALSE
  /\ th' = [th EXCEPT ![t] = [Idle EXCEPT !.pc = "test", !.i = 1]]
  /\ wanted' = [wanted EXCEPT ![t] = NumberOf(typed)]
  /\ typed' = <<>>
  /\ UNCHANGED <<keysPressed, keys, rc, hasty>>

(* if (keysPressed == 1) ... 2 ... 3; if none holds, channel keeps what    *)
(* the stack held.                                                         *)
ChooseLength(t) ==
  /\ th[t].pc = "test"
  /\ \/ /\ keysPressed = th[t].i
        /\ th' = [th EXCEPT ![t].pc = "read"]
     \/ /\ keysPressed # th[t].i /\ th[t].i < 3
        /\ th' = [th EXCEPT ![t].i = @ + 1]
     \/ /\ keysPressed # th[t].i /\ th[t].i = 3
        /\ \E g \in Garbage :
             th' = [th EXCEPT ![t].pc = "dialling", ![t].channel = g]
  /\ UNCHANGED <<keysPressed, keys, armed, rc, typed, wanted, hasty>>

(* channel = 100 * keys[0] + 10 * keys[1] + keys[2], or its shorter forms, *)
(* one key at a time.                                                      *)
ReadKey(t) ==
  /\ th[t].pc = "read"
  /\ th' = [th EXCEPT ![t].channel = 10 * @ + keys[th[t].n],
                       ![t].n = @ + 1,
                       ![t].pc = IF th[t].n + 1 = th[t].i THEN "dialling"
                                 ELSE "read"]
  /\ UNCHANGED <<keysPressed, keys, armed, rc, typed, wanted, hasty>>

(* changeChannelKey(channel) returns, which it need not do: startChannel   *)
(* waits without a timeout.                                                *)
Dialled(t) ==
  /\ th[t].pc = "dialling"
  /\ th' = [th EXCEPT ![t] = [Idle EXCEPT !.pc = "reset"]]
  /\ wanted' = [wanted EXCEPT ![t] = 0]
  /\ UNCHANGED <<keysPressed, keys, armed, rc, typed, hasty>>

CountKept(t) ==
  /\ th[t].pc = "reset"
  /\ th' = [th EXCEPT ![t].pc = "zero"]
  /\ UNCHANGED <<keysPressed, keys, armed, rc, typed, wanted, hasty>>

(* keysPressed = 0                                                         *)
ResetCount(t) ==
  /\ th[t].pc = "reset"
  /\ keysPressed' = 0
  /\ th' = [th EXCEPT ![t].pc = "zero"]
  /\ UNCHANGED <<keys, armed, rc, typed, wanted, hasty>>

(* keys[0] = keys[1] = keys[2] = 0                                         *)
ResetKeys(t) ==
  /\ th[t].pc = "zero"
  /\ keys' = [keys EXCEPT ![th[t].n] = 0]
  /\ th' = IF th[t].n = 2 THEN [th EXCEPT ![t] = Idle]
                         ELSE [th EXCEPT ![t].n = @ + 1]
  /\ UNCHANGED <<keysPressed, armed, rc, typed, wanted, hasty>>

-----------------------------------------------------------------------------
inputChannelNumber ==
  TestCount \/ StoreKey \/ LoadCount \/ StoreCount \/ ClearKeys

Runs(t) == ChooseLength(t) \/ ReadKey(t) \/ ResetCount(t) \/ ResetKeys(t)

changeChannel(t) == Runs(t) \/ Dialled(t)

Next ==
  \/ \E key \in Digits : Press(key)
  \/ inputChannelNumber
  \/ \E t \in Timers : Expire(t) \/ changeChannel(t)

Spec == Init /\ [][Next]_vars

(* Threads run and time passes; changeChannelKey need not return.          *)
FairSpec ==
  /\ Spec
  /\ WF_vars(inputChannelNumber)
  /\ WF_vars(\E t \in Timers : Expire(t))
  /\ \A t \in Timers : WF_vars(Runs(t))

-----------------------------------------------------------------------------
(* Properties.                                                             *)

(* Every variable keeps its type; in particular the count never leaves     *)
(* 0 .. 3, whatever the increments and resets that race on it.             *)
TypeOK ==
  /\ keysPressed \in 0 .. 3
  /\ keys \in [Slots -> Digits \cup {0}]
  /\ armed \in BOOLEAN
  /\ rc \in [pc : {"idle", "test", "store", "load", "incr", "clear"},
             key : Digits \cup {0}, i : 0 .. 3, tmp : 0 .. 2]
  /\ th \in [Timers ->
              [pc : {"idle", "test", "read", "dialling", "reset", "zero"},
               i : 0 .. 3, n : 0 .. 3, channel : Int]]
  /\ typed \in Seq(Digits) /\ Len(typed) <= MaxDigits
  /\ wanted \in [Timers -> Nat]
  /\ hasty \in BOOLEAN

(* changeChannel dials the number the user has typed, of as many digits as *)
(* MaxDigits, if he waits until the number before it has been dialled.     *)
DialsWhatWasTyped ==
  ~hasty => \A t \in Timers : th[t].pc = "dialling" => th[t].channel = wanted[t]

WillReset(t) == th[t].pc \in {"test", "read", "dialling", "reset"}
WillClear(t, s) == WillReset(t) \/ (th[t].pc = "zero" /\ th[t].n <= s)

(* Nothing of an entry outlives it, however the digits of the next one     *)
(* race with the resets: as long as the count or one of the keys is not 0, *)
(* the timer is armed, or a thread runs that has still to reset it.  When  *)
(* both are over the next number begins from nothing.  (Before that it may *)
(* be mixed with the one that is being dialled.)                           *)
EntryPending ==
  /\ keysPressed # 0 => armed \/ \E t \in Timers : WillReset(t)
  /\ \A s \in Slots :
       keys[s] # 0 => armed \/ \E t \in Timers : WillClear(t, s)

(* The count goes back to 0, unless a thread stays in changeChannelKey for *)
(* ever: the timer expires whenever the user pauses, and no race with his  *)
(* digits keeps its thread from the reset.                                 *)
EntryEnds ==
  [](keysPressed > 0 => \/ <>(keysPressed = 0)
                        \/ \E t \in Timers : <>[](th[t].pc = "dialling"))
=============================================================================
