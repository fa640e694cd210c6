---------------------------- MODULE KeyEntryProofs ----------------------------
(* Proofs about KeyEntry, for every set of keys and every number of timer  *)
(* threads: the type invariant, that an entry is always pending, and that  *)
(* a user who waits for each number gets what he typed.                    *)
EXTENDS KeyEntry, TLAPS

-----------------------------------------------------------------------------
(* The inductive invariant, part by part.                                  *)

(* inputChannelNumber: keyTimer is armed for as long as it runs, and the   *)
(* count it is about to raise is the one it has tested, or was reset.      *)
InputInv ==
  /\ rc.pc # "idle" => armed
  /\ armed => typed # <<>>
  /\ rc.pc \in {"store", "load"} => keysPressed \in {0, rc.i}
  /\ rc.pc = "load" => rc.i < 3
  /\ rc.pc = "clear" => rc.i \in {2, 3}

(* changeChannel: the bounds of its tests and of the keys it reads.        *)
Bounded(t) ==
  /\ th[t].pc = "idle" => th[t] = Idle
  /\ th[t].pc = "test" => th[t].i >= 1 /\ th[t].n = 0 /\ th[t].channel = 0
  /\ th[t].pc = "read" => th[t].n < th[t].i
  /\ th[t].pc = "reset" => th[t].n = 0
  /\ th[t].pc = "zero" => th[t].n < 3

ThreadInv == \A t \in Timers : Bounded(t)

(* One user waits: while a thread dials his number, it is the only one and *)
(* no digit is being entered.                                              *)
AloneInv ==
  \A t \in Timers : th[t] # Idle =>
    /\ typed = <<>> /\ ~armed /\ rc.pc = "idle"
    /\ \A u \in Timers : th[u] # Idle => u = t

(* The digits that have been counted, and the slots that are filled.       *)
Counted == IF rc.pc = "idle" THEN Len(typed) ELSE Len(typed) - 1
Filled == IF rc.pc \in {"load", "incr"} THEN Counted + 1 ELSE Counted

(* While no thread runs, the keys hold what he has typed so far.           *)
TypingInv ==
  (\A t \in Timers : th[t] = Idle) =>
    /\ keysPressed = Counted
    /\ \A s \in Slots : keys[s] = IF s < Filled THEN typed[s + 1] ELSE 0
    /\ rc.pc # "idle" => typed # <<>> /\ rc.key = typed[Len(typed)]
    /\ rc.pc = "test" => rc.i <= keysPressed
    /\ rc.pc \in {"store", "load"} => rc.i = keysPressed
    /\ rc.pc = "incr" => rc.tmp = keysPressed
    /\ rc.pc # "clear"

(* The number that the first n keys make.                                  *)
Entered(n) ==
  CASE n = 0 -> 0
    [] n = 1 -> keys[0]
    [] n = 2 -> 10 * keys[0] + keys[1]
    [] n = 3 -> 100 * keys[0] + 10 * keys[1] + keys[2]

(* While a thread runs, it dials what the keys hold, then clears them.     *)
Dials(t) ==
  /\ th[t].pc \in {"test", "read"} =>
       keysPressed \in 1 .. 3 /\ wanted[t] = Entered(keysPressed)
  /\ th[t].pc = "test" => th[t].i <= keysPressed
  /\ th[t].pc = "read" =>
       th[t].i = keysPressed /\ th[t].channel = Entered(th[t].n)
  /\ th[t].pc = "dialling" => th[t].channel = wanted[t]
  /\ th[t].pc = "zero" =>
       keysPressed = 0 /\ \A s \in Slots : s < th[t].n => keys[s] = 0

DialInv == \A t \in Timers : Dials(t)

EntryInv == TypeOK /\ InputInv /\ ThreadInv

PatientInv == ~hasty => AloneInv /\ TypingInv /\ DialInv

(* The types of the two processes' local state.                            *)
Inputs == [pc : {"idle", "test", "store", "load", "incr", "clear"},
           key : Digits \cup {0}, i : 0 .. 3, tmp : 0 .. 2]
Threads == [pc : {"idle", "test", "read", "dialling", "reset", "zero"},
            i : 0 .. 3, n : 0 .. 3, channel : Int]

-----------------------------------------------------------------------------
(* The steps, and the number that is typed.                                *)

LEMMA EntrySteps ==
  ASSUME [Next]_vars
  PROVE  \/ \E key \in Digits : Press(key)
         \/ TestCount \/ StoreKey \/ LoadCount \/ StoreCount \/ ClearKeys
         \/ \E t \in Timers : \/ Expire(t) \/ ChooseLength(t) \/ ReadKey(t)
                              \/ Dialled(t) \/ ResetCount(t) \/ ResetKeys(t)
         \/ UNCHANGED vars
BY DEF Next, inputChannelNumber, changeChannel, Runs

LEMMA DigitsAreInts == \A d \in Digits \cup {0} : d \in Int /\ d >= 0
BY EntryConstants

(* The digits of a number in progress, from the last one backwards.        *)
LEMMA TypedNumber ==
  ASSUME NEW s \in Seq(Digits), s # <<>>
  PROVE  NumberOf(s) \in Nat
<1>1. Len(s) \in Nat /\ Len(s) >= 1
  OBVIOUS
<1>2. (Len(s) - 1) % 3 \in 0 .. 2 /\ (Len(s) - 1) % 3 <= Len(s) - 1
  BY <1>1
<1> DEFINE Digit(k) == IF k <= (Len(s) - 1) % 3 THEN s[Len(s) - k] ELSE 0
<1>3. ASSUME NEW k \in 0 .. 2 PROVE Digit(k) \in Nat
  <2>1. k <= (Len(s) - 1) % 3 => Len(s) - k \in 1 .. Len(s)
    BY <1>1, <1>2
  <2>2. k <= (Len(s) - 1) % 3 => s[Len(s) - k] \in Digits
    BY <2>1
  <2> QED
    BY <2>2, DigitsAreInts
<1>4. Digit(0) \in Nat /\ Digit(1) \in Nat /\ Digit(2) \in Nat
  BY <1>3
<1>5. NumberOf(s) = 100 * Digit(2) + 10 * Digit(1) + Digit(0)
  BY DEF NumberOf
<1> HIDE DEF Digit
<1> QED
  BY <1>4, <1>5

LEMMA EntryInit == Init => EntryInv
<1> SUFFICES ASSUME Init PROVE EntryInv
  OBVIOUS
<1>1. TypeOK
  <2>1. armed \in BOOLEAN /\ hasty \in BOOLEAN
    BY DEF Init
  <2>2. typed \in Seq(Digits) /\ Len(typed) <= MaxDigits
    BY EntryConstants DEF Init
  <2> QED
    BY <2>1, <2>2 DEF Init, TypeOK, Idle, RcIdle
<1>2. InputInv /\ ThreadInv
  BY DEF Init, InputInv, ThreadInv, Bounded, Idle, RcIdle
<1> QED
  BY <1>1, <1>2 DEF EntryInv

(* One step of a timer thread: the other threads rest.                     *)
ThreadStepOf(t) ==
  Expire(t) \/ ChooseLength(t) \/ ReadKey(t) \/ Dialled(t) \/ ResetCount(t)
    \/ ResetKeys(t)

LEMMA OtherThreads ==
  ASSUME th \in [Timers -> Threads], NEW t \in Timers, ThreadStepOf(t)
  PROVE  \A u \in Timers : u # t => th'[u] = th[u]
BY DEF ThreadStepOf, Expire, ChooseLength, ReadKey, Dialled, ResetCount,
       ResetKeys

(* The records that the steps of two fields make, written out.             *)
Thread(pc, i, n, channel) ==
  [pc |-> pc, i |-> i, n |-> n, channel |-> channel]

(* What each step makes of the thread's own record.                        *)
LEMMA OwnRecord ==
  ASSUME EntryInv, NEW t \in Timers
  PROVE  /\ Expire(t) => th'[t] = Thread("test", 1, 0, 0)
         /\ ChooseLength(t) =>
              \/ /\ keysPressed = th[t].i
                 /\ th'[t] = Thread("read", th[t].i, th[t].n, th[t].channel)
              \/ /\ keysPressed # th[t].i /\ th[t].i < 3
                 /\ th'[t] = Thread("test", th[t].i + 1, th[t].n,
                                    th[t].channel)
              \/ /\ keysPressed # th[t].i /\ th[t].i = 3
                 /\ \E g \in Garbage :
                      th'[t] = Thread("dialling", th[t].i, th[t].n, g)
         /\ ReadKey(t) =>
              th'[t] = Thread(IF th[t].n + 1 = th[t].i THEN "dialling"
                              ELSE "read",
                              th[t].i, th[t].n + 1,
                              10 * th[t].channel + keys[th[t].n])
         /\ Dialled(t) => th'[t] = Thread("reset", 0, 0, 0)
         /\ ResetCount(t) =>
              th'[t] = Thread("zero", th[t].i, th[t].n, th[t].channel)
         /\ ResetKeys(t) =>
              th'[t] = IF th[t].n = 2 THEN Idle
                       ELSE Thread("zero", th[t].i, th[t].n + 1,
                                   th[t].channel)
<1>0. th \in [Timers -> Threads]
  BY DEF EntryInv, TypeOK, Threads
<1> USE <1>0 DEF Thread, Threads, Idle
<1>1. Expire(t) => th'[t] = Thread("test", 1, 0, 0)
  BY DEF Expire
<1>2. ASSUME ChooseLength(t)
      PROVE  \/ /\ keysPressed = th[t].i
                /\ th'[t] = Thread("read", th[t].i, th[t].n, th[t].channel)
             \/ /\ keysPressed # th[t].i /\ th[t].i < 3
                /\ th'[t] = Thread("test", th[t].i + 1, th[t].n,
                                   th[t].channel)
             \/ /\ keysPressed # th[t].i /\ th[t].i = 3
                /\ \E g \in Garbage :
                     th'[t] = Thread("dialling", th[t].i, th[t].n, g)
  BY <1>2 DEF ChooseLength
<1>3. ASSUME ReadKey(t)
      PROVE  th'[t] = Thread(IF th[t].n + 1 = th[t].i THEN "dialling"
                             ELSE "read",
                             th[t].i, th[t].n + 1,
                             10 * th[t].channel + keys[th[t].n])
  BY <1>3 DEF ReadKey
<1>4. Dialled(t) => th'[t] = Thread("reset", 0, 0, 0)
  BY DEF Dialled
<1>5. ResetCount(t) =>
        th'[t] = Thread("zero", th[t].i, th[t].n, th[t].channel)
  BY DEF ResetCount
<1>6. ResetKeys(t) =>
        th'[t] = IF th[t].n = 2 THEN Idle
                 ELSE Thread("zero", th[t].i, th[t].n + 1, th[t].channel)
  BY DEF ResetKeys
<1> HIDE DEF Thread, Idle
<1> QED
  BY <1>1, <1>2, <1>3, <1>4, <1>5, <1>6

LEMMA OwnPc ==
  ASSUME EntryInv, NEW t \in Timers
  PROVE  /\ Expire(t) => th'[t].pc = "test"
         /\ ChooseLength(t) => th'[t].pc \in {"test", "read", "dialling"}
         /\ ReadKey(t) => th'[t].pc \in {"read", "dialling"}
         /\ Dialled(t) => th'[t].pc = "reset"
         /\ ResetCount(t) => th'[t].pc = "zero"
<1>1. \A pc, i, n, channel : Thread(pc, i, n, channel).pc = pc
  BY DEF Thread
<1> QED
  BY <1>1, OwnRecord

(* A step of a thread keeps the type and the bounds of its own record.     *)
LEMMA ThreadKeeps ==
  ASSUME EntryInv, NEW t \in Timers, ThreadStepOf(t)
  PROVE  th'[t] \in Threads /\ Bounded(t)'
<1>0. th[t] \in Threads /\ Bounded(t)
  BY DEF EntryInv, TypeOK, ThreadInv, Threads
<1>1. CASE Expire(t)
  <2>1. th'[t] = Thread("test", 1, 0, 0)
    BY <1>1, OwnRecord
  <2> QED
    BY <2>1 DEF Threads, Thread, Bounded
<1>2. CASE ChooseLength(t)
  <2>1. th[t].pc = "test"
    BY <1>2 DEF ChooseLength
  <2>2. ASSUME th'[t] = Thread("read", th[t].i, th[t].n, th[t].channel)
        PROVE  th'[t] \in Threads /\ Bounded(t)'
    BY <1>0, <2>1, <2>2 DEF Threads, Thread, Bounded
  <2>3. ASSUME th[t].i < 3,
               th'[t] = Thread("test", th[t].i + 1, th[t].n, th[t].channel)
        PROVE  th'[t] \in Threads /\ Bounded(t)'
    BY <1>0, <2>1, <2>3 DEF Threads, Thread, Bounded
  <2>4. ASSUME NEW g \in Garbage,
               th'[t] = Thread("dialling", th[t].i, th[t].n, g)
        PROVE  th'[t] \in Threads /\ Bounded(t)'
    BY <1>0, <2>4, EntryConstants DEF Threads, Thread, Bounded
  <2> QED
    BY <1>2, <2>2, <2>3, <2>4, OwnRecord
<1>3. CASE ReadKey(t)
  <2>1. th[t].n < th[t].i /\ th[t].n \in 0 .. 2
    BY <1>0, <1>3 DEF ReadKey, Bounded, Threads
  <2>2. keys[th[t].n] \in Int
    BY <2>1, DigitsAreInts DEF EntryInv, TypeOK, Slots
  <2>3. PICK pc \in {"dialling", "read"} :
          /\ th'[t] = Thread(pc, th[t].i, th[t].n + 1,
                             10 * th[t].channel + keys[th[t].n])
          /\ pc = "read" => th[t].n + 1 # th[t].i
    BY <1>3, OwnRecord
  <2> QED
    BY <1>0, <2>1, <2>2, <2>3 DEF Threads, Thread, Bounded
<1>4. CASE Dialled(t)
  <2>1. th'[t] = Thread("reset", 0, 0, 0)
    BY <1>4, OwnRecord
  <2> QED
    BY <2>1 DEF Threads, Thread, Bounded
<1>5. CASE ResetCount(t)
  <2>1. th'[t] = Thread("zero", th[t].i, th[t].n, th[t].channel)
    BY <1>5, OwnRecord
  <2>2. th[t].pc = "reset"
    BY <1>5 DEF ResetCount
  <2> QED
    BY <1>0, <2>1, <2>2 DEF Threads, Thread, Bounded
<1>6. CASE ResetKeys(t)
  <2>1. th[t].n \in 0 .. 2
    BY <1>0, <1>6 DEF ResetKeys, Bounded, Threads
  <2>2. CASE th[t].n = 2
    <3>1. th'[t] = Idle
      BY <1>6, <2>2, OwnRecord
    <3> QED
      BY <3>1 DEF Threads, Idle, Bounded
  <2>3. CASE th[t].n # 2
    <3>1. th'[t] = Thread("zero", th[t].i, th[t].n + 1, th[t].channel)
      BY <1>6, <2>3, OwnRecord
    <3> QED
      BY <1>0, <2>1, <2>3, <3>1 DEF Threads, Thread, Bounded
  <2> QED
    BY <2>2, <2>3
<1> QED
  BY <1>1, <1>2, <1>3, <1>4, <1>5, <1>6 DEF ThreadStepOf

(* Every step keeps the records of all threads.                            *)
LEMMA ThreadStep ==
  ASSUME EntryInv, [Next]_vars
  PROVE  th' \in [Timers -> Threads] /\ ThreadInv'
<1>0. th \in [Timers -> Threads] /\ ThreadInv
  BY DEF EntryInv, TypeOK, Threads
<1>1. CASE UNCHANGED th
  BY <1>0, <1>1 DEF ThreadInv, Bounded
<1>2. ASSUME NEW t \in Timers, ThreadStepOf(t)
      PROVE  th' \in [Timers -> Threads] /\ ThreadInv'
  <2>1. DOMAIN th' = Timers /\ th' = [u \in Timers |-> th'[u]]
    BY <1>0, <1>2 DEF ThreadStepOf, Expire, ChooseLength, ReadKey, Dialled,
                      ResetCount, ResetKeys
  <2>2. \A u \in Timers : th'[u] \in Threads /\ Bounded(u)'
    BY <1>0, <1>2, ThreadKeeps, OtherThreads DEF ThreadInv, Bounded
  <2> QED
    BY <2>1, <2>2 DEF ThreadInv
<1>3. \/ UNCHANGED th
      \/ \E t \in Timers : ThreadStepOf(t)
  BY EntrySteps DEF Press, TestCount, StoreKey, LoadCount, StoreCount,
                    ClearKeys, vars, ThreadStepOf
<1> QED
  BY <1>1, <1>2, <1>3

LEMMA EntryTypeStep == EntryInv /\ [Next]_vars => TypeOK'
<1> SUFFICES ASSUME EntryInv, [Next]_vars PROVE TypeOK'
  OBVIOUS
<1> DEFINE Rest ==
      /\ keysPressed \in 0 .. 3 /\ keys \in [Slots -> Digits \cup {0}]
      /\ armed \in BOOLEAN /\ hasty \in BOOLEAN /\ rc \in Inputs
      /\ typed \in Seq(Digits) /\ Len(typed) <= MaxDigits
      /\ wanted \in [Timers -> Nat]
<1>0. Rest /\ InputInv
  BY DEF EntryInv, TypeOK, Inputs
<1> HIDE DEF Rest
<1>1. ASSUME NEW key \in Digits, Press(key) PROVE Rest'
  <2>1. Len(typed) < MaxDigits
    BY <1>0, <1>1, EntryConstants DEF Press, MayType, Rest
  <2>2. typed' \in Seq(Digits) /\ Len(typed') = Len(typed) + 1
    BY <1>0, <1>1 DEF Press, Rest
  <2>3. rc' \in Inputs
    <3>1. rc' = [pc |-> "test", key |-> key, i |-> 0, tmp |-> 0]
      BY <1>1 DEF Press, RcIdle
    <3> QED
      BY <3>1 DEF Inputs
  <2>4. Len(typed') <= MaxDigits
    BY <1>0, <2>1, <2>2, EntryConstants DEF Rest
  <2>5. armed' \in BOOLEAN
    BY <1>1 DEF Press
  <2> QED
    BY <1>0, <1>1, <2>2, <2>3, <2>4, <2>5 DEF Press, Rest
<1>2. ASSUME TestCount \/ StoreCount PROVE Rest'
  <2>1. rc' \in Inputs
    BY <1>0, <1>2 DEF TestCount, StoreCount, RcIdle, Rest, Inputs
  <2>2. keysPressed' \in 0 .. 3
    BY <1>0, <1>2 DEF TestCount, StoreCount, Rest, Inputs
  <2> QED
    BY <1>0, <1>2, <2>1, <2>2 DEF TestCount, StoreCount, Rest
<1>3. ASSUME StoreKey \/ ClearKeys PROVE Rest'
  <2>1. rc' \in Inputs
    BY <1>0, <1>3 DEF StoreKey, ClearKeys, RcIdle, Rest, Inputs
  <2>2. keys' \in [Slots -> Digits \cup {0}]
    BY <1>0, <1>3 DEF StoreKey, ClearKeys, Rest, Inputs
  <2> QED
    BY <1>0, <1>3, <2>1, <2>2 DEF StoreKey, ClearKeys, Rest
<1>4. ASSUME LoadCount PROVE Rest'
  <2>1. rc' \in Inputs
    <3>1. rc' = [pc |-> "incr", key |-> rc.key, i |-> rc.i,
                 tmp |-> keysPressed]
      BY <1>0, <1>4 DEF LoadCount, Rest, Inputs
    <3> QED
      BY <1>0, <1>4, <3>1 DEF LoadCount, InputInv, Rest, Inputs
  <2> QED
    BY <1>0, <1>4, <2>1 DEF LoadCount, Rest
<1>5. ASSUME NEW t \in Timers, Expire(t) PROVE Rest'
  <2>1. NumberOf(typed) \in Nat
    BY <1>0, <1>5, TypedNumber DEF Expire, InputInv, Rest
  <2>2. typed' \in Seq(Digits) /\ Len(typed') <= MaxDigits
    BY <1>5, EntryConstants DEF Expire
  <2>3. wanted' \in [Timers -> Nat]
    BY <1>0, <1>5, <2>1 DEF Expire, Rest
  <2>4. armed' \in BOOLEAN
    BY <1>5 DEF Expire
  <2> QED
    BY <1>0, <1>5, <2>2, <2>3, <2>4 DEF Expire, Rest
<1>6. ASSUME NEW t \in Timers, ChooseLength(t) \/ ReadKey(t) PROVE Rest'
  BY <1>0, <1>6 DEF ChooseLength, ReadKey, Rest
<1>7. ASSUME NEW t \in Timers, Dialled(t) \/ ResetCount(t) PROVE Rest'
  BY <1>0, <1>7 DEF Dialled, ResetCount, Rest
<1>8. ASSUME NEW t \in Timers, ResetKeys(t) PROVE Rest'
  <2>1. keys' \in [Slots -> Digits \cup {0}]
    BY <1>0, <1>8 DEF ResetKeys, Rest
  <2> QED
    BY <1>0, <1>8, <2>1 DEF ResetKeys, Rest
<1>9. ASSUME UNCHANGED vars PROVE Rest'
  BY <1>0, <1>9 DEF vars, Rest
<1>10. Rest'
  BY <1>1, <1>2, <1>3, <1>4, <1>5, <1>6, <1>7, <1>8, <1>9, EntrySteps
<1>11. th' \in [Timers -> Threads]
  BY ThreadStep
<1> QED
  BY <1>10, <1>11 DEF TypeOK, Rest, Inputs, Threads

LEMMA InputStep == EntryInv /\ [Next]_vars => InputInv'
<1> SUFFICES ASSUME EntryInv, [Next]_vars PROVE InputInv'
  OBVIOUS
<1> USE DEF EntryInv, InputInv
<1>0. /\ rc \in Inputs /\ keysPressed \in 0 .. 3 /\ typed \in Seq(Digits)
      /\ armed \in BOOLEAN
  BY DEF TypeOK, Inputs
<1> USE <1>0 DEF Inputs
<1>1. ASSUME NEW key \in Digits, Press(key) PROVE InputInv'
  BY <1>1 DEF Press
<1>2. CASE TestCount
  BY <1>2 DEF TestCount, RcIdle
<1>3. CASE StoreKey
  BY <1>3 DEF StoreKey
<1>4. CASE LoadCount
  BY <1>4 DEF LoadCount
<1>5. CASE StoreCount \/ ClearKeys
  BY <1>5 DEF StoreCount, ClearKeys, RcIdle
<1>6. ASSUME NEW t \in Timers, Expire(t) PROVE InputInv'
  BY <1>6 DEF Expire
<1>7. ASSUME NEW t \in Timers, ChooseLength(t) \/ ReadKey(t) \/ Dialled(t)
                               \/ ResetCount(t) \/ ResetKeys(t)
      PROVE  InputInv'
  BY <1>7 DEF ChooseLength, ReadKey, Dialled, ResetCount, ResetKeys
<1>8. CASE UNCHANGED vars
  BY <1>8 DEF vars
<1> QED
  BY <1>1, <1>2, <1>3, <1>4, <1>5, <1>6, <1>7, <1>8, EntrySteps

LEMMA EntryInvHolds == Spec => []EntryInv
<1>1. EntryInv /\ [Next]_vars => EntryInv'
  BY EntryTypeStep, InputStep, ThreadStep DEF EntryInv
<1> QED
  BY EntryInit, <1>1, PTL DEF Spec

(* Every variable of the channel number entry keeps its type; in           *)
(* particular keysPressed never leaves 0 .. 3, though its increments and   *)
(* the resets of the timer threads race.                                   *)
THEOREM EntryTypeCorrect == Spec => []TypeOK
BY EntryInvHolds, PTL DEF EntryInv

(* A thread that has still to reset the count, or a key, has so after any  *)
(* step but the reset itself.                                              *)
LEMMA StillToReset ==
  ASSUME EntryInv, NEW t \in Timers, ThreadStepOf(t), NEW u \in Timers
  PROVE  /\ WillReset(u) => WillReset(u)' \/ ResetCount(t)
         /\ \A s \in Slots :
              WillClear(u, s) =>
                \/ WillClear(u, s)'
                \/ ResetKeys(t) /\ th[t].n = s
<1>0. th \in [Timers -> Threads] /\ th[t].n \in 0 .. 3 /\ Bounded(t)
  BY DEF EntryInv, TypeOK, Threads, ThreadInv
<1>f. \A pc, i, n, channel : /\ Thread(pc, i, n, channel).pc = pc
                             /\ Thread(pc, i, n, channel).n = n
  BY DEF Thread
<1> USE DEF WillReset, WillClear
<1>1. CASE u # t
  BY <1>0, <1>1, OtherThreads
<1>2. CASE u = t
  <2>1. CASE Expire(t) \/ ChooseLength(t) \/ ReadKey(t) \/ Dialled(t)
    BY <1>2, <2>1, OwnPc
  <2>2. CASE ResetCount(t)
    <3>1. th[t].pc = "reset" /\ th[t].n = 0
      BY <1>0, <2>2 DEF ResetCount, Bounded
    <3>2. th'[t] = Thread("zero", th[t].i, th[t].n, th[t].channel)
      BY <2>2, OwnRecord
    <3>3. th'[t].pc = "zero" /\ th'[t].n = 0
      BY <1>f, <3>1, <3>2
    <3> QED
      BY <1>2, <2>2, <3>3 DEF Slots
  <2>3. CASE ResetKeys(t)
    <3>1. th[t].pc = "zero" /\ th[t].n \in 0 .. 2
      BY <1>0, <2>3 DEF ResetKeys, Bounded
    <3>2. th[t].n # 2 => th'[t] = Thread("zero", th[t].i, th[t].n + 1,
                                         th[t].channel)
      BY <2>3, OwnRecord
    <3>3. th[t].n # 2 => th'[t].pc = "zero" /\ th'[t].n = th[t].n + 1
      BY <1>f, <3>2
    <3> QED
      BY <1>2, <2>3, <3>1, <3>3 DEF Slots
  <2> QED
    BY <2>1, <2>2, <2>3 DEF ThreadStepOf
<1> QED
  BY <1>1, <1>2

(* Nothing of an entry outlives it, whatever digits race with its resets:  *)
(* as long as the count or a key is not 0, keyTimer is armed, or a thread  *)
(* runs that has still to reset it.                                        *)
THEOREM EntryStaysPending == Spec => []EntryPending
<1>1. Init => EntryPending
  BY DEF Init, EntryPending
<1>2. EntryInv /\ EntryPending /\ [Next]_vars => EntryPending'
  <2> SUFFICES ASSUME EntryInv, EntryPending, [Next]_vars, ~armed'
               PROVE  EntryPending'
    BY DEF EntryPending
  <2>1. InputInv /\ keys \in [Slots -> Digits \cup {0}]
    BY DEF EntryInv, TypeOK
  <2>2. CASE UNCHANGED vars
    BY <2>2 DEF vars, EntryPending, WillReset, WillClear
  <2>3. ASSUME NEW key \in Digits, Press(key) PROVE FALSE
    BY <2>3 DEF Press
  <2>4. CASE TestCount \/ StoreKey \/ LoadCount \/ StoreCount \/ ClearKeys
    BY <2>1, <2>4 DEF InputInv, TestCount, StoreKey, LoadCount, StoreCount,
                      ClearKeys
  <2>5. ASSUME NEW t \in Timers, Expire(t) PROVE EntryPending'
    <3>1. WillReset(t)'
      BY <2>5, OwnPc DEF WillReset
    <3> QED
      BY <3>1 DEF EntryPending, WillClear
  <2>6. ASSUME NEW t \in Timers, ThreadStepOf(t), ~Expire(t)
        PROVE  EntryPending'
    <3>1. ~armed /\ (keysPressed' = keysPressed \/ ResetCount(t))
      BY <2>6 DEF ThreadStepOf, ChooseLength, ReadKey, Dialled, ResetCount,
                  ResetKeys
    <3>2. \A s \in Slots : keys'[s] = keys[s] \/ keys'[s] = 0
      BY <2>1, <2>6 DEF ThreadStepOf, ChooseLength, ReadKey, Dialled,
                        ResetCount, ResetKeys
    <3>3. ResetCount(t) => keysPressed' = 0
      BY DEF ResetCount
    <3>4. \A s \in Slots : ResetKeys(t) /\ th[t].n = s => keys'[s] = 0
      BY <2>1 DEF ResetKeys
    <3>5. keysPressed' # 0 => \E u \in Timers : WillReset(u)'
      <4> SUFFICES ASSUME keysPressed' # 0 PROVE \E u \in Timers : WillReset(u)'
        OBVIOUS
      <4>1. PICK u \in Timers : WillReset(u)
        BY <3>1, <3>3 DEF EntryPending
      <4> QED
        BY <2>6, <3>3, <4>1, StillToReset
    <3>6. ASSUME NEW s \in Slots, keys'[s] # 0
          PROVE  \E u \in Timers : WillClear(u, s)'
      <4>1. PICK u \in Timers : WillClear(u, s)
        BY <3>1, <3>2, <3>6 DEF EntryPending
      <4> QED
        BY <2>6, <3>4, <3>6, <4>1, StillToReset
    <3> QED
      BY <3>5, <3>6 DEF EntryPending
  <2> QED
    BY <2>2, <2>3, <2>4, <2>5, <2>6, EntrySteps DEF ThreadStepOf
<1> QED
  BY <1>1, <1>2, EntryInvHolds, PTL DEF Spec

-----------------------------------------------------------------------------
(* The user who waits until a number is dialled before he types the next.  *)

(* A step of changeChannel is one of a thread that is not idle.            *)
LEMMA BusyThread ==
  ASSUME NEW t \in Timers,
         ChooseLength(t) \/ ReadKey(t) \/ Dialled(t) \/ ResetCount(t)
           \/ ResetKeys(t)
  PROVE  th[t] # Idle
BY DEF ChooseLength, ReadKey, Dialled, ResetCount, ResetKeys, Idle

(* The steps, under AloneInv: while a digit is typed no thread runs, and   *)
(* while one runs no digit is typed and no other thread runs.              *)
LEMMA PatientSteps ==
  ASSUME EntryInv, AloneInv, ~hasty, [Next]_vars
  PROVE  \/ /\ \A t \in Timers : th[t] = Idle
            /\ UNCHANGED th
            /\ \/ \E key \in Digits : Press(key)
               \/ TestCount \/ StoreKey \/ LoadCount \/ StoreCount
               \/ ClearKeys
         \/ \E t \in Timers :
              /\ Expire(t)
              /\ \A u \in Timers : th[u] = Idle
              /\ \A u \in Timers : u # t => th'[u] = Idle
         \/ \E t \in Timers :
              /\ \/ ChooseLength(t) \/ ReadKey(t) \/ Dialled(t)
                 \/ ResetCount(t) \/ ResetKeys(t)
              /\ typed = <<>> /\ ~armed /\ rc.pc = "idle"
              /\ \A u \in Timers : u # t => th'[u] = Idle
         \/ UNCHANGED vars
<1>0. th \in [Timers -> Threads]
  BY DEF EntryInv, TypeOK, Threads
<1>1. ASSUME NEW key \in Digits, Press(key)
      PROVE  (\A t \in Timers : th[t] = Idle) /\ UNCHANGED th
  BY <1>1 DEF Press, MayType
<1>2. ASSUME TestCount \/ StoreKey \/ LoadCount \/ StoreCount \/ ClearKeys
      PROVE  (\A t \in Timers : th[t] = Idle) /\ UNCHANGED th
  BY <1>2 DEF AloneInv, TestCount, StoreKey, LoadCount, StoreCount, ClearKeys
<1>3. ASSUME NEW t \in Timers, Expire(t)
      PROVE  /\ \A u \in Timers : th[u] = Idle
             /\ \A u \in Timers : u # t => th'[u] = Idle
  <2>1. \A u \in Timers : th[u] = Idle
    BY <1>3 DEF Expire, AloneInv
  <2> QED
    BY <1>0, <1>3, <2>1, OtherThreads DEF ThreadStepOf
<1>4. ASSUME NEW t \in Timers,
             ChooseLength(t) \/ ReadKey(t) \/ Dialled(t) \/ ResetCount(t)
               \/ ResetKeys(t)
      PROVE  /\ typed = <<>> /\ ~armed /\ rc.pc = "idle"
             /\ \A u \in Timers : u # t => th'[u] = Idle
  <2>1. th[t] # Idle
    BY <1>4, BusyThread
  <2>2. \A u \in Timers : u # t => th'[u] = th[u]
    BY <1>0, <1>4, OtherThreads DEF ThreadStepOf
  <2> QED
    BY <2>1, <2>2 DEF AloneInv
<1> QED
  BY <1>1, <1>2, <1>3, <1>4, EntrySteps

LEMMA AloneStep ==
  ASSUME EntryInv, AloneInv, ~hasty, [Next]_vars
  PROVE  AloneInv'
<1>1. ASSUME \A t \in Timers : th[t] = Idle, UNCHANGED th PROVE AloneInv'
  BY <1>1 DEF AloneInv
<1>2. ASSUME NEW t \in Timers, Expire(t),
             \A u \in Timers : u # t => th'[u] = Idle
      PROVE  AloneInv'
  BY <1>2 DEF AloneInv, Expire
<1>3. ASSUME NEW t \in Timers,
             ChooseLength(t) \/ ReadKey(t) \/ Dialled(t) \/ ResetCount(t)
               \/ ResetKeys(t),
             typed = <<>>, ~armed, rc.pc = "idle",
             \A u \in Timers : u # t => th'[u] = Idle
      PROVE  AloneInv'
  BY <1>3 DEF AloneInv, ChooseLength, ReadKey, Dialled, ResetCount, ResetKeys
<1>4. CASE UNCHANGED vars
  BY <1>4 DEF AloneInv, vars
<1> QED
  BY <1>1, <1>2, <1>3, <1>4, PatientSteps

LEMMA OneDigitMore ==
  ASSUME NEW s \in Seq(Digits), NEW key \in Digits
  PROVE  LET t == Append(s, key)
         IN  /\ t \in Seq(Digits) /\ Len(t) = Len(s) + 1
             /\ t[Len(s) + 1] = key
             /\ \A j \in 1 .. Len(s) : t[j] = s[j]
OBVIOUS

(* A digit is stored in the next free slot and then counted.               *)
LEMMA TypingStep ==
  ASSUME EntryInv, TypingInv, MaxDigits <= 3,
         \A t \in Timers : th[t] = Idle, UNCHANGED th,
         \/ \E key \in Digits : Press(key)
         \/ TestCount \/ StoreKey \/ LoadCount \/ StoreCount \/ ClearKeys
  PROVE  TypingInv'
<1>0. /\ rc \in Inputs /\ keysPressed \in 0 .. 3 /\ typed \in Seq(Digits)
      /\ Len(typed) \in Nat /\ Len(typed) <= 3 /\ keys \in [Slots -> Digits \cup {0}]
  BY EntryConstants DEF EntryInv, TypeOK, Inputs
<1> DEFINE Typing ==
      /\ keysPressed = Counted
      /\ \A s \in Slots : keys[s] = IF s < Filled THEN typed[s + 1] ELSE 0
      /\ rc.pc # "idle" => typed # <<>> /\ rc.key = typed[Len(typed)]
      /\ rc.pc = "test" => rc.i <= keysPressed
      /\ rc.pc \in {"store", "load"} => rc.i = keysPressed
      /\ rc.pc = "incr" => rc.tmp = keysPressed
      /\ rc.pc # "clear"
<1>1. Typing
  BY DEF TypingInv
<1>2. SUFFICES Typing'
  BY DEF TypingInv
<1> USE <1>0, <1>1 DEF Counted, Filled
<1>3. ASSUME NEW key \in Digits, Press(key) PROVE Typing'
  <2>1. /\ typed' \in Seq(Digits) /\ Len(typed') = Len(typed) + 1
        /\ typed'[Len(typed) + 1] = key
        /\ \A s \in 1 .. Len(typed) : typed'[s] = typed[s]
    <3>1. typed' = Append(typed, key)
      BY <1>3 DEF Press
    <3> HIDE <1>0, <1>1
    <3>2. typed \in Seq(Digits)
      BY <1>0
    <3> QED
      BY <3>1, <3>2, OneDigitMore
  <2>2. rc'.pc = "test" /\ rc'.key = key /\ rc'.i = 0 /\ rc.pc = "idle"
    BY <1>3 DEF Press, RcIdle
  <2>3. keysPressed' = Len(typed) /\ keys' = keys
    BY <1>3, <2>2 DEF Press
  <2>4. ASSUME NEW s \in Slots
        PROVE  keys'[s] = IF s < Len(typed) THEN typed'[s + 1] ELSE 0
    BY <2>1, <2>2, <2>3 DEF Slots
  <2>5. Counted' = Len(typed) /\ Filled' = Len(typed)
    BY <2>1, <2>2
  <2>6. typed' # <<>>
    BY <2>1
  <2> QED
    BY <2>1, <2>2, <2>3, <2>4, <2>5, <2>6
<1>4. ASSUME TestCount PROVE Typing'
  BY <1>4 DEF TestCount, Inputs
<1>5. ASSUME StoreKey PROVE Typing'
  <2>1. /\ rc.pc = "store" /\ rc.i = keysPressed /\ rc.key = typed[Len(typed)]
        /\ keysPressed = Len(typed) - 1
    BY <1>5 DEF StoreKey
  <2>2. rc.i \in 0 .. 2 /\ rc.i % 3 = rc.i
    <3>1. rc.i = 0 \/ rc.i = 1 \/ rc.i = 2
      BY <2>1
    <3> QED
      BY <3>1
  <2>3. keys' = [keys EXCEPT ![rc.i] = rc.key]
    BY <1>5, <2>2 DEF StoreKey
  <2>4. rc' = [rc EXCEPT !.pc = "load"]
    BY <1>5, <2>2 DEF StoreKey
  <2>5. /\ rc'.pc = "load" /\ rc'.i = rc.i /\ rc'.key = rc.key
        /\ UNCHANGED <<typed, keysPressed>>
    BY <1>5, <2>4 DEF StoreKey, Inputs
  <2>6. ASSUME NEW s \in Slots
        PROVE  keys'[s] = IF s < Len(typed) THEN typed[s + 1] ELSE 0
    BY <2>1, <2>2, <2>3 DEF Slots
  <2>7. Filled' = Len(typed) /\ Counted' = keysPressed
    BY <2>1, <2>5
  <2> QED
    BY <2>1, <2>5, <2>6, <2>7
<1>6. ASSUME LoadCount PROVE Typing'
  BY <1>6 DEF LoadCount, Inputs
<1>7. ASSUME StoreCount PROVE Typing'
  BY <1>7 DEF StoreCount, RcIdle, Inputs
<1>8. ~ClearKeys
  BY DEF ClearKeys
<1> QED
  BY <1>3, <1>4, <1>5, <1>6, <1>7, <1>8

(* What the digits typed so far mean is what the keys that hold them make. *)
LEMMA NumberIsEntered ==
  ASSUME typed \in Seq(Digits), Len(typed) \in 1 .. 3,
         \A s \in Slots : keys[s] = IF s < Len(typed) THEN typed[s + 1] ELSE 0
  PROVE  NumberOf(typed) = Entered(Len(typed))
<1>1. \A s \in 1 .. Len(typed) : typed[s] \in Int
  <2>1. \A s \in 1 .. Len(typed) : typed[s] \in Digits
    OBVIOUS
  <2> QED
    BY <2>1, DigitsAreInts
<1>2. CASE Len(typed) = 1
  <2>1. (Len(typed) - 1) % 3 = 0 /\ keys[0] = typed[1]
    BY <1>2 DEF Slots
  <2> QED
    BY <1>1, <1>2, <2>1 DEF NumberOf, Entered
<1>3. CASE Len(typed) = 2
  <2>1. (Len(typed) - 1) % 3 = 1 /\ keys[0] = typed[1] /\ keys[1] = typed[2]
    BY <1>3 DEF Slots
  <2> QED
    BY <1>1, <1>3, <2>1 DEF NumberOf, Entered
<1>4. CASE Len(typed) = 3
  <2>1. /\ (Len(typed) - 1) % 3 = 2
        /\ keys[0] = typed[1] /\ keys[1] = typed[2] /\ keys[2] = typed[3]
    BY <1>4 DEF Slots
  <2> QED
    BY <1>1, <1>4, <2>1 DEF NumberOf, Entered
<1> QED
  BY <1>2, <1>3, <1>4

(* One more key is one more digit.                                         *)
LEMMA EnteredNext ==
  ASSUME EntryInv, NEW n \in 0 .. 2
  PROVE  Entered(n + 1) = 10 * Entered(n) + keys[n]
<1>1. keys[0] \in Int /\ keys[1] \in Int /\ keys[2] \in Int
  BY DigitsAreInts DEF EntryInv, TypeOK, Slots
<1>2. CASE n = 0
  BY <1>1, <1>2 DEF Entered
<1>3. CASE n = 1
  BY <1>1, <1>3 DEF Entered
<1>4. CASE n = 2
  BY <1>1, <1>4 DEF Entered
<1> QED
  BY <1>2, <1>3, <1>4

(* keyTimer expires: what is to be dialled is what the keys hold.          *)
LEMMA ExpireDials ==
  ASSUME EntryInv, TypingInv, MaxDigits <= 3, NEW t \in Timers, Expire(t),
         \A u \in Timers : th[u] = Idle
  PROVE  Dials(t)'
<1>0. /\ typed \in Seq(Digits) /\ wanted \in [Timers -> Nat]
      /\ Len(typed) <= MaxDigits
  BY DEF EntryInv, TypeOK
<1>1. Len(typed) \in 1 .. 3
  <2>1. typed # <<>>
    BY DEF EntryInv, InputInv, Expire
  <2>2. Len(typed) \in Nat /\ Len(typed) # 0
    BY <1>0, <2>1
  <2>3. MaxDigits \in Nat /\ Len(typed) <= MaxDigits
    BY <1>0, EntryConstants
  <2>4. \A m, k \in Nat : m # 0 /\ m <= k /\ k <= 3 => m \in 1 .. 3
    OBVIOUS
  <2> QED
    BY <2>2, <2>3, <2>4
<1>2. /\ keysPressed = Len(typed)
      /\ \A s \in Slots : keys[s] = IF s < Len(typed) THEN typed[s + 1] ELSE 0
  BY DEF TypingInv, Expire, Counted, Filled
<1>3. wanted'[t] = Entered(keysPressed)
  BY <1>0, <1>1, <1>2, NumberIsEntered DEF Expire
<1>4. th'[t].pc = "test" /\ th'[t].i = 1
  <2>1. th'[t] = Thread("test", 1, 0, 0)
    BY OwnRecord
  <2> QED
    BY <2>1 DEF Thread
<1>5. UNCHANGED <<keys, keysPressed>>
  BY DEF Expire
<1> QED
  BY <1>1, <1>2, <1>3, <1>4, <1>5 DEF Dials, Entered

(* changeChannel finds the length, reads the keys, dials and clears them.  *)
LEMMA DialStep ==
  ASSUME EntryInv, NEW t \in Timers, Dials(t),
         ChooseLength(t) \/ ReadKey(t) \/ Dialled(t) \/ ResetCount(t)
           \/ ResetKeys(t)
  PROVE  Dials(t)'
<1>0. /\ th[t] \in Threads /\ Bounded(t) /\ keysPressed \in 0 .. 3
      /\ keys \in [Slots -> Digits \cup {0}]
  BY DEF EntryInv, TypeOK, ThreadInv, Threads
<1>1. CASE ChooseLength(t)
  <2>1. /\ th[t].pc = "test" /\ th[t].n = 0 /\ th[t].channel = 0
        /\ UNCHANGED <<keysPressed, keys, wanted>>
    BY <1>0, <1>1 DEF ChooseLength, Bounded
  <2>2. ASSUME keysPressed = th[t].i,
               th'[t] = Thread("read", th[t].i, th[t].n, th[t].channel)
        PROVE  Dials(t)'
    BY <1>0, <2>1, <2>2 DEF Dials, Thread, Entered
  <2>3. ASSUME keysPressed # th[t].i,
               th'[t] = Thread("test", th[t].i + 1, th[t].n, th[t].channel)
        PROVE  Dials(t)'
    BY <1>0, <2>1, <2>3 DEF Dials, Thread, Threads, Entered
  <2>4. ~(keysPressed # th[t].i /\ th[t].i = 3)
    BY <2>1, <1>0 DEF Dials
  <2> QED
    BY <1>1, <2>2, <2>3, <2>4, OwnRecord
<1>2. CASE ReadKey(t)
  <2>1. /\ th[t].pc = "read" /\ th[t].n < th[t].i /\ th[t].n \in 0 .. 2
        /\ UNCHANGED <<keysPressed, keys, wanted>>
    BY <1>0, <1>2 DEF ReadKey, Bounded, Threads
  <2>2. Entered(th[t].n + 1) = 10 * th[t].channel + keys[th[t].n]
    BY <2>1, EnteredNext DEF Dials
  <2>3. PICK pc \in {"dialling", "read"} :
          /\ th'[t] = Thread(pc, th[t].i, th[t].n + 1,
                             10 * th[t].channel + keys[th[t].n])
          /\ pc = "dialling" => th[t].n + 1 = th[t].i
    BY <1>2, OwnRecord
  <2>4. /\ th'[t].pc = pc /\ th'[t].i = th[t].i /\ th'[t].n = th[t].n + 1
        /\ th'[t].channel = Entered(th'[t].n)
    BY <2>2, <2>3 DEF Thread
  <2>5. \A n : Entered(n)' = Entered(n)
    BY <2>1 DEF Entered
  <2> QED
    BY <2>1, <2>3, <2>4, <2>5 DEF Dials
<1>3. CASE Dialled(t)
  <2>1. th'[t].pc = "reset"
    BY <1>3, OwnPc
  <2> QED
    BY <2>1 DEF Dials
<1>4. CASE ResetCount(t)
  <2>1. th'[t] = Thread("zero", th[t].i, th[t].n, th[t].channel)
    BY <1>4, OwnRecord
  <2>2. th[t].n = 0 /\ keysPressed' = 0
    BY <1>0, <1>4 DEF ResetCount, Bounded
  <2> QED
    BY <2>1, <2>2 DEF Dials, Thread, Slots
<1>5. CASE ResetKeys(t)
  <2>1. /\ th[t].pc = "zero" /\ th[t].n \in 0 .. 2
        /\ keys' = [keys EXCEPT ![th[t].n] = 0] /\ UNCHANGED keysPressed
    BY <1>0, <1>5 DEF ResetKeys, Bounded, Threads
  <2>2. CASE th[t].n = 2
    <3>1. th'[t] = Idle
      BY <1>5, <2>2, OwnRecord
    <3> QED
      BY <3>1 DEF Dials, Idle
  <2>3. CASE th[t].n # 2
    <3>1. th'[t] = Thread("zero", th[t].i, th[t].n + 1, th[t].channel)
      BY <1>5, <2>3, OwnRecord
    <3>2. th'[t].pc = "zero" /\ th'[t].n = th[t].n + 1
      BY <3>1 DEF Thread
    <3>3. \A s \in Slots : s < th[t].n + 1 => keys'[s] = 0
      BY <1>0, <2>1 DEF Dials, Slots
    <3> QED
      BY <2>1, <3>2, <3>3 DEF Dials
  <2> QED
    BY <2>2, <2>3
<1> QED
  BY <1>1, <1>2, <1>3, <1>4, <1>5

(* The last step of a thread leaves no key behind.                         *)
LEMMA ClearedAgain ==
  ASSUME EntryInv, NEW t \in Timers, Dials(t), typed = <<>>, rc.pc = "idle",
         ChooseLength(t) \/ ReadKey(t) \/ Dialled(t) \/ ResetCount(t)
           \/ ResetKeys(t),
         th'[t] = Idle
  PROVE  TypingInv'
<1>0. /\ th[t] \in Threads /\ Bounded(t)
      /\ keys \in [Slots -> Digits \cup {0}]
  BY DEF EntryInv, TypeOK, ThreadInv, Threads
<1>1. ResetKeys(t)
  BY OwnPc DEF Idle
<1>2. /\ th[t].pc = "zero" /\ th[t].n \in 0 .. 2
      /\ keys' = [keys EXCEPT ![th[t].n] = 0]
      /\ UNCHANGED <<keysPressed, typed, rc>>
  BY <1>0, <1>1 DEF ResetKeys, Bounded, Threads
<1>3. th[t].n = 2
  <2>1. ASSUME th[t].n # 2 PROVE FALSE
    <3>1. th'[t] = Thread("zero", th[t].i, th[t].n + 1, th[t].channel)
      BY <1>1, <2>1, OwnRecord
    <3> QED
      BY <3>1 DEF Thread, Idle
  <2> QED
    BY <2>1
<1>4. keysPressed = 0 /\ \A s \in Slots : keys'[s] = 0
  BY <1>0, <1>2, <1>3 DEF Dials, Slots
<1>5. Counted' = 0 /\ Filled' = 0
  BY <1>2 DEF Counted, Filled
<1> QED
  BY <1>2, <1>4, <1>5 DEF TypingInv, Slots

(* At most three digits are typed before the two seconds are over: the     *)
(* fourth digit of a number is taken for the first of a new one, but       *)
(* counted as a third.                                                     *)
LEMMA PatientStep ==
  ASSUME MaxDigits <= 3, EntryInv, PatientInv, [Next]_vars
  PROVE  PatientInv'
<1>1. UNCHANGED hasty
  BY EntrySteps DEF Press, TestCount, StoreKey, LoadCount, StoreCount,
                    ClearKeys, Expire, ChooseLength, ReadKey, Dialled,
                    ResetCount, ResetKeys, vars
<1>2. SUFFICES ASSUME ~hasty PROVE AloneInv' /\ TypingInv' /\ DialInv'
  BY <1>1 DEF PatientInv
<1>3. AloneInv /\ TypingInv /\ DialInv
  BY <1>2 DEF PatientInv
<1>4. AloneInv'
  BY <1>2, <1>3, AloneStep
<1>5. \A u \in Timers : th'[u] = Idle => Dials(u)'
  BY DEF Dials, Idle
<1>6. ASSUME \A t \in Timers : th[t] = Idle, UNCHANGED th,
             \/ \E key \in Digits : Press(key)
             \/ TestCount \/ StoreKey \/ LoadCount \/ StoreCount \/ ClearKeys
      PROVE  TypingInv' /\ DialInv'
  <2>1. TypingInv'
    BY <1>3, <1>6, TypingStep
  <2> QED
    BY <1>5, <1>6, <2>1 DEF DialInv
<1>7. ASSUME NEW t \in Timers, Expire(t), \A u \in Timers : th[u] = Idle,
             \A u \in Timers : u # t => th'[u] = Idle
      PROVE  TypingInv' /\ DialInv'
  <2>1. Dials(t)'
    BY <1>3, <1>7, ExpireDials
  <2>2. th'[t] # Idle
    BY <1>7, OwnPc DEF Idle
  <2> QED
    BY <1>5, <1>7, <2>1, <2>2 DEF DialInv, TypingInv
<1>8. ASSUME NEW t \in Timers,
             ChooseLength(t) \/ ReadKey(t) \/ Dialled(t) \/ ResetCount(t)
               \/ ResetKeys(t),
             typed = <<>>, rc.pc = "idle",
             \A u \in Timers : u # t => th'[u] = Idle
      PROVE  TypingInv' /\ DialInv'
  <2>1. Dials(t) /\ Dials(t)'
    BY <1>3, <1>8, DialStep DEF DialInv
  <2>2. DialInv'
    BY <1>5, <1>8, <2>1 DEF DialInv
  <2>3. CASE th'[t] = Idle
    BY <1>8, <2>1, <2>2, <2>3, ClearedAgain
  <2>4. CASE th'[t] # Idle
    BY <2>2, <2>4 DEF TypingInv
  <2> QED
    BY <2>3, <2>4
<1>9. CASE UNCHANGED vars
  BY <1>3, <1>9 DEF vars, AloneInv, TypingInv, DialInv, Dials, Counted,
                    Filled, Entered
<1> QED
  BY <1>2, <1>3, <1>4, <1>6, <1>7, <1>8, <1>9, PatientSteps

(* A user who waits until a number is dialled before he types the next one *)
(* gets the number he typed, with up to three digits: no digit is lost,    *)
(* doubled or carried over from the number before.                         *)
THEOREM PatientUserServed ==
  ASSUME MaxDigits <= 3
  PROVE  Spec => []DialsWhatWasTyped
<1>1. Init => PatientInv
  BY DEF Init, PatientInv, AloneInv, TypingInv, DialInv, Dials, Counted,
         Filled, RcIdle, Idle
<1>2. EntryInv /\ PatientInv /\ [Next]_vars => PatientInv'
  BY PatientStep
<1>3. PatientInv => DialsWhatWasTyped
  BY DEF PatientInv, DialInv, Dials, DialsWhatWasTyped
<1> QED
  BY <1>1, <1>2, <1>3, EntryInvHolds, PTL DEF Spec
=============================================================================
