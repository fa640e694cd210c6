---------------------------- MODULE StreamStartup ----------------------------
(***************************************************************************)
(* The start of streamControllerTask, up to the open player source from    *)
(* which module StreamController goes on, against the thread on which the  *)
(* tuner runs tunerStatusCallback.  The tuner and the player (libtdp) are  *)
(* external: a call fails if MayFail names it, and a registered callback   *)
(* is told the lock status whenever it changes, at most MaxReports times.  *)
(***************************************************************************)
EXTENDS Naturals

CONSTANTS
  MayFail,      \* calls that may fail
  MaxReports    \* bound on the status reports of the tuner

Tables == {"pat", "pmt", "tdt", "tot"}
Order == [pat |-> "pmt", pmt |-> "tdt", tdt |-> "tot", tot |-> "tuner"]

ASSUME StartupConstants ==
  /\ MayFail \subseteq {"malloc", "tuner", "register", "lock", "player",
                        "source"}
  /\ MaxReports \in Nat

VARIABLES
  pc,           \* streamControllerTask: what it does next
  table,        \* what each table pointer points to
  tuner,        \* "off", "on", "tuning" (a frequency is set)
  registered,   \* tunerStatusCallback is registered
  player,       \* "off", "on", "open" (with a source)
  deadline,     \* lockStatusWaitTime is over
  statusMutex,  \* who holds it: "none", "task", "tuner"
  cb,           \* tunerStatusCallback: "idle", "lock", "signal", "unlock"
  locked,       \* last report: "no" lock, one "inTime" or "late"
  reports,      \* how many reports it has made
  everLocked,   \* history: it has reported a lock at some time
  spurious      \* history: the wait has returned 0 without a signal

task == <<pc, table, tuner, registered, player, deadline>>
history == <<everLocked, spurious>>
report == <<cb, locked, reports, history>>
vars == <<task, statusMutex, report>>

Init ==
  /\ pc = "pat"
  /\ table = [t \in Tables |-> "null"]
  /\ tuner = "off" /\ registered = FALSE /\ player = "off"
  /\ deadline = FALSE
  /\ statusMutex = "none"
  /\ cb = "idle" /\ locked = "no" /\ reports = 0
  /\ everLocked = FALSE /\ spurious = FALSE

-----------------------------------------------------------------------------
(* streamControllerTask.                                                   *)

(* malloc and memset of one table.  When it fails the task ends and the    *)
(* tables before it stay allocated.                                        *)
Allocate ==
  /\ pc \in Tables
  /\ \/ table' = [table EXCEPT ![pc] = "live"] /\ pc' = Order[pc]
     \/ "malloc" \in MayFail /\ pc' = "ended" /\ UNCHANGED table
  /\ UNCHANGED <<tuner, registered, player, deadline, statusMutex, report>>

Tuner_Init ==
  /\ pc = "tuner"
  /\ \/ tuner' = "on" /\ pc' = "register"
     \/ "tuner" \in MayFail /\ pc' = "free" /\ UNCHANGED tuner
  /\ UNCHANGED <<table, registered, player, deadline, statusMutex, report>>

(* A failure is printed and ignored.                                       *)
Tuner_Register_Status_Callback ==
  /\ pc = "register"
  /\ registered' = TRUE \/ ("register" \in MayFail /\ UNCHANGED registered)
  /\ pc' = "frequency"
  /\ UNCHANGED <<table, tuner, player, deadline, statusMutex, report>>

Tuner_Lock_To_Frequency ==
  /\ pc = "frequency"
  /\ \/ tuner' = "tuning" /\ pc' = "mutex"
     \/ "lock" \in MayFail /\ pc' = "free" /\ UNCHANGED tuner
  /\ UNCHANGED <<table, registered, player, deadline, statusMutex, report>>

(* pthread_mutex_lock(&statusMutex), and pthread_cond_timedwait, which     *)
(* gives the mutex back: between the two no callback can signal.           *)
WaitForLock ==
  /\ pc = "mutex" /\ statusMutex = "none"
  /\ pc' = "waiting"
  /\ UNCHANGED <<table, tuner, registered, player, deadline, statusMutex,
                 report>>

NeverTimesOut == pc = "waiting" /\ FALSE /\ UNCHANGED vars

TimeoutIgnored ==
  /\ pc = "waiting" /\ deadline /\ statusMutex = "none"
  /\ statusMutex' = "task"
  /\ pc' = "unlock"
  /\ UNCHANGED <<table, tuner, registered, player, deadline, report>>

(* pthread_cond_timedwait returns with the mutex: ETIMEDOUT, ...           *)
TimedOut ==
  /\ pc = "waiting" /\ deadline /\ statusMutex = "none"
  /\ statusMutex' = "task"
  /\ pc' = "free"
  /\ UNCHANGED <<table, tuner, registered, player, deadline, report>>

(* ... or 0, once a signal has moved the task here.                        *)
Relock ==
  /\ pc = "relock" /\ statusMutex = "none"
  /\ statusMutex' = "task"
  /\ pc' = "unlock"
  /\ UNCHANGED <<table, tuner, registered, player, deadline, report>>

(* pthread_cond_timedwait may also return 0 without a signal.              *)
WakeSpuriously ==
  /\ pc = "waiting"
  /\ pc' = "relock"
  /\ spurious' = TRUE
  /\ UNCHANGED <<table, tuner, registered, player, deadline, statusMutex, cb,
                 locked, reports, everLocked>>

KeepsMutex ==
  /\ pc = "unlock"
  /\ pc' = "player"
  /\ UNCHANGED <<table, tuner, registered, player, deadline, statusMutex,
                 report>>

Unlock ==
  /\ pc = "unlock"
  /\ statusMutex' = "none"
  /\ pc' = "player"
  /\ UNCHANGED <<table, tuner, registered, player, deadline, report>>

Player_Init ==
  /\ pc = "player"
  /\ \/ player' = "on" /\ pc' = "source"
     \/ "player" \in MayFail /\ pc' = "free" /\ UNCHANGED player
  /\ UNCHANGED <<table, tuner, registered, deadline, statusMutex, report>>

Player_Source_Open ==
  /\ pc = "source"
  /\ \/ player' = "open" /\ pc' = "ready"
     \/ "source" \in MayFail /\ pc' = "free" /\ UNCHANGED player
  /\ UNCHANGED <<table, tuner, registered, deadline, statusMutex, report>>

(* The five error paths: of Tuner_Init, Tuner_Lock_To_Frequency, the wait, *)
(* Player_Init and Player_Source_Open.  Each is written out in the code,   *)
(* in one order: the tables first, then what has been initialised by then. *)
FreeTables ==
  /\ pc = "free"
  /\ table' = [t \in Tables |-> "freed"]
  /\ pc' = "playerOff"
  /\ UNCHANGED <<tuner, registered, player, deadline, statusMutex, report>>

TunerLeftOn ==
  /\ pc = "playerOff"
  /\ player' = "off"
  /\ pc' = "ended"
  /\ UNCHANGED <<table, tuner, registered, deadline, statusMutex, report>>

(* Player_Deinit if there is a player, Tuner_Deinit if there is a tuner.   *)
DeinitDevices ==
  /\ pc = "playerOff"
  /\ player' = "off"
  /\ tuner' = "off"
  /\ pc' = "ended"
  /\ UNCHANGED <<table, registered, deadline, statusMutex, report>>

(* The ten seconds from the start of the task.                             *)
Clock ==
  /\ ~deadline
  /\ deadline' = TRUE
  /\ UNCHANGED <<pc, table, tuner, registered, player, statusMutex, report>>

-----------------------------------------------------------------------------
(* tunerStatusCallback.  Only STATUS_LOCKED has an effect.                 *)

TunerReports ==
  /\ tuner = "tuning" /\ registered /\ cb = "idle" /\ reports < MaxReports
  /\ reports' = reports + 1
  /\ locked' = IF locked # "no" THEN "no"
               ELSE IF deadline THEN "late" ELSE "inTime"
  /\ everLocked' = (everLocked \/ locked' # "no")
  /\ cb' = IF locked' # "no" THEN "lock" ELSE "idle"
  /\ UNCHANGED <<task, statusMutex, spurious>>

LockStatusMutex ==
  /\ cb = "lock" /\ statusMutex = "none"
  /\ statusMutex' = "tuner"
  /\ cb' = "signal"
  /\ UNCHANGED <<task, locked, reports, history>>

(* pthread_cond_signal wakes the task if it waits, and is lost otherwise.  *)
SignalStatus ==
  /\ cb = "signal"
  /\ pc' = IF pc = "waiting" THEN "relock" ELSE pc
  /\ cb' = "unlock"
  /\ UNCHANGED <<table, tuner, registered, player, deadline, statusMutex,
                 locked, reports, history>>

CallbackKeepsMutex ==
  /\ cb = "unlock"
  /\ cb' = "idle"
  /\ UNCHANGED <<task, statusMutex, locked, reports, history>>

UnlockStatusMutex ==
  /\ cb = "unlock"
  /\ statusMutex' = "none"
  /\ cb' = "idle"
  /\ UNCHANGED <<task, locked, reports, history>>

-----------------------------------------------------------------------------
streamControllerTask ==
  \/ Allocate \/ Tuner_Init \/ Tuner_Register_Status_Callback
  \/ Tuner_Lock_To_Frequency \/ WaitForLock \/ TimedOut \/ Relock \/ Unlock
  \/ Player_Init \/ Player_Source_Open \/ FreeTables \/ DeinitDevices

tunerStatusCallback == LockStatusMutex \/ SignalStatus \/ UnlockStatusMutex

Over == pc \in {"ready", "ended"}

Finished ==
  /\ Over
  /\ cb = "idle" \/ statusMutex = "task"
  /\ UNCHANGED vars

Next ==
  \/ streamControllerTask \/ WakeSpuriously \/ Clock
  \/ TunerReports \/ tunerStatusCallback
  \/ Finished

Spec == Init /\ [][Next]_vars

-----------------------------------------------------------------------------
(* Properties.                                                             *)

(* Every variable keeps its type; the tuner's thread holds statusMutex     *)
(* exactly while it signals.                                               *)
TypeOK ==
  /\ pc \in Tables \cup {"tuner", "register", "frequency", "mutex", "waiting",
                         "relock", "unlock", "player", "source", "ready",
                         "free", "playerOff", "ended"}
  /\ table \in [Tables -> {"null", "live", "freed"}]
  /\ tuner \in {"off", "on", "tuning"}
  /\ player \in {"off", "on", "open"}
  /\ registered \in BOOLEAN /\ deadline \in BOOLEAN
  /\ statusMutex \in {"none", "task", "tuner"}
  /\ cb \in {"idle", "lock", "signal", "unlock"}
  /\ statusMutex = "tuner" <=> cb \in {"signal", "unlock"}
  /\ locked \in {"no", "inTime", "late"} 
  /\ everLocked \in BOOLEAN /\ spurious \in BOOLEAN
  /\ reports \in 0 .. MaxReports

(* A start that fails, at whichever call, leaves neither the tuner nor the *)
(* player on, and only a failed malloc leaves tables allocated.            *)
FailureReleasesDevice ==
  pc = "ended" =>
    /\ tuner = "off" /\ player = "off"
    /\ \/ \A t \in Tables : table[t] = "freed"
       \/ \E t \in Tables : table[t] = "null"

(* The player is opened only on a tuner that has reported a lock, unless   *)
(* the wait, which has no loop around it, was woken without a signal.      *)
PlayerNeedsLock == player # "off" => everLocked \/ spurious

(* What module StreamController starts from: four tables, a tuned tuner,   *)
(* an open source, and statusMutex not left to the task.                   *)
ReadyMeetsInit ==
  pc = "ready" =>
    /\ \A t \in Tables : table[t] = "live"
    /\ tuner = "tuning" /\ player = "open"
    /\ statusMutex # "task"

(* The wait for the lock does not give up on a tuner that reported its     *)
(* lock in time and has kept it.                                           *)
LockedTunerIsUsed ==
  pc = "free" /\ statusMutex = "task" => locked # "inTime" \/ cb # "idle"
=============================================================================
