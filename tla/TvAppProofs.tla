----------------------------- MODULE TvAppProofs -----------------------------
(* Proofs about StreamStartup and about TvApp, which extends it.  For      *)
(* every set of failing calls and every number of status reports: what the *)
(* start-up hands to the channel code and what it releases.  For every set *)
(* of keys, of failing steps and every volume range: the start-up runs     *)
(* unchanged inside the application, keys pressed in time are safe, and    *)
(* the copies of the volume agree, the player's if it took the last one.   *)
EXTENDS TvApp, TLAPS

-----------------------------------------------------------------------------
(* The start-up.  Its inductive invariant: what has been allocated and     *)
(* initialised at each point of the task, and who holds statusMutex.       *)

Live == \A t \in Tables : table[t] = "live"
Freed == \A t \in Tables : table[t] = "freed"

(* A table that is still to be allocated is null.                          *)
TableInv ==
  /\ pc = "pat" => table["pmt"] = "null"
  /\ pc \in {"pat", "pmt"} => table["tdt"] = "null"
  /\ pc \in {"pat", "pmt", "tdt"} => table["tot"] = "null"
  /\ pc \in Tables => table[pc] = "null"
  /\ pc = "pmt" => table["pat"] = "live"
  /\ pc = "tdt" => table["pat"] = "live" /\ table["pmt"] = "live"
  /\ pc = "tot" => /\ table["pat"] = "live" /\ table["pmt"] = "live"
                   /\ table["tdt"] = "live"
  /\ pc \notin Tables \cup {"playerOff", "ended"} => Live
  /\ pc = "playerOff" => Freed
  /\ pc = "ended" => Freed \/ \E t \in Tables : table[t] = "null"

(* The devices follow the program counter; both are off at the end.        *)
DeviceInv ==
  /\ pc \in Tables \cup {"tuner", "ended"} => tuner = "off"
  /\ pc \in {"mutex", "waiting", "relock", "unlock", "player", "source",
             "ready"} => tuner = "tuning"
  /\ pc \notin {"source", "ready", "free", "playerOff"} => player = "off"
  /\ pc = "source" => player = "on"
  /\ pc = "ready" => player = "open"

(* The task holds the mutex when the wait has returned 0, and keeps it     *)
(* when it has timed out.                                                  *)
MutexInv ==
  /\ pc = "unlock" => statusMutex = "task"
  /\ statusMutex = "task" => pc \in {"unlock", "free", "playerOff", "ended"}

StartInv == TypeOK /\ TableInv /\ DeviceInv /\ MutexInv

(* The task begins with nothing allocated and everything off.              *)
LEMMA StartInit == Init => StartInv
<1> SUFFICES ASSUME Init PROVE StartInv
  OBVIOUS
<1>1. TypeOK
  <2>1. table \in [Tables -> {"null", "live", "freed"}]
    BY DEF Init
  <2>2. reports \in 0 .. MaxReports
    BY StartupConstants DEF StartupConstants, Init
  <2> QED
    BY <2>1, <2>2 DEF Init, TypeOK, Tables
<1>2. TableInv
  BY DEF Init, TableInv, Live, Freed, Tables
<1>3. DeviceInv /\ MutexInv
  BY DEF Init, DeviceInv, MutexInv, Tables
<1> QED
  BY <1>1, <1>2, <1>3 DEF StartInv

(* Every step keeps the invariant.                                         *)
LEMMA StartStep == StartInv /\ [Next]_vars => StartInv'
<1> SUFFICES ASSUME StartInv, [Next]_vars PROVE StartInv'
  OBVIOUS
<1> USE StartupConstants
    DEF StartupConstants, StartInv, TypeOK, TableInv, DeviceInv, MutexInv,
        Live, Freed, Tables, report, history, task
<1>1. CASE Allocate
  BY <1>1 DEF Allocate, Order
<1>2. CASE Tuner_Init
  BY <1>2 DEF Tuner_Init
<1>3. CASE Tuner_Register_Status_Callback
  <2>1. /\ pc = "register" /\ pc' = "frequency"
        /\ UNCHANGED <<table, tuner, player, deadline, statusMutex, report>>
    BY <1>3 DEF Tuner_Register_Status_Callback
  <2>2. registered' \in BOOLEAN
    BY <1>3 DEF Tuner_Register_Status_Callback
  <2> QED
    BY <2>1, <2>2
<1>4. CASE Tuner_Lock_To_Frequency
  BY <1>4 DEF Tuner_Lock_To_Frequency
<1>5. CASE WaitForLock
  BY <1>5 DEF WaitForLock
<1>6. CASE TimedOut
  BY <1>6 DEF TimedOut
<1>7. CASE Relock
  BY <1>7 DEF Relock
<1>8. CASE Unlock
  BY <1>8 DEF Unlock
<1>9. CASE Player_Init
  BY <1>9 DEF Player_Init
<1>10. CASE Player_Source_Open
  BY <1>10 DEF Player_Source_Open
<1>11. CASE FreeTables
  BY <1>11 DEF FreeTables
<1>12. CASE DeinitDevices
  BY <1>12 DEF DeinitDevices
<1>13. CASE WakeSpuriously
  BY <1>13 DEF WakeSpuriously
<1>14. CASE Clock
  BY <1>14 DEF Clock
<1>15. CASE TunerReports
  BY <1>15 DEF TunerReports
<1>16. CASE LockStatusMutex
  BY <1>16 DEF LockStatusMutex
<1>17. CASE SignalStatus
  BY <1>17 DEF SignalStatus
<1>18. CASE UnlockStatusMutex
  BY <1>18 DEF UnlockStatusMutex
<1>19. CASE UNCHANGED vars
  BY <1>19 DEF vars
<1> QED
  BY <1>1, <1>2, <1>3, <1>4, <1>5, <1>6, <1>7, <1>8, <1>9, <1>10, <1>11,
     <1>12, <1>13, <1>14, <1>15, <1>16, <1>17, <1>18, <1>19
     DEF Next, streamControllerTask, tunerStatusCallback, Finished

(* The invariant holds in every state.                                     *)
LEMMA StartAlways == Spec => []StartInv
  BY StartInit, StartStep, PTL DEF Spec

(* The variables of the start-up keep their types, and the tuner's thread  *)
(* holds statusMutex exactly while it signals.                             *)
THEOREM StartTypeCorrect == Spec => []TypeOK
<1>1. StartInv => TypeOK
  BY DEF StartInv
<1> QED
  BY <1>1, StartAlways, PTL

(* A start-up that fails, at whichever call, leaves the tuner and the      *)
(* player off, and allocated tables only after a failed malloc.            *)
THEOREM FailureReleases == Spec => []FailureReleasesDevice
<1>1. StartInv => FailureReleasesDevice
  BY DEF StartInv, TableInv, DeviceInv, Freed, FailureReleasesDevice, Tables
<1> QED
  BY <1>1, StartAlways, PTL

(* A start-up that succeeds hands the channel code of streamControllerTask *)
(* its tables, a tuned tuner and an open source.                           *)
THEOREM ReadyCorrect == Spec => []ReadyMeetsInit
<1>1. StartInv => ReadyMeetsInit
  BY DEF StartInv, TableInv, DeviceInv, MutexInv, Live, ReadyMeetsInit, Tables
<1> QED
  BY <1>1, StartAlways, PTL

-----------------------------------------------------------------------------
(* The lock that the player needs: a callback that signals comes of a      *)
(* report of a lock, and what follows the wait of it or of a wake-up        *)
(* without one.                                                            *)

LockInv ==
  /\ cb # "idle" => everLocked
  /\ pc \in {"relock", "unlock", "player", "source", "ready"} =>
       everLocked \/ spurious
  /\ PlayerNeedsLock

(* Every step keeps LockInv.                                               *)
LEMMA LockStep == StartInv /\ LockInv /\ [Next]_vars => LockInv'
<1> SUFFICES ASSUME StartInv, LockInv, [Next]_vars PROVE LockInv'
  OBVIOUS
<1> USE DEF LockInv, PlayerNeedsLock, report, history, task
<1>0. TypeOK
  BY DEF StartInv
<1>1. CASE Allocate
  BY <1>1 DEF Allocate, Order, Tables
<1>2. CASE Tuner_Init \/ Tuner_Register_Status_Callback
           \/ Tuner_Lock_To_Frequency \/ WaitForLock \/ TimedOut
  BY <1>2 DEF Tuner_Init, Tuner_Register_Status_Callback,
              Tuner_Lock_To_Frequency, WaitForLock, TimedOut
<1>3. CASE Relock \/ Unlock \/ Player_Init \/ Player_Source_Open
  BY <1>3 DEF Relock, Unlock, Player_Init, Player_Source_Open
<1>4. CASE FreeTables \/ DeinitDevices \/ Clock
  BY <1>4 DEF FreeTables, DeinitDevices, Clock
<1>5. CASE WakeSpuriously
  BY <1>5 DEF WakeSpuriously
<1>6. CASE TunerReports
  BY <1>6 DEF TunerReports
<1>7. CASE LockStatusMutex \/ SignalStatus \/ UnlockStatusMutex
  BY <1>7 DEF LockStatusMutex, SignalStatus, UnlockStatusMutex
<1>8. CASE UNCHANGED vars
  BY <1>8 DEF vars
<1> QED
  BY <1>1, <1>2, <1>3, <1>4, <1>5, <1>6, <1>7, <1>8
     DEF Next, streamControllerTask, tunerStatusCallback, Finished

(* The player is opened only on a tuner that has reported a lock, or after *)
(* a wake-up without a signal.                                             *)
THEOREM PlayerCorrect == Spec => []PlayerNeedsLock
<1>1. Init => LockInv
  BY DEF Init, LockInv, PlayerNeedsLock
<1>2. StartInv /\ LockInv /\ [Next]_vars => LockInv'
  BY LockStep
<1>3. LockInv => PlayerNeedsLock
  BY DEF LockInv
<1> QED
  BY <1>1, <1>2, <1>3, StartAlways, PTL DEF Spec

-----------------------------------------------------------------------------
(* The application and the start-up inside it.                             *)

(* main and the remote controller leave the start-up alone.                *)
LEMMA MainFrame == MainSteps => UNCHANGED <<vars, volumes, fault, key>>
BY DEF MainSteps, loadInitialInfo, remoteControllerInit, CreateRemoteThread,
       registerRemoteControllerCallback, registerDateCallback,
       registerVolumeCallback, streamControllerInit, graphicsControllerInit,
       WaitForExit, graphicsControllerDeinit,
       unregisterRemoteControllerCallback, remoteControllerDeinit,
       streamControllerDeinit, Calls, Fails

LEMMA RemoteFrame ==
  /\ inputEventTask => UNCHANGED vars
  /\ OtherEvent => UNCHANGED <<vars, starters, volumes, key, fault, leaving,
                               excuse>>
  /\ \A k : KeyEvent(k) => UNCHANGED <<vars, starters, volumes, leaving>>
BY DEF inputEventTask, OpenDevice, TestExit, remoteControllerCallback,
       channelKey, volumeUp, volumeDown, volumeMute, exitKey, OtherEvent,
       KeyEvent

(* The steps of the application: the other steps are the start-up's.       *)
LEMMA AppSteps ==
  ASSUME [AppNext]_appVars
  PROVE  \/ Running /\ MainSteps
         \/ Running /\ inputEventTask
         \/ Running /\ OtherEvent
         \/ Running /\ \E k \in Keys : KeyEvent(k)
         \/ Next /\ UNCHANGED app
         \/ UNCHANGED vars /\ UNCHANGED app
BY DEF AppNext, appVars, AppOver, Startup, Next

(* Each of them is a step of the start-up, or leaves it as it is.          *)
LEMMA StartupSteps == [AppNext]_appVars => [Next]_vars
<1> SUFFICES ASSUME [AppNext]_appVars PROVE [Next]_vars
  OBVIOUS
<1> QED
  BY AppSteps, MainFrame, RemoteFrame

(* Whatever main and the user do meanwhile, the start-up of the stream     *)
(* controller runs as module StreamStartup says.                           *)
THEOREM AppStartsUp == AppSpec => Spec
<1>1. AppInit => Init
  BY DEF AppInit
<1> QED
  BY <1>1, StartupSteps, PTL DEF AppSpec, Spec

(* A start-up inside the application that succeeds hands the channel code  *)
(* its four tables, a tuned tuner and an open source; one that fails       *)
(* leaves both devices off.                                                *)
THEOREM AppStartupCorrect ==
  AppSpec => []TypeOK /\ []ReadyMeetsInit /\ []FailureReleasesDevice
             /\ []PlayerNeedsLock
BY AppStartsUp, StartTypeCorrect, ReadyCorrect, FailureReleases,
   PlayerCorrect, PTL

-----------------------------------------------------------------------------
(* The volume.                                                             *)

(* Every step keeps the copies in step.                                    *)
LEMMA VolumeStep ==
  ASSUME VolumesAgree, [AppNext]_appVars
  PROVE  VolumesAgree'
<1>0. MaxVolume \in Nat
  BY AppConstants DEF AppConstants
<1> USE <1>0 DEF VolumesAgree, volumes
<1>1. CASE MainSteps
  BY <1>1, MainFrame
<1>2. CASE Running /\ inputEventTask
  <2>1. CASE OpenDevice \/ TestExit \/ channelKey \/ exitKey
    BY <1>2, <2>1 DEF OpenDevice, TestExit, channelKey, exitKey, Running
  <2>2. CASE volumeUp \/ volumeDown \/ volumeMute
    <3>1. /\ shownVolume = currentVolume /\ currentVolume \in 0 .. MaxVolume
          /\ shownVolume' = currentVolume'
      BY <1>2, <2>2 DEF Running, volumeUp, volumeDown, volumeMute, Report
    <3>2. currentVolume' \in 0 .. MaxVolume
      BY <2>2, <3>1 DEF volumeUp, volumeDown, volumeMute
    <3>3. told' => playerVolume' = currentVolume'
      BY <2>2 DEF volumeUp, volumeDown, volumeMute, Player_Volume_Set
    <3> QED
      BY <3>1, <3>2, <3>3
  <2> QED
    BY <1>2, <2>1, <2>2 DEF inputEventTask, remoteControllerCallback
<1>3. CASE Running /\ (OtherEvent \/ \E k \in Keys : KeyEvent(k))
  BY <1>3, RemoteFrame DEF Running
<1>4. CASE UNCHANGED app
  BY <1>4 DEF app
<1> QED
  BY <1>1, <1>2, <1>3, <1>4, AppSteps

(* However V+, V- and MUTE interleave with the start-up and with main, and *)
(* whichever of their calls fail, the volume shown is the stream           *)
(* controller's, in its range, and the player's if its last call has not   *)
(* failed.                                                                 *)
THEOREM VolumesAlwaysAgree == AppSpec => []VolumesAgree
<1>1. AppInit => VolumesAgree
  BY AppConstants DEF AppConstants, AppInit, VolumesAgree
<1>2. VolumesAgree /\ [AppNext]_appVars => VolumesAgree'
  BY VolumeStep
<1> QED
  BY <1>1, <1>2, PTL DEF AppSpec

-----------------------------------------------------------------------------
(* Keys that come in time.                                                 *)

MainLabels == {"config", "rcInit", "register", "registerDate",
               "registerVolume", "scInit", "gcInit", "wait", "waiting",
               "gcDeinit", "unregister", "rcDeinit", "join", "scDeinit",
               "returned"}
Leaving == {"gcDeinit", "unregister", "rcDeinit", "join", "scDeinit"}

(* main has registered its callbacks before it waits, and leaves its wait  *)
(* only after EXIT or without a signal.                                    *)
OrderInv ==
  /\ main \in MainLabels
  /\ main \in {"registerDate", "registerVolume", "scInit", "gcInit", "wait",
               "waiting", "gcDeinit", "unregister"} => callback
  /\ main \in {"scInit", "gcInit", "wait", "waiting"} \cup Leaving =>
       volumeCallback
  /\ main \in Leaving => leaving \/ "spurious" \in excuse

(* A key that is being handled came when the picture was there, or out of  *)
(* turn.                                                                   *)
KeyInv ==
  /\ OrderInv
  /\ rc = "key" => excuse # {} \/ (pc = "ready" /\ volumeCallback)
  /\ TimelyKeysSafe

(* Steps of main keep it.                                                  *)
LEMMA MainKeepsOrder ==
  ASSUME KeyInv, MainSteps, fault = "none"
  PROVE  KeyInv'
<1> USE DEF KeyInv, OrderInv, MainLabels, Leaving, TimelyKeysSafe, Calls,
        Fails, Does, MainOrder, vars, task
<1>1. CASE loadInitialInfo \/ remoteControllerInit
  BY <1>1 DEF loadInitialInfo, remoteControllerInit, CreateRemoteThread
<1>2. CASE registerRemoteControllerCallback \/ registerDateCallback
  BY <1>2 DEF registerRemoteControllerCallback, registerDateCallback
<1>3. CASE registerVolumeCallback
  BY <1>3 DEF registerVolumeCallback
<1>4. CASE streamControllerInit \/ graphicsControllerInit
  BY <1>4 DEF streamControllerInit, graphicsControllerInit
<1>5. CASE WaitForExit
  BY <1>5 DEF WaitForExit
<1>6. CASE graphicsControllerDeinit \/ streamControllerDeinit
  BY <1>6 DEF graphicsControllerDeinit, streamControllerDeinit
<1>7. CASE unregisterRemoteControllerCallback
  BY <1>7 DEF unregisterRemoteControllerCallback
<1>8. CASE remoteControllerDeinit
  BY <1>8 DEF remoteControllerDeinit
<1> QED
  BY <1>1, <1>2, <1>3, <1>4, <1>5, <1>6, <1>7, <1>8 DEF MainSteps

(* So do those of the remote controller's thread.                          *)
LEMMA RemoteKeepsOrder ==
  ASSUME StartInv, KeyInv, Running,
         inputEventTask \/ OtherEvent \/ \E k \in Keys : KeyEvent(k)
  PROVE  KeyInv'
<1>0. UNCHANGED <<pc, table>>
  BY RemoteFrame DEF vars, task
<1> USE <1>0 DEF KeyInv, OrderInv, MainLabels, Leaving, TimelyKeysSafe,
        Running, Rc, Handled, starters
<1>1. CASE OpenDevice \/ TestExit \/ OtherEvent
  BY <1>1 DEF OpenDevice, TestExit, OtherEvent
<1>2. ASSUME NEW k \in Keys, KeyEvent(k) PROVE KeyInv'
  <2>1. /\ UNCHANGED <<main, callback, volumeCallback, leaving>>
        /\ fault' = IF callback THEN "none" ELSE "callback"
        /\ excuse' = excuse \cup (IF Up THEN {} ELSE {"early"})
                            \cup (IF leaving THEN {"late"} ELSE {})
    BY <1>2 DEF KeyEvent
  <2>2. CASE Up /\ ~leaving /\ excuse = {}
    <3>1. main = "waiting" /\ pc = "ready"
      BY <2>2 DEF Up, BeforeTask
    <3> QED
      BY <2>1, <3>1
  <2>3. CASE ~Up \/ leaving \/ excuse # {}
    <3>1. excuse' # {} /\ excuse \subseteq excuse'
      BY <2>1, <2>3
    <3> QED
      BY <2>1, <3>1
  <2> QED
    BY <2>2, <2>3
<1>3. CASE channelKey
  BY <1>3
  DEF channelKey, StartInv, TableInv, Live, Tables
<1>4. CASE volumeUp \/ volumeDown \/ volumeMute
  BY <1>4 DEF volumeUp, volumeDown, volumeMute, Report
<1>5. CASE exitKey
  BY <1>5 DEF exitKey, MainOrder
<1> QED
  BY <1>1, <1>2, <1>3, <1>4, <1>5 DEF inputEventTask, remoteControllerCallback

(* The start-up never leaves "ready".                                      *)
LEMMA ReadyStays == pc = "ready" /\ Next => pc' = "ready"
BY DEF Next, streamControllerTask, Allocate, Tuner_Init,
       Tuner_Register_Status_Callback, Tuner_Lock_To_Frequency, WaitForLock,
       TimedOut, Relock, Unlock, Player_Init, Player_Source_Open, FreeTables,
       DeinitDevices, WakeSpuriously, Clock, TunerReports,
       tunerStatusCallback, LockStatusMutex, SignalStatus, UnlockStatusMutex,
       Finished, Tables, task, vars

(* No key uses a NULL callback or a table that is not there, as long as    *)
(* the user waits for the picture, presses nothing after EXIT and main's   *)
(* wait does not return without a signal: whatever fails, and however the  *)
(* threads interleave.                                                     *)
THEOREM KeysInTimeAreSafe == AppSpec => []TimelyKeysSafe
<1>1. AppInit => KeyInv
  BY DEF AppInit, KeyInv, OrderInv, MainLabels, Leaving, TimelyKeysSafe
<1>2. ASSUME StartInv, KeyInv, [AppNext]_appVars PROVE KeyInv'
  <2>1. CASE Running /\ MainSteps
    BY <1>2, <2>1, MainKeepsOrder DEF Running
  <2>2. CASE Running /\ (\/ inputEventTask \/ OtherEvent
                         \/ \E k \in Keys : KeyEvent(k))
    BY <1>2, <2>2, RemoteKeepsOrder
  <2>3. CASE Next /\ UNCHANGED app
    BY <1>2, <2>3, ReadyStays
    DEF app, starters, KeyInv, OrderInv, TimelyKeysSafe
  <2>4. CASE UNCHANGED vars /\ UNCHANGED app
    BY <1>2, <2>4
    DEF app, starters, vars, task, KeyInv, OrderInv, TimelyKeysSafe
  <2> QED
    BY <1>2, <2>1, <2>2, <2>3, <2>4, AppSteps
<1>3. KeyInv => TimelyKeysSafe
  BY DEF KeyInv
<1>4. StartInv /\ KeyInv /\ [AppNext]_appVars => KeyInv'
  BY <1>2
<1> QED
  BY <1>1, <1>3, <1>4, AppStartsUp, StartAlways, PTL DEF AppSpec
=============================================================================
