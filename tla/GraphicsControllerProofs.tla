----------------------- MODULE GraphicsControllerProofs -----------------------
(* Proofs about GraphicsController, for every number of calls and of       *)
(* pending removing threads: the safety invariants of the overlays and of  *)
(* the shutdown, and that an overlay is seen before it is removed.         *)
EXTENDS GraphicsController, TLAPS

-----------------------------------------------------------------------------
(* The inductive invariant, part by part.                                  *)

(* The remote controller thread is in a call of one overlay or in none;    *)
(* only drawInfoRect stores pids and a date.                               *)
CallInv ==
  /\ rc.pc = "idle" => rc = NoCall
  /\ rc.pc # "idle" => rc.overlay \in Overlays
  /\ rc.pc \in {"audio", "video", "date"} => rc.overlay = "info"

(* renderThread leaves its loop only once Deinit has asked it to, and main *)
(* goes past pthread_join only once renderThread has ended.                *)
StopInv ==
  /\ main = "running" <=> ~stopDrawing
  /\ render.pc \in {"lock", "signal", "unlock", "done"} => stopDrawing
  /\ main \in {"timers", "release", "released"} => render.pc = "done"

(* A call that has armed its timer ends before the timer has moved; an     *)
(* overlay on screen has something that removes it; if no removing thread  *)
(* was pending during the last call, none is while its timer runs.         *)
Timed(o) ==
  /\ timer[o] = Deleted => stopDrawing
  /\ Arming(o) => timer[o] \in {FramesBeforeExpiry, Deleted}
  /\ show[o] => \/ timer[o] >= 0 \/ timer[o] = Deleted
                \/ removers[o] > 0 \/ rc.overlay = o
  /\ timer[o] >= 0 /\ rc.overlay # o /\ ~late[o] => show[o]
  /\ (timer[o] >= 0 \/ rc.overlay = o) /\ ~late[o] => removers[o] = 0

TimerInv == \A o \in Overlays : Timed(o)

(* The values that drawVolumeBar and drawInfoRect store.                   *)
Parts == [volume |-> {"volume"}, info |-> {"video", "audio", "date"}]

(* The values that the call in progress has stored so far.                 *)
Stored ==
  CASE rc.overlay = "volume" -> {"volume"}
    [] rc.overlay = "info" /\ rc.pc = "video" -> {"audio"}
    [] rc.overlay = "info" /\ rc.pc = "date" -> {"audio", "video"}
    [] rc.overlay = "info" /\ rc.pc = "flag" -> {"audio", "video", "date"}
    [] OTHER -> {}

(* While what a call asked for has yet to be seen, its flag and its values *)
(* are as that call has left them.                                         *)
ValueInv ==
  /\ \A v \in Stored : value[v] = calls
  /\ \A o \in Overlays : rc.overlay = o => owed[o] = 0
  /\ \A o \in DOMAIN Parts : owed[o] # 0 =>
       show[o] /\ \A v \in Parts[o] : value[v] = owed[o]

(* The parts of a frame that have yet to be drawn at a step of renderThread.*)
Undrawn ==
  CASE render.pc \in {"test", "volumeFlag", "volume"} -> Values
    [] render.pc \in {"infoFlag", "video"} -> {"video", "audio", "date"}
    [] render.pc = "audio" -> {"audio", "date"}
    [] render.pc = "date" -> {"date"}
    [] OTHER -> {}

(* The frame that renderThread is drawing will show what is owed.          *)
Fresh(o) ==
  \A v \in Parts[o] : v \in Undrawn \/ render.frame[v] = owed[o]

(* Until it has been seen, the last call's timer has not moved, or one     *)
(* frame was finished since, and the one being drawn was begun after the   *)
(* call.                                                                   *)
FrameInv ==
  \A o \in DOMAIN Parts :
    owed[o] # 0 /\ ~late[o] /\ ~stopDrawing =>
      timer[o] = FramesBeforeExpiry \/ (timer[o] = 1 /\ Fresh(o))

GraphicsInv ==
  TypeOK /\ CallInv /\ StopInv /\ TimerInv /\ ValueInv /\ FrameInv

-----------------------------------------------------------------------------
(* The steps, and facts about the operators they are built from.           *)

LEMMA NextSteps ==
  ASSUME Next
  PROVE  \/ \E o \in Overlays : Call(o) \/ Expire(o) \/ Remove(o)
         \/ ArmTimer \/ StoreInfo \/ SetFlag
         \/ TestStop \/ TestFlag \/ DrawValue \/ Flip \/ SignalEnd
         \/ StopDrawing \/ WakeSpuriously \/ WaitForRender \/ Relock
         \/ JoinRender \/ DeleteTimers \/ Release
BY DEF Next, Draw, renderThread, graphicsControllerDeinit

LEMMA PartsOf ==
  /\ DOMAIN Parts = {"volume", "info"}
  /\ Parts["volume"] = {"volume"}
  /\ Parts["info"] = {"video", "audio", "date"}
BY DEF Parts

LEMMA AfterIs ==
  /\ DOMAIN After = {"audio", "video", "date"}
  /\ After["audio"] = "video" /\ After["video"] = "date"
  /\ After["date"] = "flag"
BY DEF After

LEMMA NextValueIs ==
  /\ NextValue["volume"] = "infoFlag" /\ NextValue["video"] = "audio"
  /\ NextValue["audio"] = "date" /\ NextValue["date"] = "flip"
BY DEF NextValue

-----------------------------------------------------------------------------
(* Each part is preserved by every step.                                   *)

LEMMA GraphicsInit == Init => GraphicsInv
<1> SUFFICES ASSUME Init PROVE GraphicsInv
  OBVIOUS
<1> USE GraphicsConstants
<1>1. TypeOK
  <2>1. show \in [Overlays -> BOOLEAN] /\ late \in [Overlays -> BOOLEAN]
    BY DEF Init
  <2>2. Blank \in [Values -> 0 .. MaxCalls]
    BY DEF Blank
  <2>3. rc \in [pc : {"idle", "arm", "audio", "video", "date", "flag"},
               overlay : Overlays \cup {"none"}]
    BY DEF Init, NoCall
  <2>4. render \in [pc : Drawing \cup {"test", "lock", "signal", "unlock",
                                     "done"}, frame : [Values -> 0 .. MaxCalls]]
    BY <2>2 DEF Init
  <2>5. value \in [Values -> 0 .. MaxCalls] /\ owed \in [Overlays -> 0 .. MaxCalls]
    BY <2>2 DEF Init
  <2>6. /\ timer \in [Overlays -> -2 .. FramesBeforeExpiry]
        /\ removers \in [Overlays -> 0 .. MaxLate]
    BY DEF Init, Off, FramesBeforeExpiry
  <2>7. stopDrawing \in BOOLEAN /\ spurious \in BOOLEAN
    BY DEF Init
  <2>8. /\ calls \in 0 .. MaxCalls
        /\ main = "running" /\ graphicsMutex = "none"
    BY DEF Init
  <2> QED
    BY <2>1, <2>3, <2>4, <2>5, <2>6, <2>7, <2>8 DEF TypeOK
<1>2. CallInv /\ StopInv
  BY DEF Init, CallInv, StopInv, NoCall
<1>3. TimerInv
  BY DEF Init, TimerInv, Timed, Arming, NoCall, Off, Deleted, Overlays
<1>4. ValueInv /\ FrameInv
  BY PartsOf DEF Init, ValueInv, FrameInv, Stored, NoCall, Overlays
<1> QED
  BY <1>1, <1>2, <1>3, <1>4 DEF GraphicsInv

LEMMA TypeStep == TypeOK /\ CallInv /\ Next => TypeOK'
<1> SUFFICES ASSUME TypeOK, CallInv, Next PROVE TypeOK'
  OBVIOUS
<1> USE GraphicsConstants DEF TypeOK, overlays, deinit, keys
<1>1. ASSUME NEW o \in Overlays, Call(o) PROVE TypeOK'
  BY <1>1 DEF Call, Overlays, Values
<1>2. ASSUME NEW o \in Overlays, Expire(o) PROVE TypeOK'
  BY <1>2 DEF Expire, Off, FramesBeforeExpiry
<1>3. ASSUME NEW o \in Overlays, Remove(o) PROVE TypeOK'
  BY <1>3 DEF Remove
<1>4. CASE ArmTimer
  BY <1>4 DEF ArmTimer, CallInv, FramesBeforeExpiry
<1>5. CASE StoreInfo
  BY <1>5, AfterIs DEF StoreInfo, Values
<1>6. CASE SetFlag
  BY <1>6 DEF SetFlag, CallInv, NoCall
<1>7. CASE TestStop
  BY <1>7 DEF TestStop, Drawing, Blank
<1>8. CASE TestFlag
  BY <1>8 DEF TestFlag, Drawing
<1>9. CASE DrawValue
  BY <1>9, NextValueIs DEF DrawValue, Drawing, Values
<1>10. CASE Flip
  BY <1>10 DEF Flip, FramesBeforeExpiry
<1>11. CASE SignalEnd
  BY <1>11 DEF SignalEnd
<1>12. CASE StopDrawing \/ WakeSpuriously \/ WaitForRender \/ Relock
            \/ JoinRender \/ Release
  BY <1>12 DEF StopDrawing, WakeSpuriously, WaitForRender, Relock, JoinRender,
               Release
<1>13. CASE DeleteTimers
  BY <1>13 DEF DeleteTimers, Deleted, FramesBeforeExpiry
<1> QED
  BY <1>1, <1>2, <1>3, <1>4, <1>5, <1>6, <1>7, <1>8, <1>9, <1>10, <1>11,
     <1>12, <1>13, NextSteps

LEMMA CallStep == TypeOK /\ CallInv /\ Next => CallInv'
<1> SUFFICES ASSUME TypeOK, CallInv, Next PROVE CallInv'
  OBVIOUS
<1> USE DEF CallInv, TypeOK, NoCall
<1>1. ASSUME NEW o \in Overlays, Call(o) PROVE CallInv'
  BY <1>1 DEF Call
<1>2. CASE ArmTimer
  BY <1>2 DEF ArmTimer
<1>3. CASE StoreInfo
  BY <1>3, AfterIs DEF StoreInfo
<1>4. CASE SetFlag
  BY <1>4 DEF SetFlag
<1>5. ASSUME UNCHANGED rc PROVE CallInv'
  BY <1>5
<1>6. ASSUME NEW o \in Overlays, Expire(o) \/ Remove(o) PROVE UNCHANGED rc
  BY <1>6 DEF Expire, Remove
<1>7. CASE TestStop \/ TestFlag \/ DrawValue \/ Flip \/ SignalEnd
  BY <1>7, <1>5 DEF TestStop, TestFlag, DrawValue, Flip, SignalEnd, keys
<1>8. CASE StopDrawing \/ WakeSpuriously \/ WaitForRender \/ Relock
           \/ JoinRender \/ DeleteTimers \/ Release
  BY <1>8, <1>5 DEF StopDrawing, WakeSpuriously, WaitForRender, Relock,
                    JoinRender, DeleteTimers, Release, keys
<1> QED
  BY <1>1, <1>2, <1>3, <1>4, <1>5, <1>6, <1>7, <1>8, NextSteps

LEMMA StopStep == TypeOK /\ StopInv /\ Next => StopInv'
<1> SUFFICES ASSUME TypeOK, StopInv, Next PROVE StopInv'
  OBVIOUS
<1> USE DEF StopInv, deinit
<1>1. ASSUME NEW o \in Overlays, Call(o) \/ Expire(o) \/ Remove(o)
      PROVE  StopInv'
  BY <1>1 DEF Call, Expire, Remove
<1>2. CASE ArmTimer \/ StoreInfo \/ SetFlag
  BY <1>2 DEF ArmTimer, StoreInfo, SetFlag
<1>3. CASE TestStop \/ TestFlag \/ Flip
  BY <1>3 DEF TestStop, TestFlag, Flip, TypeOK
<1>4. CASE DrawValue
  BY <1>4, NextValueIs DEF DrawValue, Values
<1>5. CASE SignalEnd
  BY <1>5 DEF SignalEnd, TypeOK
<1>6. CASE StopDrawing \/ WakeSpuriously \/ WaitForRender \/ Relock
           \/ JoinRender \/ DeleteTimers \/ Release
  BY <1>6 DEF StopDrawing, WakeSpuriously, WaitForRender, Relock, JoinRender,
              DeleteTimers, Release
<1> QED
  BY <1>1, <1>2, <1>3, <1>4, <1>5, <1>6, NextSteps

LEMMA TimerStep == GraphicsInv /\ Next => TimerInv'
<1> SUFFICES ASSUME GraphicsInv, Next, NEW p \in Overlays PROVE Timed(p)'
  BY DEF TimerInv
<1> USE DEF GraphicsInv, TypeOK, TimerInv, Timed, Arming
<1>1. ASSUME NEW o \in Overlays, Call(o) PROVE Timed(p)'
  <2>1. rc.overlay # p /\ rc'.overlay = o /\ rc'.pc = "arm"
    BY <1>1 DEF Call, NoCall, Overlays
  <2>2. IF p = o THEN late'[p] <=> removers[p] > 0 ELSE late'[p] = late[p]
    BY <1>1 DEF Call
  <2> QED
    BY <1>1, <2>1, <2>2 DEF Call, deinit
<1>2. ASSUME NEW o \in Overlays, Expire(o) PROVE Timed(p)'
  <2>1. CASE p = o
    <3>1. timer'[p] = Off /\ removers'[p] = removers[p] + 1
      BY <1>2, <2>1 DEF Expire
    <3>2. rc.overlay = p => late'[p]
      BY <1>2, <2>1 DEF Expire
    <3> QED
      BY <1>2, <2>1, <3>1, <3>2 DEF Expire, Off, Deleted
  <2>2. CASE p # o
    <3>1. UNCHANGED <<timer[p], removers[p], late[p]>>
      BY <1>2, <2>2 DEF Expire
    <3> QED
      BY <1>2, <3>1 DEF Expire, deinit
  <2> QED
    BY <2>1, <2>2
<1>3. ASSUME NEW o \in Overlays, Remove(o) PROVE Timed(p)'
  BY <1>3 DEF Remove, deinit
<1>4. CASE ArmTimer
  BY <1>4 DEF ArmTimer, deinit, CallInv, Deleted, FramesBeforeExpiry
<1>5. CASE StoreInfo
  BY <1>5, AfterIs DEF StoreInfo, deinit
<1>6. CASE SetFlag
  BY <1>6 DEF SetFlag, deinit, CallInv, NoCall, Overlays, FramesBeforeExpiry
<1>7. CASE TestStop \/ TestFlag \/ DrawValue \/ SignalEnd
  BY <1>7 DEF TestStop, TestFlag, DrawValue, SignalEnd, overlays, keys, deinit
<1>8. CASE Flip
  BY <1>8 DEF Flip, deinit, Deleted
<1>9. CASE StopDrawing \/ WakeSpuriously \/ WaitForRender \/ Relock
           \/ JoinRender \/ Release
  BY <1>9 DEF StopDrawing, WakeSpuriously, WaitForRender, Relock, JoinRender,
              Release, overlays, keys
<1>10. CASE DeleteTimers
  BY <1>10 DEF DeleteTimers, keys, StopInv, Deleted
<1> QED
  BY <1>1, <1>2, <1>3, <1>4, <1>5, <1>6, <1>7, <1>8, <1>9, <1>10, NextSteps

LEMMA ValueStep == GraphicsInv /\ Next => ValueInv'
<1> SUFFICES ASSUME GraphicsInv, Next PROVE ValueInv'
  OBVIOUS
<1> USE PartsOf DEF GraphicsInv, TypeOK, CallInv, ValueInv
<1>1. ASSUME NEW o \in Overlays, Call(o) PROVE ValueInv'
  BY <1>1 DEF Call, NoCall, Stored, Overlays, Values
<1>2. ASSUME NEW o \in Overlays, Remove(o) PROVE ValueInv'
  BY <1>2 DEF Remove, Stored, Overlays
<1>3. CASE ArmTimer
  BY <1>3 DEF ArmTimer, Stored, Overlays
<1>4. CASE StoreInfo
  BY <1>4, AfterIs DEF StoreInfo, Stored, Overlays, Values
<1>5. CASE SetFlag
  BY <1>5 DEF SetFlag, NoCall, Stored, Overlays
<1>6. CASE Flip
  BY <1>6 DEF Flip, Stored, Overlays
<1>7. ASSUME UNCHANGED <<show, value, calls, rc, owed>> PROVE ValueInv'
  BY <1>7 DEF Stored
<1>8. ASSUME NEW o \in Overlays, Expire(o) PROVE ValueInv'
  BY <1>8, <1>7 DEF Expire
<1>9. CASE TestStop \/ TestFlag \/ DrawValue \/ SignalEnd
  BY <1>9, <1>7 DEF TestStop, TestFlag, DrawValue, SignalEnd, overlays, keys
<1>10. CASE StopDrawing \/ WakeSpuriously \/ WaitForRender \/ Relock
            \/ JoinRender \/ DeleteTimers \/ Release
  BY <1>10, <1>7 DEF StopDrawing, WakeSpuriously, WaitForRender, Relock,
                     JoinRender, DeleteTimers, Release, overlays, keys
<1> QED
  BY <1>1, <1>2, <1>3, <1>4, <1>5, <1>6, <1>8, <1>9, <1>10, NextSteps

(* What is owed at the end of a frame drawn after the call is on screen.   *)
LEMMA FreshShows ==
  ASSUME NEW o \in DOMAIN Parts, Fresh(o), render.pc = "flip"
  PROVE  owed[o] \in Shows(render.frame, o)
BY PartsOf DEF Fresh, Undrawn, Shows

(* Each step of a frame draws the parts that it leaves behind.             *)
LEMMA FreshStep ==
  ASSUME GraphicsInv, NEW o \in DOMAIN Parts, Fresh(o), owed[o] # 0,
         ~stopDrawing, TestStop \/ TestFlag \/ DrawValue
  PROVE  Fresh(o)'
<1> USE PartsOf DEF GraphicsInv, TypeOK, Fresh
<1>1. show[o] /\ \A v \in Parts[o] : value[v] = owed[o]
  BY DEF ValueInv
<1>2. CASE TestStop
  BY <1>2 DEF TestStop, Undrawn, keys, Values
<1>3. CASE TestFlag
  BY <1>1, <1>3 DEF TestFlag, Undrawn, keys, Values
<1>4. CASE DrawValue
  BY <1>1, <1>4, NextValueIs DEF DrawValue, Undrawn, keys, Values
<1> QED
  BY <1>2, <1>3, <1>4

LEMMA FrameStep == GraphicsInv /\ Next => FrameInv'
<1> SUFFICES ASSUME GraphicsInv, Next, NEW p \in DOMAIN Parts,
                    (owed[p] # 0 /\ ~late[p] /\ ~stopDrawing)'
             PROVE  (timer[p] = FramesBeforeExpiry
                       \/ (timer[p] = 1 /\ Fresh(p)))'
  BY DEF FrameInv
<1> DEFINE Goal == timer[p] = FramesBeforeExpiry \/ (timer[p] = 1 /\ Fresh(p))
<1> USE PartsOf DEF GraphicsInv, TypeOK
<1>0. p \in Overlays
  BY DEF Overlays
<1>1. ASSUME UNCHANGED <<render, timer[p], owed[p]>>, ~late[p], ~stopDrawing
      PROVE  Goal'
  BY <1>1 DEF FrameInv, Fresh, Undrawn
<1>2. ASSUME NEW o \in Overlays, Call(o) PROVE Goal'
  <2>1. p # o
    BY <1>2, <1>0 DEF Call
  <2>2. UNCHANGED <<render, timer[p], owed[p], late[p], stopDrawing>>
    BY <1>2, <2>1, <1>0 DEF Call, deinit
  <2> QED
    BY <2>2, <1>1
<1>3. ASSUME NEW o \in Overlays, Expire(o) PROVE Goal'
  <2>1. UNCHANGED <<render, owed, stopDrawing>> /\ ~late[p]
    BY <1>3, <1>0 DEF Expire, deinit
  <2>2. p # o
    BY <1>3, <2>1, <1>0 DEF Expire, FrameInv, FramesBeforeExpiry, StopInv
  <2>3. UNCHANGED timer[p]
    BY <1>3, <2>2, <1>0 DEF Expire
  <2> QED
    BY <2>1, <2>3, <1>1
<1>4. ASSUME NEW o \in Overlays, Remove(o) PROVE Goal'
  <2>1. p # o
    BY <1>4, <1>0 DEF Remove
  <2>2. UNCHANGED <<render, timer[p], owed[p], late[p], stopDrawing>>
    BY <1>4, <2>1, <1>0 DEF Remove, deinit
  <2> QED
    BY <2>2, <1>1
<1>5. CASE ArmTimer
  <2>1. UNCHANGED <<render, owed, late, stopDrawing>>
    BY <1>5 DEF ArmTimer, deinit
  <2>2. p # rc.overlay
    BY <2>1, <1>0 DEF ValueInv
  <2>3. UNCHANGED timer[p]
    BY <1>5, <2>2, <1>0 DEF ArmTimer
  <2> QED
    BY <2>1, <2>3, <1>1
<1>6. CASE StoreInfo
  BY <1>6, <1>1 DEF StoreInfo, deinit
<1>7. CASE SetFlag
  <2>1. UNCHANGED <<render, timer, late, stopDrawing>>
    BY <1>7 DEF SetFlag, deinit
  <2>2. CASE p = rc.overlay
    BY <1>7, <2>1, <2>2, <1>0 DEF SetFlag, TimerInv, Timed, Arming
  <2>3. CASE p # rc.overlay
    BY <1>7, <2>1, <2>3, <1>0, <1>1 DEF SetFlag
  <2> QED
    BY <2>2, <2>3
<1>8. CASE TestStop \/ TestFlag \/ DrawValue
  <2>1. UNCHANGED <<timer, owed, late, stopDrawing>>
    BY <1>8 DEF TestStop, TestFlag, DrawValue, overlays, keys, deinit
  <2> QED
    BY <1>8, <2>1, FreshStep DEF FrameInv
<1>9. CASE Flip
  <2>1. UNCHANGED <<late, stopDrawing>> /\ render.pc = "flip"
    BY <1>9 DEF Flip, deinit
  <2>2. owed'[p] = owed[p] /\ owed[p] \notin Shows(render.frame, p)
    BY <1>9, <1>0 DEF Flip
  <2>3. timer[p] = FramesBeforeExpiry
    BY <2>1, <2>2, FreshShows DEF FrameInv
  <2>4. Fresh(p)'
    BY <1>9 DEF Flip, Fresh, Undrawn, Values
  <2> QED
    BY <1>9, <2>3, <2>4, <1>0 DEF Flip, FramesBeforeExpiry
<1>10. CASE SignalEnd
  BY <1>10 DEF SignalEnd, StopInv
<1>11. CASE StopDrawing \/ WakeSpuriously \/ WaitForRender \/ Relock
            \/ JoinRender \/ Release
  BY <1>11, <1>1 DEF StopDrawing, WakeSpuriously, WaitForRender, Relock,
                     JoinRender, Release, overlays, keys
<1>12. CASE DeleteTimers
  BY <1>12 DEF DeleteTimers, StopInv
<1> QED
  BY <1>2, <1>3, <1>4, <1>5, <1>6, <1>7, <1>8, <1>9, <1>10, <1>11, <1>12,
     NextSteps

LEMMA GraphicsInvHolds == Spec => []GraphicsInv
<1>1. GraphicsInv /\ [Next]_vars => GraphicsInv'
  <2> SUFFICES ASSUME GraphicsInv, [Next]_vars PROVE GraphicsInv'
    OBVIOUS
  <2>1. CASE Next
    BY <2>1, TypeStep, CallStep, StopStep, TimerStep, ValueStep, FrameStep
       DEF GraphicsInv
  <2>2. CASE UNCHANGED vars
    BY <2>2 DEF vars, overlays, deinit, keys, GraphicsInv, TypeOK, CallInv,
                StopInv, TimerInv, Timed, Arming, ValueInv, Stored, FrameInv,
                Fresh, Undrawn
  <2> QED
    BY <2>1, <2>2
<1> QED
  BY GraphicsInit, <1>1, PTL DEF Spec

-----------------------------------------------------------------------------
(* The theorems.                                                           *)

(* Every variable of the graphics controller keeps its type, and           *)
(* renderThread holds graphicsMutex only while it signals its end.         *)
THEOREM GraphicsTypeCorrect == Spec => []TypeOK
BY GraphicsInvHolds, PTL DEF GraphicsInv

(* An overlay whose flag is set has a running timer or a removing thread,  *)
(* however the calls of the draw functions and the expiries interleave.    *)
THEOREM OverlaysAreTimed == Spec => []OverlayTimed
<1>1. GraphicsInv => OverlayTimed
  BY DEF GraphicsInv, TimerInv, Timed, OverlayTimed
<1> QED
  BY <1>1, GraphicsInvHolds, PTL

(* graphicsControllerDeinit releases the surface only once renderThread    *)
(* draws no more, even when its wait ends without a signal.                *)
THEOREM NothingDrawnAfterRelease == Spec => []NoDrawAfterRelease
<1>1. GraphicsInv => NoDrawAfterRelease
  BY DEF GraphicsInv, StopInv, NoDrawAfterRelease, Drawing
<1> QED
  BY <1>1, GraphicsInvHolds, PTL

(* The flag of an overlay is set for as long as its timer runs, unless a   *)
(* removing thread of the time before was pending during the last call.    *)
THEOREM OverlaysStay == Spec => []StaysWhileTimed
<1>1. GraphicsInv => StaysWhileTimed
  BY DEF GraphicsInv, TimerInv, Timed, StaysWhileTimed
<1> QED
  BY <1>1, GraphicsInvHolds, PTL

(* The volume bar and the info dialog are removed only after what the last *)
(* key press asked for was on the screen in one frame: a frame that was    *)
(* begun after the call ends before the timer does, and no call tears it.  *)
THEOREM SeenBeforeRemoved == Spec => ShownBeforeRemoved
<1> DEFINE Seen == \A o \in {"volume", "info"} :
                     Removing(o) => owed[o] = 0 \/ late[o]
<1>1. GraphicsInv /\ [Next]_vars => [Seen]_vars
  <2> SUFFICES ASSUME GraphicsInv, Next, NEW o \in {"volume", "info"},
                      Removing(o), owed[o] # 0, ~late[o]
               PROVE  FALSE
    OBVIOUS
  <2> USE PartsOf DEF GraphicsInv, TypeOK
  <2>1. o \in Overlays /\ show[o] /\ ~show'[o] /\ ~stopDrawing
    BY DEF Removing, Overlays
  <2>2. Remove(o)
    <3>1. show' # show
      BY <2>1
    <3>2. \/ \E q \in Overlays : Remove(q)
          \/ SetFlag
      BY <3>1, NextSteps
         DEF Call, Expire, ArmTimer, StoreInfo, TestStop, TestFlag, DrawValue,
             Flip, SignalEnd, StopDrawing, WakeSpuriously, WaitForRender,
             Relock, JoinRender, DeleteTimers, Release, overlays
    <3>3. ~SetFlag
      BY <2>1 DEF SetFlag
    <3>4. ASSUME NEW q \in Overlays, Remove(q), q # o PROVE FALSE
      BY <3>4, <2>1 DEF Remove
    <3> QED
      BY <3>2, <3>3, <3>4
  <2>3. timer[o] >= 0 /\ removers[o] > 0
    BY <2>1, <2>2 DEF FrameInv, FramesBeforeExpiry, Remove
  <2> QED
    BY <2>1, <2>3 DEF TimerInv, Timed
<1> QED
  BY <1>1, GraphicsInvHolds, PTL DEF Spec, ShownBeforeRemoved
=============================================================================
