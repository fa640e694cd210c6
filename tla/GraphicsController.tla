-------------------------- MODULE GraphicsController --------------------------
(***************************************************************************)
(* The graphics controller once renderThread runs.  The remote controller  *)
(* thread calls drawProgramNumber, drawVolumeBar and drawInfoRect; each    *)
(* overlay has a one-shot timer whose expiry starts a thread               *)
(* (SIGEV_THREAD) that clears the overlay's flag; renderThread draws frame *)
(* after frame from the flags; main runs graphicsControllerDeinit.  No     *)
(* lock guards the flags or the values.  DirectFB and the timers are       *)
(* external.  A call's value (a volume, pids and a date) is the number of  *)
(* the call, so that what is on the screen tells which call it came from.  *)
(***************************************************************************)
EXTENDS Integers

CONSTANTS
  MaxCalls,   \* bound on the calls of the drawing functions
  MaxLate     \* bound on the removing threads of one overlay that are pending

Overlays == {"program", "volume", "info"}
Values == {"volume", "video", "audio", "date"}

ASSUME GraphicsConstants == MaxCalls \in Nat /\ MaxLate \in Nat

VARIABLES
  show,        \* the show flags of componentsToDraw
  value,       \* componentsToDraw.volume, videoPidToDraw, audioPidToDraw, date
  timer,       \* per overlay: frames until it may expire; Off, Deleted
  removers,    \* per overlay: removing threads that have yet to run
  calls, rc,   \* calls so far; the call the remote controller thread is in
  render,      \* renderThread: pc and the frame it is drawing
  stopDrawing, main, graphicsMutex,
  owed,        \* history: the last call of an overlay, until it is on screen
  late,        \* history: a removing thread was pending during that call
  spurious     \* history: pthread_cond_wait has returned without a signal

overlays == <<show, value, timer, removers>>
deinit == <<stopDrawing, main, graphicsMutex, spurious>>
keys == <<calls, rc, owed, late>>
vars == <<overlays, deinit, keys, render>>

Off == -1
Deleted == -2

(* The timers run for seconds and a frame takes milliseconds: a timer does *)
(* not expire before that many frames were drawn.                          *)
FramesBeforeExpiry == 2

NoCall == [pc |-> "idle", overlay |-> "none"]
Blank == [v \in Values |-> 0]

Init ==
  /\ show = [o \in Overlays |-> FALSE]
  /\ value = Blank
  /\ timer = [o \in Overlays |-> Off]
  /\ removers = [o \in Overlays |-> 0]
  /\ calls = 0 /\ rc = NoCall
  /\ render = [pc |-> "test", frame |-> Blank]
  /\ stopDrawing = FALSE /\ main = "running" /\ graphicsMutex = "none"
  /\ owed = [o \in Overlays |-> 0]
  /\ late = [o \in Overlays |-> FALSE] /\ spurious = FALSE

-----------------------------------------------------------------------------
(* The drawing functions, on the remote controller thread.                 *)

(* drawVolumeBar stores the volume first; the others arm their timer first.*)
Call(o) ==
  /\ rc = NoCall /\ calls < MaxCalls
  /\ calls' = calls + 1
  /\ rc' = [pc |-> "arm", overlay |-> o]
  /\ value' = IF o = "volume" THEN [value EXCEPT ![o] = calls'] ELSE value
  /\ owed' = [owed EXCEPT ![o] = 0]
  /\ late' = [late EXCEPT ![o] = removers[o] > 0]
  /\ UNCHANGED <<show, timer, removers, deinit, render>>

NeverArmed ==
  /\ rc.pc = "arm"
  /\ rc' = [rc EXCEPT !.pc = IF rc.overlay = "info" THEN "audio" ELSE "flag"]
  /\ UNCHANGED <<overlays, deinit, calls, render, owed, late>>

(* timer_settime: a deleted timer stays deleted.                           *)
ArmTimer ==
  /\ rc.pc = "arm"
  /\ timer' = [timer EXCEPT ![rc.overlay] =
                 IF @ = Deleted THEN @ ELSE FramesBeforeExpiry]
  /\ rc' = [rc EXCEPT !.pc = IF rc.overlay = "info" THEN "audio" ELSE "flag"]
  /\ UNCHANGED <<show, value, removers, deinit, calls, render, owed, late>>

After == [audio |-> "video", video |-> "date", date |-> "flag"]

DateNotStored ==
  /\ rc.pc \in DOMAIN After
  /\ value' = IF rc.pc = "date" THEN value ELSE [value EXCEPT ![rc.pc] = calls]
  /\ rc' = [rc EXCEPT !.pc = After[rc.pc]]
  /\ UNCHANGED <<show, timer, removers, deinit, calls, render, owed, late>>

(* audioPidToDraw, videoPidToDraw and then the date are stored.            *)
StoreInfo ==
  /\ rc.pc \in DOMAIN After
  /\ value' = [value EXCEPT ![rc.pc] = calls]
  /\ rc' = [rc EXCEPT !.pc = After[rc.pc]]
  /\ UNCHANGED <<show, timer, removers, deinit, calls, render, owed, late>>

(* componentsToDraw.show... = true                                         *)
SetFlag ==
  /\ rc.pc = "flag"
  /\ show' = [show EXCEPT ![rc.overlay] = TRUE]
  /\ owed' = [owed EXCEPT ![rc.overlay] = calls]
  /\ rc' = NoCall
  /\ UNCHANGED <<value, timer, removers, deinit, calls, render, late>>

-----------------------------------------------------------------------------
(* The timers and their threads.                                           *)

(* A call that has armed its timer ends before the timer does.             *)
Arming(o) == rc.overlay = o /\ rc.pc # "arm"

Expire(o) ==
  /\ timer[o] = 0 \/ (timer[o] > 0 /\ render.pc = "done")
  /\ ~Arming(o)
  /\ removers[o] < MaxLate
  /\ timer' = [timer EXCEPT ![o] = Off]
  /\ removers' = [removers EXCEPT ![o] = @ + 1]
  /\ late' = [late EXCEPT ![o] = @ \/ rc.overlay = o]
  /\ UNCHANGED <<show, value, deinit, calls, rc, render, owed>>

RemovesNothing(o) ==
  /\ removers[o] > 0
  /\ removers' = [removers EXCEPT ![o] = @ - 1]
  /\ UNCHANGED <<show, value, timer, deinit, calls, rc, render, owed, late>>

RemovesInfo(o) ==
  /\ removers[o] > 0
  /\ removers' = [removers EXCEPT ![o] = @ - 1]
  /\ show' = [show EXCEPT !["info"] = FALSE]
  /\ owed' = [owed EXCEPT ![o] = 0]
  /\ UNCHANGED <<value, timer, deinit, calls, rc, render, late>>

(* removeProgramNumber, removeVolumeBar, removeInfo                        *)
Remove(o) ==
  /\ removers[o] > 0
  /\ removers' = [removers EXCEPT ![o] = @ - 1]
  /\ show' = [show EXCEPT ![o] = FALSE]
  /\ owed' = [owed EXCEPT ![o] = 0]
  /\ UNCHANGED <<value, timer, deinit, calls, rc, render, late>>

-----------------------------------------------------------------------------
(* renderThread                                                            *)

(* while (!stopDrawing) { wipeScreen(); ... }                              *)
TestStop ==
  /\ render.pc = "test"
  /\ render' = [pc |-> IF stopDrawing THEN "lock" ELSE "volumeFlag",
                frame |-> Blank]
  /\ UNCHANGED <<overlays, deinit, keys>>

(* if (componentsToDraw.showVolume), if (componentsToDraw.showInfo)        *)
TestFlag ==
  /\ \/ /\ render.pc = "volumeFlag"
        /\ render' = [render EXCEPT !.pc = IF show["volume"] THEN "volume"
                                           ELSE "infoFlag"]
     \/ /\ render.pc = "infoFlag"
        /\ render' = [render EXCEPT !.pc = IF show["info"] THEN "video"
                                           ELSE "flip"]
  /\ UNCHANGED <<overlays, deinit, keys>>

NextValue == [volume |-> "infoFlag", video |-> "audio", audio |-> "date",
              date |-> "flip"]

(* The picture of the volume; the pids and the date, one after another.    *)
DrawValue ==
  /\ render.pc \in Values
  /\ render' = [pc |-> NextValue[render.pc],
                frame |-> [render.frame EXCEPT ![render.pc] = value[render.pc]]]
  /\ UNCHANGED <<overlays, deinit, keys>>

(* The call of overlay o that a frame shows whole.                         *)
Shows(frame, o) ==
  CASE o = "program" -> {}
    [] o = "volume"  -> {frame["volume"]}
    [] o = "info"    -> {frame["video"]} \cap {frame["audio"]}
                          \cap {frame["date"]}

(* primary->Flip                                                           *)
Flip ==
  /\ render.pc = "flip"
  /\ render' = [render EXCEPT !.pc = "test"]
  /\ owed' = [o \in Overlays |->
                IF owed[o] \in Shows(render.frame, o) THEN 0 ELSE owed[o]]
  /\ timer' = [o \in Overlays |->
                 IF timer[o] > 0 /\ ~Arming(o) THEN timer[o] - 1 ELSE timer[o]]
  /\ UNCHANGED <<show, value, removers, deinit, calls, rc, late>>

EndsLocked ==
  /\ \/ /\ render.pc = "lock" /\ graphicsMutex = "none"
        /\ graphicsMutex' = "render"
        /\ render' = [render EXCEPT !.pc = "signal"]
        /\ UNCHANGED main
     \/ /\ render.pc = "signal"
        /\ main' = IF main = "waiting" THEN "relock" ELSE main
        /\ render' = [render EXCEPT !.pc = "done"]
        /\ UNCHANGED graphicsMutex
  /\ UNCHANGED <<overlays, stopDrawing, spurious, keys>>

(* After the loop: pthread_mutex_lock, pthread_cond_signal and unlock.     *)
SignalEnd ==
  /\ \/ /\ render.pc = "lock" /\ graphicsMutex = "none"
        /\ graphicsMutex' = "render"
        /\ render' = [render EXCEPT !.pc = "signal"]
        /\ UNCHANGED main
     \/ /\ render.pc = "signal"
        /\ main' = IF main = "waiting" THEN "relock" ELSE main
        /\ render' = [render EXCEPT !.pc = "unlock"]
        /\ UNCHANGED graphicsMutex
     \/ /\ render.pc = "unlock"
        /\ graphicsMutex' = "none"
        /\ render' = [render EXCEPT !.pc = "done"]
        /\ UNCHANGED main
  /\ UNCHANGED <<overlays, stopDrawing, spurious, keys>>

-----------------------------------------------------------------------------
(* graphicsControllerDeinit                                                *)

StopDrawing ==
  /\ main = "running"
  /\ stopDrawing' = TRUE
  /\ main' = "wait"
  /\ UNCHANGED <<overlays, graphicsMutex, spurious, keys, render>>

(* pthread_cond_wait without graphicsMutex: it unlocks it all the same.    *)
WaitForRender ==
  /\ main = "wait"
  /\ graphicsMutex' = "none"
  /\ main' = "waiting"
  /\ UNCHANGED <<overlays, stopDrawing, spurious, keys, render>>

WakeSpuriously ==
  /\ main = "waiting"
  /\ main' = "relock"
  /\ spurious' = TRUE
  /\ UNCHANGED <<overlays, stopDrawing, graphicsMutex, keys, render>>

(* It returns with graphicsMutex, which main keeps.                        *)
Relock ==
  /\ main = "relock" /\ graphicsMutex = "none"
  /\ graphicsMutex' = "main"
  /\ main' = "join"
  /\ UNCHANGED <<overlays, stopDrawing, spurious, keys, render>>

JoinSkipped ==
  /\ main = "join"
  /\ main' = "timers"
  /\ UNCHANGED <<overlays, stopDrawing, graphicsMutex, spurious, keys, render>>

JoinRender ==
  /\ main = "join" /\ render.pc = "done"
  /\ main' = "timers"
  /\ UNCHANGED <<overlays, stopDrawing, graphicsMutex, spurious, keys, render>>

DeleteTimers ==
  /\ main = "timers"
  /\ timer' = [o \in Overlays |-> Deleted]
  /\ main' = "release"
  /\ UNCHANGED <<show, value, removers, stopDrawing, graphicsMutex, spurious,
                 keys, render>>

(* primary->Release, dfbInterface->Release                                 *)
Release ==
  /\ main = "release"
  /\ main' = "released"
  /\ UNCHANGED <<overlays, stopDrawing, graphicsMutex, spurious, keys, render>>

-----------------------------------------------------------------------------
Draw == ArmTimer \/ StoreInfo \/ SetFlag

renderThread == TestStop \/ TestFlag \/ DrawValue \/ Flip \/ SignalEnd

graphicsControllerDeinit ==
  WaitForRender \/ Relock \/ JoinRender \/ DeleteTimers \/ Release

Next ==
  \/ \E o \in Overlays : Call(o) \/ Expire(o) \/ Remove(o)
  \/ Draw \/ renderThread
  \/ StopDrawing \/ WakeSpuriously \/ graphicsControllerDeinit

Spec == Init /\ [][Next]_vars

(* Every thread that can run runs and time passes; no key need be pressed. *)
FairSpec ==
  /\ Spec
  /\ WF_vars(Draw) /\ WF_vars(renderThread) /\ WF_vars(graphicsControllerDeinit)
  /\ \A o \in Overlays : WF_vars(Expire(o)) /\ WF_vars(Remove(o))

-----------------------------------------------------------------------------
(* Properties.                                                             *)

Drawing == {"volumeFlag", "volume", "infoFlag", "video", "audio", "date",
            "flip"}

(* Every variable keeps its type; renderThread holds graphicsMutex only    *)
(* while it signals its end.                                               *)
TypeOK ==
  /\ show \in [Overlays -> BOOLEAN]
  /\ value \in [Values -> 0 .. MaxCalls]
  /\ timer \in [Overlays -> -2 .. FramesBeforeExpiry]
  /\ removers \in [Overlays -> 0 .. MaxLate]
  /\ calls \in 0 .. MaxCalls
  /\ rc \in [pc : {"idle", "arm", "audio", "video", "date", "flag"},
             overlay : Overlays \cup {"none"}]
  /\ render \in [pc : Drawing \cup {"test", "lock", "signal", "unlock", "done"},
                 frame : [Values -> 0 .. MaxCalls]]
  /\ stopDrawing \in BOOLEAN
  /\ main \in {"running", "wait", "waiting", "relock", "join", "timers",
               "release", "released"}
  /\ graphicsMutex \in {"none", "render", "main"}
  /\ graphicsMutex = "render" => render.pc \in {"signal", "unlock"}
  /\ owed \in [Overlays -> 0 .. MaxCalls]
  /\ late \in [Overlays -> BOOLEAN] /\ spurious \in BOOLEAN

(* No overlay is left on the screen for good: while its flag is set, its   *)
(* timer runs, or a thread that clears the flag is about to run, or the    *)
(* call that sets them is not over, or the graphics are being shut down.   *)
OverlayTimed ==
  \A o \in Overlays : show[o] =>
    timer[o] >= 0 \/ timer[o] = Deleted \/ removers[o] > 0 \/ rc.overlay = o

(* renderThread never draws on a surface that was released.                *)
NoDrawAfterRelease ==
  main \in {"timers", "release", "released"} => render.pc \notin Drawing

(* The flag of an overlay is set for as long as its timer runs: a second   *)
(* key press keeps the overlay for the whole of its time, unless it came   *)
(* just as the first time was over.                                        *)
StaysWhileTimed ==
  \A o \in Overlays :
    timer[o] >= 0 /\ rc.overlay # o /\ ~late[o] => show[o]

Removing(o) == show[o] /\ ~show'[o] /\ ~stopDrawing

(* Before the volume bar or the info dialog is removed, what the last key  *)
(* press asked for has been on the screen, in one frame, unless the press  *)
(* came just as the time of the one before was over.                       *)
ShownBeforeRemoved ==
  [][\A o \in {"volume", "info"} :
       Removing(o) => owed[o] = 0 \/ late[o]]_vars

(* The overlays disappear, once the user stops pressing keys (as MaxCalls  *)
(* makes sure) and unless the graphics are shut down.                      *)
OverlaysDisappear == <>[](stopDrawing \/ \A o \in Overlays : ~show[o])

(* graphicsControllerDeinit returns, if it waits before renderThread has   *)
(* sent its only signal and is not woken before that signal.               *)
DeinitReturnsIfSignalled ==
  (main = "waiting" /\ render.pc \in Drawing \cup {"test", "lock"})
    ~> main = "released" \/ spurious
=============================================================================
