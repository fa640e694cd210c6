-------------------------------- MODULE TvApp --------------------------------
(***************************************************************************)
(* The application: main(), which starts the other parts in turn, waits    *)
(* for EXIT and stops them; the remote controller's thread with the keys   *)
(* it handles, the volume among them; and the start-up of the stream       *)
(* controller (module StreamStartup, which is extended here), all of them  *)
(* at the same time.  Keys may be pressed at any moment.                   *)
(*                                                                         *)
(* In other modules: what P+, P- and INFO do to a running stream           *)
(* controller, and streamControllerDeinit (StreamController), digits       *)
(* (KeyEntry), config.ini (ConfigFile), drawing and                        *)
(* graphicsControllerDeinit (GraphicsController).  The two deinits wait    *)
(* for threads that may never answer: here each is a call that may return, *)
(* late or not at all.                                                     *)
(***************************************************************************)
EXTENDS StreamStartup, Integers

CONSTANTS
  AppMayFail,    \* steps of main and of the remote controller that may fail
  Keys,          \* keys the user presses
  MaxVolume,     \* 10 in the code
  FirstVolume    \* 5 in the code

ASSUME AppConstants ==
  /\ AppMayFail \subseteq {"config", "rcInit", "scInit", "gcInit", "gcDeinit",
                           "open", "read", "volume"}
  /\ Keys \subseteq {"P", "V+", "V-", "mute", "exit"}
  /\ MaxVolume \in Nat /\ FirstVolume \in 0 .. MaxVolume

VARIABLES
  main,            \* what main does next
  rc,              \* inputEventTask: "none" before it is created
  key,             \* the key that remoteControllerCallback handles
  threadExit,      \* of remote_controller.c
  callback,        \* the remote controller's callback is not NULL
  volumeCallback,  \* volumeReportCallback is not NULL
  currentVolume,   \* of stream_controller.c
  shownVolume,     \* currentVolume of tv_app.c, which the bar is drawn with
  playerVolume,    \* the one the player has taken, NotSet before that
  told,            \* history: the last Player_Volume_Set succeeded
  fault,           \* the pointer that was used and is not valid
  leaving,         \* history: EXIT has woken main
  excuse           \* history: what the user, or POSIX, did out of turn

starters == <<main, threadExit, callback, volumeCallback>>
volumes == <<currentVolume, shownVolume, playerVolume, told>>
app == <<starters, volumes, rc, key, fault, leaving, excuse>>
appVars == <<vars, app>>

NotSet == -1

(* The steps of main, each with the next one.                              *)
SkipsVolume ==
  [config |-> "rcInit", rcInit |-> "register", register |-> "registerDate",
   registerDate |-> "scInit", registerVolume |-> "scInit", scInit |-> "gcInit",
   gcInit |-> "wait", wait |-> "waiting", waiting |-> "gcDeinit",
   gcDeinit |-> "unregister", unregister |-> "rcDeinit", rcDeinit |-> "join",
   join |-> "scDeinit", scDeinit |-> "returned"]

MainOrder ==
  [config |-> "rcInit", rcInit |-> "register", register |-> "registerDate",
   registerDate |-> "registerVolume", registerVolume |-> "scInit",
   scInit |-> "gcInit", gcInit |-> "wait", wait |-> "waiting",
   waiting |-> "gcDeinit", gcDeinit |-> "unregister",
   unregister |-> "rcDeinit", rcDeinit |-> "join", join |-> "scDeinit",
   scDeinit |-> "returned"]

BeforeTask == {"config", "rcInit", "register", "registerDate",
               "registerVolume", "scInit"}

AppInit ==
  /\ Init
  /\ main = "config" /\ rc = "none" /\ key = "none"
  /\ threadExit = FALSE /\ callback = FALSE /\ volumeCallback = FALSE
  /\ currentVolume = FirstVolume /\ shownVolume = FirstVolume
  /\ playerVolume = NotSet /\ told = FALSE
  /\ fault = "none" /\ leaving = FALSE /\ excuse = {}

-----------------------------------------------------------------------------
(* main                                                                    *)

Does(step) == main = step /\ main' = MainOrder[step]

(* A step that changes nothing else here, and one that fails: ERRORCHECK   *)
(* makes main return -1, which ends the process.                           *)
Calls(step) ==
  /\ Does(step)
  /\ UNCHANGED <<vars, volumes, threadExit, callback, volumeCallback, rc, key,
                 fault, leaving, excuse>>

Fails(step) ==
  /\ main = step /\ step \in AppMayFail
  /\ main' = "returned"
  /\ UNCHANGED <<vars, volumes, threadExit, callback, volumeCallback, rc, key,
                 fault, leaving, excuse>>

loadInitialInfo == Calls("config") \/ Fails("config")

CreateRemoteThread ==
  /\ Does("rcInit")
  /\ rc' = "open"
  /\ UNCHANGED <<vars, volumes, threadExit, callback, volumeCallback, key,
                 fault, leaving, excuse>>

remoteControllerInit == CreateRemoteThread \/ Fails("rcInit")

registerRemoteControllerCallback ==
  /\ Does("register")
  /\ callback' = TRUE
  /\ UNCHANGED <<vars, volumes, threadExit, volumeCallback, rc, key, fault,
                 leaving, excuse>>

(* The date it is called with is StreamController's.                       *)
registerDateCallback == Calls("registerDate")

registerVolumeCallback ==
  /\ Does("registerVolume")
  /\ volumeCallback' = TRUE
  /\ UNCHANGED <<vars, volumes, threadExit, callback, rc, key, fault, leaving,
                 excuse>>

(* The start-up runs from here on.                                         *)
streamControllerInit == Calls("scInit") \/ Fails("scInit")

graphicsControllerInit == Calls("gcInit") \/ Fails("gcInit")

(* pthread_mutex_lock(&deinitMutex) and pthread_cond_wait, which returns   *)
(* when EXIT signals and may return without.                               *)
WaitForExit ==
  /\ \/ Does("wait") /\ UNCHANGED excuse
     \/ Does("waiting") /\ excuse' = excuse \cup {"spurious"}
  /\ UNCHANGED <<vars, volumes, threadExit, callback, volumeCallback, rc, key,
                 fault, leaving>>

(* Returns when the renderer has been joined, if it ever is: its wait has  *)
(* no timeout and may have missed the signal.  It fails if the join does.  *)
graphicsControllerDeinit == Calls("gcDeinit") \/ Fails("gcDeinit")

unregisterRemoteControllerCallback ==
  /\ Does("unregister")
  /\ callback' = FALSE
  /\ UNCHANGED <<vars, volumes, threadExit, volumeCallback, rc, key, fault,
                 leaving, excuse>>

ExitNotAsked ==
  /\ \/ Does("rcDeinit")
     \/ Does("join") /\ rc = "done"
  /\ UNCHANGED <<vars, volumes, threadExit, callback, volumeCallback, rc, key,
                 fault, leaving, excuse>>

remoteControllerDeinit ==
  /\ \/ Does("rcDeinit") /\ threadExit' = TRUE
     \/ Does("join") /\ rc = "done" /\ UNCHANGED threadExit
  /\ UNCHANGED <<vars, volumes, callback, volumeCallback, rc, key, fault,
                 leaving, excuse>>

(* Whatever it returns, main returns.  It returns at once if the start-up  *)
(* is not complete; if it is, when streamControllerTask has been joined,   *)
(* which may be in a wait without a timeout.                               *)
streamControllerDeinit == Calls("scDeinit")

(* main is in a wait that nothing here needs to end.                       *)
Joining == main = "scDeinit" /\ pc = "ready"
Blocked == main \in {"waiting", "gcDeinit"} \/ Joining

-----------------------------------------------------------------------------
(* inputEventTask                                                          *)

Rc(here, next) == rc = here /\ rc' = next

OpenDevice ==
  /\ Rc("open", "loop") \/ ("open" \in AppMayFail /\ Rc("open", "done"))
  /\ UNCHANGED <<vars, starters, volumes, key, fault, leaving, excuse>>

(* while(!threadExit)                                                      *)
TestExit ==
  /\ Rc("loop", IF threadExit THEN "done" ELSE "read")
  /\ UNCHANGED <<vars, starters, volumes, key, fault, leaving, excuse>>

(* read() fails, or returns an event that is no key press and filtered:    *)
(* a release, or the end of an event packet.                               *)
OtherEvent ==
  /\ Rc("read", "loop") \/ ("read" \in AppMayFail /\ Rc("read", "done"))
  /\ UNCHANGED <<vars, starters, volumes, key, fault, leaving, excuse>>

(* The picture is there and main waits, or has waited, for EXIT.           *)
Up == pc = "ready" /\ main \notin BeforeTask \cup {"gcInit", "wait"}

(* A key press, or its autorepeat: callback(code, type, value).            *)
KeyEvent(k) ==
  /\ Rc("read", "key")
  /\ key' = k
  /\ fault' = IF callback THEN "none" ELSE "callback"
  /\ excuse' = excuse \cup (IF Up THEN {} ELSE {"early"})
                      \cup (IF leaving THEN {"late"} ELSE {})
  /\ UNCHANGED <<vars, starters, volumes, leaving>>

Handled(k) == Rc("key", "loop") /\ key = k /\ key' = "none"

(* channelUp and channelDown read patTable->serviceInfoCount.              *)
channelKey ==
  /\ Handled("P")
  /\ fault' = IF table["pat"] = "live" THEN "none" ELSE "patTable"
  /\ UNCHANGED <<vars, starters, volumes, leaving, excuse>>

(* Player_Volume_Set fails without a player and may fail with one; the     *)
(* three keys ignore that.                                                 *)
Player_Volume_Set(v) ==
  \/ player # "off" /\ playerVolume' = v /\ told' = TRUE
  \/ /\ player = "off" \/ "volume" \in AppMayFail
     /\ told' = FALSE /\ UNCHANGED playerVolume

(* registerCurrentVolume, through volumeReportCallback.                    *)
Report ==
  /\ fault' = IF volumeCallback THEN "none" ELSE "volumeCallback"
  /\ shownVolume' = currentVolume'

volumeUp ==
  /\ Handled("V+")
  /\ currentVolume' = IF currentVolume + 1 > MaxVolume THEN MaxVolume
                      ELSE currentVolume + 1
  /\ Player_Volume_Set(currentVolume')
  /\ Report
  /\ UNCHANGED <<vars, starters, leaving, excuse>>

volumeDown ==
  /\ Handled("V-")
  /\ currentVolume' = IF currentVolume > 0 THEN currentVolume - 1 ELSE 0
  /\ Player_Volume_Set(currentVolume')
  /\ Report
  /\ UNCHANGED <<vars, starters, leaving, excuse>>

MuteForgotten ==
  /\ Handled("mute")
  /\ Player_Volume_Set(0)
  /\ shownVolume' = 0
  /\ UNCHANGED <<vars, starters, currentVolume, fault, leaving, excuse>>

(* volumeMute reports to nobody; the key's handler sets its own copy.      *)
volumeMute ==
  /\ Handled("mute")
  /\ Player_Volume_Set(0)
  /\ currentVolume' = 0
  /\ shownVolume' = 0
  /\ UNCHANGED <<vars, starters, fault, leaving, excuse>>

(* EXIT signals deinitCond, which is lost unless main waits.               *)
exitKey ==
  /\ Handled("exit")
  /\ \/ main = "waiting" /\ main' = MainOrder["waiting"] /\ leaving' = TRUE
     \/ main # "waiting" /\ UNCHANGED <<main, leaving>>
  /\ UNCHANGED <<vars, volumes, threadExit, callback, volumeCallback, fault,
                 excuse>>

-----------------------------------------------------------------------------
MainSteps ==
  \/ loadInitialInfo \/ remoteControllerInit
  \/ registerRemoteControllerCallback \/ registerDateCallback
  \/ registerVolumeCallback \/ streamControllerInit \/ graphicsControllerInit
  \/ WaitForExit \/ graphicsControllerDeinit
  \/ unregisterRemoteControllerCallback \/ remoteControllerDeinit
  \/ streamControllerDeinit

remoteControllerCallback ==
  channelKey \/ volumeUp \/ volumeDown \/ volumeMute \/ exitKey

inputEventTask == OpenDevice \/ TestExit \/ remoteControllerCallback

Running == main # "returned" /\ fault = "none"

(* A step of the start-up, whose thread streamControllerInit creates.      *)
Startup(step) == main \notin BeforeTask /\ step /\ UNCHANGED app

AppOver == ~Running /\ UNCHANGED appVars

AppNext ==
  \/ /\ Running
     /\ \/ MainSteps \/ inputEventTask \/ OtherEvent
        \/ \E k \in Keys : KeyEvent(k)
        \/ Startup(streamControllerTask) \/ Startup(tunerStatusCallback)
        \/ Startup(WakeSpuriously) \/ Startup(Clock) \/ Startup(TunerReports)
  \/ AppOver

AppSpec == AppInit /\ [][AppNext]_appVars

(* The threads run and time passes; main need not be woken without EXIT or *)
(* return from a deinit that waits for another thread, the tuner need not  *)
(* lock, and no event need come from the remote.                           *)
AppFairSpec ==
  /\ AppSpec
  /\ WF_appVars(Running /\ ~Blocked /\ MainSteps)
  /\ WF_appVars(Running /\ inputEventTask)
  /\ WF_appVars(Running /\ Startup(streamControllerTask))
  /\ WF_appVars(Running /\ Startup(tunerStatusCallback))
  /\ WF_appVars(Running /\ Startup(Clock))

-----------------------------------------------------------------------------
(* Properties.                                                             *)

(* The start of the stream controller comes to an end, with or without a   *)
(* lock of the tuner, unless the process ends first.                       *)
StartupEnds == main = "gcInit" ~> Over \/ ~Running

(* tunerStatusCallback returns to the tuner, unless the start has failed   *)
(* (the timeout keeps statusMutex) or the process has ended.               *)
CallbackReturns == cb = "lock" ~> (cb = "idle" \/ pc = "ended" \/ ~Running)

(* No key uses a NULL callback or a table that is not there, as long as    *)
(* the user waits for the picture before he presses one and presses none   *)
(* after EXIT, and main's wait does not return without a signal.           *)
TimelyKeysSafe == fault # "none" => excuse # {}

(* The volume that is shown is the stream controller's, in its range, and  *)
(* the player's whenever the last Player_Volume_Set succeeded: V+, V- and  *)
(* MUTE, which sets its copies by other means, keep the three in step, and *)
(* a volume the player has refused is made good by the next key it takes.  *)
(* (Before that it plays the old one under the new bar.)                   *)
VolumesAgree ==
  fault = "none" =>
    /\ shownVolume = currentVolume /\ currentVolume \in 0 .. MaxVolume
    /\ told => playerVolume = shownVolume

(* EXIT, pressed while main waits for it, makes main return, except for    *)
(* what can stop it on its way: graphicsControllerDeinit never returns     *)
(* (its signal was missed), the remote falls silent (inputEventTask looks  *)
(* at threadExit only when read() returns), streamControllerDeinit joins a *)
(* task that never ends, or a key pressed out of turn crashes first.       *)
ExitEnds ==
  [](leaving => \/ <>(main = "returned") \/ <>(fault # "none")
                \/ <>[](main = "gcDeinit")
                \/ <>[](main = "join" /\ rc = "read")
                \/ <>[]Joining)
=============================================================================
