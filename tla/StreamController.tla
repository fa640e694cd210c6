--------------------------- MODULE StreamController ---------------------------
(***************************************************************************)
(* The stream controller of the TV application once its player source is   *)
(* open: streamControllerTask from the PAT filter on, startChannel,        *)
(* parseTimeTables, the demultiplexer callback, the channel keys, the      *)
(* direct channel entry and streamControllerDeinit, with every thread that *)
(* runs them:                                                              *)
(*   "sc"     the thread of streamControllerTask;                          *)
(*   "rc"     the remote controller thread (P+, P-, INFO);                 *)
(*   "main"   main(), which runs streamControllerDeinit after EXIT;        *)
(*   Dialers  timer threads (SIGEV_THREAD) that run changeChannelKey;      *)
(*   cb       the demultiplexer thread in sectionReceivedCallback.         *)
(* The demultiplexer and the player (libtdp) are external: they appear as  *)
(* the filters and streams that are allocated in them.                     *)
(***************************************************************************)
EXTENDS Integers, Sequences

CONSTANTS
  Dialers,        \* timer threads that may run changeChannelKey
  NServices,      \* entries of the broadcast PAT; entry 0 is the NIT
  Pids,           \* elementary pids
  Pmt,            \* Pmt[p]: the elementary streams announced by program p
  ConfigProgram,  \* program_number of config.ini
  DialNumbers,    \* channel numbers the user may enter
  KeyOps,         \* the keys the user presses, of {"up", "down", "info"}
  FilterHandles, StreamHandles, NoHandle,  \* handles of libtdp; the code's 0
  MaxPat,         \* TABLES_MAX_NUMBER_OF_PIDS_IN_PAT
  MaxElem,        \* TABLES_MAX_NUMBER_OF_ELEMENTARY_PID
  MayFail,        \* libtdp calls that may fail
  FreeWaits,      \* Demux_Free_Filter returns only when no callback runs
  Spurious        \* pthread_cond_wait may return without a signal

Programs == 1 .. NServices - 1
Kinds == {"video", "audio"}
NoPid == -1
Starters == {"sc"} \cup Dialers
Threads == Starters \cup {"rc", "main"}

(* An element of pmtElementaryInfoArray.                                   *)
Elementary == [type : Kinds \cup {"other"}, pid : Pids]

ASSUME ConstantsOK ==
  /\ NServices \in Nat \ {0}
  /\ Pids \subseteq 1 .. 8191
  /\ Pmt \in [Programs -> Seq(Elementary)]
  /\ ConfigProgram \in Int
  /\ DialNumbers \subseteq Int
  /\ KeyOps \subseteq {"up", "down", "info"}
  /\ NoHandle \notin FilterHandles \cup StreamHandles
  /\ MaxPat \in Nat /\ MaxElem \in Nat
  /\ MayFail \subseteq {"setFilter", "register", "streamCreate"}
  /\ FreeWaits \in BOOLEAN /\ Spurious \in BOOLEAN
  /\ Dialers \cap {"sc", "rc", "main", "cb", "none"} = {}

VARIABLES
  \* statics of stream_controller.c
  programNumber, changeChannel, threadExit, isInitialized, timeTablesRecieved,
  filterHandle, streamHandle,     \* streamHandle["video"] is streamHandleV
  currentChannel, currentDate,
  serviceInfoCount, patFilled,    \* patTable: its count, its slots ever written
  pmtTable,                       \* program whose section it holds, its count
  tdtTable, tablesLive,           \* the four tables are allocated
  channelInfo,                    \* tv_app.c's copy of currentChannel
  \* threads
  pc, stage, chan, idx, pid,      \* pc, what t works on, locals of startChannel
  cb,                             \* the demultiplexer thread
  joiner,                         \* thread that called pthread_join(scThread)
  fault,                          \* thread that touched a freed table
  \* libtdp
  registered, filters, streams, playerOpen

control == <<programNumber, changeChannel, threadExit, isInitialized,
             timeTablesRecieved>>
tables == <<serviceInfoCount, patFilled, pmtTable, tdtTable, tablesLive>>
shown == <<currentChannel, currentDate, channelInfo>>
handles == <<filterHandle, streamHandle>>
device == <<registered, filters, streams, playerOpen>>
locals == <<stage, chan, idx, pid>>
vars == <<control, tables, shown, handles, device, locals, pc, cb, joiner,
          fault>>

-----------------------------------------------------------------------------
(* Sections.  A want is what a filter lets through: the sections of one    *)
(* table, and for a PMT those of one program.  Program 0 stands for a pid  *)
(* that carries no PMT: the NIT's, the 0 of a slot never written, or what  *)
(* lies beside the array.                                                  *)

Want(tab, p) == [table |-> tab, prog |-> p]
NoWant == Want("none", 0)
Broadcast == {Want(tab, 0) : tab \in {"pat", "tdt", "tot"}}
               \cup {Want("pmt", p) : p \in Programs}
Wants == Broadcast \cup {Want("pmt", 0), NoWant}

(* patServiceInfoArray[i].pid *)
PatEntry(i) == IF i \in 1 .. patFilled - 1 THEN i ELSE 0

NoChannel == [num |-> 0, audio |-> 0, video |-> 0]

ZeroLocals == [k \in Kinds |-> 0]
NoLocals == [k \in Kinds |-> NoPid]

Init ==
  /\ programNumber = ConfigProgram
  /\ changeChannel = FALSE
  /\ threadExit = FALSE
  /\ isInitialized = FALSE
  /\ timeTablesRecieved = FALSE
  /\ filterHandle = NoHandle
  /\ streamHandle = [k \in Kinds |-> NoHandle]
  /\ currentChannel = NoChannel
  /\ currentDate = "zero"
  /\ channelInfo = NoChannel
  /\ serviceInfoCount = 0
  /\ patFilled = 0
  /\ pmtTable = [prog |-> 0, count |-> 0]
  /\ tdtTable = "zero"
  /\ tablesLive = TRUE
  /\ pc = [t \in Threads |-> IF t = "sc" THEN "set"
                             ELSE IF t = "main" THEN "running" ELSE "idle"]
  /\ stage = [t \in Starters |-> IF t = "sc" THEN "pat" ELSE "pmt"]
  /\ chan = [t \in Starters |-> 0]
  /\ idx = [t \in Starters |-> 0]
  /\ pid = [t \in Starters |-> NoLocals]
  /\ cb = [pc |-> "idle", want |-> NoWant]
  /\ joiner = "none"
  /\ fault = "none"
  /\ registered = FALSE
  /\ filters = [h \in FilterHandles |-> NoWant]
  /\ streams = [h \in StreamHandles |-> NoPid]
  /\ playerOpen = TRUE

Goto(t, label) == pc' = [pc EXCEPT ![t] = label]
Enter(t, s, label) == stage' = [stage EXCEPT ![t] = s] /\ Goto(t, label)

-----------------------------------------------------------------------------
(* Table filters: the steps of startChannel, parseTimeTables and           *)
(* streamControllerTask that free a filter, set one and wait for a table.  *)

(* Demux_Free_Filter does not return while a callback runs, if FreeWaits.  *)
Drained == FreeWaits => cb.pc = "idle"

KeptFilter(h) == UNCHANGED filters

Freed(h) == filters' = [f \in FilterHandles |->
                          IF f = h THEN NoWant ELSE filters[f]]

FreeFilter(t) ==
  /\ pc[t] = "free"
  /\ Freed(filterHandle)
  /\ Goto(t, "set")
  /\ UNCHANGED <<control, tables, shown, handles, locals, cb, joiner, fault,
                 registered, streams, playerOpen>>

Requested(t) == Want(stage[t],
                     IF stage[t] = "pmt" THEN PatEntry(chan[t] + 1) ELSE 0)

(* A filter that cannot be set ends startChannel, and parseTimeTables with *)
(* it; streamControllerTask goes on to wait for the PAT all the same.      *)
SetFilter(t) ==
  /\ pc[t] = "set"
  /\ Drained
  /\ stage[t] = "pmt" => tablesLive
  /\ \/ /\ playerOpen
        /\ \E h \in FilterHandles :
             /\ filters[h] = NoWant
             /\ filterHandle' = h
             /\ filters' = [filters EXCEPT ![h] = Requested(t)]
        /\ Goto(t, IF stage[t] = "pat" THEN "register" ELSE "wait")
     \/ /\ \/ "setFilter" \in MayFail
           \/ ~playerOpen
           \/ \A h \in FilterHandles : filters[h] # NoWant
        /\ Goto(t, IF stage[t] = "pat" THEN "register" ELSE "return")
        /\ UNCHANGED <<filterHandle, filters>>
  /\ UNCHANGED <<control, tables, shown, streamHandle, locals, cb, joiner,
                 fault, registered, streams, playerOpen>>

RegisterSectionCallback ==
  /\ pc["sc"] = "register"
  /\ \/ registered' = TRUE
     \/ "register" \in MayFail /\ UNCHANGED registered
  /\ Goto("sc", "wait")
  /\ UNCHANGED <<control, tables, shown, handles, locals, cb, joiner, fault,
                 filters, streams, playerOpen>>

WaitSkipped(t) ==
  /\ pc[t] = "wait"
  /\ Goto(t, "woken")
  /\ UNCHANGED <<control, tables, shown, handles, locals, cb, joiner, fault,
                 device>>

(* pthread_mutex_lock(&demuxMutex) and pthread_cond_wait in one step: the   *)
(* mutex guards nothing but the wait and the signal.                       *)
Wait(t) ==
  /\ pc[t] = "wait"
  /\ Goto(t, "waiting")
  /\ UNCHANGED <<control, tables, shown, handles, locals, cb, joiner, fault,
                 device>>

WakeSpuriously(t) ==
  /\ Spurious
  /\ pc[t] = "waiting"
  /\ Goto(t, "woken")
  /\ UNCHANGED <<control, tables, shown, handles, locals, cb, joiner, fault,
                 device>>

(* What follows the wait, whatever the table that was parsed.              *)
Resume(t) ==
  /\ pc[t] = "woken"
  /\ \/ stage[t] = "pat" /\ Goto(t, "call") /\ UNCHANGED stage
     \/ stage[t] = "pmt" /\ Goto(t, "scan") /\ UNCHANGED stage
     \/ stage[t] = "tdt" /\ Enter(t, "tot", "free")
     \/ stage[t] = "tot" /\ Goto(t, "date") /\ UNCHANGED stage
  /\ UNCHANGED <<control, tables, shown, handles, chan, idx, pid, cb, joiner,
                 fault, device>>

-----------------------------------------------------------------------------
(* The rest of startChannel.                                               *)

(* One round of the loop over pmtElementaryInfoArray: the first video and  *)
(* the first audio stream are taken.                                       *)
ScanPmt(t) ==
  /\ pc[t] = "scan"
  /\ tablesLive
  /\ \/ /\ idx[t] < pmtTable.count
        /\ LET e == Pmt[pmtTable.prog][idx[t] + 1]
           IN  pid' = IF e.type \in Kinds /\ pid[t][e.type] = NoPid
                      THEN [pid EXCEPT ![t] = [@ EXCEPT ![e.type] = e.pid]]
                      ELSE pid
        /\ idx' = [idx EXCEPT ![t] = @ + 1]
        /\ UNCHANGED <<stage, pc>>
     \/ /\ idx[t] >= pmtTable.count
        /\ Enter(t, "video", "remove")
        /\ UNCHANGED <<idx, pid>>
  /\ UNCHANGED <<control, tables, shown, handles, chan, cb, joiner, fault,
                 device>>

(* Where startChannel goes on once the video or the audio part is done.    *)
AfterStream(t) ==
  IF stage[t] = "video" THEN Enter(t, "audio", "remove")
                        ELSE Goto(t, "storeNum") /\ UNCHANGED stage

KeptStream(h) == UNCHANGED streams

Removed(h) == streams' = [s \in StreamHandles |->
                            IF s = h THEN NoPid ELSE streams[s]]

(* The previous stream is removed if there is one to put in its place; the *)
(* video stream also, with the screen cleared, if there is none.           *)
RemoveStream(t) ==
  /\ pc[t] = "remove"
  /\ LET k == stage[t] IN
     \/ /\ pid[t][k] # NoPid /\ streamHandle[k] # NoHandle
        /\ Removed(streamHandle[k])
        /\ Goto(t, "zero") /\ UNCHANGED stage
     \/ /\ pid[t][k] # NoPid /\ streamHandle[k] = NoHandle
        /\ Goto(t, "create") /\ UNCHANGED <<stage, streams>>
     \/ /\ pid[t][k] = NoPid /\ k = "video"
        /\ Removed(streamHandle[k])
        /\ Goto(t, "zero") /\ UNCHANGED stage
     \/ /\ pid[t][k] = NoPid /\ k = "audio"
        /\ AfterStream(t) /\ UNCHANGED streams
  /\ UNCHANGED <<control, tables, shown, handles, chan, idx, pid, cb, joiner,
                 fault, registered, filters, playerOpen>>

StaleHandle(t) ==
  /\ pc[t] = "zero"
  /\ IF pid[t][stage[t]] = NoPid
     THEN AfterStream(t)
     ELSE Goto(t, "create") /\ UNCHANGED stage
  /\ UNCHANGED <<control, tables, shown, handles, chan, idx, pid, cb, joiner,
                 fault, device>>

ZeroHandle(t) ==
  /\ pc[t] = "zero"
  /\ streamHandle' = [streamHandle EXCEPT ![stage[t]] = NoHandle]
  /\ IF pid[t][stage[t]] = NoPid
     THEN AfterStream(t)
     ELSE Goto(t, "create") /\ UNCHANGED stage
  /\ UNCHANGED <<control, tables, shown, filterHandle, chan, idx, pid, cb,
                 joiner, fault, device>>

(* A stream that cannot be created makes the thread run                    *)
(* streamControllerDeinit and, when that returns, go on in startChannel.   *)
CreateStream(t) ==
  /\ pc[t] = "create"
  /\ \/ /\ playerOpen
        /\ \E h \in StreamHandles :
             /\ streams[h] = NoPid
             /\ streams' = [streams EXCEPT ![h] = pid[t][stage[t]]]
             /\ streamHandle' = [streamHandle EXCEPT ![stage[t]] = h]
        /\ AfterStream(t)
     \/ /\ \/ "streamCreate" \in MayFail
           \/ ~playerOpen
           \/ \A h \in StreamHandles : streams[h] # NoPid
        /\ Goto(t, "dEnter")
        /\ UNCHANGED <<streams, streamHandle, stage>>
  /\ UNCHANGED <<control, tables, shown, filterHandle, chan, idx, pid, cb,
                 joiner, fault, registered, filters, playerOpen>>

StoreNum(t) ==
  /\ pc[t] = "storeNum"
  /\ currentChannel' = [currentChannel EXCEPT !.num = chan[t] + 1]
  /\ Goto(t, "storeAudio")
  /\ UNCHANGED <<control, tables, currentDate, channelInfo, handles, locals,
                 cb, joiner, fault, device>>

StoreAudio(t) ==
  /\ pc[t] = "storeAudio"
  /\ currentChannel' = [currentChannel EXCEPT !.audio = pid[t]["audio"]]
  /\ Goto(t, "storeVideo")
  /\ UNCHANGED <<control, tables, currentDate, channelInfo, handles, locals,
                 cb, joiner, fault, device>>

StoreVideo(t) ==
  /\ pc[t] = "storeVideo"
  /\ currentChannel' = [currentChannel EXCEPT !.video = pid[t]["video"]]
  /\ Goto(t, "time")
  /\ UNCHANGED <<control, tables, currentDate, channelInfo, handles, locals,
                 cb, joiner, fault, device>>

SkipTdt(t) ==
  /\ pc[t] = "time"
  /\ IF timeTablesRecieved
     THEN Goto(t, "return") /\ UNCHANGED stage
     ELSE Enter(t, "tot", "free")
  /\ UNCHANGED <<control, tables, shown, handles, chan, idx, pid, cb, joiner,
                 fault, device>>

(* parseTimeTables runs until it has succeeded once.                       *)
CheckTime(t) ==
  /\ pc[t] = "time"
  /\ IF timeTablesRecieved
     THEN Goto(t, "return") /\ UNCHANGED stage
     ELSE Enter(t, "tdt", "free")
  /\ UNCHANGED <<control, tables, shown, handles, chan, idx, pid, cb, joiner,
                 fault, device>>

(* The date is copied and handed to dateRecievedCallback, which copies it  *)
(* into tv_app.c: currentDate stands for both.                             *)
PublishDate(t) ==
  /\ pc[t] = "date"
  /\ tablesLive
  /\ currentDate' = tdtTable
  /\ timeTablesRecieved' = TRUE
  /\ Goto(t, "return")
  /\ UNCHANGED <<programNumber, changeChannel, threadExit, isInitialized,
                 tables, currentChannel, channelInfo, handles, locals, cb,
                 joiner, fault, device>>

(* The locals die with startChannel.                                       *)
DropLocals(t) ==
  /\ chan' = [chan EXCEPT ![t] = 0]
  /\ idx' = [idx EXCEPT ![t] = 0]
  /\ pid' = [pid EXCEPT ![t] = NoLocals]
  /\ stage' = [stage EXCEPT ![t] = "pmt"]

ReturnLowersFlag(t) ==
  /\ pc[t] = "return"
  /\ DropLocals(t)
  /\ t = "sc" /\ isInitialized' = TRUE /\ Goto(t, "loop")
  /\ changeChannel' = FALSE
  /\ UNCHANGED <<programNumber, threadExit, timeTablesRecieved, tables, shown,
                 handles, cb, joiner, fault, device>>

(* streamControllerTask sets isInitialized after its first call; it is     *)
(* still set after later ones.                                             *)
Return(t) ==
  /\ pc[t] = "return"
  /\ DropLocals(t)
  /\ \/ t = "sc" /\ isInitialized' = TRUE /\ Goto(t, "loop")
     \/ t # "sc" /\ UNCHANGED isInitialized /\ Goto(t, "idle")
  /\ UNCHANGED <<programNumber, changeChannel, threadExit, timeTablesRecieved,
                 tables, shown, handles, cb, joiner, fault, device>>

-----------------------------------------------------------------------------
(* streamControllerTask's loop, and the other caller of startChannel.      *)

PollFlagOnly ==
  /\ pc["sc"] = "loop"
  /\ changeChannel /\ Goto("sc", "clear")
  /\ UNCHANGED <<control, tables, shown, handles, locals, cb, joiner, fault,
                 device>>

(* while(!threadExit) { if (changeChannel) ... }                           *)
PollFlag ==
  /\ pc["sc"] = "loop"
  /\ \/ threadExit /\ Goto("sc", "done")
     \/ ~threadExit /\ changeChannel /\ Goto("sc", "clear")
  /\ UNCHANGED <<control, tables, shown, handles, locals, cb, joiner, fault,
                 device>>

ClearFlag ==
  /\ pc["sc"] = "clear"
  /\ changeChannel' = FALSE
  /\ Goto("sc", "call")
  /\ UNCHANGED <<programNumber, threadExit, isInitialized, timeTablesRecieved,
                 tables, shown, handles, locals, cb, joiner, fault, device>>

(* startChannel(programNumber) *)
CallStart ==
  /\ pc["sc"] = "call"
  /\ chan' = [chan EXCEPT !["sc"] = programNumber]
  /\ Enter("sc", "pmt", "free")
  /\ UNCHANGED <<control, tables, shown, handles, idx, pid, cb, joiner, fault,
                 device>>

(* The key timer of tv_app.c runs this on a thread of its own; a number    *)
(* out of range is dropped.                                                *)
changeChannelKey(t, n) ==
  /\ pc[t] = "idle"
  /\ tablesLive
  /\ n > -1 /\ n < serviceInfoCount
  /\ chan' = [chan EXCEPT ![t] = n]
  /\ Enter(t, "pmt", "free")
  /\ UNCHANGED <<control, tables, shown, handles, idx, pid, cb, joiner, fault,
                 device>>

-----------------------------------------------------------------------------
(* The remote controller thread.                                           *)

ProgramAboveWrong ==
  IF programNumber >= serviceInfoCount - 1 THEN 0 ELSE programNumber + 1

ProgramAbove ==
  IF programNumber >= serviceInfoCount - 2 THEN 0 ELSE programNumber + 1

ProgramBelow ==
  IF programNumber <= 0 THEN serviceInfoCount - 2 ELSE programNumber - 1

channelUp ==
  /\ "up" \in KeyOps /\ pc["rc"] = "idle" /\ tablesLive
  /\ programNumber' = ProgramAbove
  /\ Goto("rc", "flag")
  /\ UNCHANGED <<changeChannel, threadExit, isInitialized, timeTablesRecieved,
                 tables, shown, handles, locals, cb, joiner, fault, device>>

channelDown ==
  /\ "down" \in KeyOps /\ pc["rc"] = "idle" /\ tablesLive
  /\ programNumber' = ProgramBelow
  /\ Goto("rc", "flag")
  /\ UNCHANGED <<changeChannel, threadExit, isInitialized, timeTablesRecieved,
                 tables, shown, handles, locals, cb, joiner, fault, device>>

(* changeChannel = true, the end of channelUp and of channelDown.          *)
RaiseFlag ==
  /\ pc["rc"] = "flag"
  /\ changeChannel' = TRUE
  /\ Goto("rc", "idle")
  /\ UNCHANGED <<programNumber, threadExit, isInitialized, timeTablesRecieved,
                 tables, shown, handles, locals, cb, joiner, fault, device>>

(* INFO: getChannelInfo copies currentChannel field by field, and the      *)
(* dialog is drawn from the copy, which nothing reads afterwards.          *)
getChannelInfo ==
  /\ \/ /\ "info" \in KeyOps /\ pc["rc"] = "idle"
        /\ channelInfo' = [channelInfo EXCEPT !.num = currentChannel.num]
        /\ Goto("rc", "infoAudio")
     \/ /\ pc["rc"] = "infoAudio"
        /\ channelInfo' = [channelInfo EXCEPT !.audio = currentChannel.audio]
        /\ Goto("rc", "infoVideo")
     \/ /\ pc["rc"] = "infoVideo"
        /\ channelInfo' = [channelInfo EXCEPT !.video = currentChannel.video]
        /\ Goto("rc", "infoShow")
     \/ /\ pc["rc"] = "infoShow"
        /\ channelInfo' = NoChannel
        /\ Goto("rc", "idle")
  /\ UNCHANGED <<control, tables, currentChannel, currentDate, handles, locals,
                 cb, joiner, fault, device>>

-----------------------------------------------------------------------------
(* streamControllerDeinit, run by main after EXIT and by a thread whose    *)
(* stream could not be created.                                            *)

(* EXIT: main has stopped the remote controller thread, between two keys,  *)
(* when it calls streamControllerDeinit.                                   *)
Exit ==
  /\ pc["main"] = "running"
  /\ pc["rc"] = "idle"
  /\ pc' = [pc EXCEPT !["main"] = "dEnter", !["rc"] = "stopped"]
  /\ UNCHANGED <<control, tables, shown, handles, locals, cb, joiner, fault,
                 device>>

(* Back to the caller, whatever the error code: main leaves the process.   *)
DeinitReturn(t) ==
  IF t = "main" THEN Goto(t, "exited") /\ UNCHANGED stage ELSE AfterStream(t)

DeinitEnter(t) ==
  /\ pc[t] = "dEnter"
  /\ \/ ~isInitialized /\ DeinitReturn(t) /\ UNCHANGED threadExit
     \/ /\ isInitialized
        /\ threadExit' = TRUE
        /\ Goto(t, "dJoin") /\ UNCHANGED stage
  /\ UNCHANGED <<programNumber, changeChannel, isInitialized,
                 timeTablesRecieved, tables, shown, handles, chan, idx, pid, cb,
                 joiner, fault, device>>

(* pthread_join fails at once on the calling thread itself and on a thread *)
(* that is being joined; it blocks otherwise.                              *)
JoinTask(t) ==
  /\ pc[t] = "dJoin"
  /\ IF t = "sc" \/ joiner # "none"
     THEN DeinitReturn(t) /\ UNCHANGED joiner
     ELSE joiner' = t /\ Goto(t, "dJoining") /\ UNCHANGED stage
  /\ UNCHANGED <<control, tables, shown, handles, chan, idx, pid, cb, fault,
                 device>>

JoinedAtOnce(t) ==
  /\ pc[t] = "dJoining"
  /\ Goto(t, "dFilter")
  /\ UNCHANGED <<control, tables, shown, handles, locals, cb, joiner, fault,
                 device>>

Joined(t) ==
  /\ pc[t] = "dJoining"
  /\ pc["sc"] = "done"
  /\ Goto(t, "dFilter")
  /\ UNCHANGED <<control, tables, shown, handles, locals, cb, joiner, fault,
                 device>>

(* The filter, the streams, the player with its source, and the tuner.     *)
ReleaseDevice(t) ==
  /\ \/ /\ pc[t] = "dFilter"
        /\ Freed(filterHandle)
        /\ Goto(t, "dAudio") /\ UNCHANGED <<streams, playerOpen>>
     \/ /\ pc[t] = "dAudio" /\ Drained
        /\ Removed(streamHandle["audio"])
        /\ Goto(t, "dVideo") /\ UNCHANGED <<filters, playerOpen>>
     \/ /\ pc[t] = "dVideo"
        /\ Removed(streamHandle["video"])
        /\ Goto(t, "dClose") /\ UNCHANGED <<filters, playerOpen>>
     \/ /\ pc[t] = "dClose"
        /\ playerOpen' = FALSE
        /\ Goto(t, "dTables") /\ UNCHANGED <<filters, streams>>
  /\ UNCHANGED <<control, tables, shown, handles, locals, cb, joiner, fault,
                 registered>>

FreeTables(t) ==
  /\ pc[t] = "dTables"
  /\ tablesLive' = FALSE
  /\ Goto(t, "dFlag")
  /\ UNCHANGED <<control, serviceInfoCount, patFilled, pmtTable, tdtTable,
                 shown, handles, locals, cb, joiner, fault, device>>

DeinitDone(t) ==
  /\ pc[t] = "dFlag"
  /\ isInitialized' = FALSE
  /\ DeinitReturn(t)
  /\ UNCHANGED <<programNumber, changeChannel, threadExit, timeTablesRecieved,
                 tables, shown, handles, chan, idx, pid, cb, joiner, fault,
                 device>>

-----------------------------------------------------------------------------
(* sectionReceivedCallback, with the parser writing the table entry by     *)
(* entry while the other threads read it.                                  *)

(* A section that a filter lets through: it is broadcast again and again.  *)
(* The parser clears the count of the table before it writes the entries.  *)
SectionArrives(h) ==
  /\ cb.pc = "idle"
  /\ registered /\ tablesLive
  /\ filters[h] \in Broadcast
  /\ cb' = [pc |-> "parse", want |-> filters[h]]
  /\ LET w == filters[h] IN
     /\ serviceInfoCount' = IF w.table = "pat" THEN 0 ELSE serviceInfoCount
     /\ pmtTable' = IF w.table = "pmt" THEN [prog |-> w.prog, count |-> 0]
                                       ELSE pmtTable
     /\ tdtTable' = IF w.table = "tdt" THEN "torn" ELSE tdtTable
  /\ UNCHANGED <<control, patFilled, tablesLive, shown, handles, locals, pc,
                 joiner, fault, device>>

(* TABLES_PARSE_ERROR: the callback returns and signals nobody.            *)
ParseError == [pc |-> "idle", want |-> NoWant]

(* A table with more entries than its array is given up.                   *)
ParsePat ==
  /\ cb.pc = "parse" /\ cb.want.table = "pat" /\ tablesLive
  /\ \/ /\ serviceInfoCount = NServices
        /\ cb' = [cb EXCEPT !.pc = "signal"]
        /\ UNCHANGED <<serviceInfoCount, patFilled>>
     \/ /\ serviceInfoCount < NServices /\ serviceInfoCount > MaxPat - 1
        /\ cb' = ParseError
        /\ UNCHANGED <<serviceInfoCount, patFilled>>
     \/ /\ serviceInfoCount < NServices /\ serviceInfoCount <= MaxPat - 1
        /\ serviceInfoCount' = serviceInfoCount + 1
        /\ patFilled' = IF patFilled > serviceInfoCount
                        THEN patFilled ELSE serviceInfoCount + 1
        /\ UNCHANGED cb
  /\ UNCHANGED <<control, pmtTable, tdtTable, tablesLive, shown, handles,
                 locals, pc, joiner, fault, device>>

ParsePmt ==
  /\ cb.pc = "parse" /\ cb.want.table = "pmt" /\ tablesLive
  /\ LET n == Len(Pmt[cb.want.prog]) IN
     \/ /\ pmtTable.count = n
        /\ cb' = [cb EXCEPT !.pc = "signal"] /\ UNCHANGED pmtTable
     \/ /\ pmtTable.count < n /\ pmtTable.count > MaxElem - 1
        /\ cb' = ParseError /\ UNCHANGED pmtTable
     \/ /\ pmtTable.count < n /\ pmtTable.count <= MaxElem - 1
        /\ pmtTable' = [pmtTable EXCEPT !.count = @ + 1] /\ UNCHANGED cb
  /\ UNCHANGED <<control, serviceInfoCount, patFilled, tdtTable, tablesLive,
                 shown, handles, locals, pc, joiner, fault, device>>

ParseTime ==
  /\ cb.pc = "parse" /\ cb.want.table \in {"tdt", "tot"} /\ tablesLive
  /\ tdtTable' = IF cb.want.table = "tdt" THEN "date" ELSE tdtTable
  /\ cb' = [cb EXCEPT !.pc = "signal"]
  /\ UNCHANGED <<control, serviceInfoCount, patFilled, pmtTable, tablesLive,
                 shown, handles, locals, pc, joiner, fault, device>>

(* pthread_cond_signal wakes one waiting thread, or is lost.               *)
Signal ==
  /\ cb.pc = "signal"
  /\ cb' = [pc |-> "idle", want |-> NoWant]
  /\ \/ \E t \in Starters : pc[t] = "waiting" /\ Goto(t, "woken")
     \/ (\A t \in Starters : pc[t] # "waiting") /\ UNCHANGED pc
  /\ UNCHANGED <<control, tables, shown, handles, locals, joiner, fault,
                 device>>

-----------------------------------------------------------------------------
(* An access to a table that streamControllerDeinit has freed is undefined:*)
(* the model stops there and remembers the thread.                         *)
TouchesTables(t) ==
  \/ t \in Starters /\ pc[t] \in {"scan", "date"}
  \/ t \in Starters /\ pc[t] = "set" /\ stage[t] = "pmt"
  \/ t \in Dialers /\ pc[t] = "idle" /\ DialNumbers # {}
  \/ t = "rc" /\ pc[t] = "idle" /\ KeyOps \cap {"up", "down"} # {}

CallbackTouchesTables ==
  \/ cb.pc = "parse"
  \/ cb.pc = "idle" /\ registered
       /\ \E h \in FilterHandles : filters[h] \in Broadcast

Fault ==
  /\ ~tablesLive
  /\ \/ \E t \in Threads : TouchesTables(t) /\ fault' = t
     \/ CallbackTouchesTables /\ fault' = "cb"
  /\ UNCHANGED <<control, tables, shown, handles, device, locals, pc, cb,
                 joiner>>

StartChannel(t) ==
  \/ FreeFilter(t) \/ SetFilter(t) \/ Wait(t) \/ Resume(t)
  \/ ScanPmt(t) \/ RemoveStream(t) \/ ZeroHandle(t) \/ CreateStream(t)
  \/ StoreNum(t) \/ StoreAudio(t) \/ StoreVideo(t)
  \/ CheckTime(t) \/ PublishDate(t) \/ Return(t)

streamControllerDeinit(t) ==
  \/ DeinitEnter(t) \/ JoinTask(t) \/ Joined(t) \/ ReleaseDevice(t)
  \/ FreeTables(t) \/ DeinitDone(t)

streamControllerTask ==
  RegisterSectionCallback \/ PollFlag \/ ClearFlag \/ CallStart

sectionReceivedCallback ==
  \/ \E h \in FilterHandles : SectionArrives(h)
  \/ ParsePat \/ ParsePmt \/ ParseTime \/ Signal

Keys == channelUp \/ channelDown \/ RaiseFlag \/ getChannelInfo

Running == fault = "none" /\ pc["main"] # "exited"

(* The process is over, or its behaviour undefined.                        *)
Stopped == ~Running /\ UNCHANGED vars

Next ==
  \/ /\ Running
     /\ \/ \E t \in Starters : StartChannel(t) \/ WakeSpuriously(t)
        \/ streamControllerTask
        \/ \E t \in Dialers, n \in DialNumbers : changeChannelKey(t, n)
        \/ Keys
        \/ Exit
        \/ \E t \in Starters \cup {"main"} : streamControllerDeinit(t)
        \/ sectionReceivedCallback
        \/ Fault
  \/ Stopped

Spec == Init /\ [][Next]_vars

(* The scheduler runs every thread that can run, and a table whose filter  *)
(* is set is broadcast again; the user owes nothing, but the handler of a  *)
(* key that was pressed runs to its end.                                   *)
Fairness ==
  /\ WF_vars(Running /\ pc["rc"] # "idle" /\ Keys)
  /\ WF_vars(Running /\ (StartChannel("sc") \/ streamControllerTask))
  /\ WF_vars(Running /\ sectionReceivedCallback)
  /\ WF_vars(Running /\ streamControllerDeinit("main"))

FairSpec == Spec /\ Fairness

-----------------------------------------------------------------------------
(* Properties.                                                             *)

Dates == {"zero", "torn", "date"}
Labels == {"free", "set", "register", "wait", "waiting", "woken", "scan",
           "remove", "zero", "create", "storeNum", "storeAudio", "storeVideo",
           "time", "date", "return", "call", "loop", "clear", "done", "idle",
           "flag", "infoAudio", "infoVideo", "infoShow", "stopped", "running",
           "exited", "dEnter", "dJoin", "dJoining", "dFilter", "dAudio",
           "dVideo", "dClose", "dTables", "dFlag"}
Stages == {"pat", "pmt", "tdt", "tot", "video", "audio"}
MaybePids == Pids \cup {0, NoPid}
Channels == [num : Int, audio : MaybePids, video : MaybePids]

ControlOK ==
  /\ programNumber \in Int
  /\ changeChannel \in BOOLEAN /\ threadExit \in BOOLEAN
  /\ isInitialized \in BOOLEAN /\ timeTablesRecieved \in BOOLEAN

PmtOK == IF pmtTable.prog = 0 THEN pmtTable.count = 0
         ELSE pmtTable.count <= Len(Pmt[pmtTable.prog])

TablesOK ==
  /\ serviceInfoCount \in 0 .. NServices /\ patFilled \in 0 .. NServices
  /\ pmtTable \in [prog : Programs \cup {0}, count : Nat]
  /\ PmtOK
  /\ tdtTable \in Dates /\ tablesLive \in BOOLEAN

ShownOK ==
  /\ currentChannel \in Channels /\ channelInfo \in Channels
  /\ currentDate \in Dates

HandlesOK ==
  /\ filterHandle \in FilterHandles \cup {NoHandle}
  /\ streamHandle \in [Kinds -> StreamHandles \cup {NoHandle}]

DeviceOK ==
  /\ registered \in BOOLEAN /\ playerOpen \in BOOLEAN
  /\ filters \in [FilterHandles -> Wants]
  /\ streams \in [StreamHandles -> Pids \cup {NoPid}]

LocalsOK ==
  /\ stage \in [Starters -> Stages]
  /\ chan \in [Starters -> Int]
  /\ idx \in [Starters -> Nat]
  /\ pid \in [Starters -> [Kinds -> Pids \cup {NoPid}]]

ThreadsOK ==
  /\ pc \in [Threads -> Labels]
  /\ cb \in [pc : {"idle", "parse", "signal"}, want : Wants]
  /\ joiner \in Threads \cup {"none"}
  /\ fault \in Threads \cup {"none", "cb"}

(* Every variable keeps its type; the parser never counts more entries     *)
(* than the table it received has.                                         *)
TypeOK ==
  /\ ControlOK /\ TablesOK /\ ShownOK /\ HandlesOK
  /\ DeviceOK /\ LocalsOK /\ ThreadsOK

StreamPids(p, k) ==
  {Pmt[p][i].pid : i \in {j \in 1 .. Len(Pmt[p]) : Pmt[p][j].type = k}}

(* The program c.num exists and the pids of c are among those its own PMT  *)
(* announces, or -1.                                                       *)
OfOneProgram(c) ==
  c.num # 0 =>
    /\ c.num \in Programs
    /\ c.audio \in StreamPids(c.num, "audio") \cup {NoPid}
    /\ c.video \in StreamPids(c.num, "video") \cup {NoPid}

Storing(t) == pc[t] \in {"storeAudio", "storeVideo"}

(* startChannel: the pids stored for the current channel, and given to the *)
(* player, come from the PMT of that channel and never from the PMT of the *)
(* channel before it.                                                      *)
PidsOfCurrentChannel ==
  (\A t \in Starters : ~Storing(t)) => OfOneProgram(currentChannel)

(* streamControllerTask waits in its loop and no thread is in startChannel.*)
Quiet == pc["sc"] = "loop" /\ \A t \in Dialers : pc[t] = "idle"

(* channelUp and channelDown against streamControllerTask: when the flag   *)
(* is down and the task is back in its loop, the channel of the last key   *)
(* is the one that was started; no key press is lost.                      *)
NoLostRequest ==
  Quiet /\ ~changeChannel /\ pc["rc"] # "flag"
    => currentChannel.num = programNumber + 1

PlayedBy(k) == {streams[h] : h \in {streamHandle[k]} \ {NoHandle}} \ {NoPid}

(* Between channel changes the player shows the video stream of the        *)
(* current channel, and none if it has no video, and plays its audio       *)
(* stream, if it has one.                                                  *)
StreamsFollowChannel ==
  Quiet =>
    /\ PlayedBy("video") = {currentChannel.video} \ {NoPid}
    /\ currentChannel.audio \in PlayedBy("audio") \cup {NoPid}

(* No stream runs in the player and no filter in the demultiplexer that    *)
(* stream_controller.c has lost the handle of and can no longer release.   *)
NoLeak ==
  /\ \A h \in StreamHandles : streams[h] # NoPid =>
       h \in {streamHandle["video"], streamHandle["audio"]}
  /\ \A h \in FilterHandles : filters[h] # NoWant => h = filterHandle

(* Every filter for a PMT is set on the pid of a program the PAT lists.    *)
FilterOnListedProgram ==
  \A h \in FilterHandles : filters[h] # Want("pmt", 0)

(* startChannel runs only once a whole PAT has been parsed: a PAT that is  *)
(* half written, or that does not fit its array, starts no channel.        *)
PmtAfterWholePat ==
  \A h \in FilterHandles : filters[h].table = "pmt" => patFilled = NServices

(* The stream startChannel picks of kind k: the first one in the PMT.      *)
FirstPids(p, k) ==
  {Pmt[p][i].pid : i \in {j \in 1 .. Len(Pmt[p]) :
     Pmt[p][j].type = k /\ \A m \in 1 .. j - 1 : Pmt[p][m].type # k}}

(* Between channel changes the current channel has every stream that its   *)
(* PMT announces: startChannel misses none.                                *)
StartsAllStreams ==
  Quiet /\ currentChannel.num \in Programs =>
    /\ {currentChannel.video} \ {NoPid} = FirstPids(currentChannel.num, "video")
    /\ {currentChannel.audio} \ {NoPid} = FirstPids(currentChannel.num, "audio")

(* timeTablesRecieved stops parseTimeTables for good: by then the date is  *)
(* that of a complete TDT, not of an empty or half written table.          *)
DateFromTdt == timeTablesRecieved => currentDate = "date"

(* streamControllerDeinit, run to its end by main, leaves no filter, no    *)
(* stream, no open player and no allocated table.                          *)
ExitReleasesAll ==
  pc["main"] = "exited" /\ joiner = "main" =>
    /\ \A h \in FilterHandles : filters[h] = NoWant
    /\ \A h \in StreamHandles : streams[h] = NoPid
    /\ ~playerOpen /\ ~tablesLive /\ ~isInitialized

(* No thread touches a table that streamControllerDeinit has freed.        *)
NoFault == fault = "none"

(* streamControllerTask itself never does, whichever thread runs           *)
(* streamControllerDeinit and whenever.                                    *)
TaskNeverFaults == fault # "sc"

InRange == programNumber + 1 \in Programs

(* If the user settles on a channel and leaves the application running,    *)
(* the receiver ends on that channel.                                      *)
SettlesOnRequest ==
  []InRange => \A n \in Programs :
    <>[](programNumber + 1 = n /\ pc["main"] = "running")
      => <>[](currentChannel.num = n)

(* Once main runs streamControllerDeinit, the process ends.                *)
ExitCompletes ==
  []InRange => (pc["main"] = "dEnter" ~> pc["main"] = "exited")
=============================================================================
