------------------------- MODULE StreamSafetyProofs -------------------------
(* More proofs about StreamController, for every value of its constants    *)
(* with which startChannel is run by streamControllerTask alone (Alone).   *)
(* Whatever calls of libtdp fail: nothing is leaked and nothing is used    *)
(* after it was freed; if waits end only by a signal, no channel starts    *)
(* before the PAT is whole; with a libtdp whose calls succeed no request   *)
(* is lost and the player follows the channel.                             *)
EXTENDS StreamControllerProofs

-----------------------------------------------------------------------------
(* The steps of a receiver in which no dialler runs, by thread.            *)

TaskStep ==
  \/ StartChannel("sc") \/ streamControllerTask
  \/ DeinitEnter("sc") \/ JoinTask("sc")
UserStep == Keys \/ Exit
MainStep == streamControllerDeinit("main")

(* What the threads other than the task and the callback leave alone.      *)
Untouched ==
  /\ pc'["sc"] = pc["sc"]
  /\ UNCHANGED <<timeTablesRecieved, serviceInfoCount, patFilled, pmtTable,
                 tdtTable, currentChannel, currentDate, handles, locals, cb,
                 registered>>

(* The labels of the task against what it works on, whatever wakes it.     *)
LabelInv ==
  /\ pc["sc"] = "register" => stage["sc"] = "pat"
  /\ pc["sc"] = "scan" => stage["sc"] = "pmt"
  /\ pc["sc"] = "date" => stage["sc"] = "tot"
  /\ pc["sc"] = "storeVideo" => currentChannel.audio = pid["sc"]["audio"]

TaskInv == FilterInv /\ DeinitInv /\ LabelInv

(* Without diallers every step is one of these, and the task never gets    *)
(* past pthread_join.                                                      *)
LEMMA AloneSteps ==
  ASSUME Alone, DeinitInv, [Next]_vars
  PROVE  \/ Running /\ TaskStep
         \/ Running /\ WakeSpuriously("sc")
         \/ Running /\ sectionReceivedCallback
         \/ Running /\ UserStep
         \/ Running /\ MainStep
         \/ Running /\ Fault
         \/ UNCHANGED vars
<1>1. Starters = {"sc"} /\ Dialers = {}
  BY DEF Alone, Starters
<1>2. ~(\/ Joined("sc") \/ ReleaseDevice("sc") \/ FreeTables("sc")
         \/ DeinitDone("sc"))
  BY DEF DeinitInv, Joined, ReleaseDevice, FreeTables, DeinitDone
<1>3. streamControllerDeinit("sc") => DeinitEnter("sc") \/ JoinTask("sc")
  BY <1>2 DEF streamControllerDeinit
<1> QED
  BY <1>1, <1>3 DEF Next, Stopped, TaskStep, UserStep, MainStep

(* If only a signal wakes the task there is one kind of step less.         *)
LEMMA SignalledSteps ==
  ASSUME Signalled, DeinitInv, [Next]_vars
  PROVE  \/ Running /\ TaskStep
         \/ Running /\ sectionReceivedCallback
         \/ Running /\ UserStep
         \/ Running /\ MainStep
         \/ Running /\ Fault
         \/ UNCHANGED vars
<1>1. ~WakeSpuriously("sc")
  BY DEF Signalled, WakeSpuriously
<1> QED
  BY <1>1, AloneSteps DEF Signalled

(* The frame of the remote controller and of main.                         *)
LEMMA Frame ==
  ASSUME TypeInv
  PROVE  /\ UserStep => Untouched /\ UNCHANGED <<tablesLive, device, joiner,
                                                fault, threadExit,
                                                isInitialized>>
         /\ MainStep => Untouched /\ UNCHANGED <<programNumber, changeChannel,
                                                channelInfo, fault>>
                        /\ pc'["rc"] = pc["rc"]
         /\ Fault => Untouched /\ UNCHANGED <<pc, control, tablesLive, device,
                                             joiner>>
<1> USE ConstantFacts DEF TypeInv, TypeOK, ThreadsOK, Untouched, Goto, Enter,
        control, tables, shown, handles, device, locals
<1>1. ASSUME UserStep
      PROVE  Untouched /\ UNCHANGED <<tablesLive, device, joiner, fault,
                                      threadExit, isInitialized>>
  <2>1. CASE Exit
    BY <2>1 DEF Exit
  <2>2. CASE channelUp \/ channelDown \/ RaiseFlag
    BY <2>2 DEF channelUp, channelDown, RaiseFlag
  <2>3. CASE getChannelInfo
    BY <2>3 DEF getChannelInfo
  <2> QED
    BY <1>1, <2>1, <2>2, <2>3 DEF UserStep, Keys
<1>2. ASSUME MainStep
      PROVE  /\ Untouched /\ UNCHANGED <<programNumber, changeChannel,
                                         channelInfo, fault>>
             /\ pc'["rc"] = pc["rc"]
  <2>1. CASE DeinitEnter("main") \/ JoinTask("main") \/ DeinitDone("main")
    BY <2>1 DEF DeinitEnter, JoinTask, DeinitDone, DeinitReturn
  <2>2. CASE Joined("main") \/ FreeTables("main")
    BY <2>2 DEF Joined, FreeTables
  <2>3. CASE ReleaseDevice("main")
    BY <2>3 DEF ReleaseDevice
  <2> QED
    BY <1>2, <2>1, <2>2, <2>3 DEF MainStep, streamControllerDeinit
<1>3. Fault => Untouched /\ UNCHANGED <<pc, control, tablesLive, device,
                                        joiner>>
  BY DEF Fault
<1> QED
  BY <1>1, <1>2, <1>3

(* The filters that are set after a step were set before it.               *)
FewerFilters ==
  \A h \in FilterHandles : filters'[h] # NoWant => filters'[h] = filters[h]

(* What main does to the filters.                                          *)
LEMMA MainFilters ==
  ASSUME TypeInv, MainStep
  PROVE  FewerFilters
<1> USE DEF FewerFilters, device, TypeInv, TypeOK, DeviceOK
<1>1. CASE DeinitEnter("main") \/ JoinTask("main") \/ DeinitDone("main")
  BY <1>1 DEF DeinitEnter, JoinTask, DeinitDone
<1>2. CASE Joined("main") \/ FreeTables("main")
  BY <1>2 DEF Joined, FreeTables
<1>3. CASE ReleaseDevice("main")
  BY <1>3 DEF ReleaseDevice, Freed
<1> QED
  BY <1>1, <1>2, <1>3 DEF MainStep, streamControllerDeinit

(* Every step keeps TaskInv.                                               *)
LEMMA TaskInvStep ==
  ASSUME Alone, TypeInv, TaskInv, [Next]_vars
  PROVE  TaskInv'
<1> USE ConstantFacts DEF Goto, Enter, TypeInv, TypeOK, ThreadsOK, LocalsOK,
        DeviceOK, TaskInv, FilterInv, DeinitInv, LabelInv, tables, shown,
        handles, locals, device
<1>1. CASE FreeFilter("sc")
  BY <1>1 DEF FreeFilter, Freed
<1>2. CASE SetFilter("sc")
  BY <1>2 DEF SetFilter
<1>3. CASE \/ Wait("sc") \/ WakeSpuriously("sc") \/ Resume("sc")
           \/ RegisterSectionCallback
  BY <1>3 DEF Wait, WakeSpuriously, Resume, RegisterSectionCallback
<1>4. CASE ScanPmt("sc") \/ RemoveStream("sc") \/ ZeroHandle("sc")
  BY <1>4 DEF ScanPmt, RemoveStream, ZeroHandle, AfterStream
<1>5. CASE CreateStream("sc") \/ StoreNum("sc") \/ StoreVideo("sc")
  BY <1>5 DEF CreateStream, StoreNum, StoreVideo, AfterStream
<1>6. CASE StoreAudio("sc")
  <2>1. currentChannel'.audio = pid["sc"]["audio"]
    BY <1>6 DEF StoreAudio, ShownOK, Channels
  <2> QED
    BY <1>6, <2>1 DEF StoreAudio
<1>7. CASE CheckTime("sc") \/ PublishDate("sc") \/ Return("sc")
  BY <1>7 DEF CheckTime, PublishDate, Return
<1>8. CASE PollFlag \/ ClearFlag \/ CallStart
  BY <1>8 DEF PollFlag, ClearFlag, CallStart
<1>9. CASE DeinitEnter("sc") \/ JoinTask("sc")
  BY <1>9 DEF DeinitEnter, JoinTask, DeinitReturn, AfterStream
<1>10. CASE \/ \E h \in FilterHandles : SectionArrives(h)
            \/ ParsePat \/ ParsePmt \/ ParseTime
  BY <1>10 DEF SectionArrives, ParsePat, ParsePmt, ParseTime
<1>11. CASE Signal
  BY <1>11 DEF Signal, Alone, Starters
<1>12. CASE UserStep \/ MainStep \/ Fault
  <2>1. Untouched /\ FewerFilters
    BY <1>12, Frame, MainFilters DEF FewerFilters
  <2> QED
    BY <2>1 DEF Untouched, FewerFilters
<1>13. CASE UNCHANGED vars
  BY <1>13 DEF vars
<1> QED
  BY <1>1, <1>2, <1>3, <1>4, <1>5, <1>6, <1>7, <1>8, <1>9, <1>10, <1>11,
     <1>12, <1>13, AloneSteps
  DEF TaskStep, StartChannel, streamControllerTask, sectionReceivedCallback

LEMMA TaskInvHolds == ASSUME Alone PROVE Spec => [](TypeInv /\ TaskInv)
<1>1. Init => TaskInv
  <2> SUFFICES ASSUME Init PROVE TaskInv
    OBVIOUS
  <2>1. pc["sc"] = "set"
    BY ConstantFacts DEF Init
  <2> QED
    BY <2>1 DEF Init, TaskInv, FilterInv, DeinitInv, LabelInv
<1>2. TypeInv /\ TaskInv /\ [Next]_vars => (TypeInv /\ TaskInv)'
  BY TypeStep, TaskInvStep
<1> QED
  BY <1>1, <1>2, TypeInit, PTL DEF Spec

-----------------------------------------------------------------------------
(* Tables are used only when they are whole.                               *)

(* The PAT counts as received only when every entry of it was written, and *)
(* startChannel is called only then.                                       *)
PatInv ==
  /\ serviceInfoCount <= patFilled
  /\ stage["sc"] = "pat" =>
       /\ \A h \in FilterHandles :
            filters[h] # NoWant => filters[h].table = "pat"
       /\ cb.pc # "idle" => cb.want.table = "pat"
  /\ stage["sc"] = "pat" =>
       pc["sc"] \in {"set", "register", "wait", "waiting", "woken", "call"}
  /\ stage["sc"] # "pat" \/ pc["sc"] \in {"woken", "call"} =>
       patFilled = NServices
  /\ cb.pc = "signal" /\ cb.want.table = "pat" => serviceInfoCount = NServices
  /\ PmtAfterWholePat

(* Every step keeps PatInv.                                                *)
LEMMA PatStep ==
  ASSUME Signalled, TypeInv, TaskInv, PatInv, [Next]_vars
  PROVE  PatInv'
<1> USE ConstantFacts DEF Goto, Enter, TypeInv, TypeOK, ThreadsOK, LocalsOK,
        tables, shown, handles, locals, device
<1>1. CASE FreeFilter("sc")
  BY <1>1 DEF FreeFilter, Freed, PatInv, PmtAfterWholePat, NoWant, Want
<1>2. CASE SetFilter("sc")
  <2>1. UNCHANGED <<cb, stage, serviceInfoCount, patFilled>>
    BY <1>2 DEF SetFilter
  <2>2. Requested("sc").table = stage["sc"] /\ NoWant.table # "pmt"
    BY DEF Requested, Want, NoWant
  <2>3. \A h \in FilterHandles : filters'[h] \in {NoWant, Requested("sc")}
    BY <1>2 DEF SetFilter, TaskInv, FilterInv, DeviceOK
  <2>4. PmtAfterWholePat'
    BY <2>1, <2>2, <2>3 DEF PatInv, PmtAfterWholePat
  <2> QED
    BY <1>2, <2>1, <2>2, <2>3, <2>4 DEF SetFilter, PatInv
<1>3. CASE \/ Wait("sc") \/ Resume("sc") \/ RegisterSectionCallback
  BY <1>3 DEF Wait, Resume, RegisterSectionCallback, PatInv, PmtAfterWholePat
<1>4. CASE ScanPmt("sc") \/ RemoveStream("sc") \/ ZeroHandle("sc")
  BY <1>4 DEF ScanPmt, RemoveStream, ZeroHandle, AfterStream, PatInv,
              PmtAfterWholePat
<1>5. CASE \/ CreateStream("sc") \/ StoreNum("sc") \/ StoreAudio("sc")
           \/ StoreVideo("sc")
  BY <1>5 DEF CreateStream, StoreNum, StoreAudio, StoreVideo, AfterStream,
              PatInv, PmtAfterWholePat
<1>6. CASE CheckTime("sc") \/ PublishDate("sc") \/ Return("sc")
  BY <1>6 DEF CheckTime, PublishDate, Return, DropLocals, PatInv,
              PmtAfterWholePat
<1>7. CASE PollFlag \/ ClearFlag \/ CallStart
  BY <1>7 DEF PollFlag, ClearFlag, CallStart, PatInv, PmtAfterWholePat
<1>8. CASE DeinitEnter("sc") \/ JoinTask("sc")
  BY <1>8 DEF DeinitEnter, JoinTask, DeinitReturn, AfterStream, PatInv,
              PmtAfterWholePat
<1>9. CASE \E h \in FilterHandles : SectionArrives(h)
  BY <1>9, WantFacts DEF SectionArrives, TablesOK, PatInv, PmtAfterWholePat
<1>10. CASE ParsePat
  BY <1>10 DEF ParsePat, ParseError, TablesOK, PatInv, PmtAfterWholePat
<1>11. CASE ParsePmt \/ ParseTime
  <2>1. cb'.pc # "idle" =>
          cb.pc # "idle" /\ cb'.want = cb.want /\ cb.want.table # "pat"
    BY <1>11 DEF ParsePmt, ParseTime, ParseError
  <2>2. UNCHANGED <<pc, stage, filters, serviceInfoCount, patFilled>>
    BY <1>11 DEF ParsePmt, ParseTime
  <2> QED
    BY <2>1, <2>2 DEF PatInv, PmtAfterWholePat
<1>12. CASE Signal
  <2>1. pc["sc"] = "waiting" /\ stage["sc"] = "pat" => patFilled = NServices
    BY <1>12 DEF Signal, PatInv, TablesOK
  <2> QED
    BY <1>12, <2>1
    DEF Signal, PatInv, PmtAfterWholePat, Signalled, Alone, Starters
<1>13. CASE UserStep \/ MainStep \/ Fault
  <2>1. Untouched /\ FewerFilters
    BY <1>13, Frame, MainFilters DEF FewerFilters
  <2>2. NoWant.table # "pmt" /\ PmtAfterWholePat
    BY DEF NoWant, Want, PatInv
  <2>3. PmtAfterWholePat'
    BY <2>1, <2>2 DEF Untouched, FewerFilters, PmtAfterWholePat
  <2> QED
    BY <2>1, <2>3 DEF Untouched, FewerFilters, PatInv
<1>14. CASE UNCHANGED vars
  BY <1>14 DEF vars, PatInv, PmtAfterWholePat
<1> QED
  BY <1>1, <1>2, <1>3, <1>4, <1>5, <1>6, <1>7, <1>8, <1>9, <1>10, <1>11,
     <1>12, <1>13, <1>14, SignalledSteps
  DEF TaskStep, StartChannel, streamControllerTask, sectionReceivedCallback,
      TaskInv

LEMMA PatInvHolds ==
  ASSUME Signalled PROVE Spec => [](TypeInv /\ TaskInv /\ PatInv)
<1>1. Init => PatInv
  <2> SUFFICES ASSUME Init PROVE PatInv
    OBVIOUS
  <2>1. pc["sc"] = "set" /\ stage["sc"] = "pat" /\ cb.pc = "idle"
    BY ConstantFacts DEF Init
  <2> QED
    BY <2>1 DEF Init, PatInv, PmtAfterWholePat, NoWant, Want
<1>2. TypeInv /\ TaskInv /\ PatInv /\ [Next]_vars => PatInv'
  BY PatStep
<1>3. Alone
  BY DEF Signalled
<1> QED
  BY <1>1, <1>2, <1>3, TaskInvHolds, PTL DEF Spec

(* startChannel sets a PMT filter only when every entry of the PAT has     *)
(* been written: neither a PAT still being parsed nor one too long for its *)
(* array starts a channel, whatever calls of libtdp fail and even if a     *)
(* callback outlives its filter.                                           *)
THEOREM WholePatFirst == ASSUME Signalled PROVE Spec => []PmtAfterWholePat
<1>1. PatInv => PmtAfterWholePat
  BY DEF PatInv
<1> QED
  BY <1>1, PatInvHolds, PTL

(* While the task waits for a table, and until it has published the date,  *)
(* only sections of that table arrive.                                     *)
ArriveInv ==
  pc["sc"] \in {"register", "wait", "waiting", "woken", "date"} =>
    /\ \A h \in FilterHandles :
         filters[h] # NoWant => filters[h].table = stage["sc"]
    /\ cb.pc # "idle" => cb.want.table = stage["sc"]

(* Every step keeps ArriveInv.                                             *)
LEMMA ArriveStep ==
  ASSUME Solo, TypeInv, SoloInv, ArriveInv, [Next]_vars
  PROVE  ArriveInv'
<1> USE ConstantFacts DEF Goto, Enter, TypeInv, TypeOK, ThreadsOK, LocalsOK,
        tables, shown, handles, locals, device
<1>1. CASE FreeFilter("sc")
  BY <1>1 DEF FreeFilter, ArriveInv
<1>2. CASE SetFilter("sc")
  <2>1. cb.pc = "idle" /\ cb' = cb /\ stage' = stage
    BY <1>2 DEF SetFilter, Drained, Solo
  <2>2. Requested("sc").table = stage["sc"]
    BY DEF Requested, Want
  <2>3. \A h \in FilterHandles : filters'[h] \in {NoWant, Requested("sc")}
    BY <1>2 DEF SetFilter, SoloInv, FilterInv, DeviceOK
  <2> QED
    BY <2>1, <2>2, <2>3 DEF ArriveInv
<1>3. CASE \/ Wait("sc") \/ Resume("sc") \/ RegisterSectionCallback
  BY <1>3 DEF Wait, Resume, RegisterSectionCallback, ArriveInv
<1>4. CASE ScanPmt("sc") \/ RemoveStream("sc") \/ ZeroHandle("sc")
  BY <1>4 DEF ScanPmt, RemoveStream, ZeroHandle, AfterStream, ArriveInv
<1>5. CASE \/ CreateStream("sc") \/ StoreNum("sc") \/ StoreAudio("sc")
           \/ StoreVideo("sc")
  BY <1>5 DEF CreateStream, StoreNum, StoreAudio, StoreVideo, AfterStream,
              ArriveInv
<1>6. CASE CheckTime("sc") \/ PublishDate("sc") \/ Return("sc")
  BY <1>6 DEF CheckTime, PublishDate, Return, ArriveInv
<1>7. CASE PollFlag \/ ClearFlag \/ CallStart
  BY <1>7 DEF PollFlag, ClearFlag, CallStart, ArriveInv
<1>8. CASE DeinitEnter("sc") \/ JoinTask("sc")
  BY <1>8 DEF DeinitEnter, JoinTask, DeinitReturn, AfterStream, ArriveInv
<1>9. CASE \E h \in FilterHandles : SectionArrives(h)
  BY <1>9, WantFacts DEF SectionArrives, ArriveInv
<1>10. CASE ParsePat \/ ParsePmt \/ ParseTime
  BY <1>10 DEF ParsePat, ParsePmt, ParseTime, ParseError, ArriveInv
<1>11. CASE Signal
  BY <1>11 DEF Signal, ArriveInv, Solo, Signalled, Alone, Starters
<1>12. CASE UserStep \/ MainStep \/ Fault
  <2>1. Untouched /\ FewerFilters
    BY <1>12, Frame, MainFilters DEF FewerFilters
  <2> QED
    BY <2>1 DEF Untouched, FewerFilters, ArriveInv
<1>13. CASE UNCHANGED vars
  BY <1>13 DEF vars, ArriveInv
<1> QED
  BY <1>1, <1>2, <1>3, <1>4, <1>5, <1>6, <1>7, <1>8, <1>9, <1>10, <1>11,
     <1>12, <1>13, SignalledSteps
  DEF TaskStep, StartChannel, streamControllerTask, sectionReceivedCallback,
      SoloInv, Solo

(* tdtTable is half written only while the callback parses a TDT, and when *)
(* the task is at the TOT a TDT has been parsed.                           *)
DateInv ==
  /\ tdtTable = "torn" => cb.pc = "parse" /\ cb.want.table = "tdt"
  /\ cb.pc = "signal" /\ cb.want.table = "tdt" => tdtTable # "zero"
  /\ stage["sc"] = "tdt" /\ pc["sc"] = "woken" => tdtTable # "zero"
  /\ stage["sc"] = "tot" => tdtTable # "zero"
  /\ pc["sc"] = "date" => stage["sc"] = "tot"
  /\ DateFromTdt

(* Every step keeps DateInv.                                               *)
LEMMA DateStep ==
  ASSUME Solo, TypeInv, SoloInv, ArriveInv, DateInv, [Next]_vars
  PROVE  DateInv'
<1> USE ConstantFacts DEF Goto, Enter, TypeInv, TypeOK, ThreadsOK, LocalsOK,
        control, tables, shown, handles, locals, device, DateFromTdt
<1>1. CASE FreeFilter("sc") \/ SetFilter("sc") \/ Wait("sc")
  BY <1>1 DEF FreeFilter, SetFilter, Wait, DateInv
<1>2. CASE Resume("sc")
  BY <1>2 DEF Resume, DateInv
<1>3. CASE RegisterSectionCallback
  BY <1>3 DEF RegisterSectionCallback, SoloInv, ScanInv, DateInv
<1>4. CASE ScanPmt("sc") \/ RemoveStream("sc") \/ ZeroHandle("sc")
  BY <1>4 DEF ScanPmt, RemoveStream, ZeroHandle, AfterStream, DateInv
<1>5. CASE \/ CreateStream("sc") \/ StoreNum("sc") \/ StoreAudio("sc")
           \/ StoreVideo("sc")
  BY <1>5 DEF CreateStream, StoreNum, StoreAudio, StoreVideo, AfterStream,
              DateInv
<1>6. CASE CheckTime("sc") \/ Return("sc")
  BY <1>6 DEF CheckTime, Return, DropLocals, DateInv
<1>7. CASE PublishDate("sc")
  <2>1. tdtTable # "torn" /\ tdtTable # "zero"
    BY <1>7 DEF PublishDate, DateInv, ArriveInv
  <2>2. tdtTable = "date"
    BY <2>1 DEF TablesOK, Dates
  <2> QED
    BY <1>7, <2>2 DEF PublishDate, DateInv
<1>8. CASE PollFlag \/ ClearFlag \/ CallStart
  BY <1>8 DEF PollFlag, ClearFlag, CallStart, DateInv
<1>9. CASE DeinitEnter("sc") \/ JoinTask("sc")
  BY <1>9 DEF DeinitEnter, JoinTask, DeinitReturn, AfterStream, DateInv
<1>10. CASE \E h \in FilterHandles : SectionArrives(h)
  BY <1>10 DEF SectionArrives, DateInv
<1>11. CASE ParsePat \/ ParsePmt
  <2>1. cb.want.table # "tdt" /\ (cb'.pc = "signal" => cb'.want = cb.want)
    BY <1>11 DEF ParsePat, ParsePmt, ParseError
  <2>2. UNCHANGED <<pc, stage, tdtTable, timeTablesRecieved, currentDate>>
    BY <1>11 DEF ParsePat, ParsePmt
  <2> QED
    BY <2>1, <2>2 DEF DateInv
<1>12. CASE ParseTime
  BY <1>12 DEF ParseTime, DateInv
<1>13. CASE Signal
  BY <1>13 DEF Signal, ArriveInv, DateInv, Solo, Signalled, Alone, Starters
<1>14. CASE UserStep \/ MainStep \/ Fault
  BY <1>14, Frame DEF Untouched, DateInv
<1>15. CASE UNCHANGED vars
  BY <1>15 DEF vars, DateInv
<1> QED
  BY <1>1, <1>2, <1>3, <1>4, <1>5, <1>6, <1>7, <1>8, <1>9, <1>10, <1>11,
     <1>12, <1>13, <1>14, <1>15, SignalledSteps
  DEF TaskStep, StartChannel, streamControllerTask, sectionReceivedCallback,
      SoloInv, Solo

TableInv == ArriveInv /\ DateInv

LEMMA TableInvHolds ==
  ASSUME Solo
  PROVE  Spec => [](TypeInv /\ SoloInv /\ TableInv)
<1>1. Init => TableInv
  <2> SUFFICES ASSUME Init PROVE TableInv
    OBVIOUS
  <2>1. pc["sc"] = "set" /\ stage["sc"] = "pat" /\ cb.pc = "idle"
    BY ConstantFacts DEF Init
  <2> QED
    BY <2>1 DEF Init, TableInv, ArriveInv, DateInv, DateFromTdt
<1>2. TypeInv /\ SoloInv /\ TableInv /\ [Next]_vars
        => (TypeInv /\ SoloInv /\ TableInv)'
  BY TypeStep, SoloStep, ArriveStep, DateStep DEF TableInv
<1> QED
  BY <1>1, <1>2, TypeInit, SoloInit, PTL DEF Spec

(* The date that ends parseTimeTables for good is that of a complete TDT,  *)
(* although the callback may be writing the table at any time: by then     *)
(* the TDT filter has been freed and its callback has returned.            *)
THEOREM DateIsComplete == ASSUME Solo PROVE Spec => []DateFromTdt
<1>1. TableInv => DateFromTdt
  BY DEF TableInv, DateInv
<1> QED
  BY <1>1, TableInvHolds, PTL

-----------------------------------------------------------------------------
(* Nothing is leaked.                                                      *)

(* A handle is zeroed only when its stream is gone, and a stream is        *)
(* created only when its handle is zero.                                   *)
LeakInv ==
  /\ pc["sc"] = "create" => streamHandle[stage["sc"]] = NoHandle
  /\ pc["sc"] = "zero" /\ streamHandle[stage["sc"]] # NoHandle =>
       streams[streamHandle[stage["sc"]]] = NoPid
  /\ NoLeak

(* What main does to the streams.                                          *)
FewerStreams ==
  \A h \in StreamHandles : streams'[h] # NoPid => streams'[h] = streams[h]

LEMMA MainStreams ==
  ASSUME TypeInv, MainStep
  PROVE  FewerStreams
<1> USE DEF FewerStreams, device, TypeInv, TypeOK, DeviceOK
<1>1. CASE DeinitEnter("main") \/ JoinTask("main") \/ DeinitDone("main")
  BY <1>1 DEF DeinitEnter, JoinTask, DeinitDone
<1>2. CASE Joined("main") \/ FreeTables("main")
  BY <1>2 DEF Joined, FreeTables
<1>3. CASE ReleaseDevice("main")
  BY <1>3 DEF ReleaseDevice, Removed
<1> QED
  BY <1>1, <1>2, <1>3 DEF MainStep, streamControllerDeinit

(* The streams' part of NoLeak.                                            *)
StreamsKnown ==
  \A h \in StreamHandles : streams[h] # NoPid =>
    h \in {streamHandle["video"], streamHandle["audio"]}

(* FilterInv is the other part.                                            *)
LEMMA LeakParts == TaskInv /\ StreamsKnown => NoLeak
BY DEF TaskInv, FilterInv, StreamsKnown, NoLeak

(* Every step keeps LeakInv.                                               *)
LEMMA LeakStep ==
  ASSUME Alone, TypeInv, TaskInv, LeakInv, [Next]_vars
  PROVE  LeakInv'
<1>0. TaskInv' /\ StreamsKnown
  BY TaskInvStep DEF LeakInv, NoLeak, StreamsKnown
<1>a. ASSUME StreamsKnown',
             (pc["sc"] = "create" => streamHandle[stage["sc"]] = NoHandle)',
             (pc["sc"] = "zero" /\ streamHandle[stage["sc"]] # NoHandle =>
                streams[streamHandle[stage["sc"]]] = NoPid)'
      PROVE  LeakInv'
  BY <1>0, <1>a, LeakParts DEF LeakInv, TaskInv, FilterInv, StreamsKnown,
                               NoLeak
<1>b. NoHandle \notin StreamHandles
  BY ConstantsOK DEF ConstantsOK
<1> USE ConstantFacts, <1>b DEF Goto, Enter, TypeInv, TypeOK, ThreadsOK,
        LocalsOK, StageInv, HandlesOK, DeviceOK, Kinds, tables, shown,
        handles, locals, device
<1>1. CASE \/ FreeFilter("sc") \/ SetFilter("sc") \/ Wait("sc")
           \/ WakeSpuriously("sc")
  <2>1. UNCHANGED <<streams, streamHandle>> /\ pc'["sc"] \notin {"create", "zero"}
    BY <1>1 DEF FreeFilter, SetFilter, Wait, WakeSpuriously
  <2> QED
    BY <1>0, <1>a, <2>1 DEF StreamsKnown
<1>2. CASE Resume("sc") \/ RegisterSectionCallback \/ ScanPmt("sc")
  <2>1. UNCHANGED <<streams, streamHandle>> /\ pc'["sc"] \notin {"create", "zero"}
    BY <1>2 DEF Resume, RegisterSectionCallback, ScanPmt
  <2> QED
    BY <1>0, <1>a, <2>1 DEF StreamsKnown
<1>3. CASE RemoveStream("sc")
  <2>1. stage["sc"] \in Kinds /\ UNCHANGED streamHandle
    BY <1>3 DEF RemoveStream
  <2>2. FewerStreams
    BY <1>3 DEF RemoveStream, Removed, FewerStreams
  <2>3. StreamsKnown'
    BY <1>0, <2>1, <2>2 DEF StreamsKnown, FewerStreams
  <2>4. pc'["sc"] = "zero" =>
          /\ stage' = stage
          /\ streamHandle[stage["sc"]] # NoHandle =>
               streams'[streamHandle[stage["sc"]]] = NoPid
    BY <1>3, <2>1 DEF RemoveStream, Removed, AfterStream
  <2>5. pc'["sc"] = "create" =>
          stage' = stage /\ streamHandle[stage["sc"]] = NoHandle
    BY <1>3, <2>1 DEF RemoveStream, AfterStream
  <2> QED
    BY <1>a, <2>1, <2>3, <2>4, <2>5
<1>4. CASE ZeroHandle("sc")
  <2>1. /\ stage["sc"] \in Kinds /\ UNCHANGED streams
        /\ streamHandle' = [streamHandle EXCEPT ![stage["sc"]] = NoHandle]
        /\ pc["sc"] = "zero" /\ pc'["sc"] # "zero"
        /\ pc'["sc"] = "create" => stage' = stage
    BY <1>4 DEF ZeroHandle, AfterStream
  <2>2. \A h \in StreamHandles : streams[h] # NoPid => h # streamHandle[stage["sc"]]
    BY <2>1 DEF LeakInv
  <2>3. StreamsKnown'
    BY <1>0, <2>1, <2>2 DEF StreamsKnown
  <2> QED
    BY <1>a, <2>1, <2>3
<1>5. CASE CreateStream("sc")
  <2>1. /\ stage["sc"] \in Kinds /\ streamHandle[stage["sc"]] = NoHandle
        /\ pc'["sc"] \notin {"zero", "create"}
    BY <1>5 DEF CreateStream, AfterStream, LeakInv
  <2>2. CASE UNCHANGED <<streams, streamHandle>>
    BY <1>0, <1>a, <2>1, <2>2 DEF StreamsKnown
  <2>3. ASSUME NEW h \in StreamHandles,
               streams' = [streams EXCEPT ![h] = pid["sc"][stage["sc"]]],
               streamHandle' = [streamHandle EXCEPT ![stage["sc"]] = h]
        PROVE  LeakInv'
    <3>1. StreamsKnown'
      BY <1>0, <2>1, <2>3 DEF StreamsKnown
    <3> QED
      BY <1>a, <2>1, <3>1
  <2> QED
    BY <1>5, <2>2, <2>3 DEF CreateStream
<1>6. CASE StoreNum("sc") \/ StoreAudio("sc") \/ StoreVideo("sc")
  <2>1. UNCHANGED <<streams, streamHandle>> /\ pc'["sc"] \notin {"create", "zero"}
    BY <1>6 DEF StoreNum, StoreAudio, StoreVideo
  <2> QED
    BY <1>0, <1>a, <2>1 DEF StreamsKnown
<1>7. CASE CheckTime("sc") \/ PublishDate("sc") \/ Return("sc")
  <2>1. UNCHANGED <<streams, streamHandle>> /\ pc'["sc"] \notin {"create", "zero"}
    BY <1>7 DEF CheckTime, PublishDate, Return
  <2> QED
    BY <1>0, <1>a, <2>1 DEF StreamsKnown
<1>8. CASE PollFlag \/ ClearFlag \/ CallStart
  <2>1. UNCHANGED <<streams, streamHandle>> /\ pc'["sc"] \notin {"create", "zero"}
    BY <1>8 DEF PollFlag, ClearFlag, CallStart
  <2> QED
    BY <1>0, <1>a, <2>1 DEF StreamsKnown
<1>9. CASE DeinitEnter("sc") \/ JoinTask("sc")
  <2>1. UNCHANGED <<streams, streamHandle>> /\ pc'["sc"] \notin {"create", "zero"}
    BY <1>9 DEF DeinitEnter, JoinTask, DeinitReturn, AfterStream
  <2> QED
    BY <1>0, <1>a, <2>1 DEF StreamsKnown
<1>10. CASE sectionReceivedCallback
  <2>1. /\ UNCHANGED <<streams, streamHandle, stage>>
        /\ pc'["sc"] \in {"create", "zero"} => pc'["sc"] = pc["sc"]
    <3>1. CASE \/ \E h \in FilterHandles : SectionArrives(h)
               \/ ParsePat \/ ParsePmt \/ ParseTime
      BY <3>1 DEF SectionArrives, ParsePat, ParsePmt, ParseTime
    <3>2. CASE Signal
      BY <3>2 DEF Signal, Alone, Starters
    <3> QED
      BY <1>10, <3>1, <3>2 DEF sectionReceivedCallback
  <2> QED
    BY <1>0, <1>a, <2>1 DEF StreamsKnown, LeakInv
<1>11. CASE UserStep \/ MainStep \/ Fault
  <2>1. Untouched /\ FewerStreams
    BY <1>11, Frame, MainStreams DEF FewerStreams
  <2>2. StreamsKnown'
    BY <1>0, <2>1 DEF Untouched, FewerStreams, StreamsKnown
  <2>3. /\ streamHandle[stage["sc"]] \in StreamHandles
        /\ streams[streamHandle[stage["sc"]]] = NoPid
        => streams'[streamHandle[stage["sc"]]] = NoPid
    BY <2>1 DEF FewerStreams
  <2>4. pc["sc"] = "zero" => streamHandle[stage["sc"]] \in StreamHandles \cup {NoHandle}
    OBVIOUS
  <2> QED
    BY <1>a, <2>1, <2>2, <2>3, <2>4 DEF Untouched, LeakInv
<1>12. CASE UNCHANGED vars
  BY <1>0, <1>a, <1>12 DEF vars, StreamsKnown, LeakInv
<1> QED
  BY <1>1, <1>2, <1>3, <1>4, <1>5, <1>6, <1>7, <1>8, <1>9, <1>10, <1>11,
     <1>12, AloneSteps
  DEF TaskStep, StartChannel, streamControllerTask, TaskInv

(* Whatever calls fail, whatever wakes the task and whatever a late        *)
(* callback does, stream_controller.c keeps the handle of every stream     *)
(* that runs in the player and of every filter that is set in the          *)
(* demultiplexer.                                                          *)
THEOREM NothingLeaks == ASSUME Alone PROVE Spec => []NoLeak
<1>1. Init => LeakInv
  <2> SUFFICES ASSUME Init PROVE LeakInv
    OBVIOUS
  <2>1. pc["sc"] = "set"
    BY ConstantFacts DEF Init
  <2> QED
    BY <2>1 DEF Init, LeakInv, NoLeak
<1>2. TypeInv /\ TaskInv /\ LeakInv /\ [Next]_vars => LeakInv'
  BY LeakStep
<1>3. LeakInv => NoLeak
  BY DEF LeakInv
<1> QED
  BY <1>1, <1>2, <1>3, TaskInvHolds, PTL DEF Spec

-----------------------------------------------------------------------------
(* EXIT releases everything, and nothing is used after it was released.    *)

AfterJoin == {"dFilter", "dAudio", "dVideo", "dClose", "dTables", "dFlag"}

(* The order in which main stops the remote controller, joins the task,    *)
(* frees the filter, lets its callback return, removes the streams, closes *)
(* the player and frees the tables.                                        *)
ExitInv ==
  /\ pc["main"] = "running" <=> pc["rc"] # "stopped"
  /\ pc["main"] \in {"running", "dEnter", "dJoin", "dJoining", "exited"}
       \cup AfterJoin
  /\ pc["main"] \in {"running", "dEnter", "dJoin"} => joiner = "none"
  /\ pc["main"] \in AfterJoin => pc["sc"] = "done"
  /\ pc["main"] \in AfterJoin \ {"dFilter"} =>
       \A h \in FilterHandles : filters[h] = NoWant
  /\ FreeWaits /\ pc["main"] \in AfterJoin \ {"dFilter", "dAudio"} =>
       cb.pc = "idle"
  /\ pc["main"] = "dVideo" =>
       \A h \in StreamHandles : streams[h] # NoPid => h = streamHandle["video"]
  /\ pc["main"] \in {"dClose", "dTables", "dFlag"} =>
       \A h \in StreamHandles : streams[h] = NoPid
  /\ pc["main"] \in {"dTables", "dFlag", "exited"} \/ playerOpen
  /\ pc["main"] \in {"dTables", "dFlag"} => ~playerOpen
  /\ pc["main"] = "dFlag" => ~tablesLive
  /\ ~tablesLive => pc["main"] \in {"dFlag", "exited"}
  /\ ExitReleasesAll
  /\ FreeWaits => NoFault

(* The task neither stops main nor closes the player, and takes no step    *)
(* once it is done.                                                        *)
LEMMA TaskFrame ==
  ASSUME TypeInv, TaskStep
  PROVE  /\ pc["sc"] # "done"
         /\ pc'["main"] = pc["main"] /\ pc'["rc"] = pc["rc"]
         /\ UNCHANGED <<joiner, fault, tablesLive, playerOpen, cb,
                        programNumber, channelInfo>>
<1> USE ConstantFacts DEF Goto, Enter, TypeInv, TypeOK, ThreadsOK, control,
        tables, shown, handles, locals, device
<1>1. CASE \/ FreeFilter("sc") \/ SetFilter("sc") \/ Wait("sc")
           \/ Resume("sc") \/ RegisterSectionCallback
  BY <1>1 DEF FreeFilter, SetFilter, Wait, Resume, RegisterSectionCallback
<1>2. CASE ScanPmt("sc") \/ RemoveStream("sc") \/ ZeroHandle("sc")
  BY <1>2 DEF ScanPmt, RemoveStream, ZeroHandle, AfterStream
<1>3. CASE \/ CreateStream("sc") \/ StoreNum("sc") \/ StoreAudio("sc")
           \/ StoreVideo("sc")
  BY <1>3 DEF CreateStream, StoreNum, StoreAudio, StoreVideo, AfterStream
<1>4. CASE CheckTime("sc") \/ PublishDate("sc") \/ Return("sc")
  BY <1>4 DEF CheckTime, PublishDate, Return
<1>5. CASE PollFlag \/ ClearFlag \/ CallStart
  BY <1>5 DEF PollFlag, ClearFlag, CallStart
<1>6. CASE DeinitEnter("sc") \/ JoinTask("sc")
  BY <1>6 DEF DeinitEnter, JoinTask, DeinitReturn, AfterStream
<1> QED
  BY <1>1, <1>2, <1>3, <1>4, <1>5, <1>6
  DEF TaskStep, StartChannel, streamControllerTask

(* The callback writes the tables and wakes the task; nothing else.        *)
LEMMA CallbackFrame ==
  ASSUME Alone, TypeInv, sectionReceivedCallback
  PROVE  /\ \/ pc'["sc"] = pc["sc"]
            \/ pc["sc"] = "waiting" /\ pc'["sc"] = "woken" /\ Signal
         /\ pc'["main"] = pc["main"] /\ pc'["rc"] = pc["rc"]
         /\ UNCHANGED <<control, shown, handles, locals, device, joiner,
                        fault, tablesLive>>
<1> USE ConstantFacts DEF Goto, TypeInv, TypeOK, ThreadsOK, tables
<1>1. CASE \E h \in FilterHandles : SectionArrives(h)
  BY <1>1 DEF SectionArrives
<1>2. CASE ParsePat \/ ParsePmt \/ ParseTime
  BY <1>2 DEF ParsePat, ParsePmt, ParseTime
<1>3. CASE Signal
  BY <1>3 DEF Signal, Alone, Starters
<1> QED
  BY <1>1, <1>2, <1>3 DEF sectionReceivedCallback

(* With no filter set and no callback running, none begins.                *)
LEMMA CallbackRests ==
  ASSUME \A h \in FilterHandles : filters[h] = NoWant, cb.pc = "idle"
  PROVE  ~sectionReceivedCallback
BY WantFacts DEF sectionReceivedCallback, SectionArrives, ParsePat, ParsePmt,
                 ParseTime, Signal

(* When the tables are freed no thread is left that would use them.        *)
LEMMA NoFaultStep ==
  ASSUME Alone, FreeWaits, TypeInv, FaultInv, ExitInv, Running
  PROVE  ~Fault
<1> SUFFICES ASSUME ~tablesLive
             PROVE  /\ \A t \in Threads : ~TouchesTables(t)
                    /\ ~CallbackTouchesTables
  BY DEF Fault
<1>1. pc["main"] = "dFlag" /\ pc["rc"] = "stopped" /\ pc["sc"] = "done"
  BY DEF ExitInv, Running, AfterJoin
<1>2. (\A h \in FilterHandles : filters[h] = NoWant) /\ cb.pc = "idle"
  BY <1>1 DEF ExitInv, AfterJoin
<1>3. \A t \in Threads : ~TouchesTables(t)
  BY <1>1 DEF TouchesTables, Alone, Starters
<1>4. ~CallbackTouchesTables
  BY <1>2, WantFacts DEF CallbackTouchesTables
<1> QED
  BY <1>3, <1>4

(* Every step keeps ExitInv.                                               *)
LEMMA ExitStep ==
  ASSUME Alone, TypeInv, TaskInv, FaultInv, LeakInv, ExitInv, [Next]_vars
  PROVE  ExitInv'
<1> USE ConstantFacts DEF Goto, Enter, TypeInv, TypeOK, ThreadsOK, tables,
        shown, handles, locals, device, AfterJoin, NoFault, ExitReleasesAll
<1>1. CASE Running /\ TaskStep
  <2>1. pc["main"] \notin AfterJoin \cup {"exited"}
    BY <1>1, TaskFrame DEF ExitInv, Running
  <2> QED
    BY <1>1, <2>1, TaskFrame DEF ExitInv
<1>2. CASE Running /\ sectionReceivedCallback
  <2>1. FreeWaits => pc["main"] \notin AfterJoin \ {"dFilter", "dAudio"}
    BY <1>2, CallbackRests DEF ExitInv
  <2>2. pc["main"] # "exited"
    BY <1>2 DEF Running
  <2> QED
    BY <1>2, <2>1, <2>2, CallbackFrame DEF ExitInv
<1>3. CASE Running /\ UserStep
  <2>1. pc["main"] = "running"
    BY <1>3
    DEF UserStep, Keys, channelUp, channelDown, RaiseFlag, getChannelInfo,
        Exit, ExitInv
  <2>2. pc'["main"] \in {"running", "dEnter"}
    BY <1>3, <2>1
    DEF UserStep, Keys, channelUp, channelDown, RaiseFlag, getChannelInfo,
        Exit
  <2>3. pc'["main"] = "running" <=> pc'["rc"] # "stopped"
    BY <1>3, <2>1
    DEF UserStep, Keys, channelUp, channelDown, RaiseFlag, getChannelInfo,
        Exit
  <2> QED
    BY <1>3, <2>1, <2>2, <2>3, Frame DEF Untouched, ExitInv
<1>4. CASE Running /\ MainStep
  <2>2. CASE DeinitEnter("main")
    BY <2>2 DEF DeinitEnter, DeinitReturn, ExitInv, control
  <2>3. CASE JoinTask("main")
    BY <2>3 DEF JoinTask, DeinitReturn, ExitInv
  <2>4. CASE Joined("main")
    BY <2>4 DEF Joined, ExitInv
  <2>5. CASE ReleaseDevice("main")
    <3>1. CASE pc["main"] = "dFilter"
      <4>1. /\ Freed(filterHandle) /\ pc' = [pc EXCEPT !["main"] = "dAudio"]
            /\ UNCHANGED <<streams, playerOpen, cb, tablesLive, joiner, fault>>
        BY <2>5, <3>1 DEF ReleaseDevice
      <4>2. \A h \in FilterHandles : filters'[h] = NoWant
        BY <4>1 DEF Freed, TaskInv, FilterInv
      <4> QED
        BY <3>1, <4>1, <4>2 DEF ExitInv
    <3>2. CASE pc["main"] = "dAudio"
      <4>1. /\ Removed(streamHandle["audio"])
            /\ pc' = [pc EXCEPT !["main"] = "dVideo"]
            /\ FreeWaits => cb.pc = "idle"
            /\ UNCHANGED <<filters, playerOpen, cb, tablesLive, joiner, fault,
                           streamHandle>>
        BY <2>5, <3>2 DEF ReleaseDevice, Drained
      <4>2. \A h \in StreamHandles :
              streams'[h] # NoPid => h = streamHandle["video"]
        BY <4>1 DEF Removed, LeakInv, NoLeak
      <4> QED
        BY <3>2, <4>1, <4>2 DEF ExitInv
    <3>3. CASE pc["main"] = "dVideo"
      <4>1. /\ Removed(streamHandle["video"])
            /\ pc' = [pc EXCEPT !["main"] = "dClose"]
            /\ UNCHANGED <<filters, playerOpen, cb, tablesLive, joiner, fault>>
        BY <2>5, <3>3 DEF ReleaseDevice
      <4>2. \A h \in StreamHandles : streams'[h] = NoPid
        BY <3>3, <4>1 DEF Removed, ExitInv
      <4> QED
        BY <3>3, <4>1, <4>2 DEF ExitInv
    <3>4. CASE pc["main"] = "dClose"
      BY <2>5, <3>4 DEF ReleaseDevice, ExitInv
    <3> QED
      BY <2>5, <3>1, <3>2, <3>3, <3>4 DEF ReleaseDevice
  <2>6. CASE FreeTables("main")
    BY <2>6 DEF FreeTables, ExitInv
  <2>7. CASE DeinitDone("main")
    BY <2>7 DEF DeinitDone, DeinitReturn, ExitInv
  <2> QED
    BY <1>4, <2>2, <2>3, <2>4, <2>5, <2>6, <2>7
    DEF MainStep, streamControllerDeinit
<1>5. CASE Running /\ Fault
  <2>1. ~FreeWaits
    BY <1>5, NoFaultStep
  <2> QED
    BY <1>5, <2>1 DEF Fault, control, ExitInv
<1>6. CASE Running /\ WakeSpuriously("sc")
  <2>1. pc["main"] \notin AfterJoin \cup {"exited"}
    BY <1>6 DEF WakeSpuriously, ExitInv, Running
  <2> QED
    BY <1>6, <2>1 DEF WakeSpuriously, ExitInv
<1>7. CASE UNCHANGED vars
  BY <1>7 DEF vars, control, ExitInv
<1> QED
  BY <1>1, <1>2, <1>3, <1>4, <1>5, <1>6, <1>7, AloneSteps DEF TaskInv

(* What holds under Alone whatever calls of libtdp fail.                   *)
BaseInv == TypeInv /\ TaskInv /\ FaultInv /\ LeakInv /\ ExitInv

LEMMA BaseInvHolds == ASSUME Alone PROVE Spec => []BaseInv
<1>1. Init => FaultInv /\ LeakInv /\ ExitInv
  <2> SUFFICES ASSUME Init PROVE FaultInv /\ LeakInv /\ ExitInv
    OBVIOUS
  <2>1. pc["sc"] = "set" /\ pc["main"] = "running" /\ pc["rc"] = "idle"
    BY ConstantFacts DEF Init
  <2>2. FaultInv
    BY ConstantFacts DEF Init, FaultInv, Releasing, TaskNeverFaults
  <2>3. LeakInv
    BY <2>1 DEF Init, LeakInv, NoLeak
  <2>4. ExitInv
    BY <2>1 DEF Init, ExitInv, AfterJoin, ExitReleasesAll, NoFault
  <2> QED
    BY <2>2, <2>3, <2>4
<1>2. TypeInv /\ TaskInv /\ FaultInv /\ LeakInv /\ ExitInv /\ [Next]_vars
        => (FaultInv /\ LeakInv /\ ExitInv)'
  BY FaultStep, LeakStep, ExitStep
<1>3. Spec => [](FaultInv /\ LeakInv /\ ExitInv)
  BY <1>1, <1>2, TaskInvHolds, PTL DEF Spec
<1> QED
  BY <1>3, TaskInvHolds, PTL DEF BaseInv

(* A streamControllerDeinit that main runs to its end leaves no filter, no *)
(* stream, no open player and no allocated table, whatever the task, the   *)
(* callback and the keys were doing when EXIT came, and whatever failed.   *)
THEOREM ExitIsClean == ASSUME Alone PROVE Spec => []ExitReleasesAll
<1>1. BaseInv => ExitReleasesAll
  BY DEF BaseInv, ExitInv
<1> QED
  BY <1>1, BaseInvHolds, PTL

(* No thread, and no callback, touches a table after it was freed: when    *)
(* main frees the tables, the remote controller is stopped, the task has   *)
(* been joined, and the filter's last callback has returned.               *)
THEOREM NoUseAfterFree == ASSUME Alone, FreeWaits PROVE Spec => []NoFault
<1>1. BaseInv => NoFault
  BY DEF BaseInv, ExitInv
<1> QED
  BY <1>1, BaseInvHolds, PTL

-----------------------------------------------------------------------------
(* The programs startChannel is called for.                                *)

(* Every filter is set on the pid of a program the PAT lists, as long as   *)
(* programNumber is the number of one.                                     *)
RangeInv ==
  /\ stage["sc"] = "pmt" /\ pc["sc"] \in {"free", "set"} =>
       chan["sc"] + 1 \in Programs
  /\ FilterOnListedProgram

(* Every step that starts with programNumber in range keeps RangeInv.      *)
LEMMA RangeStep ==
  ASSUME Signalled, TypeInv, TaskInv, PatInv, RangeInv, InRange,
         [Next]_vars
  PROVE  RangeInv'
<1> USE ConstantFacts DEF Goto, Enter, TypeInv, TypeOK, ThreadsOK, LocalsOK,
        tables, shown, handles, locals, device
<1>1. CASE FreeFilter("sc")
  BY <1>1 DEF FreeFilter, Freed, RangeInv, FilterOnListedProgram, NoWant, Want
<1>2. CASE SetFilter("sc")
  <2>1. UNCHANGED <<stage, chan>> /\ pc["sc"] = "set" /\ pc'["sc"] # "set"
        /\ pc'["sc"] # "free"
    BY <1>2 DEF SetFilter
  <2>2. Requested("sc") # Want("pmt", 0)
    <3>1. CASE stage["sc"] # "pmt"
      BY <3>1 DEF Requested, Want
    <3>2. CASE stage["sc"] = "pmt"
      <4>1. chan["sc"] + 1 \in Programs /\ patFilled = NServices
        BY <2>1, <3>2 DEF RangeInv, PatInv
      <4>2. PatEntry(chan["sc"] + 1) # 0
        BY <4>1 DEF PatEntry, Programs
      <4> QED
        BY <3>2, <4>2 DEF Requested, Want
    <3> QED
      BY <3>1, <3>2
  <2>3. \A h \in FilterHandles : filters'[h] \in {NoWant, Requested("sc")}
    BY <1>2 DEF SetFilter, TaskInv, FilterInv, DeviceOK
  <2>4. NoWant # Want("pmt", 0)
    BY DEF NoWant, Want
  <2> QED
    BY <2>1, <2>2, <2>3, <2>4 DEF RangeInv, FilterOnListedProgram
<1>3. CASE \/ Wait("sc") \/ Resume("sc") \/ RegisterSectionCallback
  BY <1>3 DEF Wait, Resume, RegisterSectionCallback, RangeInv,
              FilterOnListedProgram
<1>4. CASE ScanPmt("sc") \/ RemoveStream("sc") \/ ZeroHandle("sc")
  BY <1>4 DEF ScanPmt, RemoveStream, ZeroHandle, AfterStream, RangeInv,
              FilterOnListedProgram
<1>5. CASE \/ CreateStream("sc") \/ StoreNum("sc") \/ StoreAudio("sc")
           \/ StoreVideo("sc")
  BY <1>5 DEF CreateStream, StoreNum, StoreAudio, StoreVideo, AfterStream,
              RangeInv, FilterOnListedProgram
<1>6. CASE CheckTime("sc") \/ PublishDate("sc") \/ Return("sc")
  BY <1>6 DEF CheckTime, PublishDate, Return, DropLocals, RangeInv,
              FilterOnListedProgram
<1>7. CASE PollFlag \/ ClearFlag \/ CallStart
  BY <1>7 DEF PollFlag, ClearFlag, CallStart, InRange, RangeInv,
              FilterOnListedProgram
<1>8. CASE DeinitEnter("sc") \/ JoinTask("sc")
  BY <1>8 DEF DeinitEnter, JoinTask, DeinitReturn, AfterStream, RangeInv,
              FilterOnListedProgram
<1>9. CASE sectionReceivedCallback
  BY <1>9, CallbackFrame DEF Signalled, RangeInv, FilterOnListedProgram
<1>10. CASE UserStep \/ MainStep \/ Fault
  <2>1. Untouched /\ FewerFilters
    BY <1>10, Frame, MainFilters DEF FewerFilters
  <2>2. NoWant # Want("pmt", 0)
    BY DEF NoWant, Want
  <2> QED
    BY <2>1, <2>2 DEF Untouched, FewerFilters, RangeInv, FilterOnListedProgram
<1>11. CASE UNCHANGED vars
  BY <1>11 DEF vars, RangeInv, FilterOnListedProgram
<1> QED
  BY <1>1, <1>2, <1>3, <1>4, <1>5, <1>6, <1>7, <1>8, <1>9, <1>10, <1>11,
     SignalledSteps
  DEF TaskStep, StartChannel, streamControllerTask, TaskInv

(* config.ini names a program of the PAT, and the user presses no P-.      *)
UpOnly == "down" \notin KeyOps /\ ConfigProgram + 1 \in Programs

(* P+ alone never leaves the programs of the PAT, not even when it is      *)
(* pressed while the PAT is being parsed.                                  *)
LEMMA UpStaysInRange ==
  ASSUME UpOnly, TypeInv, InRange, [Next]_vars
  PROVE  InRange'
<1> USE ConstantFacts DEF TypeInv, TypeOK, ControlOK, TablesOK
<1>1. CASE channelUp
  BY <1>1 DEF channelUp, ProgramAbove, InRange, Programs
<1>2. CASE UNCHANGED programNumber
  BY <1>2 DEF InRange
<1>3. \/ channelUp \/ channelDown \/ UNCHANGED programNumber
  <2> USE DEF control
  <2>1. ASSUME NEW t \in Starters, StartChannel(t) PROVE UNCHANGED programNumber
    BY <2>1
    DEF StartChannel, FreeFilter, SetFilter, Wait, Resume, ScanPmt,
        RemoveStream, ZeroHandle, CreateStream, StoreNum, StoreAudio,
        StoreVideo, CheckTime, PublishDate, Return
  <2>2. ASSUME NEW t, streamControllerDeinit(t) PROVE UNCHANGED programNumber
    BY <2>2
    DEF streamControllerDeinit, DeinitEnter, JoinTask, Joined, ReleaseDevice,
        FreeTables, DeinitDone
  <2>3. ASSUME sectionReceivedCallback PROVE UNCHANGED programNumber
    BY <2>3
    DEF sectionReceivedCallback, SectionArrives, ParsePat, ParsePmt,
        ParseTime, Signal
  <2> QED
    BY <2>1, <2>2, <2>3
    DEF Next, Stopped, vars, WakeSpuriously, streamControllerTask,
        RegisterSectionCallback, PollFlag, ClearFlag, CallStart,
        changeChannelKey, Keys, RaiseFlag, getChannelInfo, Exit, Fault
<1>4. ~channelDown
  BY DEF UpOnly, channelDown
<1> QED
  BY <1>1, <1>2, <1>3, <1>4

(* As long as programNumber is the number of a program of the PAT, no      *)
(* filter is set on the pid of the NIT, of an entry never written or of    *)
(* what lies beside the array.                                             *)
THEOREM FiltersInRange ==
  ASSUME Signalled PROVE Spec /\ []InRange => []FilterOnListedProgram
<1>1. Init => RangeInv
  <2> SUFFICES ASSUME Init PROVE RangeInv
    OBVIOUS
  <2>1. stage["sc"] = "pat" /\ NoWant # Want("pmt", 0)
    BY ConstantFacts DEF Init, NoWant, Want
  <2> QED
    BY <2>1 DEF Init, RangeInv, FilterOnListedProgram
<1>2. TypeInv /\ TaskInv /\ PatInv /\ RangeInv /\ InRange /\ [Next]_vars
        => RangeInv'
  BY RangeStep
<1>3. RangeInv => FilterOnListedProgram
  BY DEF RangeInv
<1> QED
  BY <1>1, <1>2, <1>3, PatInvHolds, PTL DEF Spec

(* With a program of the PAT in config.ini and P+ as the only channel key, *)
(* every PMT filter is on the pid of a program the PAT lists, whenever the *)
(* key comes and whatever calls fail.                                      *)
THEOREM FiltersListed ==
  ASSUME Signalled, UpOnly PROVE Spec => []FilterOnListedProgram
<1>1. Init => InRange
  BY DEF Init, InRange, UpOnly
<1>2. TypeInv /\ InRange /\ [Next]_vars => InRange'
  BY UpStaysInRange
<1>3. Spec => []InRange
  BY <1>1, <1>2, TypeInit, TypeStep, PTL DEF Spec
<1> QED
  BY <1>3, FiltersInRange, PTL

-----------------------------------------------------------------------------
(* Requests and streams, when the calls of libtdp succeed.                 *)

(* A filter can always be set.                                             *)
FiltersSet == "setFilter" \notin MayFail /\ FilterHandles # {}

(* A stream can always be created.                                         *)
StreamsCreated ==
  "streamCreate" \notin MayFail /\ \E g, h \in StreamHandles : g # h

Reliable == FiltersSet /\ StreamsCreated

(* The player is open as long as the task runs.                            *)
LEMMA PlayerOpen ==
  ASSUME BaseInv, Running, pc["sc"] # "done"
  PROVE  playerOpen
BY DEF BaseInv, ExitInv, AfterJoin, Running

(* Then the task finds a filter: it has freed its own.                     *)
LEMMA FilterIsSet ==
  ASSUME FiltersSet, BaseInv, Running, SetFilter("sc")
  PROVE  pc'["sc"] \in {"register", "wait"}
<1>1. playerOpen /\ \A h \in FilterHandles : filters[h] = NoWant
  BY PlayerOpen DEF SetFilter, BaseInv, TaskInv, FilterInv
<1> QED
  BY <1>1, ConstantFacts
  DEF SetFilter, FiltersSet, Goto, BaseInv, TypeInv, TypeOK, ThreadsOK

(* The stage of the task from its first stream to the last store, and      *)
(* between two channels.                                                   *)
StoreStage ==
  /\ pc["sc"] \in {"dEnter", "dJoin"} => stage["sc"] \in Kinds
  /\ pc["sc"] \in {"storeNum", "storeAudio", "storeVideo"} =>
       stage["sc"] = "audio"
  /\ pc["sc"] \in {"loop", "clear", "call", "done"} =>
       stage["sc"] \in {"pat", "pmt"}

(* Every step keeps StoreStage.                                            *)
LEMMA StoreStageStep ==
  ASSUME Alone, TypeInv, TaskInv, StoreStage, [Next]_vars
  PROVE  StoreStage'
<1> USE ConstantFacts DEF Goto, Enter, TypeInv, TypeOK, ThreadsOK, LocalsOK,
        StageInv, Kinds, locals
<1>1. CASE \/ FreeFilter("sc") \/ SetFilter("sc") \/ Wait("sc")
           \/ WakeSpuriously("sc") \/ Resume("sc")
           \/ RegisterSectionCallback \/ ScanPmt("sc")
  BY <1>1 DEF FreeFilter, SetFilter, Wait, WakeSpuriously, Resume,
              RegisterSectionCallback, ScanPmt, StoreStage
<1>2. CASE RemoveStream("sc") \/ ZeroHandle("sc") \/ CreateStream("sc")
  BY <1>2 DEF RemoveStream, ZeroHandle, CreateStream, AfterStream, StoreStage
<1>3. CASE StoreNum("sc") \/ StoreAudio("sc") \/ StoreVideo("sc")
  BY <1>3 DEF StoreNum, StoreAudio, StoreVideo, StoreStage
<1>4. CASE CheckTime("sc") \/ PublishDate("sc") \/ Return("sc")
  BY <1>4 DEF CheckTime, PublishDate, Return, DropLocals, StoreStage
<1>5. CASE PollFlag \/ ClearFlag \/ CallStart
  BY <1>5 DEF PollFlag, ClearFlag, CallStart, StoreStage
<1>6. CASE DeinitEnter("sc") \/ JoinTask("sc")
  BY <1>6 DEF DeinitEnter, JoinTask, DeinitReturn, AfterStream, StoreStage
<1>7. CASE sectionReceivedCallback
  BY <1>7, CallbackFrame DEF StoreStage
<1>8. CASE UserStep \/ MainStep \/ Fault
  BY <1>8, Frame DEF Untouched, StoreStage
<1>9. CASE UNCHANGED vars
  BY <1>9 DEF vars, StoreStage
<1> QED
  BY <1>1, <1>2, <1>3, <1>4, <1>5, <1>6, <1>7, <1>8, <1>9, AloneSteps
  DEF TaskStep, StartChannel, streamControllerTask, TaskInv

(* The last key has been taken up.                                         *)
TakenUp == ~changeChannel /\ pc["rc"] # "flag"

(* startChannel works on the channel, and has stored its number.           *)
Working ==
  /\ stage["sc"] \in {"pmt"} \cup Kinds
  /\ pc["sc"] \in {"free", "set", "wait", "waiting", "woken", "scan", "remove",
                   "zero", "create", "dEnter", "dJoin", "storeNum"}
NumStored ==
  \/ pc["sc"] \in {"storeAudio", "storeVideo", "time", "return", "loop"}
  \/ stage["sc"] \in {"tdt", "tot"}

(* A request that was taken up is the one startChannel works on, and the   *)
(* one it has stored afterwards.                                           *)
RequestInv ==
  /\ StoreStage
  /\ TakenUp /\ Working => chan["sc"] = programNumber
  /\ TakenUp /\ NumStored => currentChannel.num = programNumber + 1

(* Every step keeps RequestInv.                                            *)
LEMMA RequestStep ==
  ASSUME Alone, FiltersSet, BaseInv, RequestInv, [Next]_vars
  PROVE  RequestInv'
<1>0. StoreStage'
  BY StoreStageStep DEF BaseInv, RequestInv
<1> USE <1>0, ConstantFacts DEF Goto, Enter, BaseInv, TypeInv, TypeOK,
        ThreadsOK, LocalsOK, StageInv, Kinds, control, tables, shown, handles,
        locals, device, TakenUp, Working, NumStored
<1>1. CASE FreeFilter("sc") \/ Wait("sc") \/ WakeSpuriously("sc")
  BY <1>1 DEF FreeFilter, Wait, WakeSpuriously, RequestInv
<1>2. CASE Running /\ SetFilter("sc")
  BY <1>2, FilterIsSet DEF SetFilter, RequestInv
<1>3. CASE Resume("sc")
  BY <1>3 DEF Resume, RequestInv
<1>4. CASE RegisterSectionCallback
  BY <1>4 DEF RegisterSectionCallback, TaskInv, LabelInv, RequestInv
<1>5. CASE ScanPmt("sc")
  BY <1>5 DEF ScanPmt, TaskInv, LabelInv, RequestInv
<1>6. CASE RemoveStream("sc") \/ ZeroHandle("sc")
  BY <1>6 DEF RemoveStream, ZeroHandle, AfterStream, RequestInv
<1>7. CASE CreateStream("sc")
  BY <1>7 DEF CreateStream, AfterStream, RequestInv
<1>8. CASE StoreNum("sc")
  <2>1. currentChannel'.num = chan["sc"] + 1
    BY <1>8 DEF StoreNum, ShownOK, Channels
  <2> QED
    BY <1>8, <2>1 DEF StoreNum, RequestInv, StoreStage
<1>9. CASE StoreAudio("sc") \/ StoreVideo("sc")
  <2>1. currentChannel'.num = currentChannel.num
    BY <1>9 DEF StoreAudio, StoreVideo, ShownOK, Channels
  <2> QED
    BY <1>9, <2>1 DEF StoreAudio, StoreVideo, RequestInv, StoreStage
<1>10. CASE CheckTime("sc") \/ PublishDate("sc")
  BY <1>10 DEF CheckTime, PublishDate, RequestInv, TaskInv, LabelInv
<1>11. CASE Return("sc")
  BY <1>11 DEF Return, DropLocals, RequestInv
<1>12. CASE PollFlag \/ ClearFlag
  BY <1>12 DEF PollFlag, ClearFlag, RequestInv, StoreStage
<1>13. CASE CallStart
  BY <1>13 DEF CallStart, RequestInv
<1>14. CASE DeinitEnter("sc") \/ JoinTask("sc")
  BY <1>14 DEF DeinitEnter, JoinTask, DeinitReturn, AfterStream, RequestInv,
               StoreStage
<1>15. CASE sectionReceivedCallback
  BY <1>15, CallbackFrame DEF RequestInv
<1>16. CASE channelUp \/ channelDown \/ RaiseFlag
  BY <1>16 DEF channelUp, channelDown, RaiseFlag, RequestInv
<1>17. CASE getChannelInfo \/ Exit
  BY <1>17 DEF getChannelInfo, Exit, RequestInv
<1>18. CASE MainStep \/ Fault
  BY <1>18, Frame DEF Untouched, RequestInv
<1>19. CASE UNCHANGED vars
  BY <1>19 DEF vars, RequestInv
<1> QED
  BY <1>1, <1>2, <1>3, <1>4, <1>5, <1>6, <1>7, <1>8, <1>9, <1>10, <1>11,
     <1>12, <1>13, <1>14, <1>15, <1>16, <1>17, <1>18, <1>19, AloneSteps
  DEF TaskStep, StartChannel, streamControllerTask, UserStep, Keys, TaskInv

(* RequestInv holds throughout.                                            *)
LEMMA RequestInvHolds ==
  ASSUME Alone, FiltersSet PROVE Spec => [](BaseInv /\ RequestInv)
<1>1. Init => RequestInv
  <2> SUFFICES ASSUME Init PROVE RequestInv
    OBVIOUS
  <2>1. pc["sc"] = "set" /\ stage["sc"] = "pat"
    BY ConstantFacts DEF Init
  <2> QED
    BY <2>1 DEF RequestInv, StoreStage, Working, NumStored, Kinds
<1>2. BaseInv /\ RequestInv /\ [Next]_vars => RequestInv'
  BY RequestStep
<1> QED
  BY <1>1, <1>2, BaseInvHolds, PTL DEF Spec

(* No key press is lost, whenever it comes between two steps of the task:  *)
(* when the flag is down and the task is back in its loop, the current     *)
(* channel is that of the last key.  Streams may fail to be created.       *)
THEOREM RequestsServed ==
  ASSUME Alone, FiltersSet PROVE Spec => []NoLostRequest
<1>1. RequestInv => NoLostRequest
  BY DEF RequestInv, TakenUp, NumStored, NoLostRequest, Quiet
<1> QED
  BY <1>1, RequestInvHolds, PTL

(* The player plays the stream p of kind k.  With no such stream there is  *)
(* no picture; the sound is left as it was.                                *)
Plays(k, p) ==
  IF p = NoPid THEN k = "video" => streamHandle[k] = NoHandle
               ELSE /\ streamHandle[k] \in StreamHandles
                    /\ streams[streamHandle[k]] = p

(* The handles that are not zero are those of running streams, and differ. *)
HandleInv ==
  /\ pc["sc"] # "done" => \A k \in Kinds :
       streamHandle[k] # NoHandle /\ ~(pc["sc"] = "zero" /\ stage["sc"] = k) =>
         streams[streamHandle[k]] # NoPid
  /\ streamHandle["video"] = streamHandle["audio"] =>
       streamHandle["video"] = NoHandle
  /\ pc["sc"] = "create" => pid["sc"][stage["sc"]] # NoPid
  /\ pc["sc"] \notin {"dEnter", "dJoin"}

(* startChannel has done its video part, both parts, and all of it.        *)
VideoDone ==
  /\ stage["sc"] = "audio"
  /\ pc["sc"] \in {"remove", "zero", "create", "storeNum", "storeAudio",
                   "storeVideo"}
BothDone == pc["sc"] \in {"storeNum", "storeAudio", "storeVideo"}
ChannelDone ==
  pc["sc"] \in {"time", "return", "loop"} \/ stage["sc"] \in {"tdt", "tot"}

(* The player follows startChannel: its video stream, then its audio       *)
(* stream, and then both of them until the next call.                      *)
FollowInv ==
  /\ VideoDone => Plays("video", pid["sc"]["video"])
  /\ BothDone => Plays("audio", pid["sc"]["audio"])
  /\ ChannelDone => /\ Plays("video", currentChannel.video)
                    /\ Plays("audio", currentChannel.audio)

PlayInv == HandleInv /\ FollowInv

(* A stream can be created: at most the other stream of the channel runs.  *)
LEMMA StreamIsCreated ==
  ASSUME StreamsCreated, BaseInv, Running, CreateStream("sc")
  PROVE  /\ \E h \in StreamHandles :
              /\ streams[h] = NoPid
              /\ streams' = [streams EXCEPT ![h] = pid["sc"][stage["sc"]]]
              /\ streamHandle' = [streamHandle EXCEPT ![stage["sc"]] = h]
         /\ AfterStream("sc")
<1>1. playerOpen /\ stage["sc"] \in Kinds /\ streamHandle[stage["sc"]] = NoHandle
  BY PlayerOpen, ConstantFacts
  DEF CreateStream, BaseInv, TypeInv, StageInv, LeakInv
<1>2. \E h \in StreamHandles : streams[h] = NoPid
  <2>1. PICK f, g \in StreamHandles : f # g
    BY DEF StreamsCreated
  <2>2. NoHandle \notin StreamHandles
    BY ConstantsOK DEF ConstantsOK
  <2> QED
    BY <1>1, <2>1, <2>2 DEF BaseInv, LeakInv, NoLeak, Kinds
<1> QED
  BY <1>1, <1>2 DEF CreateStream, StreamsCreated

(* main touches the streams only when the task is done.                    *)
LEMMA MainWaitsForTask ==
  ASSUME BaseInv, MainStep, pc["sc"] # "done"
  PROVE  UNCHANGED streams
<1>1. ~ReleaseDevice("main")
  BY DEF ReleaseDevice, BaseInv, FaultInv, Releasing
<1> QED
  BY <1>1
  DEF MainStep, streamControllerDeinit, DeinitEnter, JoinTask, Joined,
      FreeTables, DeinitDone, device

(* A step that leaves the task, the handles and the streams where they are *)
(* keeps PlayInv.                                                          *)
LEMMA PlayFrame ==
  ASSUME PlayInv, pc'["sc"] = pc["sc"],
         UNCHANGED <<stage, pid, streams, streamHandle, currentChannel>>
  PROVE  PlayInv'
BY DEF PlayInv, HandleInv, FollowInv, Plays, VideoDone, BothDone, ChannelDone

(* Every step keeps PlayInv.                                               *)
LEMMA PlayStep ==
  ASSUME Alone, Reliable, BaseInv, RequestInv, PlayInv, [Next]_vars
  PROVE  PlayInv'
<1>0. NoHandle \notin StreamHandles
  BY ConstantsOK DEF ConstantsOK
<1> USE <1>0, ConstantFacts DEF Goto, Enter, BaseInv, TypeInv, TypeOK,
        ThreadsOK, LocalsOK, StageInv, HandlesOK, DeviceOK, Kinds, control,
        tables, shown, handles, locals, device, Reliable, PlayInv
<1> DEFINE Quietly == UNCHANGED <<pid, streams, streamHandle, currentChannel>>
<1>1. CASE FreeFilter("sc") \/ Wait("sc") \/ WakeSpuriously("sc")
  <2>1. /\ Quietly /\ UNCHANGED stage
        /\ pc["sc"] \in {"free", "wait", "waiting"}
        /\ pc'["sc"] \in {"set", "waiting", "woken"}
    BY <1>1 DEF FreeFilter, Wait, WakeSpuriously
  <2> QED
    BY <2>1 DEF HandleInv, FollowInv, Plays, VideoDone, BothDone, ChannelDone
<1>2. CASE Running /\ SetFilter("sc")
  <2>1. /\ Quietly /\ UNCHANGED stage
        /\ pc["sc"] = "set" /\ pc'["sc"] \in {"register", "wait"}
    BY <1>2, FilterIsSet DEF SetFilter
  <2> QED
    BY <2>1 DEF HandleInv, FollowInv, Plays, VideoDone, BothDone, ChannelDone
<1>3. CASE Resume("sc")
  <2>1. Quietly /\ pc["sc"] = "woken"
    BY <1>3 DEF Resume
  <2>2. /\ pc'["sc"] \in {"call", "scan", "free", "date"}
        /\ ChannelDone' => ChannelDone
    BY <1>3 DEF Resume, ChannelDone
  <2> QED
    BY <2>1, <2>2 DEF HandleInv, FollowInv, Plays, VideoDone, BothDone
<1>4. CASE RegisterSectionCallback
  <2>1. /\ Quietly /\ UNCHANGED stage
        /\ pc["sc"] = "register" /\ pc'["sc"] = "wait"
    BY <1>4 DEF RegisterSectionCallback
  <2> QED
    BY <2>1 DEF HandleInv, FollowInv, Plays, VideoDone, BothDone, ChannelDone
<1>5. CASE ScanPmt("sc")
  <2>1. /\ UNCHANGED <<streams, streamHandle, currentChannel>>
        /\ pc["sc"] = "scan" /\ stage["sc"] = "pmt"
        /\ \/ pc'["sc"] = "scan" /\ UNCHANGED stage
           \/ pc'["sc"] = "remove" /\ stage'["sc"] = "video"
    BY <1>5 DEF ScanPmt, TaskInv, LabelInv
  <2> QED
    BY <2>1 DEF HandleInv, FollowInv, Plays, VideoDone, BothDone, ChannelDone
<1>6. CASE RemoveStream("sc")
  <2> DEFINE k == stage["sc"]
  <2>1. /\ k \in Kinds /\ pc["sc"] = "remove"
        /\ UNCHANGED <<pid, streamHandle, currentChannel>>
    BY <1>6 DEF RemoveStream
  <2>2. CASE pc'["sc"] = "zero"
    <3>1. stage' = stage /\ Removed(streamHandle[k])
      BY <1>6, <2>2 DEF RemoveStream, AfterStream
    <3>2. \A h \in StreamHandles :
            h # streamHandle[k] => streams'[h] = streams[h]
      BY <3>1 DEF Removed
    <3>3. \A j \in Kinds : streamHandle[j] # NoHandle /\ j # k =>
            streams'[streamHandle[j]] = streams[streamHandle[j]]
      BY <2>1, <3>2 DEF HandleInv
    <3>4. HandleInv'
      BY <2>1, <2>2, <3>1, <3>3 DEF HandleInv
    <3>5. FollowInv'
      BY <2>1, <2>2, <3>1, <3>3
      DEF FollowInv, VideoDone, BothDone, ChannelDone, Plays
    <3> QED
      BY <3>4, <3>5
  <2>3. CASE pc'["sc"] = "create"
    <3>1. stage' = stage /\ UNCHANGED streams /\ pid["sc"][k] # NoPid
      BY <1>6, <2>3 DEF RemoveStream, AfterStream
    <3> QED
      BY <2>1, <2>3, <3>1
      DEF HandleInv, FollowInv, VideoDone, BothDone, ChannelDone, Plays
  <2>4. CASE pc'["sc"] = "storeNum"
    <3>1. /\ UNCHANGED <<stage, streams>>
          /\ k = "audio" /\ pid["sc"]["audio"] = NoPid
      BY <1>6, <2>4 DEF RemoveStream, AfterStream
    <3> QED
      BY <2>1, <2>4, <3>1
      DEF HandleInv, FollowInv, VideoDone, BothDone, ChannelDone, Plays
  <2> QED
    BY <1>6, <2>1, <2>2, <2>3, <2>4 DEF RemoveStream, AfterStream
<1>7. CASE ZeroHandle("sc")
  <2> DEFINE k == stage["sc"]
  <2>1. /\ k \in Kinds /\ pc["sc"] = "zero"
        /\ UNCHANGED <<pid, streams, currentChannel>>
        /\ streamHandle' = [streamHandle EXCEPT ![k] = NoHandle]
    BY <1>7 DEF ZeroHandle
  <2>2. \/ /\ pid["sc"][k] = NoPid /\ k = "video"
           /\ stage'["sc"] = "audio" /\ pc'["sc"] = "remove"
        \/ /\ pid["sc"][k] = NoPid /\ k = "audio"
           /\ stage' = stage /\ pc'["sc"] = "storeNum"
        \/ /\ pid["sc"][k] # NoPid
           /\ stage' = stage /\ pc'["sc"] = "create"
    BY <1>7 DEF ZeroHandle, AfterStream
  <2>3. HandleInv'
    BY <2>1, <2>2 DEF HandleInv
  <2>4. FollowInv'
    BY <2>1, <2>2 DEF FollowInv, VideoDone, BothDone, ChannelDone, Plays
  <2> QED
    BY <2>3, <2>4
<1>8. CASE Running /\ CreateStream("sc")
  <2> DEFINE k == stage["sc"]
  <2>1. /\ k \in Kinds /\ pc["sc"] = "create" /\ pid["sc"][k] \in Pids
        /\ streamHandle[k] = NoHandle /\ UNCHANGED <<pid, currentChannel>>
    BY <1>8 DEF CreateStream, HandleInv, LeakInv
  <2>2. PICK h \in StreamHandles :
          /\ streams[h] = NoPid
          /\ streams' = [streams EXCEPT ![h] = pid["sc"][k]]
          /\ streamHandle' = [streamHandle EXCEPT ![k] = h]
    BY <1>8, StreamIsCreated
  <2>3. \/ k = "video" /\ stage'["sc"] = "audio" /\ pc'["sc"] = "remove"
        \/ k = "audio" /\ stage' = stage /\ pc'["sc"] = "storeNum"
    BY <1>8, <2>1, StreamIsCreated DEF AfterStream
  <2>4. \A j \in Kinds : j # k =>
          /\ streamHandle'[j] = streamHandle[j] /\ streamHandle[j] # h
          /\ streamHandle[j] # NoHandle =>
               streams'[streamHandle[j]] = streams[streamHandle[j]]
    BY <2>1, <2>2 DEF HandleInv
  <2>5. streamHandle'[k] = h /\ streams'[h] = pid["sc"][k] /\ h # NoHandle
    BY <2>1, <2>2
  <2>6. pid["sc"][k] # NoPid
    BY <2>1
  <2>7. HandleInv'
    BY <2>1, <2>3, <2>4, <2>5, <2>6 DEF HandleInv
  <2>8. FollowInv'
    BY <2>1, <2>3, <2>4, <2>5, <2>6
    DEF FollowInv, VideoDone, BothDone, ChannelDone, Plays
  <2> QED
    BY <2>7, <2>8
<1>9. CASE StoreNum("sc") \/ StoreAudio("sc")
  <2>1. /\ UNCHANGED <<stage, pid, streams, streamHandle>>
        /\ pc["sc"] \in {"storeNum", "storeAudio"}
        /\ pc'["sc"] \in {"storeAudio", "storeVideo"} /\ stage["sc"] = "audio"
    BY <1>9 DEF StoreNum, StoreAudio, RequestInv, StoreStage
  <2> QED
    BY <2>1 DEF HandleInv, FollowInv, Plays, VideoDone, BothDone, ChannelDone
<1>10. CASE StoreVideo("sc")
  <2>1. /\ UNCHANGED <<stage, pid, streams, streamHandle>>
        /\ pc["sc"] = "storeVideo" /\ pc'["sc"] = "time"
        /\ stage["sc"] = "audio"
    BY <1>10 DEF StoreVideo, RequestInv, StoreStage
  <2>2. /\ currentChannel'.video = pid["sc"]["video"]
        /\ currentChannel'.audio = pid["sc"]["audio"]
    BY <1>10 DEF StoreVideo, TaskInv, LabelInv, ShownOK, Channels
  <2> QED
    BY <2>1, <2>2
    DEF HandleInv, FollowInv, Plays, VideoDone, BothDone, ChannelDone
<1>11. CASE CheckTime("sc") \/ PublishDate("sc")
  <2>1. Quietly /\ ChannelDone /\ pc'["sc"] \in {"return", "free"}
        /\ pc["sc"] \in {"time", "date"}
    BY <1>11 DEF CheckTime, PublishDate, ChannelDone, TaskInv, LabelInv
  <2> QED
    BY <2>1 DEF HandleInv, FollowInv, Plays, VideoDone, BothDone
<1>12. CASE Return("sc")
  <2>1. /\ UNCHANGED <<streams, streamHandle, currentChannel>> /\ ChannelDone
        /\ pc["sc"] = "return" /\ pc'["sc"] = "loop"
    BY <1>12 DEF Return, ChannelDone
  <2> QED
    BY <2>1 DEF HandleInv, FollowInv, Plays, VideoDone, BothDone
<1>13. CASE PollFlag \/ ClearFlag \/ CallStart
  <2>1. /\ Quietly /\ stage'["sc"] \in {"pat", "pmt"}
        /\ pc["sc"] \in {"loop", "clear", "call"}
        /\ pc'["sc"] \in {"clear", "call", "free", "done"}
    BY <1>13 DEF PollFlag, ClearFlag, CallStart, RequestInv, StoreStage
  <2> QED
    BY <2>1 DEF HandleInv, FollowInv, Plays, VideoDone, BothDone, ChannelDone
<1>14. CASE DeinitEnter("sc") \/ JoinTask("sc")
  BY <1>14 DEF DeinitEnter, JoinTask, HandleInv
<1>15. CASE sectionReceivedCallback
  <2>1. /\ Quietly /\ UNCHANGED stage
        /\ \/ pc'["sc"] = pc["sc"]
           \/ pc["sc"] = "waiting" /\ pc'["sc"] = "woken"
    BY <1>15, CallbackFrame
  <2> QED
    BY <2>1 DEF HandleInv, FollowInv, Plays, VideoDone, BothDone, ChannelDone
<1>16. CASE UserStep \/ Fault
  BY <1>16, Frame, PlayFrame DEF Untouched
<1>17. CASE MainStep
  <2>1. CASE pc["sc"] # "done"
    BY <1>17, <2>1, Frame, MainWaitsForTask, PlayFrame DEF Untouched
  <2>2. CASE pc["sc"] = "done"
    <3>1. pc'["sc"] = "done" /\ UNCHANGED <<stage, streamHandle>>
      BY <1>17, <2>2, Frame DEF Untouched
    <3>2. stage["sc"] \in {"pat", "pmt"}
      BY <2>2 DEF RequestInv, StoreStage
    <3> QED
      BY <3>1, <3>2
      DEF HandleInv, FollowInv, VideoDone, BothDone, ChannelDone
  <2> QED
    BY <2>1, <2>2
<1>18. CASE UNCHANGED vars
  BY <1>18, PlayFrame DEF vars
<1> QED
  BY <1>1, <1>2, <1>3, <1>4, <1>5, <1>6, <1>7, <1>8, <1>9, <1>10, <1>11,
     <1>12, <1>13, <1>14, <1>15, <1>16, <1>17, <1>18, AloneSteps
  DEF TaskStep, StartChannel, streamControllerTask, TaskInv

(* PlayInv holds throughout.                                               *)
LEMMA PlayInvHolds ==
  ASSUME Alone, Reliable PROVE Spec => [](BaseInv /\ RequestInv /\ PlayInv)
<1>1. Init => PlayInv
  <2> SUFFICES ASSUME Init PROVE PlayInv
    OBVIOUS
  <2>1. pc["sc"] = "set" /\ stage["sc"] = "pat"
    BY ConstantFacts DEF Init
  <2>2. HandleInv
    BY <2>1 DEF Init, HandleInv, Kinds
  <2>3. FollowInv
    BY <2>1 DEF FollowInv, VideoDone, BothDone, ChannelDone
  <2> QED
    BY <2>2, <2>3 DEF PlayInv
<1>2. BaseInv /\ RequestInv /\ PlayInv /\ [Next]_vars => PlayInv'
  BY PlayStep
<1>3. FiltersSet
  BY DEF Reliable
<1> QED
  BY <1>1, <1>2, <1>3, RequestInvHolds, PTL DEF Spec

(* Between channel changes the player shows the video stream of the        *)
(* current channel and plays its audio stream, for any sequence of keys.   *)
THEOREM PlayerFollows ==
  ASSUME Alone, Reliable PROVE Spec => []StreamsFollowChannel
<1>1. ASSUME TypeInv, PlayInv PROVE StreamsFollowChannel
  <2> SUFFICES ASSUME pc["sc"] = "loop"
               PROVE  /\ PlayedBy("video") = {currentChannel.video} \ {NoPid}
                      /\ currentChannel.audio \in PlayedBy("audio") \cup {NoPid}
    BY DEF StreamsFollowChannel, Quiet
  <2>1. /\ Plays("video", currentChannel.video)
        /\ Plays("audio", currentChannel.audio)
    BY <1>1 DEF PlayInv, FollowInv, ChannelDone
  <2>2. NoHandle \notin StreamHandles
    BY ConstantsOK DEF ConstantsOK
  <2> QED
    BY <2>1, <2>2 DEF Plays, PlayedBy
<1>2. BaseInv /\ PlayInv => StreamsFollowChannel
  BY <1>1 DEF BaseInv
<1> QED
  BY <1>2, PlayInvHolds, PTL
=============================================================================
