----------------------- MODULE StreamRefinementProofs -----------------------
(* The keys, the task and startChannel implement ChannelSwitch: the proof  *)
(* of the refinement stated in StreamRefinement.                           *)
EXTENDS StreamRefinement, StreamSafetyProofs

(* Everything that holds under Solo whatever calls of libtdp fail.         *)
SafeInv == BaseInv /\ SoloInv /\ PatInv /\ TableInv

LEMMA SafeInvHolds == ASSUME Solo PROVE Spec => []SafeInv
<1>1. Alone /\ Signalled
  BY DEF Solo, Signalled
<1> QED
  BY <1>1, BaseInvHolds, PatInvHolds, TableInvHolds, PTL DEF SafeInv

(* The initial state of the receiver is one of ChannelSwitch.              *)
LEMMA SwitchInit == Init => Switch!Init
<1> SUFFICES ASSUME Init PROVE Switch!Init
  OBVIOUS
<1>1. /\ pc["sc"] = "set" /\ stage["sc"] = "pat" /\ pc["rc"] = "idle"
      /\ pc["main"] = "running"
  BY ConstantFacts DEF Init
<1>2. programNumber \in Int /\ currentChannel = NoChannel
  BY ConstantFacts DEF Init
<1> QED
  BY <1>1, <1>2 DEF Switch!Init, Pending, Tuning, Kinds, Stored, Storing

(* A step that ChannelSwitch does not see.                                 *)
Stutters ==
  /\ UNCHANGED programNumber
  /\ Pending' <=> Pending
  /\ Tuning' <=> Tuning
  /\ Tuning => chan'["sc"] = chan["sc"]
  /\ Stored' = Stored
  /\ pc'["main"] = "running" <=> pc["main"] = "running"

LEMMA StutterStep == Stutters => UNCHANGED Switch!vars
<1> SUFFICES ASSUME Stutters PROVE UNCHANGED Switch!vars
  OBVIOUS
<1>1. UNCHANGED programNumber /\ Pending' = Pending /\ Stored' = Stored
  BY DEF Stutters, Pending
<1>2. (IF Tuning THEN {chan["sc"]} ELSE {})'
        = IF Tuning THEN {chan["sc"]} ELSE {}
  BY DEF Stutters
<1>3. (pc["main"] # "running")' = (pc["main"] # "running")
  BY DEF Stutters
<1> QED
  BY <1>1, <1>2, <1>3 DEF Switch!vars

(* P+ and P- are requests: main is running as long as there are keys.      *)
LEMMA KeyIsRequest ==
  ASSUME SafeInv, channelUp \/ channelDown
  PROVE  Switch!Request
<1> USE ConstantFacts DEF SafeInv, BaseInv, TypeInv, TypeOK, ThreadsOK, Goto
<1>1. pc["main"] = "running" /\ pc'["main"] = "running"
  BY DEF channelUp, channelDown, ExitInv
<1>2. programNumber' \in Int
  BY DEF channelUp, channelDown, ProgramAbove, ProgramBelow, ControlOK, TablesOK
<1>3. Pending' = TRUE
  BY DEF channelUp, channelDown, Pending
<1>4. /\ pc'["sc"] = pc["sc"]
      /\ UNCHANGED <<stage, chan, pid, currentChannel>>
  BY DEF channelUp, channelDown, shown, locals
<1>5. (IF Tuning THEN {chan["sc"]} ELSE {})'
        = (IF Tuning THEN {chan["sc"]} ELSE {})
  BY <1>4 DEF Tuning
<1>6. Stored' = Stored
  BY <1>4 DEF Stored, Storing
<1> QED
  BY <1>1, <1>2, <1>3, <1>5, <1>6 DEF Switch!Request

(* The call of startChannel takes the request up.                          *)
LEMMA CallIsTake ==
  ASSUME SafeInv, RequestInv, CallStart
  PROVE  Switch!Take
<1> USE ConstantFacts DEF SafeInv, BaseInv, TypeInv, TypeOK, ThreadsOK, LocalsOK, Goto,
        Enter
<1>1. Pending = TRUE /\ Pending' \in BOOLEAN
  BY DEF CallStart, Pending
<1>2. ~Tuning
  BY DEF CallStart, Tuning
<1>3. Tuning' /\ chan'["sc"] = programNumber
  BY DEF CallStart, Tuning
<1>4. Stored' = Stored
  BY DEF CallStart, Stored, Storing, shown
<1>5. UNCHANGED programNumber /\ pc'["main"] = pc["main"]
  BY DEF CallStart, control
<1> QED
  BY <1>1, <1>2, <1>3, <1>4, <1>5 DEF Switch!Take

(* The store of the number settles the channel: the other two fields are   *)
(* the pids that were picked, and those are the program's own.             *)
LEMMA StoreIsSettle ==
  ASSUME SafeInv, RequestInv, StoreNum("sc")
  PROVE  Switch!Settle
<1> USE ConstantFacts DEF SafeInv, BaseInv, TypeInv, TypeOK, ThreadsOK, LocalsOK, Goto,
        locals, control
<1>1. Tuning /\ ~Tuning'
  BY DEF StoreNum, Tuning, RequestInv, StoreStage, Kinds
<1>2. chan["sc"] + 1 \in Programs
  BY DEF StoreNum, SoloInv, PidInv
<1>3. /\ pid["sc"]["audio"] \in StreamPids(chan["sc"] + 1, "audio") \cup {NoPid}
      /\ pid["sc"]["video"] \in StreamPids(chan["sc"] + 1, "video") \cup {NoPid}
  BY DEF SoloInv, PidInv, Kinds
<1>4. Stored' = [num |-> chan["sc"] + 1, audio |-> pid["sc"]["audio"],
                 video |-> pid["sc"]["video"]]
  BY DEF StoreNum, Stored, Storing
<1>5. Stored' \in ChannelsOf(chan["sc"])
  BY <1>2, <1>3, <1>4 DEF ChannelsOf
<1>6. Pending' = Pending
  BY DEF StoreNum, Pending
<1>7. UNCHANGED programNumber /\ pc'["main"] = pc["main"]
  BY DEF StoreNum
<1> QED
  BY <1>1, <1>5, <1>6, <1>7 DEF Switch!Settle

(* EXIT closes.                                                            *)
LEMMA ExitIsClose ==
  ASSUME SafeInv, Exit
  PROVE  Switch!Close
<1> USE ConstantFacts DEF SafeInv, BaseInv, TypeInv, TypeOK, ThreadsOK, locals, control,
        shown
<1>1. Pending' = Pending /\ Stored' = Stored
  BY DEF Exit, Pending, Stored, Storing
<1>2. (IF Tuning THEN {chan["sc"]} ELSE {})'
        = (IF Tuning THEN {chan["sc"]} ELSE {})
  BY DEF Exit, Tuning
<1>3. /\ UNCHANGED programNumber
      /\ pc["main"] = "running" /\ pc'["main"] # "running"
  BY DEF Exit
<1> QED
  BY <1>1, <1>2, <1>3 DEF Switch!Close

(* The other steps of the task are hidden: startChannel reaches the store, *)
(* since every filter is set and every stream created.                     *)
LEMMA TaskIsHidden ==
  ASSUME Solo, Reliable, SafeInv, RequestInv, PlayInv, Running, TaskStep
  PROVE  Stutters \/ CallStart \/ StoreNum("sc")
<1>0. UNCHANGED programNumber /\ pc'["main"] = pc["main"] /\ pc'["rc"] = pc["rc"]
  BY TaskFrame DEF SafeInv, BaseInv
<1> USE <1>0, ConstantFacts DEF SafeInv, BaseInv, TypeInv, TypeOK, ThreadsOK, LocalsOK,
        StageInv, Kinds, Goto, Enter, locals, control, shown, Stutters
<1>1. CASE FreeFilter("sc") \/ Wait("sc")
  BY <1>1 DEF FreeFilter, Wait, Pending, Tuning, Stored, Storing
<1>2. CASE SetFilter("sc")
  <2>1. pc["sc"] = "set" /\ pc'["sc"] \in {"register", "wait"}
    BY <1>2, FilterIsSet DEF SetFilter, Reliable
  <2>2. UNCHANGED <<stage, chan, pid, currentChannel, changeChannel>>
    BY <1>2 DEF SetFilter
  <2>3. stage["sc"] = "pmt" => pc'["sc"] = "wait"
    BY <1>2, <2>1 DEF SetFilter
  <2> QED
    BY <2>1, <2>2, <2>3 DEF Pending, Tuning, Stored, Storing
<1>3. CASE Resume("sc")
  BY <1>3 DEF Resume, Pending, Tuning, Stored, Storing
<1>4. CASE RegisterSectionCallback
  BY <1>4
  DEF RegisterSectionCallback, Pending, Tuning, Stored, Storing, SoloInv,
      ScanInv
<1>5. CASE ScanPmt("sc")
  BY <1>5 DEF ScanPmt, Pending, Tuning, Stored, Storing, SoloInv, ScanInv
<1>6. CASE RemoveStream("sc") \/ ZeroHandle("sc")
  BY <1>6
  DEF RemoveStream, ZeroHandle, AfterStream, Pending, Tuning, Stored, Storing
<1>7. CASE CreateStream("sc")
  <2>1. /\ AfterStream("sc") /\ pc["sc"] = "create"
        /\ UNCHANGED <<chan, pid, currentChannel, changeChannel>>
    BY <1>7, StreamIsCreated DEF CreateStream, Reliable
  <2> QED
    BY <2>1 DEF AfterStream, Pending, Tuning, Stored, Storing
<1>8. CASE StoreAudio("sc")
  BY <1>8 DEF StoreAudio, Pending, Tuning, Stored, Storing
<1>9. CASE StoreVideo("sc")
  <2>1. /\ currentChannel \in Channels
        /\ currentChannel' = [currentChannel EXCEPT !.video = pid["sc"]["video"]]
        /\ currentChannel.num = chan["sc"] + 1
        /\ currentChannel.audio = pid["sc"]["audio"]
    BY <1>9 DEF StoreVideo, ShownOK, SoloInv, StoreInv
  <2>2. currentChannel' = [num |-> chan["sc"] + 1, audio |-> pid["sc"]["audio"],
                           video |-> pid["sc"]["video"]]
    BY <2>1 DEF Channels
  <2>3. Stored' = Stored
    BY <1>9, <2>2 DEF StoreVideo, Stored, Storing
  <2> QED
    BY <1>9, <2>3 DEF StoreVideo, Pending, Tuning
<1>10. CASE CheckTime("sc") \/ PublishDate("sc")
  BY <1>10
  DEF CheckTime, PublishDate, Pending, Tuning, Stored, Storing, TableInv,
      PatInv, DateInv
<1>11. CASE Return("sc")
  BY <1>11
  DEF Return, DropLocals, Pending, Tuning, Stored, Storing, PatInv
<1>12. CASE PollFlag \/ ClearFlag
  BY <1>12
  DEF PollFlag, ClearFlag, Pending, Tuning, Stored, Storing
<1>13. CASE DeinitEnter("sc") \/ JoinTask("sc")
  BY <1>13 DEF DeinitEnter, JoinTask, PlayInv, HandleInv
<1> QED
  BY <1>1, <1>2, <1>3, <1>4, <1>5, <1>6, <1>7, <1>8, <1>9, <1>10, <1>11,
     <1>12, <1>13
  DEF TaskStep, StartChannel, streamControllerTask

(* The callback, the second half of a key, INFO and main after EXIT are    *)
(* hidden as well.                                                         *)
LEMMA OthersAreHidden ==
  ASSUME Solo, SafeInv, Running,
         \/ sectionReceivedCallback \/ RaiseFlag \/ getChannelInfo
         \/ MainStep \/ Fault
  PROVE  Stutters
<1> USE ConstantFacts DEF SafeInv, BaseInv, TypeInv, TypeOK, ThreadsOK, LocalsOK, Goto,
        locals, control, shown, Stutters, Pending, Tuning, Stored, Storing
<1>1. CASE sectionReceivedCallback
  BY <1>1, CallbackFrame DEF Solo, Signalled
<1>2. CASE RaiseFlag \/ getChannelInfo
  BY <1>2 DEF RaiseFlag, getChannelInfo
<1>3. CASE MainStep
  <2>1. pc["main"] # "running" /\ pc'["main"] # "running"
    BY <1>3, Frame
    DEF MainStep, streamControllerDeinit, DeinitEnter, JoinTask, Joined,
        ReleaseDevice, FreeTables, DeinitDone, DeinitReturn
  <2> QED
    BY <1>3, <2>1, Frame DEF Untouched
<1>4. CASE Fault
  BY <1>4, Frame DEF Untouched
<1> QED
  BY <1>1, <1>2, <1>3, <1>4

(* Every step of the receiver is a step of ChannelSwitch or hidden.        *)
LEMMA SwitchStep ==
  ASSUME Solo, Reliable, SafeInv, RequestInv, PlayInv, [Next]_vars
  PROVE  [Switch!Next]_(Switch!vars)
<1>1. DeinitInv /\ Signalled
  BY DEF SafeInv, SoloInv, Solo
<1>2. CASE Running /\ TaskStep
  <2>1. CASE Stutters
    BY <2>1, StutterStep
  <2>2. CASE CallStart
    BY <2>2, CallIsTake DEF Switch!Next
  <2>3. CASE StoreNum("sc")
    BY <2>3, StoreIsSettle DEF Switch!Next
  <2> QED
    BY <1>2, <2>1, <2>2, <2>3, TaskIsHidden
<1>3. CASE Running /\ UserStep
  <2>1. CASE channelUp \/ channelDown
    BY <2>1, KeyIsRequest DEF Switch!Next
  <2>2. CASE Exit
    BY <2>2, ExitIsClose DEF Switch!Next
  <2>3. CASE RaiseFlag \/ getChannelInfo
    BY <1>3, <2>3, OthersAreHidden, StutterStep
  <2> QED
    BY <1>3, <2>1, <2>2, <2>3 DEF UserStep, Keys
<1>4. CASE Running /\ (sectionReceivedCallback \/ MainStep \/ Fault)
  BY <1>4, OthersAreHidden, StutterStep
<1>5. CASE UNCHANGED vars
  <2>1. Stutters
    BY <1>5
    DEF vars, control, locals, shown, Stutters, Pending, Tuning, Stored,
        Storing
  <2> QED
    BY <2>1, StutterStep
<1> QED
  BY <1>1, <1>2, <1>3, <1>4, <1>5, SignalledSteps

(* With streamControllerTask as the only caller of startChannel and libtdp *)
(* calls that succeed, the keys, the task and the callback implement       *)
(* ChannelSwitch, for any PAT and any PMTs: every request is taken up, in  *)
(* whatever order their steps come, and the receiver settles only on the   *)
(* program it took up, with pids of that program.                          *)
THEOREM Implements == ASSUME Solo, Reliable PROVE Spec => SwitchesChannels
<1>1. Init => Switch!Init
  BY SwitchInit
<1>2. SafeInv /\ RequestInv /\ PlayInv /\ [Next]_vars
        => [Switch!Next]_(Switch!vars)
  BY SwitchStep
<1>3. Alone
  BY DEF Solo, Signalled
<1> QED
  BY <1>1, <1>2, <1>3, SafeInvHolds, PlayInvHolds, PTL
  DEF Spec, SwitchesChannels, Switch!Spec
=============================================================================
