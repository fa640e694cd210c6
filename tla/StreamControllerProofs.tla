------------------------ MODULE StreamControllerProofs ------------------------
(* Proofs about StreamController, for every value of its constants.        *)
EXTENDS StreamController, TLAPS

-----------------------------------------------------------------------------
(* Type correctness.  The table a thread walks and the table the callback  *)
(* fills are tied together by two further conjuncts.                       *)

(* A thread that sets a filter works on a table, one in the stream part of *)
(* startChannel on a video or an audio stream.                             *)
StageInv ==
  \A t \in Starters :
    /\ pc[t] \in {"free", "set"} => stage[t] \in {"pat", "pmt", "tdt", "tot"}
    /\ pc[t] \in {"remove", "zero", "create"} => stage[t] \in Kinds

(* The section the callback parses is one that is broadcast, and the PMT   *)
(* it fills is the one it received.                                        *)
CbInv ==
  cb.pc # "idle" =>
    /\ cb.want \in Broadcast
    /\ cb.want.table = "pmt" => pmtTable.prog = cb.want.prog

TypeInv == TypeOK /\ StageInv /\ CbInv

(* What the assumptions on the constants give the proofs below.            *)
LEMMA ConstantFacts ==
  /\ NServices \in Nat /\ Programs \subseteq Nat \ {0}
  /\ \A p \in Programs : Pmt[p] \in Seq(Elementary)
  /\ \A p \in Programs : Len(Pmt[p]) \in Nat
  /\ Pids \subseteq Int /\ NoPid \notin Pids /\ 0 \notin Pids
  /\ ConfigProgram \in Int /\ DialNumbers \subseteq Int
  /\ "sc" \in Starters /\ Starters \subseteq Threads
  /\ "rc" \in Threads \ Starters /\ "main" \in Threads \ Starters
<1>1. NServices \in Nat /\ Programs \subseteq Nat \ {0}
  BY ConstantsOK DEF ConstantsOK, Programs
<1>2. \A p \in Programs : Pmt[p] \in Seq(Elementary)
  BY ConstantsOK DEF ConstantsOK
<1>3. \A p \in Programs : Len(Pmt[p]) \in Nat
  BY <1>2
<1>4. Pids \subseteq Int /\ NoPid \notin Pids /\ 0 \notin Pids
  BY ConstantsOK DEF ConstantsOK, NoPid
<1>5. ConfigProgram \in Int /\ DialNumbers \subseteq Int
  BY ConstantsOK DEF ConstantsOK
<1>6. /\ "sc" \in Starters /\ Starters \subseteq Threads
      /\ "rc" \in Threads \ Starters /\ "main" \in Threads \ Starters
  BY ConstantsOK DEF ConstantsOK, Starters, Threads
<1> QED
  BY <1>1, <1>2, <1>3, <1>4, <1>5, <1>6

(* The sections a filter may be set for.                                   *)
LEMMA WantFacts ==
  /\ NoWant \in Wants /\ Broadcast \subseteq Wants
  /\ \A p \in Programs \cup {0} : Want("pmt", p) \in Wants
  /\ \A tab \in {"pat", "tdt", "tot"} : Want(tab, 0) \in Wants
  /\ \A w \in Broadcast : w.table = "pmt" => w.prog \in Programs
  /\ NoWant \notin Broadcast /\ Want("pmt", 0) \notin Broadcast
<1>1. NoWant \in Wants /\ Broadcast \subseteq Wants
  BY DEF Wants
<1>2. \A p \in Programs \cup {0} : Want("pmt", p) \in Wants
  BY DEF Wants, Broadcast
<1>3. \A tab \in {"pat", "tdt", "tot"} : Want(tab, 0) \in Wants
  BY DEF Wants, Broadcast
<1>4. \A w \in Broadcast : w.table = "pmt" => w.prog \in Programs
  BY DEF Broadcast, Want
<1>5. NoWant \notin Broadcast /\ Want("pmt", 0) \notin Broadcast
  BY ConstantFacts DEF Broadcast, Want, NoWant
<1> QED
  BY <1>1, <1>2, <1>3, <1>4, <1>5

(* The initial state is well typed.                                        *)
LEMMA TypeInit == Init => TypeInv
<1> SUFFICES ASSUME Init PROVE TypeInv
  OBVIOUS
<1>1. ControlOK
  BY ConstantFacts DEF Init, ControlOK
<1>2. TablesOK
  <2>1. /\ pmtTable \in [prog : Programs \cup {0}, count : Nat]
        /\ pmtTable.prog = 0 /\ pmtTable.count = 0
    BY DEF Init
  <2>2. PmtOK
    BY <2>1 DEF PmtOK
  <2>3. serviceInfoCount \in 0 .. NServices /\ patFilled \in 0 .. NServices
    BY ConstantFacts DEF Init
  <2> QED
    BY <2>1, <2>2, <2>3 DEF Init, TablesOK, Dates
<1>3. ShownOK
  BY DEF Init, NoChannel, ShownOK, Channels, MaybePids, Dates
<1>4. HandlesOK /\ DeviceOK
  BY WantFacts DEF Init, HandlesOK, DeviceOK
<1>5. LocalsOK
  <2>1. stage \in [Starters -> Stages]
    BY DEF Init, Stages
  <2>2. /\ chan \in [Starters -> Int] /\ idx \in [Starters -> Nat]
        /\ pid \in [Starters -> [Kinds -> Pids \cup {NoPid}]]
    BY DEF Init, NoLocals
  <2> QED
    BY <2>1, <2>2 DEF LocalsOK
<1>6. ThreadsOK
  <2>1. pc \in [Threads -> Labels]
    <3>1. "set" \in Labels /\ "running" \in Labels /\ "idle" \in Labels
      BY DEF Labels
    <3> QED
      BY <3>1 DEF Init
  <2>2. cb \in [pc : {"idle", "parse", "signal"}, want : Wants]
    BY WantFacts DEF Init
  <2> QED
    BY <2>1, <2>2 DEF Init, ThreadsOK
<1>7. StageInv
  BY ConstantFacts DEF Init, StageInv
<1>8. CbInv
  BY DEF Init, CbInv
<1> QED
  BY <1>1, <1>2, <1>3, <1>4, <1>5, <1>6, <1>7, <1>8 DEF TypeInv, TypeOK

(* What a step leaves alone keeps its type.                                *)
LEMMA TypeFrame ==
  /\ ControlOK /\ UNCHANGED control => ControlOK'
  /\ TablesOK /\ UNCHANGED tables => TablesOK'
  /\ ShownOK /\ UNCHANGED shown => ShownOK'
  /\ HandlesOK /\ UNCHANGED handles => HandlesOK'
  /\ DeviceOK /\ UNCHANGED device => DeviceOK'
  /\ LocalsOK /\ UNCHANGED locals => LocalsOK'
  /\ CbInv /\ UNCHANGED <<cb, tables>> => CbInv'
<1>1. ControlOK /\ UNCHANGED control => ControlOK'
  BY DEF ControlOK, control
<1>2. TablesOK /\ UNCHANGED tables => TablesOK'
  BY DEF TablesOK, PmtOK, tables
<1>3. ShownOK /\ UNCHANGED shown => ShownOK'
  BY DEF ShownOK, shown
<1>4. HandlesOK /\ UNCHANGED handles => HandlesOK'
  BY DEF HandlesOK, handles
<1>5. DeviceOK /\ UNCHANGED device => DeviceOK'
  BY DEF DeviceOK, device
<1>6. LocalsOK /\ UNCHANGED locals => LocalsOK'
  BY DEF LocalsOK, locals
<1>7. CbInv /\ UNCHANGED <<cb, tables>> => CbInv'
  BY DEF CbInv, tables
<1> QED
  BY <1>1, <1>2, <1>3, <1>4, <1>5, <1>6, <1>7

(* The element startChannel's loop reads is one of the PMT that is stored. *)
LEMMA ScanElement ==
  ASSUME TypeInv, NEW t \in Starters, idx[t] < pmtTable.count
  PROVE  /\ pmtTable.prog \in Programs
         /\ idx[t] + 1 \in 1 .. Len(Pmt[pmtTable.prog])
         /\ Pmt[pmtTable.prog][idx[t] + 1] \in Elementary
<1>1. idx[t] \in Nat /\ pmtTable.count \in Nat
  BY DEF TypeInv, TypeOK, LocalsOK, TablesOK
<1>2. pmtTable.prog \in Programs \cup {0} /\ PmtOK
  BY DEF TypeInv, TypeOK, TablesOK
<1>3. pmtTable.prog # 0
  BY <1>1, <1>2 DEF PmtOK
<1>4. pmtTable.prog \in Programs
  BY <1>2, <1>3
<1>5. idx[t] + 1 \in 1 .. Len(Pmt[pmtTable.prog])
  BY <1>1, <1>2, <1>3, <1>4, ConstantFacts DEF PmtOK
<1>6. Pmt[pmtTable.prog] \in Seq(Elementary)
  BY <1>4, ConstantFacts
<1>7. Pmt[pmtTable.prog][idx[t] + 1] \in Elementary
  BY <1>5, <1>6
<1> QED
  BY <1>4, <1>5, <1>7

(* startChannel's loop keeps the type of its locals.                       *)
LEMMA ScanType ==
  ASSUME TypeInv, NEW t \in Starters, ScanPmt(t)
  PROVE  LocalsOK'
<1>1. CASE idx[t] < pmtTable.count
  <2> DEFINE e == Pmt[pmtTable.prog][idx[t] + 1]
  <2>1. e.pid \in Pids
    BY <1>1, ScanElement DEF Elementary
  <2>2. /\ pid' = IF e.type \in Kinds /\ pid[t][e.type] = NoPid
                  THEN [pid EXCEPT ![t] = [@ EXCEPT ![e.type] = e.pid]]
                  ELSE pid
        /\ idx' = [idx EXCEPT ![t] = @ + 1]
        /\ UNCHANGED <<stage, chan>>
    <3>1. ~(idx[t] >= pmtTable.count)
      BY <1>1 DEF TypeInv, TypeOK, LocalsOK, TablesOK
    <3> QED
      BY <3>1 DEF ScanPmt
  <2> HIDE DEF e
  <2>3. pid' \in [Starters -> [Kinds -> Pids \cup {NoPid}]]
    BY <2>1, <2>2 DEF TypeInv, TypeOK, LocalsOK
  <2> QED
    BY <2>2, <2>3 DEF TypeInv, TypeOK, LocalsOK
<1>2. CASE ~(idx[t] < pmtTable.count)
  BY <1>2 DEF ScanPmt, TypeInv, TypeOK, LocalsOK, Enter, Stages
<1> QED
  BY <1>1, <1>2


(* Every step keeps the types: one case per action, in it one step per     *)
(* part of the state that the action changes.                              *)
LEMMA TypeStep == TypeInv /\ [Next]_vars => TypeInv'
<1> SUFFICES ASSUME TypeInv, [Next]_vars PROVE TypeInv'
  OBVIOUS
<1> USE ConstantFacts DEF TypeInv, TypeOK, ThreadsOK, StageInv, Goto, Enter
<1>1. ASSUME NEW t \in Starters, FreeFilter(t) PROVE TypeInv'
  <2>1. pc' \in [Threads -> Labels]
    BY <1>1 DEF FreeFilter, Labels
  <2>2. StageInv'
    BY <1>1 DEF FreeFilter, LocalsOK, Stages, Kinds, locals
  <2>3. DeviceOK'
    BY <1>1, WantFacts DEF FreeFilter, DeviceOK, Freed
  <2> QED
    BY <1>1, <2>1, <2>2, <2>3, TypeFrame DEF FreeFilter
<1>2. ASSUME NEW t \in Starters, SetFilter(t) PROVE TypeInv'
  <2>1. pc' \in [Threads -> Labels]
    BY <1>2 DEF SetFilter, Labels
  <2>2. StageInv'
    BY <1>2 DEF SetFilter, LocalsOK, Stages, Kinds, locals
  <2>3. PatEntry(chan[t] + 1) \in Programs \cup {0}
    BY <1>2, WantFacts DEF SetFilter, PatEntry, TablesOK, Programs, LocalsOK
  <2>4. Requested(t) \in Wants
    BY <1>2, WantFacts, <2>3 DEF SetFilter, Requested
  <2>5. DeviceOK' /\ HandlesOK'
    BY <1>2, WantFacts, <2>4 DEF SetFilter, DeviceOK, HandlesOK
  <2> QED
    BY <1>2, <2>1, <2>2, <2>3, <2>4, <2>5, TypeFrame DEF SetFilter
<1>3. ASSUME NEW t \in Starters, Wait(t) PROVE TypeInv'
  <2>1. pc' \in [Threads -> Labels]
    BY <1>3 DEF Wait, Labels
  <2>2. StageInv'
    BY <1>3 DEF Wait, LocalsOK, Stages, Kinds, locals
  <2> QED
    BY <1>3, <2>1, <2>2, TypeFrame DEF Wait
<1>4. ASSUME NEW t \in Starters, WakeSpuriously(t) PROVE TypeInv'
  <2>1. pc' \in [Threads -> Labels]
    BY <1>4 DEF WakeSpuriously, Labels
  <2>2. StageInv'
    BY <1>4 DEF WakeSpuriously, LocalsOK, Stages, Kinds, locals
  <2> QED
    BY <1>4, <2>1, <2>2, TypeFrame DEF WakeSpuriously
<1>5. ASSUME NEW t \in Starters, Resume(t) PROVE TypeInv'
  <2>1. pc' \in [Threads -> Labels]
    BY <1>5 DEF Resume, Labels
  <2>2. StageInv'
    BY <1>5 DEF Resume, LocalsOK, Stages, Kinds, locals
  <2>3. LocalsOK'
    BY <1>5 DEF Resume, LocalsOK, Stages
  <2> QED
    BY <1>5, <2>1, <2>2, <2>3, TypeFrame DEF Resume
<1>6. ASSUME NEW t \in Starters, ScanPmt(t) PROVE TypeInv'
  <2>1. pc' \in [Threads -> Labels]
    BY <1>6 DEF ScanPmt, Labels
  <2>2. StageInv'
    BY <1>6 DEF ScanPmt, LocalsOK, Stages, Kinds, locals
  <2>3. LocalsOK'
    BY <1>6, ScanType
  <2> QED
    BY <1>6, <2>1, <2>2, <2>3, TypeFrame DEF ScanPmt
<1>7. ASSUME NEW t \in Starters, RemoveStream(t) PROVE TypeInv'
  <2>1. pc' \in [Threads -> Labels]
    BY <1>7 DEF RemoveStream, Labels, AfterStream
  <2>2. StageInv'
    BY <1>7 DEF RemoveStream, LocalsOK, Stages, Kinds, locals, AfterStream
  <2>3. LocalsOK'
    BY <1>7 DEF RemoveStream, LocalsOK, Stages, AfterStream
  <2>4. DeviceOK'
    BY <1>7 DEF RemoveStream, DeviceOK, Removed
  <2> QED
    BY <1>7, <2>1, <2>2, <2>3, <2>4, TypeFrame DEF RemoveStream
<1>8. ASSUME NEW t \in Starters, ZeroHandle(t) PROVE TypeInv'
  <2>1. pc' \in [Threads -> Labels]
    BY <1>8 DEF ZeroHandle, Labels, AfterStream
  <2>2. StageInv'
    BY <1>8 DEF ZeroHandle, LocalsOK, Stages, Kinds, locals, AfterStream
  <2>3. LocalsOK'
    BY <1>8 DEF ZeroHandle, LocalsOK, Stages, AfterStream
  <2>4. HandlesOK'
    BY <1>8 DEF ZeroHandle, HandlesOK
  <2> QED
    BY <1>8, <2>1, <2>2, <2>3, <2>4, TypeFrame DEF ZeroHandle
<1>9. ASSUME NEW t \in Starters, CreateStream(t) PROVE TypeInv'
  <2>1. pc' \in [Threads -> Labels]
    BY <1>9 DEF CreateStream, Labels, AfterStream
  <2>2. StageInv'
    BY <1>9 DEF CreateStream, LocalsOK, Stages, Kinds, locals, AfterStream
  <2>3. LocalsOK'
    BY <1>9 DEF CreateStream, LocalsOK, Stages, AfterStream
  <2>4. pid[t][stage[t]] \in Pids \cup {NoPid}
    BY <1>9 DEF CreateStream, LocalsOK
  <2>5. DeviceOK'
    BY <1>9, <2>4 DEF CreateStream, DeviceOK
  <2>6. HandlesOK'
    BY <1>9 DEF CreateStream, HandlesOK
  <2> QED
    BY <1>9, <2>1, <2>2, <2>3, <2>4, <2>5, <2>6, TypeFrame DEF CreateStream
<1>10. ASSUME NEW t \in Starters, StoreNum(t) PROVE TypeInv'
  <2>1. pc' \in [Threads -> Labels]
    BY <1>10 DEF StoreNum, Labels
  <2>2. StageInv'
    BY <1>10 DEF StoreNum, LocalsOK, Stages, Kinds, locals
  <2>3. chan[t] + 1 \in Int
    BY <1>10 DEF StoreNum, LocalsOK
  <2>4. currentChannel' \in Channels
    BY <1>10, <2>3 DEF StoreNum, ShownOK, Channels
  <2>5. ShownOK'
    BY <1>10, <2>4 DEF StoreNum, ShownOK
  <2> QED
    BY <1>10, <2>1, <2>2, <2>3, <2>4, <2>5, TypeFrame DEF StoreNum
<1>11. ASSUME NEW t \in Starters, StoreAudio(t) PROVE TypeInv'
  <2>1. pc' \in [Threads -> Labels]
    BY <1>11 DEF StoreAudio, Labels
  <2>2. StageInv'
    BY <1>11 DEF StoreAudio, LocalsOK, Stages, Kinds, locals
  <2>3. pid[t]["audio"] \in MaybePids
    BY <1>11 DEF StoreAudio, LocalsOK, Kinds, MaybePids
  <2>4. currentChannel' \in Channels
    BY <1>11, <2>3 DEF StoreAudio, ShownOK, Channels
  <2>5. ShownOK'
    BY <1>11, <2>4 DEF StoreAudio, ShownOK
  <2> QED
    BY <1>11, <2>1, <2>2, <2>3, <2>4, <2>5, TypeFrame DEF StoreAudio
<1>12. ASSUME NEW t \in Starters, StoreVideo(t) PROVE TypeInv'
  <2>1. pc' \in [Threads -> Labels]
    BY <1>12 DEF StoreVideo, Labels
  <2>2. StageInv'
    BY <1>12 DEF StoreVideo, LocalsOK, Stages, Kinds, locals
  <2>3. pid[t]["video"] \in MaybePids
    BY <1>12 DEF StoreVideo, LocalsOK, Kinds, MaybePids
  <2>4. currentChannel' \in Channels
    BY <1>12, <2>3 DEF StoreVideo, ShownOK, Channels
  <2>5. ShownOK'
    BY <1>12, <2>4 DEF StoreVideo, ShownOK
  <2> QED
    BY <1>12, <2>1, <2>2, <2>3, <2>4, <2>5, TypeFrame DEF StoreVideo
<1>13. ASSUME NEW t \in Starters, CheckTime(t) PROVE TypeInv'
  <2>1. pc' \in [Threads -> Labels]
    BY <1>13 DEF CheckTime, Labels
  <2>2. StageInv'
    BY <1>13 DEF CheckTime, LocalsOK, Stages, Kinds, locals
  <2>3. LocalsOK'
    BY <1>13 DEF CheckTime, LocalsOK, Stages
  <2> QED
    BY <1>13, <2>1, <2>2, <2>3, TypeFrame DEF CheckTime
<1>14. ASSUME NEW t \in Starters, PublishDate(t) PROVE TypeInv'
  <2>1. pc' \in [Threads -> Labels]
    BY <1>14 DEF PublishDate, Labels
  <2>2. StageInv'
    BY <1>14 DEF PublishDate, LocalsOK, Stages, Kinds, locals
  <2>3. ControlOK' /\ ShownOK'
    BY <1>14 DEF PublishDate, ControlOK, ShownOK, TablesOK
  <2> QED
    BY <1>14, <2>1, <2>2, <2>3, TypeFrame DEF PublishDate
<1>15. ASSUME NEW t \in Starters, Return(t) PROVE TypeInv'
  <2>1. pc' \in [Threads -> Labels]
    BY <1>15 DEF Return, Labels, DropLocals
  <2>2. StageInv'
    BY <1>15 DEF Return, LocalsOK, Stages, Kinds, locals, DropLocals
  <2>3. LocalsOK'
    BY <1>15 DEF Return, LocalsOK, Stages, DropLocals, NoLocals
  <2>4. ControlOK'
    BY <1>15 DEF Return, ControlOK
  <2> QED
    BY <1>15, <2>1, <2>2, <2>3, <2>4, TypeFrame DEF Return
<1>16. ASSUME RegisterSectionCallback PROVE TypeInv'
  <2>1. pc' \in [Threads -> Labels]
    BY <1>16 DEF RegisterSectionCallback, Labels
  <2>2. StageInv'
    BY <1>16 DEF RegisterSectionCallback, LocalsOK, Stages, Kinds, locals
  <2>3. DeviceOK'
    BY <1>16 DEF RegisterSectionCallback, DeviceOK
  <2> QED
    BY <1>16, <2>1, <2>2, <2>3, TypeFrame DEF RegisterSectionCallback
<1>17. ASSUME PollFlag PROVE TypeInv'
  <2>1. pc' \in [Threads -> Labels]
    BY <1>17 DEF PollFlag, Labels
  <2>2. StageInv'
    BY <1>17 DEF PollFlag, LocalsOK, Stages, Kinds, locals
  <2> QED
    BY <1>17, <2>1, <2>2, TypeFrame DEF PollFlag
<1>18. ASSUME ClearFlag PROVE TypeInv'
  <2>1. pc' \in [Threads -> Labels]
    BY <1>18 DEF ClearFlag, Labels
  <2>2. StageInv'
    BY <1>18 DEF ClearFlag, LocalsOK, Stages, Kinds, locals
  <2>3. ControlOK'
    BY <1>18 DEF ClearFlag, ControlOK
  <2> QED
    BY <1>18, <2>1, <2>2, <2>3, TypeFrame DEF ClearFlag
<1>19. ASSUME CallStart PROVE TypeInv'
  <2>1. pc' \in [Threads -> Labels]
    BY <1>19 DEF CallStart, Labels
  <2>2. StageInv'
    BY <1>19 DEF CallStart, LocalsOK, Stages, Kinds, locals
  <2>3. LocalsOK'
    BY <1>19 DEF CallStart, LocalsOK, Stages, ControlOK
  <2> QED
    BY <1>19, <2>1, <2>2, <2>3, TypeFrame DEF CallStart
<1>20. ASSUME NEW t \in Dialers, NEW n \in DialNumbers,
             changeChannelKey(t, n) PROVE TypeInv'
  <2>1. pc' \in [Threads -> Labels]
    BY <1>20 DEF changeChannelKey, Labels, Starters
  <2>2. StageInv'
    BY <1>20 DEF changeChannelKey, LocalsOK, Stages, Kinds, locals, Starters
  <2>3. LocalsOK'
    BY <1>20 DEF changeChannelKey, LocalsOK, Stages, Starters
  <2> QED
    BY <1>20, <2>1, <2>2, <2>3, TypeFrame DEF changeChannelKey
<1>21. ASSUME channelUp PROVE TypeInv'
  <2>1. pc' \in [Threads -> Labels]
    BY <1>21 DEF channelUp, Labels
  <2>2. StageInv'
    BY <1>21 DEF channelUp, LocalsOK, Stages, Kinds, locals
  <2>3. ControlOK'
    BY <1>21 DEF channelUp, ControlOK, ProgramAbove, TablesOK
  <2> QED
    BY <1>21, <2>1, <2>2, <2>3, TypeFrame DEF channelUp
<1>22. ASSUME channelDown PROVE TypeInv'
  <2>1. pc' \in [Threads -> Labels]
    BY <1>22 DEF channelDown, Labels
  <2>2. StageInv'
    BY <1>22 DEF channelDown, LocalsOK, Stages, Kinds, locals
  <2>3. ControlOK'
    BY <1>22 DEF channelDown, ControlOK, ProgramBelow, TablesOK
  <2> QED
    BY <1>22, <2>1, <2>2, <2>3, TypeFrame DEF channelDown
<1>23. ASSUME RaiseFlag PROVE TypeInv'
  <2>1. pc' \in [Threads -> Labels]
    BY <1>23 DEF RaiseFlag, Labels
  <2>2. StageInv'
    BY <1>23 DEF RaiseFlag, LocalsOK, Stages, Kinds, locals
  <2>3. ControlOK'
    BY <1>23 DEF RaiseFlag, ControlOK
  <2> QED
    BY <1>23, <2>1, <2>2, <2>3, TypeFrame DEF RaiseFlag
<1>24. ASSUME getChannelInfo PROVE TypeInv'
  <2>1. pc' \in [Threads -> Labels]
    BY <1>24 DEF getChannelInfo, Labels
  <2>2. StageInv'
    BY <1>24 DEF getChannelInfo, LocalsOK, Stages, Kinds, locals
  <2>3. ShownOK'
    <3>1. NoChannel \in Channels
      BY DEF NoChannel, Channels, MaybePids
    <3>2. channelInfo' \in Channels
      BY <1>24, <3>1 DEF getChannelInfo, ShownOK, Channels
    <3> QED
      BY <1>24, <3>2 DEF getChannelInfo, ShownOK
  <2> QED
    BY <1>24, <2>1, <2>2, <2>3, TypeFrame DEF getChannelInfo
<1>25. ASSUME Exit PROVE TypeInv'
  <2>1. pc' \in [Threads -> Labels]
    BY <1>25 DEF Exit, Labels
  <2>2. StageInv'
    BY <1>25 DEF Exit, LocalsOK, Stages, Kinds, locals
  <2> QED
    BY <1>25, <2>1, <2>2, TypeFrame DEF Exit
<1>26. ASSUME NEW t \in Starters \cup {"main"}, DeinitEnter(t) PROVE TypeInv'
  <2>1. pc' \in [Threads -> Labels]
    BY <1>26 DEF DeinitEnter, Labels, DeinitReturn, AfterStream
  <2>2. StageInv'
    BY <1>26
    DEF DeinitEnter, LocalsOK, Stages, Kinds, locals, DeinitReturn,
        AfterStream
  <2>3. LocalsOK'
    BY <1>26 DEF DeinitEnter, LocalsOK, Stages, DeinitReturn, AfterStream
  <2>4. ControlOK'
    BY <1>26 DEF DeinitEnter, ControlOK
  <2> QED
    BY <1>26, <2>1, <2>2, <2>3, <2>4, TypeFrame DEF DeinitEnter
<1>27. ASSUME NEW t \in Starters \cup {"main"}, JoinTask(t) PROVE TypeInv'
  <2>1. pc' \in [Threads -> Labels]
    BY <1>27 DEF JoinTask, Labels, DeinitReturn, AfterStream
  <2>2. StageInv'
    BY <1>27
    DEF JoinTask, LocalsOK, Stages, Kinds, locals, DeinitReturn,
        AfterStream
  <2>3. LocalsOK'
    BY <1>27 DEF JoinTask, LocalsOK, Stages, DeinitReturn, AfterStream
  <2> QED
    BY <1>27, <2>1, <2>2, <2>3, TypeFrame DEF JoinTask
<1>28. ASSUME NEW t \in Starters \cup {"main"}, Joined(t) PROVE TypeInv'
  <2>1. pc' \in [Threads -> Labels]
    BY <1>28 DEF Joined, Labels
  <2>2. StageInv'
    BY <1>28 DEF Joined, LocalsOK, Stages, Kinds, locals
  <2> QED
    BY <1>28, <2>1, <2>2, TypeFrame DEF Joined
<1>29. ASSUME NEW t \in Starters \cup {"main"}, ReleaseDevice(t) PROVE TypeInv'
  <2>1. pc' \in [Threads -> Labels]
    BY <1>29 DEF ReleaseDevice, Labels
  <2>2. StageInv'
    BY <1>29 DEF ReleaseDevice, LocalsOK, Stages, Kinds, locals
  <2>3. filters' \in [FilterHandles -> Wants]
    BY <1>29, WantFacts DEF ReleaseDevice, DeviceOK, Freed
  <2>4. streams' \in [StreamHandles -> Pids \cup {NoPid}]
    BY <1>29 DEF ReleaseDevice, DeviceOK, Removed
  <2>5. DeviceOK'
    BY <1>29, <2>3, <2>4 DEF ReleaseDevice, DeviceOK
  <2> QED
    BY <1>29, <2>1, <2>2, <2>3, <2>4, <2>5, TypeFrame DEF ReleaseDevice
<1>30. ASSUME NEW t \in Starters \cup {"main"}, FreeTables(t) PROVE TypeInv'
  <2>1. pc' \in [Threads -> Labels]
    BY <1>30 DEF FreeTables, Labels
  <2>2. StageInv'
    BY <1>30 DEF FreeTables, LocalsOK, Stages, Kinds, locals
  <2>3. TablesOK' /\ CbInv'
    BY <1>30 DEF FreeTables, TablesOK, PmtOK, CbInv
  <2> QED
    BY <1>30, <2>1, <2>2, <2>3, TypeFrame DEF FreeTables
<1>31. ASSUME NEW t \in Starters \cup {"main"}, DeinitDone(t) PROVE TypeInv'
  <2>1. pc' \in [Threads -> Labels]
    BY <1>31 DEF DeinitDone, Labels, DeinitReturn, AfterStream
  <2>2. StageInv'
    BY <1>31
    DEF DeinitDone, LocalsOK, Stages, Kinds, locals, DeinitReturn,
        AfterStream
  <2>3. LocalsOK'
    BY <1>31 DEF DeinitDone, LocalsOK, Stages, DeinitReturn, AfterStream
  <2>4. ControlOK'
    BY <1>31 DEF DeinitDone, ControlOK
  <2> QED
    BY <1>31, <2>1, <2>2, <2>3, <2>4, TypeFrame DEF DeinitDone
<1>32. ASSUME NEW h \in FilterHandles, SectionArrives(h) PROVE TypeInv'
  <2>1. StageInv'
    BY <1>32 DEF SectionArrives, LocalsOK, Stages, Kinds, locals
  <2>2. filters[h] \in Broadcast
    BY <1>32 DEF SectionArrives, DeviceOK
  <2>3. TablesOK'
    BY <1>32, WantFacts, <2>2 DEF SectionArrives, TablesOK, PmtOK, Dates
  <2>4. cb' \in [pc : {"idle", "parse", "signal"}, want : Wants]
    BY <1>32, WantFacts, <2>2 DEF SectionArrives
  <2>5. CbInv'
    BY <1>32, WantFacts, <2>2, <2>3 DEF SectionArrives, CbInv
  <2> QED
    BY <1>32, <2>1, <2>2, <2>3, <2>4, <2>5, TypeFrame DEF SectionArrives
<1>33. ASSUME ParsePat PROVE TypeInv'
  <2>1. StageInv'
    BY <1>33 DEF ParsePat, LocalsOK, Stages, Kinds, locals
  <2>2. TablesOK'
    BY <1>33 DEF ParsePat, TablesOK, PmtOK
  <2>3. cb' \in [pc : {"idle", "parse", "signal"}, want : Wants]
    BY <1>33, WantFacts DEF ParsePat, ParseError
  <2>4. CbInv'
    BY <1>33, WantFacts DEF ParsePat, CbInv, ParseError
  <2> QED
    BY <1>33, <2>1, <2>2, <2>3, <2>4, TypeFrame DEF ParsePat
<1>34. ASSUME ParsePmt PROVE TypeInv'
  <2>1. StageInv'
    BY <1>34 DEF ParsePmt, LocalsOK, Stages, Kinds, locals
  <2>2. TablesOK'
    BY <1>34, WantFacts DEF ParsePmt, TablesOK, PmtOK, CbInv
  <2>3. cb' \in [pc : {"idle", "parse", "signal"}, want : Wants]
    BY <1>34, WantFacts DEF ParsePmt, ParseError
  <2>4. CbInv'
    BY <1>34, WantFacts DEF ParsePmt, CbInv, TablesOK, ParseError
  <2> QED
    BY <1>34, <2>1, <2>2, <2>3, <2>4, TypeFrame DEF ParsePmt
<1>35. ASSUME ParseTime PROVE TypeInv'
  <2>1. StageInv'
    BY <1>35 DEF ParseTime, LocalsOK, Stages, Kinds, locals
  <2>2. TablesOK'
    BY <1>35 DEF ParseTime, TablesOK, PmtOK, Dates
  <2>3. cb' \in [pc : {"idle", "parse", "signal"}, want : Wants]
    BY <1>35, WantFacts DEF ParseTime, ParseError
  <2>4. CbInv'
    BY <1>35, WantFacts DEF ParseTime, CbInv
  <2> QED
    BY <1>35, <2>1, <2>2, <2>3, <2>4, TypeFrame DEF ParseTime
<1>36. ASSUME Signal PROVE TypeInv'
  <2>1. pc' \in [Threads -> Labels]
    BY <1>36 DEF Signal, Labels
  <2>2. StageInv'
    BY <1>36 DEF Signal, LocalsOK, Stages, Kinds, locals
  <2>3. cb' \in [pc : {"idle", "parse", "signal"}, want : Wants]
    BY <1>36, WantFacts DEF Signal, ParseError
  <2>4. CbInv'
    BY <1>36, WantFacts DEF Signal, CbInv
  <2> QED
    BY <1>36, <2>1, <2>2, <2>3, <2>4, TypeFrame DEF Signal
<1>37. ASSUME Fault PROVE TypeInv'
  <2>1. StageInv'
    BY <1>37 DEF Fault, LocalsOK, Stages, Kinds, locals
  <2> QED
    BY <1>37, <2>1, TypeFrame DEF Fault
<1>38. CASE UNCHANGED vars
  <2>1. StageInv'
    BY <1>38 DEF vars, locals
  <2> QED
    BY <1>38, <2>1, TypeFrame DEF vars
<1> QED
  BY <1>1, <1>2, <1>3, <1>4, <1>5, <1>6, <1>7, <1>8, <1>9, <1>10, <1>11,
     <1>12, <1>13, <1>14, <1>15, <1>16, <1>17, <1>18, <1>19, <1>20, <1>21,
     <1>22, <1>23, <1>24, <1>25, <1>26, <1>27, <1>28, <1>29, <1>30, <1>31,
     <1>32, <1>33, <1>34, <1>35, <1>36, <1>37, <1>38
  DEF Next, StartChannel, streamControllerTask, streamControllerDeinit, Keys,
      sectionReceivedCallback, Stopped

(* Every variable of StreamController keeps its type, and the parser never *)
(* counts more entries of a table than the section it received has: the    *)
(* indices startChannel uses stay within the tables.                       *)
THEOREM TypeCorrect == Spec => []TypeOK
<1>1. TypeInv => TypeOK
  BY DEF TypeInv
<1> QED
  BY TypeInit, TypeStep, <1>1, PTL DEF Spec

-----------------------------------------------------------------------------
(* The pids of the current channel, when streamControllerTask is the only  *)
(* thread in startChannel.  PidsOfCurrentChannel is not inductive: that    *)
(* the PMT which wakes the task is the one it asked for rests on the old   *)
(* filter being freed, and its last callback drained, before the new       *)
(* filter is set, and on nothing but that callback waking the task.        *)

(* No number is dialled: only streamControllerTask runs startChannel.      *)
Alone == Dialers = {}

(* Besides, nothing but a signal ends its waits.                           *)
Signalled == Alone /\ ~Spurious

(* Besides, Demux_Free_Filter waits for a running callback.                *)
Solo == Signalled /\ FreeWaits

(* At most one filter is set, the one the task knows, and none between     *)
(* freeing the old one and setting the new one.                            *)
FilterInv ==
  /\ \A h \in FilterHandles : filters[h] # NoWant => h = filterHandle
  /\ pc["sc"] = "set" => \A h \in FilterHandles : filters[h] = NoWant

(* While the task waits for a PMT, and reads it, only sections of the      *)
(* requested program arrive.                                               *)
TuneInv ==
  stage["sc"] = "pmt" /\ pc["sc"] \in {"wait", "waiting", "woken", "scan"} =>
    /\ \A h \in FilterHandles :
         filters[h] \in Broadcast => filters[h] = Want("pmt", chan["sc"] + 1)
    /\ cb.pc # "idle" => cb.want = Want("pmt", chan["sc"] + 1)

(* A task that was woken reads the PMT of the requested program.           *)
ScanInv ==
  /\ pc["sc"] = "register" => stage["sc"] = "pat"
  /\ pc["sc"] = "scan" => stage["sc"] = "pmt"
  /\ stage["sc"] = "pmt" /\ pc["sc"] \in {"woken", "scan"} =>
       pmtTable.prog = chan["sc"] + 1 /\ chan["sc"] + 1 \in Programs

(* The pids that were picked are announced by the requested program.       *)
PidInv ==
  /\ \A k \in Kinds : pid["sc"][k] # NoPid =>
       pid["sc"][k] \in StreamPids(chan["sc"] + 1, k)
  /\ pc["sc"] \in {"remove", "zero", "create", "dEnter", "dJoin", "storeNum",
                   "storeAudio", "storeVideo"} => chan["sc"] + 1 \in Programs
  /\ pc["sc"] \in {"call", "clear", "loop"} \/ stage["sc"] = "pat" =>
       pid["sc"] = NoLocals

(* The task cannot join itself: it never gets past pthread_join.           *)
DeinitInv ==
  pc["sc"] \notin {"dJoining", "dFilter", "dAudio", "dVideo", "dClose",
                   "dTables", "dFlag"}

(* The three stores of startChannel.                                       *)
StoreInv ==
  /\ pc["sc"] \in {"storeAudio", "storeVideo"} =>
       currentChannel.num = chan["sc"] + 1
  /\ pc["sc"] = "storeVideo" => currentChannel.audio = pid["sc"]["audio"]
  /\ pc["sc"] \notin {"storeAudio", "storeVideo"} => OfOneProgram(currentChannel)

SoloInv ==
  FilterInv /\ TuneInv /\ ScanInv /\ PidInv /\ DeinitInv /\ StoreInv

(* SoloInv speaks of these variables only.                                 *)
LEMMA SoloFrame ==
  ASSUME SoloInv, pc'["sc"] = pc["sc"],
         UNCHANGED <<stage, chan, pid, filters, filterHandle, cb, pmtTable,
                     currentChannel>>
  PROVE  SoloInv'
<1>1. FilterInv' /\ TuneInv' /\ ScanInv'
  BY DEF SoloInv, FilterInv, TuneInv, ScanInv
<1>2. PidInv' /\ DeinitInv'
  BY DEF SoloInv, PidInv, DeinitInv
<1>3. StoreInv'
  BY DEF SoloInv, StoreInv, OfOneProgram
<1> QED
  BY <1>1, <1>2, <1>3 DEF SoloInv

(* SoloInv holds before the PAT filter is set.                             *)
LEMMA SoloInit == Init => SoloInv
<1> SUFFICES ASSUME Init PROVE SoloInv
  OBVIOUS
<1>1. /\ pc["sc"] = "set" /\ stage["sc"] = "pat" /\ chan["sc"] = 0
      /\ pid["sc"] = NoLocals
  BY ConstantFacts DEF Init
<1>2. FilterInv
  BY DEF Init, FilterInv
<1>3. TuneInv /\ ScanInv /\ DeinitInv
  BY <1>1 DEF TuneInv, ScanInv, DeinitInv
<1>4. PidInv
  BY <1>1 DEF PidInv, NoLocals
<1>5. StoreInv
  BY <1>1 DEF Init, NoChannel, StoreInv, OfOneProgram
<1> QED
  BY <1>2, <1>3, <1>4, <1>5 DEF SoloInv

(* The PMT whose signal wakes the task is that of the requested program.   *)
LEMMA WokenByRequestedPmt ==
  ASSUME TypeInv, SoloInv, cb.pc = "signal", pc["sc"] = "waiting",
         stage["sc"] = "pmt"
  PROVE  pmtTable.prog = chan["sc"] + 1 /\ chan["sc"] + 1 \in Programs
<1>1. cb.want = Want("pmt", chan["sc"] + 1)
  BY DEF SoloInv, TuneInv
<1>2. cb.want.table = "pmt" /\ cb.want.prog = chan["sc"] + 1
  BY <1>1 DEF Want
<1>3. cb.want \in Broadcast /\ pmtTable.prog = cb.want.prog
  BY <1>2 DEF TypeInv, CbInv
<1> QED
  BY <1>2, <1>3, WantFacts

(* A pid that startChannel's loop picks is announced by the program the    *)
(* stored PMT belongs to.                                                  *)
LEMMA ScanPids ==
  ASSUME TypeInv, SoloInv, ScanPmt("sc")
  PROVE  PidInv'
<1> USE ConstantFacts DEF TypeInv, TypeOK, LocalsOK, ThreadsOK
<1>1. /\ pc["sc"] = "scan" /\ stage["sc"] = "pmt"
      /\ pmtTable.prog = chan["sc"] + 1 /\ chan["sc"] + 1 \in Programs
  BY DEF ScanPmt, SoloInv, ScanInv
<1>2. CASE idx["sc"] < pmtTable.count
  <2> DEFINE e == Pmt[pmtTable.prog][idx["sc"] + 1]
  <2>1. \A k \in Kinds : e.type = k => e.pid \in StreamPids(chan["sc"] + 1, k)
    BY <1>1, <1>2, ScanElement DEF StreamPids
  <2>2. ~(idx["sc"] >= pmtTable.count)
    BY <1>2 DEF TablesOK
  <2>3. /\ pid' = IF e.type \in Kinds /\ pid["sc"][e.type] = NoPid
                  THEN [pid EXCEPT !["sc"] = [@ EXCEPT ![e.type] = e.pid]]
                  ELSE pid
        /\ UNCHANGED <<stage, chan, pc>>
    BY <2>2 DEF ScanPmt
  <2> HIDE DEF e
  <2>4. \A k \in Kinds : pid'["sc"][k] # pid["sc"][k] =>
          e.type = k /\ pid'["sc"][k] = e.pid
    BY <2>3
  <2> QED
    BY <1>1, <2>1, <2>3, <2>4 DEF SoloInv, PidInv
<1>3. CASE ~(idx["sc"] < pmtTable.count)
  BY <1>1, <1>3 DEF ScanPmt, Enter, Goto, SoloInv, PidInv
<1> QED
  BY <1>2, <1>3

(* Every step keeps SoloInv: one case per action that can be taken when    *)
(* there is no other thread in startChannel.                               *)
LEMMA SoloStep == ASSUME Solo, TypeInv, SoloInv, [Next]_vars PROVE SoloInv'
<1>1. Starters = {"sc"} /\ Threads = {"sc", "rc", "main"}
  BY DEF Solo, Signalled, Alone, Starters, Threads
<1> USE <1>1 DEF Goto, Enter, SoloInv, TypeInv, TypeOK, ThreadsOK, LocalsOK,
                 tables, shown, handles, locals, device
<1>2. ASSUME FreeFilter("sc") PROVE SoloInv'
  <2>1. FilterInv' /\ TuneInv' /\ ScanInv'
    BY <1>2 DEF FreeFilter, FilterInv, TuneInv, ScanInv, Freed
  <2>2. PidInv' /\ DeinitInv'
    BY <1>2 DEF FreeFilter, PidInv, DeinitInv, Freed
  <2>3. StoreInv'
    BY <1>2 DEF FreeFilter, StoreInv, OfOneProgram, Freed
  <2> QED
    BY <2>1, <2>2, <2>3
<1>3. ASSUME SetFilter("sc") PROVE SoloInv'
  <2>1. FilterInv'
    BY <1>3 DEF SetFilter, FilterInv, DeviceOK
  <2>2. TuneInv'
    <3> SUFFICES ASSUME stage["sc"] = "pmt", pc'["sc"] = "wait" PROVE TuneInv'
      BY <1>3 DEF SetFilter, TuneInv
    <3>1. cb.pc = "idle"
      BY <1>3 DEF SetFilter, Drained, Solo
    <3>2. /\ Requested("sc") = Want("pmt", PatEntry(chan["sc"] + 1))
          /\ PatEntry(chan["sc"] + 1) \in {chan["sc"] + 1, 0}
      BY DEF Requested, PatEntry
    <3>3. PICK g \in FilterHandles : filters' = [filters EXCEPT ![g] = Requested("sc")]
      BY <1>3 DEF SetFilter
    <3>4. \A h \in FilterHandles : filters'[h] \in {NoWant, Requested("sc")}
      BY <1>3, <3>3 DEF SetFilter, FilterInv, DeviceOK
    <3>5. \A h \in FilterHandles : filters'[h] \in Broadcast =>
            filters'[h] = Want("pmt", chan["sc"] + 1)
      BY <3>2, <3>4, WantFacts
    <3> QED
      BY <1>3, <3>1, <3>5 DEF SetFilter, TuneInv
  <2>3. ScanInv' /\ PidInv' /\ DeinitInv'
    BY <1>3 DEF SetFilter, ScanInv, PidInv, DeinitInv
  <2>4. StoreInv'
    BY <1>3 DEF SetFilter, StoreInv, OfOneProgram
  <2> QED
    BY <2>1, <2>2, <2>3, <2>4
<1>4. ASSUME Wait("sc") PROVE SoloInv'
  <2>1. FilterInv' /\ TuneInv' /\ ScanInv'
    BY <1>4 DEF Wait, FilterInv, TuneInv, ScanInv
  <2>2. PidInv' /\ DeinitInv'
    BY <1>4 DEF Wait, PidInv, DeinitInv
  <2>3. StoreInv'
    BY <1>4 DEF Wait, StoreInv, OfOneProgram
  <2> QED
    BY <2>1, <2>2, <2>3
<1>5. ASSUME Resume("sc") PROVE SoloInv'
  <2>1. FilterInv' /\ TuneInv' /\ ScanInv'
    BY <1>5 DEF Resume, FilterInv, TuneInv, ScanInv
  <2>2. PidInv' /\ DeinitInv'
    BY <1>5 DEF Resume, PidInv, DeinitInv
  <2>3. StoreInv'
    BY <1>5 DEF Resume, StoreInv, OfOneProgram
  <2> QED
    BY <2>1, <2>2, <2>3
<1>6. ASSUME ScanPmt("sc") PROVE SoloInv'
  <2>1. FilterInv' /\ TuneInv' /\ ScanInv' /\ DeinitInv'
    BY <1>6 DEF ScanPmt, FilterInv, TuneInv, ScanInv, DeinitInv
  <2>2. PidInv'
    BY <1>6, ScanPids
  <2>3. StoreInv'
    BY <1>6 DEF ScanPmt, StoreInv, OfOneProgram
  <2> QED
    BY <2>1, <2>2, <2>3
<1>7. ASSUME RemoveStream("sc") PROVE SoloInv'
  <2>1. FilterInv' /\ TuneInv' /\ ScanInv'
    BY <1>7 DEF RemoveStream, FilterInv, TuneInv, ScanInv, AfterStream
  <2>2. PidInv' /\ DeinitInv'
    BY <1>7 DEF RemoveStream, PidInv, DeinitInv, AfterStream
  <2>3. StoreInv'
    BY <1>7 DEF RemoveStream, StoreInv, OfOneProgram, AfterStream
  <2> QED
    BY <2>1, <2>2, <2>3
<1>8. ASSUME ZeroHandle("sc") PROVE SoloInv'
  <2>1. FilterInv' /\ TuneInv' /\ ScanInv'
    BY <1>8 DEF ZeroHandle, FilterInv, TuneInv, ScanInv, AfterStream
  <2>2. PidInv' /\ DeinitInv'
    BY <1>8 DEF ZeroHandle, PidInv, DeinitInv, AfterStream
  <2>3. StoreInv'
    BY <1>8 DEF ZeroHandle, StoreInv, OfOneProgram, AfterStream
  <2> QED
    BY <2>1, <2>2, <2>3
<1>9. ASSUME CreateStream("sc") PROVE SoloInv'
  <2>1. FilterInv' /\ TuneInv' /\ ScanInv'
    BY <1>9 DEF CreateStream, FilterInv, TuneInv, ScanInv, AfterStream
  <2>2. PidInv' /\ DeinitInv'
    BY <1>9 DEF CreateStream, PidInv, DeinitInv, AfterStream
  <2>3. StoreInv'
    BY <1>9 DEF CreateStream, StoreInv, OfOneProgram, AfterStream
  <2> QED
    BY <2>1, <2>2, <2>3
<1>10. ASSUME StoreNum("sc") PROVE SoloInv'
  <2>1. FilterInv' /\ TuneInv' /\ ScanInv'
    BY <1>10 DEF StoreNum, FilterInv, TuneInv, ScanInv, ShownOK, Channels
  <2>2. PidInv' /\ DeinitInv'
    BY <1>10 DEF StoreNum, PidInv, DeinitInv, ShownOK, Channels
  <2>3. StoreInv'
    BY <1>10 DEF StoreNum, StoreInv, OfOneProgram, ShownOK, Channels
  <2> QED
    BY <2>1, <2>2, <2>3
<1>11. ASSUME StoreAudio("sc") PROVE SoloInv'
  <2>1. FilterInv' /\ TuneInv' /\ ScanInv'
    BY <1>11 DEF StoreAudio, FilterInv, TuneInv, ScanInv, ShownOK, Channels
  <2>2. PidInv' /\ DeinitInv'
    BY <1>11 DEF StoreAudio, PidInv, DeinitInv, ShownOK, Channels
  <2>3. StoreInv'
    BY <1>11 DEF StoreAudio, StoreInv, OfOneProgram, ShownOK, Channels
  <2> QED
    BY <2>1, <2>2, <2>3
<1>12. ASSUME StoreVideo("sc") PROVE SoloInv'
  <2>1. FilterInv' /\ TuneInv' /\ ScanInv'
    BY <1>12 DEF StoreVideo, FilterInv, TuneInv, ScanInv
  <2>2. PidInv' /\ DeinitInv'
    BY <1>12 DEF StoreVideo, PidInv, DeinitInv
  <2>3. /\ currentChannel.num = chan["sc"] + 1 /\ chan["sc"] + 1 \in Programs
        /\ currentChannel.audio = pid["sc"]["audio"]
    BY <1>12 DEF StoreVideo, StoreInv, PidInv
  <2>4. \A k \in {"audio", "video"} :
          pid["sc"][k] \in StreamPids(chan["sc"] + 1, k) \cup {NoPid}
    BY DEF PidInv, Kinds
  <2>5. /\ currentChannel'.num = currentChannel.num
        /\ currentChannel'.audio = currentChannel.audio
        /\ currentChannel'.video = pid["sc"]["video"]
    BY <1>12 DEF StoreVideo, ShownOK, Channels
  <2>6. StoreInv'
    BY <1>12, <2>3, <2>4, <2>5 DEF StoreVideo, StoreInv, OfOneProgram
  <2> QED
    BY <2>1, <2>2, <2>6
<1>13. ASSUME CheckTime("sc") PROVE SoloInv'
  <2>1. FilterInv' /\ TuneInv' /\ ScanInv'
    BY <1>13 DEF CheckTime, FilterInv, TuneInv, ScanInv
  <2>2. PidInv' /\ DeinitInv'
    BY <1>13 DEF CheckTime, PidInv, DeinitInv
  <2>3. StoreInv'
    BY <1>13 DEF CheckTime, StoreInv, OfOneProgram
  <2> QED
    BY <2>1, <2>2, <2>3
<1>14. ASSUME PublishDate("sc") PROVE SoloInv'
  <2>1. FilterInv' /\ TuneInv' /\ ScanInv'
    BY <1>14 DEF PublishDate, FilterInv, TuneInv, ScanInv
  <2>2. PidInv' /\ DeinitInv'
    BY <1>14 DEF PublishDate, PidInv, DeinitInv
  <2>3. StoreInv'
    BY <1>14 DEF PublishDate, StoreInv, OfOneProgram
  <2> QED
    BY <2>1, <2>2, <2>3
<1>15. ASSUME Return("sc") PROVE SoloInv'
  <2>1. FilterInv' /\ TuneInv' /\ ScanInv'
    BY <1>15 DEF Return, FilterInv, TuneInv, ScanInv, DropLocals, NoLocals
  <2>2. PidInv' /\ DeinitInv'
    BY <1>15 DEF Return, PidInv, DeinitInv, DropLocals, NoLocals
  <2>3. StoreInv'
    BY <1>15 DEF Return, StoreInv, OfOneProgram, DropLocals, NoLocals
  <2> QED
    BY <2>1, <2>2, <2>3
<1>16. ASSUME RegisterSectionCallback PROVE SoloInv'
  <2>1. FilterInv' /\ TuneInv' /\ ScanInv'
    BY <1>16 DEF RegisterSectionCallback, FilterInv, TuneInv, ScanInv
  <2>2. PidInv' /\ DeinitInv'
    BY <1>16 DEF RegisterSectionCallback, PidInv, DeinitInv
  <2>3. StoreInv'
    BY <1>16 DEF RegisterSectionCallback, StoreInv, OfOneProgram
  <2> QED
    BY <2>1, <2>2, <2>3
<1>17. ASSUME PollFlag PROVE SoloInv'
  <2>1. FilterInv' /\ TuneInv' /\ ScanInv'
    BY <1>17 DEF PollFlag, FilterInv, TuneInv, ScanInv
  <2>2. PidInv' /\ DeinitInv'
    BY <1>17 DEF PollFlag, PidInv, DeinitInv
  <2>3. StoreInv'
    BY <1>17 DEF PollFlag, StoreInv, OfOneProgram
  <2> QED
    BY <2>1, <2>2, <2>3
<1>18. ASSUME ClearFlag PROVE SoloInv'
  <2>1. FilterInv' /\ TuneInv' /\ ScanInv'
    BY <1>18 DEF ClearFlag, FilterInv, TuneInv, ScanInv
  <2>2. PidInv' /\ DeinitInv'
    BY <1>18 DEF ClearFlag, PidInv, DeinitInv
  <2>3. StoreInv'
    BY <1>18 DEF ClearFlag, StoreInv, OfOneProgram
  <2> QED
    BY <2>1, <2>2, <2>3
<1>19. ASSUME CallStart PROVE SoloInv'
  <2>1. FilterInv' /\ TuneInv' /\ ScanInv'
    BY <1>19 DEF CallStart, FilterInv, TuneInv, ScanInv, NoLocals
  <2>2. PidInv' /\ DeinitInv'
    BY <1>19 DEF CallStart, PidInv, DeinitInv, NoLocals
  <2>3. StoreInv'
    BY <1>19 DEF CallStart, StoreInv, OfOneProgram, NoLocals
  <2> QED
    BY <2>1, <2>2, <2>3
<1>20. ASSUME channelUp PROVE SoloInv'
  BY <1>20, SoloFrame DEF channelUp, control
<1>21. ASSUME channelDown PROVE SoloInv'
  BY <1>21, SoloFrame DEF channelDown, control
<1>22. ASSUME RaiseFlag PROVE SoloInv'
  BY <1>22, SoloFrame DEF RaiseFlag, control
<1>23. ASSUME getChannelInfo PROVE SoloInv'
  BY <1>23, SoloFrame DEF getChannelInfo, control
<1>24. ASSUME Exit PROVE SoloInv'
  BY <1>24, SoloFrame DEF Exit, control
<1>25. ASSUME Fault PROVE SoloInv'
  BY <1>25, SoloFrame DEF Fault, control
<1>26. ASSUME DeinitEnter("sc") PROVE SoloInv'
  <2>1. FilterInv' /\ TuneInv' /\ ScanInv'
    BY <1>26
    DEF DeinitEnter, FilterInv, TuneInv, ScanInv, DeinitReturn,
        AfterStream
  <2>2. PidInv' /\ DeinitInv'
    BY <1>26 DEF DeinitEnter, PidInv, DeinitInv, DeinitReturn, AfterStream
  <2>3. StoreInv'
    BY <1>26
    DEF DeinitEnter, StoreInv, OfOneProgram, DeinitReturn, AfterStream
  <2> QED
    BY <2>1, <2>2, <2>3
<1>27. ASSUME JoinTask("sc") PROVE SoloInv'
  <2>1. FilterInv' /\ TuneInv' /\ ScanInv'
    BY <1>27
    DEF JoinTask, FilterInv, TuneInv, ScanInv, DeinitReturn, AfterStream
  <2>2. PidInv' /\ DeinitInv'
    BY <1>27 DEF JoinTask, PidInv, DeinitInv, DeinitReturn, AfterStream
  <2>3. StoreInv'
    BY <1>27 DEF JoinTask, StoreInv, OfOneProgram, DeinitReturn, AfterStream
  <2> QED
    BY <2>1, <2>2, <2>3
<1>28. ASSUME DeinitEnter("main") PROVE SoloInv'
  BY <1>28, SoloFrame DEF DeinitEnter, control, DeinitReturn
<1>29. ASSUME JoinTask("main") PROVE SoloInv'
  BY <1>29, SoloFrame DEF JoinTask, control, DeinitReturn
<1>30. ASSUME Joined("main") PROVE SoloInv'
  BY <1>30, SoloFrame DEF Joined, control
<1>31. ASSUME FreeTables("main") PROVE SoloInv'
  BY <1>31, SoloFrame DEF FreeTables, control
<1>32. ASSUME DeinitDone("main") PROVE SoloInv'
  BY <1>32, SoloFrame DEF DeinitDone, control, DeinitReturn
<1>33. ASSUME ReleaseDevice("main") PROVE SoloInv'
  <2>1. FilterInv' /\ TuneInv' /\ ScanInv'
    BY <1>33, WantFacts DEF ReleaseDevice, FilterInv, TuneInv, ScanInv, Freed
  <2>2. PidInv' /\ DeinitInv'
    BY <1>33, WantFacts DEF ReleaseDevice, PidInv, DeinitInv, Freed
  <2>3. StoreInv'
    BY <1>33, WantFacts DEF ReleaseDevice, StoreInv, OfOneProgram, Freed
  <2> QED
    BY <2>1, <2>2, <2>3
<1>34. ~(\/ Joined("sc") \/ ReleaseDevice("sc") \/ FreeTables("sc")
          \/ DeinitDone("sc"))
  BY DEF DeinitInv, Joined, ReleaseDevice, FreeTables, DeinitDone
<1>35. ASSUME NEW h \in FilterHandles, SectionArrives(h) PROVE SoloInv'
  <2>1. FilterInv' /\ TuneInv'
    BY <1>35 DEF SectionArrives, FilterInv, TuneInv, DeviceOK
  <2>2. ScanInv'
    <3>1. filters[h].table # "pmt" => UNCHANGED pmtTable
      BY <1>35 DEF SectionArrives
    <3>2. filters[h].table = "pmt" => pmtTable'.prog = filters[h].prog
      BY <1>35 DEF SectionArrives
    <3>3. filters[h] \in Broadcast
      BY <1>35 DEF SectionArrives
    <3>4. \A p : Want("pmt", p).prog = p
      BY DEF Want
    <3> QED
      BY <1>35, <3>1, <3>2, <3>3, <3>4 DEF SectionArrives, ScanInv, TuneInv
  <2>3. PidInv' /\ DeinitInv'
    BY <1>35 DEF SectionArrives, PidInv, DeinitInv
  <2>4. StoreInv'
    BY <1>35 DEF SectionArrives, StoreInv, OfOneProgram
  <2> QED
    BY <2>1, <2>2, <2>3, <2>4
<1>36. ASSUME ParsePat PROVE SoloInv'
  <2>1. FilterInv' /\ TuneInv' /\ ScanInv'
    BY <1>36 DEF ParsePat, FilterInv, TuneInv, ScanInv, ParseError, TablesOK
  <2>2. PidInv' /\ DeinitInv'
    BY <1>36 DEF ParsePat, PidInv, DeinitInv, ParseError, TablesOK
  <2>3. StoreInv'
    BY <1>36 DEF ParsePat, StoreInv, OfOneProgram, ParseError, TablesOK
  <2> QED
    BY <2>1, <2>2, <2>3
<1>37. ASSUME ParsePmt PROVE SoloInv'
  <2>1. FilterInv' /\ TuneInv' /\ ScanInv'
    BY <1>37 DEF ParsePmt, FilterInv, TuneInv, ScanInv, ParseError, TablesOK
  <2>2. PidInv' /\ DeinitInv'
    BY <1>37 DEF ParsePmt, PidInv, DeinitInv, ParseError, TablesOK
  <2>3. StoreInv'
    BY <1>37 DEF ParsePmt, StoreInv, OfOneProgram, ParseError, TablesOK
  <2> QED
    BY <2>1, <2>2, <2>3
<1>38. ASSUME ParseTime PROVE SoloInv'
  <2>1. FilterInv' /\ TuneInv' /\ ScanInv'
    BY <1>38 DEF ParseTime, FilterInv, TuneInv, ScanInv, ParseError, TablesOK
  <2>2. PidInv' /\ DeinitInv'
    BY <1>38 DEF ParseTime, PidInv, DeinitInv, ParseError, TablesOK
  <2>3. StoreInv'
    BY <1>38 DEF ParseTime, StoreInv, OfOneProgram, ParseError, TablesOK
  <2> QED
    BY <2>1, <2>2, <2>3
<1>39. ASSUME Signal PROVE SoloInv'
  <2>1. FilterInv' /\ TuneInv' /\ ScanInv'
    BY <1>39, WokenByRequestedPmt DEF Signal, FilterInv, TuneInv, ScanInv
  <2>2. PidInv' /\ DeinitInv'
    BY <1>39, WokenByRequestedPmt DEF Signal, PidInv, DeinitInv
  <2>3. StoreInv'
    BY <1>39, WokenByRequestedPmt DEF Signal, StoreInv, OfOneProgram
  <2> QED
    BY <2>1, <2>2, <2>3
<1>40. ASSUME UNCHANGED vars PROVE SoloInv'
  BY <1>40, SoloFrame DEF vars, control
<1> QED
  BY <1>1, <1>2, <1>3, <1>4, <1>5, <1>6, <1>7, <1>8, <1>9, <1>10, <1>11,
     <1>12, <1>13, <1>14, <1>15, <1>16, <1>17, <1>18, <1>19, <1>20, <1>21,
     <1>22, <1>23, <1>24, <1>25, <1>26, <1>27, <1>28, <1>29, <1>30, <1>31,
     <1>32, <1>33, <1>34, <1>35, <1>36, <1>37, <1>38, <1>39, <1>40
  DEF Next, StartChannel, streamControllerTask, streamControllerDeinit, Keys,
      sectionReceivedCallback, Stopped, WakeSpuriously, Solo, Signalled, Alone

(* If startChannel is run by streamControllerTask alone, if                *)
(* Demux_Free_Filter waits for a running callback and if no wake-up is     *)
(* spurious, the pids of the current channel always come from the PMT of   *)
(* that very channel, for any PAT, any PMTs and whatever calls fail.       *)
THEOREM PidsCorrect == ASSUME Solo PROVE Spec => []PidsOfCurrentChannel
<1>1. Init => TypeInv /\ SoloInv
  BY TypeInit, SoloInit
<1>2. TypeInv /\ SoloInv /\ [Next]_vars => (TypeInv /\ SoloInv)'
  BY TypeStep, SoloStep
<1>3. SoloInv => PidsOfCurrentChannel
  BY ConstantFacts DEF SoloInv, StoreInv, PidsOfCurrentChannel, Storing
<1> QED
  BY <1>1, <1>2, <1>3, PTL DEF Spec

-----------------------------------------------------------------------------
(* streamControllerTask and the tables that streamControllerDeinit frees,  *)
(* with any number of timer threads, any failures and any wake-ups: the    *)
(* tables are freed behind pthread_join, so only after the task has left   *)
(* its loop.                                                               *)

Releasing == {"dFilter", "dAudio", "dVideo", "dClose", "dTables"}

FaultInv ==
  /\ ~tablesLive => pc["sc"] = "done"
  /\ \A t \in Starters \cup {"main"} : pc[t] \in Releasing => pc["sc"] = "done"
  /\ TaskNeverFaults

(* Every step keeps FaultInv.                                              *)
LEMMA FaultStep == TypeInv /\ FaultInv /\ [Next]_vars => FaultInv'
<1> SUFFICES ASSUME TypeInv, FaultInv, [Next]_vars PROVE FaultInv'
  OBVIOUS
<1> USE ConstantFacts DEF TypeInv, TypeOK, ThreadsOK, Goto, Enter, FaultInv,
        Releasing, TaskNeverFaults, tables
<1>1. ASSUME NEW t \in Starters, FreeFilter(t) PROVE FaultInv'
  BY <1>1 DEF FreeFilter
<1>2. ASSUME NEW t \in Starters, SetFilter(t) PROVE FaultInv'
  BY <1>2 DEF SetFilter
<1>3. ASSUME NEW t \in Starters, Wait(t) PROVE FaultInv'
  BY <1>3 DEF Wait
<1>4. ASSUME NEW t \in Starters, WakeSpuriously(t) PROVE FaultInv'
  BY <1>4 DEF WakeSpuriously
<1>5. ASSUME NEW t \in Starters, Resume(t) PROVE FaultInv'
  BY <1>5 DEF Resume
<1>6. ASSUME NEW t \in Starters, ScanPmt(t) PROVE FaultInv'
  BY <1>6 DEF ScanPmt
<1>7. ASSUME NEW t \in Starters, RemoveStream(t) PROVE FaultInv'
  BY <1>7 DEF RemoveStream, AfterStream
<1>8. ASSUME NEW t \in Starters, ZeroHandle(t) PROVE FaultInv'
  BY <1>8 DEF ZeroHandle, AfterStream
<1>9. ASSUME NEW t \in Starters, CreateStream(t) PROVE FaultInv'
  BY <1>9 DEF CreateStream, AfterStream
<1>10. ASSUME NEW t \in Starters, StoreNum(t) PROVE FaultInv'
  BY <1>10 DEF StoreNum
<1>11. ASSUME NEW t \in Starters, StoreAudio(t) PROVE FaultInv'
  BY <1>11 DEF StoreAudio
<1>12. ASSUME NEW t \in Starters, StoreVideo(t) PROVE FaultInv'
  BY <1>12 DEF StoreVideo
<1>13. ASSUME NEW t \in Starters, CheckTime(t) PROVE FaultInv'
  BY <1>13 DEF CheckTime
<1>14. ASSUME NEW t \in Starters, PublishDate(t) PROVE FaultInv'
  BY <1>14 DEF PublishDate
<1>15. ASSUME NEW t \in Starters, Return(t) PROVE FaultInv'
  BY <1>15 DEF Return
<1>16. ASSUME RegisterSectionCallback PROVE FaultInv'
  BY <1>16 DEF RegisterSectionCallback
<1>17. ASSUME PollFlag PROVE FaultInv'
  BY <1>17 DEF PollFlag
<1>18. ASSUME ClearFlag PROVE FaultInv'
  BY <1>18 DEF ClearFlag
<1>19. ASSUME CallStart PROVE FaultInv'
  BY <1>19 DEF CallStart
<1>20. ASSUME channelUp PROVE FaultInv'
  BY <1>20 DEF channelUp
<1>21. ASSUME channelDown PROVE FaultInv'
  BY <1>21 DEF channelDown
<1>22. ASSUME RaiseFlag PROVE FaultInv'
  BY <1>22 DEF RaiseFlag
<1>23. ASSUME getChannelInfo PROVE FaultInv'
  BY <1>23 DEF getChannelInfo
<1>24. ASSUME Exit PROVE FaultInv'
  BY <1>24 DEF Exit
<1>25. ASSUME NEW t \in Dialers, NEW n \in DialNumbers,
             changeChannelKey(t, n) PROVE FaultInv'
  BY <1>25 DEF changeChannelKey, Starters
<1>26. ASSUME NEW t \in Starters \cup {"main"}, DeinitEnter(t) PROVE FaultInv'
  BY <1>26 DEF DeinitEnter, DeinitReturn, AfterStream
<1>27. ASSUME NEW t \in Starters \cup {"main"}, JoinTask(t) PROVE FaultInv'
  BY <1>27 DEF JoinTask, DeinitReturn, AfterStream
<1>28. ASSUME NEW t \in Starters \cup {"main"}, Joined(t) PROVE FaultInv'
  BY <1>28 DEF Joined
<1>29. ASSUME NEW t \in Starters \cup {"main"}, ReleaseDevice(t) PROVE FaultInv'
  BY <1>29 DEF ReleaseDevice
<1>30. ASSUME NEW t \in Starters \cup {"main"}, FreeTables(t) PROVE FaultInv'
  BY <1>30 DEF FreeTables
<1>31. ASSUME NEW t \in Starters \cup {"main"}, DeinitDone(t) PROVE FaultInv'
  BY <1>31 DEF DeinitDone, DeinitReturn, AfterStream
<1>32. ASSUME NEW h \in FilterHandles, SectionArrives(h) PROVE FaultInv'
  BY <1>32 DEF SectionArrives
<1>33. ASSUME ParsePat PROVE FaultInv'
  BY <1>33 DEF ParsePat
<1>34. ASSUME ParsePmt PROVE FaultInv'
  BY <1>34 DEF ParsePmt
<1>35. ASSUME ParseTime PROVE FaultInv'
  BY <1>35 DEF ParseTime
<1>36. ASSUME Signal PROVE FaultInv'
  BY <1>36 DEF Signal
<1>37. ASSUME Fault PROVE FaultInv'
  BY <1>37 DEF Fault, TouchesTables
<1>38. ASSUME UNCHANGED vars PROVE FaultInv'
  BY <1>38 DEF vars
<1> QED
  BY <1>1, <1>2, <1>3, <1>4, <1>5, <1>6, <1>7, <1>8, <1>9, <1>10, <1>11,
     <1>12, <1>13, <1>14, <1>15, <1>16, <1>17, <1>18, <1>19, <1>20, <1>21,
     <1>22, <1>23, <1>24, <1>25, <1>26, <1>27, <1>28, <1>29, <1>30, <1>31,
     <1>32, <1>33, <1>34, <1>35, <1>36, <1>37, <1>38
  DEF Next, StartChannel, streamControllerTask, streamControllerDeinit, Keys,
      sectionReceivedCallback, Stopped

(* streamControllerTask never touches a freed table, whichever thread runs *)
(* streamControllerDeinit, however many threads are in startChannel and    *)
(* whatever fails.                                                         *)
THEOREM TaskIsSafe == Spec => []TaskNeverFaults
<1>1. Init => TypeInv /\ FaultInv
  BY TypeInit, ConstantFacts DEF Init, FaultInv, Releasing, TaskNeverFaults
<1>2. TypeInv /\ FaultInv /\ [Next]_vars => (TypeInv /\ FaultInv)'
  BY TypeStep, FaultStep
<1>3. FaultInv => TaskNeverFaults
  BY DEF FaultInv
<1> QED
  BY <1>1, <1>2, <1>3, PTL DEF Spec
=============================================================================
