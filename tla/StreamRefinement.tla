--------------------------- MODULE StreamRefinement ---------------------------
(***************************************************************************)
(* StreamController implements ChannelSwitch, for the channel keys: with   *)
(* no dialler, and libtdp calls that succeed.  A request is pending from   *)
(* the key (before the flag is raised) to the moment startChannel is       *)
(* called with programNumber; the channel is settled when startChannel     *)
(* stores its number, and the two fields it stores next count as stored.   *)
(***************************************************************************)
EXTENDS StreamController

Pending ==
  \/ changeChannel \/ pc["rc"] = "flag"
  \/ stage["sc"] = "pat" \/ pc["sc"] \in {"clear", "call"}

Tuning ==
  \/ /\ stage["sc"] = "pmt"
     /\ pc["sc"] \in {"free", "set", "wait", "waiting", "woken", "scan"}
  \/ /\ stage["sc"] \in Kinds
     /\ pc["sc"] \in {"remove", "zero", "create", "storeNum"}

Stored ==
  IF Storing("sc")
  THEN [num |-> chan["sc"] + 1, audio |-> pid["sc"]["audio"],
        video |-> pid["sc"]["video"]]
  ELSE currentChannel

(* What startChannel(n) may make of entry n + 1 of the PAT: pids its PMT   *)
(* announces, or -1.                                                       *)
ChannelsOf(n) ==
  IF n + 1 \in Programs
  THEN [num : {n + 1}, audio : StreamPids(n + 1, "audio") \cup {NoPid},
                       video : StreamPids(n + 1, "video") \cup {NoPid}]
  ELSE {}

Switch == INSTANCE ChannelSwitch WITH
  Offers <- ChannelsOf,
  wanted <- programNumber,
  pending <- Pending,
  tuning <- IF Tuning THEN {chan["sc"]} ELSE {},
  current <- Stored,
  closed <- pc["main"] # "running"

(* channelUp, channelDown, streamControllerTask and startChannel together  *)
(* take up every request, in whatever order their steps come, and settle   *)
(* only on the program taken up, with pids of that program.                *)
SwitchesChannels == Switch!Spec

(* They do so in the end, until EXIT.                                      *)
SwitchesInTheEnd == Switch!FairSpec
=============================================================================
