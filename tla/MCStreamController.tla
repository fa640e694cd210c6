------------------------- MODULE MCStreamController -------------------------
(* Constants of the runs of StreamController: a television program, a      *)
(* radio program, and a third one whose PMT does not fit MaxElem.          *)
EXTENDS StreamRefinement, TLC

E(type, p) == [type |-> type, pid |-> p]

MCPids == 1 .. 5
TvRadioBig ==
  [p \in 1 .. 3 |->
     CASE p = 1 -> <<E("video", 1), E("audio", 2)>>
       [] p = 2 -> <<E("audio", 3)>>
       [] p = 3 -> <<E("video", 4), E("audio", 5), E("other", 3)>>]
TvRadio == [p \in 1 .. 2 |-> TvRadioBig[p]]

OneTv == [p \in 1 .. 1 |-> <<E("video", 1)>>]

Symmetric == Permutations(FilterHandles) \cup Permutations(StreamHandles)
=============================================================================
