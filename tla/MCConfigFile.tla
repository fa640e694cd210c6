---------------------------- MODULE MCConfigFile ----------------------------
(* Files of up to two lines, in all the layouts that the code tells apart, *)
(* with a key the code knows, one it does not, and numbers of 1 and 2      *)
(* digits.                                                                 *)
EXTENDS ConfigFile

Values(key) == IF key = Keys.module THEN {DvbT, <<68, 67>>}
               ELSE {<<50>>, <<55, 53>>}

LinesOf(key) ==
  [indent : 0 .. 1, key : {key}, gap : {0, 2}, dash : BOOLEAN,
   lead : 0 .. 2, value : Values(key), trail : 0 .. 2, newline : BOOLEAN]

Lines == UNION {LinesOf(k) : k \in {Keys.frequency, Keys.bandwidth,
                                    Keys.module, Keys.program_number}}
           \cup {[indent |-> 0, key |-> <<35, 35>>, gap |-> 0, dash |-> TRUE,
                  lead |-> 0, value |-> <<50>>, trail |-> 0, newline |-> TRUE]}

MCFiles == {<<l>> : l \in Lines}
             \cup {<<l, m>> : l \in {l \in Lines : l.newline /\ l.gap = 0},
                              m \in {l \in Lines : l.gap = 2 /\ l.dash}}
=============================================================================
