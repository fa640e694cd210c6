---------------------------- MODULE ChannelSwitch ----------------------------
(***************************************************************************)
(* What the stream controller promises the user of P+ and P-, without its  *)
(* threads, tables, filters and handles: there is a program that is        *)
(* wanted; the receiver takes it up, once or more often, and then has a    *)
(* channel with the streams of exactly that program.  A change of mind is  *)
(* taken up as well.  Module StreamRefinement shows that StreamController  *)
(* implements this.                                                        *)
(***************************************************************************)
EXTENDS Integers

CONSTANTS
  Offers(_),   \* Offers(n): what the receiver may play for program number n
  NoChannel    \* what it plays before the first channel

VARIABLES
  wanted,      \* the program the user asked for last
  pending,     \* it has still to be taken up
  tuning,      \* {n} while the receiver works on n, {} otherwise
  current,     \* what the receiver plays
  closed       \* the user has left

vars == <<wanted, pending, tuning, current, closed>>

Init ==
  /\ wanted \in Int
  /\ pending = TRUE      \* the program of config.ini
  /\ tuning = {}
  /\ current = NoChannel
  /\ closed = FALSE

(* P+, P-: whatever the receiver does at that moment.                      *)
Request ==
  /\ ~closed
  /\ wanted' \in Int /\ pending' = TRUE
  /\ UNCHANGED <<tuning, current, closed>>

(* The receiver may take the same request up again.                        *)
Take ==
  /\ pending /\ tuning = {}
  /\ tuning' = {wanted} /\ pending' \in BOOLEAN
  /\ UNCHANGED <<wanted, current, closed>>

Settle ==
  /\ \E n \in tuning : current' \in Offers(n)
  /\ tuning' = {}
  /\ UNCHANGED <<wanted, pending, closed>>

Close ==
  /\ ~closed /\ closed' = TRUE
  /\ UNCHANGED <<wanted, pending, tuning, current>>

Next == Request \/ Take \/ Settle \/ Close

Spec == Init /\ [][Next]_vars

(* The receiver does its part until the user leaves.                       *)
FairSpec ==
  /\ Spec
  /\ WF_vars(~closed /\ Take)
  /\ WF_vars(~closed /\ Settle)
=============================================================================
