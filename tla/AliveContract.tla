---------------------------- MODULE AliveContract ----------------------------
(***************************************************************************)
(* What the alive detection promises openvas, without threads, batches or  *)
(* Redis: hosts are announced one by one, never more than the limit allows; *)
(* the announcements are closed at some time; openvas takes every announced *)
(* host, and is told that the alive detection has finished when nothing is *)
(* left to take.                                                           *)
(***************************************************************************)
EXTENDS Naturals, FiniteSets

CONSTANT Hosts

VARIABLES limit, announced, closed, taken, done

contractVars == <<limit, announced, closed, taken, done>>

Init ==
  /\ limit \in Nat
  /\ announced = {}
  /\ closed = FALSE
  /\ taken = {}
  /\ done = FALSE

Announce(h) ==
  /\ ~closed
  /\ h \notin announced
  /\ Cardinality(announced) < limit
  /\ announced' = announced \cup {h}
  /\ UNCHANGED <<limit, closed, taken, done>>

Close ==
  /\ ~closed
  /\ closed' = TRUE
  /\ UNCHANGED <<limit, announced, taken, done>>

Take(h) ==
  /\ ~done
  /\ h \in announced \ taken
  /\ taken' = taken \cup {h}
  /\ UNCHANGED <<limit, announced, closed, done>>

Finish ==
  /\ ~done
  /\ closed
  /\ taken = announced
  /\ done' = TRUE
  /\ UNCHANGED <<limit, announced, closed, taken>>

Next ==
  \/ \E h \in Hosts : Announce(h) \/ Take(h)
  \/ Close
  \/ Finish

Spec == Init /\ [][Next]_contractVars

FairSpec ==
  /\ Spec
  /\ WF_contractVars(Close)
  /\ WF_contractVars(\E h \in Hosts : Take(h))
  /\ WF_contractVars(Finish)
=============================================================================
