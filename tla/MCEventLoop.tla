---------------------------- MODULE MCEventLoop ----------------------------
(* Instances of EventLoop for TLC.                                         *)
EXTENDS EventLoop, TLC

CONSTANTS main, other, t1, t2, t3

\* main starts t1, whose code starts t3; the other thread starts t2.
SplitParent ==
  [t \in Tasks |-> CASE t = t3 -> t1 [] t = t2 -> other [] OTHER -> main]
=============================================================================
