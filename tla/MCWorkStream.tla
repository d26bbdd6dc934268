---------------------------- MODULE MCWorkStream ----------------------------
(* Small instances of WorkStream for TLC. *)
EXTENDS WorkStream, TLC

CONSTANTS e1, e2

TwoEvents == {e1, e2}

\* Which faults meet in one behaviour.
FaultPairs == {{"relay", "worker"}, {"worker", "redis"}, {"worker", "answer"}, {"relay", "step"}}
RelayFault == {{"relay"}}
=============================================================================
