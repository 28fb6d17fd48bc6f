---------------------------- MODULE MCWheelWait ----------------------------
(* The usage pattern of the wheel with a bounded number of state changes.  *)
EXTENDS WheelWait
=============================================================================
