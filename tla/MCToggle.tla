------------------------------ MODULE MCToggle ------------------------------
(* The toggle with a few clients.                                          *)
EXTENDS Toggle
=============================================================================
