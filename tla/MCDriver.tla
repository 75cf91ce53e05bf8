------------------------------ MODULE MCDriver ------------------------------
(***************************************************************************)
(* Driver for TLC.  Processes are interchangeable, but the runs that check *)
(* liveness use no symmetry.                                               *)
(***************************************************************************)
EXTENDS Driver

\* Steps whose failure assigns an error code to ret.
ReportedFailures == Resources \ {"ctrl", "vram", "doorbell"}
NoFailures == {}
AllFailures == Resources
=============================================================================
