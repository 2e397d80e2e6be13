----------------------------- MODULE MCHandover -----------------------------
(* Handover for TLC, with the threads and references of MCBrcHeader.        *)
EXTENDS Handover, MCBrcHeader
=============================================================================
