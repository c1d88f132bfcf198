--------------------------- MODULE MCUsageReports ---------------------------
(* Two symbols, one of them a method of the other.                          *)
EXTENDS UsageReports

CONSTANTS plain, method

MCAfterDot == [n \in Names |-> plain]
=============================================================================
