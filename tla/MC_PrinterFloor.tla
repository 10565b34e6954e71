--------------------------- MODULE MC_PrinterFloor ---------------------------
(* A small instance of PrinterFloor: one printer and one request thread.      *)
EXTENDS PrinterFloor

CONSTANTS p1

MCOne == << p1 >>
=============================================================================
