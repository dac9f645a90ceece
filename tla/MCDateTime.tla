----------------------------- MODULE MCDateTime -----------------------------
(***************************************************************************)
(* Every day of the years 1 to 2400 and 8001 to 9999, and every second of  *)
(* the first and of a leap day.                                            *)
(***************************************************************************)
EXTENDS DateTime

FirstAndLastCycles == {400 * c + 1 : c \in (0 .. 5) \cup (20 .. 24)}
TwoDays == {0, 730178}
SomeUsecs == {0, 999999}
ZoneOffsets == {-1439, 0, 59}
=============================================================================
