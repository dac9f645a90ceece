---------------------------- MODULE MCCymoEvent ----------------------------
(***************************************************************************)
(* Three threads and up to four references to one event, which is made    *)
(* again after it was freed; the counter wraps at five.                    *)
(***************************************************************************)
EXTENDS CymoEvent
=============================================================================
