----------------------------- MODULE QueueLines -----------------------------
(***************************************************************************)
(* Where event_pipe.c may put a queue among the registered ones, first to  *)
(* last, seen as a line.                                                   *)
(*                                                                         *)
(* The line is no longer in order of the timestamps once a producer has    *)
(* pushed, so a queue that holds events may be put in anywhere.  An empty  *)
(* queue has the latest of all timestamps and the highest id: it goes to   *)
(* the end, whatever the queues before it hold.                            *)
(***************************************************************************)
EXTENDS Naturals, Sequences, SequencesExt

CONSTANT MaxNodes  \* bound on the places in a line

\* The lines that result when q is put into s.
Insertions(s, q, empty) ==
  IF empty THEN {Append(s, q)} ELSE {InsertAt(s, i, q) : i \in 1 .. Len(s) + 1}

\* The lines event_pipe_add leaves: q is put in, or refused for being there.
\* A search that other keys lead astray misses q and puts it in once more.
Additions(s, q, empty) ==
  LET known == q \in ToSet(s) IN
  (IF known THEN {s} ELSE {})
    \cup (IF ~known \/ Len(s) \in 2 .. MaxNodes - 1
          THEN Insertions(s, q, empty) ELSE {})
=============================================================================
