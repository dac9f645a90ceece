----------------------------- MODULE MCCymoLoop -----------------------------
(***************************************************************************)
(* A data queue and one of any other type that the loop reads, of up to    *)
(* two events and one.                                                     *)
(***************************************************************************)
EXTENDS CymoLoop

CONSTANTS d, o

MCQueues == {d, o}
MCMaxPushes == [q \in MCQueues |-> IF q = d THEN 2 ELSE 1]

Event(type, time, exchange) ==
  [type |-> type, time |-> time, exchange |-> exchange]
MCEvents == {Event("tick", 1, 2), Event("tick", 2, 1), Event("stop", 2, 1),
             Event("marker", 1, 1), Event("closed", 1, 1)}
MCEventsOf ==
  [q \in MCQueues |-> IF q = d THEN MCEvents \ {Event("marker", 1, 1)}
                     ELSE {Event("marker", 1, 1)}]
MCTimes == {1, 2}

\* The loop looks at clear_reminders in realtime mode only, whatever the type
\* of the other queue.
MCSettings ==
  {r \in [mode : {"simulator", "realtime"}, order : {"before", "after"},
          clear : BOOLEAN, asCalled : BOOLEAN,
          type : [MCQueues -> {DATA_PIPE, EXECUTION_PIPE, SERVICE_PIPE}]] :
     /\ r.type[d] = DATA_PIPE
     /\ r.clear => r.mode = "realtime" /\ r.type[o] = DATA_PIPE}

\* The code as it is built.
MCAsWritten == {r \in MCSettings : ~r.asCalled}
=============================================================================
