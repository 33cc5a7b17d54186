---------------------------- MODULE MCEventStream ----------------------------
(* Instances of EventStream for TLC: an API request beside an import of the worker, each in *)
(* its own process, and two imports run by one worker process.                              *)
EXTENDS EventStream

CONSTANTS request, import, reimport,   \* transactions
          api, worker,                 \* processes
          c1, c2, c3

Placement == [t \in Txs |-> IF t = request THEN api ELSE worker]
===============================================================================
