---------------------------- MODULE MCWorkerRuntime ----------------------------
(***************************************************************************)
(* Instances of WorkerRuntime: one task that the process claims up to      *)
(* three times, from the first of two queues, so that the handlers and the *)
(* requests of two of its attempts overlap and a pass may fail at the      *)
(* queue behind it.                                                        *)
(***************************************************************************)
EXTENDS WorkerRuntime

MCQueueOf == [t \in Task |-> 1]
===============================================================================
