---------------------------- MODULE MCWorkerPool ----------------------------
(* A small instance of WorkerPool.  One set of outcomes stands for both     *)
(* kinds of collector: a behaviour without a fatal outcome is one of the    *)
(* collector that goes on, one without a collected error one of the         *)
(* collector that returns.                                                  *)
EXTENDS WorkerPool
=============================================================================
