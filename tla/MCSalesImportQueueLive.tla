----------------------- MODULE MCSalesImportQueueLive -----------------------
(* A small instance of SalesImportQueueLive for TLC. *)
EXTENDS SalesImportQueueLive

CONSTANTS w1, w2
=============================================================================
