---------------------------- MODULE MCQueueImpl ----------------------------
(* Instances of QueueImpl for TLC. *)
EXTENDS QueueImpl
=============================================================================
