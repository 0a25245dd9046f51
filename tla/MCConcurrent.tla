---------------------------- MODULE MCConcurrent ----------------------------
(* Two windows on the instances of MCClientSession. *)
EXTENDS MCClientSession, ConcurrentSessions
=============================================================================
