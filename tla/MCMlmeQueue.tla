---------------------------- MODULE MCMlmeQueue ----------------------------
(* A small instance of MlmeQueue. *)
EXTENDS MlmeQueueProps

CONSTANTS rx, periodic, user, auth, tx, a, b, none
=============================================================================
