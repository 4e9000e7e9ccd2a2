---------------------------- MODULE MCSemaphore ----------------------------
(***************************************************************************)
(* Values for the checking of Semaphore that a configuration cannot write. *)
(***************************************************************************)
EXTENDS Semaphore

\* No limit, polling, and a limit of less than a timer period.
MCTmo == {TMO_FEVR, TMO_POL, 1}

\* Two units, both there at first.
MCPair == {[isemcnt |-> 2, maxsem |-> 2]}
=============================================================================
