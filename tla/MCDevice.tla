------------------------------ MODULE MCDevice ------------------------------
(***************************************************************************)
(* Values for the checking of Device that a configuration cannot write.    *)
(***************************************************************************)
EXTENDS Device

\* The locks of the drivers are all the semaphores there are.
MCLock == {Lock}
MCForever == {TMO_FEVR}

\* One mode per device would do: an update device also reads and writes.
MCOMode == {{"TD_READ"}, {"TD_READ", "TD_WRITE"}}
=============================================================================
