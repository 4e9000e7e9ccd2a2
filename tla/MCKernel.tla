------------------------------ MODULE MCKernel ------------------------------
(***************************************************************************)
(* Values for the checking of Kernel that a configuration cannot write.    *)
(***************************************************************************)
EXTENDS Kernel

\* No limit, and a limit of less than a timer period.
MCTmo == {TMO_FEVR, 1}
=============================================================================
