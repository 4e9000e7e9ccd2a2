--------------------------- MODULE MCApplication ---------------------------
(***************************************************************************)
(* Values for the checking of Application that a configuration cannot      *)
(* write.                                                                  *)
(***************************************************************************)
EXTENDS Application

MCDistance == {<< NEAR >>, << FAR >>, << STALE >>}
MCTmo == {TMO_FEVR, SlpTmo}
MCMbfTmo == {TMO_FEVR, SndTmo}
MCCMbf == {cmbf}
=============================================================================
