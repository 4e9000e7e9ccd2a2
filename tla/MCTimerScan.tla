---------------------------- MODULE MCTimerScan ----------------------------
(***************************************************************************)
(* Values for the checking of TimerScan that a configuration cannot write. *)
(***************************************************************************)
EXTENDS TimerScan

\* No limit, a limit that the first tick does not end and the second one does,
\* and one that wraps, 6 + 2 being 0 in three bits.
MCLimit == {TMO_FEVR, 2, 6}
=============================================================================
