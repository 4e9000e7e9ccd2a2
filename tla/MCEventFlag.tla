---------------------------- MODULE MCEventFlag ----------------------------
(***************************************************************************)
(* Values for the checking of EventFlag that a configuration cannot write. *)
(***************************************************************************)
EXTENDS EventFlag

\* No limit.
MCForever == {TMO_FEVR}

MCPtn == {{"b0"}, {"b0", "b1"}}

\* Waits for all bits that leave the flag or take their bits, and waits for any
\* bit that clear the flag.
MCWfMode == {{}, {"TWF_BITCLR"}, {"TWF_ORW", "TWF_CLR"}}
=============================================================================
