-------------------------- MODULE MCMessageBuffer --------------------------
(***************************************************************************)
(* Values for the checking of MessageBuffer that a configuration cannot    *)
(* write.                                                                  *)
(***************************************************************************)
EXTENDS MessageBuffer

\* No limit.
MCForever == {TMO_FEVR}

\* As in the application, whose buffer is a whole number of messages: here
\* messages of two bytes, and a buffer of three messages with their lengths.
MCWhole == {[bufsz |-> 9, maxmsz |-> 2]}
MCTwoBytes == {<< 1, 1 >>, << 2, 2 >>}

\* Messages of one byte and of two.
MCSix == {[bufsz |-> 6, maxmsz |-> 2]}
MCMixed == {<< 1 >>, << 2, 2 >>}
=============================================================================
