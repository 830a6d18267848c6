-------------------------- MODULE MCStreamTransfer --------------------------
(* The instance of StreamTransfer for TLC.                                 *)
EXTENDS StreamTransfer
=============================================================================
