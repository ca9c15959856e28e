---------------------------- MODULE MCOutputScan ----------------------------
(* A prompt of two pieces for OutputScan. *)
EXTENDS OutputScan

MCPrompt == <<"p", "q">>
=============================================================================
