---------------------------- MODULE MCSendPipeline ----------------------------
(* Model values for the files.                                              *)
EXTENDS SendPipeline

CONSTANTS f1, f2, f3, f4
=============================================================================
