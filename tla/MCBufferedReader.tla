-------------------------- MODULE MCBufferedReader --------------------------
(* Instances of BufferedReader for TLC.                                    *)
EXTENDS BufferedReader
=============================================================================
