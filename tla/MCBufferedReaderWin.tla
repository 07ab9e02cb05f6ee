------------------------ MODULE MCBufferedReaderWin -------------------------
(* Instances of BufferedReaderWin for TLC.                                 *)
EXTENDS BufferedReaderWin
=============================================================================
