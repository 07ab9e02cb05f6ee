------------------------------- MODULE Stream -------------------------------
(***************************************************************************)
(* What a BufferedReader promises (lib/include/hbk/communication/          *)
(* bufferedreader.h): its recv() "behaves like standard recv" on a         *)
(* non-blocking stream socket, "Return the requested amount of data and    *)
(* keep the remaining data."  The bytes the peer sends are numbered 1, 2,  *)
(* 3, ...                                                                  *)
(***************************************************************************)
EXTENDS Integers

VARIABLES
  sent,   \* bytes sent by the peer
  got,    \* bytes handed to the caller
  conn,   \* the connection: "open", "closed" by the peer, or "broken"
  ret,    \* the last answer of recv(): its return value ...
  data    \* ... and the bytes of the last one that was positive

vars == <<sent, got, conn, ret, data>>

Init ==
  /\ sent = 0
  /\ got = 0
  /\ conn = "open"
  /\ ret = 0
  /\ data = [i \in 1..0 |-> 0]

Send  == conn = "open" /\ sent' = sent + 1 /\ UNCHANGED <<got, conn, ret, data>>
Close == conn = "open" /\ conn' = "closed" /\ UNCHANGED <<sent, got, ret, data>>

(* A reset may discard what was not received yet.                          *)
Reset ==
  /\ conn = "open"
  /\ conn' = "broken"
  /\ sent' \in got..sent
  /\ UNCHANGED <<got, ret, data>>

(* The next n bytes, in the order they were sent.                          *)
Receive(n) ==
  /\ n \in 1..(sent - got)
  /\ got' = got + n
  /\ ret' = n
  /\ data' = [i \in 1..n |-> got + i]
  /\ UNCHANGED <<sent, conn>>

(* Nothing there: EWOULDBLOCK, or 0 after the peer has closed.             *)
Again == sent = got /\ conn = "open" /\ ret' = -1 /\ UNCHANGED <<sent, got, conn, data>>
Eof   == sent = got /\ conn = "closed" /\ ret' = 0 /\ UNCHANGED <<sent, got, conn, data>>

(* A broken connection, of which everything that arrived was received:     *)
(* nothing is promised any more.                                           *)
Broken ==
  /\ conn = "broken"
  /\ got >= sent
  /\ got' >= got
  /\ UNCHANGED <<sent, conn>>

Next ==
  \/ Send \/ Close \/ Reset
  \/ \E n \in 1..(sent - got) : Receive(n)
  \/ Again \/ Eof \/ Broken

Spec == Init /\ [][Next]_vars
=============================================================================
