----------------------------- MODULE MCSockets ------------------------------
(* Instances of Sockets for TLC.                                           *)
EXTENDS Sockets

(* Nothing can be said of what follows once an object has lost what is its *)
(* own.                                                                    *)
UntilRobbed == past.robbed = {}
=============================================================================
