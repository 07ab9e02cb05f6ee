----------------------------- MODULE MCNetwork ------------------------------
(* Instances of Network, Multicast and Conversions for TLC.  The first two *)
(* share the interfaces and the list; one part is explored at a time.      *)
EXTENDS Network, Multicast, Conversions, TLC

VARIABLE part

MCInit ==
  /\ NetInit /\ McInit /\ ConversionsInit
  /\ part \in {"list", "receive", "send", "send on Windows", "conversions"}

MCNext ==
  /\ UNCHANGED part
  /\ \/ part = "list" /\ NetNext /\ UNCHANGED <<mcVars, input>>
     \/ part = "conversions" /\ Convert /\ UNCHANGED <<netVars, mcVars>>
     \/ /\ part \notin {"list", "conversions"} /\ UNCHANGED input
        /\ UNCHANGED <<shot, late, netlink, told, unsure, untold, nlStalled>>
        /\ \/ /\ \/ ServerCall
                 \/ part = "receive" /\ (MembershipCall \/ ReceiveStep)
                 \/ part = "send" /\ (SendCall \/ SendStep)
                 \/ part = "send on Windows" /\ (SendCallWin \/ SendStep)
              /\ UNCHANGED <<kernel, adapters>>
           \/ Environment

(* Interfaces are told apart by nothing but their names.                   *)
Symmetry == Permutations(Ifs)

(* Bound: all MaxChanges changes are for the list, fewer for the server.   *)
FewChanges == part = "list" \/ changes < MaxChanges

MCSpec == MCInit /\ [][MCNext]_<<netVars, mcVars, input, part>>
=============================================================================
