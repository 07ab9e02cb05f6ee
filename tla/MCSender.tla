------------------------------ MODULE MCSender ------------------------------
(* Instances of Sender and SenderWin for TLC; system says which of the two *)
(* is explored.                                                            *)
EXTENDS SenderWin

VARIABLE system

MCInit == Init /\ error = "none" /\ system \in {"Linux", "Windows"}

MCNext ==
  /\ UNCHANGED system
  /\ \/ system = "Linux" /\ Next /\ UNCHANGED error
     \/ system = "Windows" /\ NextWin

MCSpec ==
  /\ MCInit /\ [][MCNext]_<<winVars, system>>
  /\ Fairness
  /\ WF_winVars(StepWin)
=============================================================================
