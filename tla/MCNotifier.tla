----------------------------- MODULE MCNotifier -----------------------------
(* Instances of Notifier for TLC and, on Windows, of what is called by the *)
(* completion port: platform says which of them is explored.               *)
EXTENDS Notifier, NotifierWin, TimerWin, ServersWin

VARIABLE platform

MCInit ==
  /\ Init /\ PortInit /\ NotifierInit /\ TimerInit /\ ServersInit
  /\ platform \in {"linux", "notifier", "timer", "server"}
  /\ platform # "server" => theServer = "tcp"

MCNext ==
  /\ UNCHANGED platform
  /\ \/ platform = "linux" /\ Next /\ UNCHANGED <<portVars, nwVars, twVars, swVars>>
     \/ platform = "notifier" /\ NotifierNext /\ UNCHANGED <<vars, twVars, swVars>>
     \/ platform = "timer" /\ TimerNext /\ UNCHANGED <<vars, nwVars, swVars>>
     \/ platform = "server" /\ ServerNext /\ UNCHANGED <<vars, nwVars, twVars>>

MCSpec ==
  /\ MCInit /\ [][MCNext]_<<vars, portVars, nwVars, twVars, swVars, platform>>
  /\ WF_vars(process \/ Throw)
=============================================================================
