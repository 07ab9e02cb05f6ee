---------------------------- MODULE Notification ----------------------------
(***************************************************************************)
(* What a Notifier promises (lib/include/hbk/sys/notifier.h): "If notified *)
(* n (>0) times until notifier is processed, the callback routine is       *)
(* executed n times!"  The one exception is a callback routine that throws *)
(* itself: it may take other notifications with it.                        *)
(***************************************************************************)
EXTENDS Integers

CONSTANTS
  MaxNotify,  \* bound: notifications that are accepted altogether
  MayThrow    \* may the callback routine throw?

VARIABLES
  pending,   \* notifications the callback routine has not been executed for
  executed,  \* executions of the callback routine
  threw,     \* the last execution of the callback routine threw
  alive      \* the notifier has not been destroyed

Init == pending = 0 /\ executed = 0 /\ threw = FALSE /\ alive = TRUE

(* notify(), if it is successful.                                          *)
Notify ==
  /\ alive
  /\ pending + executed < MaxNotify
  /\ pending' = pending + 1
  /\ UNCHANGED <<executed, threw, alive>>

(* The callback routine is executed for one notification.                  *)
Execute ==
  /\ alive
  /\ pending > 0
  /\ pending' = pending - 1
  /\ executed' = executed + 1
  /\ threw' = FALSE
  /\ alive' = alive

(* An execution of the callback routine that throws: notifications that    *)
(* are pending may be dropped.                                             *)
Abandon ==
  /\ MayThrow
  /\ alive
  /\ pending > 0
  /\ pending' \in 0..(pending - 1)
  /\ executed' = executed + 1
  /\ threw' = TRUE
  /\ alive' = alive

(* The destructor discards what is pending.                                *)
Destroy ==
  /\ alive
  /\ alive' = FALSE
  /\ pending' = 0
  /\ UNCHANGED <<executed, threw>>

Next == Notify \/ Execute \/ Abandon \/ Destroy

Spec == Init /\ [][Next]_<<pending, executed, threw, alive>>

FairSpec == Spec /\ WF_<<pending, executed, threw, alive>>(Execute \/ Abandon)
=============================================================================
