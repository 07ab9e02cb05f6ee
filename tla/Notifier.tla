------------------------------ MODULE Notifier ------------------------------
(***************************************************************************)
(* The Linux Notifier (lib/sys/linux/notifier.cpp): an eventfd that is     *)
(* watched by the event loop.  Any thread notifies, process() runs in the  *)
(* thread of the event loop.                                               *)
(***************************************************************************)
EXTENDS Integers

CONSTANTS
  MaxCount,   \* largest value of the eventfd's counter (2^64 - 2)
  MaxNotify,  \* bound: notifications that are accepted altogether
  MayThrow    \* may the callback routine throw?

ASSUME NotifierAssumption ==
  /\ MaxCount \in Nat \ {0}
  /\ MaxNotify \in Nat
  /\ MayThrow \in BOOLEAN

VARIABLES
  count,      \* eventfd: its counter
  ready,      \* epoll: m_fd is in the ready list
  pc,         \* process(): "wait" (not called), "read" or "call"
  left,       \* process(): eventCount - i
  handler,    \* m_eventHandler: the default, or the application's callback
  executed,   \* history: executions of m_eventHandler
  threw,      \* history: the last of them threw
  alive       \* not destroyed

vars == <<count, ready, pc, left, handler, executed, threw, alive>>

TypeOK ==
  /\ count \in 0..MaxCount
  /\ ready \in BOOLEAN
  /\ pc \in {"wait", "read", "call"}
  /\ left \in 0..MaxCount
  /\ handler \in {"nop", "application"}
  /\ executed \in 0..MaxNotify
  /\ threw \in BOOLEAN
  /\ alive \in BOOLEAN

(* The constructor.  addEvent() calls process() once, which finds nothing. *)
Init ==
  /\ count = 0
  /\ ready = FALSE
  /\ pc = "wait"
  /\ left = 0
  /\ handler = "nop"
  /\ executed = 0
  /\ threw = FALSE
  /\ alive = TRUE

(* set(eventHandler); an empty eventHandler sets the default.              *)
set(h) ==
  /\ alive
  /\ handler' = h
  /\ UNCHANGED <<count, ready, pc, left, executed, threw, alive>>

(* Mutant of notify: a write to a counter that is not 0 gives no edge.     *)
notifyLevel ==
  /\ alive
  /\ count + left + executed < MaxNotify
  /\ count < MaxCount
  /\ count' = count + 1
  /\ ready' = (ready \/ (count = 0 /\ pc = "wait"))
  /\ UNCHANGED <<pc, left, handler, executed, threw, alive>>

(* notify(): a non-blocking write, refused when the counter is at its      *)
(* limit.  Every write is an edge.                                         *)
notify ==
  /\ alive
  /\ count + left + executed < MaxNotify
  /\ IF count < MaxCount
     THEN count' = count + 1 /\ ready' = TRUE
     ELSE UNCHANGED <<count, ready>>
  /\ UNCHANGED <<pc, left, handler, executed, threw, alive>>

(* Mutant of Dispatch: no event without a callback of the application.     *)
DispatchIfSet ==
  /\ pc = "wait" /\ ready /\ alive
  /\ handler = "application"
  /\ ready' = FALSE
  /\ pc' = "read"
  /\ UNCHANGED <<count, left, handler, executed, threw, alive>>

(* The event loop calls process().                                         *)
Dispatch ==
  /\ pc = "wait" /\ ready /\ alive
  /\ ready' = FALSE
  /\ pc' = "read"
  /\ UNCHANGED <<count, left, handler, executed, threw, alive>>

(* read() hands out the counter and resets it; if it is 0 process()        *)
(* returns -1.                                                             *)
Read ==
  /\ pc = "read"
  /\ left' = count
  /\ count' = 0
  /\ pc' = IF count > 0 THEN "call" ELSE "wait"
  /\ UNCHANGED <<ready, handler, executed, threw, alive>>

(* Mutant of Call: the loop in process() ends one call too early.          *)
CallShort ==
  /\ pc = "call"
  /\ executed' = executed + 1
  /\ threw' = FALSE
  /\ left' = IF left <= 2 THEN 0 ELSE left - 1
  /\ pc' = IF left <= 2 THEN "wait" ELSE "call"
  /\ UNCHANGED <<count, ready, handler, alive>>

(* Mutant of Call: the loop in process() makes one call too many.          *)
CallOnceMore ==
  /\ pc = "call"
  /\ executed' = executed + 1
  /\ threw' = FALSE
  /\ left' = left - 1
  /\ pc' = IF left = 0 THEN "wait" ELSE "call"
  /\ UNCHANGED <<count, ready, handler, alive>>

(* m_eventHandler(); process() returns after the last one.                 *)
Call ==
  /\ pc = "call"
  /\ executed' = executed + 1
  /\ threw' = FALSE
  /\ left' = left - 1
  /\ pc' = IF left = 1 THEN "wait" ELSE "call"
  /\ UNCHANGED <<count, ready, handler, alive>>

(* m_eventHandler() throws: process() is left, the event loop catches the  *)
(* exception.                                                              *)
Throw ==
  /\ MayThrow
  /\ pc = "call"
  /\ handler = "application"
  /\ executed' = executed + 1
  /\ threw' = TRUE
  /\ left' = 0
  /\ pc' = "wait"
  /\ UNCHANGED <<count, ready, handler, alive>>

(* The destructor; eraseEvent() waits until process() has returned.        *)
Destroy ==
  /\ alive
  /\ pc = "wait"
  /\ alive' = FALSE
  /\ count' = 0
  /\ ready' = FALSE
  /\ UNCHANGED <<pc, left, handler, executed, threw>>

process == Dispatch \/ Read \/ Call

Next ==
  \/ \E h \in {"nop", "application"} : set(h)
  \/ notify \/ process \/ Throw \/ Destroy

Spec == Init /\ [][Next]_vars

(* The event loop's thread keeps running.                                  *)
FairSpec == Spec /\ WF_vars(process \/ Throw)

-----------------------------------------------------------------------------
(* The callback routine is executed once for every notification that was   *)
(* accepted, however notifications race with process() reading the         *)
(* counter, and a notification is only dropped by a callback that throws:  *)
(* the notifier implements Notification, liveness included.                *)
Promise == INSTANCE Notification WITH pending <- count + left

NotifiedExactly == Promise!Spec
NotifiedEventually == Promise!FairSpec

(* Edge-triggered epoll reports a write once.  A notification that is not  *)
(* yet read from the counter always has its signal still to come, or       *)
(* process() is about to read; also when an earlier process() was left by  *)
(* an exception and when notify() is refused at the counter's limit.       *)
SignalPending == count > 0 => ready \/ pc = "read"
=============================================================================
