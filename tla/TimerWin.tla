------------------------------ MODULE TimerWin ------------------------------
(***************************************************************************)
(* The Windows Timer (lib/sys/windows/timer.cpp).  The timer thread of the *)
(* system executes timerCb(), which posts whatever handle the Timer has by *)
(* then; deleting a timer does not wait for a timerCb() that runs.         *)
(***************************************************************************)
EXTENDS CompletionPort

ASSUME TimerWinAssumption == "timer" \in Objects

VARIABLES
  hTimer,   \* m_fd.overlapped.hEvent
  setting,  \* set(): "no", "deleted" (the earlier timer) or "created" (the new one)
  armed,    \* the system's timer: "no", "once" or "repeated"
  firing,   \* the settings for which a timerCb() runs
  fired,    \* history: has the callback been executed with TRUE for this setting?
  early     \* history: the event loop took an expiry before addEvent() was called

twVars == <<hTimer, setting, armed, firing, fired, early>>

TimerInit ==
  /\ hTimer = Null /\ setting = "no" /\ armed = "no" /\ firing = {}
  /\ fired = FALSE /\ early = FALSE

(* eraseEvent() and DeleteTimerQueueTimer().                               *)
Delete ==
  /\ eraseEvent(hTimer)
  /\ hTimer' = Null /\ armed' = "no"
  /\ UNCHANGED <<port, lpc, cur, retval, gen, reissued, strays, firing, fired, early>>

(* set(): first the earlier timer is deleted ...                           *)
SetDelete ==
  /\ setting = "no"
  /\ Delete
  /\ setting' = "deleted"

(* ... then a new one is created, with any free handle ...                 *)
SetCreate(h, kind) ==
  /\ setting = "deleted"
  /\ hTimer' = h
  /\ armed' = kind
  /\ setting' = "created"
  /\ Reborn("timer", h)
  /\ fired' = FALSE /\ early' = FALSE
  /\ UNCHANGED <<port, infos, lpc, cur, retval, firing>>

SetFails ==
  /\ setting = "deleted"
  /\ setting' = "no"
  /\ UNCHANGED <<portVars, hTimer, armed, firing, fired, early>>

(* ... which is running before its event is added.                         *)
SetAdd ==
  /\ setting = "created"
  /\ addEvent(hTimer, "timer")
  /\ setting' = "no"
  /\ UNCHANGED <<port, lpc, cur, retval, gen, reissued, strays, hTimer, armed, firing, fired, early>>

(* cancel(), and the destructor, which does not execute the callback.      *)
CancelWin ==
  /\ setting = "no"
  /\ Delete
  /\ UNCHANGED setting

(* The timer thread.                                                       *)
Expire ==
  /\ armed # "no" /\ gen["timer"] \notin firing
  /\ firing' = firing \cup {gen["timer"]}
  /\ armed' = IF armed = "once" THEN "no" ELSE armed
  /\ UNCHANGED <<portVars, hTimer, setting, fired, early>>

timerCb(g) ==
  /\ g \in firing
  /\ Post(Completion(hTimer, "timer", g, "none"))
  /\ firing' = firing \ {g}
  /\ reissued' = IF g # gen["timer"] /\ hTimer # Null THEN {"timer"} ELSE reissued
  /\ UNCHANGED <<infos, lpc, cur, retval, gen, strays, hTimer, setting, armed, fired, early>>

(* Mutant of processTimer's Fired: the expiry is not handed on.            *)
FiredNot == fired

Fired == TRUE

processTimer ==
  /\ Called("timer", 0)
  /\ fired' = Fired
  /\ UNCHANGED <<port, infos, hTimer, setting, armed, firing, early>>

(* NotFound, and what it means for the timer.                              *)
TimerNotFound ==
  /\ NotFound
  /\ early' = (early \/ (cur.of = <<"timer", gen["timer"]>> /\ setting = "created"))
  /\ UNCHANGED <<hTimer, setting, armed, firing, fired>>

TimerStep ==
  \/ SetDelete \/ SetFails \/ SetAdd \/ CancelWin \/ Expire \/ processTimer \/ TimerNotFound
  \/ \E h \in Handles, kind \in {"once", "repeated"} : SetCreate(h, kind)
  \/ \E g \in firing : timerCb(g)

TimerNext == TimerStep \/ (LoopStep /\ UNCHANGED twVars)

TimerSpec == PortInit /\ TimerInit /\ [][TimerNext]_<<portVars, twVars>>

-----------------------------------------------------------------------------
(* A timer that was set fires, unless it is set again or cancelled: its    *)
(* expiry is on its way until the callback was executed.  The one case the *)
(* code loses is an expiry that the event loop takes before set() has      *)
(* added the event.                                                        *)
TimerDue ==
  hTimer # Null /\ setting = "no" /\ ~fired =>
    armed # "no" \/ gen["timer"] \in firing \/ Due("timer") \/ early
=============================================================================
