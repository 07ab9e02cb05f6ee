------------------------------- MODULE Timer -------------------------------
(***************************************************************************)
(* The Linux Timer (lib/sys/linux/timer.cpp): a timerfd that is watched by *)
(* the event loop.  process() runs in the thread of the event loop,        *)
(* "loop"; set() and cancel() are called by callbacks in that thread and   *)
(* by another thread, "app".  Neither takes a mutex.                       *)
(*                                                                         *)
(* The calls of set() are numbered; the callback given to call g is called *)
(* g too.                                                                  *)
(***************************************************************************)
EXTENDS Integers

CONSTANT MaxSets  \* bound: number of calls of set()

ASSUME TimerAssumption == MaxSets \in Nat \ {0}

Threads == {"loop", "app"}
Calls   == 1..MaxSets
nop     == 0          \* the default callback
empty   == -1         \* an empty std::function
Handlers == Calls \cup {nop, empty}

VARIABLES
  armed,      \* timerfd: "off", "once" or "cyclic"
  expired,    \* timerfd: it has expired since it was armed or read
  owner,      \* history: the call of set() that armed the timerfd
  ready,      \* epoll: m_fd is in the ready list
  handler,    \* m_eventHandler
  pc,         \* process(): "wait" (not called), "read", "fire", "callback"
  tickOf,     \* history: the call of set() whose expiry process() has read
  setting,    \* set(): per thread the call in progress, 0 if none
  cancelling, \* cancel(): per thread where it is
  original,   \* cancel(): per thread originalEventHandler
  given,      \* history: the number of the last call of set()
  mode,       \* history: per call of set() "once" or "cyclic"
  shared,     \* history: "app" has called set() or cancel()
  real,       \* history: the calls of set() with a callback that is not empty
  impaired,   \* history: the calls of set() made by a callback that cancel() executes,
              \* or while m_eventHandler is empty
  firedBy,    \* history: per callback the calls of set() whose expiry it was executed for
  twice,      \* history: callbacks of single-shot timers executed more than once
  cancelled,  \* history: callbacks executed with fired = false
  calledOff,  \* history: cancel() was called after the last call of set()
  silenced    \* history: cancel() has returned, and set() was not called since

timerfd == <<armed, expired, owner, ready>>
process == <<pc, tickOf>>
calls   == <<setting, cancelling, original>>
history == <<given, mode, shared, real, impaired, firedBy, twice, cancelled, calledOff, silenced>>
vars    == <<timerfd, handler, process, calls, history>>

TypeOK ==
  /\ armed \in {"off", "once", "cyclic"}
  /\ expired \in BOOLEAN
  /\ owner \in 0..MaxSets
  /\ ready \in BOOLEAN
  /\ handler \in Handlers
  /\ pc \in {"wait", "read", "fire", "callback"}
  /\ setting \in [Threads -> 0..MaxSets]
  /\ cancelling \in [Threads -> {"no", "gettime", "callback", "disarm"}]
  /\ original \in [Threads -> Handlers]
  /\ tickOf \in 0..MaxSets
  /\ given \in 0..MaxSets
  /\ mode \in [Calls -> {"once", "cyclic"}]
  /\ shared \in BOOLEAN
  /\ real \in SUBSET Calls
  /\ impaired \in SUBSET Calls
  /\ firedBy \in [Calls -> SUBSET Calls]
  /\ twice \in SUBSET Calls
  /\ cancelled \in SUBSET Calls
  /\ calledOff \in BOOLEAN
  /\ silenced \in BOOLEAN

(* The constructor.  addEvent() calls process() once, which finds nothing. *)
Init ==
  /\ armed = "off"
  /\ expired = FALSE
  /\ owner = 0
  /\ ready = FALSE
  /\ handler = nop
  /\ pc = "wait"
  /\ tickOf = 0
  /\ setting = [t \in Threads |-> 0]
  /\ cancelling = [t \in Threads |-> "no"]
  /\ original = [t \in Threads |-> nop]
  /\ given = 0
  /\ mode = [g \in Calls |-> "once"]
  /\ shared = FALSE
  /\ real = {}
  /\ impaired = {}
  /\ firedBy = [g \in Calls |-> {}]
  /\ twice = {}
  /\ cancelled = {}
  /\ calledOff = FALSE
  /\ silenced = FALSE

-----------------------------------------------------------------------------
(* The kernel (external): the period of an armed timer elapses.            *)
Expire ==
  /\ armed # "off"
  /\ ~expired
  /\ expired' = TRUE
  /\ ready' = TRUE
  /\ armed' = IF armed = "cyclic" THEN "cyclic" ELSE "off"
  /\ UNCHANGED <<owner, handler, process, calls, history>>

(* timerfd_settime() (external): a value of 0 disarms; either way earlier  *)
(* expiries are forgotten.                                                 *)
settime(m) == armed' = m /\ expired' = FALSE

-----------------------------------------------------------------------------
(* Callbacks make calls from the loop's thread: that of this timer, or     *)
(* that of another descriptor while process() is not running.              *)
MayCall(t) ==
  /\ setting[t] = 0
  /\ t = "loop" => pc \in {"wait", "callback"}

(* History: impaired calls, with the one that thread t makes now.          *)
Impaired(t) ==
  IF cancelling[t] = "callback" \/ handler = empty
  THEN impaired \cup {given + 1} ELSE impaired

(* Mutant of SetHandler: a callback that is set already is kept.           *)
SetHandlerKeeps(t, m, isEmpty) ==
  /\ given < MaxSets
  /\ MayCall(t)
  /\ cancelling[t] \in {"no", "callback"}
  /\ given' = given + 1
  /\ handler' = IF handler = nop THEN given + 1 ELSE handler
  /\ setting' = [setting EXCEPT ![t] = given + 1]
  /\ mode' = [mode EXCEPT ![given + 1] = m]
  /\ real' = real \cup {given + 1}
  /\ impaired' = Impaired(t)
  /\ shared' = (shared \/ t = "app")
  /\ calledOff' = FALSE
  /\ silenced' = FALSE
  /\ UNCHANGED <<timerfd, process, cancelling, original, firedBy, twice, cancelled>>

(* set(period_ms, repeated, eventHandler) up to timerfd_settime().  It is  *)
(* the callback set before that is tested, not the new one.  A period of 0 *)
(* is refused with no effect.                                              *)
SetHandler(t, m, isEmpty) ==
  /\ given < MaxSets
  /\ MayCall(t)
  /\ cancelling[t] \in {"no", "callback"}
  /\ given' = given + 1
  /\ handler' = IF handler = empty THEN nop ELSE IF isEmpty THEN empty ELSE given + 1
  /\ setting' = [setting EXCEPT ![t] = given + 1]
  /\ mode' = [mode EXCEPT ![given + 1] = m]
  /\ real' = IF isEmpty THEN real ELSE real \cup {given + 1}
  /\ impaired' = Impaired(t)
  /\ shared' = (shared \/ t = "app")
  /\ calledOff' = FALSE
  /\ silenced' = FALSE
  /\ UNCHANGED <<timerfd, process, cancelling, original, firedBy, twice, cancelled>>

(* Mutant of SetTime: a cyclic timer gets an interval but no value.        *)
SetTimeNoValue(t) ==
  /\ setting[t] # 0
  /\ settime(IF mode[setting[t]] = "cyclic" THEN "off" ELSE "once")
  /\ owner' = setting[t]
  /\ setting' = [setting EXCEPT ![t] = 0]
  /\ UNCHANGED <<ready, handler, process, cancelling, original, history>>

SetTime(t) ==
  /\ setting[t] # 0
  /\ settime(mode[setting[t]])
  /\ owner' = setting[t]
  /\ setting' = [setting EXCEPT ![t] = 0]
  /\ UNCHANGED <<ready, handler, process, cancelling, original, history>>

-----------------------------------------------------------------------------
(* History: callback h is executed with fired = false.                     *)
Cancelled(h) ==
  /\ cancelled' = cancelled \cup {h}
  /\ twice' = IF mode[h] = "once" /\ (h \in cancelled \/ firedBy[h] # {})
              THEN twice \cup {h} ELSE twice

(* Mutant of CancelSwap: m_eventHandler is not cleared.                    *)
CancelNoSwap(t) ==
  /\ MayCall(t)
  /\ cancelling[t] = "no"
  /\ original' = [original EXCEPT ![t] = handler]
  /\ cancelling' = [cancelling EXCEPT ![t] = "gettime"]
  /\ calledOff' = TRUE
  /\ shared' = (shared \/ t = "app")
  /\ UNCHANGED <<timerfd, handler, process, setting, given, mode, real, impaired, firedBy, twice,
                 cancelled, silenced>>

(* cancel(): m_eventHandler is cleared first.                              *)
CancelSwap(t) ==
  /\ MayCall(t)
  /\ cancelling[t] = "no"
  /\ original' = [original EXCEPT ![t] = handler]
  /\ handler' = nop
  /\ cancelling' = [cancelling EXCEPT ![t] = "gettime"]
  /\ calledOff' = TRUE
  /\ shared' = (shared \/ t = "app")
  /\ UNCHANGED <<timerfd, process, setting, given, mode, real, impaired, firedBy, twice, cancelled,
                 silenced>>

(* timerfd_gettime(): if time remains, originalEventHandler(false).        *)
CancelGettime(t) ==
  /\ cancelling[t] = "gettime"
  /\ IF armed # "off" /\ original[t] \in Calls
     THEN /\ Cancelled(original[t])
          /\ cancelling' = [cancelling EXCEPT ![t] = "callback"]
     ELSE /\ cancelling' = [cancelling EXCEPT ![t] = "disarm"]
          /\ UNCHANGED <<cancelled, twice>>
  /\ UNCHANGED <<timerfd, handler, process, setting, original, given, mode, shared, real,
                 impaired, firedBy, calledOff, silenced>>

(* The callback that cancel() executes calls cancel() in turn.             *)
CancelNested(t) ==
  /\ MayCall(t)
  /\ cancelling[t] = "callback"
  /\ IF armed # "off" /\ handler \in Calls THEN Cancelled(handler)
                                           ELSE UNCHANGED <<cancelled, twice>>
  /\ handler' = nop
  /\ settime("off")
  /\ calledOff' = TRUE
  /\ UNCHANGED <<owner, ready, process, calls, given, mode, shared, real, impaired, firedBy, silenced>>

CancelCallbackReturn(t) ==
  /\ cancelling[t] = "callback"
  /\ setting[t] = 0
  /\ cancelling' = [cancelling EXCEPT ![t] = "disarm"]
  /\ UNCHANGED <<timerfd, handler, process, setting, original, history>>

(* timerfd_settime() with 0, and cancel() returns.                         *)
CancelDisarm(t) ==
  /\ cancelling[t] = "disarm"
  /\ settime("off")
  /\ cancelling' = [cancelling EXCEPT ![t] = "no"]
  /\ original' = [original EXCEPT ![t] = nop]
  /\ silenced' = calledOff
  /\ UNCHANGED <<owner, ready, handler, process, setting, given, mode, shared, real, impaired, firedBy,
                 twice, cancelled, calledOff>>

-----------------------------------------------------------------------------
(* process()                                                               *)

LoopFree == setting["loop"] = 0 /\ cancelling["loop"] = "no"

(* The event loop calls process().                                         *)
Dispatch ==
  /\ pc = "wait" /\ ready /\ LoopFree
  /\ ready' = FALSE
  /\ pc' = "read"
  /\ UNCHANGED <<armed, expired, owner, handler, tickOf, calls, history>>

(* Mutant of Read: a buffer of less than 8 bytes, for which read() fails.  *)
ReadShort ==
  /\ pc = "read"
  /\ pc' = "wait"
  /\ UNCHANGED <<timerfd, handler, tickOf, calls, history>>

(* read() gives 8 bytes if the timer has expired.                          *)
Read ==
  /\ pc = "read"
  /\ expired' = FALSE
  /\ pc' = IF expired THEN "fire" ELSE "wait"
  /\ tickOf' = IF expired THEN owner ELSE tickOf
  /\ UNCHANGED <<armed, owner, ready, handler, calls, history>>

(* m_eventHandler(true); calling an empty one throws, the event loop       *)
(* catches it.                                                             *)
Fire ==
  /\ pc = "fire"
  /\ IF handler \in Calls
     THEN /\ pc' = "callback"
          /\ firedBy' = [firedBy EXCEPT ![handler] = @ \cup {tickOf}]
          /\ twice' = IF mode[handler] = "once"
                         /\ (handler \in cancelled \/ firedBy[handler] # {})
                      THEN twice \cup {handler} ELSE twice
     ELSE pc' = "wait" /\ UNCHANGED <<firedBy, twice>>
  /\ UNCHANGED <<timerfd, handler, tickOf, calls, given, mode, shared, real, impaired, cancelled,
                 calledOff, silenced>>

CallbackReturn ==
  /\ pc = "callback" /\ LoopFree
  /\ pc' = "wait"
  /\ UNCHANGED <<timerfd, handler, tickOf, calls, history>>

-----------------------------------------------------------------------------
SetCall(t) == \E m \in {"once", "cyclic"}, isEmpty \in BOOLEAN :
                SetHandler(t, m, isEmpty)

InCall(t) ==
  SetTime(t) \/ CancelGettime(t) \/ CancelCallbackReturn(t) \/ CancelDisarm(t)

LoopStep == Dispatch \/ Read \/ Fire \/ CallbackReturn

Next ==
  \/ \E t \in Threads : SetCall(t) \/ CancelSwap(t) \/ CancelNested(t) \/ InCall(t)
  \/ LoopStep \/ Expire

Spec == Init /\ [][Next]_vars

(* Threads keep running, callbacks end and periods elapse.                 *)
FairSpec ==
  /\ Spec
  /\ WF_vars(LoopStep)
  /\ SF_vars(CallbackReturn)
  /\ SF_vars(Dispatch)
  /\ WF_vars(Expire)
  /\ \A t \in Threads : WF_vars(InCall(t))

-----------------------------------------------------------------------------
(* Properties                                                              *)

(* retrigger_timer_test: a timer that is set again does not signal for the *)
(* earlier setting.  A callback is executed with fired = true only for an  *)
(* expiry of the setting it was given to, as long as set() and cancel()    *)
(* are called in the thread of the event loop only.                        *)
OwnExpiry == ~shared => \A g \in Calls : firedBy[g] \subseteq {g}

(* The callback of a single-shot timer is executed at most once: fired or  *)
(* cancelled, never both, even if it calls cancel() or set() itself, as    *)
(* long as all calls are made in the thread of the event loop.             *)
AtMostOnce == ~shared => twice = {}

(* Once cancel() has returned no callback is executed until set() is       *)
(* called again, whatever the event loop and another thread were doing     *)
(* meanwhile.                                                              *)
CancelSilences == silenced /\ pc = "fire" => handler \notin Calls

(* Nothing is going on, and the timer is not going to signal.              *)
AtRest ==
  /\ pc = "wait" /\ armed = "off" /\ ~expired
  /\ \A t \in Threads : setting[t] = 0 /\ cancelling[t] = "no"

(* timer.h: the timer "starts when setting the period".  It comes to rest  *)
(* only after the last callback given was executed, or cancel() was called *)
(* after the last call of set().  In the thread of the event loop the code *)
(* gets two calls of set() wrong, and no other: one made by a callback     *)
(* that cancel() executes is undone by the rest of cancel(), and one made  *)
(* while m_eventHandler is empty sets the default callback.                *)
FiresUnlessImpaired ==
  AtRest /\ given \in real =>
    firedBy[given] # {} \/ calledOff \/ given \in impaired \/ shared

(* A timer that is set does signal, unless it is cancelled or set again,   *)
(* or impaired as above.                                                   *)
FiresEventually ==
  \A g \in Calls :
    (given = g /\ g \in real \ impaired) ~>
      (firedBy[g] # {} \/ calledOff \/ given > g \/ shared)
=============================================================================
