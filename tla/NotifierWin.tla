---------------------------- MODULE NotifierWin -----------------------------
(***************************************************************************)
(* The Windows Notifier (lib/sys/windows/notifier.cpp): every notification *)
(* is a completion of its own.                                             *)
(***************************************************************************)
EXTENDS CompletionPort

CONSTANTS
  Notifiers, \* a subset of Objects
  MaxPosts   \* bound: notifications of one notifier

ASSUME NotifierWinAssumption == Notifiers \subseteq Objects /\ MaxPosts \in Nat

VARIABLES
  hEvent,   \* m_fd.overlapped.hEvent, or Null while there is no notifier
  accepted, \* history: notifications
  processed \* history: executions of process()

nwVars == <<hEvent, accepted, processed>>

NotifierInit ==
  /\ hEvent = [o \in Notifiers |-> Null]
  /\ accepted = [o \in Notifiers |-> 0]
  /\ processed = [o \in Notifiers |-> 0]

(* The constructor: any free number may be the one of the new event.       *)
Create(o, h) ==
  /\ hEvent[o] = Null /\ \A p \in Notifiers : hEvent[p] # h
  /\ hEvent' = [hEvent EXCEPT ![o] = h]
  /\ accepted' = [accepted EXCEPT ![o] = 0]
  /\ processed' = [processed EXCEPT ![o] = 0]
  /\ addEvent(h, o)
  /\ Reborn(o, h)
  /\ UNCHANGED <<port, lpc, cur, retval>>

(* The destructor.                                                         *)
DestroyWin(o) ==
  /\ hEvent[o] # Null
  /\ eraseEvent(hEvent[o])
  /\ hEvent' = [hEvent EXCEPT ![o] = Null]
  /\ UNCHANGED <<port, lpc, cur, retval, gen, reissued, strays, accepted, processed>>

notifyWin(o) ==
  /\ hEvent[o] # Null /\ accepted[o] < MaxPosts
  /\ Post(Completion(hEvent[o], o, gen[o], "none"))
  /\ accepted' = [accepted EXCEPT ![o] = @ + 1]
  /\ UNCHANGED <<infos, lpc, cur, retval, gen, reissued, strays, hEvent, processed>>

(* Mutant of Result: process() asks to be called again.                    *)
ResultMore == 1

(* What process() returns.                                                 *)
Result == 0

processNotifier(o) ==
  /\ Called(o, Result)
  /\ processed' = [processed EXCEPT ![o] = IF @ > MaxPosts THEN @ ELSE @ + 1]
  /\ UNCHANGED <<port, infos, hEvent, accepted>>

NotifierStep == \E o \in Notifiers :
  \/ \E h \in Handles : Create(o, h)
  \/ DestroyWin(o) \/ notifyWin(o) \/ processNotifier(o)

NotifierNext == NotifierStep \/ ((LoopStep \/ NotFound) /\ UNCHANGED nwVars)

NotifierSpec == PortInit /\ NotifierInit /\ [][NotifierNext]_<<portVars, nwVars>>

-----------------------------------------------------------------------------
(* "If notified n (>0) times until notifier is processed, the callback     *)
(* routine is executed n times!"  On Windows too, also over the end and    *)
(* the restart of execute(), unless the notifier got the handle of one     *)
(* that was destroyed with notifications left.                             *)
NotifiedExactlyWin ==
  \A o \in Notifiers : hEvent[o] # Null /\ o \notin reissued =>
    LET mine == {n \in 1..Len(port) : port[n].of = <<o, gen[o]>>}
        now  == IF lpc = "call" /\ cur.of = <<o, gen[o]>> THEN 1 ELSE 0
    IN  processed[o] + Cardinality(mine) + now = accepted[o]
=============================================================================
