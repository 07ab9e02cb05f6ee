--------------------------- MODULE CompletionPort ---------------------------
(***************************************************************************)
(* The Windows EventLoop (lib/sys/windows/eventloop.cpp): completions are  *)
(* taken from a completion port one by one, in order.  The key of a        *)
(* completion is the handle of an event or a timer, and m_eventInfos has   *)
(* the callback for it.  The key outlives the entry, the object and the    *)
(* handle, whose number is given out again.                                *)
(***************************************************************************)
EXTENDS Integers, Sequences, FiniteSets

CONSTANTS
  Handles,  \* numbers of handles
  Objects,  \* what registers with the event loop
  MaxGen,   \* bound: how often an object is created, set or started
  MaxQueue  \* bound: completions in the port

Null     == 0
StopKey  == -1 \* WSA_INVALID_EVENT
NoObject == "no object"

ASSUME CompletionPortAssumption ==
  /\ Handles \subseteq Nat \ {0}
  /\ NoObject \notin Objects
  /\ MaxGen \in Nat /\ MaxQueue \in Nat

VARIABLES
  port,     \* the completions in the port
  infos,    \* m_eventInfos: handle -> object whose process() is called
  lpc,      \* execute(): "wait", "call", "once" or "ended"
  cur,      \* the completion being handled
  retval,   \* what the callback has returned
  gen,      \* history: how often an object was created, set or started
  reissued, \* history: objects whose key was posted for others, or for an earlier life
  strays    \* history: objects that were called for a completion that is not theirs

portVars == <<port, infos, lpc, cur, retval, gen, reissued, strays>>

(* of is history: for which object, and which life of it, it was posted.   *)
Completion(key, o, g, error) == [key |-> key, of |-> <<o, g>>, error |-> error]
NoCompletion == Completion(Null, NoObject, 0, "none")

PortInit ==
  /\ port = <<>>
  /\ infos = [h \in Handles |-> NoObject]
  /\ lpc = "wait" /\ cur = NoCompletion /\ retval = 0
  /\ gen = [o \in Objects |-> 0]
  /\ reissued = {} /\ strays = {}

Queued == {port[n] : n \in 1..Len(port)} \cup (IF lpc \in {"call", "once"} THEN {cur} ELSE {})

(* A completion of the present life of o waits, or is being handled.       *)
Due(o) == \E c \in Queued : c.of = <<o, gen[o]>>

(* The history when o gets the key h for a new life.                       *)
Reborn(o, h) ==
  /\ gen[o] < MaxGen
  /\ gen' = [gen EXCEPT ![o] = @ + 1]
  /\ reissued' = IF \E c \in Queued : c.key = h THEN reissued \cup {o} ELSE reissued \ {o}
  /\ strays' = strays \ {o}

-----------------------------------------------------------------------------
(* addEvent() and eraseEvent(), which another thread calls while no        *)
(* callback is executed: both take the mutex.                              *)

addEvent(h, o) == infos' = [infos EXCEPT ![h] = o]

(* Mutant of eraseEvent: the entry is left.                                *)
eraseEventNot(h) == infos' = infos

eraseEvent(h) == infos' = IF h = Null THEN infos ELSE [infos EXCEPT ![h] = NoObject]

(* PostQueuedCompletionStatus(), or an overlapped operation that completes.*)
Post(c) == Len(port) < MaxQueue /\ port' = Append(port, c)

LoopStop ==
  /\ Post(Completion(StopKey, NoObject, 0, "none"))
  /\ UNCHANGED <<infos, lpc, cur, retval, gen, reissued, strays>>

(* execute() is called again.                                              *)
Execute ==
  /\ lpc = "ended"
  /\ lpc' = "wait"
  /\ UNCHANGED <<port, infos, cur, retval, gen, reissued, strays>>

(* GetQueuedCompletionStatus().  A connection that has gone calls back     *)
(* once, an operation that was aborted is ignored, any other error ends    *)
(* execute().                                                              *)
Take ==
  /\ lpc = "wait" /\ port # <<>>
  /\ port' = Tail(port)
  /\ LET c == Head(port)
     IN  \/ /\ c.error = "aborted"
            /\ UNCHANGED <<lpc, cur>>
         \/ /\ c.error = "other" \/ (c.error = "none" /\ c.key = StopKey)
            /\ lpc' = "ended" /\ UNCHANGED cur
         \/ c.error = "netname deleted" /\ lpc' = "once" /\ cur' = c
         \/ c.error = "none" /\ c.key # StopKey /\ lpc' = "call" /\ cur' = c
  /\ UNCHANGED <<infos, retval, gen, reissued, strays>>

Found == IF cur.key = Null THEN NoObject ELSE infos[cur.key]

(* The inner loop finds no entry; retval stays as it is.                   *)
NotFound ==
  /\ lpc \in {"call", "once"} /\ Found = NoObject
  /\ lpc = "call" => retval = 0
  /\ lpc' = "wait" /\ cur' = NoCompletion
  /\ UNCHANGED <<port, infos, retval, gen, reissued, strays>>

(* The callback has returned a positive number and its entry was erased    *)
(* since: the inner loop goes round for good.                              *)
Spins == lpc = "call" /\ Found = NoObject /\ retval > 0

(* The callback of o is executed and returns r.                            *)
Called(o, r) ==
  /\ lpc \in {"call", "once"} /\ Found = o
  /\ lpc' = IF lpc = "call" /\ r > 0 THEN "call" ELSE "wait"
  /\ retval' = IF lpc' = "call" THEN r ELSE 0
  /\ cur' = IF lpc' = "call" THEN cur ELSE NoCompletion
  /\ strays' = IF cur.of = <<o, gen[o]>> THEN strays ELSE strays \cup {o}
  /\ UNCHANGED <<gen, reissued>>

LoopStep == LoopStop \/ Execute \/ Take

-----------------------------------------------------------------------------
(* A callback is executed for a completion of its own object, and of the   *)
(* present life of it, unless its handle had completions left when it was  *)
(* given to the object, or is posted on behalf of an earlier life.         *)
OwnCompletion == strays \subseteq reissued
=============================================================================
