--------------------------- MODULE NotifierProofs ---------------------------
(***************************************************************************)
(* Proofs about the modules that MCNotifier joins: the notifier of Linux,  *)
(* for every limit of its counter, and what is called by the completion    *)
(* port on Windows, Notifier, Timer, TcpServer and MulticastServer, for    *)
(* any number of handles, lives and completions.                           *)
(***************************************************************************)
EXTENDS Notifier, NotifierWin, TimerWin, ServersWin, FiniteSetTheorems, TLAPS

-----------------------------------------------------------------------------
(* Linux                                                                   *)

(* While process() is not in its loop nothing is left to call, and the     *)
(* bound on notifications bounds what was executed.                        *)
Inv ==
  /\ TypeOK
  /\ pc # "call" => left = 0
  /\ pc = "call" => left > 0
  /\ ~alive => pc = "wait" /\ count = 0
  /\ count + left + executed <= MaxNotify

LEMMA InvInit == Init => Inv
<1> SUFFICES ASSUME Init PROVE Inv
  OBVIOUS
<1>1. ready \in BOOLEAN /\ threw \in BOOLEAN /\ alive \in BOOLEAN /\ alive
  BY DEF Init
<1>2. /\ count \in 0..MaxCount /\ left \in 0..MaxCount /\ executed \in 0..MaxNotify
      /\ count + left + executed <= MaxNotify
  BY NotifierAssumption DEF Init
<1> QED
  BY <1>1, <1>2 DEF Init, Inv, TypeOK

LEMMA InvStep == Inv /\ [Next]_vars => Inv'
<1> SUFFICES ASSUME Inv, [Next]_vars PROVE Inv'
  OBVIOUS
<1> USE NotifierAssumption DEF Inv, TypeOK
<1>1. CASE \E h \in {"nop", "application"} : set(h)
  BY <1>1 DEF set
<1>2. CASE notify
  <2>1. ready' \in BOOLEAN
    BY <1>2 DEF notify
  <2>2. count' \in 0..MaxCount /\ count' + left + executed <= MaxNotify
    BY <1>2 DEF notify
  <2> QED
    BY <1>2, <2>1, <2>2 DEF notify
<1>3. CASE Dispatch
  BY <1>3 DEF Dispatch
<1>4. CASE Read
  BY <1>4 DEF Read
<1>5. CASE Call
  <2>1. threw' \in BOOLEAN
    BY <1>5 DEF Call
  <2> QED
    BY <1>5, <2>1 DEF Call
<1>6. CASE Throw
  <2>1. threw' \in BOOLEAN
    BY <1>6 DEF Throw
  <2> QED
    BY <1>6, <2>1 DEF Throw
<1>7. CASE Destroy
  <2>1. ready' \in BOOLEAN /\ alive' \in BOOLEAN
    BY <1>7 DEF Destroy
  <2>2. count' \in 0..MaxCount /\ count' + left + executed <= MaxNotify
    BY <1>7 DEF Destroy
  <2> QED
    BY <1>7, <2>1, <2>2 DEF Destroy
<1>8. CASE UNCHANGED vars
  BY <1>8 DEF vars
<1> QED
  BY <1>1, <1>2, <1>3, <1>4, <1>5, <1>6, <1>7, <1>8 DEF Next, process

LEMMA Invariant == Spec => []Inv
BY InvInit, InvStep, PTL DEF Spec

(* The counters keep their ranges: a read of the eventfd never yields more *)
(* than the counter can hold, and nothing is executed that was not         *)
(* notified.                                                               *)
THEOREM TypeCorrect == Spec => []TypeOK
<1>1. Inv => TypeOK
  BY DEF Inv
<1> QED
  BY <1>1, Invariant, PTL

(* No notification waits in the counter without a wake-up to come: the     *)
(* race between notify() and process(), which takes the signal first and   *)
(* the counter afterwards, loses nothing, with or without exceptions.      *)
THEOREM SignalPendingAlways == Spec => []SignalPending
<1>1. Init => SignalPending
  BY DEF Init, SignalPending
<1>2. Inv /\ SignalPending /\ [Next]_vars => SignalPending'
  <2> SUFFICES ASSUME Inv, SignalPending, [Next]_vars PROVE SignalPending'
    OBVIOUS
  <2> USE DEF SignalPending
  <2>1. CASE \E h \in {"nop", "application"} : set(h)
    BY <2>1 DEF set
  <2>2. CASE notify
    BY <2>2 DEF notify
  <2>3. CASE Dispatch \/ Throw \/ Destroy
    BY <2>3 DEF Dispatch, Throw, Destroy
  <2>4. CASE Read
    BY <2>4 DEF Read
  <2>5. CASE Call
    BY <2>5 DEF Call
  <2>6. CASE UNCHANGED vars
    BY <2>6 DEF vars
  <2> QED
    BY <2>1, <2>2, <2>3, <2>4, <2>5, <2>6 DEF Next, process
<1> QED
  BY <1>1, <1>2, Invariant, PTL DEF Spec

(* Every step of the notifier is a step of Notification or changes nothing *)
(* there.                                                                  *)
LEMMA PromiseStep ==
  ASSUME Inv, [Next]_vars
  PROVE  [Promise!Next]_<<count + left, executed, threw, alive>>
<1> USE DEF Inv, TypeOK
<1>1. CASE \E h \in {"nop", "application"} : set(h)
  BY <1>1 DEF set
<1>2. CASE notify
  BY <1>2, NotifierAssumption DEF notify, Promise!Next, Promise!Notify
<1>3. CASE Dispatch
  BY <1>3 DEF Dispatch
<1>4. CASE Read
  BY <1>4, NotifierAssumption DEF Read
<1>5. CASE Call
  <2>1. alive /\ count + left > 0 /\ count' + left' = count + left - 1
    BY <1>5, NotifierAssumption DEF Call
  <2> QED
    BY <1>5, <2>1 DEF Call, Promise!Next, Promise!Execute
<1>6. CASE Throw
  <2>1. alive /\ count + left > 0 /\ count' + left' \in 0..(count + left - 1)
    BY <1>6, NotifierAssumption DEF Throw
  <2>2. MayThrow /\ executed' = executed + 1 /\ threw' = TRUE /\ alive' = alive
    BY <1>6 DEF Throw
  <2>3. Promise!Abandon
    BY <2>1, <2>2 DEF Promise!Abandon
  <2> QED
    BY <2>3 DEF Promise!Next
<1>7. CASE Destroy
  <2>1. count' + left' = 0
    BY <1>7 DEF Destroy
  <2>2. alive /\ alive' = FALSE /\ executed' = executed /\ threw' = threw
    BY <1>7 DEF Destroy
  <2> QED
    BY <2>1, <2>2 DEF Promise!Next, Promise!Destroy
<1>8. CASE UNCHANGED vars
  BY <1>8 DEF vars
<1> QED
  BY <1>1, <1>2, <1>3, <1>4, <1>5, <1>6, <1>7, <1>8 DEF Next, process

(* Notified n times, the callback routine is executed n times, unless it   *)
(* throws: the Linux notifier implements Notification.                     *)
THEOREM NotifierImplements == Spec => NotifiedExactly
<1>1. Init => Promise!Init
  BY DEF Init, Promise!Init
<1>2. Inv /\ [Next]_vars => [Promise!Next]_<<count + left, executed, threw, alive>>
  BY PromiseStep
<1> QED
  BY <1>1, <1>2, Invariant, PTL DEF Spec, NotifiedExactly, Promise!Spec

-----------------------------------------------------------------------------
(* The completion port                                                     *)

(* The completions there are.                                              *)
Errors == {"none", "aborted", "other", "netname deleted"}
Completions == [key : Handles \cup {Null, StopKey}, of : (Objects \cup {NoObject}) \X Nat,
                error : Errors]

PortOK ==
  /\ port \in Seq(Completions)
  /\ infos \in [Handles -> Objects \cup {NoObject}]
  /\ lpc \in {"wait", "call", "once", "ended"}
  /\ cur \in Completions
  /\ retval \in Int
  /\ gen \in [Objects -> Nat]

(* No completion is of a life still to come.                               *)
GenInv == \A c \in Queued, o \in Objects, g \in Nat : c.of = <<o, g>> => g <= gen[o]

(* Of notifiers and timers: nothing fails, and no callback is looked up    *)
(* for the completion of stop().                                           *)
PlainInv ==
  /\ \A c \in Queued : c.error = "none" /\ (c.key = StopKey => c.of = <<NoObject, 0>>)
  /\ lpc # "once" /\ retval = 0
  /\ lpc = "call" => cur.key # StopKey

(* What the steps do to the completions that wait or are being handled.    *)
LEMMA QueuedPost ==
  ASSUME PortOK, NEW c \in Completions, Post(c), UNCHANGED <<lpc, cur>>
  PROVE  Queued' = Queued \cup {c} /\ port' \in Seq(Completions)
<1>1. /\ port' \in Seq(Completions) /\ Len(port) \in Nat /\ Len(port') = Len(port) + 1
      /\ port'[Len(port) + 1] = c /\ \A n \in 1..Len(port) : port'[n] = port[n]
  BY DEF Post, PortOK
<1>2. {port'[n] : n \in 1..Len(port')} = {port[n] : n \in 1..Len(port)} \cup {c}
  <2>1. \A n \in 1..Len(port') : n \in 1..Len(port) \/ n = Len(port) + 1
    BY <1>1
  <2>2. \A n \in 1..Len(port) : n \in 1..Len(port')
    BY <1>1
  <2>3. Len(port) + 1 \in 1..Len(port')
    BY <1>1
  <2> QED
    BY <1>1, <2>1, <2>2, <2>3
<1> QED
  BY <1>1, <1>2 DEF Queued

LEMMA QueuedSame ==
  ASSUME UNCHANGED <<port, lpc, cur>>
  PROVE  Queued' = Queued
BY DEF Queued

(* Every one of them is a completion.                                      *)
LEMMA QueuedType ==
  ASSUME PortOK
  PROVE  Queued \subseteq Completions
BY DEF Queued, PortOK

LEMMA QueuedTake ==
  ASSUME PortOK, Take
  PROVE  /\ Head(port) \in Queued /\ Queued' \subseteq Queued
         /\ Queued \subseteq Queued' \cup {Head(port)}
         /\ port' \in Seq(Completions) /\ cur' \in Completions
<1>1. /\ Len(port) \in Nat \ {0} /\ Len(port') = Len(port) - 1 /\ Head(port) = port[1]
      /\ port' \in Seq(Completions)
      /\ \A n \in 1..Len(port') : n + 1 \in 1..Len(port) /\ port'[n] = port[n + 1]
  <2>1. port \in Seq(Completions) /\ port # <<>> /\ port' = Tail(port)
    BY DEF Take, PortOK
  <2> QED
    BY <2>1
<1>2. 1 \in 1..Len(port) /\ \A n \in 2..Len(port) : n - 1 \in 1..Len(port') /\ port'[n - 1] = port[n]
  BY <1>1
<1>3. /\ {port'[n] : n \in 1..Len(port')} \subseteq {port[n] : n \in 1..Len(port)}
      /\ {port[n] : n \in 1..Len(port)} \subseteq {port'[n] : n \in 1..Len(port')} \cup {port[1]}
  <2>1. \A n \in 1..Len(port) : n = 1 \/ n \in 2..Len(port)
    BY <1>1
  <2> QED
    BY <1>1, <1>2, <2>1
<1>4. Queued = {port[n] : n \in 1..Len(port)} /\ port[1] \in Queued
  BY <1>2 DEF Take, Queued
<1>5. (lpc' \in {"call", "once"} => cur' = Head(port)) /\ cur' \in {cur, Head(port)}
  BY DEF Take
<1>6. Queued' \subseteq {port'[n] : n \in 1..Len(port')} \cup {port[1]}
      /\ {port'[n] : n \in 1..Len(port')} \subseteq Queued'
  BY <1>1, <1>5 DEF Queued
<1>7. port[1] \in Completions
  BY <1>4, QueuedType
<1> QED
  BY <1>1, <1>3, <1>4, <1>5, <1>6, <1>7 DEF PortOK

LEMMA QueuedHandled ==
  ASSUME PortOK, UNCHANGED port, lpc \in {"call", "once"},
         \/ lpc' = "wait" /\ cur' = NoCompletion
         \/ lpc' = "call" /\ cur' = cur
  PROVE  /\ cur \in Queued /\ Queued' \subseteq Queued /\ cur' \in Completions
         /\ Queued \subseteq Queued' \cup {cur} /\ (lpc' = "call" => Queued' = Queued)
<1>1. NoCompletion \in Completions
  BY DEF NoCompletion, Completion, Completions, Errors, Null
<1> QED
  BY <1>1 DEF Queued, PortOK

(* The rest of the state of the port.                                      *)
LEMMA PortStep ==
  ASSUME PortOK,
         \/ LoopStop \/ Execute \/ Take \/ NotFound
         \/ \E o \in Objects, r \in {-1, 0, 1} : Called(o, r) /\ UNCHANGED <<port, infos>>
  PROVE  PortOK'
<1>1. CASE LoopStop
  <2>1. Completion(StopKey, NoObject, 0, "none") \in Completions
    BY DEF Completion, Completions, Errors
  <2> QED
    BY <1>1, <2>1, QueuedPost DEF LoopStop, PortOK
<1>2. CASE Execute
  BY <1>2 DEF Execute, PortOK
<1>3. CASE Take
  <2>1. lpc' \in {"wait", "call", "once", "ended"}
    BY <1>3 DEF Take
  <2> QED
    BY <1>3, <2>1, QueuedTake DEF Take, PortOK
<1>4. CASE NotFound
  BY <1>4, QueuedHandled DEF NotFound, PortOK
<1>5. ASSUME NEW o \in Objects, NEW r \in {-1, 0, 1}, Called(o, r), UNCHANGED <<port, infos>> PROVE PortOK'
  <2>1. /\ lpc' \in {"call", "wait"} /\ retval' \in Int /\ gen' = gen
        /\ cur' = IF lpc' = "call" THEN cur ELSE NoCompletion
    BY <1>5 DEF Called
  <2>2. cur' \in Completions
    BY <1>5, <2>1, QueuedHandled DEF Called
  <2> QED
    BY <1>5, <2>1, <2>2 DEF PortOK
<1> QED
  BY <1>1, <1>2, <1>3, <1>4, <1>5

(* Completions that are taken or handled leave nothing new behind.         *)
LEMMA LoopQueued ==
  ASSUME PortOK, Execute \/ Take \/ NotFound \/ \E o \in Objects, r \in {-1, 0, 1} :
                                                 Called(o, r) /\ UNCHANGED <<port, infos>>
  PROVE  Queued' \subseteq Queued
<1>1. CASE Execute
  BY <1>1 DEF Execute, Queued
<1>2. CASE Take
  BY <1>2, QueuedTake
<1>3. CASE NotFound
  BY <1>3, QueuedHandled DEF NotFound
<1>4. ASSUME NEW o \in Objects, NEW r \in {-1, 0, 1}, Called(o, r), UNCHANGED <<port, infos>>
      PROVE  Queued' \subseteq Queued
  <2>1. /\ lpc \in {"call", "once"} /\ lpc' \in {"call", "wait"}
        /\ cur' = IF lpc' = "call" THEN cur ELSE NoCompletion
    BY <1>4 DEF Called
  <2> QED
    BY <1>4, <2>1, QueuedHandled
<1> QED
  BY <1>1, <1>2, <1>3, <1>4

(* Lives go on one at a time, and completions are of lives that were.      *)
LEMMA GenStep ==
  ASSUME GenInv,
         \/ Queued' \subseteq Queued /\ gen' = gen
         \/ gen' = gen /\ \E c \in Completions : /\ Queued' = Queued \cup {c}
                                                /\ \A o \in Objects, g \in Nat :
                                                     c.of = <<o, g>> => g <= gen[o]
  PROVE  GenInv'
BY DEF GenInv

LEMMA RebornStep ==
  ASSUME PortOK, GenInv, NEW o \in Objects, NEW h \in Handles, Reborn(o, h), UNCHANGED <<port, lpc, cur>>
  PROVE  /\ gen' \in [Objects -> Nat] /\ GenInv' /\ Queued' = Queued
         /\ gen'[o] = gen[o] + 1 /\ \A p \in Objects : p # o => gen'[p] = gen[p]
         /\ \A c \in Queued : c.of # <<o, gen'[o]>>
         /\ o \notin reissued' => \A c \in Queued : c.key # h
         /\ reissued' = reissued \cup {o} \/ reissued' = reissued \ {o}
         /\ strays' = strays \ {o}
<1>1. gen' = [gen EXCEPT ![o] = gen[o] + 1] /\ gen \in [Objects -> Nat]
  BY DEF Reborn, PortOK
<1>2. /\ gen' \in [Objects -> Nat] /\ gen'[o] = gen[o] + 1 /\ gen[o] \in Nat
      /\ \A p \in Objects : p # o => gen'[p] = gen[p]
  BY <1>1
<1>3. Queued' = Queued
  BY QueuedSame
<1>4. \A p \in Objects : gen[p] \in Nat /\ gen[p] <= gen'[p]
  BY <1>1, <1>2
<1>5. GenInv'
  <2> SUFFICES ASSUME NEW c \in Queued, NEW p \in Objects, NEW g \in Nat, c.of = <<p, g>>
      PROVE  g <= gen'[p]
    BY <1>3 DEF GenInv
  <2>1. g <= gen[p]
    BY DEF GenInv
  <2> QED
    BY <1>2, <1>4, <2>1
<1>6. \A c \in Queued : c.of # <<o, gen'[o]>>
  <2> SUFFICES ASSUME NEW c \in Queued, c.of = <<o, gen'[o]>> PROVE FALSE
    OBVIOUS
  <2>1. gen'[o] <= gen[o]
    BY <1>2 DEF GenInv
  <2> QED
    BY <1>2, <2>1
<1> QED
  BY <1>2, <1>3, <1>5, <1>6 DEF Reborn

-----------------------------------------------------------------------------
(* Notifier                                                                *)

NotifierOK ==
  /\ hEvent \in [Notifiers -> Handles \cup {Null}]
  /\ accepted \in [Notifiers -> 0..MaxPosts]
  /\ processed \in [Notifiers -> Nat]
  /\ reissued \subseteq Notifiers

(* A notifier is registered with its own handle and no other.              *)
NotifierEntries ==
  \A h \in Handles : /\ infos[h] \in Notifiers \cup {NoObject}
                     /\ \A o \in Notifiers : infos[h] = o <=> hEvent[o] = h

(* The completions of the present life of a notifier have its handle, and  *)
(* the other way round unless it was reissued.                             *)
NotifierKeys ==
  \A o \in Notifiers : hEvent[o] # Null => \A c \in Queued :
    /\ c.of = <<o, gen[o]>> => c.key = hEvent[o]
    /\ o \notin reissued /\ c.key = hEvent[o] => c.of = <<o, gen[o]>>

NotifierInv ==
  PortOK /\ GenInv /\ PlainInv /\ NotifierOK /\ NotifierEntries /\ NotifierKeys /\ OwnCompletion

LEMMA CreateStep ==
  ASSUME NotifierInv, NEW o \in Notifiers, NEW h \in Handles, Create(o, h)
  PROVE  NotifierInv'
<1>1. /\ PortOK /\ GenInv /\ PlainInv /\ NotifierOK /\ NotifierEntries /\ NotifierKeys /\ OwnCompletion
      /\ o \in Objects
  BY NotifierWinAssumption DEF NotifierInv
<1>2. /\ hEvent[o] = Null /\ \A p \in Notifiers : hEvent[p] # h
      /\ hEvent' = [hEvent EXCEPT ![o] = h] /\ infos' = [infos EXCEPT ![h] = o]
      /\ Reborn(o, h) /\ UNCHANGED <<port, lpc, cur, retval>>
  BY DEF Create, addEvent
<1>3. /\ gen' \in [Objects -> Nat] /\ GenInv' /\ Queued' = Queued
      /\ gen'[o] = gen[o] + 1 /\ \A p \in Objects : p # o => gen'[p] = gen[p]
      /\ \A c \in Queued : c.of # <<o, gen'[o]>>
      /\ o \notin reissued' => \A c \in Queued : c.key # h
      /\ reissued' = reissued \cup {o} \/ reissued' = reissued \ {o}
      /\ strays' = strays \ {o}
  BY <1>1, <1>2, RebornStep
<1>4. PortOK' /\ PlainInv'
  BY <1>1, <1>2, <1>3 DEF PortOK, PlainInv
<1>5. NotifierOK'
  <2>1. /\ accepted' = [accepted EXCEPT ![o] = 0] /\ processed' = [processed EXCEPT ![o] = 0]
        /\ 0 \in 0..MaxPosts
    BY NotifierWinAssumption DEF Create
  <2> QED
    BY <1>1, <1>2, <1>3, <2>1 DEF NotifierOK
<1>6. NotifierEntries'
  <2>1. h # Null
    BY CompletionPortAssumption DEF Null
  <2>2. \A p \in Notifiers : hEvent'[p] = IF p = o THEN h ELSE hEvent[p]
    BY <1>1, <1>2 DEF NotifierOK
  <2>3. \A x \in Handles : infos'[x] = IF x = h THEN o ELSE infos[x]
    BY <1>1, <1>2 DEF PortOK
  <2>4. \A x \in Handles : x # Null
    BY CompletionPortAssumption DEF Null
  <2> QED
    BY <1>1, <1>2, <2>1, <2>2, <2>3, <2>4 DEF NotifierEntries
<1>7. NotifierKeys'
  <2> SUFFICES ASSUME NEW p \in Notifiers, hEvent'[p] # Null, NEW c \in Queued
      PROVE  /\ c.of = <<p, gen'[p]>> => c.key = hEvent'[p]
             /\ p \notin reissued' /\ c.key = hEvent'[p] => c.of = <<p, gen'[p]>>
    BY <1>3 DEF NotifierKeys
  <2>1. CASE p = o
    <3>1. hEvent'[p] = h
      BY <1>1, <1>2, <2>1 DEF NotifierOK
    <3> QED
      BY <1>3, <2>1, <3>1
  <2>2. CASE p # o
    <3>1. hEvent'[p] = hEvent[p] /\ gen'[p] = gen[p] /\ (p \notin reissued' => p \notin reissued)
      BY <1>1, <1>2, <1>3, <2>2, NotifierWinAssumption DEF NotifierOK
    <3> QED
      BY <1>1, <3>1 DEF NotifierKeys
  <2> QED
    BY <2>1, <2>2
<1>8. OwnCompletion'
  BY <1>1, <1>3 DEF OwnCompletion
<1> QED
  BY <1>3, <1>4, <1>5, <1>6, <1>7, <1>8 DEF NotifierInv

LEMMA DestroyStep ==
  ASSUME NotifierInv, NEW o \in Notifiers, DestroyWin(o)
  PROVE  NotifierInv'
<1>1. /\ PortOK /\ GenInv /\ PlainInv /\ NotifierOK /\ NotifierEntries /\ NotifierKeys /\ OwnCompletion
  BY DEF NotifierInv
<1>2. /\ hEvent[o] \in Handles /\ hEvent' = [hEvent EXCEPT ![o] = Null]
      /\ infos' = [infos EXCEPT ![hEvent[o]] = NoObject]
      /\ UNCHANGED <<port, lpc, cur, retval, gen, reissued, strays, accepted, processed>>
  BY <1>1 DEF DestroyWin, eraseEvent, NotifierOK
<1>3. Queued' = Queued
  BY <1>2, QueuedSame
<1>4. PortOK' /\ PlainInv' /\ GenInv' /\ OwnCompletion'
  BY <1>1, <1>2, <1>3 DEF PortOK, PlainInv, GenInv, OwnCompletion
<1>5. /\ \A p \in Notifiers : hEvent'[p] = IF p = o THEN Null ELSE hEvent[p]
      /\ \A x \in Handles : infos'[x] = IF x = hEvent[o] THEN NoObject ELSE infos[x]
      /\ NotifierOK'
  BY <1>1, <1>2 DEF NotifierOK, PortOK
<1>6. NotifierEntries'
  <2>1. \A x \in Handles : x # Null
    BY CompletionPortAssumption DEF Null
  <2>2. NoObject \notin Notifiers
    BY CompletionPortAssumption, NotifierWinAssumption
  <2> QED
    BY <1>1, <1>2, <1>5, <2>1, <2>2 DEF NotifierEntries
<1>7. NotifierKeys'
  BY <1>1, <1>2, <1>3, <1>5 DEF NotifierKeys
<1> QED
  BY <1>4, <1>5, <1>6, <1>7 DEF NotifierInv

LEMMA NotifyStep ==
  ASSUME NotifierInv, NEW o \in Notifiers, notifyWin(o)
  PROVE  NotifierInv'
<1> DEFINE c == Completion(hEvent[o], o, gen[o], "none")
<1>1. /\ PortOK /\ GenInv /\ PlainInv /\ NotifierOK /\ NotifierEntries /\ NotifierKeys /\ OwnCompletion
      /\ o \in Objects /\ gen[o] \in Nat
  BY NotifierWinAssumption DEF NotifierInv, PortOK
<1>2. /\ hEvent[o] \in Handles /\ Post(c)
      /\ accepted[o] < MaxPosts /\ accepted' = [accepted EXCEPT ![o] = accepted[o] + 1]
      /\ UNCHANGED <<infos, lpc, cur, retval, gen, reissued, strays, hEvent, processed>>
  BY <1>1 DEF notifyWin, NotifierOK
<1>3. c \in Completions /\ c.key = hEvent[o] /\ c.of = <<o, gen[o]>> /\ c.error = "none"
  BY <1>1, <1>2 DEF Completion, Completions, Errors
<1> HIDE DEF c
<1>4. Queued' = Queued \cup {c} /\ port' \in Seq(Completions)
  BY <1>1, <1>2, <1>3, QueuedPost
<1>5. PortOK' /\ OwnCompletion' /\ NotifierEntries'
  BY <1>1, <1>2, <1>4 DEF PortOK, OwnCompletion, NotifierEntries
<1>6. GenInv'
  <2>1. \A p \in Objects, g \in Nat : c.of = <<p, g>> => g <= gen[p]
    BY <1>1, <1>3
  <2> QED
    BY <1>1, <1>2, <1>3, <1>4, <2>1, GenStep
<1>7. PlainInv'
  <2>1. c.key # StopKey
    BY <1>2, <1>3, CompletionPortAssumption DEF StopKey
  <2> QED
    BY <1>1, <1>2, <1>3, <1>4, <2>1 DEF PlainInv
<1>8. NotifierOK'
  BY <1>1, <1>2, NotifierWinAssumption DEF NotifierOK
<1>9. NotifierKeys'
  <2>1. \A p \in Notifiers : p # o => c.of # <<p, gen[p]>> /\ c.key # hEvent[p]
    <3>1. \A p \in Notifiers : hEvent[p] = hEvent[o] => p = o
      BY <1>1, <1>2 DEF NotifierEntries
    <3> QED
      BY <1>3, <3>1
  <2> QED
    BY <1>1, <1>2, <1>3, <1>4, <2>1 DEF NotifierKeys
<1> QED
  BY <1>5, <1>6, <1>7, <1>8, <1>9 DEF NotifierInv

(* The port alone adds the completion of stop() at most.                   *)
LEMMA NotifierLoopStep ==
  ASSUME NotifierInv, \/ (LoopStep \/ NotFound) /\ UNCHANGED nwVars
                      \/ \E o \in Notifiers : processNotifier(o)
                      \/ UNCHANGED <<portVars, nwVars>>
  PROVE  NotifierInv'
<1>1. /\ PortOK /\ GenInv /\ PlainInv /\ NotifierOK /\ NotifierEntries /\ NotifierKeys /\ OwnCompletion
      /\ Notifiers \subseteq Objects
  BY NotifierWinAssumption DEF NotifierInv
<1>2. UNCHANGED <<infos, gen, reissued, hEvent, accepted>>
  BY DEF LoopStep, LoopStop, Execute, Take, NotFound, nwVars, processNotifier, Called, portVars
<1>3. PortOK'
  <2>1. CASE UNCHANGED <<portVars, nwVars>>
    BY <1>1, <2>1 DEF portVars, PortOK
  <2>2. ASSUME NEW o \in Notifiers, processNotifier(o)
        PROVE  \E p \in Objects, r \in {-1, 0, 1} : Called(p, r) /\ UNCHANGED <<port, infos>>
    BY <1>1, <2>2 DEF processNotifier, Result
  <2> QED
    BY <1>1, <2>1, <2>2, PortStep DEF LoopStep
<1>4. /\ NotifierOK' /\ NotifierEntries'
  <2>1. processed' \in [Notifiers -> Nat]
    BY <1>1 DEF nwVars, processNotifier, NotifierOK
  <2> QED
    BY <1>1, <1>2, <2>1 DEF NotifierOK, NotifierEntries
<1>5. CASE LoopStop
  <2> DEFINE c == Completion(StopKey, NoObject, 0, "none")
  <2>1. c \in Completions /\ c.key = StopKey /\ c.of = <<NoObject, 0>> /\ c.error = "none"
    BY DEF Completion, Completions, Errors
  <2>2. Post(c) /\ UNCHANGED <<lpc, cur, retval, strays>>
    BY <1>5 DEF LoopStop
  <2> HIDE DEF c
  <2>3. Queued' = Queued \cup {c}
    BY <1>1, <2>1, <2>2, QueuedPost
  <2>4. \A p \in Objects : NoObject # p
    BY CompletionPortAssumption
  <2>5. GenInv'
    BY <1>1, <1>2, <2>1, <2>3, <2>4, GenStep
  <2>6. PlainInv' /\ OwnCompletion'
    BY <1>1, <1>2, <2>1, <2>2, <2>3 DEF PlainInv, OwnCompletion
  <2>7. \A h \in Handles \cup {Null} : h # StopKey
    BY CompletionPortAssumption DEF StopKey, Null
  <2>8. NotifierKeys'
    BY <1>1, <1>2, <2>1, <2>3, <2>4, <2>7 DEF NotifierKeys, NotifierOK
  <2> QED
    BY <1>3, <1>4, <2>5, <2>6, <2>8 DEF NotifierInv
<1>6. CASE ~LoopStop
  <2>1. Queued' \subseteq Queued
    <3>1. CASE UNCHANGED <<portVars, nwVars>>
      BY <3>1, QueuedSame DEF portVars
    <3>2. ASSUME NEW o \in Notifiers, processNotifier(o)
          PROVE  \E p \in Objects, r \in {-1, 0, 1} : Called(p, r) /\ UNCHANGED <<port, infos>>
      BY <1>1, <3>2 DEF processNotifier, Result
    <3> QED
      BY <1>1, <1>6, <3>1, <3>2, LoopQueued DEF LoopStep
  <2>2. GenInv' /\ NotifierKeys'
    BY <1>1, <1>2, <2>1 DEF GenInv, NotifierKeys
  <2>3. PlainInv'
    <3>1. lpc' # "once" /\ retval' = 0 /\ (lpc' = "call" => cur'.key # StopKey)
      <4>1. CASE Take
        <5>1. Head(port) \in Queued
          BY <1>1, <4>1, QueuedTake
        <5> QED
          BY <1>1, <4>1, <5>1 DEF Take, PlainInv
      <4>2. CASE Execute \/ NotFound \/ (\E o \in Notifiers : processNotifier(o))
                 \/ UNCHANGED <<portVars, nwVars>>
        BY <1>1, <4>2 DEF Execute, NotFound, processNotifier, Called, Result, portVars, PlainInv
      <4> QED
        BY <1>6, <4>1, <4>2 DEF LoopStep
    <3> QED
      BY <1>1, <2>1, <3>1 DEF PlainInv
  <2>4. OwnCompletion'
    <3>1. ASSUME NEW o \in Notifiers, processNotifier(o) PROVE strays' \subseteq reissued'
      <4>1. /\ lpc \in {"call", "once"} /\ cur \in Queued /\ Found = o
            /\ strays' = IF cur.of = <<o, gen[o]>> THEN strays ELSE strays \cup {o}
        BY <3>1 DEF processNotifier, Called, Queued
      <4>2. cur.key \in Handles /\ infos[cur.key] = o
        <5>1. o # NoObject
          BY <1>1, CompletionPortAssumption
        <5>2. cur.key \in Handles \cup {Null, StopKey}
          BY <1>1, <4>1, QueuedType DEF Completions
        <5>3. cur.key # Null /\ infos[cur.key] = o
          BY <4>1, <5>1 DEF Found
        <5>4. cur.key # StopKey
          BY <1>1, <4>1 DEF PlainInv
        <5> QED
          BY <5>2, <5>3, <5>4
      <4>3. hEvent[o] = cur.key /\ hEvent[o] # Null
        BY <1>1, <4>2, CompletionPortAssumption DEF NotifierEntries, Null
      <4>4. o \notin reissued => cur.of = <<o, gen[o]>>
        BY <1>1, <4>1, <4>3 DEF NotifierKeys
      <4> QED
        BY <1>1, <1>2, <4>1, <4>4 DEF OwnCompletion
    <3>2. CASE ~\E o \in Notifiers : processNotifier(o)
      <4>1. strays' = strays
        BY <1>6, <3>2 DEF LoopStep, Execute, Take, NotFound, portVars
      <4> QED
        BY <1>1, <1>2, <4>1 DEF OwnCompletion
    <3> QED
      BY <3>1, <3>2 DEF OwnCompletion
  <2> QED
    BY <1>3, <1>4, <2>2, <2>3, <2>4 DEF NotifierInv
<1> QED
  BY <1>5, <1>6

LEMMA PortBegins == PortInit => PortOK /\ GenInv /\ PlainInv /\ Queued = {} /\ strays \subseteq reissued
<1> SUFFICES ASSUME PortInit
    PROVE PortOK /\ GenInv /\ PlainInv /\ Queued = {} /\ strays \subseteq reissued
  OBVIOUS
<1>1. Queued = {}
  BY DEF PortInit, Queued
<1>2. NoCompletion \in Completions
  BY DEF NoCompletion, Completion, Completions, Errors
<1> QED
  BY <1>1, <1>2 DEF PortInit, PortOK, GenInv, PlainInv

LEMMA NotifierInvariant == NotifierSpec => []NotifierInv
<1>1. PortInit /\ NotifierInit => NotifierInv
  <2> SUFFICES ASSUME PortInit, NotifierInit PROVE NotifierInv
    OBVIOUS
  <2>1. NotifierOK
    BY NotifierWinAssumption DEF PortInit, NotifierInit, NotifierOK
  <2>2. NotifierEntries
    BY CompletionPortAssumption, NotifierWinAssumption DEF PortInit, NotifierInit, NotifierEntries, Null
  <2>3. NotifierKeys
    BY DEF NotifierInit, NotifierKeys
  <2> QED
    BY <2>1, <2>2, <2>3, PortBegins DEF NotifierInv, OwnCompletion
<1>2. NotifierInv /\ [NotifierNext]_<<portVars, nwVars>> => NotifierInv'
  BY CreateStep, DestroyStep, NotifyStep, NotifierLoopStep DEF NotifierNext, NotifierStep
<1> QED
  BY <1>1, <1>2, PTL DEF NotifierSpec

(* The callback of a Notifier is executed for its own notifications only,  *)
(* of its present life, unless its handle had completions left when it was *)
(* given to it.                                                            *)
THEOREM NotifierOwnCompletion == NotifierSpec => []OwnCompletion
BY NotifierInvariant, PTL DEF NotifierInv

(* How many of the completions s are of v.                                 *)
Count(s, v) == Cardinality({n \in 1..Len(s) : s[n].of = v})

LEMMA CountType ==
  ASSUME NEW s \in Seq(Completions), NEW v
  PROVE  IsFiniteSet({n \in 1..Len(s) : s[n].of = v}) /\ Count(s, v) \in Nat
<1>1. IsFiniteSet(1..Len(s))
  BY FS_Interval
<1>2. {n \in 1..Len(s) : s[n].of = v} \in SUBSET (1..Len(s))
  OBVIOUS
<1>3. IsFiniteSet({n \in 1..Len(s) : s[n].of = v})
  BY <1>1, <1>2, FS_Subset
<1> QED
  BY <1>3, FS_CardinalityType DEF Count

LEMMA CountAppend ==
  ASSUME NEW s \in Seq(Completions), NEW c \in Completions, NEW v
  PROVE  Count(Append(s, c), v) = Count(s, v) + (IF c.of = v THEN 1 ELSE 0)
<1> DEFINE S == {n \in 1..Len(s) : s[n].of = v}
           T == {n \in 1..Len(Append(s, c)) : Append(s, c)[n].of = v}
           k == Len(s) + 1
<1>1. /\ Len(s) \in Nat /\ Len(Append(s, c)) = k /\ Append(s, c)[k] = c
      /\ \A n \in 1..Len(s) : Append(s, c)[n] = s[n]
  OBVIOUS
<1>2. /\ \A n \in 1..k : n \in 1..Len(s) \/ n = k
      /\ \A n \in 1..Len(s) : n \in 1..k
      /\ k \in 1..k /\ k \notin 1..Len(s)
  BY <1>1
<1>3. T = IF c.of = v THEN S \cup {k} ELSE S
  <2> HIDE DEF k
  <2>1. CASE c.of = v
    BY <1>1, <1>2, <2>1
  <2>2. CASE c.of # v
    BY <1>1, <1>2, <2>2
  <2> QED
    BY <2>1, <2>2
<1>4. IsFiniteSet(S) /\ Cardinality(S) \in Nat /\ k \notin S
  BY <1>2, CountType DEF Count
<1>5. Cardinality(S \cup {k}) = Cardinality(S) + 1
  BY <1>4, FS_AddElement
<1>6. Count(s, v) = Cardinality(S) /\ Count(Append(s, c), v) = Cardinality(T)
  BY DEF Count
<1> HIDE DEF S, T, k
<1> QED
  BY <1>3, <1>4, <1>5, <1>6

LEMMA CountTail ==
  ASSUME NEW s \in Seq(Completions), s # <<>>, NEW v
  PROVE  Count(Tail(s), v) = Count(s, v) - (IF Head(s).of = v THEN 1 ELSE 0)
<1> DEFINE S == {n \in 1..Len(s) : s[n].of = v}
           T == {n \in 1..Len(Tail(s)) : Tail(s)[n].of = v}
           shift == [n \in S \ {1} |-> n - 1]
<1>1. /\ Len(s) \in Nat \ {0} /\ Len(Tail(s)) = Len(s) - 1 /\ Head(s) = s[1]
      /\ Tail(s) \in Seq(Completions)
      /\ \A n \in 1..Len(s) - 1 : Tail(s)[n] = s[n + 1]
  OBVIOUS
<1>2. /\ \A n \in 2..Len(s) : n - 1 \in 1..Len(s) - 1 /\ Tail(s)[n - 1] = s[n]
      /\ \A n \in 1..Len(s) - 1 : n + 1 \in 2..Len(s) /\ (n + 1) - 1 = n
      /\ \A n \in 1..Len(s) : n = 1 \/ n \in 2..Len(s)
      /\ \A n \in 2..Len(s) : n \in 1..Len(s) /\ n # 1
      /\ 1 \in 1..Len(s)
  BY <1>1
<1>3. shift \in Bijection(S \ {1}, T)
  <2>1. \A n \in S \ {1} : n \in 2..Len(s) /\ n - 1 \in T
    BY <1>1, <1>2
  <2>2. shift \in [S \ {1} -> T]
    BY <2>1
  <2>3. \A a, b \in S \ {1} : shift[a] = shift[b] => a = b
    <3> SUFFICES ASSUME NEW a \in S \ {1}, NEW b \in S \ {1}, a - 1 = b - 1 PROVE a = b
      OBVIOUS
    <3>1. a \in Int /\ b \in Int
      OBVIOUS
    <3> QED
      BY <3>1
  <2>4. \A t \in T : t + 1 \in S \ {1} /\ shift[t + 1] = t
    <3> SUFFICES ASSUME NEW t \in T PROVE t + 1 \in S \ {1} /\ shift[t + 1] = t
      OBVIOUS
    <3>1. t \in 1..Len(s) - 1 /\ s[t + 1].of = v
      BY <1>1
    <3>2. t + 1 \in S \ {1} /\ (t + 1) - 1 = t
      BY <1>2, <3>1
    <3> QED
      BY <3>2
  <2> HIDE DEF shift, S, T
  <2> QED
    BY <2>2, <2>3, <2>4 DEF Bijection, Injection, Surjection, IsInjective
<1>4. IsFiniteSet(S) /\ Cardinality(S) \in Nat /\ (1 \in S <=> Head(s).of = v)
  <2>1. IsFiniteSet(S) /\ Cardinality(S) \in Nat
    BY CountType DEF Count
  <2>2. 1 \in S <=> Head(s).of = v
    BY <1>1, <1>2
  <2> QED
    BY <2>1, <2>2
<1>5. IsFiniteSet(S \ {1}) /\ Cardinality(S \ {1}) = IF 1 \in S THEN Cardinality(S) - 1 ELSE Cardinality(S)
  BY <1>4, FS_RemoveElement
<1>6. Cardinality(T) = Cardinality(S \ {1})
  <2> HIDE DEF S, T, shift
  <2>1. ExistsBijection(S \ {1}, T)
    BY <1>3 DEF ExistsBijection
  <2> QED
    BY <1>5, <2>1, FS_Bijection
<1>7. Count(s, v) = Cardinality(S) /\ Count(Tail(s), v) = Cardinality(T)
  BY DEF Count
<1> HIDE DEF S, T, shift
<1> QED
  BY <1>4, <1>5, <1>6, <1>7

(* What is still to be executed for a notifier: the completions of its     *)
(* present life that wait, and the one being handled.                      *)
Life(o) == <<o, gen[o]>>
Now(o)  == IF lpc = "call" /\ cur.of = Life(o) THEN 1 ELSE 0

ExactInv ==
  \A o \in Notifiers : hEvent[o] # Null /\ o \notin reissued =>
    processed[o] + Count(port, Life(o)) + Now(o) = accepted[o]

(* Of a notifier that exists and was not reissued, only the completions of *)
(* its present life have its handle: it is found for them and no other.    *)
LEMMA FoundOwn ==
  ASSUME NotifierInv, lpc = "call", NEW o \in Notifiers, hEvent[o] # Null
  PROVE  /\ cur.of = Life(o) => Found = o
         /\ o \notin reissued /\ Found = o => cur.of = Life(o)
<1>1. /\ PortOK /\ PlainInv /\ NotifierOK /\ NotifierEntries /\ NotifierKeys /\ cur \in Queued
  BY DEF NotifierInv, Queued
<1>2. o # NoObject /\ Null \notin Handles /\ hEvent[o] \in Handles
  BY <1>1, CompletionPortAssumption, NotifierWinAssumption DEF Null, NotifierOK
<1>3. cur.of = Life(o) => cur.key = hEvent[o]
  BY <1>1 DEF NotifierKeys, Life
<1>4. infos[hEvent[o]] = o
  BY <1>1, <1>2 DEF NotifierEntries
<1>5. cur.key \in Handles \cup {Null}
  <2>1. cur.key \in Handles \cup {Null, StopKey}
    BY <1>1, QueuedType DEF Completions
  <2> QED
    BY <1>1, <2>1 DEF PlainInv
<1>6. Found = o => cur.key = hEvent[o]
  BY <1>1, <1>2, <1>5 DEF Found, NotifierEntries
<1> QED
  BY <1>1, <1>2, <1>3, <1>4, <1>6 DEF Found, NotifierKeys, Life

LEMMA ExactCallSteps ==
  ASSUME NotifierInv, ExactInv, NEW o \in Notifiers,
         (\E h \in Handles : Create(o, h)) \/ DestroyWin(o) \/ notifyWin(o)
  PROVE  ExactInv'
<1>1. /\ PortOK /\ GenInv /\ NotifierOK /\ o \in Objects /\ gen[o] \in Nat
      /\ \A p \in Notifiers : Count(port, Life(p)) \in Nat /\ Now(p) \in {0, 1}
  BY CountType, NotifierWinAssumption DEF NotifierInv, PortOK, Now
<1>2. ASSUME NEW h \in Handles, Create(o, h) PROVE ExactInv'
  <2>1. /\ hEvent' = [hEvent EXCEPT ![o] = h] /\ accepted' = [accepted EXCEPT ![o] = 0]
        /\ processed' = [processed EXCEPT ![o] = 0] /\ Reborn(o, h) /\ UNCHANGED <<port, lpc, cur>>
    BY <1>2 DEF Create
  <2>2. /\ gen' \in [Objects -> Nat] /\ \A p \in Objects : p # o => gen'[p] = gen[p]
        /\ \A c \in Queued : c.of # <<o, gen'[o]>>
        /\ reissued' = reissued \cup {o} \/ reissued' = reissued \ {o}
    BY <1>1, <2>1, RebornStep
  <2> SUFFICES ASSUME NEW p \in Notifiers, hEvent'[p] # Null, p \notin reissued'
      PROVE  processed'[p] + Count(port, Life(p)') + Now(p)' = accepted'[p]
    BY <2>1 DEF ExactInv
  <2>3. CASE p = o
    <3>1. {n \in 1..Len(port) : port[n].of = Life(o)'} = {} /\ Now(o)' = 0
      BY <2>1, <2>2 DEF Queued, Life, Now
    <3>2. Count(port, Life(o)') = 0
      BY <3>1, FS_EmptySet DEF Count
    <3>3. processed'[o] = 0 /\ accepted'[o] = 0
      BY <1>1, <2>1 DEF NotifierOK
    <3> QED
      BY <2>3, <3>1, <3>2, <3>3
  <2>4. CASE p # o
    <3>1. /\ hEvent'[p] = hEvent[p] /\ processed'[p] = processed[p] /\ accepted'[p] = accepted[p]
          /\ p \notin reissued
      BY <1>1, <2>1, <2>2, <2>4 DEF NotifierOK
    <3>2. Life(p)' = Life(p) /\ Now(p)' = Now(p)
      BY <2>1, <2>2, <2>4, NotifierWinAssumption DEF Life, Now
    <3> QED
      BY <3>1, <3>2 DEF ExactInv
  <2> QED
    BY <2>3, <2>4
<1>3. CASE DestroyWin(o)
  <2>1. /\ hEvent' = [hEvent EXCEPT ![o] = Null]
        /\ UNCHANGED <<port, lpc, cur, gen, reissued, accepted, processed>>
    BY <1>3 DEF DestroyWin
  <2>2. \A p \in Notifiers : hEvent'[p] # Null => hEvent[p] # Null
    BY <1>1, <2>1 DEF NotifierOK
  <2> QED
    BY <2>1, <2>2 DEF ExactInv, Life, Now
<1>4. CASE notifyWin(o)
  <2> DEFINE c == Completion(hEvent[o], o, gen[o], "none")
  <2>1. /\ hEvent[o] \in Handles /\ port' = Append(port, c)
        /\ accepted' = [accepted EXCEPT ![o] = accepted[o] + 1]
        /\ UNCHANGED <<lpc, cur, gen, reissued, hEvent, processed>>
    BY <1>1, <1>4 DEF notifyWin, Post, NotifierOK
  <2>2. c \in Completions /\ c.of = Life(o)
    BY <1>1, <2>1 DEF Completion, Completions, Errors, Life
  <2> HIDE DEF c
  <2> SUFFICES ASSUME NEW p \in Notifiers, hEvent[p] # Null, p \notin reissued
      PROVE  processed[p] + Count(port', Life(p)) + Now(p) = accepted'[p]
    BY <2>1 DEF ExactInv, Life, Now
  <2>3. Count(port', Life(p)) = Count(port, Life(p)) + (IF p = o THEN 1 ELSE 0)
    <3>1. c.of = Life(p) <=> p = o
      BY <2>2 DEF Life
    <3> QED
      BY <1>1, <2>1, <2>2, <3>1, CountAppend DEF PortOK
  <2>4. accepted'[p] = accepted[p] + (IF p = o THEN 1 ELSE 0)
    BY <1>1, <2>1 DEF NotifierOK
  <2>5. processed[p] + Count(port, Life(p)) + Now(p) = accepted[p]
    BY DEF ExactInv
  <2>6. processed[p] \in Nat /\ accepted[p] \in Nat
    BY <1>1 DEF NotifierOK
  <2> QED
    BY <1>1, <2>3, <2>4, <2>5, <2>6
<1> QED
  BY <1>2, <1>3, <1>4

LEMMA ExactLoopSteps ==
  ASSUME NotifierInv, ExactInv,
         \/ (LoopStep \/ NotFound) /\ UNCHANGED nwVars
         \/ \E o \in Notifiers : processNotifier(o)
  PROVE  ExactInv'
<1>1. /\ PortOK /\ PlainInv /\ NotifierOK
      /\ \A p \in Notifiers : Count(port, Life(p)) \in Nat /\ Now(p) \in {0, 1}
      /\ \A p \in Notifiers : Life(p) # <<NoObject, 0>> /\ p # NoObject
  BY CountType, CompletionPortAssumption, NotifierWinAssumption DEF NotifierInv, PortOK, Now, Life
<1>2. UNCHANGED <<gen, reissued, hEvent, accepted>>
  BY DEF LoopStep, LoopStop, Execute, Take, NotFound, nwVars, processNotifier, Called
<1> SUFFICES ASSUME NEW p \in Notifiers, hEvent[p] # Null, p \notin reissued
    PROVE  processed'[p] + Count(port', Life(p)) + Now(p)' = accepted[p]
  BY <1>2 DEF ExactInv, Life
<1>3. processed[p] + Count(port, Life(p)) + Now(p) = accepted[p] /\ Life(p)' = Life(p)
  BY <1>2 DEF ExactInv, Life
<1>4. processed[p] \in Nat /\ accepted[p] \in 0..MaxPosts
  BY <1>1 DEF NotifierOK
<1>5. CASE LoopStop /\ UNCHANGED nwVars
  <2> DEFINE c == Completion(StopKey, NoObject, 0, "none")
  <2>1. c \in Completions /\ c.of = <<NoObject, 0>>
    BY DEF Completion, Completions, Errors
  <2>2. port' = Append(port, c) /\ UNCHANGED <<lpc, cur, processed>>
    BY <1>5 DEF LoopStop, Post, nwVars
  <2> HIDE DEF c
  <2>3. Count(port', Life(p)) = Count(port, Life(p)) + 0
    BY <1>1, <2>1, <2>2, CountAppend DEF PortOK
  <2>4. Now(p)' = Now(p)
    BY <1>3, <2>2 DEF Now
  <2> QED
    BY <1>1, <1>3, <2>2, <2>3, <2>4
<1>6. CASE Execute /\ UNCHANGED nwVars
  <2>1. UNCHANGED <<port, processed>> /\ Now(p)' = 0 /\ Now(p) = 0
    BY <1>6 DEF Execute, nwVars, Now
  <2> QED
    BY <1>3, <2>1
<1>7. CASE Take /\ UNCHANGED nwVars
  <2>1. /\ port \in Seq(Completions) /\ port # <<>> /\ port' = Tail(port) /\ processed' = processed
        /\ Now(p) = 0
    BY <1>1, <1>7 DEF Take, nwVars, PortOK, Now
  <2>2. Count(port', Life(p)) = Count(port, Life(p)) - (IF Head(port).of = Life(p) THEN 1 ELSE 0)
    BY <2>1, CountTail
  <2>3. /\ Head(port).error = "none"
        /\ Head(port).key = StopKey => Head(port).of = <<NoObject, 0>>
    BY <1>1, <1>7, QueuedTake DEF PlainInv
  <2>4. \/ lpc' = "ended" /\ Head(port).key = StopKey
        \/ lpc' = "call" /\ cur' = Head(port)
    BY <1>7, <2>3 DEF Take
  <2>5. Now(p)' = IF Head(port).of = Life(p) THEN 1 ELSE 0
    BY <1>1, <1>3, <2>3, <2>4 DEF Now
  <2> QED
    BY <1>1, <1>3, <1>4, <2>1, <2>2, <2>5
<1>8. CASE NotFound /\ UNCHANGED nwVars
  <2>1. UNCHANGED <<port, processed>> /\ Now(p)' = 0 /\ Found = NoObject
    BY <1>8 DEF NotFound, nwVars, Now
  <2>2. Now(p) = 0
    BY <1>1, <2>1, FoundOwn DEF Now
  <2> QED
    BY <1>3, <2>1, <2>2
<1>9. ASSUME NEW o \in Notifiers, processNotifier(o)
      PROVE  processed'[p] + Count(port', Life(p)) + Now(p)' = accepted[p]
  <2>1. /\ lpc \in {"call", "once"} /\ Found = o /\ lpc' = "wait" /\ UNCHANGED port
        /\ processed' = [processed EXCEPT ![o] = IF processed[o] > MaxPosts THEN processed[o]
                                                 ELSE processed[o] + 1]
    BY <1>9 DEF processNotifier, Called, Result
  <2>2. lpc = "call" /\ Now(p)' = 0
    BY <1>1, <2>1 DEF PlainInv, Now
  <2>3. Now(p) = IF p = o THEN 1 ELSE 0
    BY <2>1, <2>2, FoundOwn DEF Now
  <2>4. CASE p = o
    <3>1. processed[o] + Count(port, Life(p)) + 1 = accepted[o]
      BY <1>3, <2>3, <2>4
    <3>2. processed[o] \in Nat /\ ~(processed[o] > MaxPosts)
      BY <1>1, <1>4, <2>4, <3>1, NotifierWinAssumption
    <3>3. processed'[o] = processed[o] + 1
      BY <1>1, <2>1, <3>2 DEF NotifierOK
    <3> QED
      BY <1>1, <1>4, <2>1, <2>2, <2>4, <3>1, <3>2, <3>3
  <2>5. CASE p # o
    <3>1. processed'[p] = processed[p]
      BY <1>1, <2>1, <2>5 DEF NotifierOK
    <3> QED
      BY <1>3, <2>1, <2>2, <2>3, <2>5, <3>1
  <2> QED
    BY <2>4, <2>5
<1> QED
  BY <1>5, <1>6, <1>7, <1>8, <1>9 DEF LoopStep

(* A Notifier executes its callback once for every notification, over the  *)
(* end and the restart of execute(), or has the completion still to come,  *)
(* unless its handle had completions left when it was given to it.         *)
THEOREM NotifiedExactlyAlways == NotifierSpec => []NotifiedExactlyWin
<1>1. PortInit /\ NotifierInit => ExactInv
  BY DEF NotifierInit, ExactInv
<1>2. NotifierInv /\ ExactInv /\ [NotifierNext]_<<portVars, nwVars>> => ExactInv'
  <2>1. UNCHANGED <<portVars, nwVars>> => (ExactInv => ExactInv')
    BY DEF portVars, nwVars, ExactInv, Life, Now
  <2> QED
    BY <2>1, ExactCallSteps, ExactLoopSteps DEF NotifierNext, NotifierStep
<1>3. ExactInv => NotifiedExactlyWin
  BY DEF ExactInv, NotifiedExactlyWin, Count, Now, Life
<1> QED
  BY <1>1, <1>2, <1>3, NotifierInvariant, PTL DEF NotifierSpec

-----------------------------------------------------------------------------
(* Timer                                                                   *)

TimerOK ==
  /\ hTimer \in Handles \cup {Null}
  /\ setting \in {"no", "deleted", "created"}
  /\ armed \in {"no", "once", "repeated"}
  /\ firing \subseteq 0..gen["timer"]
  /\ reissued \subseteq {"timer"}

(* The timer is registered with its own handle, outside of set().          *)
TimerEntries ==
  /\ setting = "deleted" => hTimer = Null
  /\ \A h \in Handles : /\ infos[h] \in {"timer", NoObject}
                        /\ infos[h] = "timer" <=> h = hTimer /\ setting = "no"

TimerKeys ==
  hTimer # Null => \A c \in Queued :
    /\ c.of = <<"timer", gen["timer"]>> => c.key = hTimer
    /\ "timer" \notin reissued /\ c.key = hTimer => c.of = <<"timer", gen["timer"]>>

(* TimerDue, also while set() has still to add the event.                  *)
ExpiryDue ==
  hTimer # Null /\ ~fired => armed # "no" \/ gen["timer"] \in firing \/ Due("timer") \/ early

TimerInv ==
  PortOK /\ GenInv /\ PlainInv /\ TimerOK /\ TimerEntries /\ TimerKeys /\ ExpiryDue /\ OwnCompletion

(* What the invariant says, with what the handle of the timer is.          *)
LEMMA TimerParts ==
  ASSUME TimerInv
  PROVE  /\ PortOK /\ GenInv /\ PlainInv /\ TimerOK /\ TimerEntries /\ TimerKeys /\ ExpiryDue
         /\ OwnCompletion /\ "timer" \in Objects /\ gen["timer"] \in Nat
         /\ Null \notin Handles /\ StopKey \notin Handles /\ Null # StopKey /\ NoObject # "timer"
BY TimerWinAssumption, CompletionPortAssumption DEF TimerInv, PortOK, Null, StopKey

LEMMA SetCreateStep ==
  ASSUME TimerInv, NEW h \in Handles, NEW kind \in {"once", "repeated"}, SetCreate(h, kind)
  PROVE  TimerInv'
<1>1. /\ setting = "deleted" /\ hTimer' = h /\ armed' = kind /\ setting' = "created"
      /\ Reborn("timer", h) /\ UNCHANGED <<port, infos, lpc, cur, retval, firing>>
  BY DEF SetCreate
<1>2. /\ gen' \in [Objects -> Nat] /\ GenInv' /\ Queued' = Queued
      /\ gen'["timer"] = gen["timer"] + 1
      /\ \A c \in Queued : c.of # <<"timer", gen'["timer"]>>
      /\ "timer" \notin reissued' => \A c \in Queued : c.key # h
      /\ reissued' = reissued \cup {"timer"} \/ reissued' = reissued \ {"timer"}
      /\ strays' = strays \ {"timer"}
  BY <1>1, TimerParts, RebornStep
<1>3. PortOK' /\ PlainInv'
  BY <1>1, <1>2, TimerParts DEF PortOK, PlainInv
<1>4. TimerOK'
  <2>1. 0..gen["timer"] \subseteq 0..gen'["timer"]
    BY <1>2, TimerParts
  <2>2. reissued' \subseteq {"timer"}
    BY <1>2, TimerParts DEF TimerOK
  <2> QED
    BY <1>1, <2>1, <2>2, TimerParts DEF TimerOK
<1>5. TimerEntries'
  BY <1>1, TimerParts DEF TimerEntries
<1>6. TimerKeys'
  BY <1>1, <1>2 DEF TimerKeys
<1>7. ExpiryDue'
  BY <1>1 DEF ExpiryDue
<1>8. OwnCompletion'
  BY <1>2, TimerParts DEF OwnCompletion
<1> QED
  BY <1>2, <1>3, <1>4, <1>5, <1>6, <1>7, <1>8 DEF TimerInv

(* The steps of set() and cancel() that leave the port alone.              *)
LEMMA SetSteps ==
  ASSUME TimerInv, SetDelete \/ SetFails \/ SetAdd \/ CancelWin \/ Expire
  PROVE  TimerInv'
<1>1. /\ UNCHANGED <<port, lpc, cur, retval, gen, reissued, strays, fired, early>>
  BY DEF SetDelete, SetFails, SetAdd, CancelWin, Delete, Expire, portVars
<1>2. Queued' = Queued
  BY <1>1, QueuedSame
<1>3. GenInv' /\ PlainInv' /\ OwnCompletion'
  BY <1>1, <1>2, TimerParts DEF GenInv, PlainInv, OwnCompletion
<1>4. CASE SetDelete \/ CancelWin
  <2>1. /\ infos' = IF hTimer = Null THEN infos ELSE [infos EXCEPT ![hTimer] = NoObject]
        /\ hTimer' = Null /\ armed' = "no" /\ firing' = firing
        /\ setting = "no" /\ setting' \in {"no", "deleted"}
    BY <1>4 DEF SetDelete, CancelWin, Delete, eraseEvent
  <2>2. PortOK'
    BY <1>1, <2>1, TimerParts DEF PortOK
  <2>3. \A x \in Handles : infos'[x] = IF x = hTimer THEN NoObject ELSE infos[x]
    BY <2>1, TimerParts DEF PortOK
  <2>4. TimerEntries'
    BY <2>1, <2>3, TimerParts DEF TimerEntries
  <2>5. TimerOK' /\ TimerKeys' /\ ExpiryDue'
    BY <1>1, <2>1, TimerParts DEF TimerOK, TimerKeys, ExpiryDue
  <2> QED
    BY <1>3, <2>2, <2>4, <2>5 DEF TimerInv
<1>5. CASE SetFails
  <2>1. UNCHANGED <<infos, hTimer, armed, firing>> /\ setting = "deleted" /\ setting' = "no"
    BY <1>5 DEF SetFails, portVars
  <2>2. PortOK' /\ TimerOK' /\ TimerEntries'
    BY <1>1, <2>1, TimerParts DEF PortOK, TimerOK, TimerEntries
  <2>3. TimerKeys' /\ ExpiryDue'
    BY <2>1, TimerParts DEF TimerEntries, TimerKeys, ExpiryDue
  <2> QED
    BY <1>3, <2>2, <2>3 DEF TimerInv
<1>6. CASE SetAdd
  <2>1. /\ infos' = [infos EXCEPT ![hTimer] = "timer"] /\ setting = "created" /\ setting' = "no"
        /\ UNCHANGED <<hTimer, armed, firing>>
    BY <1>6 DEF SetAdd, addEvent
  <2>2. PortOK'
    BY <1>1, <2>1, TimerParts DEF PortOK
  <2>3. \A x \in Handles : infos'[x] = IF x = hTimer THEN "timer" ELSE infos[x]
    BY <2>1, TimerParts DEF PortOK
  <2>4. TimerEntries' /\ TimerOK'
    BY <1>1, <2>1, <2>3, TimerParts DEF TimerEntries, TimerOK
  <2>5. TimerKeys' /\ ExpiryDue'
    BY <1>1, <1>2, <2>1, TimerParts DEF TimerKeys, ExpiryDue, Due
  <2> QED
    BY <1>3, <2>2, <2>4, <2>5 DEF TimerInv
<1>7. CASE Expire
  <2>1. /\ firing' = firing \cup {gen["timer"]} /\ UNCHANGED <<infos, hTimer, setting>>
        /\ armed' \in {"no", "once", "repeated"}
    BY <1>7, TimerParts DEF Expire, portVars, TimerOK
  <2>2. PortOK' /\ TimerOK' /\ TimerEntries'
    BY <1>1, <2>1, TimerParts DEF PortOK, TimerOK, TimerEntries
  <2>3. TimerKeys' /\ ExpiryDue'
    BY <1>1, <1>2, <2>1, TimerParts DEF TimerKeys, ExpiryDue
  <2> QED
    BY <1>3, <2>2, <2>3 DEF TimerInv
<1> QED
  BY <1>4, <1>5, <1>6, <1>7

(* timerCb() posts the handle there is by now: for an earlier setting that *)
(* is the one of a later timer, which is reissued.                         *)
LEMMA TimerCbStep ==
  ASSUME TimerInv, NEW g \in firing, timerCb(g)
  PROVE  TimerInv'
<1> DEFINE c == Completion(hTimer, "timer", g, "none")
<1>1. /\ Post(c) /\ firing' = firing \ {g}
      /\ reissued' = IF g # gen["timer"] /\ hTimer # Null THEN {"timer"} ELSE reissued
      /\ UNCHANGED <<infos, lpc, cur, retval, gen, strays, hTimer, setting, armed, fired, early>>
  BY DEF timerCb
<1>2. g \in Nat /\ g <= gen["timer"] /\ hTimer \in Handles \cup {Null}
  BY TimerParts DEF TimerOK
<1>3. /\ c \in Completions /\ c.key = hTimer /\ c.of = <<"timer", g>> /\ c.error = "none"
  BY <1>2, TimerParts DEF Completion, Completions, Errors
<1> HIDE DEF c
<1>4. Queued' = Queued \cup {c} /\ port' \in Seq(Completions)
  BY <1>1, <1>3, TimerParts, QueuedPost
<1>5. PortOK' /\ TimerEntries'
  BY <1>1, <1>4, TimerParts DEF PortOK, TimerEntries
<1>6. GenInv'
  <2>1. \A p \in Objects, n \in Nat : c.of = <<p, n>> => n <= gen[p]
    BY <1>2, <1>3
  <2> QED
    BY <1>1, <1>3, <1>4, <2>1, TimerParts, GenStep
<1>7. PlainInv' /\ TimerOK' /\ OwnCompletion'
  BY <1>1, <1>2, <1>3, <1>4, TimerParts DEF PlainInv, TimerOK, OwnCompletion
<1>8. TimerKeys'
  <2>1. hTimer # Null /\ g # gen["timer"] => "timer" \in reissued' /\ c.of # <<"timer", gen["timer"]>>
    BY <1>1, <1>3
  <2>2. hTimer # Null /\ g = gen["timer"] => reissued' = reissued /\ c.of = <<"timer", gen["timer"]>>
    BY <1>1, <1>3
  <2>3. reissued \subseteq reissued'
    BY <1>1, TimerParts DEF TimerOK
  <2> QED
    BY <1>1, <1>3, <1>4, <2>1, <2>2, <2>3, TimerParts DEF TimerKeys
<1>9. ExpiryDue'
  <2>1. Due("timer") => Due("timer")'
    BY <1>1, <1>4 DEF Due
  <2>2. g = gen["timer"] => Due("timer")'
    BY <1>1, <1>3, <1>4 DEF Due
  <2> QED
    BY <1>1, <2>1, <2>2, TimerParts DEF ExpiryDue
<1> QED
  BY <1>5, <1>6, <1>7, <1>8, <1>9 DEF TimerInv

(* stop(), execute() and what it takes from the port.                      *)
LEMMA TimerLoopStep ==
  ASSUME TimerInv, LoopStep, UNCHANGED twVars
  PROVE  TimerInv'
<1>1. UNCHANGED <<infos, gen, reissued, strays, retval, hTimer, setting, armed, firing, fired, early>>
  BY DEF LoopStep, LoopStop, Execute, Take, twVars
<1>2. PortOK' /\ TimerOK' /\ TimerEntries' /\ OwnCompletion'
  <2>1. PortOK'
    BY TimerParts, PortStep DEF LoopStep
  <2> QED
    BY <1>1, <2>1, TimerParts DEF TimerOK, TimerEntries, OwnCompletion
<1>3. CASE LoopStop
  <2> DEFINE c == Completion(StopKey, NoObject, 0, "none")
  <2>1. c \in Completions /\ c.key = StopKey /\ c.of = <<NoObject, 0>> /\ c.error = "none"
    BY DEF Completion, Completions, Errors
  <2>2. Post(c) /\ UNCHANGED <<lpc, cur>>
    BY <1>3 DEF LoopStop
  <2> HIDE DEF c
  <2>3. Queued' = Queued \cup {c}
    BY <2>1, <2>2, TimerParts, QueuedPost
  <2>4. \A p \in Objects : NoObject # p
    BY CompletionPortAssumption
  <2>5. GenInv'
    BY <1>1, <2>1, <2>3, <2>4, TimerParts, GenStep
  <2>6. PlainInv'
    BY <1>1, <2>1, <2>2, <2>3, TimerParts DEF PlainInv
  <2>7. TimerKeys'
    BY <1>1, <2>1, <2>3, TimerParts DEF TimerKeys, TimerOK
  <2>8. ExpiryDue'
    BY <1>1, <2>3, TimerParts DEF ExpiryDue, Due
  <2> QED
    BY <1>2, <2>5, <2>6, <2>7, <2>8 DEF TimerInv
<1>4. ASSUME Queued' \subseteq Queued, PlainInv',
             \A c \in Queued : c \in Queued' \/ c.of = <<NoObject, 0>>
      PROVE  TimerInv'
  <2>1. GenInv' /\ TimerKeys'
    BY <1>1, <1>4, TimerParts DEF GenInv, TimerKeys
  <2>2. Due("timer") => Due("timer")'
    BY <1>1, <1>4, TimerParts DEF Due
  <2>3. ExpiryDue'
    BY <1>1, <2>2, TimerParts DEF ExpiryDue
  <2> QED
    BY <1>2, <1>4, <2>1, <2>3 DEF TimerInv
<1>5. CASE Execute
  <2>1. Queued' = Queued
    BY <1>5 DEF Execute, Queued
  <2>2. PlainInv'
    BY <1>1, <1>5, <2>1, TimerParts DEF Execute, PlainInv
  <2> QED
    BY <1>4, <2>1, <2>2
<1>6. CASE Take
  <2>1. /\ Head(port) \in Queued /\ Queued' \subseteq Queued
        /\ Queued \subseteq Queued' \cup {Head(port)}
    BY <1>6, TimerParts, QueuedTake
  <2>2. /\ Head(port).error = "none"
        /\ Head(port).key = StopKey => Head(port).of = <<NoObject, 0>>
    BY <2>1, TimerParts DEF PlainInv
  <2>3. \/ lpc' = "ended" /\ Head(port).key = StopKey
        \/ lpc' = "call" /\ cur' = Head(port) /\ Head(port).key # StopKey
    BY <1>6, <2>2 DEF Take
  <2>4. PlainInv'
    BY <1>1, <2>1, <2>3, TimerParts DEF PlainInv
  <2>5. lpc' = "call" => cur' \in Queued'
    BY DEF Queued
  <2> QED
    BY <1>4, <2>1, <2>2, <2>3, <2>4, <2>5
<1> QED
  BY <1>3, <1>5, <1>6 DEF LoopStep

(* The callback, or that there is none any more.                           *)
LEMMA TimerHandledStep ==
  ASSUME TimerInv, processTimer \/ TimerNotFound
  PROVE  TimerInv'
<1>1. /\ UNCHANGED <<port, infos, gen, reissued, hTimer, setting, armed, firing>>
      /\ lpc \in {"call", "once"} /\ lpc' = "wait" /\ cur' = NoCompletion /\ retval' = 0
  <2>1. CASE processTimer
    BY <2>1 DEF processTimer, Called
  <2>2. CASE TimerNotFound
    BY <2>2, TimerParts DEF TimerNotFound, NotFound, PlainInv
  <2> QED
    BY <2>1, <2>2
<1>2. cur \in Queued /\ Queued' \subseteq Queued /\ Queued \subseteq Queued' \cup {cur}
  BY <1>1, TimerParts, QueuedHandled
<1>3. cur.key \in Handles \cup {Null} /\ lpc = "call"
  <2>1. cur.key \in Handles \cup {Null, StopKey}
    BY <1>2, TimerParts, QueuedType DEF Completions
  <2> QED
    BY <1>1, <2>1, TimerParts DEF PlainInv
<1>4. PortOK'
  <2>1. processTimer => Called("timer", 0) /\ UNCHANGED <<port, infos>>
    BY DEF processTimer
  <2>2. TimerNotFound => NotFound
    BY DEF TimerNotFound
  <2> QED
    BY <2>1, <2>2, TimerParts, PortStep
<1>5. GenInv' /\ TimerOK' /\ TimerEntries' /\ TimerKeys' /\ PlainInv'
  BY <1>1, <1>2, TimerParts DEF GenInv, TimerOK, TimerEntries, TimerKeys, PlainInv
<1>6. CASE processTimer
  <2>1. /\ Found = "timer" /\ fired' = TRUE
        /\ strays' = IF cur.of = <<"timer", gen["timer"]>> THEN strays ELSE strays \cup {"timer"}
    BY <1>6 DEF processTimer, Called, Fired
  <2>2. cur.key \in Handles /\ infos[cur.key] = "timer"
    BY <1>3, <2>1, TimerParts DEF Found
  <2>3. hTimer = cur.key /\ hTimer # Null
    BY <2>2, TimerParts DEF TimerEntries
  <2>4. "timer" \notin reissued => cur.of = <<"timer", gen["timer"]>>
    BY <1>2, <2>3, TimerParts DEF TimerKeys
  <2>5. OwnCompletion' /\ ExpiryDue'
    BY <1>1, <2>1, <2>4, TimerParts DEF OwnCompletion, ExpiryDue
  <2> QED
    BY <1>4, <1>5, <2>5 DEF TimerInv
<1>7. CASE TimerNotFound
  <2>1. /\ Found = NoObject /\ UNCHANGED <<strays, fired>>
        /\ early' = (early \/ (cur.of = <<"timer", gen["timer"]>> /\ setting = "created"))
    BY <1>7 DEF TimerNotFound, NotFound
  <2>2. OwnCompletion'
    BY <1>1, <2>1, TimerParts DEF OwnCompletion
  <2>3. ASSUME hTimer # Null, cur.of = <<"timer", gen["timer"]>> PROVE setting = "created"
    <3>1. cur.key = hTimer /\ cur.key # Null
      BY <1>2, <2>3, TimerParts DEF TimerKeys
    <3>2. infos[hTimer] = NoObject /\ hTimer \in Handles
      BY <1>3, <2>1, <3>1 DEF Found
    <3> QED
      BY <2>3, <3>2, TimerParts DEF TimerEntries, TimerOK
  <2>4. ExpiryDue'
    <3> SUFFICES ASSUME hTimer # Null, ~fired, Due("timer"), ~Due("timer")' PROVE early'
      BY <1>1, <2>1, TimerParts DEF ExpiryDue
    <3>1. PICK c \in Queued : c.of = <<"timer", gen["timer"]>>
      BY DEF Due
    <3>2. c = cur
      BY <1>1, <1>2, <3>1 DEF Due
    <3> QED
      BY <2>1, <2>3, <3>1, <3>2
  <2> QED
    BY <1>4, <1>5, <2>2, <2>4 DEF TimerInv
<1> QED
  BY <1>6, <1>7

LEMMA TimerInvariant == TimerSpec => []TimerInv
<1>1. PortInit /\ TimerInit => TimerInv
  <2> SUFFICES ASSUME PortInit, TimerInit PROVE TimerInv
    OBVIOUS
  <2>1. Null \notin Handles /\ "timer" # NoObject
    BY CompletionPortAssumption, TimerWinAssumption DEF Null
  <2>2. TimerOK /\ TimerEntries /\ TimerKeys /\ ExpiryDue
    BY <2>1 DEF PortInit, TimerInit, TimerOK, TimerEntries, TimerKeys, ExpiryDue
  <2> QED
    BY <2>2, PortBegins DEF TimerInv, OwnCompletion
<1>2. TimerInv /\ [TimerNext]_<<portVars, twVars>> => TimerInv'
  <2> SUFFICES ASSUME TimerInv, [TimerNext]_<<portVars, twVars>> PROVE TimerInv'
    OBVIOUS
  <2>1. CASE UNCHANGED <<portVars, twVars>>
    <3>1. Queued' = Queued
      BY <2>1, QueuedSame DEF portVars
    <3> QED
      BY <2>1, <3>1 DEF portVars, twVars, TimerInv, PortOK, GenInv, PlainInv, TimerOK, TimerEntries,
                        TimerKeys, ExpiryDue, Due, OwnCompletion
  <2> QED
    BY <2>1, SetCreateStep, SetSteps, TimerCbStep, TimerLoopStep, TimerHandledStep
       DEF TimerNext, TimerStep
<1> QED
  BY <1>1, <1>2, PTL DEF TimerSpec

(* The callback of a Timer is executed for an expiry of its present        *)
(* setting, unless timerCb() posted the handle for an earlier one, or the  *)
(* handle had completions left.                                            *)
THEOREM TimerOwnCompletion == TimerSpec => []OwnCompletion
BY TimerInvariant, PTL DEF TimerInv

(* A Timer that was set fires or is on its way to, but for the expiry that *)
(* execute() takes before set() has added the event.                       *)
THEOREM TimerDueAlways == TimerSpec => []TimerDue
<1>1. TimerInv => TimerDue
  BY DEF TimerInv, ExpiryDue, TimerDue
<1> QED
  BY <1>1, TimerInvariant, PTL

-----------------------------------------------------------------------------
(* Servers                                                                 *)

ServerOK ==
  /\ theServer \in {"multicast", "tcp"}
  /\ open \in BOOLEAN /\ associated \in BOOLEAN /\ slot \in BOOLEAN
  /\ ordered \in Nat
  /\ inbox \in Seq({"item", "empty", "reset", "failed"})
  /\ step \in {"no", "starting", "stopping"}
  /\ open => step # "stopping"
  /\ step = "starting" => open /\ ~associated
  /\ open /\ ~associated => step = "starting"

(* A server is registered with its one event, from the end of start().     *)
ServerEntries ==
  /\ \A h \in Handles : /\ infos[h] \in {theServer, NoObject}
                        /\ infos[h] = theServer => h = hServer
  /\ open /\ step = "no" => infos[hServer] = theServer

(* Completions are of stop(), or of the server with its one event.         *)
ServerKeys ==
  /\ \A c \in Queued :
       \/ c.key = StopKey /\ c.of = <<NoObject, 0>> /\ c.error = "none"
       \/ c.key = hServer /\ \E g \in Nat : c.of = <<theServer, g>>
  /\ lpc \in {"call", "once"} => cur.key = hServer
  /\ theServer \notin reissued =>
       \A c \in Queued : c.key = hServer => c.of = <<theServer, gen[theServer]>>

(* A completion of a server that is open comes from its present socket; it *)
(* is lost only by an error that leaves the server deaf.                   *)
ServerErrors ==
  open => \A c \in Queued : c.of = <<theServer, gen[theServer]>> =>
    /\ associated
    /\ c.error # "aborted"
    /\ c.error = "other" => "failed" \in deaf

ServerDue == open /\ deaf = {} => ordered > 0 \/ Due(theServer)

ServerInv ==
  PortOK /\ GenInv /\ ServerOK /\ ServerEntries /\ ServerKeys /\ ServerErrors /\ ServerDue
         /\ OwnCompletion
(* What the invariant says, with what the server and its event are.        *)
LEMMA ServerParts ==
  ASSUME ServerInv
  PROVE  /\ PortOK /\ GenInv /\ ServerOK /\ ServerEntries /\ ServerKeys /\ ServerErrors
         /\ ServerDue /\ OwnCompletion
         /\ theServer \in Objects /\ theServer # NoObject /\ gen[theServer] \in Nat
         /\ hServer \in Handles /\ hServer # Null /\ hServer # StopKey
         /\ Null \notin Handles /\ StopKey \notin Handles
<1>1. hServer \in Handles
  BY ServersWinAssumption DEF hServer
<1>2. Null \notin Handles /\ StopKey \notin Handles
  BY CompletionPortAssumption DEF Null, StopKey
<1>3. theServer \in Objects /\ theServer # NoObject
  BY CompletionPortAssumption, ServersWinAssumption DEF ServerInv, ServerOK
<1> QED
  BY <1>1, <1>2, <1>3 DEF ServerInv, PortOK

(* Steps that leave the completions alone.                                 *)
LEMMA ServerQuiet ==
  ASSUME ServerInv, UNCHANGED <<port, lpc, cur, gen, reissued, strays, theServer>>
  PROVE  Queued' = Queued /\ GenInv' /\ ServerKeys' /\ OwnCompletion'
<1>1. Queued' = Queued
  BY QueuedSame
<1> QED
  BY <1>1, ServerParts DEF GenInv, ServerKeys, OwnCompletion, hServer

(* Steps that post one.                                                    *)
LEMMA ServerPost ==
  ASSUME ServerInv, NEW c \in Completions, Post(c),
         UNCHANGED <<lpc, cur, gen, reissued, strays, theServer>>,
         \/ c.key = StopKey /\ c.of = <<NoObject, 0>> /\ c.error = "none"
         \/ c.key = hServer /\ c.of = <<theServer, gen[theServer]>>
  PROVE  Queued' = Queued \cup {c} /\ port' \in Seq(Completions) /\ GenInv' /\ ServerKeys'
         /\ OwnCompletion'
<1>1. Queued' = Queued \cup {c} /\ port' \in Seq(Completions)
  BY ServerParts, QueuedPost
<1>2. GenInv'
  <2>1. \A o \in Objects, g \in Nat : c.of = <<o, g>> => g <= gen[o]
    BY ServerParts, CompletionPortAssumption
  <2> QED
    BY <1>1, <2>1, ServerParts, GenStep
<1>3. ServerKeys'
  BY <1>1, ServerParts DEF ServerKeys, hServer
<1> QED
  BY <1>1, <1>2, <1>3, ServerParts DEF OwnCompletion

LEMMA StartOrderStep ==
  ASSUME ServerInv, NEW works \in BOOLEAN, StartOrder(works)
  PROVE  ServerInv'
<1>1. /\ ~open /\ step = "no" /\ open' = TRUE /\ associated' = FALSE /\ step' = "starting"
      /\ inbox' = <<>> /\ ordered' \in Nat /\ (deaf' = {} => ordered' > 0)
      /\ Reborn(theServer, hServer) /\ UNCHANGED <<port, infos, lpc, cur, retval, theServer, slot>>
  <2>1. CASE works
    BY <2>1 DEF StartOrder
  <2>2. CASE ~works
    BY <2>2 DEF StartOrder
  <2> QED
    BY <2>1, <2>2
<1>2. /\ gen' \in [Objects -> Nat] /\ GenInv' /\ Queued' = Queued
      /\ \A c \in Queued : c.of # <<theServer, gen'[theServer]>>
      /\ theServer \notin reissued' => \A c \in Queued : c.key # hServer
      /\ reissued' = reissued \cup {theServer} \/ reissued' = reissued \ {theServer}
      /\ strays' = strays \ {theServer}
  BY <1>1, ServerParts, RebornStep
<1>3. PortOK' /\ ServerOK' /\ ServerEntries'
  <2>1. PortOK'
    BY <1>1, <1>2, ServerParts DEF PortOK
  <2>2. ServerOK'
    <3>1. theServer' \in {"multicast", "tcp"} /\ slot' \in BOOLEAN
      BY <1>1, ServerParts DEF ServerOK
    <3>2. inbox' \in Seq({"item", "empty", "reset", "failed"})
      BY <1>1
    <3>3. open' \in BOOLEAN /\ associated' \in BOOLEAN /\ ~associated' /\ step' # "stopping"
      BY <1>1
    <3> QED
      BY <1>1, <3>1, <3>2, <3>3 DEF ServerOK
  <2>3. ServerEntries'
    BY <1>1, ServerParts DEF ServerEntries, hServer
  <2> QED
    BY <2>1, <2>2, <2>3
<1>4. ServerKeys' /\ ServerErrors'
  BY <1>1, <1>2, ServerParts DEF ServerKeys, ServerErrors, hServer
<1>5. ServerDue' /\ OwnCompletion'
  BY <1>1, <1>2, ServerParts DEF ServerDue, OwnCompletion
<1> QED
  BY <1>2, <1>3, <1>4, <1>5 DEF ServerInv

(* The steps of start() and stop() that only change entries, and arrivals. *)
LEMMA ServerCallSteps ==
  ASSUME ServerInv,
         \/ StartFailsWin \/ StartAdd \/ StopErase \/ UNCHANGED <<portVars, swVars>>
         \/ \E item \in {"item", "empty", "reset", "failed"} : ArriveWin(item)
  PROVE  ServerInv'
<1>1. UNCHANGED <<port, lpc, cur, retval, gen, reissued, strays, theServer, open, ordered, slot>>
  BY DEF StartFailsWin, StartAdd, StopErase, ArriveWin, portVars, swVars
<1>2. Queued' = Queued /\ GenInv' /\ ServerKeys' /\ OwnCompletion'
  BY <1>1, ServerQuiet
<1>3. CASE StartFailsWin \/ UNCHANGED <<portVars, swVars>>
  <2>1. /\ UNCHANGED <<infos, associated, inbox, step>> /\ (deaf' = deaf \/ ~open)
    BY <1>3 DEF StartFailsWin, portVars, swVars
  <2>2. PortOK' /\ ServerOK' /\ ServerEntries'
    BY <1>1, <2>1, ServerParts DEF PortOK, ServerOK, ServerEntries, hServer
  <2>3. ServerErrors' /\ ServerDue'
    BY <1>1, <1>2, <2>1, ServerParts DEF ServerErrors, ServerDue, Due
  <2> QED
    BY <1>2, <2>2, <2>3 DEF ServerInv
<1>4. ASSUME NEW item \in {"item", "empty", "reset", "failed"}, ArriveWin(item) PROVE ServerInv'
  <2>1. UNCHANGED <<infos, associated, step, deaf>> /\ inbox' = Append(inbox, item)
    BY <1>4 DEF ArriveWin, portVars
  <2>2. inbox' \in Seq({"item", "empty", "reset", "failed"})
    BY <2>1, ServerParts DEF ServerOK
  <2>3. PortOK' /\ ServerOK' /\ ServerEntries'
    BY <1>1, <2>1, <2>2, ServerParts DEF PortOK, ServerOK, ServerEntries, hServer
  <2>4. ServerErrors' /\ ServerDue'
    BY <1>1, <1>2, <2>1, ServerParts DEF ServerErrors, ServerDue, Due
  <2> QED
    BY <1>2, <2>3, <2>4 DEF ServerInv
<1>5. CASE StartAdd
  <2>1. /\ infos' = [infos EXCEPT ![hServer] = theServer] /\ step = "starting" /\ step' = "no"
        /\ associated' = TRUE /\ UNCHANGED <<inbox, deaf>>
    BY <1>5 DEF StartAdd, addEvent
  <2>2. PortOK' /\ ServerOK' /\ ServerEntries'
    BY <1>1, <2>1, ServerParts DEF PortOK, ServerOK, ServerEntries, hServer
  <2>3. ServerErrors' /\ ServerDue'
    BY <1>1, <1>2, <2>1, ServerParts DEF ServerErrors, ServerDue, Due
  <2> QED
    BY <1>2, <2>2, <2>3 DEF ServerInv
<1>6. CASE StopErase
  <2>1. /\ infos' = [infos EXCEPT ![hServer] = NoObject] /\ step = "stopping" /\ step' = "no"
        /\ UNCHANGED <<associated, inbox, deaf>>
    BY <1>6, ServerParts DEF StopErase, eraseEvent
  <2>2. PortOK' /\ ServerOK' /\ ServerEntries'
    BY <1>1, <2>1, ServerParts DEF PortOK, ServerOK, ServerEntries, hServer
  <2>3. ServerErrors' /\ ServerDue'
    BY <1>1, <1>2, <2>1, ServerParts DEF ServerErrors, ServerDue, Due
  <2> QED
    BY <1>2, <2>2, <2>3 DEF ServerInv
<1> QED
  BY <1>3, <1>4, <1>5, <1>6

LEMMA CompleteStep ==
  ASSUME ServerInv, Complete
  PROVE  ServerInv'
<1> DEFINE error == IF Head(inbox) = "reset" THEN "netname deleted"
                    ELSE IF Head(inbox) = "failed" THEN "other" ELSE "none"
           c == Completion(hServer, theServer, gen[theServer], error)
<1>1. /\ inbox # <<>> /\ ordered > 0 /\ ordered' = ordered - 1 /\ inbox' = Tail(inbox)
      /\ slot' \in BOOLEAN
      /\ IF associated THEN Post(c) ELSE UNCHANGED port
      /\ deaf \subseteq deaf' /\ (~associated => deaf' # {})
      /\ error = "other" => "failed" \in deaf'
      /\ UNCHANGED <<infos, lpc, cur, retval, gen, reissued, strays, theServer, open, associated, step>>
  BY DEF Complete
<1>2. /\ c \in Completions /\ c.key = hServer /\ c.of = <<theServer, gen[theServer]>>
      /\ c.error = error /\ error # "aborted"
  BY ServerParts DEF Completion, Completions, Errors
<1> HIDE DEF c, error
<1>3. inbox' \in Seq({"item", "empty", "reset", "failed"})
  BY <1>1, ServerParts DEF ServerOK
<1>4. GenInv' /\ ServerKeys' /\ OwnCompletion' /\ port' \in Seq(Completions)
      /\ Queued' = IF associated THEN Queued \cup {c} ELSE Queued
  <2>1. CASE associated
    BY <1>1, <1>2, <2>1, ServerPost
  <2>2. CASE ~associated
    BY <1>1, <2>2, ServerParts, ServerQuiet DEF PortOK
  <2> QED
    BY <2>1, <2>2
<1>5. PortOK' /\ ServerOK' /\ ServerEntries'
  BY <1>1, <1>3, <1>4, ServerParts DEF PortOK, ServerOK, ServerEntries, hServer
<1>6. ServerErrors'
  BY <1>1, <1>2, <1>4, ServerParts DEF ServerErrors
<1>7. ServerDue'
  BY <1>1, <1>2, <1>4 DEF ServerDue, Due
<1> QED
  BY <1>4, <1>5, <1>6, <1>7 DEF ServerInv

LEMMA StopCloseStep ==
  ASSUME ServerInv, StopClose
  PROVE  ServerInv'
<1> DEFINE c == Completion(hServer, theServer, gen[theServer], "aborted")
<1>1. /\ step = "no" /\ open' = FALSE /\ associated' = FALSE /\ ordered' = 0 /\ inbox' = <<>>
      /\ IF ordered > 0 THEN Post(c) ELSE UNCHANGED port
      /\ \/ infos' = [infos EXCEPT ![hServer] = NoObject] /\ step' = "no"
         \/ infos' = infos /\ step' = "stopping"
      /\ UNCHANGED <<lpc, cur, retval, gen, reissued, strays, theServer, slot, deaf>>
  BY ServerParts DEF StopClose, eraseEvent
<1>2. c \in Completions /\ c.key = hServer /\ c.of = <<theServer, gen[theServer]>>
  BY ServerParts DEF Completion, Completions, Errors
<1> HIDE DEF c
<1>3. GenInv' /\ ServerKeys' /\ OwnCompletion' /\ port' \in Seq(Completions)
  <2>1. CASE ordered > 0
    BY <1>1, <1>2, <2>1, ServerPost
  <2>2. CASE ~(ordered > 0)
    BY <1>1, <2>2, ServerParts, ServerQuiet DEF PortOK
  <2> QED
    BY <2>1, <2>2
<1>4. PortOK' /\ ServerOK' /\ ServerEntries'
  <2>1. PortOK'
    BY <1>1, <1>3, ServerParts DEF PortOK
  <2>2. ServerOK'
    <3>1. theServer' \in {"multicast", "tcp"} /\ slot' \in BOOLEAN
      BY <1>1, ServerParts DEF ServerOK
    <3>2. inbox' \in Seq({"item", "empty", "reset", "failed"}) /\ ordered' \in Nat
      BY <1>1
    <3>3. open' \in BOOLEAN /\ associated' \in BOOLEAN /\ ~open'
          /\ step' \in {"no", "stopping"} /\ step' # "starting"
      BY <1>1
    <3> QED
      BY <3>1, <3>2, <3>3 DEF ServerOK
  <2>3. ServerEntries'
    BY <1>1, ServerParts DEF ServerEntries, hServer, ServerOK, PortOK
  <2> QED
    BY <2>1, <2>2, <2>3
<1>5. ServerErrors' /\ ServerDue'
  BY <1>1 DEF ServerErrors, ServerDue
<1> QED
  BY <1>3, <1>4, <1>5 DEF ServerInv

(* Both process(): the next operation is ordered, or there is a reason.    *)
LEMMA ServerProcessStep ==
  ASSUME ServerInv, NEW works \in BOOLEAN,
         processAccept(works) \/ \E known \in BOOLEAN : processMulticast(known, works)
  PROVE  ServerInv'
<1>1. PICK r \in {-1, 0, 1} : Called(theServer, r)
  BY DEF processAccept, processMulticast
<1>2. /\ UNCHANGED <<port, infos, gen, reissued, theServer, open, associated, inbox, step>>
      /\ slot' \in BOOLEAN /\ ordered' \in Nat /\ deaf \subseteq deaf'
      /\ open /\ deaf' = {} => ordered' > 0
  <2>1. CASE Consumed(works)
    <3>1. UNCHANGED <<port, infos, gen, reissued, theServer, open, associated, inbox, step>>
      BY <1>1 DEF processAccept, processMulticast, Called
    <3>2. slot' \in BOOLEAN /\ Order(works)
      BY <2>1 DEF Consumed
    <3>3. ordered' \in Nat /\ deaf \subseteq deaf'
      <4>1. ordered' \in {ordered, ordered + 1} /\ ordered \in Nat
        BY <3>2, ServerParts DEF Order, ServerOK
      <4>2. deaf' \in {deaf, deaf \cup {"not ordered"}}
        BY <3>2 DEF Order
      <4>3. ordered' \in Nat
        BY <4>1
      <4>4. deaf \subseteq deaf'
        BY <4>2, Zenon
      <4> QED
        BY <4>3, <4>4
    <3>4. ASSUME open, deaf' = {} PROVE ordered' > 0
      <4>1. works
        BY <3>2, <3>4 DEF Order
      <4>2. ordered' = ordered + 1
        BY <3>2, <3>4, <4>1 DEF Order
      <4> QED
        BY <4>2, ServerParts DEF ServerOK
    <3> QED
      BY <3>1, <3>2, <3>3, <3>4
  <2>2. CASE deaf' = (IF ordered = 0 THEN deaf \cup {"empty"} ELSE deaf) /\ UNCHANGED <<ordered, slot>>
    <3>1. UNCHANGED <<port, infos, gen, reissued, theServer, open, associated, inbox, step>>
      BY <1>1 DEF processAccept, processMulticast, Called
    <3>2. slot' \in BOOLEAN /\ ordered' \in Nat
      BY <2>2, ServerParts DEF ServerOK
    <3>3. CASE ordered = 0
      BY <2>2, <3>1, <3>2, <3>3
    <3>4. CASE ordered # 0
      <4>1. ordered' = ordered /\ ordered > 0 /\ deaf' = deaf
        BY <2>2, <3>4, ServerParts DEF ServerOK
      <4> QED
        BY <3>1, <3>2, <4>1
    <3> QED
      BY <3>3, <3>4
  <2> QED
    BY <2>1, <2>2 DEF processAccept, processMulticast
<1>3. /\ lpc \in {"call", "once"} /\ Found = theServer
      /\ lpc' \in {"call", "wait"} /\ cur' = IF lpc' = "call" THEN cur ELSE NoCompletion
      /\ strays' = IF cur.of = <<theServer, gen[theServer]>> THEN strays ELSE strays \cup {theServer}
  BY <1>1 DEF Called
<1>4. cur \in Queued /\ Queued' \subseteq Queued
  BY <1>2, <1>3, ServerParts, QueuedHandled
<1>5. PortOK'
  BY <1>1, <1>2, ServerParts, PortStep
<1>6. GenInv' /\ ServerOK' /\ ServerEntries'
  BY <1>2, <1>4, ServerParts DEF GenInv, ServerOK, ServerEntries, hServer
<1>7. ServerKeys' /\ ServerErrors'
  BY <1>2, <1>3, <1>4, ServerParts DEF ServerKeys, ServerErrors, hServer
<1>8. ServerDue'
  BY <1>2 DEF ServerDue
<1>9. OwnCompletion'
  <2>1. theServer \notin reissued => cur.of = <<theServer, gen[theServer]>>
    BY <1>3, <1>4, ServerParts DEF ServerKeys
  <2> QED
    BY <1>2, <1>3, <2>1, ServerParts DEF OwnCompletion
<1> QED
  BY <1>5, <1>6, <1>7, <1>8, <1>9 DEF ServerInv

(* stop(), execute() and what it takes from the port.                      *)
LEMMA ServerLoopStep ==
  ASSUME ServerInv, LoopStep \/ NotFound, UNCHANGED swVars
  PROVE  ServerInv'
<1>1. UNCHANGED <<infos, gen, reissued, strays, theServer, open, associated, ordered, inbox, slot, step,
                  deaf>>
  BY DEF LoopStep, LoopStop, Execute, Take, NotFound, swVars
<1>2. PortOK' /\ ServerOK' /\ ServerEntries'
  <2>1. PortOK'
    BY ServerParts, PortStep DEF LoopStep
  <2> QED
    BY <1>1, <2>1, ServerParts DEF ServerOK, ServerEntries, hServer
<1>3. CASE LoopStop
  <2> DEFINE c == Completion(StopKey, NoObject, 0, "none")
  <2>1. c \in Completions /\ c.key = StopKey /\ c.of = <<NoObject, 0>> /\ c.error = "none"
    BY DEF Completion, Completions, Errors
  <2>2. Post(c) /\ UNCHANGED <<lpc, cur>>
    BY <1>3 DEF LoopStop
  <2> HIDE DEF c
  <2>3. Queued' = Queued \cup {c} /\ GenInv' /\ ServerKeys' /\ OwnCompletion'
    BY <1>1, <2>1, <2>2, ServerPost
  <2>4. ServerErrors' /\ ServerDue'
    BY <1>1, <2>1, <2>3, ServerParts DEF ServerErrors, ServerDue, Due
  <2> QED
    BY <1>2, <2>3, <2>4 DEF ServerInv
<1>4. ASSUME Queued' \subseteq Queued, lpc' \in {"call", "once"} => cur'.key = hServer,
             open /\ deaf = {} => \A c \in Queued : \/ c \in Queued'
                                                   \/ c.of # <<theServer, gen[theServer]>>
      PROVE  ServerInv'
  <2>1. GenInv' /\ ServerKeys' /\ OwnCompletion' /\ ServerErrors'
    BY <1>1, <1>4, ServerParts DEF GenInv, ServerKeys, OwnCompletion, ServerErrors, hServer
  <2>2. ServerDue'
    BY <1>1, <1>4, ServerParts DEF ServerDue, Due
  <2> QED
    BY <1>2, <2>1, <2>2 DEF ServerInv
<1>5. CASE Execute
  <2>1. Queued' = Queued /\ lpc' = "wait"
    BY <1>5 DEF Execute, Queued
  <2> QED
    BY <1>4, <2>1
<1>6. CASE NotFound
  <2>1. /\ cur \in Queued /\ Queued' \subseteq Queued /\ Queued \subseteq Queued' \cup {cur}
        /\ lpc' = "wait" /\ lpc \in {"call", "once"} /\ Found = NoObject
    BY <1>6, ServerParts, QueuedHandled DEF NotFound
  <2>2. infos[hServer] = NoObject
    BY <2>1, ServerParts DEF ServerKeys, Found
  <2>3. open /\ cur.of = <<theServer, gen[theServer]>> => FALSE
    BY <2>1, <2>2, ServerParts DEF ServerErrors, ServerEntries, ServerOK
  <2> QED
    BY <1>4, <2>1, <2>3
<1>7. CASE Take
  <2>1. /\ Head(port) \in Queued /\ Queued' \subseteq Queued
        /\ Queued \subseteq Queued' \cup {Head(port)}
    BY <1>7, ServerParts, QueuedTake
  <2>2. \/ Head(port).error = "aborted" /\ lpc' = "wait"
        \/ Head(port).error = "other" /\ lpc' = "ended"
        \/ Head(port).key = StopKey /\ lpc' = "ended"
        \/ lpc' \in {"call", "once"} /\ cur' = Head(port)
           /\ (Head(port).error = "netname deleted" \/ Head(port).key # StopKey)
    BY <1>7 DEF Take
  <2>3. lpc' \in {"call", "once"} => cur'.key = hServer /\ cur' \in Queued'
    BY <2>1, <2>2, ServerParts DEF ServerKeys, Queued
  <2>4. open /\ deaf = {} /\ Head(port).of = <<theServer, gen[theServer]>> =>
          lpc' \in {"call", "once"} /\ cur' = Head(port)
    <3> SUFFICES ASSUME open, deaf = {}, Head(port).of = <<theServer, gen[theServer]>>
        PROVE  lpc' \in {"call", "once"} /\ cur' = Head(port)
      OBVIOUS
    <3>1. Head(port).error # "aborted" /\ Head(port).error # "other"
      BY <2>1, ServerParts DEF ServerErrors
    <3>2. Head(port).key # StopKey
      BY <2>1, ServerParts DEF ServerKeys
    <3> QED
      BY <2>2, <3>1, <3>2
  <2> QED
    BY <1>4, <2>1, <2>3, <2>4
<1> QED
  BY <1>3, <1>5, <1>6, <1>7 DEF LoopStep

LEMMA ServerInvariant == ServerSpec => []ServerInv
<1>1. PortInit /\ ServersInit => ServerInv
  <2> SUFFICES ASSUME PortInit, ServersInit PROVE ServerInv
    OBVIOUS
  <2>1. theServer \in Objects /\ theServer # NoObject
    BY CompletionPortAssumption, ServersWinAssumption DEF ServersInit
  <2>2. ServerOK
    <3>1. inbox \in Seq({"item", "empty", "reset", "failed"}) /\ ordered \in Nat
      BY DEF ServersInit
    <3>2. ~open /\ step \in {"no", "starting", "stopping"} /\ step # "starting"
      BY DEF ServersInit
    <3> QED
      BY <3>1, <3>2 DEF ServersInit, ServerOK
  <2>4. ServerEntries
    BY <2>1 DEF PortInit, ServersInit, ServerEntries
  <2>3. ServerKeys /\ ServerErrors /\ ServerDue
    BY PortBegins DEF PortInit, ServersInit, ServerKeys, ServerErrors, ServerDue
  <2> QED
    BY <2>2, <2>3, <2>4, PortBegins DEF ServerInv, OwnCompletion
<1>2. ServerInv /\ [ServerNext]_<<portVars, swVars>> => ServerInv'
  BY StartOrderStep, ServerCallSteps, CompleteStep, StopCloseStep, ServerProcessStep, ServerLoopStep
     DEF ServerNext, ServerStep
<1> QED
  BY <1>1, <1>2, PTL DEF ServerSpec

(* process() of a server is executed for a completion of its present       *)
(* socket, unless completions of an earlier one were left at start().      *)
THEOREM ServerOwnCompletion == ServerSpec => []OwnCompletion
BY ServerInvariant, PTL DEF ServerInv

(* An open server has an operation outstanding, or the completion of one   *)
(* to come, whatever its start() and stop() left behind, until one of the  *)
(* reasons that OperationDue lists leaves it deaf.                         *)
THEOREM OperationDueAlways == ServerSpec => []OperationDue
<1>1. ServerInv => OperationDue
  BY DEF ServerInv, ServerDue, OperationDue
<1> QED
  BY <1>1, ServerInvariant, PTL
=============================================================================
