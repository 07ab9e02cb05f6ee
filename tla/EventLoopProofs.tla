--------------------------- MODULE EventLoopProofs ---------------------------
(***************************************************************************)
(* Proofs about EventLoop, for any number of descriptors, addresses and    *)
(* slots.                                                                  *)
(***************************************************************************)
EXTENDS EventLoop, TLAPS

(* While a callback runs, execute() is at a slot of the batch.             *)
InSlot == pc = "handler" => n <= m_eventCount

(* Advance keeps the position inside the batch.                            *)
LEMMA AdvanceType ==
  ASSUME TypeOK, n <= m_eventCount, Advance
  PROVE  n' \in 1..(MAXEVENTS + 1) /\ dir' \in {"in", "out"}
BY EventLoopAssumption DEF TypeOK, Advance

(* The kernel's operations keep the types of the kernel's state.           *)
LEMMA WatchType ==
  ASSUME TypeOK, NEW f \in Fds, NEW mask \in SUBSET Dirs, NEW ptr \in Nodes \cup {NullPtr},
         Watch(f, mask, ptr)
  PROVE  /\ kmask' \in [Fds -> SUBSET Dirs]
         /\ kptr' \in [Fds -> Nodes \cup {NullPtr}]
         /\ ready' \in SUBSET (Fds \cup {StopFd})
BY DEF TypeOK, Watch

LEMMA UnwatchType ==
  ASSUME TypeOK, NEW f \in Fds, Unwatch(f)
  PROVE  /\ kmask' \in [Fds -> SUBSET Dirs]
         /\ kptr' \in [Fds -> Nodes \cup {NullPtr}]
         /\ ready' \in SUBSET (Fds \cup {StopFd})
BY DEF TypeOK, Unwatch

LEMMA ForgetType ==
  ASSUME TypeOK, NEW f \in Fds, Forget(f)
  PROVE  /\ lostByStop' \in SUBSET (Fds \X Dirs)
         /\ lostByThrow' \in SUBSET (Fds \X Dirs)
BY DEF TypeOK, Forget

(* A callback leaves between 0 and MaxLevel units of work.                 *)
LEMMA CallbackType ==
  ASSUME TypeOK, NEW f \in Fds, NEW d \in Dirs, NEW r, Callback(f, d, r)
  PROVE  level' \in [Fds -> [Dirs -> 0..MaxLevel]]
<1>1. level[f] \in [Dirs -> 0..MaxLevel] /\ level[f][d] \in 0..MaxLevel
  BY DEF TypeOK
<1>2. PICK k \in 0..MaxLevel : level' = [level EXCEPT ![f][d] = k]
  BY <1>1, EventLoopAssumption DEF Callback
<1> QED
  BY <1>2 DEF TypeOK

LEMMA TurnOffType ==
  ASSUME TypeOK, NEW p, NEW S, TurnOff(p, S)
  PROVE  m_events' \in [1..MAXEVENTS -> Slot]
BY DEF TypeOK, TurnOff, Clear, Slot

(* Due() reports directions of the mask it is given.                       *)
LEMMA EventOfType ==
  ASSUME TypeOK, NEW x \in Deliverable
  PROVE  EventOf(x) \in Slot
BY DEF TypeOK, Deliverable, EventOf, Due, NoEvent, Slot

(* The states of the drain loop of addEvent().                             *)
LEMMA DrainingType ==
  /\ NoDrain \in DrainState
  /\ \A f \in Fds, d \in Dirs, st \in {"call", "more", "last"} :
       Draining(f, d, st) \in DrainState
  /\ \A x \in DrainState : x.st # "none" => x.fd \in Fds /\ x.dir \in Dirs
BY DEF DrainState, Draining, NoDrain

LEMMA AddType ==
  ASSUME TypeOK, NEW t \in Threads, NEW f \in Fds, NEW d \in Dirs, Add(t, f, d)
  PROVE  TypeOK'
<1>1. lostByStop' \in SUBSET (Fds \X Dirs) /\ lostByThrow' \in SUBSET (Fds \X Dirs)
  BY ForgetType DEF Add
<1>2. Draining(f, d, "call") \in DrainState
  BY DrainingType
<1>3. CASE AddNew(t, f, d)
  <2>1. PICK p \in Nodes \ Allocated :
          /\ node' = [node EXCEPT ![f] = p]
          /\ handlers' = [handlers EXCEPT ![f] = {d}]
          /\ \/ /\ Watch(f, {d}, p)
                /\ drain' = [drain EXCEPT ![t] = Draining(f, d, "call")]
             \/ UNCHANGED <<kmask, kptr, ready, drain>>
    BY <1>3 DEF AddNew
  <2>2. /\ kmask' \in [Fds -> SUBSET Dirs]
        /\ kptr' \in [Fds -> Nodes \cup {NullPtr}]
        /\ ready' \in SUBSET (Fds \cup {StopFd})
    BY <2>1, WatchType DEF TypeOK
  <2>3. drain' \in [Threads -> DrainState]
    BY <1>2, <2>1 DEF TypeOK
  <2> QED
    BY <1>1, <2>1, <2>2, <2>3 DEF TypeOK, Add, batch, scan
<1>4. CASE AddToEntry(t, f, d)
  <2>1. /\ kmask' \in [Fds -> SUBSET Dirs]
        /\ kptr' \in [Fds -> Nodes \cup {NullPtr}]
        /\ ready' \in SUBSET (Fds \cup {StopFd})
    <3>1. node[f] \in Nodes \cup {NullPtr} /\ handlers[f] \cup {d} \in SUBSET Dirs
      BY DEF TypeOK
    <3> QED
      BY <1>4, <3>1, WatchType DEF AddToEntry, TypeOK
  <2>2. drain' \in [Threads -> DrainState]
    BY <1>2, <1>4 DEF AddToEntry, TypeOK
  <2> QED
    BY <1>1, <1>4, <2>1, <2>2 DEF TypeOK, Add, AddToEntry, batch, scan
<1> QED
  BY <1>3, <1>4 DEF Add

LEMMA EraseType ==
  ASSUME TypeOK, NEW t \in Threads, NEW f \in Fds, NEW d \in Dirs, Erase(t, f, d)
  PROVE  TypeOK'
<1>1. lostByStop' \in SUBSET (Fds \X Dirs) /\ lostByThrow' \in SUBSET (Fds \X Dirs)
  BY ForgetType DEF Erase
<1>2. m_events' \in [1..MAXEVENTS -> Slot]
  BY TurnOffType DEF Erase
<1>3. /\ kmask' \in [Fds -> SUBSET Dirs]
      /\ kptr' \in [Fds -> Nodes \cup {NullPtr}]
      /\ ready' \in SUBSET (Fds \cup {StopFd})
  <2>1. node[f] \in Nodes \cup {NullPtr} /\ handlers[f] \ {d} \in SUBSET Dirs
    BY DEF TypeOK
  <2>2. \/ Watch(f, handlers[f] \ {d}, node[f])
        \/ UNCHANGED <<kmask, kptr, ready>>
        \/ Unwatch(f)
    BY DEF Erase
  <2> QED
    BY <2>1, <2>2, WatchType, UnwatchType DEF TypeOK
<1>4. node' \in [Fds -> Nodes \cup {NullPtr}] /\ handlers' \in [Fds -> SUBSET Dirs]
  <2>1. \/ handlers' = [handlers EXCEPT ![f] = handlers[f] \ {d}] /\ node' = node
        \/ handlers' = [handlers EXCEPT ![f] = {}] /\ node' = [node EXCEPT ![f] = NullPtr]
    BY DEF Erase
  <2> QED
    BY <2>1 DEF TypeOK
<1>5. UNCHANGED <<level, m_eventCount, fetched, scan, drain>>
  BY DEF Erase
<1> QED
  BY <1>1, <1>2, <1>3, <1>4, <1>5 DEF TypeOK, scan

LEMMA DrainType ==
  ASSUME TypeOK, NEW t \in Threads, DrainCall(t) \/ DrainReturn(t)
  PROVE  TypeOK'
<1>1. drain[t] \in DrainState
  BY DEF TypeOK
<1>2. CASE DrainCall(t)
  <2>1. drain[t].fd \in Fds /\ drain[t].dir \in Dirs
    BY <1>1, <1>2, DrainingType DEF DrainCall
  <2>2. level' \in [Fds -> [Dirs -> 0..MaxLevel]]
    BY <1>2, <2>1, CallbackType DEF DrainCall
  <2>3. PICK st \in {"more", "last"} :
          drain' = [drain EXCEPT ![t] = Draining(drain[t].fd, drain[t].dir, st)]
    BY <1>2 DEF DrainCall
  <2>4. drain' \in [Threads -> DrainState]
    BY <2>1, <2>3, DrainingType DEF TypeOK
  <2> QED
    BY <1>2, <2>2, <2>4 DEF TypeOK, DrainCall, infos, batch, scan, history
<1>3. CASE DrainReturn(t)
  <2>1. drain[t].fd \in Fds /\ drain[t].dir \in Dirs
    BY <1>1, <1>3, DrainingType DEF DrainReturn
  <2>2. drain' \in [Threads -> DrainState]
    BY <1>3, <2>1, DrainingType DEF DrainReturn, TypeOK
  <2> QED
    BY <1>3, <2>2 DEF TypeOK, DrainReturn, kernel, infos, batch, scan, history
<1> QED
  BY <1>2, <1>3

(* Every step of execute() keeps the types.                                *)
LEMMA ExecuteType ==
  ASSUME TypeOK, InSlot,
         ExecuteBegin \/ ExecuteStep \/ DispatchDangling
                 \/ EpollInterrupted \/ EpollFails
  PROVE  TypeOK'
<1> USE EventLoopAssumption
<1>0. 1 \in 1..(MAXEVENTS + 1)
  OBVIOUS
<1>1. CASE ExecuteBegin
  BY <1>1 DEF TypeOK, ExecuteBegin, kernel, infos, batch, history
<1>2. CASE EpollWait
  <2>1. PICK k \in 1..MAXEVENTS : \E b \in [1..k -> Deliverable] :
          /\ m_events' = [i \in 1..MAXEVENTS |-> IF i <= k THEN EventOf(b[i])
                                                           ELSE m_events[i]]
          /\ fetched' = k
          /\ ready' = {x \in Deliverable : \A i \in 1..k : b[i] # x}
    BY <1>2 DEF EpollWait
  <2>2. m_events' \in [1..MAXEVENTS -> Slot]
    BY <2>1, EventOfType DEF TypeOK
  <2>3. ready' \in SUBSET (Fds \cup {StopFd})
    BY <2>1 DEF TypeOK, Deliverable
  <2>4. fetched' \in -1..MAXEVENTS
    BY <2>1
  <2> QED
    BY <1>2, <2>2, <2>3, <2>4 DEF TypeOK, EpollWait, infos, history
<1>3. CASE StoreEventCount
  BY <1>3 DEF TypeOK, StoreEventCount, kernel, infos, history
<1>4. CASE Lock
  <2>1. n' = 1 /\ dir' = "in" /\ eventsLeft' = FALSE
    BY <1>4 DEF Lock
  <2>2. n' \in 1..(MAXEVENTS + 1) /\ dir' \in {"in", "out"} /\ eventsLeft' \in BOOLEAN
    BY <1>0, <2>1, Zenon
  <2>3. pc' = "scan" /\ UNCHANGED <<kernel, infos, batch, cur, result, drain, history>>
    BY <1>4 DEF Lock
  <2> QED
    BY <2>2, <2>3 DEF TypeOK, kernel, infos, batch, history
<1>5. CASE SkipEvent
  <2>1. n' \in 1..(MAXEVENTS + 1) /\ dir' \in {"in", "out"}
    BY <1>5, AdvanceType DEF SkipEvent, AtSlot
  <2> QED
    BY <1>5, <2>1 DEF TypeOK, SkipEvent, kernel, infos, batch, history
<1>6. CASE Dispatch
  <2>1. PICK f \in Fds, r \in {"more", "done", "throw"} :
          /\ cur' = f
          /\ Callback(f, dir, r)
          /\ result' = r
          /\ lostByThrow' = IF r = "throw" THEN lostByThrow \cup {<<f, dir>>}
                                           ELSE lostByThrow \ {<<f, dir>>}
          /\ lostByStop' = lostByStop \ {<<f, dir>>}
    BY <1>6 DEF Dispatch
  <2>2. dir \in Dirs
    <3>1. m_events[n] \in Slot
      BY <1>6 DEF TypeOK, Dispatch, AtSlot
    <3> QED
      BY <1>6, <3>1 DEF Dispatch, Slot
  <2>3. level' \in [Fds -> [Dirs -> 0..MaxLevel]]
    BY <2>1, <2>2, CallbackType
  <2>4. lostByStop' \in SUBSET (Fds \X Dirs) /\ lostByThrow' \in SUBSET (Fds \X Dirs)
    BY <2>1, <2>2 DEF TypeOK
  <2>5. cur' \in Fds \cup {StopFd} /\ result' \in {"more", "done", "throw"}
    BY <2>1
  <2> QED
    BY <1>6, <2>3, <2>4, <2>5 DEF TypeOK, Dispatch, infos, batch
<1>7. CASE DispatchEmpty
  <2>1. n' \in 1..(MAXEVENTS + 1) /\ dir' \in {"in", "out"}
    BY <1>7, AdvanceType DEF DispatchEmpty, AtSlot
  <2> QED
    BY <1>7, <2>1 DEF TypeOK, DispatchEmpty, kernel, infos, batch, history
<1>8. CASE DispatchDangling
  BY <1>8 DEF TypeOK, DispatchDangling, kernel, infos, batch, history
<1>9. CASE EndOfPass
  <2>1. n' = 1 /\ dir' = "in" /\ eventsLeft' = FALSE
    BY <1>9 DEF EndOfPass
  <2>2. n' \in 1..(MAXEVENTS + 1) /\ dir' \in {"in", "out"} /\ eventsLeft' \in BOOLEAN
    BY <1>0, <2>1, Zenon
  <2>3. /\ pc' \in {"scan", "wait"}
        /\ UNCHANGED <<kernel, infos, batch, cur, result, drain, history>>
    BY <1>9 DEF EndOfPass
  <2> QED
    BY <2>2, <2>3 DEF TypeOK, kernel, infos, batch, history
<1>10. CASE ExecuteReturn
  <2>1. n' = 1 /\ dir' = "in" /\ eventsLeft' = FALSE
    BY <1>10 DEF ExecuteReturn
  <2>2. n' \in 1..(MAXEVENTS + 1) /\ dir' \in {"in", "out"} /\ eventsLeft' \in BOOLEAN
    BY <1>0, <2>1, Zenon
  <2>3. lostByStop' \in SUBSET (Fds \X Dirs)
    BY <1>10 DEF TypeOK, ExecuteReturn, Unhandled
  <2>4. pc' = "idle" /\ UNCHANGED <<kernel, infos, batch, cur, result, drain, lostByThrow>>
    BY <1>10 DEF ExecuteReturn
  <2> QED
    BY <2>2, <2>3, <2>4 DEF TypeOK, kernel, infos, batch
<1>11. CASE DrainCall("loop") \/ DrainReturn("loop")
  BY <1>11, DrainType DEF Threads
<1>12. CASE EpollInterrupted
  BY <1>12 DEF TypeOK, EpollInterrupted, kernel, infos, history
<1>13. CASE EpollFails
  BY <1>13 DEF TypeOK, EpollFails, kernel, infos, history
<1>14. CASE HandlerReturn
  <2>1. n' \in 1..(MAXEVENTS + 1) /\ dir' \in {"in", "out"}
    BY <1>14, AdvanceType DEF HandlerReturn, InSlot
  <2>2. m_events' \in [1..MAXEVENTS -> Slot]
    BY <1>14 DEF HandlerReturn, TypeOK, Clear, Slot
  <2>3. eventsLeft' \in BOOLEAN
    BY <1>14 DEF HandlerReturn
  <2>4. /\ pc' = "scan" /\ cur' = StopFd /\ result' = "done"
        /\ UNCHANGED <<kernel, infos, m_eventCount, fetched, drain, history>>
    BY <1>14 DEF HandlerReturn
  <2> QED
    BY <2>1, <2>2, <2>3, <2>4 DEF TypeOK, kernel, infos, history
<1> QED
  BY <1>1, <1>2, <1>3, <1>4, <1>5, <1>6, <1>7, <1>8, <1>9, <1>10, <1>11, <1>12, <1>13,
     <1>14 DEF ExecuteStep

LEMMA EnvironmentType ==
  ASSUME TypeOK, NEW f \in Fds,
         (\E d \in Dirs : Arrive(f, d)) \/ Close(f) \/ \E t \in Threads : stop(t)
  PROVE  TypeOK'
<1>1. CASE \E d \in Dirs : Arrive(f, d)
  <2>1. PICK d \in Dirs : Arrive(f, d)
    BY <1>1
  <2>2. level' \in [Fds -> [Dirs -> 0..MaxLevel]]
    <3>1. level[f] \in [Dirs -> 0..MaxLevel] /\ level[f][d] + 1 \in 0..MaxLevel
      BY <2>1, EventLoopAssumption DEF TypeOK, Arrive
    <3> QED
      BY <2>1, <3>1 DEF TypeOK, Arrive
  <2>3. ready' \in SUBSET (Fds \cup {StopFd})
    BY <2>1 DEF TypeOK, Arrive
  <2> QED
    BY <2>1, <2>2, <2>3 DEF TypeOK, Arrive, infos, batch, scan, history
<1>2. CASE Close(f)
  <2>1. level' \in [Fds -> [Dirs -> 0..MaxLevel]]
    BY <1>2, EventLoopAssumption DEF Close, TypeOK
  <2> QED
    BY <1>2, <2>1, UnwatchType, ForgetType DEF TypeOK, Close, infos, batch, scan
<1>3. CASE \E t \in Threads : stop(t)
  BY <1>3 DEF TypeOK, stop, infos, batch, scan, history
<1> QED
  BY <1>1, <1>2, <1>3

(* Only execute() moves through the batch, and m_eventCount changes only   *)
(* outside of a pass.                                                      *)
LEMMA InSlotStep ==
  ASSUME TypeOK, InSlot, Next
  PROVE  InSlot'
<1>1. CASE ExecuteBegin \/ ExecuteStep \/ DispatchDangling \/ EpollInterrupted \/ EpollFails
  BY <1>1 DEF InSlot, ExecuteStep, ExecuteBegin, DispatchDangling, EpollInterrupted,
       EpollFails, EpollWait, StoreEventCount, Lock, SkipEvent, Dispatch, DispatchEmpty,
       HandlerReturn, EndOfPass, ExecuteReturn, DrainCall, DrainReturn, AtSlot, batch, scan
<1>2. CASE \E t \in Threads : CallerStep(t)
  BY <1>2 DEF InSlot, CallerStep, addEvent, addOutEvent, eraseEvent, eraseOutEvent, stop,
       Add, Erase, batch, scan
<1>3. CASE DrainCall("app") \/ DrainReturn("app")
  BY <1>3 DEF InSlot, DrainCall, DrainReturn, batch, scan
<1>4. CASE \E f \in Fds : Close(f) \/ \E d \in Dirs : Arrive(f, d)
  BY <1>4 DEF InSlot, Close, Arrive, batch, scan
<1> QED
  BY <1>1, <1>2, <1>3, <1>4 DEF Next, Environment

(* The descriptors and directions that an action of the application is     *)
(* about.                                                                  *)
LEMMA TypeStep ==
  ASSUME TypeOK, InSlot, Next
  PROVE  TypeOK'
<1>1. CASE ExecuteBegin \/ ExecuteStep \/ DispatchDangling \/ EpollInterrupted \/ EpollFails
  BY <1>1, ExecuteType
<1>2. CASE \E t \in Threads : CallerStep(t)
  <2>1. PICK t \in Threads : CallerStep(t)
    BY <1>2
  <2>2. CASE \E f \in Fds, d \in Dirs : Add(t, f, d)
    BY <2>2, AddType
  <2>3. CASE \E f \in Fds, d \in Dirs : Erase(t, f, d)
    BY <2>3, EraseType
  <2>4. CASE stop(t)
    BY <2>4 DEF TypeOK, stop, infos, batch, scan, history
  <2> QED
    BY <2>1, <2>2, <2>3, <2>4
    DEF CallerStep, addEvent, addOutEvent, eraseEvent, eraseOutEvent
<1>3. CASE DrainCall("app") \/ DrainReturn("app")
  BY <1>3, DrainType DEF Threads
<1>4. CASE \E f \in Fds : Close(f) \/ \E d \in Dirs : Arrive(f, d)
  BY <1>4, EnvironmentType
<1> QED
  BY <1>1, <1>2, <1>3, <1>4 DEF Next, Environment

LEMMA TypeInit == Init => TypeOK /\ InSlot
<1> SUFFICES ASSUME Init PROVE TypeOK /\ InSlot
  OBVIOUS
<1>1. InSlot
  BY DEF Init, InSlot
<1>2. NoEvent \in Slot /\ NoDrain \in DrainState
  BY DEF NoEvent, Slot, DrainState
<1>3. /\ level \in [Fds -> [Dirs -> 0..MaxLevel]]
      /\ m_eventCount \in -1..MAXEVENTS /\ fetched \in -1..MAXEVENTS
      /\ n \in 1..(MAXEVENTS + 1)
  BY EventLoopAssumption DEF Init
<1>4. eventsLeft \in BOOLEAN
  BY DEF Init
<1> QED
  BY <1>1, <1>2, <1>3, <1>4 DEF Init, TypeOK

LEMMA TypeStutter ==
  ASSUME TypeOK, InSlot, UNCHANGED vars
  PROVE  TypeOK' /\ InSlot'
BY DEF TypeOK, InSlot, vars, kernel, infos, batch, scan, history

(* Every variable keeps the type the code declares for it, and execute()   *)
(* never leaves the array m_events, however callbacks and other threads    *)
(* add and erase events.                                                   *)
THEOREM TypeCorrect == Spec => [](TypeOK /\ InSlot)
<1>1. Init => TypeOK /\ InSlot
  BY TypeInit
<1>2. TypeOK /\ InSlot /\ [Next]_vars => (TypeOK /\ InSlot)'
  BY TypeStep, InSlotStep, TypeStutter
<1> QED
  BY <1>1, <1>2, PTL DEF Spec

-----------------------------------------------------------------------------
(* m_eventInfos and the kernel.                                            *)

(* An entry exists iff it has a callback, and no two entries share an      *)
(* address.                                                                *)
MapOK ==
  /\ \A f \in Fds : node[f] = NullPtr <=> handlers[f] = {}
  /\ \A f, g \in Fds : node[f] = node[g] /\ node[f] # NullPtr => f = g

MapInv == MapOK /\ KernelAgrees

LEMMA AddMap ==
  ASSUME TypeOK, MapInv, NEW t \in Threads, NEW f \in Fds, NEW d \in Dirs, Add(t, f, d)
  PROVE  MapInv'
<1>1. CASE AddNew(t, f, d)
  <2>1. PICK p \in Nodes \ Allocated :
          /\ node[f] = NullPtr
          /\ node' = [node EXCEPT ![f] = p]
          /\ handlers' = [handlers EXCEPT ![f] = {d}]
          /\ Watch(f, {d}, p) \/ UNCHANGED <<kmask, kptr, ready>>
    BY <1>1 DEF AddNew
  <2>2. p # NullPtr /\ \A g \in Fds : node[g] # p
    BY EventLoopAssumption DEF Allocated
  <2>3. MapOK'
    BY <2>1, <2>2 DEF MapInv, MapOK, TypeOK
  <2>4. kmask[f] = {}
    BY <2>1 DEF MapInv, KernelAgrees
  <2>5. KernelAgrees'
    BY <2>1, <2>2, <2>4 DEF MapInv, KernelAgrees, Watch, TypeOK
  <2> QED
    BY <2>3, <2>5 DEF MapInv
<1>2. CASE AddToEntry(t, f, d)
  <2>1. MapOK'
    BY <1>2 DEF AddToEntry, MapInv, MapOK, TypeOK
  <2>2. KernelAgrees'
    BY <1>2 DEF AddToEntry, MapInv, KernelAgrees, Watch, TypeOK
  <2> QED
    BY <2>1, <2>2 DEF MapInv
<1> QED
  BY <1>1, <1>2 DEF Add

LEMMA EraseMap ==
  ASSUME TypeOK, MapInv, NEW t \in Threads, NEW f \in Fds, NEW d \in Dirs, Erase(t, f, d)
  PROVE  MapInv'
<1>1. CASE handlers[f] # {d}
  <2>1. /\ d \in handlers[f] /\ node[f] # NullPtr
        /\ handlers' = [handlers EXCEPT ![f] = handlers[f] \ {d}]
        /\ node' = node
        /\ \/ kmask[f] # {} /\ Watch(f, handlers[f] \ {d}, node[f])
           \/ kmask[f] = {} /\ UNCHANGED <<kmask, kptr, ready>>
    BY <1>1 DEF Erase
  <2>2. handlers[f] \ {d} # {}
    BY <1>1, <2>1
  <2>3. MapOK'
    BY <2>1, <2>2 DEF MapInv, MapOK, TypeOK
  <2>4. KernelAgrees'
    BY <2>1 DEF MapInv, KernelAgrees, Watch, TypeOK
  <2> QED
    BY <2>3, <2>4 DEF MapInv
<1>2. CASE handlers[f] = {d}
  <2>1. /\ handlers' = [handlers EXCEPT ![f] = {}]
        /\ node' = [node EXCEPT ![f] = NullPtr]
        /\ Unwatch(f)
    BY <1>2 DEF Erase
  <2>2. MapOK'
    BY <2>1 DEF MapInv, MapOK, TypeOK
  <2>3. KernelAgrees'
    BY <2>1 DEF MapInv, KernelAgrees, Unwatch, TypeOK
  <2> QED
    BY <2>2, <2>3 DEF MapInv
<1> QED
  BY <1>1, <1>2

(* Every other step leaves m_eventInfos and the watched events alone,      *)
(* except that a closed descriptor is not watched any more.                *)
LEMMA MapStep ==
  ASSUME TypeOK, MapInv, [Next]_vars
  PROVE  MapInv'
<1>1. CASE ExecuteBegin \/ ExecuteStep \/ DispatchDangling \/ EpollInterrupted \/ EpollFails
  <2>1. UNCHANGED <<node, handlers, kmask, kptr>>
    BY <1>1 DEF ExecuteStep, ExecuteBegin, DispatchDangling, EpollInterrupted,
         EpollFails, EpollWait, StoreEventCount, Lock, SkipEvent, Dispatch, DispatchEmpty,
         HandlerReturn, EndOfPass, ExecuteReturn, DrainCall, DrainReturn, infos, kernel
  <2> QED
    BY <2>1 DEF MapInv, MapOK, KernelAgrees
<1>2. CASE \E t \in Threads : CallerStep(t)
  <2>1. PICK t \in Threads : CallerStep(t)
    BY <1>2
  <2>2. CASE \E f \in Fds, d \in Dirs : Add(t, f, d)
    BY <2>2, AddMap
  <2>3. CASE \E f \in Fds, d \in Dirs : Erase(t, f, d)
    BY <2>3, EraseMap
  <2>4. CASE stop(t)
    BY <2>4 DEF MapInv, MapOK, KernelAgrees, stop, infos
  <2> QED
    BY <2>1, <2>2, <2>3, <2>4
    DEF CallerStep, addEvent, addOutEvent, eraseEvent, eraseOutEvent
<1>3. CASE DrainCall("app") \/ DrainReturn("app")
  BY <1>3 DEF MapInv, MapOK, KernelAgrees, DrainCall, DrainReturn, infos, kernel
<1>4. CASE \E f \in Fds : Close(f)
  BY <1>4 DEF MapInv, MapOK, KernelAgrees, Close, Unwatch, infos, TypeOK
<1>5. CASE \E f \in Fds, d \in Dirs : Arrive(f, d)
  BY <1>5 DEF MapInv, MapOK, KernelAgrees, Arrive, infos
<1>6. CASE UNCHANGED vars
  BY <1>6 DEF MapInv, MapOK, KernelAgrees, vars, infos, kernel
<1> QED
  BY <1>1, <1>2, <1>3, <1>4, <1>5, <1>6 DEF Next, Environment

(* The kernel never hands out the address of an entry that was erased from *)
(* m_eventInfos, and watches a descriptor for exactly the directions that  *)
(* have a callback, whichever threads add, replace and erase events and    *)
(* whatever is closed meanwhile.                                           *)
THEOREM KernelAgreesAlways == Spec => []KernelAgrees
<1>1. Init => MapInv
  BY DEF Init, MapInv, MapOK, KernelAgrees
<1>2. TypeOK /\ MapInv /\ [Next]_vars => MapInv'
  BY MapStep
<1>3. MapInv => KernelAgrees
  BY DEF MapInv
<1> QED
  BY <1>1, <1>2, <1>3, TypeCorrect, PTL DEF Spec

-----------------------------------------------------------------------------
(* The batch of signalled events.                                          *)

(* No two of the first k slots carry the same entry.                       *)
SlotsDistinct(k) ==
  \A i, j \in 1..k :
    m_events[i].ptr = m_events[j].ptr /\ m_events[i].ptr # NullPtr => i = j

BatchOK(k) == SlotsLive(k) /\ SlotsDistinct(k)

(* eraseEvent() stops at the first slot that carries the entry, so that    *)
(* BatchLive is inductive only together with SlotsDistinct, and from the   *)
(* moment epoll_wait() has filled the array.                               *)
BatchInv ==
  /\ pc = "store" => BatchOK(fetched)
  /\ Running => BatchOK(m_eventCount)

(* What epoll_wait() reports belongs to entries that exist, one slot each. *)
LEMMA EpollWaitBatch ==
  ASSUME TypeOK, MapInv, EpollWait
  PROVE  BatchInv'
<1>1. PICK k \in 1..MAXEVENTS, b \in [1..MAXEVENTS -> Deliverable \cup {NullPtr}] :
        /\ \A i \in 1..k : b[i] \in Deliverable
        /\ \A i, j \in 1..k : b[i] = b[j] => i = j
        /\ \A i \in 1..k : m_events'[i] = EventOf(b[i])
        /\ fetched' = k
  <2>0. PICK k \in 1..MAXEVENTS : \E c \in [1..k -> Deliverable] :
          /\ \A i, j \in 1..k : c[i] = c[j] => i = j
          /\ m_events' = [i \in 1..MAXEVENTS |-> IF i <= k THEN EventOf(c[i])
                                                           ELSE m_events[i]]
          /\ fetched' = k
    BY DEF EpollWait
  <2>1. PICK c \in [1..k -> Deliverable] :
          /\ \A i, j \in 1..k : c[i] = c[j] => i = j
          /\ m_events' = [i \in 1..MAXEVENTS |-> IF i <= k THEN EventOf(c[i])
                                                           ELSE m_events[i]]
          /\ fetched' = k
    BY <2>0
  <2> DEFINE b == [i \in 1..MAXEVENTS |-> IF i <= k THEN c[i] ELSE NullPtr]
  <2>2. b \in [1..MAXEVENTS -> Deliverable \cup {NullPtr}]
    BY <2>1
  <2>3. \A i \in 1..k : i \in 1..MAXEVENTS /\ b[i] = c[i] /\ m_events'[i] = EventOf(c[i])
    BY <2>1, EventLoopAssumption
  <2> HIDE DEF b
  <2> QED
    BY <2>1, <2>2, <2>3
<1>2. UNCHANGED <<node, handlers>> /\ pc' = "store"
  BY DEF EpollWait, infos
<1>3. ASSUME NEW x \in Deliverable, x # StopFd
      PROVE  /\ x \in Fds /\ kptr[x] = node[x] /\ node[x] # NullPtr
             /\ EventOf(x).ptr = node[x] /\ EventOf(x).events \subseteq handlers[x]
  <2>1. x \in Fds /\ kmask[x] # {} /\ Due(x, kmask[x]) \subseteq kmask[x]
    BY <1>3 DEF Deliverable, Due, TypeOK
  <2> QED
    BY <1>3, <2>1 DEF EventOf, MapInv, KernelAgrees
<1>4. EventOf(StopFd).ptr = NullPtr /\ EventOf(StopFd).events = {}
  BY DEF EventOf, NoEvent
<1>5. \A i \in 1..k : \A d \in m_events'[i].events :
        \E f \in Fds : node[f] = m_events'[i].ptr /\ d \in handlers[f]
  BY <1>1, <1>3, <1>4
<1>6. \A i, j \in 1..k :
        m_events'[i].ptr = m_events'[j].ptr /\ m_events'[i].ptr # NullPtr => i = j
  <2> SUFFICES ASSUME NEW i \in 1..k, NEW j \in 1..k,
                      m_events'[i].ptr = m_events'[j].ptr, m_events'[i].ptr # NullPtr
               PROVE  i = j
    OBVIOUS
  <2>1. b[i] # StopFd /\ b[j] # StopFd
    BY <1>1, <1>4
  <2>2. /\ b[i] \in Fds /\ m_events'[i].ptr = node[b[i]]
        /\ b[j] \in Fds /\ m_events'[j].ptr = node[b[j]]
    BY <1>1, <1>3, <2>1
  <2>3. node[b[i]] # NullPtr /\ node[b[i]] = node[b[j]]
    BY <2>2
  <2>4. b[i] = b[j]
    BY <2>2, <2>3 DEF MapInv, MapOK
  <2> QED
    BY <1>1, <2>4
<1> QED
  BY <1>1, <1>2, <1>5, <1>6 DEF BatchInv, BatchOK, SlotsLive, SlotsDistinct, Running

(* An event that a batch holds stays live when an entry is added to the    *)
(* map or a callback to an entry.                                          *)
LEMMA AddBatch ==
  ASSUME TypeOK, MapInv, BatchInv,
         NEW t \in Threads, NEW f \in Fds, NEW d \in Dirs, Add(t, f, d)
  PROVE  BatchInv'
<1>1. UNCHANGED <<m_events, m_eventCount, fetched, pc>>
  BY DEF Add, batch, scan
<1>2. \A g \in Fds : handlers[g] # {} =>
        node'[g] = node[g] /\ handlers[g] \subseteq handlers'[g]
  BY DEF Add, AddNew, AddToEntry, MapInv, MapOK, TypeOK
<1>3. ASSUME NEW k, BatchOK(k) PROVE BatchOK(k)'
  BY <1>1, <1>2, <1>3 DEF BatchOK, SlotsLive, SlotsDistinct
<1> QED
  BY <1>1, <1>3 DEF BatchInv, Running

(* Turning off the removed events in the one slot that carries the entry   *)
(* leaves no event of the batch without its callback.                      *)
LEMMA EraseBatch ==
  ASSUME TypeOK, MapInv, BatchInv, "store" \notin EraseAt,
         NEW t \in Threads, NEW f \in Fds, NEW d \in Dirs, Erase(t, f, d)
  PROVE  BatchInv'
<1>1. UNCHANGED <<m_eventCount, fetched, pc>>
  BY DEF Erase, scan
<1>2. CASE pc \in {"idle", "wait"}
  BY <1>1, <1>2 DEF BatchInv, Running
<1>3. CASE pc \notin {"idle", "wait"}
  <2>1. pc \in {"lock", "handler"}
    BY <1>3, EventLoopAssumption DEF Erase, MayLock, Threads
  <2>2. BatchOK(m_eventCount)
    BY <2>1 DEF BatchInv, Running
  <2>3. PICK S \in {{d}, {"in", "out"}} :
          /\ TurnOff(node[f], S)
          /\ node[f] # NullPtr
          /\ \A g \in Fds \ {f} : node'[g] = node[g] /\ handlers'[g] = handlers[g]
          /\ \/ S = {"in", "out"}
             \/ node'[f] = node[f] /\ handlers'[f] = handlers[f] \ S
    BY DEF Erase, TypeOK
  <2>4. \A i \in 1..m_eventCount :
          /\ m_events'[i].ptr = m_events[i].ptr
          /\ m_events'[i].events =
               IF m_events[i].ptr = node[f] THEN m_events[i].events \ S ELSE m_events[i].events
    <3> SUFFICES ASSUME NEW i \in 1..m_eventCount
                 PROVE  /\ m_events'[i].ptr = m_events[i].ptr
                        /\ m_events'[i].events =
                             IF m_events[i].ptr = node[f] THEN m_events[i].events \ S
                                                          ELSE m_events[i].events
      OBVIOUS
    <3>1. i \in 1..MAXEVENTS
      BY EventLoopAssumption DEF TypeOK
    <3>2. CASE m_events[i].ptr = node[f]
      <4>1. \A j \in 1..m_eventCount : m_events[j].ptr = node[f] => i = j
        BY <2>2, <2>3, <3>2 DEF BatchOK, SlotsDistinct
      <4>2. m_events'[i] = Clear(m_events[i], S)
        BY <2>3, <3>1, <3>2, <4>1 DEF TurnOff, TypeOK
      <4> QED
        BY <3>2, <4>2 DEF Clear
    <3>3. CASE m_events[i].ptr # node[f]
      BY <2>3, <3>1, <3>3 DEF TurnOff
    <3> QED
      BY <3>2, <3>3
  <2>5. \A i \in 1..m_eventCount : m_events[i].events \subseteq {"in", "out"}
    <3>1. \A i \in 1..m_eventCount : m_events[i] \in Slot
      BY EventLoopAssumption DEF TypeOK
    <3> QED
      BY <3>1, EventLoopAssumption DEF Slot
  <2>6. \A i \in 1..m_eventCount : \A e \in m_events'[i].events :
          \E g \in Fds : node'[g] = m_events'[i].ptr /\ e \in handlers'[g]
    <3> SUFFICES ASSUME NEW i \in 1..m_eventCount, NEW e \in m_events'[i].events
                 PROVE  \E g \in Fds : node'[g] = m_events'[i].ptr /\ e \in handlers'[g]
      OBVIOUS
    <3>1. e \in m_events[i].events
      BY <2>4
    <3>2. PICK g \in Fds : node[g] = m_events[i].ptr /\ e \in handlers[g]
      BY <2>2, <3>1 DEF BatchOK, SlotsLive
    <3>3. CASE g = f
      BY <2>3, <2>4, <2>5, <3>2, <3>3
    <3>4. CASE g # f
      BY <2>3, <2>4, <3>2, <3>4
    <3> QED
      BY <3>3, <3>4
  <2>7. BatchOK(m_eventCount)'
    BY <1>1, <2>2, <2>4, <2>6 DEF BatchOK, SlotsLive, SlotsDistinct
  <2> QED
    BY <1>1, <2>1, <2>7 DEF BatchInv
<1> QED
  BY <1>2, <1>3

LEMMA BatchStep ==
  ASSUME TypeOK, InSlot, MapInv, BatchInv, "store" \notin EraseAt, [Next]_vars
  PROVE  BatchInv'
<1> DEFINE Keeps == UNCHANGED <<node, handlers, m_events, m_eventCount, fetched>>
<1>1. ASSUME Keeps, Running' => Running, pc' = "store" => pc = "store"
      PROVE  BatchInv'
  BY <1>1 DEF BatchInv, BatchOK, SlotsLive, SlotsDistinct
<1>2. CASE EpollWait
  BY <1>2, EpollWaitBatch
<1>3. CASE StoreEventCount
  BY <1>3 DEF StoreEventCount, infos, BatchInv, BatchOK, SlotsLive, SlotsDistinct, Running
<1>4. CASE EpollInterrupted
  <2>1. 1..fetched' = {} /\ pc' = "store"
    BY <1>4 DEF EpollInterrupted
  <2> QED
    BY <2>1 DEF BatchInv, BatchOK, SlotsLive, SlotsDistinct, Running
<1>5. CASE HandlerReturn
  <2>1. /\ UNCHANGED <<node, handlers, m_eventCount>> /\ pc' = "scan" /\ Running
        /\ n \in 1..m_eventCount /\ n \in 1..MAXEVENTS
    BY <1>5, EventLoopAssumption DEF HandlerReturn, infos, Running, InSlot, TypeOK
  <2>2. \A i \in 1..m_eventCount :
          /\ m_events'[i].ptr = m_events[i].ptr
          /\ m_events'[i].events \subseteq m_events[i].events
    <3>1. m_events' = m_events \/ m_events' = [m_events EXCEPT ![n] = Clear(m_events[n], {dir})]
      BY <1>5 DEF HandlerReturn
    <3>2. \A i \in 1..m_eventCount : i \in 1..MAXEVENTS
      BY EventLoopAssumption DEF TypeOK
    <3>3. DOMAIN m_events = 1..MAXEVENTS
      BY DEF TypeOK
    <3>4. \A i \in 1..MAXEVENTS : m_events'[i] \in {m_events[i], Clear(m_events[i], {dir})}
      BY <3>1, <3>3
    <3> QED
      BY <3>2, <3>4 DEF Clear
  <2> QED
    BY <2>1, <2>2 DEF BatchInv, BatchOK, SlotsLive, SlotsDistinct, Running
<1>6. CASE ExecuteBegin \/ Lock \/ SkipEvent \/ Dispatch \/ DispatchEmpty
           \/ DispatchDangling \/ EndOfPass \/ ExecuteReturn
  BY <1>1, <1>6 DEF ExecuteBegin, Lock, SkipEvent, Dispatch, DispatchEmpty,
       DispatchDangling, EndOfPass, ExecuteReturn, AtSlot, Running, infos, batch
<1>7. CASE EpollFails
  BY <1>7 DEF EpollFails, BatchInv, Running
<1>8. CASE \E t \in Threads : CallerStep(t)
  <2>1. PICK t \in Threads : CallerStep(t)
    BY <1>8
  <2>2. CASE \E f \in Fds, d \in Dirs : Add(t, f, d)
    BY <2>2, AddBatch
  <2>3. CASE \E f \in Fds, d \in Dirs : Erase(t, f, d)
    BY <2>3, EraseBatch
  <2>4. CASE stop(t)
    BY <1>1, <2>4 DEF stop, infos, batch, scan, Running
  <2> QED
    BY <2>1, <2>2, <2>3, <2>4
    DEF CallerStep, addEvent, addOutEvent, eraseEvent, eraseOutEvent
<1>9. CASE \E t \in Threads : DrainCall(t) \/ DrainReturn(t)
  BY <1>1, <1>9 DEF DrainCall, DrainReturn, infos, batch, scan, Running
<1>10. CASE \E f \in Fds : Close(f) \/ \E d \in Dirs : Arrive(f, d)
  BY <1>1, <1>10 DEF Close, Arrive, infos, batch, scan, Running
<1>11. CASE UNCHANGED vars
  BY <1>1, <1>11 DEF vars, infos, batch, scan, Running
<1> QED
  BY <1>2, <1>3, <1>4, <1>5, <1>6, <1>7, <1>8, <1>9, <1>10, <1>11
  DEF Next, Environment, ExecuteStep, Threads

LEMMA BatchInvariant ==
  ASSUME "store" \notin EraseAt
  PROVE  Spec => [](MapInv /\ BatchInv)
<1>1. Init => MapInv /\ BatchInv
  BY DEF Init, MapInv, MapOK, KernelAgrees, BatchInv, Running
<1>2. TypeOK /\ InSlot /\ MapInv /\ BatchInv /\ [Next]_vars => (MapInv /\ BatchInv)'
  BY MapStep, BatchStep
<1> QED
  BY <1>1, <1>2, TypeCorrect, PTL DEF Spec

(* An event in the batch always belongs to an entry that still exists and  *)
(* still has the callback, whatever callbacks and other threads erase, add *)
(* or replace, at any time but one: no other thread erases an event between*)
(* the return of epoll_wait() and the assignment of m_eventCount.          *)
THEOREM BatchLiveAlways ==
  ASSUME "store" \notin EraseAt
  PROVE  Spec => []BatchLive
<1>1. BatchInv => BatchLive
  BY DEF BatchInv, BatchOK, BatchLive
<1> QED
  BY <1>1, BatchInvariant, PTL

(* Under the same condition execute() never follows a dangling pointer,    *)
(* so that nothing of what is shown here ends in undefined behaviour.      *)
THEOREM NeverDangling ==
  ASSUME "store" \notin EraseAt
  PROVE  Spec => [](pc # "undefined")
<1> DEFINE Defined == pc # "undefined"
<1>1. Init => Defined
  BY DEF Init
<1>2. TypeOK /\ InSlot /\ BatchInv /\ Defined /\ [Next]_vars => Defined'
  <2> SUFFICES ASSUME TypeOK, InSlot, BatchInv, pc # "undefined", [Next]_vars
               PROVE  pc' # "undefined"
    OBVIOUS
  <2>1. CASE DispatchDangling
    <3>1. n \in 1..m_eventCount /\ dir \in m_events[n].events /\ Running
      BY <2>1, EventLoopAssumption
      DEF DispatchDangling, AtSlot, InSlot, Running, TypeOK
    <3>2. \E f \in Fds : node[f] = m_events[n].ptr
      BY <3>1 DEF BatchInv, BatchOK, SlotsLive
    <3> QED
      BY <2>1, <3>2 DEF DispatchDangling, Allocated
  <2>2. CASE ExecuteBegin \/ EpollWait \/ EpollInterrupted \/ EpollFails \/ StoreEventCount
             \/ Lock \/ SkipEvent \/ Dispatch \/ DispatchEmpty \/ HandlerReturn
             \/ EndOfPass \/ ExecuteReturn
    BY <2>2 DEF ExecuteBegin, EpollWait, EpollInterrupted, EpollFails, StoreEventCount,
       Lock, SkipEvent, Dispatch, DispatchEmpty, HandlerReturn, EndOfPass, ExecuteReturn
  <2>3. CASE \E t \in Threads : CallerStep(t) \/ DrainCall(t) \/ DrainReturn(t)
    BY <2>3 DEF CallerStep, addEvent, addOutEvent, eraseEvent, eraseOutEvent,
       Add, Erase, stop, DrainCall, DrainReturn, scan
  <2>4. CASE \E f \in Fds : Close(f) \/ \E d \in Dirs : Arrive(f, d)
    BY <2>4 DEF Close, Arrive, scan
  <2>5. CASE UNCHANGED vars
    BY <2>5 DEF vars, scan
  <2> QED
    BY <2>1, <2>2, <2>3, <2>4, <2>5 DEF Next, Environment, ExecuteStep, Threads
<1> HIDE DEF Defined
<1>3. Spec => []Defined
  BY <1>1, <1>2, BatchInvariant, TypeCorrect, PTL DEF Spec
<1> QED
  BY <1>3 DEF Defined

-----------------------------------------------------------------------------
(* Wake-ups.                                                               *)

(* Work at (f, d) needs no slot of the batch: it is going to be reported,  *)
(* or its loss is excused.                                                 *)
Excused(f, d) ==
  d \in kmask[f] /\ level[f][d] > 0 =>
    f \in ready \/ <<f, d>> \in lostByStop \cup lostByThrow

(* The pass over the batch has left direction d of slot i behind.          *)
Passed(i, d) == i < n \/ (i = n /\ dir = "out" /\ d = "in")

(* A pass in which no callback has reported more work needs none of the    *)
(* events that are still set in the slots behind it.                       *)
PassInv ==
  pc \in {"scan", "handler"} /\ ~eventsLeft =>
    \A i \in 1..m_eventCount : \A d \in m_events[i].events : \A f \in Fds :
      m_events[i].ptr = node[f] /\ Passed(i, d) => Excused(f, d)

(* While a callback runs, its event is set in the slot only if the slot is *)
(* still that of cur; if it is not going to report more work, what is left *)
(* at cur needs no slot.                                                   *)
CallInv ==
  pc = "handler" =>
    /\ cur \in Fds /\ dir \in Dirs
    /\ dir \in m_events[n].events => node[cur] = m_events[n].ptr /\ node[cur] # NullPtr
    /\ result # "more" => Excused(cur, dir)

DistinctInv ==
  /\ pc = "store" => SlotsDistinct(fetched)
  /\ Running => SlotsDistinct(m_eventCount)

WakeInv == NoLostWakeup /\ DistinctInv /\ PassInv /\ CallInv

(* addEvent(), eraseEvent() and close() make epoll look at the descriptor  *)
(* afresh, or watch it no longer, and leave the other descriptors alone.   *)
LEMMA WatchPolls ==
  ASSUME TypeOK, NEW f \in Fds, NEW mask \in SUBSET Dirs, NEW p, Watch(f, mask, p),
         UNCHANGED level
  PROVE  /\ \A e \in Dirs : Excused(f, e)'
         /\ \A g \in Fds \ {f} : kmask'[g] = kmask[g] /\ (g \in ready <=> g \in ready')
BY DEF TypeOK, Watch, Due, Excused

LEMMA UnwatchPolls ==
  ASSUME TypeOK, NEW f \in Fds, Unwatch(f)
  PROVE  /\ \A e \in Dirs : Excused(f, e)'
         /\ \A g \in Fds \ {f} : kmask'[g] = kmask[g] /\ (g \in ready <=> g \in ready')
BY DEF TypeOK, Unwatch, Excused

LEMMA UnwatchedExcused ==
  ASSUME NEW f \in Fds, kmask[f] = {}, UNCHANGED kmask
  PROVE  \A e \in Dirs : Excused(f, e)'
BY DEF Excused

LEMMA ForgetOthers ==
  ASSUME NEW f \in Fds, Forget(f), NEW g \in Fds \ {f}, NEW e,
         <<g, e>> \in lostByStop \cup lostByThrow
  PROVE  <<g, e>> \in lostByStop' \cup lostByThrow'
BY DEF Forget

LEMMA AddPolls ==
  ASSUME TypeOK, MapInv, NEW t \in Threads, NEW f \in Fds, NEW d \in Dirs, Add(t, f, d)
  PROVE  /\ \A e \in Dirs : Excused(f, e)'
         /\ \A g \in Fds \ {f} : \A e \in Dirs : Excused(g, e) => Excused(g, e)'
         /\ \A g \in Fds \ {f} : kmask'[g] = kmask[g] /\ node'[g] = node[g]
<1>1. UNCHANGED level /\ Forget(f)
  BY DEF Add
<1>2. \/ \E mask \in SUBSET Dirs, p \in Nodes : Watch(f, mask, p)
      \/ kmask[f] = {} /\ UNCHANGED <<kmask, ready>>
  <2>1. handlers[f] \cup {d} \in SUBSET Dirs /\ {d} \in SUBSET Dirs
    BY DEF TypeOK
  <2>2. CASE AddNew(t, f, d)
    BY <2>1, <2>2 DEF AddNew, MapInv, KernelAgrees
  <2>3. CASE AddToEntry(t, f, d)
    <3>1. node[f] \in Nodes
      BY <2>3 DEF AddToEntry, TypeOK
    <3> QED
      BY <2>1, <2>3, <3>1 DEF AddToEntry
  <2> QED
    BY <2>2, <2>3 DEF Add
<1>3. \A g \in Fds \ {f} : node'[g] = node[g]
  BY DEF Add, AddNew, AddToEntry, TypeOK
<1>4. /\ \A e \in Dirs : Excused(f, e)'
      /\ \A g \in Fds \ {f} : kmask'[g] = kmask[g] /\ (g \in ready <=> g \in ready')
  <2>1. CASE \E mask \in SUBSET Dirs, p \in Nodes : Watch(f, mask, p)
    BY <1>1, <2>1, WatchPolls
  <2>2. CASE kmask[f] = {} /\ UNCHANGED <<kmask, ready>>
    BY <2>2, UnwatchedExcused
  <2> QED
    BY <1>2, <2>1, <2>2
<1> QED
  BY <1>1, <1>3, <1>4, ForgetOthers DEF Excused

LEMMA ErasePolls ==
  ASSUME TypeOK, MapInv, NEW t \in Threads, NEW f \in Fds, NEW d \in Dirs, Erase(t, f, d)
  PROVE  /\ \A e \in Dirs : Excused(f, e)'
         /\ \A g \in Fds \ {f} : \A e \in Dirs : Excused(g, e) => Excused(g, e)'
         /\ \A g \in Fds \ {f} : kmask'[g] = kmask[g] /\ node'[g] = node[g]
<1>1. UNCHANGED level /\ Forget(f)
  BY DEF Erase
<1>2. \/ \E mask \in SUBSET Dirs, p \in Nodes \cup {NullPtr} : Watch(f, mask, p)
      \/ Unwatch(f)
      \/ kmask[f] = {} /\ UNCHANGED <<kmask, ready>>
  <2>1. handlers[f] \ {d} \in SUBSET Dirs /\ node[f] \in Nodes \cup {NullPtr}
    BY DEF TypeOK
  <2> QED
    BY <2>1 DEF Erase
<1>3. \A g \in Fds \ {f} : node'[g] = node[g]
  BY DEF Erase, TypeOK
<1>4. /\ \A e \in Dirs : Excused(f, e)'
      /\ \A g \in Fds \ {f} : kmask'[g] = kmask[g] /\ (g \in ready <=> g \in ready')
  <2>1. CASE \E mask \in SUBSET Dirs, p \in Nodes \cup {NullPtr} : Watch(f, mask, p)
    BY <1>1, <2>1, WatchPolls
  <2>2. CASE Unwatch(f)
    BY <2>2, UnwatchPolls
  <2>3. CASE kmask[f] = {} /\ UNCHANGED <<kmask, ready>>
    BY <2>3, UnwatchedExcused
  <2> QED
    BY <1>2, <2>1, <2>2, <2>3
<1> QED
  BY <1>1, <1>3, <1>4, ForgetOthers DEF Excused

(* A callback never adds work.                                             *)
LEMMA CallbackTakes ==
  ASSUME TypeOK, NEW g \in Fds, NEW e \in Dirs, NEW r, Callback(g, e, r),
         NEW f \in Fds, NEW d \in Dirs
  PROVE  level'[f][d] <= level[f][d] /\ level[f][d] \in Nat /\ level'[f][d] \in Nat
<1>1. level[g][e] \in Nat /\ level[f][d] \in Nat
  BY EventLoopAssumption DEF TypeOK
<1>2. PICK k \in 0..level[g][e] : level' = [level EXCEPT ![g][e] = k]
  BY <1>1 DEF Callback
<1>3. level'[f][d] = IF f = g /\ d = e THEN k ELSE level[f][d]
  BY <1>2 DEF TypeOK
<1> QED
  BY <1>1, <1>2, <1>3

(* Work that needs no slot comes to need one by no step but epoll_wait(),  *)
(* which moves the ready list into the batch, and the call of its own      *)
(* callback.                                                               *)
LEMMA ExcusedKept ==
  ASSUME TypeOK, MapInv, [Next]_vars, ~EpollWait,
         NEW f \in Fds, NEW d \in Dirs, Excused(f, d),
         Dispatch => f # cur' \/ d # dir
  PROVE  Excused(f, d)'
<1>1. CASE Dispatch
  <2>1. PICK g \in Fds : /\ cur' = g
                         /\ \E r \in {"more", "done", "throw"} :
                              /\ Callback(g, dir, r)
                              /\ lostByThrow' \in {lostByThrow \cup {<<g, dir>>},
                                                   lostByThrow \ {<<g, dir>>}}
                              /\ lostByStop' = lostByStop \ {<<g, dir>>}
    BY <1>1 DEF Dispatch
  <2>2. g # f \/ dir # d
    BY <1>1, <2>1
  <2>3. level'[f][d] = level[f][d]
    BY <2>1, <2>2 DEF Callback, TypeOK
  <2>4. UNCHANGED <<kmask, ready>>
    BY <1>1 DEF Dispatch
  <2> QED
    BY <2>1, <2>2, <2>3, <2>4 DEF Excused
<1>2. CASE \E t \in Threads : CallerStep(t)
  <2>1. PICK t \in Threads : CallerStep(t)
    BY <1>2
  <2>2. CASE \E g \in Fds, e \in Dirs : Add(t, g, e)
    BY <2>2, AddPolls
  <2>3. CASE \E g \in Fds, e \in Dirs : Erase(t, g, e)
    BY <2>3, ErasePolls
  <2>4. CASE stop(t)
    BY <2>4 DEF Excused, stop, history
  <2> QED
    BY <2>1, <2>2, <2>3, <2>4
    DEF CallerStep, addEvent, addOutEvent, eraseEvent, eraseOutEvent
<1>3. CASE \E t \in Threads : DrainCall(t)
  <2>1. PICK t \in Threads, r \in {"more", "done", "throw"} :
          /\ drain[t].st = "call"
          /\ Callback(drain[t].fd, drain[t].dir, r)
    BY <1>3 DEF DrainCall
  <2>2. drain[t].fd \in Fds /\ drain[t].dir \in Dirs
    BY <2>1 DEF TypeOK, DrainState, NoDrain, Draining
  <2>3. level'[f][d] <= level[f][d] /\ level[f][d] \in Nat /\ level'[f][d] \in Nat
    BY <2>1, <2>2, CallbackTakes
  <2>4. UNCHANGED <<kmask, ready, lostByStop, lostByThrow>>
    BY <1>3 DEF DrainCall, history
  <2> QED
    BY <2>3, <2>4 DEF Excused
<1>4. CASE \E g \in Fds : Close(g)
  <2>1. PICK g \in Fds : Close(g)
    BY <1>4
  <2>2. /\ \A e \in Dirs : Excused(g, e)'
        /\ \A h \in Fds \ {g} : kmask'[h] = kmask[h] /\ (h \in ready <=> h \in ready')
    BY <2>1, UnwatchPolls DEF Close
  <2>3. Forget(g) /\ \A h \in Fds \ {g} : level'[h] = level[h]
    BY <2>1 DEF Close, TypeOK
  <2> QED
    BY <2>2, <2>3, ForgetOthers DEF Excused
<1>5. CASE \E g \in Fds, e \in Dirs : Arrive(g, e)
  BY <1>5 DEF Arrive, Excused, TypeOK, history
<1>6. CASE ExecuteReturn
  BY <1>6 DEF ExecuteReturn, Excused, kernel
<1>7. CASE UNCHANGED <<kmask, level, ready, lostByStop, lostByThrow>>
  BY <1>7 DEF Excused
<1>8. CASE \/ ExecuteBegin \/ DispatchDangling \/ EpollInterrupted \/ EpollFails
           \/ StoreEventCount \/ Lock \/ SkipEvent \/ DispatchEmpty
           \/ HandlerReturn \/ EndOfPass \/ UNCHANGED vars
           \/ \E t \in Threads : DrainReturn(t)
  BY <1>7, <1>8 DEF ExecuteBegin, DispatchDangling, EpollInterrupted, EpollFails,
       StoreEventCount, Lock, SkipEvent, DispatchEmpty, HandlerReturn, EndOfPass,
       DrainReturn, vars, kernel, history
<1> QED
  BY <1>1, <1>2, <1>3, <1>4, <1>5, <1>6, <1>8
  DEF Next, Environment, ExecuteStep, Threads

-----------------------------------------------------------------------------
(* No step but epoll_wait() changes the pointer in a slot, and none sets   *)
(* an event.                                                               *)
LEMMA SlotsKept ==
  ASSUME TypeOK, [Next]_vars, ~EpollWait
  PROVE  \A i \in 1..MAXEVENTS : /\ m_events'[i].ptr = m_events[i].ptr
                                 /\ m_events'[i].events \subseteq m_events[i].events
<1>1. CASE HandlerReturn
  <2>1. DOMAIN m_events = 1..MAXEVENTS
    BY DEF TypeOK
  <2>2. \A i \in 1..MAXEVENTS : m_events'[i] \in {m_events[i], Clear(m_events[i], {dir})}
    BY <1>1, <2>1 DEF HandlerReturn
  <2> QED
    BY <2>2 DEF Clear
<1>2. CASE \E t \in Threads, f \in Fds, d \in Dirs : Erase(t, f, d)
  <2>1. PICK p, S : TurnOff(p, S)
    BY <1>2 DEF Erase
  <2>2. \A i \in 1..MAXEVENTS : m_events'[i] \in {m_events[i], Clear(m_events[i], S)}
    BY <2>1 DEF TurnOff
  <2> QED
    BY <2>2 DEF Clear
<1>3. CASE UNCHANGED m_events
  BY <1>3
<1>4. CASE \E t \in Threads : CallerStep(t)
  BY <1>2, <1>3, <1>4 DEF CallerStep, addEvent, addOutEvent, eraseEvent, eraseOutEvent,
       stop, Add, batch
<1>5. CASE ~HandlerReturn /\ ~(\E t \in Threads : CallerStep(t))
  BY <1>3, <1>5 DEF Next, Environment, ExecuteStep, ExecuteBegin, DispatchDangling,
       EpollInterrupted, EpollFails, StoreEventCount, Lock, SkipEvent, Dispatch,
       DispatchEmpty, EndOfPass, ExecuteReturn, DrainCall, DrainReturn, Arrive, Close,
       vars, batch
<1> QED
  BY <1>1, <1>4, <1>5

LEMMA DistinctStep ==
  ASSUME TypeOK, MapInv, DistinctInv, [Next]_vars
  PROVE  DistinctInv'
<1>1. CASE EpollWait
  BY <1>1, EpollWaitBatch DEF BatchInv, BatchOK, DistinctInv
<1>2. CASE ~EpollWait
  <2>1. ASSUME NEW k \in -1..MAXEVENTS, SlotsDistinct(k)
        PROVE  \A i, j \in 1..k :
                 m_events'[i].ptr = m_events'[j].ptr /\ m_events'[i].ptr # NullPtr => i = j
    <3>1. \A i \in 1..k : i \in 1..MAXEVENTS
      BY EventLoopAssumption
    <3> QED
      BY <1>2, <2>1, <3>1, SlotsKept DEF SlotsDistinct
  <2>2. \/ UNCHANGED <<pc, m_eventCount, fetched>>
        \/ StoreEventCount
        \/ EpollInterrupted
        \/ pc' \notin {"store", "lock", "scan", "handler"}
        \/ Running /\ pc' # "store" /\ UNCHANGED m_eventCount
    BY <1>2 DEF Next, Environment, ExecuteStep, ExecuteBegin, DispatchDangling,
         EpollFails, Lock, SkipEvent, Dispatch, DispatchEmpty, HandlerReturn, EndOfPass,
         ExecuteReturn, DrainCall, DrainReturn, Arrive, Close, CallerStep, addEvent,
         addOutEvent, eraseEvent, eraseOutEvent, stop, Add, Erase, AtSlot, Running,
         vars, batch, scan
  <2>3. m_eventCount \in -1..MAXEVENTS /\ fetched \in -1..MAXEVENTS
    BY DEF TypeOK
  <2>4. CASE StoreEventCount
    BY <2>1, <2>3, <2>4 DEF StoreEventCount, DistinctInv, Running, SlotsDistinct
  <2>5. CASE EpollInterrupted
    <3>1. 1..fetched' = {} /\ pc' = "store"
      BY <2>5 DEF EpollInterrupted
    <3> QED
      BY <3>1 DEF DistinctInv, SlotsDistinct, Running
  <2> QED
    BY <2>1, <2>2, <2>3, <2>4, <2>5 DEF DistinctInv, Running, SlotsDistinct
<1> QED
  BY <1>1, <1>2

(* Erasing an entry turns its events off in the slot of the callback that  *)
(* is running, and leaves the slots of other entries as they are.          *)
LEMMA EraseSlots ==
  ASSUME TypeOK, MapInv, NEW t \in Threads, NEW f \in Fds, NEW d \in Dirs, Erase(t, f, d)
  PROVE  /\ node[f] # NullPtr
         /\ \A i \in 1..MAXEVENTS : m_events[i].ptr # node[f] => m_events'[i] = m_events[i]
         /\ \A i \in 1..m_eventCount :
              SlotsDistinct(m_eventCount) /\ m_events[i].ptr = node[f] /\ node'[f] # node[f] =>
                m_events'[i].events = {}
<1>1. PICK S : /\ TurnOff(node[f], S)
               /\ node[f] # NullPtr
               /\ node'[f] # node[f] => S = {"in", "out"}
  BY DEF Erase, TypeOK
<1>2. \A i \in 1..MAXEVENTS : m_events[i].ptr # node[f] => m_events'[i] = m_events[i]
  BY <1>1 DEF TurnOff
<1>3. ASSUME NEW i \in 1..m_eventCount, SlotsDistinct(m_eventCount),
             m_events[i].ptr = node[f], node'[f] # node[f]
      PROVE  m_events'[i].events = {}
  <2>1. i \in 1..MAXEVENTS
    BY EventLoopAssumption DEF TypeOK
  <2>2. \A j \in 1..m_eventCount : m_events[j].ptr = node[f] => i = j
    BY <1>1, <1>3 DEF SlotsDistinct
  <2>3. m_events'[i] = Clear(m_events[i], S) /\ S = {"in", "out"}
    <3>1. S = {"in", "out"}
      BY <1>1, <1>3
    <3>2. m_events'[i] = Clear(m_events[i], S)
      BY <1>1, <1>3, <2>1, <2>2 DEF TurnOff, TypeOK
    <3> QED
      BY <3>1, <3>2
  <2>4. m_events[i].events \subseteq {"in", "out"}
    BY <2>1, EventLoopAssumption DEF TypeOK, Slot
  <2> QED
    BY <2>3, <2>4 DEF Clear
<1> QED
  BY <1>1, <1>2, <1>3

LEMMA CallStep ==
  ASSUME TypeOK, InSlot, MapInv, DistinctInv, CallInv, [Next]_vars
  PROVE  CallInv'
<1> SUFFICES ASSUME pc' = "handler"
             PROVE  CallInv'
  BY DEF CallInv
<1>1. CASE Dispatch
  <2>1. PICK f \in Fds :
          /\ node[f] = m_events[n].ptr /\ m_events[n].ptr # NullPtr
          /\ dir \in handlers[f] /\ cur' = f
          /\ \E r \in {"more", "done", "throw"} :
               /\ Callback(f, dir, r) /\ result' = r
               /\ r = "throw" => lostByThrow' = lostByThrow \cup {<<f, dir>>}
    BY <1>1 DEF Dispatch
  <2>2. dir \in Dirs /\ UNCHANGED <<node, m_events, n, dir>>
    BY <1>1, <2>1 DEF Dispatch, TypeOK, infos, batch
  <2>3. result' = "done" => level'[f][dir] = 0
    BY <2>1, <2>2 DEF Callback, TypeOK
  <2>4. result' # "more" => Excused(f, dir)'
    BY <2>1, <2>2, <2>3 DEF Excused
  <2> QED
    BY <2>1, <2>2, <2>4 DEF CallInv
<1>2. CASE ~Dispatch
  <2>1. pc = "handler" /\ UNCHANGED <<cur, dir, n, result, m_eventCount>> /\ ~EpollWait
    BY <1>2 DEF Next, Environment, ExecuteStep, ExecuteBegin, DispatchDangling,
         EpollWait, EpollInterrupted, EpollFails, StoreEventCount, Lock, SkipEvent,
         DispatchEmpty, HandlerReturn, EndOfPass, ExecuteReturn, DrainCall, DrainReturn,
         Arrive, Close, CallerStep, addEvent, addOutEvent, eraseEvent, eraseOutEvent,
         stop, Add, Erase, AtSlot, vars, batch, scan
  <2>2. cur \in Fds /\ dir \in Dirs /\ n \in 1..m_eventCount /\ n \in 1..MAXEVENTS
    BY <2>1, EventLoopAssumption DEF CallInv, InSlot, TypeOK
  <2>3. result' # "more" => Excused(cur, dir)'
    BY <1>2, <2>1, <2>2, ExcusedKept DEF CallInv
  <2>4. ASSUME dir \in m_events'[n].events
        PROVE  node'[cur] = m_events'[n].ptr /\ node'[cur] # NullPtr
    <3>1. /\ m_events'[n].ptr = m_events[n].ptr
          /\ node[cur] = m_events[n].ptr /\ node[cur] # NullPtr
      BY <2>1, <2>2, <2>4, SlotsKept DEF CallInv
    <3>2. CASE \E t \in Threads, f \in Fds, d \in Dirs : Erase(t, f, d)
      <4>1. PICK t \in Threads, f \in Fds, d \in Dirs : Erase(t, f, d)
        BY <3>2
      <4>2. CASE f = cur
        <5>1. SlotsDistinct(m_eventCount)
          BY <2>1 DEF DistinctInv, Running
        <5>2. node'[cur] = node[cur]
          BY <2>2, <2>4, <3>1, <4>1, <4>2, <5>1, EraseSlots
        <5> QED
          BY <3>1, <5>2
      <4>3. CASE f # cur
        BY <2>2, <3>1, <4>1, <4>3, ErasePolls
      <4> QED
        BY <4>2, <4>3
    <3>3. CASE \E t \in Threads, f \in Fds, d \in Dirs : Add(t, f, d)
      BY <2>2, <3>1, <3>3 DEF Add, AddNew, AddToEntry, TypeOK
    <3>4. CASE UNCHANGED node
      BY <3>1, <3>4
    <3> QED
      BY <2>1, <3>2, <3>3, <3>4
      DEF Next, Environment, ExecuteStep, ExecuteBegin, DispatchDangling,
         EpollInterrupted, EpollFails, StoreEventCount, Lock, SkipEvent, Dispatch,
         DispatchEmpty, HandlerReturn, EndOfPass, ExecuteReturn, DrainCall, DrainReturn,
         Arrive, Close, CallerStep, addEvent, addOutEvent, eraseEvent, eraseOutEvent,
         stop, vars, infos
  <2> QED
    BY <2>1, <2>2, <2>3, <2>4 DEF CallInv
<1> QED
  BY <1>1, <1>2

(* A step forward leaves nothing behind but the event it was at.           *)
LEMMA AdvancePasses ==
  ASSUME TypeOK, Advance, NEW i \in Int, NEW d \in {"in", "out"}, Passed(i, d)'
  PROVE  Passed(i, d) \/ (i = n /\ d = dir)
BY DEF TypeOK, Advance, Passed

LEMMA FirstPasses ==
  ASSUME n' = 1, dir' = "in", NEW i \in Nat \ {0}, NEW d
  PROVE  ~Passed(i, d)'
BY DEF Passed

(* Two descriptors with the same slot are the same, or not watched.        *)
LEMMA SameEntry ==
  ASSUME MapInv, NEW f \in Fds, NEW g \in Fds, node[f] = node[g], NEW d
  PROVE  f = g \/ Excused(f, d)
<1>1. CASE node[f] = NullPtr
  BY <1>1 DEF MapInv, KernelAgrees, Excused
<1>2. CASE node[f] # NullPtr
  BY <1>2 DEF MapInv, MapOK
<1> QED
  BY <1>1, <1>2

LEMMA PassStep ==
  ASSUME TypeOK, InSlot, MapInv, DistinctInv, CallInv, PassInv, [Next]_vars
  PROVE  PassInv'
<1> SUFFICES ASSUME pc' \in {"scan", "handler"}, ~eventsLeft',
                    NEW i \in 1..m_eventCount', NEW d \in m_events'[i].events, NEW f \in Fds,
                    m_events'[i].ptr = node'[f], Passed(i, d)'
             PROVE  Excused(f, d)'
  BY DEF PassInv
<1>0. /\ ~EpollWait /\ UNCHANGED m_eventCount
      /\ i \in 1..m_eventCount /\ i \in 1..MAXEVENTS
  <2>1. ~EpollWait /\ UNCHANGED m_eventCount
    BY DEF Next, Environment, ExecuteStep, ExecuteBegin, DispatchDangling,
         EpollWait, EpollInterrupted, EpollFails, StoreEventCount, Lock, SkipEvent, Dispatch,
         DispatchEmpty, HandlerReturn, EndOfPass, ExecuteReturn, DrainCall, DrainReturn,
         Arrive, Close, CallerStep, addEvent, addOutEvent, eraseEvent, eraseOutEvent,
         stop, Add, Erase, vars, batch, scan
  <2> QED
    BY <2>1, EventLoopAssumption DEF TypeOK
<1>1. m_events'[i].ptr = m_events[i].ptr /\ d \in m_events[i].events
      /\ d \in Dirs /\ d \in {"in", "out"}
  BY <1>0, SlotsKept, EventLoopAssumption DEF TypeOK, Slot
<1>2. CASE Lock \/ EndOfPass
  BY <1>0, <1>2, FirstPasses DEF Lock, EndOfPass
<1>3. CASE SkipEvent \/ DispatchEmpty
  <2>1. UNCHANGED <<node, eventsLeft, kmask, level, ready, lostByStop, lostByThrow>>
        /\ Advance /\ pc = "scan"
    BY <1>3 DEF SkipEvent, DispatchEmpty, AtSlot, infos, kernel, history
  <2>2. CASE Passed(i, d)
    BY <1>0, <1>1, <2>1, <2>2 DEF PassInv, Excused
  <2>3. CASE i = n /\ d = dir
    <3>1. PICK g \in Fds : node[g] = m_events[n].ptr /\ dir \notin handlers[g]
      BY <1>1, <1>3, <2>3 DEF SkipEvent, DispatchEmpty
    <3>2. Excused(g, d)
      BY <2>3, <3>1 DEF Excused, MapInv, KernelAgrees
    <3> QED
      BY <1>1, <2>1, <2>3, <3>1, <3>2, SameEntry DEF Excused
  <2> QED
    BY <1>0, <1>1, <2>1, <2>2, <2>3, AdvancePasses
<1>4. CASE HandlerReturn
  <2>1. UNCHANGED <<node, kmask, level, ready, lostByStop, lostByThrow>>
        /\ Advance /\ pc = "handler" /\ ~eventsLeft /\ result # "more"
    BY <1>4 DEF HandlerReturn, infos, kernel, history
  <2>2. CASE Passed(i, d)
    BY <1>0, <1>1, <2>1, <2>2 DEF PassInv, Excused
  <2>3. CASE i = n /\ d = dir
    BY <1>1, <2>1, <2>3, SameEntry DEF CallInv, Excused
  <2> QED
    BY <1>0, <1>1, <2>1, <2>2, <2>3, AdvancePasses
<1>5. CASE Dispatch
  <2>1. UNCHANGED <<node, m_events, n, dir, eventsLeft>> /\ pc = "scan"
    BY <1>5 DEF Dispatch, AtSlot, infos, batch
  <2>2. Excused(f, d)
    BY <1>0, <1>1, <2>1 DEF PassInv, Passed
  <2>3. ASSUME f = cur', d = dir
        PROVE  FALSE
    <3>1. /\ m_events[n].ptr = m_events[i].ptr /\ m_events[n].ptr # NullPtr
          /\ n \in 1..m_eventCount
      <4>1. node[cur'] = m_events[n].ptr /\ m_events[n].ptr # NullPtr /\ n <= m_eventCount
        BY <1>5 DEF Dispatch, AtSlot
      <4>2. n \in Int /\ n >= 1 /\ m_eventCount \in Int
        BY DEF TypeOK
      <4>3. n \in 1..m_eventCount
        BY <4>1, <4>2
      <4>4. node[f] = m_events[i].ptr
        BY <1>1, <2>1
      <4> QED
        BY <2>3, <4>1, <4>3, <4>4
    <3>2. i = n
      BY <1>0, <2>1, <3>1 DEF DistinctInv, Running, SlotsDistinct
    <3> QED
      BY <1>0, <2>1, <2>3, <3>2 DEF Passed
  <2> QED
    BY <1>0, <1>1, <2>2, <2>3, ExcusedKept
<1>6. CASE \E t \in Threads, g \in Fds, e \in Dirs : Add(t, g, e) \/ Erase(t, g, e)
  <2>1. PICK t \in Threads, g \in Fds, e \in Dirs : Add(t, g, e) \/ Erase(t, g, e)
    BY <1>6
  <2>2. CASE f = g
    BY <1>1, <2>1, <2>2, AddPolls, ErasePolls
  <2>3. CASE f # g
    <3>1. node'[f] = node[f] /\ (Excused(f, d) => Excused(f, d)')
      BY <1>1, <2>1, <2>3, AddPolls, ErasePolls
    <3>2. UNCHANGED <<n, dir, eventsLeft, pc>>
      BY <2>1 DEF Add, Erase, scan
    <3> QED
      BY <1>0, <1>1, <3>1, <3>2 DEF PassInv, Passed
  <2> QED
    BY <2>2, <2>3
<1>7. CASE UNCHANGED <<node, scan>> /\ ~Dispatch
  <2>1. Excused(f, d)
    BY <1>0, <1>1, <1>7 DEF PassInv, Passed, scan
  <2> QED
    BY <1>0, <1>1, <1>7, <2>1, ExcusedKept
<1> QED
  <2>1. CASE ~Dispatch
    BY <1>2, <1>3, <1>4, <1>6, <1>7, <1>0, <2>1
    DEF Next, Environment, ExecuteStep, ExecuteBegin, DispatchDangling,
         EpollInterrupted, EpollFails, StoreEventCount, ExecuteReturn, DrainCall, DrainReturn,
         Arrive, Close, CallerStep, addEvent, addOutEvent, eraseEvent, eraseOutEvent,
         stop, vars, infos
  <2> QED
    BY <1>5, <2>1

(* Every piece of work at a watched descriptor is excused or has an event  *)
(* in the batch.                                                           *)
Reported == \A f \in Fds, d \in Dirs : Excused(f, d) \/ InBatch(f, d)

LEMMA NoLostWakeupReported ==
  ASSUME TypeOK
  PROVE  NoLostWakeup <=> (pc # "undefined" => Reported)
BY DEF NoLostWakeup, Reported, Excused, TypeOK

(* Outside of a batch everything is excused.                               *)
LEMMA NoBatch ==
  ASSUME Reported, pc \in {"idle", "wait"}, NEW f \in Fds, NEW d \in Dirs
  PROVE  Excused(f, d)
<1>1. 1..BatchSize = {}
  BY DEF BatchSize, Running
<1> QED
  BY <1>1 DEF Reported, InBatch

(* epoll_wait() moves what is ready into the batch, as far as it fits.     *)
LEMMA EpollWaitReports ==
  ASSUME TypeOK, MapInv, Reported, EpollWait, NEW f \in Fds, NEW d \in Dirs
  PROVE  Excused(f, d)' \/ InBatch(f, d)'
<1> SUFFICES ASSUME d \in kmask[f], level[f][d] > 0, f \in ready, f \notin ready'
             PROVE  InBatch(f, d)'
  <2>1. Excused(f, d) /\ UNCHANGED <<kmask, level, lostByStop, lostByThrow>>
    BY NoBatch DEF EpollWait, history
  <2> QED
    BY <2>1 DEF Excused
<1>1. f \in Deliverable /\ f # StopFd /\ d \in Due(f, kmask[f])
  BY EventLoopAssumption DEF Deliverable, Due
<1>2. PICK k \in 1..MAXEVENTS : \E b \in [1..k -> Deliverable] :
        /\ m_events' = [i \in 1..MAXEVENTS |-> IF i <= k THEN EventOf(b[i])
                                                         ELSE m_events[i]]
        /\ fetched' = k
        /\ ready' = {x \in Deliverable : \A i \in 1..k : b[i] # x}
  BY DEF EpollWait
<1>3. PICK b \in [1..k -> Deliverable] :
        /\ m_events' = [i \in 1..MAXEVENTS |-> IF i <= k THEN EventOf(b[i])
                                                         ELSE m_events[i]]
        /\ fetched' = k
        /\ ready' = {x \in Deliverable : \A i \in 1..k : b[i] # x}
  BY <1>2
<1>4. PICK i \in 1..k : b[i] = f
  BY <1>1, <1>3
<1>5. i \in 1..MAXEVENTS /\ i <= k
  BY EventLoopAssumption
<1>6. m_events'[i] = EventOf(f)
  BY <1>3, <1>4, <1>5
<1>7. EventOf(f).ptr = node[f] /\ d \in EventOf(f).events
  BY <1>1 DEF EventOf, MapInv, KernelAgrees
<1>8. BatchSize' = k /\ node' = node
  BY <1>3 DEF EpollWait, BatchSize, infos
<1> QED
  BY <1>6, <1>7, <1>8 DEF InBatch

LEMMA ReportedStep ==
  ASSUME TypeOK, InSlot, MapInv, DistinctInv, CallInv, PassInv, NoLostWakeup, [Next]_vars,
         pc' # "undefined"
  PROVE  Reported'
<1>0. Reported
  <2>1. pc # "undefined"
    BY DEF Next, Environment, ExecuteStep, ExecuteBegin, DispatchDangling,
         EpollWait, EpollInterrupted, EpollFails, StoreEventCount, Lock, SkipEvent, Dispatch,
         DispatchEmpty, HandlerReturn, EndOfPass, ExecuteReturn, DrainCall, DrainReturn,
         Arrive, Close, CallerStep, addEvent, addOutEvent, eraseEvent, eraseOutEvent,
         stop, Add, Erase, AtSlot, vars, scan
  <2> QED
    BY <2>1, NoLostWakeupReported
<1> SUFFICES ASSUME NEW f \in Fds, NEW d \in Dirs
             PROVE  Excused(f, d)' \/ InBatch(f, d)'
  BY DEF Reported
<1>1. CASE EpollWait
  BY <1>0, <1>1, EpollWaitReports
<1>2. CASE ExecuteBegin \/ EpollInterrupted \/ EpollFails
  <2>1. pc \in {"idle", "wait"} /\ ~EpollWait /\ ~Dispatch
    BY <1>2 DEF ExecuteBegin, EpollInterrupted, EpollFails, EpollWait, Dispatch, AtSlot, infos, batch
  <2> QED
    BY <1>0, <2>1, NoBatch, ExcusedKept
<1>3. CASE StoreEventCount \/ Lock \/ SkipEvent \/ DispatchEmpty
  <2>1. /\ UNCHANGED <<node, m_events, kmask, level, ready, lostByStop, lostByThrow>>
        /\ BatchSize' = BatchSize
    BY <1>3 DEF StoreEventCount, Lock, SkipEvent, DispatchEmpty, AtSlot, BatchSize, Running,
         infos, batch, kernel, history
  <2> QED
    BY <1>0, <2>1 DEF Reported, Excused, InBatch
<1>4. CASE Dispatch
  <2>1. /\ UNCHANGED <<node, m_events>> /\ BatchSize' = m_eventCount
        /\ BatchSize = m_eventCount /\ ~EpollWait
    BY <1>4 DEF Dispatch, AtSlot, BatchSize, Running, infos, batch, EpollWait
  <2>2. CASE f = cur' /\ d = dir
    <3>1. node[cur'] = m_events[n].ptr /\ dir \in m_events[n].events /\ n <= m_eventCount
      BY <1>4 DEF Dispatch, AtSlot
    <3>2. n \in Int /\ n >= 1 /\ m_eventCount \in Int
      BY DEF TypeOK
    <3> QED
      BY <2>1, <2>2, <3>1, <3>2 DEF InBatch
  <2>3. CASE f # cur' \/ d # dir
    BY <1>0, <2>1, <2>3, ExcusedKept DEF Reported, InBatch
  <2> QED
    BY <2>2, <2>3
<1>5. CASE HandlerReturn
  <2>1. /\ UNCHANGED <<node, kmask, level, ready, lostByStop, lostByThrow>>
        /\ BatchSize' = m_eventCount /\ BatchSize = m_eventCount /\ pc = "handler"
    BY <1>5 DEF HandlerReturn, BatchSize, Running, infos, kernel, history
  <2>2. CASE Excused(f, d)
    BY <2>1, <2>2 DEF Excused
  <2>3. CASE InBatch(f, d)
    <3>1. PICK i \in 1..m_eventCount : m_events[i].ptr = node[f] /\ d \in m_events[i].events
      BY <2>1, <2>3 DEF InBatch
    <3>2. i \in 1..MAXEVENTS /\ DOMAIN m_events = 1..MAXEVENTS
      BY EventLoopAssumption DEF TypeOK
    <3>3. CASE i = n /\ d = dir /\ result = "done"
      <4>1. node[f] = node[cur] /\ node[cur] # NullPtr /\ Excused(cur, dir) /\ cur \in Fds
        BY <2>1, <3>1, <3>3 DEF CallInv
      <4>2. Excused(f, d)
        BY <3>3, <4>1 DEF MapInv, MapOK
      <4> QED
        BY <2>2, <4>2
    <3>4. CASE ~(i = n /\ d = dir /\ result = "done")
      <4>1. m_events'[i].ptr = m_events[i].ptr /\ d \in m_events'[i].events
        BY <1>5, <3>1, <3>2, <3>4 DEF HandlerReturn, Clear
      <4> QED
        BY <2>1, <3>1, <4>1 DEF InBatch
    <3> QED
      BY <3>3, <3>4
  <2> QED
    BY <1>0, <2>2, <2>3 DEF Reported
<1>6. CASE EndOfPass
  <2>1. /\ UNCHANGED <<node, m_events, kmask, level, ready, lostByStop, lostByThrow>>
        /\ BatchSize = m_eventCount /\ n > m_eventCount /\ pc = "scan"
        /\ eventsLeft => BatchSize' = m_eventCount
    BY <1>6 DEF EndOfPass, BatchSize, Running, infos, batch, kernel, history
  <2>2. ASSUME InBatch(f, d), ~eventsLeft
        PROVE  Excused(f, d)
    <3>1. PICK i \in 1..m_eventCount : m_events[i].ptr = node[f] /\ d \in m_events[i].events
      BY <2>1, <2>2 DEF InBatch
    <3>2. Passed(i, d)
      BY <2>1 DEF Passed, TypeOK
    <3> QED
      BY <2>1, <2>2, <3>1, <3>2 DEF PassInv
  <2> QED
    BY <1>0, <2>1, <2>2 DEF Reported, Excused, InBatch
<1>7. CASE ExecuteReturn
  <2>1. /\ UNCHANGED <<kmask, level, ready, lostByThrow>>
        /\ lostByStop' = lostByStop \cup Unhandled
        /\ BatchSize = m_eventCount
    BY <1>7 DEF ExecuteReturn, AtSlot, BatchSize, Running, kernel
  <2>2. InBatch(f, d) => <<f, d>> \in Unhandled
    BY <2>1 DEF InBatch, Unhandled
  <2> QED
    BY <1>0, <2>1, <2>2 DEF Reported, Excused
<1>8. CASE \E t \in Threads, g \in Fds, e \in Dirs : Add(t, g, e)
  <2>1. PICK t \in Threads, g \in Fds, e \in Dirs : Add(t, g, e)
    BY <1>8
  <2>2. UNCHANGED m_events /\ BatchSize' = BatchSize
    BY <2>1 DEF Add, batch, scan, BatchSize, Running
  <2>3. CASE f = g
    BY <2>1, <2>3, AddPolls
  <2>4. CASE f # g
    BY <1>0, <2>1, <2>2, <2>4, AddPolls DEF Reported, InBatch
  <2> QED
    BY <2>3, <2>4
<1>9. CASE \E t \in Threads, g \in Fds, e \in Dirs : Erase(t, g, e)
  <2>1. PICK t \in Threads, g \in Fds, e \in Dirs : Erase(t, g, e)
    BY <1>9
  <2>2. BatchSize' = BatchSize /\ 1..BatchSize \subseteq 1..MAXEVENTS
    BY <2>1, EventLoopAssumption DEF Erase, scan, BatchSize, Running, TypeOK
  <2>3. CASE f = g
    BY <2>1, <2>3, ErasePolls
  <2>4. CASE f # g
    <3>1. Excused(f, d) => Excused(f, d)'
      BY <2>1, <2>4, ErasePolls
    <3>2. CASE node[f] = node[g]
      BY <2>1, <2>4, <3>1, <3>2, SameEntry
    <3>3. CASE node[f] # node[g]
      BY <1>0, <2>1, <2>2, <2>4, <3>1, <3>3, ErasePolls, EraseSlots DEF Reported, InBatch
    <3> QED
      BY <3>2, <3>3
  <2> QED
    BY <2>3, <2>4
<1>10. CASE UNCHANGED <<node, batch, scan>> /\ ~EpollWait /\ ~Dispatch
  <2>1. InBatch(f, d) => InBatch(f, d)'
    BY <1>10 DEF InBatch, BatchSize, Running, batch, scan
  <2> QED
    BY <1>0, <1>10, <2>1, ExcusedKept DEF Reported
<1> QED
  <2>1. CASE ~EpollWait /\ ~Dispatch
    BY <1>2, <1>3, <1>5, <1>6, <1>7, <1>8, <1>9, <1>10, <2>1
    DEF Next, Environment, ExecuteStep, DispatchDangling, DrainCall, DrainReturn,
         Arrive, Close, CallerStep, addEvent, addOutEvent, eraseEvent, eraseOutEvent,
         stop, vars, infos
  <2> QED
    BY <1>1, <1>4, <2>1

(* Edge-triggered epoll reports work once, and execute() forgets none of   *)
(* it: work at a watched descriptor is in the ready list or in the batch,  *)
(* or stop() cut off the batch, or the callback threw.  This holds for any *)
(* number of descriptors and slots, and even if other threads erase events *)
(* while execute() is running.                                             *)
THEOREM NoLostWakeupAlways == Spec => []NoLostWakeup
<1>1. Init => MapInv /\ WakeInv
  BY DEF Init, MapInv, MapOK, KernelAgrees, WakeInv, NoLostWakeup, DistinctInv, Running,
       PassInv, CallInv
<1>2. TypeOK /\ InSlot /\ MapInv /\ WakeInv /\ [Next]_vars => (MapInv /\ WakeInv)'
  <2> SUFFICES ASSUME TypeOK, InSlot, MapInv, WakeInv, [Next]_vars
               PROVE  (MapInv /\ WakeInv)'
    OBVIOUS
  <2>1. MapInv' /\ DistinctInv' /\ CallInv' /\ PassInv'
    BY MapStep, DistinctStep, CallStep, PassStep DEF WakeInv
  <2>2. TypeOK'
    BY TypeStep, TypeStutter
  <2>3. pc' # "undefined" => Reported'
    BY ReportedStep DEF WakeInv
  <2>4. NoLostWakeup'
    BY <2>2, <2>3 DEF NoLostWakeup, Reported, Excused, TypeOK
  <2> QED
    BY <2>1, <2>4 DEF WakeInv
<1>3. WakeInv => NoLostWakeup
  BY DEF WakeInv
<1> QED
  BY <1>1, <1>2, <1>3, TypeCorrect, PTL DEF Spec
=============================================================================
