------------------------------ MODULE EventLoop ------------------------------
(***************************************************************************)
(* The Linux event loop of libhbk (lib/sys/linux/eventloop.cpp): an        *)
(* edge-triggered epoll dispatcher.  One thread, "loop", runs execute().   *)
(* A second thread, "app", stands for the rest of the application; it      *)
(* adds and erases events and stops the loop.  Callbacks run by "loop"     *)
(* may do the same.                                                        *)
(*                                                                         *)
(* m_eventInfosMtx is held by "loop" from the end of epoll_wait() to the   *)
(* next epoll_wait(), callbacks included, so it needs no variable: "app"   *)
(* holds it only inside one action, which is enabled only while the loop   *)
(* does not hold it.                                                       *)
(*                                                                         *)
(* A directional handler pair {in, out} of one descriptor is handled by    *)
(* mirrored code (addEvent/addOutEvent, eraseEvent/eraseOutEvent), modelled*)
(* once with the direction d as a parameter.                               *)
(***************************************************************************)
EXTENDS Integers

CONSTANTS
  Fds,              \* descriptors the application works with
  Nodes,            \* addresses at which entries of m_eventInfos are allocated
  NullPtr,          \* the null pointer, no element of Nodes
  StopFd,           \* m_stopFd, no element of Fds
  Dirs,             \* directions in use: a subset of {"in", "out"}
  MAXEVENTS,        \* size of m_events
  MaxLevel,         \* bound: most units of work that wait at a descriptor
  EraseAt           \* where execute() may be (pc) when "app" erases events

ASSUME EventLoopAssumption ==
  /\ NullPtr \notin Nodes
  /\ StopFd \notin Fds
  /\ Dirs \subseteq {"in", "out"}
  /\ MAXEVENTS \in Nat \ {0}
  /\ MaxLevel \in Nat \ {0}
  /\ EraseAt \subseteq {"idle", "wait", "store", "lock"}

Threads == {"loop", "app"}

VARIABLES
  node,         \* m_eventInfos: address of the entry of a descriptor
  handlers,     \* m_eventInfos: the callbacks set in that entry
  kmask,        \* kernel: events epoll watches for ({} = not watched)
  kptr,         \* kernel: data.ptr registered with the descriptor
  ready,        \* kernel: the ready list of the epoll instance
  level,        \* kernel: units of work waiting at a descriptor
  m_events,     \* the array filled by epoll_wait()
  m_eventCount, \* the member variable of that name
  fetched,      \* what epoll_wait() returned, not yet stored in m_eventCount
  pc,           \* where execute() is
  n, dir,       \* execute(): slot and direction it looks at
  eventsLeft,   \* execute(): has a callback reported more work in this pass?
  cur,          \* execute(): descriptor whose callback is running
  result,       \* execute(): what that callback is going to return
  drain,        \* addEvent(): the "try until nothing is left" loop per thread
  lostByStop,   \* history: signalled events that stop() left unhandled
  lostByThrow   \* history: signalled events whose callback threw

kernel  == <<kmask, kptr, ready, level>>
infos   == <<node, handlers>>
batch   == <<m_events, m_eventCount, fetched>>
scan    == <<pc, n, dir, eventsLeft, cur, result>>
history == <<lostByStop, lostByThrow>>
vars    == <<kernel, infos, batch, scan, drain, history>>

-----------------------------------------------------------------------------
Slot    == [ptr: Nodes \cup {NullPtr}, events: SUBSET Dirs]
NoEvent == [ptr |-> NullPtr, events |-> {}]

(* Where a thread is in the drain loop of addEvent(): about to call the    *)
(* callback of (f, d), or in a call that returns > 0 ("more") or not.      *)
Draining(f, d, st) == [st |-> st, fd |-> f, dir |-> d]
NoDrain == Draining(StopFd, "in", "none")
DrainState == [st: {"call", "more", "last"}, fd: Fds, dir: Dirs] \cup {NoDrain}

TypeOK ==
  /\ node \in [Fds -> Nodes \cup {NullPtr}]
  /\ handlers \in [Fds -> SUBSET Dirs]
  /\ kmask \in [Fds -> SUBSET Dirs]
  /\ kptr \in [Fds -> Nodes \cup {NullPtr}]
  /\ ready \in SUBSET (Fds \cup {StopFd})
  /\ level \in [Fds -> [Dirs -> 0..MaxLevel]]
  /\ m_events \in [1..MAXEVENTS -> Slot]
  /\ m_eventCount \in -1..MAXEVENTS
  /\ fetched \in -1..MAXEVENTS
  /\ pc \in {"idle", "wait", "store", "lock", "scan", "handler", "undefined"}
  /\ n \in 1..(MAXEVENTS + 1)
  /\ dir \in {"in", "out"}
  /\ eventsLeft \in BOOLEAN
  /\ cur \in Fds \cup {StopFd}
  /\ result \in {"more", "done", "throw"}
  /\ drain \in [Threads -> DrainState]
  /\ lostByStop \in SUBSET (Fds \X Dirs)
  /\ lostByThrow \in SUBSET (Fds \X Dirs)

(* EventLoop::EventLoop(): the stop notifier is watched from the start.    *)
Init ==
  /\ node = [f \in Fds |-> NullPtr]
  /\ handlers = [f \in Fds |-> {}]
  /\ kmask = [f \in Fds |-> {}]
  /\ kptr = [f \in Fds |-> NullPtr]
  /\ ready = {}
  /\ level = [f \in Fds |-> [d \in Dirs |-> 0]]
  /\ m_events = [i \in 1..MAXEVENTS |-> NoEvent]
  /\ m_eventCount = 0
  /\ fetched = 0
  /\ pc = "idle"
  /\ n = 1
  /\ dir = "in"
  /\ eventsLeft = FALSE
  /\ cur = StopFd
  /\ result = "done"
  /\ drain = [t \in Threads |-> NoDrain]
  /\ lostByStop = {}
  /\ lostByThrow = {}

-----------------------------------------------------------------------------
(* The kernel (external).                                                  *)

(* The events of mask that are due at f.                                   *)
Due(f, mask) == {d \in mask : level[f][d] > 0}

(* EPOLL_CTL_ADD and EPOLL_CTL_MOD poll the descriptor: if something is    *)
(* due already the item goes to the ready list.                            *)
Watch(f, mask, ptr) ==
  /\ kmask' = [kmask EXCEPT ![f] = mask]
  /\ kptr' = [kptr EXCEPT ![f] = ptr]
  /\ ready' = IF Due(f, mask) # {} THEN ready \cup {f} ELSE ready

(* EPOLL_CTL_DEL, and close() of a watched descriptor.                     *)
Unwatch(f) ==
  /\ kmask' = [kmask EXCEPT ![f] = {}]
  /\ kptr' = [kptr EXCEPT ![f] = NullPtr]
  /\ ready' = ready \ {f}

(* Work arrives at a descriptor: data to read, or room to write.  Arriving *)
(* data always is an edge; room is one only if there was none before.      *)
Arrive(f, d) ==
  /\ level[f][d] < MaxLevel
  /\ level' = [level EXCEPT ![f][d] = @ + 1]
  /\ ready' = IF d \in kmask[f] /\ (d = "in" \/ level[f][d] = 0)
              THEN ready \cup {f} ELSE ready
  /\ UNCHANGED <<kmask, kptr, infos, batch, scan, drain, history>>

(* History: f is polled afresh or not watched any more, earlier losses of  *)
(* wake-ups of f do not matter.                                            *)
Forget(f) ==
  /\ lostByStop' = {e \in lostByStop : e[1] # f}
  /\ lostByThrow' = {e \in lostByThrow : e[1] # f}

(* The descriptor is closed behind the event loop's back, as               *)
(* SocketNonblocking::disconnect() does before it erases the events; its   *)
(* number then stands for a fresh descriptor with no work waiting.         *)
Close(f) ==
  /\ Unwatch(f)
  /\ level' = [level EXCEPT ![f] = [d \in Dirs |-> 0]]
  /\ Forget(f)
  /\ UNCHANGED <<infos, batch, scan, drain>>

-----------------------------------------------------------------------------
(* Mutant of Callback: a callback reports more work without having any.    *)
CallbackOverreports(f, d, r) ==
  \/ r = "more" /\ level' = [level EXCEPT ![f][d] = @ - 1]
  \/ r = "done" /\ level' = [level EXCEPT ![f][d] = 0]

(* A callback.  By the contract of EventHandler_t it takes one unit of     *)
(* work and returns > 0 ("more"), or leaves no work and returns <= 0       *)
(* ("done"), or throws; r is which of the three.                           *)
Callback(f, d, r) ==
  \/ r = "more" /\ level[f][d] > 0 /\ level' = [level EXCEPT ![f][d] = @ - 1]
  \/ r = "done" /\ level' = [level EXCEPT ![f][d] = 0]
  \/ r = "throw" /\ \E k \in 0..level[f][d] : level' = [level EXCEPT ![f][d] = k]

(* Thread t may enter a critical section of m_eventInfosMtx: "app" when    *)
(* the loop does not hold it, "loop" from inside a callback (the mutex is  *)
(* recursive).  A thread in the drain loop of addEvent() is busy.          *)
MayLock(t) ==
  /\ drain[t].st = "none"
  /\ IF t = "loop" THEN pc = "handler"
                   ELSE pc \notin {"scan", "handler", "undefined"}

-----------------------------------------------------------------------------
(* addEvent(fd, eventHandler) and addOutEvent(fd, eventHandler).           *)

Allocated == {node[f] : f \in Fds}

(* The first event of f: a new entry, EPOLL_CTL_ADD.  If epoll_ctl fails   *)
(* the entry stays in the map.                                             *)
AddNew(t, f, d) ==
  /\ node[f] = NullPtr
  /\ \E p \in Nodes \ Allocated :
       /\ node' = [node EXCEPT ![f] = p]
       /\ handlers' = [handlers EXCEPT ![f] = {d}]
       /\ \/ /\ Watch(f, {d}, p)
             /\ drain' = [drain EXCEPT ![t] = Draining(f, d, "call")]
          \/ UNCHANGED <<kmask, kptr, ready, drain>>

(* Mutant of AddToEntry: the other direction is dropped from the mask.     *)
AddToEntryDropsMask(t, f, d) ==
  /\ node[f] # NullPtr
  /\ handlers' = [handlers EXCEPT ![f] = @ \cup {d}]
  /\ node' = node
  /\ kmask[f] # {}
  /\ Watch(f, {d}, node[f])
  /\ drain' = [drain EXCEPT ![t] = Draining(f, d, "call")]

(* f has an entry already: its callback is set or replaced,                *)
(* EPOLL_CTL_MOD, which fails if the kernel does not watch f.              *)
AddToEntry(t, f, d) ==
  /\ node[f] # NullPtr
  /\ handlers' = [handlers EXCEPT ![f] = @ \cup {d}]
  /\ node' = node
  /\ IF kmask[f] # {}
     THEN /\ Watch(f, handlers[f] \cup {d}, node[f])
          /\ drain' = [drain EXCEPT ![t] = Draining(f, d, "call")]
     ELSE UNCHANGED <<kmask, kptr, ready, drain>>

Add(t, f, d) ==
  /\ MayLock(t)
  /\ AddNew(t, f, d) \/ AddToEntry(t, f, d)
  /\ Forget(f)
  /\ UNCHANGED <<level, batch, scan>>

addEvent(t, f)    == "in" \in Dirs /\ Add(t, f, "in")
addOutEvent(t, f) == "out" \in Dirs /\ Add(t, f, "out")

(* addEvent() calls the new callback until it reports that nothing is      *)
(* left; in the thread of the caller and without the mutex.                *)
DrainCall(t) ==
  /\ drain[t].st = "call"
  /\ \E r \in {"more", "done", "throw"} :
       /\ Callback(drain[t].fd, drain[t].dir, r)
       /\ drain' = [drain EXCEPT ![t] = Draining(drain[t].fd, drain[t].dir,
                                                 IF r = "more" THEN "more" ELSE "last")]
  /\ UNCHANGED <<kmask, kptr, ready, infos, batch, scan, history>>

DrainReturn(t) ==
  /\ drain[t].st \in {"more", "last"}
  /\ drain' = [drain EXCEPT ![t] = IF drain[t].st = "more"
                                   THEN Draining(drain[t].fd, drain[t].dir, "call")
                                   ELSE NoDrain]
  /\ UNCHANGED <<kernel, infos, batch, scan, history>>

-----------------------------------------------------------------------------
(* eraseEvent(fd) and eraseOutEvent(fd).                                   *)

(* events &= ~removedEvents                                                *)
Clear(slot, removedEvents) ==
  [ptr |-> slot.ptr, events |-> slot.events \ removedEvents]

(* Mutant of TurnOff: the last slot of the batch is not looked at.         *)
TurnOffMissesLast(ptr, removedEvents) ==
  m_events' = [i \in 1..MAXEVENTS |->
    IF i < m_eventCount /\ m_events[i].ptr = ptr
    THEN Clear(m_events[i], removedEvents)
    ELSE m_events[i]]

(* Turn the removed events off in the first slot of the batch that carries *)
(* the pointer to the entry.                                               *)
TurnOff(ptr, removedEvents) ==
  LET hits == {i \in 1..m_eventCount : m_events[i].ptr = ptr}
  IN  m_events' = [i \in 1..MAXEVENTS |->
        IF i \in hits /\ \A j \in hits : i <= j
        THEN Clear(m_events[i], removedEvents)
        ELSE m_events[i]]

Erase(t, f, d) ==
  /\ MayLock(t)
  /\ t = "app" => pc \in EraseAt
  /\ node[f] # NullPtr
  /\ d \in handlers[f]
  /\ IF handlers[f] # {d}
     THEN \* keep the event of the other direction
          /\ handlers' = [handlers EXCEPT ![f] = @ \ {d}]
          /\ node' = node
          /\ IF kmask[f] # {} THEN Watch(f, handlers[f] \ {d}, node[f])
                              ELSE UNCHANGED <<kmask, kptr, ready>>
          /\ TurnOff(node[f], {d})
     ELSE /\ handlers' = [handlers EXCEPT ![f] = {}]
          /\ node' = [node EXCEPT ![f] = NullPtr]
          /\ Unwatch(f)
          /\ TurnOff(node[f], {"in", "out"})
  /\ Forget(f)
  /\ UNCHANGED <<level, m_eventCount, fetched, scan, drain>>

eraseEvent(t, f)    == "in" \in Dirs /\ Erase(t, f, "in")
eraseOutEvent(t, f) == "out" \in Dirs /\ Erase(t, f, "out")

(* stop(): a write to m_stopFd, from any thread.                           *)
stop(t) ==
  /\ t = "loop" => pc = "handler"
  /\ ready' = ready \cup {StopFd}
  /\ UNCHANGED <<kmask, kptr, level, infos, batch, scan, drain, history>>

-----------------------------------------------------------------------------
(* execute()                                                               *)

ExecuteBegin ==
  /\ pc = "idle"
  /\ pc' = "wait"
  /\ UNCHANGED <<kernel, infos, batch, n, dir, eventsLeft, cur, result, drain, history>>

(* What epoll_wait() would report now.  m_stopFd is never read, so once it *)
(* is in the ready list it is due.                                         *)
Deliverable == {x \in ready : x = StopFd \/ Due(x, kmask[x]) # {}}

(* The event reported for x; a null pointer denotes m_stopFd.              *)
EventOf(x) == IF x = StopFd THEN NoEvent
              ELSE [ptr |-> kptr[x], events |-> Due(x, kmask[x])]

(* epoll_wait() fills m_events and returns the number k of events.  The    *)
(* order of the events is left open.  Edge-triggered items leave the ready *)
(* list when they are reported.                                            *)
EpollWait ==
  /\ pc = "wait"
  /\ Deliverable # {}
  /\ \E k \in 1..MAXEVENTS : \E b \in [1..k -> Deliverable] :
       /\ \A i, j \in 1..k : b[i] = b[j] => i = j
       /\ k < MAXEVENTS => \A x \in Deliverable : \E i \in 1..k : b[i] = x
       /\ m_events' = [i \in 1..MAXEVENTS |-> IF i <= k THEN EventOf(b[i])
                                                        ELSE m_events[i]]
       /\ fetched' = k
       /\ ready' = {x \in Deliverable : \A i \in 1..k : b[i] # x}
  /\ pc' = "store"
  /\ UNCHANGED <<kmask, kptr, level, infos, m_eventCount, n, dir, eventsLeft, cur,
                 result, drain, history>>

(* epoll_wait() is interrupted by a signal (EINTR).                        *)
EpollInterrupted ==
  /\ pc = "wait"
  /\ fetched' = -1
  /\ pc' = "store"
  /\ UNCHANGED <<kernel, infos, m_events, m_eventCount, n, dir, eventsLeft, cur,
                 result, drain, history>>

(* Any other error ends execute().                                         *)
EpollFails ==
  /\ pc = "wait"
  /\ m_eventCount' = -1
  /\ pc' = "idle"
  /\ UNCHANGED <<kernel, infos, m_events, fetched, n, dir, eventsLeft, cur, result,
                 drain, history>>

(* Mutant of StoreEventCount: the last event is not looked at.             *)
StoreEventCountShort ==
  /\ pc = "store"
  /\ m_eventCount' = IF fetched > 0 THEN fetched - 1 ELSE fetched
  /\ fetched' = 0
  /\ pc' = "lock"
  /\ UNCHANGED <<kernel, infos, m_events, n, dir, eventsLeft, cur, result,
                 drain, history>>

(* The assignment to m_eventCount, made without the mutex.                 *)
StoreEventCount ==
  /\ pc = "store"
  /\ m_eventCount' = fetched
  /\ fetched' = 0
  /\ pc' = "lock"
  /\ UNCHANGED <<kernel, infos, m_events, n, dir, eventsLeft, cur, result,
                 drain, history>>

(* The mutex is taken and the first pass over the events begins.           *)
Lock ==
  /\ pc = "lock"
  /\ pc' = "scan"
  /\ n' = 1
  /\ dir' = "in"
  /\ eventsLeft' = FALSE
  /\ UNCHANGED <<kernel, infos, batch, cur, result, drain, history>>

AtSlot == pc = "scan" /\ n <= m_eventCount

(* On to EPOLLOUT of the same slot, or to EPOLLIN of the next one.         *)
Advance ==
  /\ dir' = IF dir = "in" THEN "out" ELSE "in"
  /\ n' = IF dir = "in" THEN n ELSE n + 1

SkipEvent ==
  /\ AtSlot
  /\ m_events[n].ptr # NullPtr
  /\ dir \notin m_events[n].events
  /\ Advance
  /\ UNCHANGED <<kernel, infos, batch, pc, eventsLeft, cur, result, drain, history>>

(* pEventHandlers->inEvent() or ->outEvent().                              *)
Dispatch ==
  /\ AtSlot
  /\ m_events[n].ptr # NullPtr
  /\ dir \in m_events[n].events
  /\ \E f \in Fds :
       /\ node[f] = m_events[n].ptr
       /\ dir \in handlers[f]
       /\ cur' = f
       /\ \E r \in {"more", "done", "throw"} :
            /\ Callback(f, dir, r)
            /\ result' = r
            /\ lostByThrow' = IF r = "throw" THEN lostByThrow \cup {<<f, dir>>}
                                             ELSE lostByThrow \ {<<f, dir>>}
            /\ lostByStop' = lostByStop \ {<<f, dir>>}
  /\ pc' = "handler"
  /\ UNCHANGED <<kmask, kptr, ready, infos, batch, n, dir, eventsLeft, drain>>

(* The callback of a live entry is empty: std::bad_function_call, caught.  *)
DispatchEmpty ==
  /\ AtSlot
  /\ dir \in m_events[n].events
  /\ \E f \in Fds : node[f] = m_events[n].ptr /\ dir \notin handlers[f]
  /\ Advance
  /\ UNCHANGED <<kernel, infos, batch, pc, eventsLeft, cur, result, drain, history>>

(* The entry does not exist any more: undefined behaviour.                 *)
DispatchDangling ==
  /\ AtSlot
  /\ dir \in m_events[n].events
  /\ m_events[n].ptr \notin Allocated
  /\ pc' = "undefined"
  /\ UNCHANGED <<kernel, infos, batch, n, dir, eventsLeft, cur, result, drain, history>>

(* Mutant of HandlerReturn: the event counts as done after one call.       *)
HandlerReturnForgets ==
  /\ pc = "handler"
  /\ drain["loop"].st = "none"
  /\ m_events' = [m_events EXCEPT ![n] = Clear(@, {dir})]
  /\ pc' = "scan"
  /\ cur' = StopFd
  /\ result' = "done"
  /\ Advance
  /\ UNCHANGED <<kernel, infos, m_eventCount, fetched, eventsLeft, drain, history>>

(* The callback returns to execute().                                      *)
HandlerReturn ==
  /\ pc = "handler"
  /\ drain["loop"].st = "none"
  /\ eventsLeft' = (eventsLeft \/ result = "more")
  /\ m_events' = IF result = "done" THEN [m_events EXCEPT ![n] = Clear(@, {dir})]
                                    ELSE m_events
  /\ pc' = "scan"
  /\ cur' = StopFd
  /\ result' = "done"
  /\ Advance
  /\ UNCHANGED <<kernel, infos, m_eventCount, fetched, drain, history>>

(* All slots seen: another pass if a callback reported more work, else     *)
(* back to epoll_wait().                                                   *)
EndOfPass ==
  /\ pc = "scan"
  /\ n > m_eventCount
  /\ n' = 1
  /\ dir' = "in"
  /\ eventsLeft' = FALSE
  /\ pc' = IF eventsLeft THEN "scan" ELSE "wait"
  /\ UNCHANGED <<kernel, infos, batch, cur, result, drain, history>>

(* Mutant of ExecuteReturn: the stop notification is passed over.          *)
ExecuteReturnForgets ==
  /\ AtSlot
  /\ m_events[n].ptr = NullPtr
  /\ n' = n + 1
  /\ UNCHANGED <<kernel, infos, batch, pc, dir, eventsLeft, cur, result, drain, history>>

(* The events still set in the batch.                                      *)
Unhandled == {e \in Fds \X Dirs : \E i \in 1..m_eventCount :
                /\ m_events[i].ptr = node[e[1]]
                /\ e[2] \in m_events[i].events}

(* The slot of m_stopFd: execute() returns 0.                              *)
ExecuteReturn ==
  /\ AtSlot
  /\ m_events[n].ptr = NullPtr
  /\ pc' = "idle"
  /\ n' = 1
  /\ dir' = "in"
  /\ eventsLeft' = FALSE
  /\ lostByStop' = lostByStop \cup Unhandled
  /\ UNCHANGED <<kernel, infos, batch, cur, result, drain, lostByThrow>>

-----------------------------------------------------------------------------
ExecuteStep ==
  \/ EpollWait \/ StoreEventCount \/ Lock
  \/ SkipEvent \/ Dispatch \/ DispatchEmpty \/ HandlerReturn
  \/ EndOfPass \/ ExecuteReturn
  \/ DrainCall("loop") \/ DrainReturn("loop")

CallerStep(t) ==
  \/ \E f \in Fds : \/ addEvent(t, f) \/ addOutEvent(t, f)
                    \/ eraseEvent(t, f) \/ eraseOutEvent(t, f)
  \/ stop(t)

Environment ==
  \/ \E f \in Fds, d \in Dirs : Arrive(f, d)
  \/ \E f \in Fds : Close(f)
  \/ EpollInterrupted \/ EpollFails

Next ==
  \/ ExecuteBegin \/ ExecuteStep \/ DispatchDangling
  \/ \E t \in Threads : CallerStep(t)
  \/ DrainCall("app") \/ DrainReturn("app")
  \/ Environment

Spec == Init /\ [][Next]_vars

(* Every thread keeps running, every callback ends, and the kernel serves  *)
(* its ready list in turn, so no item stays in it forever while            *)
(* epoll_wait() is called.                                                 *)
Fairness ==
  /\ WF_vars(ExecuteStep \/ DispatchDangling)
  /\ SF_vars(HandlerReturn)
  /\ WF_vars(DrainCall("app") \/ DrainReturn("app"))
  /\ \A x \in Fds \cup {StopFd} : SF_vars(EpollWait /\ x \in Deliverable \ ready')

FairSpec == Spec /\ Fairness

-----------------------------------------------------------------------------
(* Properties                                                              *)

Running == pc \in {"lock", "scan", "handler"}

(* The slots of the current batch: those that execute() is going to look at. *)
BatchSize == IF pc = "store" THEN fetched ELSE IF Running THEN m_eventCount ELSE 0

(* (f, d) is set in the current batch.                                     *)
InBatch(f, d) == \E i \in 1..BatchSize : /\ m_events[i].ptr = node[f]
                                         /\ d \in m_events[i].events

(* Each event in the first k slots belongs to an entry of m_eventInfos     *)
(* that exists and has that callback set.                                  *)
SlotsLive(k) ==
  \A i \in 1..k : \A d \in m_events[i].events :
    \E f \in Fds : node[f] = m_events[i].ptr /\ d \in handlers[f]

(* eraseEvent(): "no handlers callback function will be called from        *)
(* pending events afterwards".  Whenever execute() holds a batch, each     *)
(* event in it belongs to an entry of m_eventInfos that still exists and   *)
(* has that callback set, whatever callbacks have erased, added and        *)
(* replaced meanwhile.                                                     *)
BatchLive == Running => SlotsLive(m_eventCount)

(* The kernel never keeps the address of an entry that was erased, and     *)
(* watches exactly the directions that have a callback.                    *)
KernelAgrees ==
  \A f \in Fds : kmask[f] # {} =>
    /\ node[f] # NullPtr
    /\ kptr[f] = node[f]
    /\ kmask[f] = handlers[f]

(* Edge-triggered epoll reports work only once.  Work that waits at a      *)
(* watched descriptor is in the ready list or in the current batch, unless *)
(* stop() cut off the batch that reported it or its callback threw.        *)
NoLostWakeup ==
  pc # "undefined" =>
    \A f \in Fds : \A d \in kmask[f] :
      level[f][d] > 0 => \/ f \in ready
                         \/ InBatch(f, d)
                         \/ <<f, d>> \in lostByStop \cup lostByThrow

(* The same across stop() and a second execute(): no excuse for events     *)
(* left behind by stop().  The drain loop of an addEvent() that has not    *)
(* returned yet still takes the work.                                      *)
NoWakeupLostByStop ==
  pc # "undefined" =>
    \A f \in Fds : \A d \in kmask[f] :
      level[f][d] > 0 => \/ f \in ready
                         \/ InBatch(f, d)
                         \/ <<f, d>> \in lostByThrow
                         \/ \E t \in Threads : drain[t].fd = f /\ drain[t].dir = d

Arrival == \E f \in Fds, d \in Dirs : Arrive(f, d)

(* stop() makes execute() return.                                          *)
StopReturns == (StopFd \in ready /\ pc # "idle") ~> pc \in {"idle", "undefined"}

(* stop() makes execute() return if the descriptors calm down.             *)
StopReturnsWhenCalm == <>[][~Arrival]_vars => StopReturns

(* Work at a watched descriptor is handled while execute() runs, if the    *)
(* descriptors calm down.                                                  *)
WorkHandledWhenCalm ==
  <>[][~Arrival]_vars =>
    \A f \in Fds, d \in Dirs :
      (d \in kmask[f] /\ level[f][d] > 0 /\ pc # "idle")
        ~> \/ d \notin kmask[f] \/ level[f][d] = 0
           \/ pc \in {"idle", "undefined"}
           \/ <<f, d>> \in lostByStop \cup lostByThrow
=============================================================================
