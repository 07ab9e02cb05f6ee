------------------------------ MODULE Sockets -------------------------------
(***************************************************************************)
(* The life cycle of sockets on Linux: SocketNonblocking                   *)
(* (lib/communication/linux/socketnonblocking.cpp) and TcpServer           *)
(* (lib/communication/linux/tcpserver.cpp) over the descriptor table of    *)
(* the process and the registrations of one EventLoop.                     *)
(*                                                                         *)
(* "client" is a SocketNonblocking of the application, "worker" the one an *)
(* accept callback has kept, "server" a TcpServer.  "other" is the rest of *)
(* the program: another thread that opens descriptors, registers them, and *)
(* closes them.  The kernel gives out the lowest free number, so a number  *)
(* that one of them closes is the next one that another of them gets.      *)
(***************************************************************************)
EXTENDS Integers, FiniteSets, FiniteSetsExt

CONSTANTS
  MaxFds,     \* size of the descriptor table
  MaxBacklog, \* argument backlog of start()
  Listeners   \* bound: the sockets that have callbacks set and cleared

ASSUME SocketsAssumption ==
  /\ MaxFds \in Nat \ {0}
  /\ MaxBacklog \in Nat \ {0}
  /\ Listeners \subseteq {"client", "worker"}

Numbers == 0..(MaxFds - 1)
Sockets == {"client", "worker"}
Owners  == Sockets \cup {"server", "other"}
Dirs    == {"in", "out"}

VARIABLES
  k,         \* descriptors and registrations, see NoFiles
  event,     \* SocketNonblocking::m_event
  handler,   \* m_inDataHandler, m_outDataHandler: is there a callback?
  closing,   \* past close() in disconnect(): the events of the socket still to erase
  listening, \* TcpServer::m_listeningEvent
  acceptCb,  \* TcpServer::m_acceptCb: is there a callback?
  ready,     \* has listen() succeeded on m_listeningEvent?
  waiting,   \* connections in the queue of the listening socket
  signalled, \* does the listening socket have an event that was not taken yet?
  accepting, \* is process() being called, by execute() or by addEvent()?
  held,      \* the descriptor that "other" has opened, or -1
  past       \* history, see NoPast

socket  == <<event, handler, closing>>
server  == <<listening, acceptCb, ready, waiting, signalled, accepting>>
vars    == <<k, socket, server, held, past>>

(* opened: who has opened a descriptor; entry: whose callbacks             *)
(* m_eventInfos holds; watched: the events epoll reports for the open file.*)
NoFiles == [opened  |-> [n \in Numbers |-> "free"],
            entry   |-> [n \in Numbers |-> [d \in Dirs |-> "none"]],
            watched |-> [n \in Numbers |-> {}]]

(* robbed: owners whose descriptor or registration was taken away by       *)
(* another object; the rest says what the code does not cope with.         *)
NoPast == [robbed |-> {}, stopped |-> FALSE, stoppedAgain |-> FALSE, reused |-> FALSE,
           leaked |-> {}, odd |-> {}, stalled |-> FALSE]

TypeOK ==
  /\ k \in [opened  : [Numbers -> Owners \cup {"free"}],
            entry   : [Numbers -> [Dirs -> Owners \cup {"none"}]],
            watched : [Numbers -> SUBSET Dirs]]
  /\ event \in [Sockets -> Numbers \cup {-1}]
  /\ handler \in [Sockets -> [Dirs -> BOOLEAN]]
  /\ closing \in [Sockets -> {{}, {"out"}, Dirs}]
  /\ {listening, held} \subseteq Numbers \cup {-1}
  /\ {acceptCb, ready, signalled, accepting} \subseteq BOOLEAN
  /\ waiting \in 0..MaxBacklog
  /\ past \in [robbed : SUBSET Owners, stopped : BOOLEAN, stoppedAgain : BOOLEAN,
               reused : BOOLEAN, leaked : SUBSET Owners, odd : SUBSET Sockets,
               stalled : BOOLEAN]

Init ==
  /\ k = NoFiles
  /\ event = [s \in Sockets |-> -1]
  /\ handler = [s \in Sockets |-> [d \in Dirs |-> FALSE]]
  /\ closing = [s \in Sockets |-> {}]
  /\ listening = -1 /\ acceptCb = FALSE
  /\ ready = FALSE /\ waiting = 0 /\ signalled = FALSE /\ accepting = FALSE
  /\ held = -1
  /\ past = NoPast

-----------------------------------------------------------------------------
(* The kernel's table (external) and the event loop, as functions on k.    *)

Free(f) == {n \in Numbers : f.opened[n] = "free"}
Lowest  == Min(Free(k))

Opened(f, n, o) == [f EXCEPT !.opened[n] = o]

(* Mutant of Closed: the descriptor stays open.                            *)
ClosedNot(f, n) == f

Closed(f, n) ==
  IF n = -1 THEN f ELSE [f EXCEPT !.opened[n] = "free", !.watched[n] = {}]

(* EPOLL_CTL_ADD, or EPOLL_CTL_MOD if there is an entry; the entry is      *)
(* changed even if epoll_ctl() fails.                                      *)
Added(f, n, d, o) ==
  LET hasEntry == \E x \in Dirs : f.entry[n][x] # "none"
      events   == {d} \cup {x \in Dirs : f.entry[n][x] # "none"}
      works    == f.opened[n] # "free" /\ (hasEntry <=> f.watched[n] # {})
  IN  IF n = -1 THEN f
      ELSE [f EXCEPT !.entry[n][d] = o, !.watched[n] = IF works THEN events ELSE @]

(* EPOLL_CTL_MOD if the other direction stays, otherwise EPOLL_CTL_DEL.    *)
Erased(f, n, d) ==
  IF n = -1 \/ (n # -1 /\ f.entry[n][d] = "none") THEN f
  ELSE [f EXCEPT !.entry[n][d] = "none",
                 !.watched[n] = IF @ = {} THEN {} ELSE {x \in Dirs \ {d} : f.entry[n][x] # "none"}]

(* Whom owner o takes something away from by closing n, or by erasing the  *)
(* events ds of n.                                                         *)
HitByClose(f, n, o)     == IF n = -1 THEN {} ELSE {f.opened[n]} \ {"free", o}
HitByErase(f, n, ds, o) == IF n = -1 THEN {} ELSE {f.entry[n][d] : d \in ds} \ {"none", o}

(* The number n is given out while a disconnect() has still to erase it.   *)
Reuses(n) == \E s \in Sockets : closing[s] # {} /\ event[s] = n

(* The older descriptor of the owner is still open when it gets a new one. *)
Overwrites(o, n) == IF n # -1 /\ k.opened[n] = o THEN {o} ELSE {}

-----------------------------------------------------------------------------
(* SocketNonblocking                                                       *)

Idle(s) == closing[s] = {}

(* connect(): socket() fails.                                              *)
ConnectNoSocket(s) ==
  /\ Idle(s) /\ Free(k) = {}
  /\ event' = [event EXCEPT ![s] = -1]
  /\ past' = [past EXCEPT !.leaked = @ \cup Overwrites(s, event[s])]
  /\ UNCHANGED <<k, handler, closing, server, held>>

(* Mutant of Preset: the input callback decides for both directions.       *)
PresetIn(s, d) == handler[s]["in"]

Preset(s, d) == handler[s][d]

(* connect(), the rest of it: the callbacks that were set before are       *)
(* registered.  Whether setSocketOptions() or the connection itself fails  *)
(* or times out changes the return value only.                             *)
connect(s) ==
  /\ Idle(s) /\ Free(k) # {}
  /\ LET opened == Opened(k, Lowest, s)
         in     == IF Preset(s, "in") THEN Added(opened, Lowest, "in", s) ELSE opened
     IN  k' = IF Preset(s, "out") THEN Added(in, Lowest, "out", s) ELSE in
  /\ event' = [event EXCEPT ![s] = Lowest]
  /\ past' = [past EXCEPT !.leaked = @ \cup Overwrites(s, event[s]),
                          !.reused = @ \/ Reuses(Lowest)]
  /\ UNCHANGED <<handler, closing, server, held>>

(* setDataCb(), setOutDataCb().  std::bind() of an empty callback is not   *)
(* empty: it is registered, and throws when it is called.                  *)
setDataCb(s, d, cb) ==
  /\ Idle(s)
  /\ handler' = [handler EXCEPT ![s][d] = cb]
  /\ k' = Added(k, event[s], d, s)
  /\ past' = [past EXCEPT !.odd = IF cb THEN @ ELSE @ \cup {s}]
  /\ UNCHANGED <<event, closing, server, held>>

clearDataCb(s) ==
  /\ Idle(s)
  /\ handler' = [handler EXCEPT ![s]["in"] = FALSE]
  /\ k' = Erased(k, event[s], "in")
  /\ past' = [past EXCEPT !.robbed = @ \cup HitByErase(k, event[s], {"in"}, s)]
  /\ UNCHANGED <<event, closing, server, held>>

(* m_inDataHandler is cleared, not m_outDataHandler.                       *)
clearOutDataCb(s) ==
  /\ Idle(s)
  /\ handler' = [handler EXCEPT ![s]["in"] = FALSE]
  /\ k' = Erased(k, event[s], "out")
  /\ past' = [past EXCEPT !.robbed = @ \cup HitByErase(k, event[s], {"out"}, s),
                          !.odd = @ \cup {s}]
  /\ UNCHANGED <<event, closing, server, held>>

(* disconnect(), which the destructor calls too: close() ...               *)
DisconnectClose(s) ==
  /\ Idle(s) /\ event[s] # -1
  /\ k' = Closed(k, event[s])
  /\ closing' = [closing EXCEPT ![s] = Dirs]
  /\ past' = [past EXCEPT !.robbed = @ \cup HitByClose(k, event[s], s)]
  /\ UNCHANGED <<event, handler, server, held>>

(* Mutant of Reset: m_event keeps its value.                               *)
ResetForgotten(s) == event

Reset(s) == [event EXCEPT ![s] = -1]

(* ... and then eraseEvent() ...                                           *)
DisconnectEraseIn(s) ==
  /\ "in" \in closing[s]
  /\ k' = Erased(k, event[s], "in")
  /\ closing' = [closing EXCEPT ![s] = {"out"}]
  /\ past' = [past EXCEPT !.robbed = @ \cup HitByErase(k, event[s], {"in"}, s)]
  /\ UNCHANGED <<event, handler, server, held>>

(* ... and eraseOutEvent() for the same number.                            *)
DisconnectErase(s) ==
  /\ closing[s] = {"out"}
  /\ k' = Erased(k, event[s], "out")
  /\ event' = Reset(s)
  /\ closing' = [closing EXCEPT ![s] = {}]
  /\ past' = [past EXCEPT !.robbed = @ \cup HitByErase(k, event[s], {"out"}, s)]
  /\ UNCHANGED <<handler, server, held>>

-----------------------------------------------------------------------------
(* TcpServer                                                               *)

(* What every start() does to the history.                                 *)
Restarted(n) == [past EXCEPT !.leaked = @ \cup Overwrites("server", listening),
                             !.reused = @ \/ Reuses(n), !.stopped = FALSE, !.stalled = FALSE]

(* start(): socket() fails.                                                *)
StartNoSocket ==
  /\ ~accepting /\ Free(k) = {}
  /\ listening' = -1
  /\ ready' = FALSE /\ waiting' = 0 /\ signalled' = FALSE
  /\ past' = Restarted(-1)
  /\ UNCHANGED <<k, socket, acceptCb, accepting, held>>

(* start(): setsockopt(), bind() or listen() fails; the socket stays open. *)
StartFails ==
  /\ ~accepting /\ Free(k) # {}
  /\ k' = Opened(k, Lowest, "server")
  /\ listening' = Lowest
  /\ ready' = FALSE /\ waiting' = 0 /\ signalled' = FALSE
  /\ past' = Restarted(Lowest)
  /\ UNCHANGED <<socket, acceptCb, accepting, held>>

(* start(): n connections come in before the socket is registered.  The    *)
(* unix domain server takes an empty callback.  addEvent() calls process() *)
(* until nothing is left, unless epoll_ctl() fails, which start() ignores. *)
start(cb, n) ==
  /\ ~accepting /\ Free(k) # {}
  /\ k' = Added(Opened(k, Lowest, "server"), Lowest, "in", "server")
  /\ listening' = Lowest
  /\ acceptCb' = cb
  /\ ready' = TRUE
  /\ waiting' = n
  /\ accepting' = (k'.watched[Lowest] # {})
  /\ signalled' = (accepting' /\ n > 0)
  /\ past' = Restarted(Lowest)
  /\ UNCHANGED <<socket, held>>

(* stop(), which the destructor calls too, or an accept callback.          *)
stop ==
  /\ k' = Closed(Erased(k, listening, "in"), listening)
  /\ acceptCb' = FALSE
  /\ ready' = FALSE /\ waiting' = 0 /\ signalled' = FALSE /\ accepting' = FALSE
  /\ past' = [past EXCEPT !.robbed = @ \cup HitByErase(k, listening, {"in"}, "server")
                                       \cup HitByClose(k, listening, "server"),
                          !.stoppedAgain = @ \/ past.stopped,
                          !.stopped = TRUE, !.stalled = FALSE]
  /\ UNCHANGED <<socket, listening, held>>

(* execute() takes the event of the listening socket.                      *)
Dispatch ==
  /\ signalled /\ ~accepting
  /\ k.watched[listening] # {} /\ k.entry[listening]["in"] = "server"
  /\ signalled' = FALSE
  /\ accepting' = TRUE
  /\ UNCHANGED <<k, socket, listening, acceptCb, ready, waiting, held, past>>

(* Mutant of Again: one connection per event.                              *)
AgainNot == FALSE

(* What process() returns after a connection: call me again.               *)
Again == TRUE

Taken == waiting - 1

(* process(): the accept callback keeps the new socket, or drops it, which *)
(* closes it again.                                                        *)
Accept(keep) ==
  /\ accepting /\ waiting > 0 /\ acceptCb /\ Free(k) # {}
  /\ waiting' = Taken
  /\ accepting' = Again
  /\ IF keep
     THEN /\ event["worker"] = -1
          /\ k' = Opened(k, Lowest, "worker")
          /\ event' = [event EXCEPT !["worker"] = Lowest]
          /\ handler' = [handler EXCEPT !["worker"] = [d \in Dirs |-> FALSE]]
          /\ past' = [past EXCEPT !.reused = @ \/ Reuses(Lowest), !.odd = @ \ {"worker"}]
     ELSE /\ k' = Erased(Erased(k, Lowest, "in"), Lowest, "out")
          /\ UNCHANGED <<event, handler, past>>
  /\ UNCHANGED <<closing, listening, acceptCb, ready, signalled, held>>

(* process(): nothing left, -1.                                            *)
AcceptNone ==
  /\ accepting /\ waiting = 0
  /\ accepting' = FALSE
  /\ UNCHANGED <<k, socket, listening, acceptCb, ready, waiting, signalled, held, past>>

(* process(): no free descriptor, or a connection that was aborted; -1.    *)
AcceptFails ==
  /\ accepting /\ waiting > 0
  /\ waiting' \in {waiting - 1} \cup (IF Free(k) = {} THEN {waiting} ELSE {})
  /\ accepting' = FALSE
  /\ past' = [past EXCEPT !.stalled = @ \/ waiting' > 0]
  /\ UNCHANGED <<k, socket, listening, acceptCb, ready, signalled, held>>

(* process(): the constructor of SocketNonblocking throws, and nobody owns *)
(* the descriptor; or the accept callback does, or is empty.               *)
AcceptThrows ==
  /\ accepting /\ waiting > 0 /\ Free(k) # {}
  /\ waiting' = waiting - 1
  /\ accepting' = FALSE
  /\ \/ /\ k' = Opened(k, Lowest, "worker")
        /\ past' = [past EXCEPT !.leaked = @ \cup {"worker"}, !.stalled = @ \/ waiting' > 0,
                                !.reused = @ \/ Reuses(Lowest)]
     \/ /\ k' = Erased(Erased(k, Lowest, "in"), Lowest, "out")
        /\ past' = [past EXCEPT !.stalled = @ \/ waiting' > 0]
  /\ UNCHANGED <<socket, listening, acceptCb, ready, signalled, held>>

-----------------------------------------------------------------------------
(* The peers and the rest of the program (external).                       *)

Arrive ==
  /\ ready /\ waiting < MaxBacklog
  /\ waiting' = waiting + 1
  /\ signalled' = (signalled \/ k.watched[listening] # {})
  /\ past' = [past EXCEPT !.stalled = @ /\ ~signalled']
  /\ UNCHANGED <<k, socket, listening, acceptCb, ready, accepting, held>>

OtherOpens ==
  /\ held = -1 /\ Free(k) # {}
  /\ k' = Added(Opened(k, Lowest, "other"), Lowest, "in", "other")
  /\ held' = Lowest
  /\ past' = [past EXCEPT !.reused = @ \/ Reuses(Lowest)]
  /\ UNCHANGED <<socket, server>>

OtherCloses ==
  /\ held # -1
  /\ held' = -1
  /\ k' = IF k.opened[held] = "other" THEN Closed(Erased(k, held, "in"), held) ELSE k
  /\ UNCHANGED <<socket, server, past>>

-----------------------------------------------------------------------------
SocketCall ==
  \/ connect("client") \/ ConnectNoSocket("client")
  \/ \E s \in {x \in Listeners : x = "worker" => event[x] # -1} :
       \/ \E d \in Dirs, cb \in BOOLEAN : setDataCb(s, d, cb)
       \/ clearDataCb(s) \/ clearOutDataCb(s)
  \/ \E s \in Sockets : DisconnectClose(s) \/ DisconnectEraseIn(s) \/ DisconnectErase(s)

ServerCall == StartNoSocket \/ StartFails \/ stop
              \/ \E cb \in BOOLEAN, n \in 0..MaxBacklog : start(cb, n)

ProcessStep == (\E keep \in BOOLEAN : Accept(keep)) \/ AcceptNone \/ AcceptFails \/ AcceptThrows

Next == SocketCall \/ ServerCall \/ Dispatch \/ ProcessStep
        \/ Arrive \/ OtherOpens \/ OtherCloses

Spec == Init /\ [][Next]_vars

-----------------------------------------------------------------------------
(* Properties                                                              *)

(* "Remove this object from the event loop and close the server socket":   *)
(* no object closes a descriptor or erases an event that is not its own,   *)
(* but for two cases: stop() is called again, by the destructor, say; or a *)
(* number is given out between close() and eraseEvent() of disconnect().   *)
NobodyRobbed == past.robbed # {} => past.stoppedAgain \/ past.reused

(* A socket's descriptor is its own, and an open descriptor is still known *)
(* to the object that opened it, unless connect() or start() was called    *)
(* while one was open (after an attempt that failed, say), or the          *)
(* constructor of an accepted socket threw.                                *)
Ownership ==
  /\ \A s \in Sockets : event[s] # -1 /\ closing[s] = {} /\ s \notin past.robbed =>
       k.opened[event[s]] = s
  /\ \A n \in Numbers :
       /\ k.opened[n] \in Sockets =>
            \/ event[k.opened[n]] = n /\ closing[k.opened[n]] = {}
            \/ k.opened[n] \in past.leaked
       /\ k.opened[n] = "server" => listening = n \/ "server" \in past.leaked

(* A connected socket is watched for exactly the callbacks that are set,   *)
(* before or after connect(), unless one was set empty, clearOutDataCb()   *)
(* has cleared the wrong one, or its number was reused too early.          *)
CallbacksWatched ==
  \A s \in Sockets :
    event[s] # -1 /\ closing[s] = {} /\ s \notin past.odd \cup past.robbed /\ ~past.reused =>
    k.watched[event[s]] = {d \in Dirs : handler[s][d]}

(* A connection that waits to be accepted has its call of process() to     *)
(* come, unless one in front of it failed or threw: epoll reports the      *)
(* queue of connections once.                                              *)
AcceptDue ==
  ready /\ waiting > 0 =>
    \/ accepting
    \/ signalled /\ k.watched[listening] # {} /\ k.entry[listening]["in"] = "server"
    \/ past.stalled
    \/ past.robbed # {} \/ past.reused
=============================================================================
