----------------------------- MODULE ServersWin -----------------------------
(***************************************************************************)
(* TcpServer and the receiving side of MulticastServer on Windows          *)
(* (lib/communication/windows/tcpserver.cpp and multicastserver.cpp).      *)
(* Both keep one overlapped operation outstanding that delivers one        *)
(* connection or datagram, and order the next one when it was processed.   *)
(***************************************************************************)
EXTENDS CompletionPort

CONSTANT MaxInbox \* connections or datagrams that wait in the socket

ASSUME ServersWinAssumption == {"multicast", "tcp"} \subseteq Objects /\ Handles # {}

(* The items: an ordinary one; an empty datagram; for AcceptEx(), one that *)
(* completes with ERROR_NETNAME_DELETED or with another error.             *)
Items(o) == IF o = "multicast" THEN {"item", "empty"} ELSE {"item", "reset", "failed"}

VARIABLES
  theServer, \* "multicast" or "tcp"
  open,      \* is fileHandle a socket that is bound, or listens?
  associated,\* does the port get the completions of the socket?
  ordered,   \* operations outstanding
  inbox,     \* what waits in the socket
  slot,      \* m_recvBuffer and InternalHigh, m_acceptSocket: has an item arrived?
  step,      \* "starting": start() has still to add the event;
             \* "stopping": stop() of MulticastServer has still to erase it
  deaf       \* history: why nothing is ordered any more

swVars == <<theServer, open, associated, ordered, inbox, slot, step, deaf>>

hServer == CHOOSE h \in Handles : TRUE \* m_receiveEvent, m_listeningEvent: one event for good

ServersInit ==
  /\ theServer \in {"multicast", "tcp"}
  /\ open = FALSE /\ associated = FALSE /\ ordered = 0 /\ inbox = <<>> /\ slot = FALSE
  /\ step = "no" /\ deaf = {}

(* start(): the socket is new, and the first operation is ordered, which   *)
(* MulticastServer does not check ...                                      *)
StartOrder(works) ==
  /\ ~open /\ step = "no"
  /\ works \/ theServer = "multicast"
  /\ open' = TRUE /\ associated' = FALSE /\ inbox' = <<>>
  /\ ordered' = IF works THEN 1 ELSE 0
  /\ deaf' = IF works THEN {} ELSE {"not ordered"}
  /\ step' = "starting"
  /\ Reborn(theServer, hServer)
  /\ UNCHANGED <<port, infos, lpc, cur, retval, theServer, slot>>

(* start() fails before that.                                              *)
StartFailsWin ==
  /\ ~open /\ step = "no"
  /\ deaf' = {}
  /\ UNCHANGED <<portVars, theServer, open, associated, ordered, inbox, slot, step>>

(* ... and then the event is added.                                        *)
StartAdd ==
  /\ step = "starting"
  /\ step' = "no"
  /\ associated' = TRUE
  /\ addEvent(hServer, theServer)
  /\ UNCHANGED <<port, lpc, cur, retval, gen, reissued, strays, theServer, open, ordered, inbox, slot,
                 deaf>>

(* An outstanding operation takes the first item (external).  The port     *)
(* gets no completion of a socket that is not associated with it yet.      *)
Complete ==
  /\ ordered > 0 /\ inbox # <<>>
  /\ ordered' = ordered - 1
  /\ inbox' = Tail(inbox)
  /\ slot' = (Head(inbox) # "empty")
  /\ IF associated
     THEN Post(Completion(hServer, theServer, gen[theServer],
                          IF Head(inbox) = "reset" THEN "netname deleted"
                          ELSE IF Head(inbox) = "failed" THEN "other" ELSE "none"))
     ELSE UNCHANGED port
  /\ deaf' = deaf \cup (IF associated THEN {} ELSE {"unassociated"})
                  \cup (IF Head(inbox) = "failed" THEN {"failed"} ELSE {})
  /\ UNCHANGED <<infos, lpc, cur, retval, gen, reissued, strays, theServer, open, associated, step>>

ArriveWin(item) ==
  /\ open /\ Len(inbox) < MaxInbox
  /\ item \in Items(theServer)
  /\ inbox' = Append(inbox, item)
  /\ UNCHANGED <<portVars, theServer, open, associated, ordered, slot, step, deaf>>

(* orderNextMessage(), prepareAccept(); an operation that cannot be        *)
(* started is not tried again.                                             *)
Order(works) ==
  /\ ordered' = IF open /\ works THEN ordered + 1 ELSE ordered
  /\ deaf' = IF works THEN deaf ELSE deaf \cup {"not ordered"}

(* Mutant of Consumed: the next operation is not ordered.                  *)
ConsumedOnly(works) == slot' = FALSE /\ UNCHANGED <<ordered, deaf>>

Consumed(works) == slot' = FALSE /\ Order(works)

(* MulticastServer::process(), with a data handler that returns what       *)
(* receiveTelegram() does: -1 without data (an empty datagram), which      *)
(* orders nothing; -1 for an interface that is not known, after it has.    *)
processMulticast(known, works) ==
  /\ theServer = "multicast"
  /\ IF slot
     THEN Called("multicast", IF known THEN 1 ELSE -1) /\ Consumed(works)
     ELSE /\ Called("multicast", -1)
          /\ deaf' = IF ordered = 0 THEN deaf \cup {"empty"} ELSE deaf
          /\ UNCHANGED <<ordered, slot>>
  /\ UNCHANGED <<port, infos, theServer, open, associated, inbox, step>>

(* TcpServer::process(): the accept callback gets m_acceptSocket.          *)
processAccept(works) ==
  /\ theServer = "tcp"
  /\ Called("tcp", 0)
  /\ Consumed(works)
  /\ UNCHANGED <<port, infos, theServer, open, associated, inbox, step>>

(* stop(): the operations that are outstanding complete as aborted.        *)
(* TcpServer erases the event first, MulticastServer at last.  It may be   *)
(* called again, by the destructor, say; TcpServer then closes the same    *)
(* handle once more, which is taken to be nobody else's by then.           *)
StopClose ==
  /\ step = "no"
  /\ open' = FALSE /\ associated' = FALSE /\ ordered' = 0 /\ inbox' = <<>>
  /\ IF ordered > 0
     THEN Post(Completion(hServer, theServer, gen[theServer], "aborted"))
     ELSE UNCHANGED port
  /\ IF theServer = "tcp"
     THEN eraseEvent(hServer) /\ UNCHANGED step
     ELSE step' = "stopping" /\ UNCHANGED infos
  /\ UNCHANGED <<lpc, cur, retval, gen, reissued, strays, theServer, slot, deaf>>

StopErase ==
  /\ step = "stopping"
  /\ step' = "no"
  /\ eraseEvent(hServer)
  /\ UNCHANGED <<port, lpc, cur, retval, gen, reissued, strays, theServer, open, associated, ordered,
                 inbox, slot, deaf>>

ServerStep ==
  \/ StartFailsWin \/ StartAdd \/ Complete \/ StopClose \/ StopErase
  \/ \E item \in {"item", "empty", "reset", "failed"} : ArriveWin(item)
  \/ \E works \in BOOLEAN : \/ StartOrder(works)
                            \/ \E known \in BOOLEAN : processMulticast(known, works)
                            \/ processAccept(works)

ServerNext == ServerStep \/ ((LoopStep \/ NotFound) /\ UNCHANGED swVars)

ServerSpec == PortInit /\ ServersInit /\ [][ServerNext]_<<portVars, swVars>>

-----------------------------------------------------------------------------
(* A server that was started has an operation outstanding, or the          *)
(* completion of one still to come, also after it was stopped and started  *)
(* with completions left.  It stays deaf after an item that came before    *)
(* start() had added the event, an empty datagram, an error other than a   *)
(* reset connection, and an operation that could not be started.           *)
OperationDue ==
  open /\ step = "no" /\ deaf = {} => ordered > 0 \/ Due(theServer)
=============================================================================
