----------------------------- MODULE Multicast ------------------------------
(***************************************************************************)
(* MulticastServer on Linux (lib/communication/linux/multicastserver.cpp): *)
(* one object that receives in the event loop and is used for sending by   *)
(* two threads; and its calls for sending on Windows.  It sees the         *)
(* interfaces through the list that NetadapterList keeps, which other code *)
(* refreshes at any time.                                                  *)
(***************************************************************************)
EXTENDS Interfaces

CONSTANT MaxDatagrams \* datagrams the receive buffer holds

ASSUME MulticastAssumption == MaxDatagrams \in Nat \ {0}

Senders == {"loop", "app"}
NoIf    == "no interface"
Results == {"ERR_SUCCESS", "ERR_INVALIDADAPTER", "ERR_NO_SUCCESS"}

VARIABLES
  sendSock,   \* is m_sendEvent a socket?
  recvSock,   \* is m_receiveEvent a socket, and bound?
  registered, \* is m_receiveEvent registered with the event loop, for m_dataHandler?
  joined,     \* kernel: memberships of the receiving socket
  datagrams,  \* kernel: its receive buffer: the interface and the size of each datagram
  mcEvent,    \* does the receiving socket have an event that was not taken yet?
  processing, \* is process() being called, by execute() or by addEvent()?
  mif,        \* kernel: IP_MULTICAST_IF of the sending socket, NoIf: the default
  call,       \* per thread, the call of send() or sendOverInterface...(), or NoCall
  mcStalled   \* history: datagrams were left behind in the receive buffer

socket   == <<recvSock, registered, joined>>
inbox    == <<datagrams, mcEvent, processing, mcStalled>>
receiver == <<socket, inbox>>
mcVars   == <<sendSock, receiver, mif, call>>

Datagrams == [if : Ifs, size : {0, 1}]

(* What IP_MULTICAST_IF is set to: the address or the index of the         *)
(* interface or, on Windows, the address of the group or no interface.     *)
Ways == {"address", "index", "group", "default"}

(* todo: the interfaces left; usable: the ones with an address in the copy *)
(* of the list; by: how IP_MULTICAST_IF is set; chosen: the one it was set *)
(* for; ret: retVal.  History: crossed: another thread was sending; if not, *)
(* want: the interfaces the call is for, over: the ones the message has    *)
(* left over.                                                              *)
Calls == [todo : SUBSET Ifs, usable : SUBSET Ifs, by : Ways,
          chosen : Ifs \cup {NoIf}, ret : Results,
          want : SUBSET Ifs, over : SUBSET Ifs, crossed : BOOLEAN]
NoCall == <<>>

McTypeOK ==
  /\ {sendSock, recvSock, registered, mcEvent, processing, mcStalled} \subseteq BOOLEAN
  /\ joined \subseteq Ifs
  /\ datagrams \in Seq(Datagrams) /\ Len(datagrams) <= MaxDatagrams
  /\ mif \in Ifs \cup {NoIf}
  /\ call \in [Senders -> Calls \cup {NoCall}]

McInit ==
  /\ sendSock = FALSE /\ recvSock = FALSE /\ registered = FALSE
  /\ joined = {} /\ datagrams = <<>> /\ mcEvent = FALSE /\ processing = FALSE
  /\ mif = NoIf
  /\ call = [t \in Senders |-> NoCall]
  /\ mcStalled = FALSE

-----------------------------------------------------------------------------
(* start() and stop()                                                      *)

(* A new receiving socket is a member of no group and has received nothing.*)
NewReceiver ==
  joined' = {} /\ datagrams' = <<>> /\ mcEvent' = FALSE /\ mcStalled' = FALSE

(* setupSendSocket(): a new socket, without an interface.                  *)
setupSendSocket(works) == sendSock' = works /\ mif' = NoIf

(* The application calls start() while it is neither receiving nor sending.*)
MayStart == ~processing /\ \A t \in Senders : call[t] = NoCall

(* start(): setupSendSocket() fails.                                       *)
StartNoSender ==
  /\ MayStart
  /\ setupSendSocket(FALSE)
  /\ UNCHANGED <<receiver, call>>

(* start(): setupReceiveSocket() fails, for an address that is not valid   *)
(* or later, and leaves the sending socket open.                           *)
StartNoReceiver ==
  /\ MayStart
  /\ setupSendSocket(TRUE)
  /\ \/ UNCHANGED receiver
     \/ recvSock' = FALSE /\ registered' = FALSE /\ NewReceiver /\ UNCHANGED processing
  /\ UNCHANGED call

(* start(): addEvent() calls process() until nothing is left.              *)
McStart(cb) ==
  /\ MayStart
  /\ setupSendSocket(TRUE) /\ NewReceiver
  /\ recvSock' = TRUE
  /\ registered' = cb
  /\ processing' = cb
  /\ UNCHANGED call

(* stop(), also by the data handler, or while another thread sends.        *)
McStop ==
  /\ recvSock' = FALSE /\ registered' = FALSE /\ processing' = FALSE
  /\ setupSendSocket(FALSE) /\ NewReceiver
  /\ UNCHANGED call

-----------------------------------------------------------------------------
(* Memberships                                                             *)

(* What IP_ADD_MEMBERSHIP and IP_DROP_MEMBERSHIP need: an interface that   *)
(* exists and, if it is given by its address, has it.                      *)
Reachable(i, by) == recvSock /\ link[i] # "gone" /\ (by = "address" => addr[i])

addInterface(i, by) ==
  /\ Reachable(i, by)
  /\ joined' = joined \cup {i}
  /\ UNCHANGED <<sendSock, recvSock, registered, inbox, mif, call>>

dropInterface(i, by) ==
  /\ Reachable(i, by)
  /\ joined' = joined \ {i}
  /\ UNCHANGED <<sendSock, recvSock, registered, inbox, mif, call>>

(* addAllInterfaces(), dropAllInterfaces(): by index, for what is known.   *)
addAllInterfaces ==
  /\ joined' = joined \cup {i \in Ifs : Known(i) /\ Reachable(i, "index")}
  /\ UNCHANGED <<sendSock, recvSock, registered, inbox, mif, call>>

dropAllInterfaces ==
  /\ joined' = joined \ {i \in Ifs : Known(i) /\ Reachable(i, "index")}
  /\ UNCHANGED <<sendSock, recvSock, registered, inbox, mif, call>>

-----------------------------------------------------------------------------
(* Receiving                                                               *)

(* The kernel puts a datagram into the receive buffer, of a peer, or one   *)
(* that was sent here if setMulticastLoop(true) was called (external).     *)
Arrive(i, size) ==
  /\ recvSock /\ i \in joined /\ link[i] = "up" /\ Len(datagrams) < MaxDatagrams
  /\ datagrams' = Append(datagrams, [if |-> i, size |-> size])
  /\ mcEvent' = (mcEvent \/ registered)
  /\ mcStalled' = (mcStalled /\ ~mcEvent')
  /\ UNCHANGED <<sendSock, socket, processing, mif, call>>

McDispatch ==
  /\ registered /\ mcEvent /\ ~processing
  /\ mcEvent' = FALSE
  /\ processing' = TRUE
  /\ UNCHANGED <<sendSock, socket, datagrams, mcStalled, mif, call>>

(* Mutant of Received: one datagram per event.                             *)
ReceivedOne(d, byIndex) == FALSE

(* receiveTelegram() returns a positive number: an empty datagram gives 0, *)
(* and the variants that look up the adapter give -1 if it is not known.   *)
Received(d, byIndex) == d.size > 0 /\ (byIndex \/ Known(d.if))

(* process() with a data handler that returns what receiveTelegram() does. *)
process(byIndex) ==
  /\ processing /\ datagrams # <<>>
  /\ LET d == Head(datagrams)
     IN  /\ processing' = Received(d, byIndex)
         /\ mcStalled' = ((d.size = 0 \/ ~Known(d.if)) /\ ~processing' /\ ~mcEvent)
  /\ datagrams' = Tail(datagrams)
  /\ UNCHANGED <<sendSock, socket, mcEvent, mif, call>>

(* process(): recvmsg() fails, since nothing is left.                      *)
ProcessEmpty ==
  /\ processing /\ datagrams = <<>>
  /\ processing' = FALSE
  /\ UNCHANGED <<sendSock, socket, datagrams, mcEvent, mcStalled, mif, call>>

-----------------------------------------------------------------------------
(* Sending                                                                 *)

Begin(t, ifs, usable, by) ==
  /\ call[t] = NoCall
  /\ LET others == {u \in Senders : call[u] # NoCall}
     IN  call' = [u \in Senders |->
           IF u = t THEN [todo |-> ifs, usable |-> usable \cap ifs, by |-> by, chosen |-> NoIf,
                          ret |-> "ERR_SUCCESS", over |-> {},
                          want |-> IF others = {} THEN ifs ELSE {}, crossed |-> others # {}]
           ELSE IF u \in others THEN [call[u] EXCEPT !.want = {}, !.over = {}, !.crossed = TRUE]
           ELSE NoCall]
  /\ UNCHANGED <<sendSock, receiver, mif>>

WithAddress == {i \in Ifs : adapters[i] = "addr"}

(* send(): over all interfaces of a copy of the list.                      *)
send(t) == Begin(t, {i \in Ifs : Known(i)}, WithAddress, "address")

(* sendOverInterface() takes the address from the list, or the index ...   *)
sendOverInterface(t, i) == Begin(t, {i}, WithAddress, "address")

(* ... and these get it from the caller.                                   *)
sendOverInterfaceBy(t, i, by) == Begin(t, {i}, Ifs, by)

(* Windows (lib/communication/windows/multicastserver.cpp).  send() and    *)
(* sendOverInterfaceByIndex() pass a structure that starts with four zero  *)
(* bytes, which stand for the default interface; only sendOverInterface()  *)
(* with a buffer passes the index.  sendOverInterfaceByAddress() converts  *)
(* the group instead of the address it was given, which selects none.      *)
sendWin(t) == Begin(t, {i \in Ifs : Known(i)}, Ifs, "default")
sendOverInterfaceWin(t, i) == Begin(t, {i}, WithAddress, "group")
sendOverInterfaceDataWin(t, i) == Begin(t, {i}, Ifs, "index")
sendOverInterfaceByWin(t, i, by) ==
  Begin(t, {i}, Ifs, IF by = "address" THEN "group" ELSE "default")

(* Mutant of Result: a later success hides an earlier error.               *)
ResultOfLast(old, new) == new

(* send() keeps the last error.                                            *)
Result(old, new) == IF new # "ERR_SUCCESS" THEN new ELSE old

(* One interface is done, and the message has left over the interfaces on. *)
Finish(t, i, result, on) ==
  LET c == call[t]
  IN  call' = [call EXCEPT ![t] =
        [c EXCEPT !.todo = @ \ {i}, !.usable = @ \ {i}, !.chosen = NoIf,
                  !.ret = Result(@, result), !.over = IF c.crossed THEN {} ELSE @ \cup on]]

(* IP_MULTICAST_IF can be set: the interface exists, and has the address.  *)
(* The default can always be set.                                          *)
Settable(c, i) ==
  /\ sendSock /\ i \in c.usable
  /\ \/ c.by = "default"
     \/ c.by = "index" /\ link[i] # "gone"
     \/ c.by = "address" /\ link[i] # "gone" /\ addr[i]

(* IP_MULTICAST_IF and IP_MULTICAST_TTL are set on the one sending socket. *)
SetInterface(t, i) ==
  /\ call[t] # NoCall /\ i \in call[t].todo /\ call[t].chosen = NoIf
  /\ Settable(call[t], i)
  /\ mif' = IF call[t].by = "default" THEN NoIf ELSE i
  /\ call' = [call EXCEPT ![t].chosen = i]
  /\ UNCHANGED <<sendSock, receiver>>

(* The adapter has no address in the list, or no longer in the kernel; or  *)
(* the interface has gone.                                                 *)
NoInterface(t, i) ==
  /\ call[t] # NoCall /\ i \in call[t].todo /\ call[t].chosen = NoIf
  /\ ~Settable(call[t], i)
  /\ Finish(t, i, "ERR_INVALIDADAPTER", {})
  /\ UNCHANGED <<sendSock, receiver, mif>>

(* The interfaces a datagram can leave over: the one that is set on the    *)
(* socket by then or, if it is the default, the one the system takes.      *)
Outgoing == {i \in Ifs : mif \in {i, NoIf} /\ link[i] = "up"}

SendTo(t) ==
  /\ call[t] # NoCall /\ call[t].chosen # NoIf
  /\ sendSock
  /\ \E i \in Outgoing : Finish(t, call[t].chosen, "ERR_SUCCESS", {i})
  /\ UNCHANGED <<sendSock, receiver, mif>>

SendToFails(t) ==
  /\ call[t] # NoCall /\ call[t].chosen # NoIf
  /\ sendSock => Outgoing = {}
  /\ Finish(t, call[t].chosen, "ERR_NO_SUCCESS", {})
  /\ UNCHANGED <<sendSock, receiver, mif>>

Returns(t) == call[t] # NoCall /\ call[t].todo = {}

Return(t) ==
  /\ Returns(t)
  /\ call' = [call EXCEPT ![t] = NoCall]
  /\ UNCHANGED <<sendSock, receiver, mif>>

-----------------------------------------------------------------------------
ServerCall ==
  \/ StartNoSender \/ StartNoReceiver \/ McStop
  \/ \E cb \in BOOLEAN : McStart(cb)

MembershipCall ==
  \/ \E i \in Ifs, by \in {"address", "index"} : addInterface(i, by) \/ dropInterface(i, by)
  \/ addAllInterfaces \/ dropAllInterfaces

ReceiveStep ==
  \/ \E i \in Ifs, size \in {0, 1} : Arrive(i, size)
  \/ McDispatch \/ ProcessEmpty
  \/ \E byIndex \in BOOLEAN : process(byIndex)

SendCall == \E t \in Senders :
  \/ send(t)
  \/ \E i \in Ifs : \/ sendOverInterface(t, i)
                   \/ \E by \in {"address", "index"} : sendOverInterfaceBy(t, i, by)

SendCallWin == \E t \in Senders :
  \/ sendWin(t)
  \/ \E i \in Ifs : \/ sendOverInterfaceWin(t, i) \/ sendOverInterfaceDataWin(t, i)
                   \/ \E by \in {"address", "index"} : sendOverInterfaceByWin(t, i, by)

SendStep == \E t \in Senders :
  \/ SendTo(t) \/ SendToFails(t) \/ Return(t)
  \/ \E i \in Ifs : SetInterface(t, i) \/ NoInterface(t, i)

(* The kernel and the list change; an interface that goes away takes its   *)
(* membership with it (external).                                          *)
Environment ==
  /\ \/ (\E type \in Types, i \in Ifs : Changes(type, i)) /\ UNCHANGED adapters
     \/ adapters' = ReadInterfaces({}) /\ UNCHANGED <<link, addr, changes>>
  /\ joined' = {i \in joined : link'[i] # "gone"}
  /\ UNCHANGED <<sendSock, recvSock, registered, inbox, mif, call>>

interfaces == <<link, addr, adapters, changes>>

(* All of it, with the calls for sending of both platforms.                *)
McNext ==
  \/ /\ \/ ServerCall \/ MembershipCall \/ ReceiveStep
        \/ SendCall \/ SendCallWin \/ SendStep
     /\ UNCHANGED interfaces
  \/ Environment

McSpec == InterfacesInit /\ McInit /\ [][McNext]_<<interfaces, mcVars>>

-----------------------------------------------------------------------------
(* Properties                                                              *)

(* A call that returns ERR_SUCCESS has sent over every interface it was    *)
(* for, whatever happened to the interfaces and to the list meanwhile, and *)
(* over no other, unless another thread was sending at the same time,      *)
(* which sets the interface of the same socket.  On Windows send() and     *)
(* sendOverInterfaceByIndex() are excepted, they take the default          *)
(* interface for each.                                                     *)
SentOverAll ==
  \A t \in Senders : Returns(t) /\ ~call[t].crossed /\ call[t].by # "default" =>
    /\ call[t].over \subseteq call[t].want
    /\ call[t].ret = "ERR_SUCCESS" => call[t].over = call[t].want

(* Datagrams that wait have their call of process() to come, unless one in *)
(* front of them was empty or came from an interface that is not in the    *)
(* list yet: the edge-triggered event loop takes either for the end.       *)
DatagramsDue ==
  registered /\ datagrams # <<>> => mcEvent \/ processing \/ mcStalled
=============================================================================
