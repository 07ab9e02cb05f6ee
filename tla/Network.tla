------------------------------ MODULE Network -------------------------------
(***************************************************************************)
(* The list of network interfaces and its updates on Linux: NetadapterList *)
(* (lib/communication/linux/netadapterlist.cpp) and Netlink                *)
(* (lib/communication/linux/netlink.cpp).                                  *)
(*                                                                         *)
(* The kernel reports every change of an interface by a message.  Thread   *)
(* "loop" processes the messages: each of them makes it read all           *)
(* interfaces again and tell the application.  Thread "app" may call       *)
(* NetadapterList::update() too.                                           *)
(***************************************************************************)
EXTENDS Interfaces

CONSTANT MaxMsgs \* messages the receive buffer of the netlink socket holds

ASSUME NetworkAssumption == MaxMsgs \in Nat \ {0}

Threads  == {"loop", "app"}
NoShot   == [i \in {} |-> "none"] \* update() is not being executed
Messages == [type : Types, if : Ifs]

VARIABLES
  shot,      \* adapterMap of an update() that has read the interfaces
  nl,        \* the Netlink object: "none", "bound", "started" or "stopped"
  msgs,      \* kernel: messages in the receive buffer of its socket
  overrun,   \* kernel: a message did not fit, which recvmsg() has still to report
  nlEvent,   \* does the socket have an event that was not taken yet?
  nlPc,      \* process(): "idle", "receive", "update" or "notify"
  cur,       \* the message being processed
  lastLink,  \* application: the last LINK_ADDED or LINK_REMOVED of an interface
  addrs,     \* application: the interfaces that have an address, as far as it was told
  late,      \* history: "loop" has updated the list since "app" has read the interfaces
  unsure,    \* history: why the list may be wrong: "missed", "failed", "overtaken", "overrun"
  untold,    \* history: the application was told less than the changes since COMPLETE
  nlStalled  \* history: messages were left behind by an overrun

kernel  == <<link, addr, changes>>
list    == <<adapters, shot, late>>
netlink == <<nl, msgs, overrun, nlEvent, nlPc, cur>>
told    == <<lastLink, addrs>>
netVars == <<kernel, list, netlink, told, unsure, untold, nlStalled>>

NetTypeOK ==
  /\ InterfacesOK
  /\ shot \in [Threads -> Adapters \cup {NoShot}]
  /\ nl \in {"none", "bound", "started", "stopped"}
  /\ msgs \in Seq(Messages) /\ Len(msgs) <= MaxMsgs
  /\ {overrun, nlEvent, late, untold, nlStalled} \subseteq BOOLEAN
  /\ nlPc \in {"idle", "receive", "update", "notify"}
  /\ cur \in Messages \cup {<<>>}
  /\ lastLink \in [Ifs -> {"none", "LINK_ADDED", "LINK_REMOVED"}]
  /\ addrs \subseteq Ifs
  /\ unsure \subseteq {"missed", "failed", "overtaken", "overrun"}

-----------------------------------------------------------------------------
NetInit ==
  /\ InterfacesInit
  /\ shot = [t \in Threads |-> NoShot]
  /\ nl = "none" /\ msgs = <<>> /\ overrun = FALSE /\ nlEvent = FALSE
  /\ nlPc = "idle" /\ cur = <<>>
  /\ lastLink = [i \in Ifs |-> "none"] /\ addrs = {}
  /\ late = FALSE /\ unsure = {} /\ untold = FALSE /\ nlStalled = FALSE

-----------------------------------------------------------------------------
(* The kernel (external): a change of an interface and its message.        *)

Kernel(type, i) ==
  LET heard == nl \in {"bound", "started"}
      fits  == Len(msgs) < MaxMsgs
  IN  /\ Changes(type, i)
      /\ msgs' = IF heard /\ fits THEN Append(msgs, [type |-> type, if |-> i]) ELSE msgs
      /\ overrun' = (overrun \/ (heard /\ ~fits))
      /\ nlEvent' = (nlEvent \/ nl = "started")
      /\ nlStalled' = (nlStalled /\ ~nlEvent')
      /\ unsure' = unsure \cup (IF ~heard THEN {"missed"} ELSE IF fits THEN {} ELSE {"overrun"})
      /\ untold' = (untold \/ ~heard \/ ~fits)
      /\ UNCHANGED <<list, nl, nlPc, cur, told>>

-----------------------------------------------------------------------------
(* NetadapterList::update()                                                *)

MayUpdate(t) == t = "app" \/ nlPc = "update"

(* update() reads the interfaces ...                                       *)
UpdateRead(t, unread) ==
  /\ MayUpdate(t) /\ shot[t] = NoShot
  /\ shot' = [shot EXCEPT ![t] = ReadInterfaces(unread)]
  /\ late' = (late /\ t # "app")
  /\ unsure' = (IF t = "loop" THEN {} ELSE unsure) \cup (IF unread = {} THEN {} ELSE {"failed"})
  /\ UNCHANGED <<kernel, adapters, netlink, told, untold, nlStalled>>

(* Mutant of Exchange: a new adapter is added, none is removed.            *)
ExchangeMerges(t) == [i \in Ifs |-> IF shot[t][i] = "none" THEN adapters[i] ELSE shot[t][i]]

Exchange(t) == shot[t]

(* ... and exchanges the list, under the mutex.                            *)
UpdateExchange(t) ==
  /\ shot[t] # NoShot
  /\ adapters' = Exchange(t)
  /\ shot' = [shot EXCEPT ![t] = NoShot]
  /\ late' = (t = "loop" /\ shot["app"] # NoShot)
  /\ unsure' = unsure \cup (IF t = "app" /\ late THEN {"overtaken"} ELSE {})
  /\ nlPc' = IF t = "loop" THEN "notify" ELSE nlPc
  /\ UNCHANGED <<kernel, nl, msgs, overrun, nlEvent, cur, told, untold, nlStalled>>

(* getifaddrs() fails.                                                     *)
UpdateFails(t) ==
  /\ MayUpdate(t) /\ shot[t] = NoShot
  /\ unsure' = unsure \cup {"failed"}
  /\ nlPc' = IF t = "loop" THEN "notify" ELSE nlPc
  /\ UNCHANGED <<kernel, list, nl, msgs, overrun, nlEvent, cur, told, untold, nlStalled>>

-----------------------------------------------------------------------------
(* Netlink                                                                 *)

(* The constructor.                                                        *)
Bind ==
  /\ nl = "none"
  /\ nl' = "bound"
  /\ UNCHANGED <<kernel, list, msgs, overrun, nlEvent, nlPc, cur, told, unsure, untold, nlStalled>>

(* start(): COMPLETE, on which the application reads the list, and         *)
(* addEvent(), which calls process() until nothing is left.                *)
NetlinkStart ==
  /\ nl \in {"bound", "started"} /\ nlPc = "idle"
  /\ nl' = "started"
  /\ addrs' = {i \in Ifs : adapters[i] = "addr"}
  /\ lastLink' = [i \in Ifs |-> "none"]
  /\ nlPc' = "receive"
  /\ untold' = (unsure # {} \/ (untold /\ msgs # <<>>))
  /\ UNCHANGED <<kernel, list, msgs, overrun, nlEvent, cur, unsure, nlStalled>>

NetlinkDispatch ==
  /\ nl = "started" /\ nlEvent /\ nlPc = "idle"
  /\ nlEvent' = FALSE
  /\ nlPc' = "receive"
  /\ UNCHANGED <<kernel, list, nl, msgs, overrun, cur, told, unsure, untold, nlStalled>>

(* receive() gets a message.                                               *)
Receive ==
  /\ nlPc = "receive" /\ ~overrun /\ msgs # <<>>
  /\ cur' = Head(msgs)
  /\ msgs' = Tail(msgs)
  /\ nlPc' = "update"
  /\ UNCHANGED <<kernel, list, nl, overrun, nlEvent, told, unsure, untold, nlStalled>>

(* receive() fails: there is nothing, or messages did not fit (ENOBUFS).   *)
(* Either ends the calls of process().                                     *)
ReceiveFails ==
  /\ nlPc = "receive" /\ (overrun \/ msgs = <<>>)
  /\ overrun' = FALSE
  /\ nlPc' = "idle"
  /\ nlStalled' = (msgs # <<>>)
  /\ UNCHANGED <<kernel, list, nl, msgs, nlEvent, cur, told, unsure, untold>>

(* Mutant of Handled: an interface that goes down is not reported.         *)
HandledUpOnly ==
  /\ lastLink' = [lastLink EXCEPT ![cur.if] = IF cur.type = "up" THEN "LINK_ADDED" ELSE @]
  /\ addrs' = IF cur.type = "newaddr" THEN addrs \cup {cur.if} ELSE addrs

(* The event that processNetlinkTelegram() reports for a message.          *)
Handled ==
  /\ lastLink' = [lastLink EXCEPT ![cur.if] =
                    IF cur.type = "up" THEN "LINK_ADDED"
                    ELSE IF cur.type \in {"down", "unlink"} THEN "LINK_REMOVED" ELSE @]
  /\ addrs' = IF cur.type = "newaddr" THEN addrs \cup {cur.if}
              ELSE IF cur.type = "deladdr" THEN addrs \ {cur.if} ELSE addrs

(* Mutant of Processed: one message per event.                             *)
ProcessedOnce == "idle"

(* process() returns a positive number after a message: it is called again.*)
Processed == "receive"

Notify ==
  /\ nlPc = "notify"
  /\ Handled
  /\ cur' = <<>>
  /\ nlPc' = Processed
  /\ UNCHANGED <<kernel, list, nl, msgs, overrun, nlEvent, unsure, untold, nlStalled>>

(* stop(), from another thread while the event loop does not process.      *)
NetlinkStop ==
  /\ nl \in {"bound", "started"} /\ nlPc = "idle"
  /\ nl' = "stopped"
  /\ msgs' = <<>> /\ overrun' = FALSE /\ nlEvent' = FALSE /\ nlStalled' = FALSE
  /\ UNCHANGED <<kernel, list, nlPc, cur, told, unsure, untold>>

-----------------------------------------------------------------------------
NetNext ==
  \/ \E type \in Types, i \in Ifs : Kernel(type, i)
  \/ \E t \in Threads : \/ \E unread \in SUBSET Ifs : UpdateRead(t, unread)
                        \/ UpdateExchange(t) \/ UpdateFails(t)
  \/ Bind \/ NetlinkStart \/ NetlinkDispatch \/ Receive \/ ReceiveFails \/ Notify \/ NetlinkStop

NetSpec == NetInit /\ [][NetNext]_netVars

-----------------------------------------------------------------------------
(* Properties                                                              *)

Quiet == nl = "started" /\ nlPc = "idle" /\ msgs = <<>> /\ ~overrun

(* While no message waits or is being processed the list shows the         *)
(* interfaces as they are, whatever another thread does with update(),     *)
(* unless: something changed before the netlink socket was bound, reading  *)
(* the interfaces failed, the buffer of the socket overran, or update() of *)
(* the other thread was overtaken by a newer one and has put the older     *)
(* list in its place.  The next message makes up for each of them.         *)
ListCurrent == Quiet /\ unsure = {} => adapters = ReadInterfaces({})

(* The events told, starting with COMPLETE, add up to the state of the     *)
(* interfaces: no order of changes, messages and updates makes the         *)
(* application believe in a link or an address that is not there.          *)
EventsFollowed ==
  Quiet /\ ~untold =>
    /\ addrs = {i \in Ifs : addr[i]}
    /\ \A i \in Ifs : /\ lastLink[i] = "LINK_ADDED" => link[i] = "up"
                      /\ lastLink[i] = "LINK_REMOVED" => link[i] # "up"

(* Messages that wait have their call of process() to come, unless an      *)
(* overrun was reported in front of them.                                  *)
MessagesDue ==
  nl = "started" /\ msgs # <<>> => nlEvent \/ nlPc # "idle" \/ nlStalled
=============================================================================
