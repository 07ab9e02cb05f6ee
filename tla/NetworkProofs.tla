--------------------------- MODULE NetworkProofs ----------------------------
(***************************************************************************)
(* Proofs about the modules that MCNetwork joins: Network and Multicast,   *)
(* for any set of interfaces, any number of changes and any size of the    *)
(* receive buffers, and Conversions, for any width of a word.              *)
(***************************************************************************)
EXTENDS Network, Multicast, Conversions, FiniteSetTheorems, TLAPS

-----------------------------------------------------------------------------
(* The kernel's changes and their messages                                 *)

(* The messages about the address, and about the link, of interface i.     *)
AddrMsg(m, i) == m.if = i /\ m.type \in {"newaddr", "deladdr"}
LinkMsg(m, i) == m.if = i /\ m.type \in {"up", "down", "unlink"}

(* An interface that has gone has no address.                              *)
AddrNeedsLink == \A i \in Ifs : addr[i] => link[i] # "gone"

(* A change is one of one interface, and its message says which.           *)
LEMMA ChangeEffect ==
  ASSUME InterfacesOK, NEW type \in Types, NEW i \in Ifs, Changes(type, i)
  PROVE  /\ link' \in [Ifs -> {"gone", "down", "up"}] /\ addr' \in [Ifs -> BOOLEAN]
         /\ changes' \in 0..MaxChanges
         /\ \A j \in Ifs : j # i => link'[j] = link[j] /\ addr'[j] = addr[j]
         /\ type \in {"newaddr", "deladdr"} => link' = link /\ (type = "newaddr" <=> addr'[i])
         /\ type \in {"up", "down", "unlink"} => addr' = addr /\ (type = "up" <=> link'[i] = "up")
         /\ AddrNeedsLink => AddrNeedsLink'
<1>1. changes' \in 0..MaxChanges
  BY InterfacesAssumption DEF InterfacesOK, Changes
<1>2. CASE type \in {"newaddr", "deladdr"}
  <2>1. PICK value \in BOOLEAN : SetAddr(i, value) /\ (type = "newaddr" <=> value)
    BY <1>2 DEF Changes
  <2> QED
    BY <1>1, <1>2, <2>1 DEF SetAddr, InterfacesOK, AddrNeedsLink
<1>3. CASE type \in {"up", "down", "unlink"}
  <2>1. PICK from \in {"gone", "down", "up"}, to \in {"gone", "down", "up"} :
          SetLink(i, from, to) /\ (type = "up" <=> to = "up")
    BY <1>3 DEF Changes
  <2> QED
    BY <1>1, <1>3, <2>1 DEF SetLink, InterfacesOK, AddrNeedsLink
<1> QED
  BY <1>2, <1>3 DEF Types

LEMMA ReadInterfacesType ==
  ASSUME NEW unread
  PROVE  ReadInterfaces(unread) \in Adapters
BY DEF ReadInterfaces, Adapters

-----------------------------------------------------------------------------
(* Network: types                                                          *)

LEMMA NetTypeInit == NetInit => NetTypeOK
<1> SUFFICES ASSUME NetInit PROVE NetTypeOK
  OBVIOUS
<1>1. InterfacesOK
  BY ReadInterfacesType, InterfacesAssumption DEF NetInit, InterfacesInit, InterfacesOK
<1>2. msgs \in Seq(Messages) /\ Len(msgs) <= MaxMsgs
  BY NetworkAssumption DEF NetInit
<1> QED
  BY <1>1, <1>2 DEF NetInit, NetTypeOK

LEMMA NetTypeKernel ==
  ASSUME NetTypeOK, NEW type \in Types, NEW i \in Ifs, Kernel(type, i)
  PROVE  NetTypeOK'
<1>1. InterfacesOK'
  BY ChangeEffect DEF Kernel, NetTypeOK, InterfacesOK, list
<1>2. [type |-> type, if |-> i] \in Messages
  BY DEF Messages
<1>3. msgs' \in Seq(Messages) /\ Len(msgs') <= MaxMsgs
  BY <1>2, NetworkAssumption DEF Kernel, NetTypeOK
<1>4. {overrun', nlEvent', late', untold', nlStalled'} \subseteq BOOLEAN
  BY DEF Kernel, NetTypeOK, list
<1>5. unsure' \subseteq {"missed", "failed", "overtaken", "overrun"}
  BY DEF Kernel, NetTypeOK
<1> QED
  BY <1>1, <1>3, <1>4, <1>5 DEF Kernel, NetTypeOK, list, told

LEMMA NetTypeUpdate ==
  ASSUME NetTypeOK, NEW t \in Threads,
         (\E unread \in SUBSET Ifs : UpdateRead(t, unread)) \/ UpdateExchange(t) \/ UpdateFails(t)
  PROVE  NetTypeOK'
<1>1. CASE \E unread \in SUBSET Ifs : UpdateRead(t, unread)
  <2>1. PICK unread \in SUBSET Ifs : UpdateRead(t, unread)
    BY <1>1
  <2>2. shot' \in [Threads -> Adapters \cup {NoShot}]
    BY <2>1, ReadInterfacesType DEF UpdateRead, NetTypeOK
  <2>3. unsure' \subseteq {"missed", "failed", "overtaken", "overrun"} /\ late' \in BOOLEAN
    BY <2>1 DEF UpdateRead, NetTypeOK
  <2> QED
    BY <2>1, <2>2, <2>3 DEF UpdateRead, NetTypeOK, InterfacesOK, kernel, netlink, told
<1>2. CASE UpdateExchange(t)
  <2>1. adapters' \in Adapters
    BY <1>2 DEF UpdateExchange, Exchange, NetTypeOK
  <2>2. unsure' \subseteq {"missed", "failed", "overtaken", "overrun"} /\ late' \in BOOLEAN
    BY <1>2 DEF UpdateExchange, NetTypeOK
  <2>3. shot' \in [Threads -> Adapters \cup {NoShot}]
    BY <1>2 DEF UpdateExchange, NetTypeOK
  <2> QED
    BY <1>2, <2>1, <2>2, <2>3 DEF UpdateExchange, NetTypeOK, InterfacesOK, kernel, told
<1>3. CASE UpdateFails(t)
  BY <1>3 DEF UpdateFails, NetTypeOK, InterfacesOK, kernel, list, told
<1> QED
  BY <1>1, <1>2, <1>3

(* Where the loop is in process(), and what goes with it.                  *)
PlaceInv ==
  /\ nlPc # "idle" => nl = "started"
  /\ nlPc \in {"update", "notify"} => cur \in Messages
  /\ shot["loop"] # NoShot => nlPc = "update"
  /\ AddrNeedsLink

NetlinkStep ==
  Bind \/ NetlinkStart \/ NetlinkDispatch \/ Receive \/ ReceiveFails \/ Notify \/ NetlinkStop

LEMMA NetTypeNetlink ==
  ASSUME NetTypeOK, PlaceInv, NetlinkStep
  PROVE  NetTypeOK'
<1>1. CASE Bind \/ NetlinkDispatch
  BY <1>1 DEF Bind, NetlinkDispatch, NetTypeOK, InterfacesOK, kernel, list, told
<1>2. CASE ReceiveFails \/ NetlinkStop
  <2>1. msgs' \in Seq(Messages) /\ Len(msgs') <= MaxMsgs
    <3>1. CASE msgs' = msgs
      BY <3>1 DEF NetTypeOK
    <3>2. CASE msgs' = <<>>
      BY <3>2, NetworkAssumption
    <3> QED
      BY <1>2, <3>1, <3>2 DEF ReceiveFails, NetlinkStop
  <2>2. {overrun', nlEvent', late', untold', nlStalled'} \subseteq BOOLEAN
    BY <1>2 DEF ReceiveFails, NetlinkStop, NetTypeOK, list
  <2> QED
    BY <1>2, <2>1, <2>2 DEF ReceiveFails, NetlinkStop, NetTypeOK, InterfacesOK, kernel, list, told
<1>3. CASE NetlinkStart
  BY <1>3 DEF NetlinkStart, NetTypeOK, InterfacesOK, kernel, list
<1>4. CASE Receive
  <2>1. msgs' \in Seq(Messages) /\ Len(msgs') <= MaxMsgs /\ cur' \in Messages
    BY <1>4, NetworkAssumption DEF Receive, NetTypeOK
  <2> QED
    BY <1>4, <2>1 DEF Receive, NetTypeOK, InterfacesOK, kernel, list, told
<1>5. CASE Notify
  <2>1. cur.if \in Ifs
    BY <1>5 DEF Notify, PlaceInv, Messages
  <2>2. lastLink' \in [Ifs -> {"none", "LINK_ADDED", "LINK_REMOVED"}] /\ addrs' \subseteq Ifs
    BY <1>5, <2>1 DEF Notify, Handled, NetTypeOK
  <2> QED
    BY <1>5, <2>2 DEF Notify, Processed, NetTypeOK, InterfacesOK, kernel, list
<1> QED
  BY <1>1, <1>2, <1>3, <1>4, <1>5 DEF NetlinkStep

LEMMA NetTypeStep ==
  ASSUME NetTypeOK, PlaceInv, [NetNext]_netVars
  PROVE  NetTypeOK'
<1>1. CASE UNCHANGED netVars
  BY <1>1 DEF netVars, kernel, list, netlink, told, NetTypeOK, InterfacesOK
<1> QED
  BY <1>1, NetTypeKernel, NetTypeUpdate, NetTypeNetlink DEF NetNext, NetlinkStep

LEMMA PlaceStep ==
  ASSUME NetTypeOK, PlaceInv, [NetNext]_netVars
  PROVE  PlaceInv'
<1>1. ASSUME NEW type \in Types, NEW i \in Ifs, Kernel(type, i) PROVE PlaceInv'
  BY <1>1, ChangeEffect DEF Kernel, NetTypeOK, PlaceInv, list
<1>2. ASSUME NEW t \in Threads,
             (\E unread \in SUBSET Ifs : UpdateRead(t, unread)) \/ UpdateExchange(t) \/ UpdateFails(t)
      PROVE  PlaceInv'
  <2>1. UNCHANGED <<link, addr, nl, cur>>
    BY <1>2 DEF UpdateRead, UpdateExchange, UpdateFails, kernel, netlink
  <2>2. nlPc' # nlPc => nlPc = "update" /\ nlPc' = "notify"
    BY <1>2 DEF UpdateRead, UpdateExchange, UpdateFails, MayUpdate, netlink, PlaceInv, Threads
  <2>3. shot'["loop"] # NoShot => nlPc' = "update"
    BY <1>2 DEF UpdateRead, UpdateExchange, UpdateFails, MayUpdate, netlink, list, PlaceInv,
         NetTypeOK, Threads
  <2> QED
    BY <2>1, <2>2, <2>3 DEF PlaceInv, AddrNeedsLink
<1>3. CASE NetlinkStep
  <2>1. UNCHANGED <<link, addr, shot>>
    BY <1>3 DEF NetlinkStep, Bind, NetlinkStart, NetlinkDispatch, Receive, ReceiveFails, Notify,
         NetlinkStop, kernel, list
  <2>2. nlPc' # "idle" => nl' = "started"
    BY <1>3 DEF NetlinkStep, Bind, NetlinkStart, NetlinkDispatch, Receive, ReceiveFails, Notify,
         NetlinkStop, PlaceInv
  <2>3. nlPc' \in {"update", "notify"} => cur' \in Messages
    BY <1>3 DEF NetlinkStep, Bind, NetlinkStart, NetlinkDispatch, Receive, ReceiveFails, Notify,
         Processed, NetlinkStop, PlaceInv, NetTypeOK
  <2>4. shot'["loop"] # NoShot => nlPc' = "update"
    BY <1>3, <2>1 DEF NetlinkStep, Bind, NetlinkStart, NetlinkDispatch, Receive, ReceiveFails, Notify,
         NetlinkStop, PlaceInv
  <2> QED
    BY <2>1, <2>2, <2>3, <2>4 DEF PlaceInv, AddrNeedsLink
<1>4. CASE UNCHANGED netVars
  BY <1>4 DEF netVars, kernel, list, netlink, PlaceInv, AddrNeedsLink
<1> QED
  BY <1>1, <1>2, <1>3, <1>4 DEF NetNext, NetlinkStep

LEMMA NetInvariant == NetSpec => [](NetTypeOK /\ PlaceInv)
<1>1. NetInit => PlaceInv
  BY DEF NetInit, InterfacesInit, PlaceInv, AddrNeedsLink, Threads
<1>2. NetTypeOK /\ PlaceInv /\ [NetNext]_netVars => (NetTypeOK /\ PlaceInv)'
  BY NetTypeStep, PlaceStep
<1> QED
  BY <1>1, <1>2, NetTypeInit, PTL DEF NetSpec

(* Messages that wait have their call of process() to come, unless an      *)
(* overrun was reported in front of them: start() and process() leave none *)
(* behind that no event stands for.                                        *)
THEOREM MessagesDueAlways == NetSpec => []MessagesDue
<1>1. NetInit => MessagesDue
  BY DEF NetInit, MessagesDue
<1>2. MessagesDue /\ NetTypeOK /\ [NetNext]_netVars => MessagesDue'
  <2> SUFFICES ASSUME MessagesDue, NetTypeOK, [NetNext]_netVars PROVE MessagesDue'
    OBVIOUS
  <2>1. ASSUME NEW type \in Types, NEW i \in Ifs, Kernel(type, i) PROVE MessagesDue'
    BY <2>1 DEF Kernel, MessagesDue
  <2>2. ASSUME NEW t \in Threads,
               (\E unread \in SUBSET Ifs : UpdateRead(t, unread)) \/ UpdateExchange(t) \/ UpdateFails(t)
        PROVE  MessagesDue'
    BY <2>2 DEF UpdateRead, UpdateExchange, UpdateFails, netlink, MessagesDue
  <2>3. CASE NetlinkStep
    BY <2>3 DEF NetlinkStep, Bind, NetlinkStart, NetlinkDispatch, Receive, ReceiveFails, Notify,
         Processed, NetlinkStop, MessagesDue
  <2>4. CASE UNCHANGED netVars
    BY <2>4 DEF netVars, netlink, MessagesDue
  <2> QED
    BY <2>1, <2>2, <2>3, <2>4 DEF NetNext, NetlinkStep
<1> QED
  BY <1>1, <1>2, NetInvariant, PTL DEF NetSpec

-----------------------------------------------------------------------------
(* Network: the list                                                       *)

AddrWaits(i) == \E n \in 1..Len(msgs) : AddrMsg(msgs[n], i)
LinkWaits(i) == \E n \in 1..Len(msgs) : LinkMsg(msgs[n], i)

(* A list, read by update() or kept by NetadapterList, differs from what   *)
(* the kernel has only while a message waits.                              *)
ShowsAll(l)   == msgs = <<>> => l = ReadInterfaces({})
ShowsAddrs(l) == \A i \in Ifs : ~AddrWaits(i) => (l[i] = "addr" <=> addr[i])
Shows(l)      == ShowsAll(l) /\ ShowsAddrs(l)

(* The loop has still to read or to exchange the list.                     *)
Updating == nlPc = "update" \/ shot["loop"] # NoShot

(* The list is right, or the loop is going to correct it; and so is the    *)
(* one that another thread is going to put in its place.                   *)
ListInv ==
  nl # "stopped" /\ unsure = {} =>
    /\ shot["loop"] # NoShot => Shows(shot["loop"])
    /\ ~Updating => Shows(adapters)
    /\ ~Updating /\ shot["app"] # NoShot /\ ~late => Shows(shot["app"])

LEMMA ReadShows ==
  ASSUME NetTypeOK, PlaceInv
  PROVE  \A i \in Ifs : ReadInterfaces({})[i] = "addr" <=> addr[i]
BY DEF ReadInterfaces, PlaceInv, AddrNeedsLink, NetTypeOK, InterfacesOK

(* A message at the end leaves the others where they are.                  *)
LEMMA Appended ==
  ASSUME NetTypeOK, NEW m \in Messages, msgs' = Append(msgs, m)
  PROVE  /\ msgs' # <<>> /\ Len(msgs) \in Nat /\ Len(msgs') = Len(msgs) + 1
         /\ msgs'[Len(msgs) + 1] = m
         /\ \A n \in 1..Len(msgs) : msgs'[n] = msgs[n]
BY DEF NetTypeOK

LEMMA ListKernel ==
  ASSUME NetTypeOK, PlaceInv, ListInv, NEW type \in Types, NEW i \in Ifs, Kernel(type, i)
  PROVE  ListInv'
<1> SUFFICES ASSUME nl' # "stopped", unsure' = {} PROVE ListInv'
  BY DEF ListInv
<1> DEFINE m == [type |-> type, if |-> i]
<1>1. unsure = {} /\ nl' = nl /\ m \in Messages /\ msgs' = Append(msgs, m)
  BY DEF Kernel, Messages
<1>2. UNCHANGED <<adapters, shot, late, nlPc>>
  BY DEF Kernel, list
<1>3. \A j \in Ifs : ~AddrWaits(j)' => ~AddrWaits(j) /\ addr'[j] = addr[j]
  <2> SUFFICES ASSUME NEW j \in Ifs, ~AddrWaits(j)' PROVE ~AddrWaits(j) /\ addr'[j] = addr[j]
    OBVIOUS
  <2>1. ~AddrWaits(j) /\ ~AddrMsg(m, j)
    BY <1>1, Appended DEF AddrWaits, AddrMsg
  <2>2. j # i \/ type \in {"up", "down", "unlink"}
    BY <2>1 DEF AddrMsg, Types
  <2> QED
    BY <2>1, <2>2, ChangeEffect DEF Kernel, NetTypeOK
<1>4. msgs' # <<>>
  BY <1>1, Appended
<1> QED
  BY <1>1, <1>2, <1>3, <1>4 DEF ListInv, Shows, ShowsAll, ShowsAddrs, Updating

LEMMA ListUpdate ==
  ASSUME NetTypeOK, PlaceInv, ListInv, NEW t \in Threads,
         (\E unread \in SUBSET Ifs : UpdateRead(t, unread)) \/ UpdateExchange(t) \/ UpdateFails(t)
  PROVE  ListInv'
<1> SUFFICES ASSUME nl' # "stopped", unsure' = {} PROVE ListInv'
  BY DEF ListInv
<1>1. UNCHANGED <<msgs, link, addr, nl>>
  BY DEF UpdateRead, UpdateExchange, UpdateFails, kernel, netlink
<1>2. ReadInterfaces({})' = ReadInterfaces({}) /\ \A i \in Ifs : AddrWaits(i)' <=> AddrWaits(i)
  BY <1>1 DEF ReadInterfaces, AddrWaits
<1>3. CASE \E unread \in SUBSET Ifs : UpdateRead(t, unread)
  <2>1. PICK unread \in SUBSET Ifs : UpdateRead(t, unread)
    BY <1>3
  <2>2. shot' = [shot EXCEPT ![t] = ReadInterfaces({})] /\ UNCHANGED <<adapters, nlPc>>
    BY <2>1 DEF UpdateRead, netlink
  <2>3. CASE t = "loop"
    <3>1. shot'["loop"] = ReadInterfaces({}) /\ nlPc' = "update"
      BY <2>1, <2>2, <2>3 DEF UpdateRead, MayUpdate, NetTypeOK, netlink
    <3> QED
      BY <1>1, <1>2, <3>1, ReadShows DEF ListInv, Shows, ShowsAll, ShowsAddrs, Updating
  <2>4. CASE t = "app"
    <3>1. shot'["app"] = ReadInterfaces({}) /\ shot'["loop"] = shot["loop"] /\ unsure = {}
      BY <2>1, <2>2, <2>4 DEF UpdateRead, NetTypeOK, Threads
    <3> QED
      BY <1>1, <1>2, <2>2, <3>1, ReadShows DEF ListInv, Shows, ShowsAll, ShowsAddrs, Updating
  <2> QED
    BY <2>3, <2>4 DEF Threads
<1>4. CASE UpdateExchange(t)
  <2>1. unsure = {} /\ shot[t] # NoShot /\ adapters' = shot[t] /\ ~(t = "app" /\ late)
        /\ shot' = [shot EXCEPT ![t] = NoShot]
    BY <1>4 DEF UpdateExchange, Exchange
  <2>2. CASE t = "loop"
    <3>1. /\ shot'["loop"] = NoShot /\ shot'["app"] = shot["app"]
          /\ shot'["app"] # NoShot => late'
      BY <1>4, <2>1, <2>2 DEF UpdateExchange, NetTypeOK, Threads
    <3> QED
      BY <1>1, <1>2, <2>1, <2>2, <3>1 DEF ListInv, Shows, ShowsAll, ShowsAddrs
  <2>3. CASE t = "app"
    <3>1. shot'["app"] = NoShot /\ shot'["loop"] = shot["loop"] /\ nlPc' = nlPc
      BY <1>4, <2>1, <2>3 DEF UpdateExchange, NetTypeOK, Threads
    <3> QED
      BY <1>1, <1>2, <2>1, <2>3, <3>1 DEF ListInv, Shows, ShowsAll, ShowsAddrs, Updating
  <2> QED
    BY <2>2, <2>3 DEF Threads
<1>5. CASE UpdateFails(t)
  BY <1>5 DEF UpdateFails
<1> QED
  BY <1>3, <1>4, <1>5

LEMMA ListNetlink ==
  ASSUME NetTypeOK, PlaceInv, ListInv, NetlinkStep
  PROVE  ListInv'
<1> SUFFICES ASSUME nl' # "stopped", unsure' = {} PROVE ListInv'
  BY DEF ListInv
<1>1. UNCHANGED <<adapters, shot, late, link, addr, unsure>> /\ nl # "stopped"
  BY DEF NetlinkStep, Bind, NetlinkStart, NetlinkDispatch, Receive, ReceiveFails, Notify,
       NetlinkStop, kernel, list
<1>2. CASE Receive
  <2>1. nlPc' = "update" /\ shot'["loop"] = NoShot
    BY <1>1, <1>2 DEF Receive, PlaceInv
  <2> QED
    BY <2>1 DEF ListInv, Updating
<1>3. CASE ~Receive
  <2>1. msgs' = msgs /\ nlPc # "update" /\ nlPc' # "update"
    BY <1>3 DEF NetlinkStep, Bind, NetlinkStart, NetlinkDispatch, ReceiveFails, Notify,
         Processed, NetlinkStop, PlaceInv
  <2>2. ReadInterfaces({})' = ReadInterfaces({}) /\ \A i \in Ifs : AddrWaits(i)' <=> AddrWaits(i)
    BY <1>1, <2>1 DEF ReadInterfaces, AddrWaits
  <2> QED
    BY <1>1, <2>1, <2>2 DEF ListInv, Shows, ShowsAll, ShowsAddrs, Updating
<1> QED
  BY <1>2, <1>3

LEMMA ListStep ==
  ASSUME NetTypeOK, PlaceInv, ListInv, [NetNext]_netVars
  PROVE  ListInv'
<1>1. CASE UNCHANGED netVars
  <2>1. ReadInterfaces({})' = ReadInterfaces({}) /\ \A i \in Ifs : AddrWaits(i)' <=> AddrWaits(i)
    BY <1>1 DEF ReadInterfaces, AddrWaits, netVars, kernel, list, netlink
  <2> QED
    BY <1>1, <2>1 DEF ListInv, Shows, ShowsAll, ShowsAddrs, Updating, netVars, kernel, list, netlink
<1> QED
  BY <1>1, ListKernel, ListUpdate, ListNetlink DEF NetNext, NetlinkStep

LEMMA ListInvariant == NetSpec => []ListInv
<1>1. NetInit => ListInv
  <2> SUFFICES ASSUME NetInit PROVE ListInv
    OBVIOUS
  <2>1. adapters = ReadInterfaces({}) /\ \A t \in Threads : shot[t] = NoShot
    BY DEF NetInit, InterfacesInit
  <2>2. \A i \in Ifs : adapters[i] = "addr" <=> addr[i]
    BY <2>1 DEF NetInit, InterfacesInit, ReadInterfaces
  <2> QED
    BY <2>1, <2>2 DEF ListInv, Shows, ShowsAll, ShowsAddrs, Threads
<1>2. ListInv /\ NetTypeOK /\ PlaceInv /\ [NetNext]_netVars => ListInv'
  BY ListStep
<1> QED
  BY <1>1, <1>2, NetInvariant, PTL DEF NetSpec

(* While no message waits or is being processed the list shows the         *)
(* interfaces as they are, whatever another thread does with update(),     *)
(* unless one of the four reasons in unsure is known.                      *)
THEOREM ListCurrentAlways == NetSpec => []ListCurrent
<1>1. ListInv /\ PlaceInv => ListCurrent
  BY DEF ListInv, PlaceInv, ListCurrent, Quiet, Updating, Shows, ShowsAll
<1> QED
  BY <1>1, ListInvariant, NetInvariant, PTL

-----------------------------------------------------------------------------
(* Network: the events                                                     *)

(* A message is being processed that the application was not told of.      *)
Busy == nlPc \in {"update", "notify"}

LastAddr(n, i) == AddrMsg(msgs[n], i) /\ \A j \in (n + 1)..Len(msgs) : ~AddrMsg(msgs[j], i)
LastLink(n, i) == LinkMsg(msgs[n], i) /\ \A j \in (n + 1)..Len(msgs) : ~LinkMsg(msgs[j], i)

(* For each interface the last message says how it is; if none waits the   *)
(* one being processed does, or else what was told last.                   *)
AddrInv ==
  \A i \in Ifs :
    /\ \A n \in 1..Len(msgs) : LastAddr(n, i) => (msgs[n].type = "newaddr" <=> addr[i])
    /\ ~AddrWaits(i) /\ Busy /\ AddrMsg(cur, i) => (cur.type = "newaddr" <=> addr[i])
    /\ ~AddrWaits(i) /\ ~(Busy /\ AddrMsg(cur, i)) /\ nl = "started" => (i \in addrs <=> addr[i])

LinkInv ==
  \A i \in Ifs :
    /\ \A n \in 1..Len(msgs) : LastLink(n, i) => (msgs[n].type = "up" <=> link[i] = "up")
    /\ ~LinkWaits(i) /\ Busy /\ LinkMsg(cur, i) => (cur.type = "up" <=> link[i] = "up")
    /\ ~LinkWaits(i) /\ ~(Busy /\ LinkMsg(cur, i)) =>
         /\ lastLink[i] = "LINK_ADDED" => link[i] = "up"
         /\ lastLink[i] = "LINK_REMOVED" => link[i] # "up"

ToldInv == nl # "stopped" /\ ~untold => AddrInv /\ LinkInv

LEMMA ToldKernel ==
  ASSUME NetTypeOK, PlaceInv, ToldInv, NEW type \in Types, NEW i \in Ifs, Kernel(type, i)
  PROVE  ToldInv'
<1> SUFFICES ASSUME nl' # "stopped", ~untold' PROVE AddrInv' /\ LinkInv'
  BY DEF ToldInv
<1> DEFINE m == [type |-> type, if |-> i]
<1>1. ~untold /\ nl' = nl /\ m \in Messages /\ msgs' = Append(msgs, m)
  BY DEF Kernel, Messages
<1>2. UNCHANGED <<addrs, lastLink, nlPc, cur>>
  BY DEF Kernel, told
<1>3. /\ \A j \in Ifs : j # i => link'[j] = link[j] /\ addr'[j] = addr[j]
      /\ type \in {"newaddr", "deladdr"} => link' = link /\ (type = "newaddr" <=> addr'[i])
      /\ type \in {"up", "down", "unlink"} => addr' = addr /\ (type = "up" <=> link'[i] = "up")
  BY ChangeEffect DEF Kernel, NetTypeOK
<1>4. AddrInv'
  <2> SUFFICES ASSUME NEW j \in Ifs
      PROVE  /\ \A n \in 1..Len(msgs') : LastAddr(n, j)' => (msgs'[n].type = "newaddr" <=> addr'[j])
             /\ ~AddrWaits(j)' => ~AddrWaits(j) /\ addr'[j] = addr[j]
    BY <1>1, <1>2 DEF ToldInv, AddrInv, Busy
  <2>1. ~AddrMsg(m, j) => addr'[j] = addr[j]
    BY <1>3 DEF AddrMsg, Types
  <2>2. ~AddrWaits(j)' => ~AddrWaits(j) /\ ~AddrMsg(m, j)
    BY <1>1, Appended DEF AddrWaits, AddrMsg
  <2>3. ASSUME NEW n \in 1..Len(msgs'), LastAddr(n, j)' PROVE msgs'[n].type = "newaddr" <=> addr'[j]
    <3>1. CASE n = Len(msgs) + 1
      <4>1. msgs'[n] = m /\ AddrMsg(m, j)
        BY <1>1, <2>3, <3>1, Appended DEF LastAddr, AddrMsg
      <4> QED
        BY <1>3, <4>1 DEF AddrMsg
    <3>2. CASE n # Len(msgs) + 1
      <4>1. n \in 1..Len(msgs) /\ msgs'[n] = msgs[n]
        BY <1>1, <3>2, Appended
      <4>2. ~AddrMsg(m, j)
        <5>1. Len(msgs) + 1 \in (n + 1)..Len(msgs') /\ msgs'[Len(msgs) + 1] = m
          BY <1>1, <4>1, Appended
        <5> QED
          BY <2>3, <5>1 DEF LastAddr, AddrMsg
      <4>3. LastAddr(n, j)
        <5>1. \A x \in (n + 1)..Len(msgs) : x \in (n + 1)..Len(msgs') /\ msgs'[x] = msgs[x]
          BY <1>1, <4>1, Appended
        <5> QED
          BY <2>3, <4>1, <5>1 DEF LastAddr, AddrMsg
      <4> QED
        BY <1>1, <2>1, <4>1, <4>2, <4>3 DEF ToldInv, AddrInv
    <3> QED
      BY <3>1, <3>2
  <2> QED
    BY <2>1, <2>2, <2>3
<1>5. LinkInv'
  <2> SUFFICES ASSUME NEW j \in Ifs
      PROVE  /\ \A n \in 1..Len(msgs') : LastLink(n, j)' => (msgs'[n].type = "up" <=> link'[j] = "up")
             /\ ~LinkWaits(j)' => ~LinkWaits(j) /\ link'[j] = link[j]
    BY <1>1, <1>2 DEF ToldInv, LinkInv, Busy
  <2>1. ~LinkMsg(m, j) => link'[j] = link[j]
    BY <1>3 DEF LinkMsg, Types
  <2>2. ~LinkWaits(j)' => ~LinkWaits(j) /\ ~LinkMsg(m, j)
    BY <1>1, Appended DEF LinkWaits, LinkMsg
  <2>3. ASSUME NEW n \in 1..Len(msgs'), LastLink(n, j)' PROVE msgs'[n].type = "up" <=> link'[j] = "up"
    <3>1. CASE n = Len(msgs) + 1
      <4>1. msgs'[n] = m /\ LinkMsg(m, j)
        BY <1>1, <2>3, <3>1, Appended DEF LastLink, LinkMsg
      <4> QED
        BY <1>3, <4>1 DEF LinkMsg
    <3>2. CASE n # Len(msgs) + 1
      <4>1. n \in 1..Len(msgs) /\ msgs'[n] = msgs[n]
        BY <1>1, <3>2, Appended
      <4>2. ~LinkMsg(m, j)
        <5>1. Len(msgs) + 1 \in (n + 1)..Len(msgs') /\ msgs'[Len(msgs) + 1] = m
          BY <1>1, <4>1, Appended
        <5> QED
          BY <2>3, <5>1 DEF LastLink, LinkMsg
      <4>3. LastLink(n, j)
        <5>1. \A x \in (n + 1)..Len(msgs) : x \in (n + 1)..Len(msgs') /\ msgs'[x] = msgs[x]
          BY <1>1, <4>1, Appended
        <5> QED
          BY <2>3, <4>1, <5>1 DEF LastLink, LinkMsg
      <4> QED
        BY <1>1, <2>1, <4>1, <4>2, <4>3 DEF ToldInv, LinkInv
    <3> QED
      BY <3>1, <3>2
  <2> QED
    BY <2>1, <2>2, <2>3
<1> QED
  BY <1>4, <1>5

LEMMA ToldReceive ==
  ASSUME NetTypeOK, PlaceInv, ToldInv, Receive
  PROVE  ToldInv'
<1> SUFFICES ASSUME nl' # "stopped", ~untold' PROVE AddrInv' /\ LinkInv'
  BY DEF ToldInv
<1>1. ~untold /\ nl' = nl /\ UNCHANGED <<link, addr, addrs, lastLink>>
  BY DEF Receive, kernel, told
<1>2. nlPc = "receive" /\ nlPc' = "update"
  BY DEF Receive
<1>3. /\ Len(msgs) \in Nat \ {0} /\ Len(msgs') = Len(msgs) - 1
      /\ cur' = msgs[1] /\ \A n \in 1..Len(msgs') : msgs'[n] = msgs[n + 1] /\ n + 1 \in 1..Len(msgs)
  BY DEF Receive, NetTypeOK
<1>4. AddrInv'
  <2> SUFFICES ASSUME NEW j \in Ifs
      PROVE  /\ \A n \in 1..Len(msgs') : LastAddr(n, j)' => LastAddr(n + 1, j)
             /\ ~AddrWaits(j)' /\ AddrMsg(cur', j) => LastAddr(1, j)
             /\ ~AddrWaits(j)' /\ ~AddrMsg(cur', j) => ~AddrWaits(j)
    BY <1>1, <1>2, <1>3 DEF ToldInv, AddrInv, Busy
  <2>1. ASSUME NEW n \in 1..Len(msgs'), LastAddr(n, j)' PROVE LastAddr(n + 1, j)
    <3>1. \A x \in (n + 2)..Len(msgs) : x - 1 \in (n + 1)..Len(msgs') /\ msgs'[x - 1] = msgs[x]
      BY <1>3, <2>1
    <3>2. AddrMsg(msgs[n + 1], j)
      BY <1>3, <2>1 DEF LastAddr, AddrMsg
    <3>3. \A x \in (n + 2)..Len(msgs) : ~AddrMsg(msgs[x], j)
      BY <2>1, <3>1 DEF LastAddr, AddrMsg
    <3>4. (n + 1) + 1 = n + 2
      BY <1>3
    <3> QED
      BY <3>2, <3>3, <3>4 DEF LastAddr
  <2>2. \A x \in 2..Len(msgs) : x - 1 \in 1..Len(msgs') /\ msgs'[x - 1] = msgs[x]
    BY <1>3
  <2>3. ~AddrWaits(j)' => \A x \in 2..Len(msgs) : ~AddrMsg(msgs[x], j)
    BY <2>2 DEF AddrWaits, AddrMsg
  <2> QED
    BY <1>3, <2>1, <2>3 DEF LastAddr, AddrWaits
<1>5. LinkInv'
  <2> SUFFICES ASSUME NEW j \in Ifs
      PROVE  /\ \A n \in 1..Len(msgs') : LastLink(n, j)' => LastLink(n + 1, j)
             /\ ~LinkWaits(j)' /\ LinkMsg(cur', j) => LastLink(1, j)
             /\ ~LinkWaits(j)' /\ ~LinkMsg(cur', j) => ~LinkWaits(j)
    BY <1>1, <1>2, <1>3 DEF ToldInv, LinkInv, Busy
  <2>1. ASSUME NEW n \in 1..Len(msgs'), LastLink(n, j)' PROVE LastLink(n + 1, j)
    <3>1. \A x \in (n + 2)..Len(msgs) : x - 1 \in (n + 1)..Len(msgs') /\ msgs'[x - 1] = msgs[x]
      BY <1>3, <2>1
    <3>2. LinkMsg(msgs[n + 1], j)
      BY <1>3, <2>1 DEF LastLink, LinkMsg
    <3>3. \A x \in (n + 2)..Len(msgs) : ~LinkMsg(msgs[x], j)
      BY <2>1, <3>1 DEF LastLink, LinkMsg
    <3>4. (n + 1) + 1 = n + 2
      BY <1>3
    <3> QED
      BY <3>2, <3>3, <3>4 DEF LastLink
  <2>2. \A x \in 2..Len(msgs) : x - 1 \in 1..Len(msgs') /\ msgs'[x - 1] = msgs[x]
    BY <1>3
  <2>3. ~LinkWaits(j)' => \A x \in 2..Len(msgs) : ~LinkMsg(msgs[x], j)
    BY <2>2 DEF LinkWaits, LinkMsg
  <2> QED
    BY <1>3, <2>1, <2>3 DEF LastLink, LinkWaits
<1> QED
  BY <1>4, <1>5

LEMMA ToldNotify ==
  ASSUME NetTypeOK, PlaceInv, ToldInv, Notify
  PROVE  ToldInv'
<1> SUFFICES ASSUME nl' # "stopped", ~untold' PROVE AddrInv' /\ LinkInv'
  BY DEF ToldInv
<1>1. ~untold /\ nl' = nl /\ UNCHANGED <<link, addr, msgs>>
  BY DEF Notify, kernel
<1>2. nlPc = "notify" /\ nlPc' = "receive" /\ cur \in Messages /\ nl = "started"
  BY DEF Notify, Processed, PlaceInv
<1>3. cur.if \in Ifs /\ cur.type \in Types
  BY <1>2 DEF Messages
<1>4. AddrInv'
  <2> SUFFICES ASSUME NEW j \in Ifs, ~AddrWaits(j) PROVE j \in addrs' <=> addr[j]
    BY <1>1, <1>2 DEF ToldInv, AddrInv, Busy, AddrWaits, LastAddr
  <2>1. AddrMsg(cur, j) => (j \in addrs' <=> cur.type = "newaddr")
    BY DEF Notify, Handled, AddrMsg
  <2>2. ~AddrMsg(cur, j) => (j \in addrs' <=> j \in addrs)
    BY DEF Notify, Handled, AddrMsg
  <2> QED
    BY <1>1, <1>2, <2>1, <2>2 DEF ToldInv, AddrInv, Busy
<1>5. LinkInv'
  <2> SUFFICES ASSUME NEW j \in Ifs, ~LinkWaits(j)
      PROVE  /\ lastLink'[j] = "LINK_ADDED" => link[j] = "up"
             /\ lastLink'[j] = "LINK_REMOVED" => link[j] # "up"
    BY <1>1, <1>2 DEF ToldInv, LinkInv, Busy, LinkWaits, LastLink
  <2>1. LinkMsg(cur, j) =>
          lastLink'[j] = IF cur.type = "up" THEN "LINK_ADDED" ELSE "LINK_REMOVED"
    BY <1>3 DEF Notify, Handled, LinkMsg, NetTypeOK
  <2>2. ~LinkMsg(cur, j) => lastLink'[j] = lastLink[j]
    BY <1>3 DEF Notify, Handled, LinkMsg, NetTypeOK, Types
  <2> QED
    BY <1>1, <1>2, <2>1, <2>2 DEF ToldInv, LinkInv, Busy
<1> QED
  BY <1>4, <1>5

(* start() tells COMPLETE: the application takes the list as it is, which  *)
(* is right but for the interfaces that a message waits for.               *)
LEMMA ToldStart ==
  ASSUME NetTypeOK, PlaceInv, ListInv, ToldInv, NetlinkStart
  PROVE  ToldInv'
<1> SUFFICES ASSUME ~untold' PROVE AddrInv' /\ LinkInv'
  BY DEF ToldInv
<1>1. /\ unsure = {} /\ (~untold \/ msgs = <<>>) /\ nl # "stopped" /\ nlPc = "idle"
      /\ nlPc' = "receive" /\ UNCHANGED <<link, addr, msgs>>
      /\ lastLink' = [i \in Ifs |-> "none"] /\ addrs' = {i \in Ifs : adapters[i] = "addr"}
  BY DEF NetlinkStart, kernel, NetTypeOK
<1>2. \A i \in Ifs : ~AddrWaits(i) => (i \in addrs' <=> addr[i])
  BY <1>1 DEF PlaceInv, ListInv, Updating, Shows, ShowsAddrs
<1>3. AddrInv'
  BY <1>1, <1>2 DEF ToldInv, AddrInv, Busy, AddrWaits, LastAddr
<1>4. LinkInv'
  BY <1>1 DEF ToldInv, LinkInv, Busy, LinkWaits, LastLink
<1> QED
  BY <1>3, <1>4

LEMMA ToldSame ==
  ASSUME ToldInv, UNCHANGED <<msgs, link, addr, addrs, lastLink, cur, untold>>, Busy' <=> Busy,
         nl' = nl \/ (nl = "none" /\ nl' = "bound")
  PROVE  ToldInv'
BY DEF ToldInv, AddrInv, LinkInv, AddrWaits, LinkWaits, LastAddr, LastLink

LEMMA ToldStep ==
  ASSUME NetTypeOK, PlaceInv, ListInv, ToldInv, [NetNext]_netVars
  PROVE  ToldInv'
<1>1. ASSUME NEW t \in Threads,
             (\E unread \in SUBSET Ifs : UpdateRead(t, unread)) \/ UpdateExchange(t) \/ UpdateFails(t)
      PROVE  ToldInv'
  <2>1. UNCHANGED <<msgs, link, addr, addrs, lastLink, cur, untold, nl>>
    BY <1>1 DEF UpdateRead, UpdateExchange, UpdateFails, kernel, netlink, told
  <2>2. Busy' <=> Busy
    BY <1>1 DEF UpdateRead, UpdateExchange, UpdateFails, MayUpdate, netlink, PlaceInv, Busy, Threads
  <2> QED
    BY <2>1, <2>2, ToldSame
<1>2. CASE Bind \/ NetlinkDispatch \/ ReceiveFails \/ UNCHANGED netVars
  BY <1>2, ToldSame DEF Bind, NetlinkDispatch, ReceiveFails, netVars, kernel, netlink, told, Busy
<1>3. CASE NetlinkStop
  BY <1>3 DEF NetlinkStop, ToldInv
<1> QED
  BY <1>1, <1>2, <1>3, ToldKernel, ToldReceive, ToldNotify, ToldStart DEF NetNext

(* The events told, starting with COMPLETE, add up to the state of the     *)
(* interfaces whenever no message waits or is being processed, for any     *)
(* order of changes, messages and updates, unless a message was missed.    *)
THEOREM EventsFollowedAlways == NetSpec => []EventsFollowed
<1>1. NetInit => ToldInv
  BY DEF NetInit, InterfacesInit, ToldInv, AddrInv, LinkInv, AddrWaits, LinkWaits, Busy
<1>2. ToldInv /\ ListInv /\ NetTypeOK /\ PlaceInv /\ [NetNext]_netVars => ToldInv'
  BY ToldStep
<1>3. ToldInv /\ NetTypeOK => EventsFollowed
  <2> SUFFICES ASSUME ToldInv, NetTypeOK, Quiet, ~untold PROVE EventsFollowed
    BY DEF EventsFollowed
  <2>1. \A i \in Ifs : ~AddrWaits(i) /\ ~LinkWaits(i)
    BY DEF Quiet, AddrWaits, LinkWaits
  <2>2. AddrInv /\ LinkInv /\ ~Busy
    BY DEF Quiet, ToldInv, Busy
  <2> QED
    BY <2>1, <2>2 DEF AddrInv, LinkInv, Quiet, EventsFollowed, NetTypeOK
<1> QED
  BY <1>1, <1>2, <1>3, ListInvariant, NetInvariant, PTL DEF NetSpec

-----------------------------------------------------------------------------
(* Multicast: sending                                                      *)

(* A call that is not crossed is the only one, it has the socket's         *)
(* interface to itself, and keeps the books, unless it takes the default   *)
(* interface for each: as long as there was no error what it is for was    *)
(* sent over or is still to do.                                            *)
Booked(c) ==
  /\ c.chosen # NoIf => c.chosen \in c.todo
  /\ c.crossed => c.over = {} /\ c.want = {}
  /\ ~c.crossed /\ c.by # "default" =>
       /\ sendSock /\ c.chosen # NoIf => mif = c.chosen
       /\ c.over \cup c.todo \subseteq c.want
       /\ c.ret = "ERR_SUCCESS" => c.over \cup c.todo = c.want

CallInv ==
  /\ \A t, u \in Senders : t # u /\ call[t] # NoCall /\ call[u] # NoCall => call[t].crossed
  /\ \A t \in Senders : call[t] # NoCall => Booked(call[t])

(* The types that the calls for sending need.                              *)
SendOK ==
  /\ sendSock \in BOOLEAN
  /\ mif \in Ifs \cup {NoIf}
  /\ call \in [Senders -> Calls \cup {NoCall}]

(* What a call is made of.                                                 *)
LEMMA CallFields ==
  ASSUME SendOK, NEW t \in Senders, call[t] # NoCall
  PROVE  /\ call[t] \in Calls
         /\ call[t].todo \subseteq Ifs /\ call[t].usable \subseteq Ifs
         /\ call[t].want \subseteq Ifs /\ call[t].over \subseteq Ifs
         /\ call[t].chosen \in Ifs \cup {NoIf} /\ call[t].crossed \in BOOLEAN
         /\ call[t].ret \in Results /\ call[t].by \in Ways
BY DEF SendOK, Calls

LEMMA BeginStep ==
  ASSUME SendOK, CallInv, NEW t \in Senders, NEW ifs \in SUBSET Ifs, NEW usable \in SUBSET Ifs,
         NEW by \in Ways, Begin(t, ifs, usable, by)
  PROVE  SendOK' /\ CallInv'
<1> DEFINE others == {u \in Senders : call[u] # NoCall}
           mine   == [todo |-> ifs, usable |-> usable \cap ifs, by |-> by, chosen |-> NoIf,
                      ret |-> "ERR_SUCCESS", over |-> {},
                      want |-> IF others = {} THEN ifs ELSE {}, crossed |-> others # {}]
           crossing(c) == [c EXCEPT !.want = {}, !.over = {}, !.crossed = TRUE]
<1>1. /\ call[t] = NoCall /\ UNCHANGED <<sendSock, mif>>
      /\ call' = [u \in Senders |-> IF u = t THEN mine
                                    ELSE IF u \in others THEN crossing(call[u]) ELSE NoCall]
  BY DEF Begin
<1>2. mine \in Calls
  BY DEF Calls, Results
<1>3. \A u \in others : crossing(call[u]) \in Calls
  BY CallFields DEF Calls
<1> HIDE DEF mine, crossing
<1>4. SendOK'
  BY <1>1, <1>2, <1>3 DEF SendOK
<1>5. \A u \in Senders : u # t /\ call'[u] # NoCall => u \in others /\ call'[u] = crossing(call[u])
  BY <1>1
<1>6. \A u \in others : LET c == crossing(call[u])
                       IN  /\ c.crossed /\ c.over = {} /\ c.want = {}
                           /\ c.chosen # NoIf => c.chosen \in c.todo
  <2> SUFFICES ASSUME NEW u \in others
      PROVE  LET c == crossing(call[u])
             IN  /\ c.crossed /\ c.over = {} /\ c.want = {}
                 /\ c.chosen # NoIf => c.chosen \in c.todo
    OBVIOUS
  <2>1. call[u] \in Calls /\ (call[u].chosen # NoIf => call[u].chosen \in call[u].todo)
    BY CallFields DEF CallInv, Booked
  <2> QED
    BY <2>1 DEF crossing, Calls
<1>7. /\ mine.chosen = NoIf /\ mine.over = {} /\ mine.todo = ifs
      /\ mine.crossed <=> others # {}
      /\ mine.want = IF others = {} THEN ifs ELSE {}
  BY DEF mine
<1>8. \A u \in Senders : call'[u] # NoCall => Booked(call[u])'
  BY <1>1, <1>5, <1>6, <1>7 DEF Booked
<1>9. \A u, v \in Senders : u # v /\ call'[u] # NoCall /\ call'[v] # NoCall => call'[u].crossed
  BY <1>1, <1>5, <1>6, <1>7
<1> QED
  BY <1>4, <1>8, <1>9 DEF CallInv

(* What Finish() leaves of a call.                                         *)
LEMMA FinishEffect ==
  ASSUME SendOK, NEW t \in Senders, call[t] # NoCall, NEW i, NEW result \in Results,
         NEW on \in SUBSET Ifs, Finish(t, i, result, on)
  PROVE  /\ call' \in [Senders -> Calls \cup {NoCall}]
         /\ \A u \in Senders : u # t => call'[u] = call[u]
         /\ call'[t].todo = call[t].todo \ {i} /\ call'[t].chosen = NoIf
         /\ call'[t].by = call[t].by
         /\ call'[t].crossed = call[t].crossed /\ call'[t].want = call[t].want
         /\ call'[t].over = IF call[t].crossed THEN {} ELSE call[t].over \cup on
         /\ result # "ERR_SUCCESS" => call'[t].ret = result
         /\ result = "ERR_SUCCESS" => call'[t].ret = call[t].ret
<1> DEFINE c == call[t]
           d == [c EXCEPT !.todo = @ \ {i}, !.usable = @ \ {i}, !.chosen = NoIf,
                          !.ret = Result(@, result), !.over = IF c.crossed THEN {} ELSE @ \cup on]
<1>1. c \in Calls
  BY CallFields
<1>2. call' = [call EXCEPT ![t] = d]
  BY DEF Finish
<1>3. d \in Calls
  BY <1>1 DEF Calls, Result
<1>4. /\ d.todo = c.todo \ {i} /\ d.chosen = NoIf /\ d.crossed = c.crossed /\ d.want = c.want
      /\ d.by = c.by
      /\ d.over = IF c.crossed THEN {} ELSE c.over \cup on
      /\ d.ret = Result(c.ret, result)
  BY <1>1 DEF Calls
<1> HIDE DEF d
<1> QED
  BY <1>2, <1>3, <1>4 DEF SendOK, Result

LEMMA SendStepInv ==
  ASSUME SendOK, CallInv, NEW t \in Senders,
         \/ SendTo(t) \/ SendToFails(t) \/ Return(t)
         \/ \E i \in Ifs : SetInterface(t, i) \/ NoInterface(t, i)
  PROVE  SendOK' /\ CallInv'
<1>1. /\ sendSock' = sendSock /\ call[t] # NoCall /\ Booked(call[t])
      /\ \A u \in Senders : u # t /\ call[u] # NoCall => call[t].crossed /\ call[u].crossed
  BY DEF SendTo, SendToFails, Return, Returns, SetInterface, NoInterface, CallInv
(* It is enough to look at this call: another one is crossed.              *)
<1>2. ASSUME call' \in [Senders -> Calls \cup {NoCall}], mif' \in Ifs \cup {NoIf},
             \A u \in Senders : u # t => call'[u] = call[u],
             call'[t] # NoCall => Booked(call[t])' /\ call'[t].crossed = call[t].crossed
      PROVE  SendOK' /\ CallInv'
  <2>1. SendOK'
    BY <1>1, <1>2 DEF SendOK
  <2>2. \A u \in Senders : u # t /\ call'[u] # NoCall => Booked(call[u])'
    BY <1>1, <1>2 DEF CallInv, Booked
  <2>3. \A u, v \in Senders : u # v /\ call'[u] # NoCall /\ call'[v] # NoCall => call'[u].crossed
    BY <1>1, <1>2 DEF CallInv
  <2> QED
    BY <1>2, <2>1, <2>2, <2>3 DEF CallInv
<1>3. "ERR_SUCCESS" \in Results /\ {} \in SUBSET Ifs
  BY DEF Results
<1>4. CASE SendTo(t)
  <2>1. /\ sendSock /\ mif' = mif /\ call[t].chosen # NoIf
        /\ \E i \in Outgoing : Finish(t, call[t].chosen, "ERR_SUCCESS", {i})
    BY <1>4 DEF SendTo
  <2>2. PICK i \in Outgoing : Finish(t, call[t].chosen, "ERR_SUCCESS", {i})
    BY <2>1
  <2>3. i \in Ifs /\ {i} \in SUBSET Ifs /\ mif \in {i, NoIf}
    BY DEF Outgoing
  <2>4. /\ call' \in [Senders -> Calls \cup {NoCall}]
        /\ \A u \in Senders : u # t => call'[u] = call[u]
        /\ call'[t].todo = call[t].todo \ {call[t].chosen} /\ call'[t].chosen = NoIf
        /\ call'[t].by = call[t].by
        /\ call'[t].crossed = call[t].crossed /\ call'[t].want = call[t].want
        /\ call'[t].over = IF call[t].crossed THEN {} ELSE call[t].over \cup {i}
        /\ call'[t].ret = call[t].ret
    BY <1>1, <1>3, <2>2, <2>3, FinishEffect
  <2>5. CASE call[t].crossed
    BY <1>1, <1>2, <2>1, <2>4, <2>5 DEF Booked, SendOK
  <2>6. CASE ~call[t].crossed /\ call[t].by = "default"
    BY <1>1, <1>2, <2>1, <2>4, <2>6 DEF Booked, SendOK
  <2>7. CASE ~call[t].crossed /\ call[t].by # "default"
    <3>1. mif = call[t].chosen /\ mif \in Ifs /\ call[t].chosen \in call[t].todo
      BY <1>1, <2>1, <2>7 DEF Booked, SendOK
    <3>2. i = call[t].chosen
      BY <2>1, <2>3, <3>1
    <3> QED
      BY <1>1, <1>2, <2>1, <2>4, <2>7, <3>1, <3>2 DEF Booked, SendOK
  <2> QED
    BY <2>5, <2>6, <2>7
<1>5. ASSUME NEW i \in Ifs, NEW result \in Results, result # "ERR_SUCCESS",
             Finish(t, i, result, {}), mif' = mif
      PROVE  SendOK' /\ CallInv'
  <2>1. /\ call' \in [Senders -> Calls \cup {NoCall}]
        /\ \A u \in Senders : u # t => call'[u] = call[u]
        /\ call'[t].chosen = NoIf /\ call'[t].by = call[t].by
        /\ call'[t].crossed = call[t].crossed /\ call'[t].want = call[t].want
    BY <1>1, <1>3, <1>5, FinishEffect
  <2>2. call'[t].todo = call[t].todo \ {i}
    BY <1>1, <1>3, <1>5, FinishEffect
  <2>3. ~call[t].crossed => call'[t].over = call[t].over \cup {}
    BY <1>1, <1>3, <1>5, FinishEffect
  <2>4. call[t].crossed => call'[t].over = {}
    BY <1>1, <1>3, <1>5, FinishEffect
  <2>5. call'[t].ret = result
    <3>1. call[t] \in Calls
      BY <1>1, CallFields
    <3> QED
      BY <1>5, <3>1 DEF Finish, Calls, Result, SendOK
  <2> QED
    BY <1>1, <1>2, <1>5, <2>1, <2>2, <2>3, <2>4, <2>5 DEF Booked, SendOK
<1>6. CASE SendToFails(t)
  BY <1>1, <1>5, <1>6, CallFields DEF SendToFails, Results
<1>7. CASE Return(t)
  BY <1>2, <1>7 DEF Return, SendOK
<1>8. ASSUME NEW i \in Ifs, NoInterface(t, i) PROVE SendOK' /\ CallInv'
  BY <1>5, <1>8 DEF NoInterface, Results
<1>9. ASSUME NEW i \in Ifs, SetInterface(t, i) PROVE SendOK' /\ CallInv'
  <2> DEFINE c == call[t]
             d == [c EXCEPT !.chosen = i]
  <2>1. c \in Calls /\ i \in c.todo
    BY <1>1, <1>9, CallFields DEF SetInterface
  <2>2. call' = [call EXCEPT ![t] = d] /\ mif' = IF c.by = "default" THEN NoIf ELSE i
    BY <1>9 DEF SetInterface
  <2>3. /\ d \in Calls /\ d.chosen = i /\ d.todo = c.todo /\ d.crossed = c.crossed /\ d.by = c.by
        /\ d.over = c.over /\ d.want = c.want /\ d.ret = c.ret
    BY <1>9, <2>1 DEF Calls
  <2> HIDE DEF d
  <2> QED
    BY <1>1, <1>2, <1>9, <2>1, <2>2, <2>3 DEF Booked, SendOK
<1> QED
  BY <1>4, <1>6, <1>7, <1>8, <1>9

LEMMA SendCallInv ==
  ASSUME SendOK, CallInv, SendCall \/ SendCallWin
  PROVE  SendOK' /\ CallInv'
<1>1. WithAddress \in SUBSET Ifs /\ {i \in Ifs : Known(i)} \in SUBSET Ifs /\ Ifs \in SUBSET Ifs
  BY DEF WithAddress
<1>2. ASSUME NEW t \in Senders, send(t) \/ sendWin(t) PROVE SendOK' /\ CallInv'
  BY <1>1, <1>2, BeginStep DEF send, sendWin, Ways
<1>3. ASSUME NEW t \in Senders, NEW i \in Ifs,
             sendOverInterface(t, i) \/ sendOverInterfaceWin(t, i) \/ sendOverInterfaceDataWin(t, i)
      PROVE  SendOK' /\ CallInv'
  <2>1. {i} \in SUBSET Ifs
    OBVIOUS
  <2> QED
    BY <1>1, <1>3, <2>1, BeginStep
       DEF sendOverInterface, sendOverInterfaceWin, sendOverInterfaceDataWin, Ways
<1>4. ASSUME NEW t \in Senders, NEW i \in Ifs, NEW by \in {"address", "index"},
             sendOverInterfaceBy(t, i, by) \/ sendOverInterfaceByWin(t, i, by)
      PROVE  SendOK' /\ CallInv'
  <2>1. {i} \in SUBSET Ifs
    OBVIOUS
  <2>2. by \in Ways /\ (IF by = "address" THEN "group" ELSE "default") \in Ways
    BY <1>4 DEF Ways
  <2> QED
    BY <1>1, <1>4, <2>1, <2>2, BeginStep DEF sendOverInterfaceBy, sendOverInterfaceByWin
<1> QED
  BY <1>2, <1>3, <1>4 DEF SendCall, SendCallWin

(* start() waits for the calls to end, and stop() leaves no socket.        *)
LEMMA SendOther ==
  ASSUME SendOK, CallInv,
         ServerCall \/ MembershipCall \/ ReceiveStep \/ Environment
         \/ UNCHANGED <<interfaces, mcVars>>
  PROVE  SendOK' /\ CallInv'
<1>1. call' = call
  BY DEF ServerCall, StartNoSender, StartNoReceiver, McStart, McStop, MembershipCall, addInterface,
       dropInterface, addAllInterfaces, dropAllInterfaces, ReceiveStep, Arrive, McDispatch, process,
       ProcessEmpty, Environment, mcVars
<1>2. \/ UNCHANGED <<sendSock, mif>>
      \/ sendSock' \in BOOLEAN /\ mif' = NoIf /\ (~sendSock' \/ \A t \in Senders : call[t] = NoCall)
  BY DEF ServerCall, StartNoSender, StartNoReceiver, McStart, McStop, setupSendSocket, MayStart,
       MembershipCall, addInterface, dropInterface, addAllInterfaces, dropAllInterfaces, ReceiveStep,
       Arrive, McDispatch, process, ProcessEmpty, Environment, mcVars
<1>3. SendOK'
  BY <1>1, <1>2 DEF SendOK
<1> QED
  BY <1>1, <1>2, <1>3 DEF CallInv, Booked

(* A call that returns ERR_SUCCESS has sent over every interface it was    *)
(* for, and no call over any other, unless another thread was sending at   *)
(* the same time: whatever happens to interfaces and the list meanwhile,   *)
(* also if stop() is called.  This holds for every call on Linux and, on   *)
(* Windows, for the calls of sendOverInterface() and of                    *)
(* sendOverInterfaceByAddress(): the others take the default interface.    *)
THEOREM SentOverAllAlways == McSpec => []SentOverAll
<1>1. InterfacesInit /\ McInit => SendOK /\ CallInv
  BY DEF McInit, SendOK, CallInv
<1>2. SendOK /\ CallInv /\ [McNext]_<<interfaces, mcVars>> => (SendOK /\ CallInv)'
  BY SendStepInv, SendCallInv, SendOther DEF McNext, SendStep
<1>3. CallInv => SentOverAll
  BY DEF CallInv, Booked, SentOverAll, Returns
<1> QED
  BY <1>1, <1>2, <1>3, PTL DEF McSpec

-----------------------------------------------------------------------------
(* Multicast: receiving                                                    *)

DatagramsOK == datagrams \in Seq(Datagrams)

(* Datagrams that wait have their call of process() to come, unless one in *)
(* front of them was empty or came from an interface that is not in the    *)
(* list yet.                                                               *)
THEOREM DatagramsDueAlways == McSpec => []DatagramsDue
<1> DEFINE Inv == DatagramsOK /\ DatagramsDue
<1>1. InterfacesInit /\ McInit => Inv
  BY DEF McInit, DatagramsOK, DatagramsDue
<1>2. Inv /\ [McNext]_<<interfaces, mcVars>> => Inv'
  <2> SUFFICES ASSUME Inv, [McNext]_<<interfaces, mcVars>> PROVE Inv'
    OBVIOUS
  <2>1. CASE ServerCall
    <3>1. \/ UNCHANGED <<registered, datagrams, mcEvent, processing, mcStalled>>
          \/ datagrams' = <<>>
      BY <2>1 DEF ServerCall, StartNoSender, StartNoReceiver, McStart, McStop, NewReceiver, receiver,
           socket, inbox
    <3>2. CASE datagrams' = <<>>
      <4>1. <<>> \in Seq(Datagrams)
        OBVIOUS
      <4> QED
        BY <3>2, <4>1 DEF DatagramsOK, DatagramsDue
    <3> QED
      BY <3>1, <3>2 DEF DatagramsOK, DatagramsDue
  <2>2. CASE MembershipCall \/ Environment \/ SendCall \/ SendCallWin \/ SendStep
             \/ UNCHANGED <<interfaces, mcVars>>
    <3>1. UNCHANGED <<registered, datagrams, mcEvent, processing, mcStalled>>
      BY <2>2 DEF MembershipCall, addInterface, dropInterface, addAllInterfaces, dropAllInterfaces,
           Environment, SendCall, SendCallWin, send, sendWin, sendOverInterface,
           sendOverInterfaceWin, sendOverInterfaceDataWin, sendOverInterfaceBy,
           sendOverInterfaceByWin, Begin, SendStep,
           SendTo, SendToFails, Return, SetInterface, NoInterface, mcVars, receiver, socket, inbox
    <3> QED
      BY <3>1 DEF DatagramsOK, DatagramsDue
  <2>3. ASSUME NEW i \in Ifs, NEW size \in {0, 1}, Arrive(i, size) PROVE Inv'
    <3>1. [if |-> i, size |-> size] \in Datagrams
      BY DEF Datagrams
    <3>2. DatagramsOK'
      BY <2>3, <3>1 DEF Arrive, DatagramsOK
    <3>3. registered' => mcEvent'
      BY <2>3 DEF Arrive, socket
    <3> QED
      BY <3>2, <3>3 DEF DatagramsDue
  <2>4. CASE McDispatch \/ ProcessEmpty
    BY <2>4 DEF McDispatch, ProcessEmpty, socket, DatagramsOK, DatagramsDue
  <2>5. ASSUME NEW byIndex \in BOOLEAN, process(byIndex) PROVE Inv'
    <3> DEFINE d == Head(datagrams)
    <3>1. d \in Datagrams /\ datagrams' \in Seq(Datagrams)
      BY <2>5 DEF process, DatagramsOK
    <3>2. d.size \in {0, 1}
      BY <3>1 DEF Datagrams
    <3>3. /\ processing' <=> (d.size > 0 /\ (byIndex \/ Known(d.if)))
          /\ mcStalled' <=> ((d.size = 0 \/ ~Known(d.if)) /\ ~processing' /\ ~mcEvent)
          /\ mcEvent' = mcEvent
      BY <2>5 DEF process, Received
    <3>4. processing' \/ mcStalled' \/ mcEvent'
      BY <3>2, <3>3
    <3> QED
      BY <3>1, <3>4 DEF DatagramsOK, DatagramsDue
  <2> QED
    BY <2>1, <2>2, <2>3, <2>4, <2>5 DEF McNext, ReceiveStep
<1> QED
  BY <1>1, <1>2, PTL DEF McSpec

-----------------------------------------------------------------------------
(* Induction over the natural numbers, for a set: if m were the number of  *)
(* no element, the numbers up to m could be mapped into those below m, one *)
(* to one (as in SenderProofs).                                            *)
LEMMA InductionOverSet ==
  ASSUME NEW S, 0 \in S, \A n \in Nat : n \in S => n + 1 \in S
  PROVE  \A n \in Nat : n \in S
<1> SUFFICES ASSUME NEW m \in Nat, m \notin S PROVE FALSE
  OBVIOUS
<1> DEFINE shift == [n \in 0..m |-> IF n \in S THEN n ELSE n - 1]
<1>1. m # 0
  OBVIOUS
<1>2. \A n \in 0..m : n \notin S => n - 1 \in 0..(m - 1) /\ n - 1 \notin S
  <2> SUFFICES ASSUME NEW n \in 0..m, n \notin S PROVE n - 1 \in 0..(m - 1) /\ n - 1 \notin S
    OBVIOUS
  <2>1. n # 0
    OBVIOUS
  <2>2. n - 1 \in Nat /\ (n - 1) + 1 = n
    BY <2>1
  <2> QED BY <2>1, <2>2
<1>3. shift \in [0..m -> 0..(m - 1)]
  BY <1>1, <1>2
<1>4. /\ IsFiniteSet(0..m) /\ IsFiniteSet(0..(m - 1))
      /\ Cardinality(0..(m - 1)) < Cardinality(0..m)
  BY <1>1, FS_Interval
<1>5. \A x, y \in 0..m : x # y => shift[x] # shift[y]
  BY <1>2
<1> HIDE DEF shift
<1>6. \E x, y \in 0..m : x # y /\ shift[x] = shift[y]
  BY <1>3, <1>4, FS_PigeonHole
<1> QED BY <1>5, <1>6

(* What division and remainder are.                                        *)
LEMMA DivMod ==
  ASSUME NEW a \in Nat, NEW b \in Nat \ {0}
  PROVE  a \div b \in Nat /\ a % b \in 0..(b - 1) /\ a = b * (a \div b) + (a % b)
OBVIOUS

LEMMA Quotient ==
  ASSUME NEW a \in Int, NEW b \in Nat \ {0}, NEW q \in Int, NEW r \in 0..(b - 1), a = b * q + r
  PROVE  a \div b = q /\ a % b = r
OBVIOUS

(* Powers of two.                                                          *)
LEMMA Power2Defined ==
  ASSUME W \in Nat
  PROVE  Power2 = [n \in 0..(2 * W) |-> IF n = 0 THEN 1 ELSE 2 * Power2[n - 1]]
<1> DEFINE N == 2 * W
           Partial(f, m) == f = [n \in 0..m |-> IF n = 0 THEN 1 ELSE 2 * f[n - 1]]
           S == {m \in Nat : \E f : Partial(f, m)}
<1>1. 0 \in S
  <2>1. Partial([n \in 0..0 |-> 1], 0)
    OBVIOUS
  <2> QED BY <2>1
<1>2. \A m \in Nat : m \in S => m + 1 \in S
  <2> HIDE DEF Partial
  <2> SUFFICES ASSUME NEW m \in Nat, NEW f, Partial(f, m)
               PROVE  \E g : Partial(g, m + 1)
    OBVIOUS
  <2> DEFINE g == [n \in 0..(m + 1) |-> IF n = m + 1 THEN 2 * f[m] ELSE f[n]]
  <2>1. Partial(g, m + 1)
    BY DEF Partial
  <2> QED BY <2>1
<1> HIDE DEF S
<1>3. N \in S
  BY <1>1, <1>2, InductionOverSet
<1>4. \E f : Partial(f, N)
  BY <1>3 DEF S
<1> QED BY <1>4 DEF Power2

(* A square is the larger power, and powers are positive.                  *)
LEMMA Power2Facts ==
  ASSUME W \in Nat
  PROVE  /\ Power2[0] = 1
         /\ \A n \in 0..(2 * W) : Power2[n] \in Nat \ {0}
         /\ \A n \in 1..(2 * W) : Power2[n] = 2 * Power2[n - 1]
         /\ \A a, b \in 0..W : Power2[a + b] = Power2[a] * Power2[b]
<1> DEFINE N == 2 * W
<1>1. N \in Nat /\ W <= N
  OBVIOUS
<1>2. Power2 = [n \in 0..N |-> IF n = 0 THEN 1 ELSE 2 * Power2[n - 1]]
  BY Power2Defined
<1> HIDE DEF N
<1>3. Power2[0] = 1 /\ \A n \in 1..N : Power2[n] = 2 * Power2[n - 1]
  BY <1>1, <1>2
<1>4. \A n \in Nat : n <= N => Power2[n] \in Nat \ {0}
  <2> DEFINE S == {n \in Nat : n <= N => Power2[n] \in Nat \ {0}}
  <2>1. 0 \in S
    BY <1>3
  <2>2. \A n \in Nat : n \in S => n + 1 \in S
    <3> SUFFICES ASSUME NEW n \in Nat, n + 1 <= N, Power2[n] \in Nat \ {0}
                 PROVE  Power2[n + 1] \in Nat \ {0}
      BY <1>1
    <3>1. n + 1 \in 1..N /\ (n + 1) - 1 = n
      BY <1>1
    <3> QED BY <1>3, <3>1
  <2> HIDE DEF S
  <2>3. \A n \in Nat : n \in S
    BY <2>1, <2>2, InductionOverSet
  <2> QED BY <2>3 DEF S
<1>5. ASSUME NEW a \in 0..W
      PROVE  \A b \in Nat : b <= W => Power2[a + b] = Power2[a] * Power2[b]
  <2> DEFINE S == {b \in Nat : b <= W => Power2[a + b] = Power2[a] * Power2[b]}
  <2>1. Power2[a] \in Nat
    BY <1>1, <1>4
  <2>2. 0 \in S
    BY <1>3, <2>1
  <2>3. \A b \in Nat : b \in S => b + 1 \in S
    <3> SUFFICES ASSUME NEW b \in Nat, b + 1 <= W, Power2[a + b] = Power2[a] * Power2[b]
                 PROVE  Power2[a + (b + 1)] = Power2[a] * Power2[b + 1]
      OBVIOUS
    <3>1. /\ b + 1 \in 1..N /\ (b + 1) - 1 = b
          /\ a + (b + 1) \in 1..N /\ (a + (b + 1)) - 1 = a + b
      BY DEF N
    <3>2. Power2[b + 1] = 2 * Power2[b] /\ Power2[a + (b + 1)] = 2 * Power2[a + b]
      BY <1>3, <3>1
    <3>3. Power2[b] \in Nat
      BY <1>1, <1>4
    <3>4. Power2[a] * (2 * Power2[b]) = 2 * (Power2[a] * Power2[b])
      BY <2>1, <3>3
    <3> QED BY <3>2, <3>4
  <2> HIDE DEF S
  <2>4. \A b \in Nat : b \in S
    BY <2>2, <2>3, InductionOverSet
  <2> QED BY <2>4 DEF S
<1> QED BY <1>1, <1>3, <1>4, <1>5 DEF N

(* What a word holds.                                                      *)
LEMMA WordFacts ==
  /\ W \in 1..(2 * W)
  /\ Power2[W] \in Nat \ {0} /\ Power2[2 * W] = Power2[W] * Power2[W]
  /\ \A n \in 0..(Power2[W] - 1) : word(n) = n
  /\ \A n \in 0..(Power2[W] * Power2[W] - 1) : dword(n) = n
<1>1. W \in Nat /\ Micro \in 1..(Power2[W] - 1)
  BY ConversionsAssumption
<1>2. Power2[W] \in Nat \ {0} /\ Power2[W + W] = Power2[W] * Power2[W]
  BY <1>1, Power2Facts
<1>3. W # 0
  BY <1>1, Power2Facts
<1>4. W + W = 2 * W
  BY <1>1
<1>5. Power2[W] * Power2[W] \in Nat \ {0}
  BY <1>2
<1>6. \A n \in 0..(Power2[W] - 1) : word(n) = n
  <2> SUFFICES ASSUME NEW n \in 0..(Power2[W] - 1) PROVE word(n) = n
    OBVIOUS
  <2>1. n = Power2[W] * 0 + n
    BY <1>2
  <2> QED BY <1>2, <2>1, Quotient DEF word
<1>7. \A n \in 0..(Power2[W] * Power2[W] - 1) : dword(n) = n
  <2> DEFINE D == Power2[W] * Power2[W]
  <2>1. Power2[2 * W] = D /\ D \in Nat \ {0}
    BY <1>2, <1>4, <1>5
  <2> HIDE DEF D
  <2> SUFFICES ASSUME NEW n \in 0..(D - 1) PROVE dword(n) = n
    BY DEF D
  <2>2. n = D * 0 + n
    BY <2>1
  <2> QED BY <2>1, <2>2, Quotient DEF dword
<1> QED BY <1>1, <1>2, <1>3, <1>4, <1>6, <1>7

-----------------------------------------------------------------------------
(* Times.  M is the number of fractions in a second, U that of units.      *)

(* The fraction of n units, for n within a second.                         *)
LEMMA FractionFacts ==
  ASSUME NEW U \in 1..(Power2[W] - 1), NEW n \in 0..(U - 1)
  PROVE  /\ Ntpfraction(n, U) \in 0..(Power2[W] - 2)
         /\ U * Ntpfraction(n, U) <= n * Power2[W]
         /\ n * Power2[W] < U * Ntpfraction(n, U) + U
<1> DEFINE M == Power2[W]
           f == (n * M) \div U
<1>1. M \in Nat \ {0} /\ U \in Nat \ {0} /\ n \in Nat /\ U + 1 <= M /\ n + 1 <= U
  BY WordFacts
<1> HIDE DEF M
<1>2. n * M \in Nat /\ (n + 1) * M <= U * M /\ U * M <= M * M /\ (n + 1) * M = n * M + M
  BY <1>1
<1>3. n * M < M * M
  BY <1>1, <1>2
<1>4. n * M \in 0..(M * M - 1)
  BY <1>1, <1>2, <1>3
<1>5. dword(n * M) = n * M
  BY <1>4, WordFacts DEF M
<1>6. f \in Nat /\ (n * M) % U \in 0..(U - 1) /\ n * M = U * f + ((n * M) % U)
  BY <1>1, <1>2, DivMod
<1> DEFINE r == (n * M) % U
<1> HIDE DEF f, r
<1>7. U * f \in Nat /\ U * f <= n * M /\ n * M < U * f + U
  <2>1. U * f \in Nat
    BY <1>1, <1>6
  <2> QED BY <1>1, <1>2, <1>6, <2>1 DEF r
<1>8. f <= M - 2
  <2> SUFFICES ASSUME f >= M - 1 PROVE FALSE
    BY <1>1, <1>6
  <2>1. U * (M - 1) <= U * f
    BY <1>1, <1>6
  <2>2. U * (M - 1) = U * M - U
    BY <1>1
  <2>3. U * M - U <= U * M - M
    BY <1>1, <1>2, <1>7, <2>1, <2>2
  <2>4. U * M \in Nat
    BY <1>1
  <2> QED BY <1>1, <2>3, <2>4
<1>9. word(f) = f
  BY <1>1, <1>6, <1>8, WordFacts DEF M
<1>10. Ntpfraction(n, U) = f
  BY <1>5, <1>9 DEF Ntpfraction, f, M
<1> QED BY <1>1, <1>6, <1>7, <1>8, <1>10 DEF M

(* The units of fraction f, which is not the last one.                     *)
LEMMA UnitFacts ==
  ASSUME NEW U \in 1..(Power2[W] - 1), NEW f \in 0..(Power2[W] - 2)
  PROVE  LET n == word(dword((f + 1) * U) \div Power2[W])
         IN  /\ n \in 0..(U - 1)
             /\ Power2[W] * n <= (f + 1) * U
             /\ (f + 1) * U < Power2[W] * n + Power2[W]
<1> DEFINE M == Power2[W]
           n == ((f + 1) * U) \div M
           r == ((f + 1) * U) % M
<1>1. M \in Nat \ {0} /\ U \in Nat \ {0} /\ f + 1 \in Nat /\ U + 1 <= M /\ f + 2 <= M
  BY WordFacts
<1> HIDE DEF M
<1>2. /\ (f + 1) * U \in Nat /\ (f + 2) * U <= M * U /\ M * U <= M * M
      /\ (f + 2) * U = (f + 1) * U + U
  BY <1>1
<1>3. (f + 1) * U < M * U /\ (f + 1) * U \in 0..(M * M - 1)
  BY <1>1, <1>2
<1>4. dword((f + 1) * U) = (f + 1) * U
  BY <1>3, WordFacts DEF M
<1>5. n \in Nat /\ r \in 0..(M - 1) /\ (f + 1) * U = M * n + r
  BY <1>1, <1>2, DivMod
<1> HIDE DEF n, r
<1>6. M * n \in Nat /\ M * n <= (f + 1) * U /\ (f + 1) * U < M * n + M
  <2>1. M * n \in Nat
    BY <1>1, <1>5
  <2> QED BY <1>1, <1>2, <1>5, <2>1
<1>7. n < U
  <2> SUFFICES ASSUME n >= U PROVE FALSE
    BY <1>1, <1>5
  <2>1. M * U <= M * n
    BY <1>1, <1>5
  <2>2. M * U \in Nat
    BY <1>1
  <2> QED BY <1>2, <1>3, <1>6, <2>1, <2>2
<1>8. word(n) = n
  BY <1>1, <1>5, <1>7, WordFacts DEF M
<1>9. word(dword((f + 1) * U) \div M) = n
  BY <1>4, <1>8 DEF n
<1> QED BY <1>1, <1>5, <1>6, <1>7, <1>9 DEF M

LEMMA UnitsOfFraction ==
  ASSUME NEW f \in 0..(Power2[W] - 2)
  PROVE  /\ ntpfraction2nanoseconds(f) = word(dword((f + 1) * Nano) \div Power2[W])
         /\ ntpfraction2microseconds(f) = word(dword((f + 1) * Micro) \div Power2[W])
<1>1. f + 1 \in 0..(Power2[W] - 1)
  BY WordFacts
<1>2. word(f + 1) = f + 1
  BY <1>1, WordFacts
<1> QED BY <1>2 DEF ntpfraction2nanoseconds, ntpfraction2microseconds

(* From units to a fraction and back nothing is lost.                      *)
LEMMA UnitsBack ==
  ASSUME NEW U \in 1..(Power2[W] - 1), NEW n \in 0..(U - 1)
  PROVE  word(dword((Ntpfraction(n, U) + 1) * U) \div Power2[W]) = n
<1> DEFINE M == Power2[W]
           f == Ntpfraction(n, U)
           m == word(dword((f + 1) * U) \div M)
<1>1. M \in Nat \ {0} /\ U \in Nat \ {0} /\ U + 1 <= M /\ n \in Nat
  BY WordFacts
<1>2. f \in 0..(M - 2) /\ U * f <= n * M /\ n * M < U * f + U
  BY FractionFacts
<1>3. m \in 0..(U - 1) /\ M * m <= (f + 1) * U /\ (f + 1) * U < M * m + M
  BY <1>2, UnitFacts
<1> HIDE DEF M, f, m
<1>4. f \in Nat /\ m \in Nat /\ (f + 1) * U = U * f + U /\ U * f \in Nat
  BY <1>1, <1>2, <1>3
<1>5. n * M \in Nat /\ M * m \in Nat
  BY <1>1, <1>4
<1>6. n * M < M * m + M /\ M * m < n * M + M
  BY <1>1, <1>2, <1>3, <1>4, <1>5
<1>7. n < m + 1
  <2> SUFFICES ASSUME n >= m + 1 PROVE FALSE
    BY <1>1, <1>4
  <2>1. (m + 1) * M <= n * M /\ (m + 1) * M = M * m + M
    BY <1>1, <1>4
  <2> QED BY <1>1, <1>5, <1>6, <2>1
<1>8. m < n + 1
  <2> SUFFICES ASSUME m >= n + 1 PROVE FALSE
    BY <1>1, <1>4
  <2>1. M * (n + 1) <= M * m /\ M * (n + 1) = n * M + M
    BY <1>1, <1>4
  <2> QED BY <1>1, <1>5, <1>6, <2>1
<1>9. m = n
  BY <1>1, <1>4, <1>7, <1>8
<1> QED BY <1>9 DEF m, f, M

(* From a fraction to units and back at most a unit is lost.               *)
LEMMA FractionBack ==
  ASSUME NEW U \in 1..(Power2[W] - 1), NEW f \in 0..(Power2[W] - 2)
  PROVE  f - Ntpfraction(word(dword((f + 1) * U) \div Power2[W]), U) \in -1..(Power2[W] \div U)
<1> DEFINE M == Power2[W]
           n == word(dword((f + 1) * U) \div M)
           g == Ntpfraction(n, U)
           q == M \div U
           r == M % U
<1>1. M \in Nat \ {0} /\ U \in Nat \ {0} /\ f \in Nat
  BY WordFacts
<1>2. n \in 0..(U - 1) /\ M * n <= (f + 1) * U /\ (f + 1) * U < M * n + M
  BY UnitFacts
<1> HIDE DEF n
<1>3. g \in 0..(M - 2) /\ U * g <= n * M /\ n * M < U * g + U
  BY <1>2, FractionFacts
<1> HIDE DEF M, g
<1>4. q \in Nat /\ r \in 0..(U - 1) /\ M = U * q + r
  BY <1>1, DivMod
<1> HIDE DEF q, r
<1>5. n \in Nat /\ g \in Nat
  BY <1>1, <1>2, <1>3
<1>6. /\ M * n \in Nat /\ n * M = M * n /\ U * g \in Nat /\ U * f \in Nat /\ U * q \in Nat
      /\ (f + 1) * U = U * f + U
  BY <1>1, <1>4, <1>5
<1>7. U * g <= U * f + U /\ U * f < U * g + M
  BY <1>1, <1>2, <1>3, <1>6
<1>8. g <= f + 1
  <2> SUFFICES ASSUME g >= f + 2 PROVE FALSE
    BY <1>1, <1>5
  <2>1. U * (f + 2) <= U * g /\ U * (f + 2) = U * f + U + U
    BY <1>1, <1>5
  <2> QED BY <1>1, <1>6, <1>7, <2>1
<1>9. f - g <= q
  <2> SUFFICES ASSUME f >= g + (q + 1) PROVE FALSE
    BY <1>1, <1>4, <1>5
  <2>1. U * (g + (q + 1)) <= U * f /\ U * (g + (q + 1)) = U * g + U * q + U
    BY <1>1, <1>4, <1>5
  <2> QED BY <1>1, <1>4, <1>6, <1>7, <2>1
<1>10. f - g \in -1..q
  BY <1>1, <1>4, <1>5, <1>8, <1>9
<1> QED BY <1>10 DEF g, n, M, q

(* nanoseconds2NtpStruct() takes the seconds and the fraction apart.       *)
LEMMA StructParts ==
  ASSUME NEW n \in 0..(Power2[W] - 1)
  PROVE  nanoseconds2NtpStruct(n) = [seconds   |-> n \div Nano,
                                     fractions |-> Ntpfraction(n % Nano, Nano)]
<1> DEFINE M == Power2[W]
           U == Nano
           s == n \div U
           r == n % U
           f == (r * M) \div U
           rest == (r * M) % U
<1>1. /\ M \in Nat \ {0} /\ U \in 1..(M - 1) /\ U \in Nat \ {0} /\ U + 1 <= M
      /\ n \in Nat /\ n + 1 <= M
  BY WordFacts, ConversionsAssumption
<1>2. s \in Nat /\ r \in 0..(U - 1) /\ n = U * s + r
  BY <1>1, DivMod
<1> HIDE DEF M, U, s, r
<1>3. r * M \in Nat /\ r \in Nat
  BY <1>1, <1>2
<1>4. f \in Nat /\ rest \in 0..(U - 1) /\ r * M = U * f + rest
  BY <1>1, <1>3, DivMod
<1> HIDE DEF f, rest
<1>5. n * M \in 0..(M * M - 1) /\ r * M \in 0..(M * M - 1)
  <2>1. (n + 1) * M <= M * M /\ (n + 1) * M = n * M + M /\ n * M \in Nat
    BY <1>1
  <2>2. r + 1 <= M
    BY <1>1, <1>2
  <2>3. (r + 1) * M <= M * M /\ (r + 1) * M = r * M + M
    BY <1>1, <1>3, <2>2
  <2>4. M * M \in Nat
    BY <1>1
  <2> QED BY <1>1, <1>3, <2>1, <2>3, <2>4
<1>6. dword(n * M) = n * M /\ dword(r * M) = r * M
  BY <1>5, WordFacts DEF M
<1>7. (n * M) \div U = s * M + f
  <2>1. n * M = U * (s * M + f) + rest
    <3>1. n * M = (U * s) * M + r * M
      BY <1>1, <1>2, <1>3
    <3>2. U * (s * M + f) = (U * s) * M + U * f
      BY <1>1, <1>2, <1>4
    <3>3. (U * s) * M \in Nat /\ U * f \in Nat
      BY <1>1, <1>2, <1>4
    <3> QED BY <1>1, <1>4, <3>1, <3>2, <3>3
  <2>2. n * M \in Int /\ s * M + f \in Int
    BY <1>1, <1>2, <1>4
  <2> QED BY <1>1, <1>4, <2>1, <2>2, Quotient
<1>8. word(s * M + f) = word(f)
  <2> DEFINE high == f \div M
             low == f % M
  <2>1. high \in Nat /\ low \in 0..(M - 1) /\ f = M * high + low
    BY <1>1, <1>4, DivMod
  <2> HIDE DEF high, low
  <2>2. s * M + f = M * (s + high) + low
    BY <1>1, <1>2, <1>4, <2>1
  <2>3. s * M + f \in Int /\ s + high \in Int
    BY <1>1, <1>2, <1>4, <2>1
  <2>4. (s * M + f) % M = low
    BY <1>1, <2>1, <2>2, <2>3, Quotient
  <2> QED BY <2>4 DEF word, M, low
<1>9. s <= n
  <2>1. s <= U * s /\ U * s \in Nat
    BY <1>1, <1>2
  <2> QED BY <1>1, <1>2, <2>1
<1>10. word(s) = s
  BY <1>1, <1>2, <1>9, WordFacts DEF M
<1>11. word(dword(n * M) \div U) = Ntpfraction(r, U)
  BY <1>6, <1>7, <1>8 DEF Ntpfraction, f, M
<1> QED BY <1>10, <1>11 DEF nanoseconds2NtpStruct, M, U, s, r

-----------------------------------------------------------------------------
(* Netmasks.                                                               *)

LEMMA Power2Monotone ==
  /\ W \in Nat
  /\ \A n \in 0..W : Power2[n] \in Nat \ {0}
  /\ \A n \in 1..W : Power2[n] = 2 * Power2[n - 1]
  /\ \A a, b \in 0..W : a <= b => Power2[b] = Power2[a] * Power2[b - a] /\ Power2[a] <= Power2[b]
<1>1. W \in Nat
  BY ConversionsAssumption
<1>2. \A n \in 0..W : n \in 0..(2 * W) /\ (n # 0 => n \in 1..(2 * W))
  BY <1>1
<1>3. \A n \in 0..W : Power2[n] \in Nat \ {0}
  BY <1>1, <1>2, Power2Facts
<1>4. \A n \in 1..W : Power2[n] = 2 * Power2[n - 1]
  BY <1>1, <1>2, Power2Facts
<1>5. ASSUME NEW a \in 0..W, NEW b \in 0..W, a <= b
      PROVE  Power2[b] = Power2[a] * Power2[b - a] /\ Power2[a] <= Power2[b]
  <2>1. b - a \in 0..W /\ a + (b - a) = b
    BY <1>1, <1>5
  <2>2. Power2[b] = Power2[a] * Power2[b - a]
    BY <1>1, <2>1, Power2Facts
  <2>3. Power2[a] \in Nat \ {0} /\ Power2[b - a] \in Nat \ {0}
    BY <1>3, <2>1
  <2>4. Power2[a] <= Power2[a] * Power2[b - a]
    BY <2>3
  <2> QED BY <2>2, <2>4
<1> QED BY <1>1, <1>3, <1>4, <1>5

(* The loop of getNetmaskFromPrefix().                                     *)
LEMMA NetmaskLoop ==
  ASSUME NEW prefix
  PROVE  \E f : /\ f = [count \in 0..W |->
                          IF count = 0 THEN 0
                          ELSE word(2 * f[count - 1]) + (IF count <= prefix THEN 1 ELSE 0)]
                /\ getNetmaskFromPrefix(prefix) = f[W]
<1> DEFINE Partial(f, m) == f = [count \in 0..m |->
                                   IF count = 0 THEN 0
                                   ELSE word(2 * f[count - 1]) + (IF count <= prefix THEN 1 ELSE 0)]
           S == {m \in Nat : \E f : Partial(f, m)}
<1>1. 0 \in S
  <2>1. Partial([n \in 0..0 |-> 0], 0)
    OBVIOUS
  <2> QED BY <2>1
<1>2. \A m \in Nat : m \in S => m + 1 \in S
  <2> HIDE DEF Partial
  <2> SUFFICES ASSUME NEW m \in Nat, NEW f, Partial(f, m)
               PROVE  \E g : Partial(g, m + 1)
    OBVIOUS
  <2> DEFINE g == [n \in 0..(m + 1) |->
                     IF n = m + 1 THEN word(2 * f[m]) + (IF m + 1 <= prefix THEN 1 ELSE 0)
                     ELSE f[n]]
  <2>1. Partial(g, m + 1)
    BY DEF Partial
  <2> QED BY <2>1
<1> HIDE DEF S
<1>3. W \in S
  BY <1>1, <1>2, InductionOverSet, ConversionsAssumption
<1>4. \E f : Partial(f, W)
  BY <1>3 DEF S
<1> DEFINE subnet == CHOOSE f : Partial(f, W)
<1>5. Partial(subnet, W)
  <2> HIDE DEF Partial
  <2> QED BY <1>4
<1>6. getNetmaskFromPrefix(prefix) = subnet[W]
  BY DEF getNetmaskFromPrefix
<1> HIDE DEF subnet
<1> QED BY <1>5, <1>6

(* The netmask of prefix ones in front.                                    *)
LEMMA NetmaskValue ==
  ASSUME NEW prefix \in 0..W
  PROVE  getNetmaskFromPrefix(prefix) = Power2[W] - Power2[W - prefix]
<1> DEFINE zeros(count) == IF count <= prefix THEN 0 ELSE count - prefix
<1>1. PICK f : /\ f = [count \in 0..W |->
                         IF count = 0 THEN 0
                         ELSE word(2 * f[count - 1]) + (IF count <= prefix THEN 1 ELSE 0)]
               /\ getNetmaskFromPrefix(prefix) = f[W]
  BY NetmaskLoop
<1>2. W \in Nat /\ prefix \in Nat
  BY Power2Monotone
<1>3. f[0] = 0 /\ \A count \in 1..W :
        f[count] = word(2 * f[count - 1]) + (IF count <= prefix THEN 1 ELSE 0)
  <2>1. 0 \in 0..W /\ \A count \in 1..W : count \in 0..W /\ count # 0
    BY <1>2
  <2>2. f[0] = 0
    BY <1>1, <2>1
  <2>3. \A count \in 0..W :
          f[count] = IF count = 0 THEN 0
                     ELSE word(2 * f[count - 1]) + (IF count <= prefix THEN 1 ELSE 0)
    BY <1>1, Zenon
  <2> QED BY <2>1, <2>2, <2>3
<1>4. Power2[0] = 1
  BY <1>2, Power2Facts
<1> DEFINE S == {m \in Nat : m <= W => f[m] = Power2[m] - Power2[zeros(m)]}
<1>5. 0 \in S
  BY <1>2, <1>3, <1>4
<1>6. \A m \in Nat : m \in S => m + 1 \in S
  <2> SUFFICES ASSUME NEW m \in Nat, m + 1 <= W, f[m] = Power2[m] - Power2[zeros(m)]
               PROVE  f[m + 1] = Power2[m + 1] - Power2[zeros(m + 1)]
    BY <1>2
  <2>1. m \in 0..W /\ m + 1 \in 1..W /\ m + 1 \in 0..W /\ (m + 1) - 1 = m /\ W \in 0..W
    BY <1>2
  <2>2. f[m + 1] = word(2 * f[m]) + (IF m + 1 <= prefix THEN 1 ELSE 0)
    BY <1>3, <2>1
  <2>3. /\ Power2[m + 1] = 2 * Power2[m] /\ Power2[m] \in Nat \ {0} /\ Power2[m + 1] \in Nat \ {0}
        /\ Power2[m + 1] <= Power2[W] /\ Power2[W] \in Nat
    BY <1>2, <2>1, Power2Monotone
  <2>4. CASE m + 1 <= prefix
    <3>1. zeros(m) = 0 /\ zeros(m + 1) = 0
      BY <1>2, <2>4
    <3>2. 2 * f[m] = Power2[m + 1] - 2
      BY <1>4, <2>3, <3>1
    <3>3. 2 * f[m] \in 0..(Power2[W] - 1)
      BY <2>3, <3>2
    <3>4. word(2 * f[m]) = Power2[m + 1] - 2
      BY <3>2, <3>3, WordFacts
    <3> QED BY <1>4, <2>2, <2>3, <2>4, <3>1, <3>4
  <2>5. CASE prefix <= m
    <3> DEFINE z == m - prefix
    <3>1. /\ zeros(m) = z /\ zeros(m + 1) = z + 1 /\ z \in 0..W /\ z + 1 \in 1..W /\ z + 1 \in 0..W
          /\ (z + 1) - 1 = z /\ z <= m
      BY <1>2, <2>1, <2>5
    <3> HIDE DEF z
    <3>2. /\ Power2[z + 1] = 2 * Power2[z] /\ Power2[z] \in Nat \ {0}
          /\ Power2[z] <= Power2[m]
      BY <2>1, <3>1, Power2Monotone
    <3>3. 2 * f[m] = Power2[m + 1] - Power2[z + 1]
      BY <2>3, <3>1, <3>2
    <3>4. 2 * f[m] \in 0..(Power2[W] - 1)
      BY <2>3, <3>2, <3>3
    <3>5. word(2 * f[m]) = Power2[m + 1] - Power2[z + 1]
      BY <3>3, <3>4, WordFacts
    <3>6. ~(m + 1 <= prefix)
      BY <1>2, <2>5
    <3> QED BY <2>2, <2>3, <3>1, <3>2, <3>5, <3>6
  <2> QED BY <1>2, <2>4, <2>5
<1> HIDE DEF S
<1>7. W \in S
  BY <1>2, <1>5, <1>6, InductionOverSet
<1>8. zeros(W) = W - prefix
  BY <1>2
<1>9. f[W] = Power2[W] - Power2[W - prefix]
  BY <1>2, <1>7, <1>8 DEF S
<1> QED BY <1>1, <1>9

(* The ones in front of the first gap of n.                                *)
Ones(n, p) == (\A pos \in 0..(p - 1) : Bit(n, pos) = 1) /\ (p < W => Bit(n, p) = 0)

LEMMA BitValues == \A n \in Nat, pos \in 0..(W - 1) : Bit(n, pos) \in {0, 1}
<1> SUFFICES ASSUME NEW n \in Nat, NEW pos \in 0..(W - 1) PROVE Bit(n, pos) \in {0, 1}
  OBVIOUS
<1>1. W - 1 - pos \in 0..W
  BY Power2Monotone
<1>2. Power2[W - 1 - pos] \in Nat \ {0}
  BY <1>1, Power2Monotone
<1>3. n \div Power2[W - 1 - pos] \in Nat
  BY <1>2, DivMod
<1>4. (n \div Power2[W - 1 - pos]) % 2 \in 0..1
  BY <1>3
<1> QED BY <1>4 DEF Bit

LEMMA OnesExist == ASSUME NEW n \in Nat PROVE \E p \in 0..W : Ones(n, p)
<1>1. W \in Nat
  BY Power2Monotone
<1> SUFFICES ASSUME \A p \in 0..W : ~Ones(n, p) PROVE FALSE
  OBVIOUS
<1> DEFINE S == {k \in Nat : k <= W => \A pos \in 0..(k - 1) : Bit(n, pos) = 1}
<1>2. 0 \in S
  OBVIOUS
<1>3. \A k \in Nat : k \in S => k + 1 \in S
  <2> SUFFICES ASSUME NEW k \in Nat, k + 1 <= W, \A pos \in 0..(k - 1) : Bit(n, pos) = 1
               PROVE  \A pos \in 0..((k + 1) - 1) : Bit(n, pos) = 1
    BY <1>1
  <2>1. k \in 0..W /\ k \in 0..(W - 1)
    BY <1>1
  <2>2. Bit(n, k) # 0
    BY <2>1 DEF Ones
  <2>3. Bit(n, k) = 1
    BY <2>1, <2>2, BitValues
  <2> QED BY <2>3
<1> HIDE DEF S
<1>4. W \in S
  BY <1>1, <1>2, <1>3, InductionOverSet
<1>5. Ones(n, W)
  BY <1>1, <1>4 DEF S, Ones
<1> QED BY <1>1, <1>5

LEMMA OnesUnique ==
  ASSUME NEW n \in Nat, NEW p \in 0..W, NEW q \in 0..W, Ones(n, p), Ones(n, q)
  PROVE  p = q
<1>1. W \in Nat
  BY Power2Monotone
<1>2. ASSUME NEW a \in 0..W, NEW b \in 0..W, Ones(n, a), Ones(n, b), a < b PROVE FALSE
  <2>1. a < W /\ a \in 0..(b - 1)
    BY <1>1, <1>2
  <2> QED BY <1>2, <2>1 DEF Ones
<1>3. p < q \/ q < p \/ p = q
  BY <1>1
<1> QED BY <1>2, <1>3

(* What getPrefixFromNetmask() makes of n with p ones in front.            *)
LEMMA PrefixValue ==
  ASSUME NEW n \in Nat, NEW p \in 0..W, Ones(n, p)
  PROVE  getPrefixFromNetmask(n) = IF \E pos \in (p + 1)..(W - 1) : Bit(n, pos) = 1 THEN -1 ELSE p
<1> DEFINE prefix == CHOOSE q \in 0..W : Ones(n, q)
<1>1. prefix \in 0..W /\ Ones(n, prefix)
  OBVIOUS
<1> HIDE DEF prefix
<1>2. prefix = p
  BY <1>1, OnesUnique
<1>3. getPrefixFromNetmask(n) =
        IF \E pos \in (prefix + 1)..(W - 1) : Bit(n, pos) = 1 THEN -1 ELSE prefix
  BY DEF getPrefixFromNetmask, prefix, Ones
<1> QED BY <1>2, <1>3

(* The bits of the netmask of p ones.                                      *)
LEMMA NetmaskBits ==
  ASSUME NEW p \in 0..W, NEW pos \in 0..(W - 1)
  PROVE  Bit(getNetmaskFromPrefix(p), pos) = IF pos < p THEN 1 ELSE 0
<1> DEFINE Q == Power2[W - 1 - pos]
           P == Power2[pos]
           mask == Power2[W] - Power2[W - p]
<1>1. W \in Nat /\ p \in Nat /\ pos \in Nat
  BY Power2Monotone
<1>2. /\ W - 1 - pos \in 0..W /\ pos + 1 \in 1..W /\ pos + 1 \in 0..W /\ (pos + 1) - 1 = pos
      /\ pos \in 0..W /\ W - 1 - pos <= W /\ W - (W - 1 - pos) = pos + 1
      /\ W \in 0..W /\ W - p \in 0..W
  BY <1>1
<1>3. /\ Q \in Nat \ {0} /\ P \in Nat \ {0} /\ Power2[pos + 1] = 2 * P
      /\ Power2[W] = Q * Power2[pos + 1] /\ Power2[W - p] \in Nat \ {0}
  BY <1>2, Power2Monotone
<1>4. mask = Q * (2 * P) - Power2[W - p]
  BY <1>3
<1>5. getNetmaskFromPrefix(p) = mask
  BY NetmaskValue
<1>6. Bit(mask, pos) = (mask \div Q) % 2
  BY DEF Bit
<1> HIDE DEF Q, P, mask
<1>7. CASE pos < p
  <2>1. W - p <= W - 1 - pos
    BY <1>1, <1>7
  <2>2. Power2[W - p] <= Q
    BY <1>2, <2>1, Power2Monotone DEF Q
  <2> DEFINE r == Q - Power2[W - p]
             q == 2 * P - 1
  <2>3. r \in 0..(Q - 1)
    BY <1>3, <2>2
  <2>4. mask = Q * q + r /\ mask \in Int /\ q \in Int
    <3>1. Q * (2 * P - 1) = Q * (2 * P) - Q /\ Q * (2 * P) \in Int
      BY <1>3
    <3> QED BY <1>3, <1>4, <3>1
  <2>5. mask \div Q = q
    <3> HIDE DEF q, r
    <3> QED BY <1>3, <2>3, <2>4, Quotient
  <2>6. (2 * P - 1) % 2 = 1
    <3>1. 2 * P - 1 = 2 * (P - 1) + 1 /\ P - 1 \in Int /\ 1 \in 0..(2 - 1) /\ 2 \in Nat \ {0}
      BY <1>3
    <3> QED BY <2>4, <3>1, Quotient
  <2> QED BY <1>5, <1>6, <1>7, <2>5, <2>6
<1>8. CASE p <= pos
  <2> DEFINE R == Power2[pos - p]
  <2>1. /\ pos - p \in 0..W /\ (pos - p) + 1 \in 1..W /\ ((pos - p) + 1) - 1 = pos - p
        /\ W - 1 - pos <= W - p /\ (W - p) - (W - 1 - pos) = (pos - p) + 1
    BY <1>1, <1>8
  <2>2. R \in Nat \ {0} /\ Power2[(pos - p) + 1] = 2 * R
    BY <2>1, Power2Monotone
  <2>3. Power2[W - p] = Q * (2 * R)
    BY <1>2, <2>1, <2>2, Power2Monotone DEF Q
  <2> HIDE DEF R
  <2>4. mask = Q * (2 * (P - R)) + 0 /\ mask \in Int /\ 2 * (P - R) \in Int
    BY <1>3, <1>4, <2>2, <2>3
  <2>5. 0 \in 0..(Q - 1)
    BY <1>3
  <2>6. mask \div Q = 2 * (P - R)
    BY <1>3, <2>4, <2>5, Quotient
  <2>7. (2 * (P - R)) % 2 = 0
    <3>1. 2 * (P - R) = 2 * (P - R) + 0 /\ P - R \in Int /\ 0 \in 0..(2 - 1) /\ 2 \in Nat \ {0}
      BY <1>3, <2>2
    <3> QED BY <2>4, <3>1, Quotient
  <2>8. ~(pos < p)
    BY <1>1, <1>8
  <2> QED BY <1>5, <1>6, <2>6, <2>7, <2>8
<1> QED BY <1>1, <1>7, <1>8

LEMMA NetmaskIsWord == \A p \in 0..W : getNetmaskFromPrefix(p) \in Nat
<1> SUFFICES ASSUME NEW p \in 0..W PROVE getNetmaskFromPrefix(p) \in Nat
  OBVIOUS
<1>1. W - p \in 0..W /\ W \in 0..W /\ W - p <= W
  BY Power2Monotone
<1>2. Power2[W - p] \in Nat /\ Power2[W] \in Nat /\ Power2[W - p] <= Power2[W]
  BY <1>1, Power2Monotone
<1> QED BY <1>2, NetmaskValue

(* The prefix of a netmask is that it was made from.                       *)
LEMMA PrefixBack == \A p \in 0..W : getPrefixFromNetmask(getNetmaskFromPrefix(p)) = p
<1> SUFFICES ASSUME NEW p \in 0..W PROVE getPrefixFromNetmask(getNetmaskFromPrefix(p)) = p
  OBVIOUS
<1> DEFINE n == getNetmaskFromPrefix(p)
<1>1. n \in Nat /\ W \in Nat
  BY NetmaskIsWord, Power2Monotone
<1>2. \A pos \in 0..(W - 1) : Bit(n, pos) = IF pos < p THEN 1 ELSE 0
  BY NetmaskBits
<1> HIDE DEF n
<1>3. Ones(n, p)
  <2>1. \A pos \in 0..(p - 1) : pos \in 0..(W - 1) /\ pos < p
    BY <1>1
  <2>2. p < W => p \in 0..(W - 1) /\ ~(p < p)
    BY <1>1
  <2> QED BY <1>2, <2>1, <2>2 DEF Ones
<1>4. ~\E pos \in (p + 1)..(W - 1) : Bit(n, pos) = 1
  <2>1. \A pos \in (p + 1)..(W - 1) : pos \in 0..(W - 1) /\ ~(pos < p)
    BY <1>1
  <2> QED BY <1>2, <2>1
<1>5. getPrefixFromNetmask(n) = p
  BY <1>1, <1>3, <1>4, PrefixValue
<1> QED BY <1>5 DEF n

(* Reading one more bit of n from the front.                               *)
LEMMA NextBit ==
  ASSUME NEW n \in Nat, NEW k \in 0..(W - 1)
  PROVE  n \div Power2[W - (k + 1)] = 2 * (n \div Power2[W - k]) + Bit(n, k)
<1> DEFINE Q == Power2[W - (k + 1)]
           a == n \div Q
           r == n % Q
           b == a \div 2
           c == a % 2
<1>1. W \in Nat
  BY Power2Monotone
<1>2. W - (k + 1) \in 0..W /\ W - k \in 1..W /\ (W - k) - 1 = W - (k + 1) /\ W - 1 - k = W - (k + 1)
  BY <1>1
<1>3. Q \in Nat \ {0} /\ Power2[W - k] = 2 * Q
  BY <1>2, Power2Monotone
<1>4. Bit(n, k) = c
  BY <1>2 DEF Bit
<1> HIDE DEF Q
<1>5. a \in Nat /\ r \in 0..(Q - 1) /\ n = Q * a + r
  BY <1>3, DivMod
<1> HIDE DEF a, r
<1>6. b \in Nat /\ c \in 0..1 /\ a = 2 * b + c
  BY <1>5
<1> HIDE DEF b, c
<1> DEFINE D == 2 * Q
           s == Q * c + r
<1>7. D \in Nat \ {0}
  BY <1>3
<1>8. n = D * b + s /\ s \in 0..(D - 1)
  <2>1. Q * a = D * b + Q * c
    BY <1>3, <1>6
  <2>2. Q * c \in 0..Q
    BY <1>3, <1>6
  <2>3. D * b \in Nat
    BY <1>3, <1>6
  <2> QED BY <1>3, <1>5, <2>1, <2>2, <2>3
<1> HIDE DEF D, s
<1>9. n \div D = b
  BY <1>6, <1>7, <1>8, Quotient
<1>10. n \div Power2[W - k] = b
  BY <1>3, <1>9 DEF D
<1>11. n \div Power2[W - (k + 1)] = a
  BY DEF a, Q
<1> QED BY <1>4, <1>6, <1>10, <1>11

(* A word with p ones in front and none behind is the netmask of p.        *)
LEMMA OnesAreNetmask ==
  ASSUME NEW n \in 0..(Power2[W] - 1), NEW p \in 0..W, Ones(n, p),
         \A pos \in (p + 1)..(W - 1) : Bit(n, pos) # 1
  PROVE  getNetmaskFromPrefix(p) = n
<1> DEFINE zeros(k) == IF k <= p THEN 0 ELSE k - p
           front(k) == n \div Power2[W - k]
           S == {k \in Nat : k <= W => front(k) = Power2[k] - Power2[zeros(k)]}
<1>1. W \in Nat /\ p \in Nat /\ n \in Nat /\ Power2[W] \in Nat \ {0} /\ Power2[0] = 1
  BY Power2Monotone, Power2Facts, WordFacts
<1>2. 0 \in S
  <2>1. n = Power2[W] * 0 + n
    BY <1>1
  <2>2. n \div Power2[W] = 0
    BY <1>1, <2>1, Quotient
  <2> QED BY <1>1, <2>2
<1>3. \A k \in Nat : k \in S => k + 1 \in S
  <2> HIDE DEF front
  <2> SUFFICES ASSUME NEW k \in Nat, k + 1 <= W, front(k) = Power2[k] - Power2[zeros(k)]
               PROVE  front(k + 1) = Power2[k + 1] - Power2[zeros(k + 1)]
    BY <1>1
  <2>1. k \in 0..(W - 1) /\ k \in 0..W /\ k + 1 \in 1..W /\ (k + 1) - 1 = k
    BY <1>1
  <2>2. front(k + 1) = 2 * front(k) + Bit(n, k)
    BY <1>1, <2>1, NextBit DEF front
  <2>3. Power2[k + 1] = 2 * Power2[k] /\ Power2[k] \in Nat
    BY <2>1, Power2Monotone
  <2>4. CASE k + 1 <= p
    <3>1. k \in 0..(p - 1) /\ zeros(k) = 0 /\ zeros(k + 1) = 0
      BY <1>1, <2>4
    <3>2. Bit(n, k) = 1
      BY <3>1 DEF Ones
    <3> QED BY <1>1, <2>2, <2>3, <3>1, <3>2
  <2>5. CASE p <= k
    <3>1. Bit(n, k) = 0
      <4>1. CASE k = p
        BY <1>1, <2>1, <4>1 DEF Ones
      <4>2. CASE k # p
        <5>1. k \in (p + 1)..(W - 1)
          BY <1>1, <2>1, <2>5, <4>2
        <5>2. Bit(n, k) # 1
          BY <5>1
        <5> QED BY <1>1, <2>1, <5>2, BitValues
      <4> QED BY <4>1, <4>2
    <3> DEFINE z == k - p
    <3>2. zeros(k) = z /\ zeros(k + 1) = z + 1 /\ z \in 0..W /\ z + 1 \in 1..W /\ (z + 1) - 1 = z
      BY <1>1, <2>1, <2>5
    <3> HIDE DEF z
    <3>3. Power2[z + 1] = 2 * Power2[z] /\ Power2[z] \in Nat
      BY <3>2, Power2Monotone
    <3> QED BY <2>2, <2>3, <3>1, <3>2, <3>3
  <2> QED BY <1>1, <2>4, <2>5
<1> HIDE DEF S
<1>4. W \in S
  BY <1>1, <1>2, <1>3, InductionOverSet
<1>5. front(W) = n
  <2>1. W - W = 0 /\ n = 1 * n + 0 /\ 0 \in 0..(1 - 1) /\ 1 \in Nat \ {0}
    BY <1>1
  <2>2. n \div 1 = n
    BY <1>1, <2>1, Quotient
  <2> QED BY <1>1, <2>1, <2>2
<1>6. zeros(W) = W - p
  BY <1>1
<1>7. front(W) = Power2[W] - Power2[W - p]
  BY <1>1, <1>4, <1>6 DEF S
<1> QED BY <1>5, <1>7, NetmaskValue

(* -1 is the prefix of the words that are no netmask, and of no others.    *)
LEMMA NetmaskBack ==
  ASSUME NEW n \in 0..(Power2[W] - 1)
  PROVE  LET prefix == getPrefixFromNetmask(n)
         IN  IF prefix = -1 THEN \A p \in 0..W : getNetmaskFromPrefix(p) # n
             ELSE getNetmaskFromPrefix(prefix) = n
<1>1. n \in Nat /\ W \in Nat
  BY WordFacts, Power2Monotone
<1>2. PICK q \in 0..W : Ones(n, q)
  BY <1>1, OnesExist
<1>3. q # -1
  BY <1>1
<1>4. CASE \E pos \in (q + 1)..(W - 1) : Bit(n, pos) = 1
  <2>1. getPrefixFromNetmask(n) = -1
    BY <1>1, <1>2, <1>4, PrefixValue
  <2>2. \A p \in 0..W : p # -1
    BY <1>1
  <2>3. \A p \in 0..W : getNetmaskFromPrefix(p) # n
    BY <2>1, <2>2, PrefixBack
  <2> QED BY <2>1, <2>3
<1>5. CASE ~\E pos \in (q + 1)..(W - 1) : Bit(n, pos) = 1
  <2>1. getPrefixFromNetmask(n) = q
    BY <1>1, <1>2, <1>5, PrefixValue
  <2>2. getNetmaskFromPrefix(q) = n
    BY <1>2, <1>5, OnesAreNetmask
  <2> QED BY <1>3, <2>1, <2>2
<1> QED BY <1>4, <1>5

-----------------------------------------------------------------------------
(* Every word comes back: the times of a second, the seconds of an era and *)
(* the netmasks, for every width of a word, every unit and every offset.   *)
THEOREM RoundTripAlways == ConversionsSpec => []RoundTrip
<1> DEFINE Inv == input = -1 \/ input \in 0..(Power2[W] - 1)
<1>1. ConversionsInit => Inv
  BY DEF ConversionsInit
<1>2. Inv /\ [Convert]_input => Inv'
  BY DEF Convert
<1>3. Inv => RoundTrip
  <2> SUFFICES ASSUME Inv, input \in Nat PROVE RoundTrip
    BY DEF RoundTrip
  <2>1. /\ Power2[W] \in Nat \ {0} /\ input \in 0..(Power2[W] - 1)
        /\ {Micro, Nano} \subseteq 1..(Power2[W] - 1) /\ ntpSecondOffset \in Nat /\ W \in Nat
    BY WordFacts, ConversionsAssumption
  <2> HIDE DEF Inv
  <2>2. ASSUME input < Micro PROVE ntpfraction2microseconds(Ntpfraction(input, Micro)) = input
    <3>1. input \in 0..(Micro - 1)
      BY <2>1, <2>2
    <3> QED BY <2>1, <3>1, FractionFacts, UnitsOfFraction, UnitsBack
  <2>3. ASSUME input < Nano PROVE ntpfraction2nanoseconds(Ntpfraction(input, Nano)) = input
    <3>1. input \in 0..(Nano - 1)
      BY <2>1, <2>3
    <3> QED BY <2>1, <3>1, FractionFacts, UnitsOfFraction, UnitsBack
  <2>4. nanoseconds2NtpStruct(input) = [seconds   |-> input \div Nano,
                                        fractions |-> Ntpfraction(input % Nano, Nano)]
    BY <2>1, StructParts
  <2>5. ASSUME input # Power2[W] - 1
        PROVE  /\ input - Ntpfraction(ntpfraction2nanoseconds(input), Nano)
                    \in -1..(Power2[W] \div Nano)
               /\ input - Ntpfraction(ntpfraction2microseconds(input), Micro)
                    \in -1..(Power2[W] \div Micro)
    <3>1. input \in 0..(Power2[W] - 2)
      BY <2>1, <2>5
    <3> QED BY <2>1, <3>1, UnitsOfFraction, FractionBack
  <2>6. ASSUME input + ntpSecondOffset < Power2[W]
        PROVE  ntp2unixtime(unixtime2Ntp(input)) = input
    <3>1. input + ntpSecondOffset \in 0..(Power2[W] - 1)
      BY <2>1, <2>6
    <3>2. word(input + ntpSecondOffset) = input + ntpSecondOffset
      BY <3>1, WordFacts
    <3> QED BY <2>1, <3>2 DEF ntp2unixtime, unixtime2Ntp
  <2>7. ASSUME input <= W PROVE getPrefixFromNetmask(getNetmaskFromPrefix(input)) = input
    <3>1. input \in 0..W
      BY <2>1, <2>7
    <3> QED BY <3>1, PrefixBack
  <2>8. LET prefix == getPrefixFromNetmask(input)
        IN  IF prefix = -1 THEN \A p \in 0..W : getNetmaskFromPrefix(p) # input
            ELSE getNetmaskFromPrefix(prefix) = input
    BY <2>1, NetmaskBack
  <2> QED BY <2>2, <2>3, <2>4, <2>5, <2>6, <2>7, <2>8 DEF RoundTrip
<1> QED BY <1>1, <1>2, <1>3, PTL DEF ConversionsSpec
=============================================================================
