----------------------------- MODULE Interfaces -----------------------------
(***************************************************************************)
(* The network interfaces of the kernel and the list of them that          *)
(* NetadapterList keeps (lib/communication/linux/netadapterlist.cpp).      *)
(***************************************************************************)
EXTENDS Naturals, Sequences

CONSTANTS
  Ifs,       \* interfaces
  MaxChanges \* bound: changes of interfaces

ASSUME InterfacesAssumption == MaxChanges \in Nat

VARIABLES
  link,     \* kernel: "gone", "down" or "up"
  addr,     \* kernel: does the interface have an ipv4 address?
  adapters, \* NetadapterList::m_adapters
  changes   \* history: number of changes

(* An interface is not in the list, or in it without or with an address.   *)
Adapters == [Ifs -> {"none", "bare", "addr"}]

InterfacesOK ==
  /\ link \in [Ifs -> {"gone", "down", "up"}]
  /\ addr \in [Ifs -> BOOLEAN]
  /\ adapters \in Adapters
  /\ changes \in 0..MaxChanges

(* What getifaddrs() returns now, as update() stores it, without the       *)
(* interfaces whose hardware address could not be read.                    *)
ReadInterfaces(unread) ==
  [i \in Ifs |-> IF link[i] = "gone" \/ i \in unread THEN "none"
                 ELSE IF addr[i] THEN "addr" ELSE "bare"]

(* The constructor of NetadapterList calls update().                       *)
InterfacesInit ==
  /\ link \in [Ifs -> {"gone", "up"}]
  /\ addr = [i \in Ifs |-> link[i] = "up"]
  /\ adapters = ReadInterfaces({})
  /\ changes = 0

(* The kernel (external): the link or the address of an interface changes, *)
(* which it reports by a message of the given type.                        *)
SetLink(i, from, to) ==
  /\ link[i] = from
  /\ to = "gone" => ~addr[i]
  /\ link' = [link EXCEPT ![i] = to]
  /\ UNCHANGED addr

SetAddr(i, value) ==
  /\ link[i] # "gone" /\ addr[i] # value
  /\ addr' = [addr EXCEPT ![i] = value]
  /\ UNCHANGED link

Types == {"up", "down", "unlink", "newaddr", "deladdr"}

Changes(type, i) ==
  /\ changes < MaxChanges
  /\ changes' = changes + 1
  /\ \/ type = "up" /\ SetLink(i, "down", "up")
     \/ type = "down" /\ (SetLink(i, "up", "down") \/ SetLink(i, "gone", "down"))
     \/ type = "unlink" /\ SetLink(i, "down", "gone")
     \/ type = "newaddr" /\ SetAddr(i, TRUE)
     \/ type = "deladdr" /\ SetAddr(i, FALSE)

(* getAdapterByInterfaceIndex() does not throw.                            *)
Known(i) == adapters[i] # "none"
=============================================================================
