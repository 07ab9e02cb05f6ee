--------------------------- MODULE SocketsProofs ----------------------------
(***************************************************************************)
(* Proofs about Sockets, for descriptor tables and queues of any size.     *)
(***************************************************************************)
EXTENDS Sockets, WellFoundedInduction, TLAPS

-----------------------------------------------------------------------------
(* The kernel's table and the event loop                                   *)

FilesType == [opened  : [Numbers -> Owners \cup {"free"}],
              entry   : [Numbers -> [Dirs -> Owners \cup {"none"}]],
              watched : [Numbers -> SUBSET Dirs]]

(* The kernel watches an open descriptor for what its entry has.           *)
Watched(f) ==
  \A n \in Numbers :
    f.watched[n] = IF f.opened[n] = "free" THEN {} ELSE {d \in Dirs : f.entry[n][d] # "none"}

LEMMA NumbersAre == Numbers \subseteq Nat /\ -1 \notin Numbers
BY SocketsAssumption DEF Numbers

LEMMA LowestFree ==
  ASSUME Free(k) # {}
  PROVE  Lowest \in Numbers /\ k.opened[Lowest] = "free"
<1>1. Free(k) \subseteq Nat
  BY NumbersAre DEF Free
<1>2. PICK x \in Free(k) : \A y \in Free(k) : ~(<<y, x>> \in OpToRel(<, Nat))
  BY <1>1, NatLessThanWellFounded, WFMin, Zenon
<1>3. \A y \in Free(k) : x <= y
  <2> SUFFICES ASSUME NEW y \in Free(k), y < x PROVE FALSE
    BY <1>1
  <2>1. <<y, x>> \in Nat \X Nat /\ <<y, x>>[1] < <<y, x>>[2]
    BY <1>1
  <2>2. <<y, x>> \in OpToRel(<, Nat)
    BY <2>1, Zenon DEF OpToRel
  <2> QED
    BY <1>2, <2>2
<1>4. Lowest \in Free(k)
  BY <1>3 DEF Lowest, Min
<1> QED
  BY <1>4 DEF Free

LEMMA OpenedIs ==
  ASSUME NEW f \in FilesType, NEW n \in Numbers, NEW o \in Owners
  PROVE  LET g == Opened(f, n, o)
         IN  /\ g \in FilesType /\ g.entry = f.entry /\ g.watched = f.watched
             /\ \A m \in Numbers : g.opened[m] = IF m = n THEN o ELSE f.opened[m]
BY DEF Opened, FilesType

LEMMA ClosedIs ==
  ASSUME NEW f \in FilesType, NEW n \in Numbers \cup {-1}
  PROVE  LET g == Closed(f, n)
         IN  /\ g \in FilesType /\ g.entry = f.entry
             /\ \A m \in Numbers : /\ g.opened[m] = IF m = n THEN "free" ELSE f.opened[m]
                                   /\ g.watched[m] = IF m = n THEN {} ELSE f.watched[m]
BY NumbersAre DEF Closed, FilesType

LEMMA AddedIs ==
  ASSUME NEW f \in FilesType, NEW n \in Numbers \cup {-1}, NEW d \in Dirs, NEW o \in Owners
  PROVE  LET g == Added(f, n, d, o)
         IN  /\ g \in FilesType /\ g.opened = f.opened
             /\ \A m \in Numbers, x \in Dirs :
                  g.entry[m][x] = IF m = n /\ x = d THEN o ELSE f.entry[m][x]
             /\ Watched(f) => Watched(g)
<1> DEFINE g == Added(f, n, d, o)
           events == {d} \cup {x \in Dirs : f.entry[n][x] # "none"}
           works == f.opened[n] # "free"
                    /\ ((\E x \in Dirs : f.entry[n][x] # "none") <=> f.watched[n] # {})
<1>1. CASE n = -1
  BY <1>1, NumbersAre DEF Added
<1>2. CASE n # -1
  <2>1. g = [f EXCEPT !.entry[n][d] = o, !.watched[n] = IF works THEN events ELSE f.watched[n]]
    BY <1>2 DEF Added
  <2>2. n \in Numbers /\ events \in SUBSET Dirs
    BY <1>2
  <2> HIDE DEF g, events, works
  <2>3. /\ g \in FilesType /\ g.opened = f.opened
        /\ \A m \in Numbers, x \in Dirs :
             g.entry[m][x] = IF m = n /\ x = d THEN o ELSE f.entry[m][x]
        /\ \A m \in Numbers : m # n => g.watched[m] = f.watched[m]
        /\ g.watched[n] = IF works THEN events ELSE f.watched[n]
    BY <2>1, <2>2 DEF FilesType
  <2>4. ASSUME Watched(f), NEW m \in Numbers
        PROVE  g.watched[m] = IF g.opened[m] = "free" THEN {} ELSE {x \in Dirs : g.entry[m][x] # "none"}
    <3>1. f.watched[m] = IF f.opened[m] = "free" THEN {} ELSE {x \in Dirs : f.entry[m][x] # "none"}
      BY <2>4 DEF Watched
    <3>2. CASE m # n
      BY <2>3, <3>1, <3>2
    <3>3. CASE m = n /\ f.opened[n] = "free"
      BY <2>3, <3>1, <3>3 DEF works
    <3>4. CASE m = n /\ f.opened[n] # "free"
      <4>1. works
        BY <3>1, <3>4 DEF works
      <4>2. o # "none"
        BY DEF Owners, Sockets
      <4>3. events = {x \in Dirs : g.entry[n][x] # "none"}
        BY <2>2, <2>3, <4>2 DEF events
      <4> QED
        BY <2>3, <3>4, <4>1, <4>3
    <3> QED
      BY <3>2, <3>3, <3>4
  <2> QED
    BY <2>3, <2>4 DEF Watched, g
<1> QED
  BY <1>1, <1>2

LEMMA ErasedIs ==
  ASSUME NEW f \in FilesType, NEW n \in Numbers \cup {-1}, NEW d \in Dirs
  PROVE  LET g == Erased(f, n, d)
         IN  /\ g \in FilesType /\ g.opened = f.opened
             /\ \A m \in Numbers, x \in Dirs :
                  g.entry[m][x] = IF m = n /\ x = d THEN "none" ELSE f.entry[m][x]
             /\ Watched(f) => Watched(g)
<1> DEFINE g == Erased(f, n, d)
           events == IF f.watched[n] = {} THEN {} ELSE {x \in Dirs \ {d} : f.entry[n][x] # "none"}
<1>1. CASE n = -1 \/ (n # -1 /\ f.entry[n][d] = "none")
  BY <1>1, NumbersAre DEF Erased
<1>2. CASE n # -1 /\ f.entry[n][d] # "none"
  <2>1. g = [f EXCEPT !.entry[n][d] = "none", !.watched[n] = events]
    BY <1>2 DEF Erased
  <2>2. n \in Numbers /\ events \in SUBSET Dirs
    BY <1>2
  <2> HIDE DEF g, events
  <2>3. /\ g \in FilesType /\ g.opened = f.opened
        /\ \A m \in Numbers, x \in Dirs :
             g.entry[m][x] = IF m = n /\ x = d THEN "none" ELSE f.entry[m][x]
        /\ \A m \in Numbers : m # n => g.watched[m] = f.watched[m]
        /\ g.watched[n] = events
    BY <2>1, <2>2 DEF FilesType
  <2>4. ASSUME Watched(f), NEW m \in Numbers
        PROVE  g.watched[m] = IF g.opened[m] = "free" THEN {} ELSE {x \in Dirs : g.entry[m][x] # "none"}
    <3>1. f.watched[m] = IF f.opened[m] = "free" THEN {} ELSE {x \in Dirs : f.entry[m][x] # "none"}
      BY <2>4 DEF Watched
    <3>2. CASE m # n
      BY <2>3, <3>1, <3>2
    <3>3. CASE m = n /\ f.opened[n] = "free"
      BY <2>3, <3>1, <3>3 DEF events
    <3>4. CASE m = n /\ f.opened[n] # "free"
      <4>1. f.watched[n] # {}
        BY <1>2, <3>1, <3>4
      <4>2. events = {x \in Dirs \ {d} : f.entry[n][x] # "none"}
        BY <4>1 DEF events
      <4>3. events = {x \in Dirs : g.entry[n][x] # "none"}
        BY <2>2, <2>3, <4>2
      <4> QED
        BY <2>3, <3>4, <4>3
    <3> QED
      BY <3>2, <3>3, <3>4
  <2> QED
    BY <2>3, <2>4 DEF Watched, g
<1> QED
  BY <1>1, <1>2
-----------------------------------------------------------------------------
(* Types                                                                   *)

PastType == [robbed : SUBSET Owners, stopped : BOOLEAN, stoppedAgain : BOOLEAN,
             reused : BOOLEAN, leaked : SUBSET Owners, odd : SUBSET Sockets,
             stalled : BOOLEAN]

LEMMA Types ==
  ASSUME TypeOK
  PROVE  /\ k \in FilesType /\ past \in PastType
         /\ event \in [Sockets -> Numbers \cup {-1}] /\ closing \in [Sockets -> {{}, {"out"}, Dirs}]
         /\ handler \in [Sockets -> [Dirs -> BOOLEAN]]
         /\ listening \in Numbers \cup {-1} /\ held \in Numbers \cup {-1}
         /\ waiting \in 0..MaxBacklog /\ MaxBacklog \in Nat
         /\ "in" \in Dirs /\ "out" \in Dirs /\ Sockets \subseteq Owners
         /\ "server" \in Owners \ Sockets /\ "other" \in Owners \ Sockets
         /\ "free" \notin Owners /\ "none" \notin Owners
BY SocketsAssumption DEF TypeOK, FilesType, PastType, Dirs, Owners, Sockets

(* Descriptors and entries are given to one owner and taken away by steps  *)
(* that change nothing else.                                               *)
LEMMA FilesTyped ==
  ASSUME TypeOK, [Next]_vars
  PROVE  k' \in FilesType
<1>1. CASE SocketCall
  <2>1. ASSUME NEW s \in Sockets, connect(s) PROVE k' \in FilesType
    <3> DEFINE o == Opened(k, Lowest, s)
               i == IF Preset(s, "in") THEN Added(o, Lowest, "in", s) ELSE o
    <3>1. k' = IF Preset(s, "out") THEN Added(i, Lowest, "out", s) ELSE i
      BY <2>1 DEF connect
    <3>2. Lowest \in Numbers
      BY <2>1, LowestFree DEF connect
    <3>3. o \in FilesType
      BY <3>2, Types, OpenedIs
    <3> HIDE DEF o
    <3>4. i \in FilesType
      BY <3>2, <3>3, Types, AddedIs
    <3> HIDE DEF i
    <3> QED
      BY <3>1, <3>2, <3>4, Types, AddedIs
  <2>2. ASSUME NEW s \in Sockets, NEW d \in Dirs, NEW cb \in BOOLEAN, setDataCb(s, d, cb)
        PROVE  k' \in FilesType
    <3>1. event[s] \in Numbers \cup {-1}
      BY Types
    <3> QED
      BY <2>2, <3>1, Types, AddedIs DEF setDataCb
  <2>3. ASSUME NEW s \in Sockets, \/ clearDataCb(s) \/ clearOutDataCb(s) \/ ConnectNoSocket(s)
                                  \/ DisconnectClose(s) \/ DisconnectEraseIn(s)
                                  \/ DisconnectErase(s)
        PROVE  k' \in FilesType
    <3>1. event[s] \in Numbers \cup {-1}
      BY Types
    <3>2. /\ Erased(k, event[s], "in") \in FilesType /\ Erased(k, event[s], "out") \in FilesType
          /\ Closed(k, event[s]) \in FilesType
      BY <3>1, Types, ErasedIs, ClosedIs
    <3> QED
      BY <2>3, <3>2, Types
         DEF clearDataCb, clearOutDataCb, ConnectNoSocket, DisconnectClose, DisconnectEraseIn,
             DisconnectErase
  <2>4. "client" \in Sockets /\ Listeners \subseteq Sockets
    BY SocketsAssumption DEF Sockets
  <2> QED
    BY <1>1, <2>1, <2>2, <2>3, <2>4 DEF SocketCall
<1>2. ASSUME Free(k) # {} PROVE \A o \in Owners : Opened(k, Lowest, o) \in FilesType
  BY <1>2, Types, LowestFree, OpenedIs
<1>3. ASSUME Free(k) # {} PROVE Erased(Erased(k, Lowest, "in"), Lowest, "out") \in FilesType
  BY <1>3, Types, LowestFree, ErasedIs
<1>4. CASE ServerCall
  <2>1. CASE stop
    <3>1. Erased(k, listening, "in") \in FilesType
      BY Types, ErasedIs
    <3> QED
      BY <2>1, <3>1, Types, ClosedIs DEF stop
  <2>2. ASSUME NEW cb \in BOOLEAN, NEW n \in 0..MaxBacklog, start(cb, n) PROVE k' \in FilesType
    <3>1. Opened(k, Lowest, "server") \in FilesType /\ Lowest \in Numbers
      BY <1>2, <2>2, Types, LowestFree DEF start
    <3> QED
      BY <2>2, <3>1, Types, AddedIs DEF start
  <2>3. CASE StartNoSocket \/ StartFails
    BY <1>2, <2>3, Types DEF StartNoSocket, StartFails
  <2> QED
    BY <1>4, <2>1, <2>2, <2>3 DEF ServerCall
<1>5. CASE ProcessStep
  <2>1. "worker" \in Owners
    BY DEF Owners, Sockets
  <2> QED
    BY <1>2, <1>3, <1>5, <2>1, Types DEF ProcessStep, Accept, AcceptNone, AcceptFails, AcceptThrows
<1>6. CASE OtherOpens
  <2>1. Opened(k, Lowest, "other") \in FilesType /\ Lowest \in Numbers
    BY <1>2, <1>6, Types, LowestFree DEF OtherOpens
  <2> QED
    BY <1>6, <2>1, Types, AddedIs DEF OtherOpens
<1>7. CASE OtherCloses
  <2>1. Erased(k, held, "in") \in FilesType
    BY Types, ErasedIs
  <2> QED
    BY <1>7, <2>1, Types, ClosedIs DEF OtherCloses
<1> QED
  BY <1>1, <1>4, <1>5, <1>6, <1>7, Types DEF Next, Dispatch, Arrive, vars

LEMMA PastTyped ==
  ASSUME TypeOK, [Next]_vars
  PROVE  /\ past' \in PastType
         /\ past.robbed \subseteq past'.robbed /\ past.leaked \subseteq past'.leaked
         /\ past.reused => past'.reused
         /\ past.stoppedAgain => past'.stoppedAgain
<1> DEFINE Goes == /\ past' \in PastType
                   /\ past.robbed \subseteq past'.robbed /\ past.leaked \subseteq past'.leaked
                   /\ past.reused => past'.reused
                   /\ past.stoppedAgain => past'.stoppedAgain
<1>1. past \in PastType /\ k \in FilesType
  BY Types
<1>2. ASSUME NEW n \in Numbers \cup {-1}, NEW o \in Owners
      PROVE  /\ HitByClose(k, n, o) \subseteq Owners
             /\ \A ds \in SUBSET Dirs : HitByErase(k, n, ds, o) \subseteq Owners
  BY <1>1, <1>2 DEF HitByClose, HitByErase, FilesType
<1>3. \A o \in Owners, n \in Numbers \cup {-1} : Overwrites(o, n) \subseteq Owners
  BY DEF Overwrites
<1>4. \A n : Reuses(n) \in BOOLEAN
  BY DEF Reuses
<1>5. CASE SocketCall
  <2>1. ASSUME NEW s \in Sockets, connect(s) \/ ConnectNoSocket(s) PROVE Goes
    <3>1. event[s] \in Numbers \cup {-1} /\ Overwrites(s, event[s]) \subseteq Owners
      BY <1>3, Types
    <3>2. CASE connect(s)
      BY <1>1, <1>4, <3>1, <3>2 DEF connect, PastType
    <3>3. CASE ConnectNoSocket(s)
      BY <1>1, <3>1, <3>3 DEF ConnectNoSocket, PastType
    <3> QED
      BY <2>1, <3>2, <3>3
  <2>2. ASSUME NEW s \in Sockets, NEW d \in Dirs, NEW cb \in BOOLEAN, setDataCb(s, d, cb)
        PROVE  Goes
    BY <1>1, <2>2 DEF setDataCb, PastType
  <2>3. ASSUME NEW s \in Sockets, \/ clearDataCb(s) \/ clearOutDataCb(s)
                                  \/ DisconnectClose(s) \/ DisconnectEraseIn(s)
                                  \/ DisconnectErase(s)
        PROVE  Goes
    <3>1. /\ event[s] \in Numbers \cup {-1} /\ s \in Owners
          /\ {"in"} \in SUBSET Dirs /\ {"out"} \in SUBSET Dirs /\ Dirs \in SUBSET Dirs
      BY Types
    <3>2. /\ HitByErase(k, event[s], {"in"}, s) \in SUBSET Owners
          /\ HitByErase(k, event[s], {"out"}, s) \in SUBSET Owners
          /\ HitByErase(k, event[s], Dirs, s) \in SUBSET Owners
          /\ HitByClose(k, event[s], s) \in SUBSET Owners
      BY <1>2, <3>1
    <3>3. CASE clearDataCb(s)
      BY <1>1, <3>2, <3>3 DEF clearDataCb, PastType
    <3>4. CASE clearOutDataCb(s)
      BY <1>1, <3>2, <3>4 DEF clearOutDataCb, PastType
    <3>5. CASE DisconnectClose(s)
      BY <1>1, <3>2, <3>5 DEF DisconnectClose, PastType
    <3>6. CASE DisconnectEraseIn(s) \/ DisconnectErase(s)
      BY <1>1, <3>2, <3>6 DEF DisconnectEraseIn, DisconnectErase, PastType
    <3> QED
      BY <2>3, <3>3, <3>4, <3>5, <3>6
  <2>4. "client" \in Sockets /\ Listeners \subseteq Sockets
    BY SocketsAssumption DEF Sockets
  <2> QED
    BY <1>5, <2>1, <2>2, <2>3, <2>4 DEF SocketCall
<1>6. CASE ServerCall
  <2>1. CASE stop
    <3>1. /\ HitByErase(k, listening, {"in"}, "server") \in SUBSET Owners
          /\ HitByClose(k, listening, "server") \in SUBSET Owners
      BY <1>2, Types
    <3> QED
      BY <1>1, <2>1, <3>1 DEF stop, PastType
  <2>2. ASSUME NEW n, past' = Restarted(n) PROVE Goes
    <3>1. Overwrites("server", listening) \in SUBSET Owners
      BY <1>3, Types
    <3> QED
      BY <1>1, <1>4, <2>2, <3>1 DEF Restarted, PastType
  <2> QED
    BY <1>6, <2>1, <2>2 DEF ServerCall, StartNoSocket, StartFails, start
<1>7. CASE ProcessStep
  <2>1. "worker" \in Owners
    BY DEF Owners, Sockets
  <2>2. ASSUME NEW keep \in BOOLEAN, Accept(keep) PROVE Goes
    <3>1. CASE keep
      BY <1>1, <1>4, <2>2, <3>1 DEF Accept, PastType
    <3>2. CASE ~keep
      BY <1>1, <2>2, <3>2 DEF Accept, PastType
    <3> QED
      BY <3>1, <3>2
  <2>3. CASE AcceptFails
    BY <1>1, <2>3 DEF AcceptFails, PastType
  <2>4. CASE AcceptThrows
    BY <1>1, <1>4, <2>1, <2>4 DEF AcceptThrows, PastType
  <2> QED
    BY <1>1, <1>7, <2>2, <2>3, <2>4 DEF ProcessStep, AcceptNone
<1>8. CASE Arrive
  BY <1>1, <1>8 DEF Arrive, PastType
<1>9. CASE OtherOpens
  BY <1>1, <1>4, <1>9 DEF OtherOpens, PastType
<1> QED
  BY <1>1, <1>5, <1>6, <1>7, <1>8, <1>9 DEF Next, Dispatch, OtherCloses, vars

LEMMA TypeStep ==
  ASSUME TypeOK, [Next]_vars
  PROVE  TypeOK'
<1> DEFINE SocketTyped == /\ event' \in [Sockets -> Numbers \cup {-1}]
                          /\ handler' \in [Sockets -> [Dirs -> BOOLEAN]]
                          /\ closing' \in [Sockets -> {{}, {"out"}, Dirs}]
           ServerTyped == /\ listening' \in Numbers \cup {-1}
                          /\ {acceptCb', ready', signalled', accepting'} \subseteq BOOLEAN
                          /\ waiting' \in 0..MaxBacklog
           HeldTyped   == held' \in Numbers \cup {-1}
<1>1. UNCHANGED socket => SocketTyped
  BY Types DEF socket
<1>2. UNCHANGED server => ServerTyped
  BY DEF TypeOK, server
<1>3. UNCHANGED held => HeldTyped
  BY Types
<1>5. Free(k) # {} => Lowest \in Numbers
  BY LowestFree
<1>4. SocketTyped /\ ServerTyped /\ HeldTyped
  <2>1. ASSUME NEW s \in Sockets, connect(s) \/ ConnectNoSocket(s)
        PROVE  SocketTyped /\ ServerTyped /\ HeldTyped
    <3>1. UNCHANGED <<handler, closing, server, held>>
      BY <2>1 DEF connect, ConnectNoSocket
    <3>2. event' \in [Sockets -> Numbers \cup {-1}]
      BY <1>5, <2>1, Types DEF connect, ConnectNoSocket
    <3>3. SocketTyped
      BY <3>1, <3>2, Types
    <3> QED
      BY <1>2, <1>3, <3>1, <3>3
  <2>2. ASSUME NEW s \in Sockets, \/ \E d \in Dirs, cb \in BOOLEAN : setDataCb(s, d, cb)
                                  \/ clearDataCb(s) \/ clearOutDataCb(s)
        PROVE  SocketTyped /\ ServerTyped /\ HeldTyped
    <3>1. PICK d \in Dirs, cb \in BOOLEAN : handler' = [handler EXCEPT ![s][d] = cb]
      BY <2>2, Types DEF setDataCb, clearDataCb, clearOutDataCb
    <3>2. handler' \in [Sockets -> [Dirs -> BOOLEAN]]
      BY <3>1, Types
    <3> QED
      BY <1>2, <1>3, <2>2, <3>2, Types DEF setDataCb, clearDataCb, clearOutDataCb
  <2>3. ASSUME NEW s \in Sockets, DisconnectClose(s) \/ DisconnectEraseIn(s) \/ DisconnectErase(s)
        PROVE  SocketTyped /\ ServerTyped /\ HeldTyped
    BY <1>2, <1>3, <2>3, Types DEF DisconnectClose, DisconnectEraseIn, DisconnectErase, Reset
  <2>4. CASE SocketCall
    <3>1. "client" \in Sockets /\ Listeners \subseteq Sockets
      BY SocketsAssumption DEF Sockets
    <3> QED
      BY <2>1, <2>2, <2>3, <2>4, <3>1 DEF SocketCall
  <2>5. CASE ServerCall
    <3>1. 0 \in 0..MaxBacklog
      BY Types
    <3>2. CASE StartNoSocket
      BY <1>1, <1>3, <3>1, <3>2 DEF StartNoSocket, TypeOK
    <3>3. CASE StartFails
      BY <1>1, <1>3, <1>5, <3>1, <3>3 DEF StartFails, TypeOK
    <3>4. CASE stop
      BY <1>1, <1>3, <3>1, <3>4 DEF stop, TypeOK
    <3>5. ASSUME NEW cb \in BOOLEAN, NEW n \in 0..MaxBacklog, start(cb, n)
          PROVE  SocketTyped /\ ServerTyped /\ HeldTyped
      <4>1. accepting' \in BOOLEAN /\ signalled' \in BOOLEAN
        BY <3>5 DEF start
      <4>2. /\ listening' = Lowest /\ acceptCb' = cb /\ ready' = TRUE /\ waiting' = n
            /\ UNCHANGED <<socket, held>> /\ Free(k) # {}
        BY <3>5 DEF start
      <4> QED
        BY <1>1, <1>3, <1>5, <4>1, <4>2
    <3> QED
      BY <2>5, <3>2, <3>3, <3>4, <3>5 DEF ServerCall
  <2>6. CASE Dispatch \/ Arrive
    <3>1. waiting' \in 0..MaxBacklog
      BY <2>6, Types DEF Dispatch, Arrive
    <3>2. signalled' \in BOOLEAN /\ accepting' \in BOOLEAN
      BY <2>6 DEF Dispatch, Arrive, TypeOK
    <3>3. UNCHANGED <<socket, listening, acceptCb, ready, held>>
      BY <2>6 DEF Dispatch, Arrive
    <3> QED
      BY <1>1, <1>3, <3>1, <3>2, <3>3 DEF TypeOK
  <2>7. CASE ProcessStep
    <3>1. waiting' \in 0..MaxBacklog
      BY <2>7, Types DEF ProcessStep, Accept, AcceptNone, AcceptFails, AcceptThrows, Taken
    <3>2. accepting' \in BOOLEAN /\ UNCHANGED <<listening, acceptCb, ready, signalled, held>>
      BY <2>7 DEF ProcessStep, Accept, AcceptNone, AcceptFails, AcceptThrows, Again
    <3>3. ServerTyped /\ HeldTyped
      BY <3>1, <3>2 DEF TypeOK
    <3>4. SocketTyped
      <4>1. ASSUME NEW keep \in BOOLEAN, Accept(keep) PROVE SocketTyped
        <5>1. /\ event' = event \/ event' = [event EXCEPT !["worker"] = Lowest]
              /\ handler' = handler
                 \/ handler' = [handler EXCEPT !["worker"] = [d \in Dirs |-> FALSE]]
              /\ closing' = closing /\ Lowest \in Numbers
          BY <1>5, <4>1 DEF Accept
        <5>2. [d \in Dirs |-> FALSE] \in [Dirs -> BOOLEAN]
          OBVIOUS
        <5>3. event' \in [Sockets -> Numbers \cup {-1}] /\ closing' \in [Sockets -> {{}, {"out"}, Dirs}]
          BY <5>1, Types
        <5>4. handler' \in [Sockets -> [Dirs -> BOOLEAN]]
          BY <5>1, <5>2, Types
        <5> QED
          BY <5>3, <5>4
      <4> QED
        BY <1>1, <2>7, <4>1 DEF ProcessStep, AcceptNone, AcceptFails, AcceptThrows
    <3> QED
      BY <3>3, <3>4
  <2>8. CASE OtherOpens \/ OtherCloses
    BY <1>1, <1>2, <1>5, <2>8 DEF OtherOpens, OtherCloses
  <2> QED
    BY <1>1, <1>2, <1>3, <2>4, <2>5, <2>6, <2>7, <2>8 DEF Next, vars
<1> QED
  BY <1>4, FilesTyped, PastTyped DEF TypeOK, FilesType, PastType

LEMMA InitTyped == Init => TypeOK
<1> SUFFICES ASSUME Init PROVE TypeOK
  OBVIOUS
<1>1. k \in FilesType /\ past \in PastType
  BY DEF Init, NoFiles, NoPast, FilesType, PastType
<1>2. /\ event \in [Sockets -> Numbers \cup {-1}] /\ closing \in [Sockets -> {{}, {"out"}, Dirs}]
      /\ handler \in [Sockets -> [Dirs -> BOOLEAN]]
  BY DEF Init
<1>3. waiting \in 0..MaxBacklog
  BY SocketsAssumption DEF Init
<1>4. /\ {listening, held} \subseteq Numbers \cup {-1}
      /\ {acceptCb, ready, signalled, accepting} \subseteq BOOLEAN
  BY DEF Init
<1> QED
  BY <1>1, <1>2, <1>3, <1>4 DEF TypeOK, FilesType, PastType

(* Every variable keeps its type, for any sizes of the table and the queue.*)
THEOREM TypeCorrect == Spec => []TypeOK
BY InitTyped, TypeStep, PTL DEF Spec

-----------------------------------------------------------------------------
(* What the calls do to the table and the entries                          *)

(* A descriptor is opened.                                                 *)
LEMMA OpenedOnly ==
  ASSUME TypeOK, Free(k) # {}, NEW o \in Owners, NEW n, n = Lowest
  PROVE  LET g == Opened(k, n, o)
         IN  /\ n \in Numbers /\ k.opened[n] = "free" /\ g \in FilesType /\ g.entry = k.entry
             /\ \A m \in Numbers : g.opened[m] = IF m = n THEN o ELSE k.opened[m]
             /\ Watched(k) /\ (\A d \in Dirs : k.entry[n][d] = "none") => Watched(g)
<1> DEFINE g == Opened(k, n, o)
<1>1. n \in Numbers /\ k.opened[n] = "free"
  BY LowestFree
<1>2. /\ g \in FilesType /\ g.entry = k.entry /\ g.watched = k.watched
      /\ \A m \in Numbers : g.opened[m] = IF m = n THEN o ELSE k.opened[m]
  BY <1>1, Types, OpenedIs
<1> HIDE DEF g
<1>3. Watched(k) /\ (\A d \in Dirs : k.entry[n][d] = "none") => Watched(g)
  BY <1>1, <1>2 DEF Watched
<1> QED
  BY <1>1, <1>2, <1>3 DEF g

(* connect(), with n for the new descriptor.                               *)
LEMMA ConnectFiles ==
  ASSUME TypeOK, NEW s \in Sockets, connect(s), NEW n, n = Lowest
  PROVE  /\ n \in Numbers /\ k.opened[n] = "free" /\ k' \in FilesType
         /\ \A m \in Numbers : k'.opened[m] = IF m = n THEN s ELSE k.opened[m]
         /\ \A m \in Numbers, d \in Dirs :
              k'.entry[m][d] = IF m = n /\ handler[s][d] THEN s ELSE k.entry[m][d]
         /\ Watched(k) /\ (\A d \in Dirs : k.entry[n][d] = "none") => Watched(k')
<1> DEFINE o == Opened(k, n, s)
           i == IF handler[s]["in"] THEN Added(o, n, "in", s) ELSE o
<1>1. k' = IF handler[s]["out"] THEN Added(i, n, "out", s) ELSE i
  BY DEF connect, Preset
<1>2. n \in Numbers /\ k.opened[n] = "free" /\ s \in Owners
  BY LowestFree, Types DEF connect
<1>3. /\ o \in FilesType /\ o.entry = k.entry
      /\ \A m \in Numbers : o.opened[m] = IF m = n THEN s ELSE k.opened[m]
      /\ Watched(k) /\ (\A d \in Dirs : k.entry[n][d] = "none") => Watched(o)
  <2>1. Free(k) # {}
    BY DEF connect
  <2> QED
    BY <1>2, <2>1, OpenedOnly
<1> HIDE DEF o
<1>5. /\ i \in FilesType /\ i.opened = o.opened /\ (Watched(o) => Watched(i))
      /\ \A m \in Numbers, d \in Dirs :
           i.entry[m][d] = IF m = n /\ d = "in" /\ handler[s]["in"] THEN s ELSE k.entry[m][d]
  <2>1. o \in FilesType /\ "in" \in Dirs /\ n \in Numbers \cup {-1} /\ s \in Owners
    BY <1>2, <1>3, Types
  <2>2. CASE handler[s]["in"]
    BY <1>3, <2>1, <2>2, AddedIs
  <2>3. CASE ~handler[s]["in"]
    BY <1>3, <2>1, <2>3
  <2> QED
    BY <2>2, <2>3
<1> HIDE DEF i
<1>6. /\ k' \in FilesType /\ k'.opened = i.opened /\ (Watched(i) => Watched(k'))
      /\ \A m \in Numbers, d \in Dirs :
           k'.entry[m][d] = IF m = n /\ d = "out" /\ handler[s]["out"] THEN s ELSE i.entry[m][d]
  <2>1. i \in FilesType /\ "out" \in Dirs /\ n \in Numbers \cup {-1} /\ s \in Owners
    BY <1>2, <1>5, Types
  <2>2. CASE handler[s]["out"]
    <3>1. k' = Added(i, n, "out", s)
      BY <1>1, <2>2
    <3>2. /\ Added(i, n, "out", s) \in FilesType /\ Added(i, n, "out", s).opened = i.opened
          /\ \A m \in Numbers, x \in Dirs :
               Added(i, n, "out", s).entry[m][x] = IF m = n /\ x = "out" THEN s ELSE i.entry[m][x]
          /\ Watched(i) => Watched(Added(i, n, "out", s))
      BY <2>1, AddedIs
    <3> QED
      BY <2>2, <3>1, <3>2
  <2>3. CASE ~handler[s]["out"]
    <3>1. k' = i
      BY <1>1, <2>3
    <3> QED
      BY <2>1, <2>3, <3>1
  <2> QED
    BY <2>2, <2>3
<1>7. \A m \in Numbers, d \in Dirs :
        k'.entry[m][d] = IF m = n /\ handler[s][d] THEN s ELSE k.entry[m][d]
  BY <1>5, <1>6 DEF Dirs
<1> QED
  BY <1>2, <1>3, <1>5, <1>6, <1>7

(* A descriptor is opened, and added to the event loop for input.          *)
LEMMA OpenedAdded ==
  ASSUME TypeOK, Free(k) # {}, NEW o \in Owners, NEW n, n = Lowest
  PROVE  LET g == Added(Opened(k, n, o), n, "in", o)
         IN  /\ n \in Numbers /\ k.opened[n] = "free" /\ g \in FilesType
             /\ \A m \in Numbers : g.opened[m] = IF m = n THEN o ELSE k.opened[m]
             /\ \A m \in Numbers, d \in Dirs :
                  g.entry[m][d] = IF m = n /\ d = "in" THEN o ELSE k.entry[m][d]
             /\ Watched(k) /\ (\A d \in Dirs : k.entry[n][d] = "none") => Watched(g)
<1> DEFINE f == Opened(k, n, o)
           g == Added(f, n, "in", o)
<1>1. n \in Numbers /\ k.opened[n] = "free"
  BY LowestFree
<1>2. /\ f \in FilesType /\ f.entry = k.entry
      /\ \A m \in Numbers : f.opened[m] = IF m = n THEN o ELSE k.opened[m]
      /\ Watched(k) /\ (\A d \in Dirs : k.entry[n][d] = "none") => Watched(f)
  BY OpenedOnly
<1> HIDE DEF f
<1>4. /\ g \in FilesType /\ g.opened = f.opened /\ (Watched(f) => Watched(g))
      /\ \A m \in Numbers, d \in Dirs :
           g.entry[m][d] = IF m = n /\ d = "in" THEN o ELSE f.entry[m][d]
  <2>1. f \in FilesType /\ "in" \in Dirs /\ n \in Numbers \cup {-1}
    BY <1>1, <1>2, Types
  <2> QED
    BY <2>1, AddedIs
<1> HIDE DEF g
<1>5. /\ n \in Numbers /\ k.opened[n] = "free" /\ g \in FilesType
      /\ \A m \in Numbers : g.opened[m] = IF m = n THEN o ELSE k.opened[m]
      /\ \A m \in Numbers, d \in Dirs :
           g.entry[m][d] = IF m = n /\ d = "in" THEN o ELSE k.entry[m][d]
      /\ Watched(k) /\ (\A d \in Dirs : k.entry[n][d] = "none") => Watched(g)
  BY <1>1, <1>2, <1>4
<1> QED
  BY <1>5 DEF g, f

(* disconnect() erases both events of a number.                            *)
LEMMA ErasedBoth ==
  ASSUME TypeOK, NEW n \in Numbers \cup {-1}
  PROVE  LET g == Erased(Erased(k, n, "in"), n, "out")
         IN  /\ g \in FilesType /\ g.opened = k.opened
             /\ \A m \in Numbers, d \in Dirs :
                  g.entry[m][d] = IF m = n THEN "none" ELSE k.entry[m][d]
             /\ Watched(k) => Watched(g)
<1> DEFINE f == Erased(k, n, "in")
           g == Erased(f, n, "out")
<1>1. /\ f \in FilesType /\ f.opened = k.opened /\ (Watched(k) => Watched(f))
      /\ \A m \in Numbers, d \in Dirs :
           f.entry[m][d] = IF m = n /\ d = "in" THEN "none" ELSE k.entry[m][d]
  <2>1. k \in FilesType /\ "in" \in Dirs
    BY Types
  <2> QED
    BY <2>1, ErasedIs
<1> HIDE DEF f
<1>2. /\ g \in FilesType /\ g.opened = f.opened /\ (Watched(f) => Watched(g))
      /\ \A m \in Numbers, d \in Dirs :
           g.entry[m][d] = IF m = n /\ d = "out" THEN "none" ELSE f.entry[m][d]
  <2>1. f \in FilesType /\ "out" \in Dirs
    BY <1>1, Types
  <2> QED
    BY <2>1, ErasedIs
<1> HIDE DEF g
<1>3. \A m \in Numbers, d \in Dirs : g.entry[m][d] = IF m = n THEN "none" ELSE k.entry[m][d]
  BY <1>1, <1>2 DEF Dirs
<1> QED
  BY <1>1, <1>2, <1>3 DEF g, f

(* The event of a number is erased, and its descriptor closed.             *)
LEMMA ErasedClosed ==
  ASSUME TypeOK, NEW n \in Numbers \cup {-1}
  PROVE  LET g == Closed(Erased(k, n, "in"), n)
         IN  /\ g \in FilesType
             /\ \A m \in Numbers : g.opened[m] = IF m = n THEN "free" ELSE k.opened[m]
             /\ \A m \in Numbers, d \in Dirs :
                  g.entry[m][d] = IF m = n /\ d = "in" THEN "none" ELSE k.entry[m][d]
             /\ Watched(k) => Watched(g)
<1> DEFINE f == Erased(k, n, "in")
           g == Closed(f, n)
<1>1. /\ f \in FilesType /\ f.opened = k.opened /\ (Watched(k) => Watched(f))
      /\ \A m \in Numbers, d \in Dirs :
           f.entry[m][d] = IF m = n /\ d = "in" THEN "none" ELSE k.entry[m][d]
  <2>1. k \in FilesType /\ "in" \in Dirs
    BY Types
  <2> QED
    BY <2>1, ErasedIs
<1> HIDE DEF f
<1>2. /\ g \in FilesType /\ g.entry = f.entry
      /\ \A m \in Numbers : /\ g.opened[m] = IF m = n THEN "free" ELSE f.opened[m]
                            /\ g.watched[m] = IF m = n THEN {} ELSE f.watched[m]
  BY <1>1, ClosedIs
<1> HIDE DEF g
<1>3. Watched(f) => Watched(g)
  BY <1>2 DEF Watched
<1> QED
  BY <1>1, <1>2, <1>3 DEF g, f

-----------------------------------------------------------------------------
(* Ownership                                                               *)

(* A socket that is closing has its number until it has erased it.         *)
Known == \A s \in Sockets : closing[s] # {} => event[s] # -1

LEMMA OwnSame ==
  ASSUME Known, Ownership, k'.opened = k.opened, UNCHANGED <<event, closing, listening>>,
         past.robbed \subseteq past'.robbed, past.leaked \subseteq past'.leaked
  PROVE  Known' /\ Ownership'
BY DEF Known, Ownership

(* The new descriptor n of o.                                              *)
LEMMA OwnGiven ==
  ASSUME TypeOK, Known, Ownership,
         NEW n \in Numbers, k.opened[n] = "free", NEW o \in Owners,
         \A m \in Numbers : k'.opened[m] = IF m = n THEN o ELSE k.opened[m],
         closing' = closing,
         past.robbed \subseteq past'.robbed, past.leaked \subseteq past'.leaked,
         \A s \in Sockets : s # o => event'[s] = event[s],
         o \in Sockets => \/ event'[o] = n /\ closing[o] = {} /\ Overwrites(o, event[o]) \subseteq past'.leaked
                          \/ event'[o] = event[o] /\ o \in past'.leaked,
         IF o = "server" THEN listening' = n /\ Overwrites(o, listening) \subseteq past'.leaked
                         ELSE listening' = listening
  PROVE  Known' /\ Ownership'
<1>1. \A s \in Sockets : event[s] \in Numbers \cup {-1}
  BY Types
<1>2. n # -1 /\ -1 \notin Numbers
  BY NumbersAre
<1>3. Known'
  BY <1>2 DEF Known
<1>4. \A s \in Sockets : event'[s] # -1 /\ closing'[s] = {} /\ s \notin past'.robbed =>
        k'.opened[event'[s]] = s
  <2> SUFFICES ASSUME NEW s \in Sockets, event'[s] # -1, closing[s] = {}, s \notin past'.robbed
      PROVE  k'.opened[event'[s]] = s
    OBVIOUS
  <2>1. CASE event'[s] = event[s]
    <3>1. k.opened[event[s]] = s /\ event[s] \in Numbers
      BY <1>1, <2>1 DEF Ownership
    <3> QED
      BY <2>1, <3>1, Types
  <2>2. CASE event'[s] # event[s]
    BY <1>2, <2>2
  <2> QED
    BY <2>1, <2>2
<1>5. ASSUME NEW m \in Numbers, k'.opened[m] \in Sockets
      PROVE  \/ event'[k'.opened[m]] = m /\ closing'[k'.opened[m]] = {}
             \/ k'.opened[m] \in past'.leaked
  <2>1. CASE m = n
    BY <1>5, <2>1
  <2>2. CASE m # n
    <3> DEFINE s == k.opened[m]
    <3>1. k'.opened[m] = s /\ s \in Sockets
      BY <1>5, <2>2
    <3>2. (event[s] = m /\ closing[s] = {}) \/ s \in past.leaked
      BY <3>1 DEF Ownership
    <3>3. CASE s # o
      BY <3>1, <3>2, <3>3
    <3>4. CASE s = o /\ event[s] = m
      <4>1. Overwrites(o, event[o]) = {o}
        BY <1>2, <3>4 DEF Overwrites
      <4> QED
        BY <3>1, <3>2, <3>4, <4>1
    <3> QED
      BY <3>1, <3>2, <3>3, <3>4
  <2> QED
    BY <2>1, <2>2
<1>6. ASSUME NEW m \in Numbers, k'.opened[m] = "server"
      PROVE  listening' = m \/ "server" \in past'.leaked
  <2>1. CASE m = n
    BY <1>6, <2>1
  <2>2. CASE m # n
    <3>1. k.opened[m] = "server"
      BY <1>6, <2>2
    <3>2. listening = m \/ "server" \in past.leaked
      BY <3>1 DEF Ownership
    <3>3. CASE o = "server" /\ listening = m
      <4>1. Overwrites(o, listening) = {o}
        BY <1>2, <3>1, <3>3 DEF Overwrites
      <4> QED
        BY <3>3, <4>1
    <3> QED
      BY <3>2, <3>3
  <2> QED
    BY <2>1, <2>2
<1> QED
  BY <1>3, <1>4, <1>5, <1>6 DEF Ownership

LEMMA OwnSocketCalls ==
  ASSUME TypeOK, Known, Ownership, [Next]_vars, SocketCall
  PROVE  Known' /\ Ownership'
<1>1. past.robbed \subseteq past'.robbed /\ past.leaked \subseteq past'.leaked /\ past \in PastType
  BY PastTyped, Types
<1>2. "client" \in Sockets /\ Listeners \subseteq Sockets
  BY SocketsAssumption DEF Sockets
<1>3. ASSUME NEW s \in Sockets, connect(s) PROVE Known' /\ Ownership'
  <2> DEFINE n == Lowest
  <2>1. /\ n \in Numbers /\ k.opened[n] = "free"
        /\ \A m \in Numbers : k'.opened[m] = IF m = n THEN s ELSE k.opened[m]
    BY <1>3, ConnectFiles
  <2>2. /\ event' = [event EXCEPT ![s] = n] /\ closing' = closing /\ closing[s] = {}
        /\ listening' = listening
    BY <1>3 DEF connect, Idle, server
  <2>3. past'.leaked = past.leaked \cup Overwrites(s, event[s])
    BY <1>1, <1>3 DEF connect, PastType
  <2>4. s \in Owners /\ s # "server" /\ event'[s] = n /\ \A t \in Sockets : t # s => event'[t] = event[t]
    BY <2>2, Types
  <2> HIDE DEF n
  <2> QED
    BY <1>1, <2>1, <2>2, <2>3, <2>4, OwnGiven
<1>4. ASSUME NEW s \in Sockets, NEW d \in Dirs, NEW cb \in BOOLEAN, setDataCb(s, d, cb)
      PROVE  Known' /\ Ownership'
  <2>1. k'.opened = k.opened
    <3>1. event[s] \in Numbers \cup {-1} /\ k \in FilesType /\ s \in Owners
      BY Types
    <3> QED
      BY <1>4, <3>1, AddedIs DEF setDataCb
  <2> QED
    BY <1>1, <1>4, <2>1, OwnSame DEF setDataCb, server
<1>5. ASSUME NEW s \in Sockets, clearDataCb(s) \/ clearOutDataCb(s) PROVE Known' /\ Ownership'
  <2>1. k'.opened = k.opened
    <3>1. event[s] \in Numbers \cup {-1} /\ k \in FilesType /\ "in" \in Dirs /\ "out" \in Dirs
      BY Types
    <3> QED
      BY <1>5, <3>1, ErasedIs DEF clearDataCb, clearOutDataCb
  <2> QED
    BY <1>1, <1>5, <2>1, OwnSame DEF clearDataCb, clearOutDataCb, server
<1>6. ASSUME NEW s \in Sockets, ConnectNoSocket(s) PROVE Known' /\ Ownership'
  <2>1. /\ k' = k /\ event' = [event EXCEPT ![s] = -1] /\ closing' = closing /\ closing[s] = {}
        /\ listening' = listening
        /\ past'.leaked = past.leaked \cup Overwrites(s, event[s])
    BY <1>1, <1>6 DEF ConnectNoSocket, Idle, server, PastType
  <2>2. event'[s] = -1 /\ \A t \in Sockets : t # s => event'[t] = event[t]
    BY <2>1, Types
  <2>3. \A n \in Numbers : k.opened[n] = s => s \in past'.leaked
    <3> SUFFICES ASSUME NEW n \in Numbers, k.opened[n] = s, s \notin past.leaked
        PROVE  s \in past'.leaked
      BY <1>1
    <3>1. event[s] = n
      BY DEF Ownership
    <3>2. Overwrites(s, event[s]) = {s}
      BY <3>1, NumbersAre DEF Overwrites
    <3> QED
      BY <2>1, <3>2
  <2> QED
    BY <1>1, <2>1, <2>2, <2>3 DEF Known, Ownership
<1>7. ASSUME NEW s \in Sockets, DisconnectClose(s) PROVE Known' /\ Ownership'
  <2> DEFINE n == event[s]
  <2>1. /\ k' = Closed(k, n) /\ closing' = [closing EXCEPT ![s] = Dirs] /\ n # -1 /\ closing[s] = {}
        /\ UNCHANGED <<event, listening>>
        /\ past'.robbed = past.robbed \cup HitByClose(k, n, s)
    BY <1>1, <1>7 DEF DisconnectClose, Idle, server, PastType
  <2>2. n \in Numbers /\ closing'[s] # {} /\ \A t \in Sockets : t # s => closing'[t] = closing[t]
    BY <2>1, Types
  <2>3. \A m \in Numbers : k'.opened[m] = IF m = n THEN "free" ELSE k.opened[m]
    <3>1. n \in Numbers \cup {-1} /\ k \in FilesType
      BY Types
    <3> QED
      BY <2>1, <3>1, ClosedIs
  <2>4. k.opened[n] \in {"free", s} \cup past'.robbed
    BY <2>1 DEF HitByClose
  <2>5. \A t \in Sockets : event[t] \in Numbers \cup {-1} /\ t # "free"
    BY Types
  <2>6. ASSUME NEW t \in Sockets, event[t] # -1, closing'[t] = {}, t \notin past'.robbed
        PROVE  k'.opened[event[t]] = t
    <3>1. t # s /\ k.opened[event[t]] = t /\ event[t] \in Numbers
      BY <1>1, <2>2, <2>5, <2>6 DEF Ownership
    <3>2. event[t] # n
      BY <2>4, <2>5, <2>6, <3>1
    <3> QED
      BY <2>3, <3>1, <3>2
  <2>7. ASSUME NEW m \in Numbers, k'.opened[m] \in Sockets
        PROVE  \/ event[k'.opened[m]] = m /\ closing'[k'.opened[m]] = {}
               \/ k'.opened[m] \in past'.leaked
    <3>1. m # n /\ k'.opened[m] = k.opened[m]
      BY <2>3, <2>5, <2>7
    <3>2. (event[k.opened[m]] = m /\ closing[k.opened[m]] = {}) \/ k.opened[m] \in past.leaked
      BY <2>7, <3>1 DEF Ownership
    <3> QED
      BY <1>1, <2>2, <2>7, <3>1, <3>2
  <2>8. \A m \in Numbers : k'.opened[m] = "server" => k.opened[m] = "server"
    BY <2>3
  <2>9. Known'
    BY <2>1, <2>2 DEF Known
  <2> QED
    BY <1>1, <2>1, <2>6, <2>7, <2>8, <2>9 DEF Ownership
<1>8. ASSUME NEW s \in Sockets, DisconnectEraseIn(s) PROVE Known' /\ Ownership'
  <2>1. /\ "in" \in closing[s] /\ k' = Erased(k, event[s], "in")
        /\ closing' = [closing EXCEPT ![s] = {"out"}] /\ UNCHANGED <<event, listening>>
    BY <1>8 DEF DisconnectEraseIn, server
  <2>2. /\ closing[s] # {} /\ closing'[s] # {}
        /\ \A t \in Sockets : t # s => closing'[t] = closing[t]
    BY <2>1, Types
  <2>3. k'.opened = k.opened
    <3>1. k \in FilesType /\ event[s] \in Numbers \cup {-1} /\ "in" \in Dirs /\ "out" \in Dirs
      BY Types
    <3>2. /\ Erased(k, event[s], "in").opened = k.opened
          /\ Erased(k, event[s], "out").opened = k.opened
      BY <3>1, ErasedIs
    <3> QED
      BY <2>1, <3>2
  <2>4. \A t \in Sockets : closing'[t] = {} <=> closing[t] = {}
    BY <2>2
  <2> QED
    BY <1>1, <2>1, <2>3, <2>4 DEF Known, Ownership
<1>9. ASSUME NEW s \in Sockets, DisconnectErase(s) PROVE Known' /\ Ownership'
  <2>1. /\ closing[s] # {} /\ k' = Erased(k, event[s], "out")
        /\ event' = [event EXCEPT ![s] = -1] /\ closing' = [closing EXCEPT ![s] = {}]
        /\ listening' = listening
    BY <1>9 DEF DisconnectErase, Reset, server
  <2>2. /\ event'[s] = -1 /\ closing'[s] = {}
        /\ \A t \in Sockets : t # s => event'[t] = event[t] /\ closing'[t] = closing[t]
    BY <2>1, Types
  <2>3. k'.opened = k.opened
    <3>1. k \in FilesType /\ event[s] \in Numbers \cup {-1} /\ "in" \in Dirs /\ "out" \in Dirs
      BY Types
    <3>2. /\ Erased(k, event[s], "in").opened = k.opened
          /\ Erased(k, event[s], "out").opened = k.opened
      BY <3>1, ErasedIs
    <3> QED
      BY <2>1, <3>2
  <2> QED
    BY <1>1, <2>1, <2>2, <2>3 DEF Known, Ownership
<1> QED
  BY <1>2, <1>3, <1>4, <1>5, <1>6, <1>7, <1>8, <1>9 DEF SocketCall

LEMMA OwnStep ==
  ASSUME TypeOK, Known, Ownership, [Next]_vars
  PROVE  Known' /\ Ownership'
<1>1. past.robbed \subseteq past'.robbed /\ past.leaked \subseteq past'.leaked /\ past \in PastType
  BY PastTyped, Types
<1>2. "server" \in Owners /\ "other" \in Owners /\ "worker" \in Sockets /\ Sockets \subseteq Owners
      /\ "server" \notin Sockets /\ "other" \notin Sockets
  BY DEF Owners, Sockets
<1> DEFINE n == Lowest
<1>3. CASE ServerCall
  <2>1. CASE stop
    <3>1. /\ k' = Closed(Erased(k, listening, "in"), listening) /\ UNCHANGED <<event, closing, listening>>
          /\ past'.robbed = past.robbed \cup HitByErase(k, listening, {"in"}, "server")
                                        \cup HitByClose(k, listening, "server")
      BY <1>1, <2>1 DEF stop, socket, PastType
    <3>2. /\ listening \in Numbers \cup {-1} /\ \A s \in Sockets : s # "free" /\ s # "server"
          /\ \A s \in Sockets : event[s] \in Numbers \cup {-1}
      BY Types
    <3>3. \A m \in Numbers : k'.opened[m] = IF m = listening THEN "free" ELSE k.opened[m]
      BY <3>1, <3>2, ErasedClosed
    <3>4. listening # -1 => k.opened[listening] \in {"free", "server"} \cup past'.robbed
      BY <3>1 DEF HitByClose
    <3>5. ASSUME NEW s \in Sockets, event[s] # -1, closing[s] = {}, s \notin past'.robbed
          PROVE  k'.opened[event[s]] = s
      <4>1. k.opened[event[s]] = s /\ event[s] \in Numbers
        BY <1>1, <3>2, <3>5 DEF Ownership
      <4>2. event[s] # listening
        BY <3>2, <3>4, <3>5, <4>1
      <4> QED
        BY <3>3, <4>1, <4>2
    <3>6. \A m \in Numbers : k'.opened[m] \in Sockets \cup {"server"} => k'.opened[m] = k.opened[m]
      BY <3>2, <3>3
    <3> QED
      BY <1>1, <3>1, <3>5, <3>6 DEF Known, Ownership
  <2>2. CASE StartNoSocket
    <3>1. /\ k' = k /\ listening' = -1 /\ UNCHANGED <<event, closing>>
          /\ past'.leaked = past.leaked \cup Overwrites("server", listening)
      BY <1>1, <2>2 DEF StartNoSocket, Restarted, socket, PastType
    <3>2. \A m \in Numbers : k.opened[m] = "server" => "server" \in past'.leaked
      <4> SUFFICES ASSUME NEW m \in Numbers, k.opened[m] = "server", "server" \notin past.leaked
          PROVE  "server" \in past'.leaked
        BY <1>1
      <4>1. listening = m
        BY DEF Ownership
      <4>2. Overwrites("server", listening) = {"server"}
        BY <4>1, NumbersAre DEF Overwrites
      <4> QED
        BY <3>1, <4>2
    <3> QED
      BY <1>1, <3>1, <3>2 DEF Known, Ownership
  <2>3. CASE StartFails \/ \E cb \in BOOLEAN, c \in 0..MaxBacklog : start(cb, c)
    <3>1. /\ Free(k) # {} /\ listening' = n /\ UNCHANGED <<event, closing>>
          /\ past' = Restarted(n)
          /\ \/ k' = Opened(k, n, "server")
             \/ k' = Added(Opened(k, n, "server"), n, "in", "server")
      BY <2>3 DEF StartFails, start, socket
    <3> HIDE DEF n
    <3>2. n = Lowest
      BY DEF n
    <3>3. /\ n \in Numbers /\ k.opened[n] = "free"
          /\ \A m \in Numbers : k'.opened[m] = IF m = n THEN "server" ELSE k.opened[m]
      BY <1>2, <3>1, <3>2, OpenedOnly, OpenedAdded
    <3>4. past'.leaked = past.leaked \cup Overwrites("server", listening)
      BY <1>1, <3>1 DEF Restarted, PastType
    <3> QED
      BY <1>1, <1>2, <3>1, <3>3, <3>4, OwnGiven
  <2> QED
    BY <1>3, <2>1, <2>2, <2>3 DEF ServerCall
<1>4. CASE OtherOpens
  <2>1. /\ Free(k) # {} /\ UNCHANGED <<event, closing, listening>>
        /\ k' = Added(Opened(k, n, "other"), n, "in", "other")
    BY <1>4 DEF OtherOpens, socket, server
  <2> HIDE DEF n
  <2>2. n = Lowest
    BY DEF n
  <2>3. /\ n \in Numbers /\ k.opened[n] = "free"
        /\ \A m \in Numbers : k'.opened[m] = IF m = n THEN "other" ELSE k.opened[m]
    BY <1>2, <2>1, <2>2, OpenedAdded
  <2> QED
    BY <1>1, <1>2, <2>1, <2>3, OwnGiven
<1>5. CASE OtherCloses
  <2>1. /\ UNCHANGED <<event, closing, listening>> /\ held \in Numbers
        /\ k' = IF k.opened[held] = "other" THEN Closed(Erased(k, held, "in"), held) ELSE k
    BY <1>5, Types DEF OtherCloses, socket, server
  <2>2. CASE k.opened[held] # "other"
    <3>1. k' = k
      BY <2>1, <2>2
    <3> QED
      BY <1>1, <2>1, <3>1, OwnSame
  <2>3. CASE k.opened[held] = "other"
    <3>1. k' = Closed(Erased(k, held, "in"), held)
      BY <2>1, <2>3
    <3>2. \A m \in Numbers : k'.opened[m] = IF m = held THEN "free" ELSE k.opened[m]
      BY <2>1, <3>1, ErasedClosed
    <3>3. \A s \in Sockets : s # "free" /\ s # "other" /\ event[s] \in Numbers \cup {-1}
      BY Types
    <3>4. \A m \in Numbers : k'.opened[m] \in Sockets \cup {"server"} => k'.opened[m] = k.opened[m]
      BY <3>2, <3>3
    <3>5. \A m \in Numbers : k.opened[m] \in Sockets => k'.opened[m] = k.opened[m]
      BY <1>2, <2>3, <3>2
    <3>6. ASSUME NEW s \in Sockets, event[s] # -1, closing[s] = {}, s \notin past'.robbed
          PROVE  k'.opened[event[s]] = s
      <4>1. k.opened[event[s]] = s /\ event[s] \in Numbers
        BY <1>1, <3>3, <3>6 DEF Ownership
      <4> QED
        BY <3>5, <4>1
    <3> QED
      BY <1>1, <2>1, <3>4, <3>6 DEF Known, Ownership
  <2> QED
    BY <2>2, <2>3
<1>6. CASE ProcessStep
  <2>1. CASE UNCHANGED event /\ k'.opened = k.opened
    <3>1. UNCHANGED <<closing, listening>>
      BY <1>6 DEF ProcessStep, Accept, AcceptNone, AcceptFails, AcceptThrows, socket
    <3> QED
      BY <1>1, <2>1, <3>1, OwnSame
  <2>2. CASE k' = Opened(k, n, "worker") /\ Free(k) # {}
    <3>1. /\ UNCHANGED <<closing, listening>>
          /\ \/ UNCHANGED event /\ past'.leaked = past.leaked \cup {"worker"}
             \/ event["worker"] = -1 /\ event' = [event EXCEPT !["worker"] = n]
             \/ k' = k
             \/ k' = Erased(Erased(k, n, "in"), n, "out")
      BY <1>1, <1>6 DEF ProcessStep, Accept, AcceptNone, AcceptFails, AcceptThrows, socket, PastType
    <3> HIDE DEF n
    <3>2. n = Lowest
      BY DEF n
    <3>3. /\ n \in Numbers /\ k.opened[n] = "free" /\ "worker" # "free"
          /\ \A m \in Numbers : k'.opened[m] = IF m = n THEN "worker" ELSE k.opened[m]
      BY <1>2, <2>2, <3>2, OpenedOnly
    <3>4. k' # k /\ k' # Erased(Erased(k, n, "in"), n, "out")
      <4>1. k'.opened[n] # k.opened[n]
        BY <3>3
      <4>2. Erased(Erased(k, n, "in"), n, "out").opened = k.opened
        BY <3>3, ErasedBoth
      <4> QED
        BY <4>1, <4>2
    <3>5. CASE UNCHANGED event /\ past'.leaked = past.leaked \cup {"worker"}
      BY <1>1, <1>2, <3>1, <3>3, <3>5, OwnGiven
    <3>6. CASE event["worker"] = -1 /\ event' = [event EXCEPT !["worker"] = n]
      <4>1. /\ closing["worker"] = {} /\ Overwrites("worker", event["worker"]) = {}
            /\ event'["worker"] = n /\ \A s \in Sockets : s # "worker" => event'[s] = event[s]
        BY <1>2, <3>6, Types DEF Known, Overwrites
      <4> QED
        BY <1>1, <1>2, <3>1, <3>3, <4>1, OwnGiven
    <3> QED
      BY <3>1, <3>4, <3>5, <3>6
  <2>3. ASSUME Free(k) # {} PROVE Erased(Erased(k, n, "in"), n, "out").opened = k.opened
    BY <2>3, LowestFree, ErasedBoth
  <2> QED
    BY <1>6, <2>1, <2>2, <2>3 DEF ProcessStep, Accept, AcceptNone, AcceptFails, AcceptThrows, socket
<1>7. CASE Dispatch \/ Arrive \/ UNCHANGED vars
  <2>1. UNCHANGED <<k, event, closing, listening>>
    BY <1>7 DEF Dispatch, Arrive, vars, socket, server
  <2> QED
    BY <1>1, <2>1, OwnSame
<1> QED
  BY <1>3, <1>4, <1>5, <1>6, <1>7, OwnSocketCalls DEF Next

(* A socket's descriptor is its own, and an open descriptor is known to    *)
(* who has opened it, but for the descriptors that were leaked.            *)
THEOREM OwnershipAlways == Spec => []Ownership
<1>1. Init => TypeOK /\ Known /\ Ownership
  <2> SUFFICES ASSUME Init PROVE TypeOK /\ Known /\ Ownership
    OBVIOUS
  <2>1. TypeOK
    BY InitTyped
  <2>2. Known /\ Ownership
    BY <2>1, Types DEF Init, NoFiles, Known, Ownership
  <2> QED
    BY <2>1, <2>2
<1>2. TypeOK /\ Known /\ Ownership /\ [Next]_vars => (TypeOK /\ Known /\ Ownership)'
  BY TypeStep, OwnStep
<1> QED
  BY <1>1, <1>2, PTL DEF Spec

-----------------------------------------------------------------------------
(* Registrations                                                           *)

(* Nothing was taken away, and no number was given out before its time.    *)
Regular == past.robbed = {} /\ ~past.reused

(* An entry of m_eventInfos is of who has opened the descriptor, or of the *)
(* one socket that is about to erase it.                                   *)
EntriesOwned ==
  /\ \A n \in Numbers, d \in Dirs :
       \/ k.entry[n][d] \in {"none", k.opened[n]}
       \/ \E s \in Sockets : d \in closing[s] /\ event[s] = n /\ k.entry[n][d] = s
  /\ \A n \in Numbers : k.entry[n]["out"] \in Sockets \cup {"none"}
  /\ \A s \in Sockets : closing[s] # {} => k.opened[event[s]] = "free"
  /\ \A s, t \in Sockets : closing[s] # {} /\ closing[t] # {} /\ event[s] = event[t] => s = t

(* The entry of a socket has what the socket has callbacks for.            *)
Handling ==
  \A s \in Sockets, d \in Dirs :
    event[s] # -1 /\ closing[s] = {} /\ s \notin past.odd =>
      (k.entry[event[s]][d] # "none" <=> handler[s][d])

(* A server has its descriptor until stop(), and while it is listening the *)
(* entry as well.                                                          *)
Listening ==
  /\ ~past.stopped /\ listening # -1 => k.opened[listening] = "server"
  /\ ready => /\ listening # -1 /\ k.opened[listening] = "server"
              /\ k.entry[listening]["in"] = "server"

Files == EntriesOwned /\ Watched(k) /\ Handling /\ Listening

(* process() is being called for the connections that wait, or has its     *)
(* event.                                                                  *)
Soon == ready /\ waiting > 0 => accepting \/ signalled \/ past.stalled

(* A number that is free has no entry, and nobody knows it but a socket    *)
(* that is closing.                                                        *)
LEMMA FreeClean ==
  ASSUME TypeOK, Ownership, Regular, Files, NEW n \in Numbers, k.opened[n] = "free"
  PROVE  /\ ~Reuses(n) => \A d \in Dirs : k.entry[n][d] = "none"
         /\ \A s \in Sockets : event[s] = n => closing[s] # {}
         /\ \A m \in Numbers : k.opened[m] = "server" => m # n
         /\ n # -1
<1>1. \A d \in Dirs : k.entry[n][d] # "free"
  BY Types DEF FilesType
<1>2. \A s \in Sockets : s # "free"
  BY Types
<1> QED
  BY <1>1, <1>2, NumbersAre DEF Files, EntriesOwned, Reuses, Ownership, Regular

(* A socket that is open has its number for itself.                        *)
LEMMA OwnNumber ==
  ASSUME TypeOK, Ownership, Regular, Files, NEW s \in Sockets, event[s] # -1, closing[s] = {}
  PROVE  /\ event[s] \in Numbers /\ k.opened[event[s]] = s
         /\ \A d \in Dirs : k.entry[event[s]][d] \in {"none", s}
         /\ \A t \in Sockets : t # s => event[t] # event[s]
         /\ s # "server" /\ s # "free" /\ s # "other" /\ s # "none"
<1>1. event[s] \in Numbers /\ k.opened[event[s]] = s
  BY Types DEF Ownership, Regular
<1>2. \A t \in Sockets : t # "free" /\ t # "server" /\ t # "other" /\ t # "none"
  BY Types
<1>3. \A t \in Sockets : t # s => event[t] # event[s]
  BY <1>1, <1>2 DEF Ownership, Regular, Files, EntriesOwned
<1> QED
  BY <1>1, <1>2, <1>3 DEF Files, EntriesOwned

(* A number that is given out to o.                                        *)
LEMMA EntriesGiven ==
  ASSUME TypeOK, Known, Ownership, Regular, Files, NEW n \in Numbers, k.opened[n] = "free", ~Reuses(n),
         NEW o \in Owners,
         \A m \in Numbers : k'.opened[m] = IF m = n THEN o ELSE k.opened[m],
         \A m \in Numbers, d \in Dirs : m # n => k'.entry[m][d] = k.entry[m][d],
         \A d \in Dirs : k'.entry[n][d] \in {"none", o},
         o \notin Sockets => k'.entry[n]["out"] = "none",
         closing' = closing, \A s \in Sockets : closing[s] # {} => event'[s] = event[s]
  PROVE  EntriesOwned'
<1>1. "none" \notin Sockets /\ "out" \in Dirs /\ \A s \in Sockets : event[s] \in Numbers \cup {-1}
  BY Types
<1>2. ASSUME NEW m \in Numbers, NEW d \in Dirs
      PROVE  \/ k'.entry[m][d] \in {"none", k'.opened[m]}
             \/ \E s \in Sockets : d \in closing'[s] /\ event'[s] = m /\ k'.entry[m][d] = s
  BY DEF Files, EntriesOwned
<1>3. \A m \in Numbers : k'.entry[m]["out"] \in Sockets \cup {"none"}
  BY <1>1 DEF Files, EntriesOwned
<1>4. \A s \in Sockets : closing[s] # {} => event[s] # n
  BY DEF Reuses
<1>5. ASSUME NEW s \in Sockets, closing[s] # {} PROVE k'.opened[event'[s]] = "free"
  <2>1. k.opened[event[s]] = "free" /\ event'[s] = event[s] /\ event[s] # n
    BY <1>4, <1>5 DEF Files, EntriesOwned
  <2>2. event[s] \in Numbers
    BY <1>1, <1>5, <2>1 DEF Known
  <2> QED
    BY <2>1, <2>2
<1> QED
  BY <1>2, <1>3, <1>5 DEF Files, EntriesOwned

(* The registration of the listening socket is left alone.                 *)
LEMMA ListeningKept ==
  ASSUME TypeOK, Listening, UNCHANGED <<listening, ready>>, past.stopped => past'.stopped,
         \A m \in Numbers : k.opened[m] = "server" =>
           /\ k'.opened[m] = "server"
           /\ k.entry[m]["in"] = "server" => k'.entry[m]["in"] = "server"
  PROVE  Listening'
<1>1. listening \in Numbers \cup {-1}
  BY Types
<1> QED
  BY <1>1 DEF Listening

LEMMA ConnectKept ==
  ASSUME TypeOK, Known, Ownership, Regular, Files, NEW s \in Sockets, connect(s)
  PROVE  past'.robbed = {} /\ (Regular' => Files')
<1> DEFINE n == Lowest
<1> HIDE DEF n
<1>1. n = Lowest
  BY DEF n
<1>2. /\ n \in Numbers /\ k.opened[n] = "free"
      /\ \A m \in Numbers : k'.opened[m] = IF m = n THEN s ELSE k.opened[m]
      /\ \A m \in Numbers, d \in Dirs :
           k'.entry[m][d] = IF m = n /\ handler[s][d] THEN s ELSE k.entry[m][d]
      /\ Watched(k) /\ (\A d \in Dirs : k.entry[n][d] = "none") => Watched(k')
  BY <1>1, ConnectFiles
<1>3. /\ event' = [event EXCEPT ![s] = n] /\ closing[s] = {}
      /\ UNCHANGED <<handler, closing, listening, ready>>
  BY <1>1 DEF connect, Idle, server
<1>4. /\ past'.robbed = past.robbed /\ past'.odd = past.odd /\ past'.stopped = past.stopped
      /\ past'.reused = (past.reused \/ Reuses(n))
  BY <1>1, Types DEF connect, PastType
<1>5. SUFFICES ASSUME ~Reuses(n) PROVE Files'
  BY <1>4 DEF Regular
<1>6. /\ \A d \in Dirs : k.entry[n][d] = "none"
      /\ \A t \in Sockets : event[t] # n
      /\ n # -1
  BY <1>2, <1>5, FreeClean DEF Reuses
<1>7. event'[s] = n /\ \A t \in Sockets : t # s => event'[t] = event[t]
  BY <1>3, Types
<1>8. EntriesOwned'
  <2>1. s \in Owners /\ (s \notin Sockets => k'.entry[n]["out"] = "none")
    BY Types
  <2>2. \A d \in Dirs : k'.entry[n][d] \in {"none", s}
    BY <1>2, <1>6
  <2>3. \A m \in Numbers, d \in Dirs : m # n => k'.entry[m][d] = k.entry[m][d]
    BY <1>2
  <2>4. \A t \in Sockets : closing[t] # {} => event'[t] = event[t]
    BY <1>3, <1>7
  <2> QED
    BY <1>2, <1>3, <1>5, <2>1, <2>2, <2>3, <2>4, EntriesGiven
<1>9. Watched(k')
  BY <1>2, <1>6 DEF Files
<1>10. Handling'
  <2> SUFFICES ASSUME NEW t \in Sockets, NEW d \in Dirs,
                      event'[t] # -1, closing[t] = {}, t \notin past.odd
      PROVE  k'.entry[event'[t]][d] # "none" <=> handler[t][d]
    BY <1>3, <1>4 DEF Handling
  <2>1. CASE t = s
    BY <1>2, <1>6, <1>7, <2>1, Types
  <2>2. CASE t # s
    <3>1. event'[t] = event[t] /\ event[t] # n /\ event[t] \in Numbers
      BY <1>6, <1>7, <2>2, Types
    <3>2. k'.entry[event[t]][d] = k.entry[event[t]][d]
      BY <1>2, <3>1
    <3> QED
      BY <3>1, <3>2 DEF Files, Handling
  <2> QED
    BY <2>1, <2>2
<1>11. Listening'
  <2>1. "in" \in Dirs
    BY Types
  <2>2. \A m \in Numbers : k.opened[m] = "server" => m # n
    BY <1>2, FreeClean
  <2> QED
    BY <1>2, <1>3, <1>4, <2>1, <2>2, ListeningKept DEF Files
<1> QED
  BY <1>8, <1>9, <1>10, <1>11 DEF Files

(* A socket that is open changes its entry for d, and its callback.        *)
LEMMA CallbackKept ==
  ASSUME TypeOK, Known, Ownership, Regular, Files,
         NEW s \in Sockets, closing[s] = {}, NEW d \in Dirs, NEW o \in {"none", s},
         k'.opened = k.opened, Watched(k'),
         \A m \in Numbers, x \in Dirs :
           k'.entry[m][x] = IF m = event[s] /\ x = d THEN o ELSE k.entry[m][x],
         UNCHANGED <<event, closing, listening, ready>>,
         past.odd \subseteq past'.odd, past'.stopped = past.stopped,
         \A t \in Sockets, x \in Dirs : t # s => handler'[t][x] = handler[t][x],
         \/ s \in past'.odd
         \/ /\ handler'[s][d] <=> o # "none"
            /\ \A x \in Dirs : x # d => handler'[s][x] = handler[s][x]
  PROVE  Files'
<1>1. event[s] # -1 => /\ event[s] \in Numbers /\ k.opened[event[s]] = s
                       /\ \A t \in Sockets : t # s => event[t] # event[s]
                       /\ s # "server"
  BY OwnNumber
<1>2. -1 \notin Numbers /\ \A t \in Sockets : event[t] \in Numbers \cup {-1}
  BY Types, NumbersAre
<1>3. EntriesOwned'
  <2>1. ASSUME NEW m \in Numbers, NEW x \in Dirs
        PROVE  \/ k'.entry[m][x] \in {"none", k'.opened[m]}
               \/ \E t \in Sockets : x \in closing'[t] /\ event'[t] = m /\ k'.entry[m][x] = t
    <3>1. CASE m = event[s] /\ x = d
      BY <1>1, <1>2, <3>1
    <3>2. CASE ~(m = event[s] /\ x = d)
      BY <3>2 DEF Files, EntriesOwned
    <3> QED
      BY <3>1, <3>2
  <2>2. \A m \in Numbers : k'.entry[m]["out"] \in Sockets \cup {"none"}
    BY Types DEF Files, EntriesOwned
  <2> QED
    BY <2>1, <2>2 DEF Files, EntriesOwned
<1>4. Handling'
  <2> SUFFICES ASSUME NEW t \in Sockets, NEW x \in Dirs,
                      event[t] # -1, closing[t] = {}, t \notin past'.odd
      PROVE  k'.entry[event[t]][x] # "none" <=> handler'[t][x]
    BY DEF Handling
  <2>1. event[t] \in Numbers /\ (k.entry[event[t]][x] # "none" <=> handler[t][x])
    BY <1>2 DEF Files, Handling
  <2>2. CASE t # s
    BY <1>1, <2>1, <2>2
  <2>3. CASE t = s /\ x # d
    BY <2>1, <2>3
  <2>4. CASE t = s /\ x = d
    BY <2>1, <2>4
  <2> QED
    BY <2>2, <2>3, <2>4
<1>5. Listening'
  <2>1. ASSUME NEW m \in Numbers, k.opened[m] = "server"
        PROVE  k'.opened[m] = "server" /\ k'.entry[m]["in"] = k.entry[m]["in"]
    <3>1. m # event[s] /\ "in" \in Dirs
      BY <1>1, <1>2, <2>1, Types
    <3> QED
      BY <2>1, <3>1
  <2> QED
    BY <2>1, ListeningKept DEF Files
<1> QED
  BY <1>3, <1>4, <1>5 DEF Files

LEMMA CallbacksKept ==
  ASSUME TypeOK, Known, Ownership, Regular, Files, NEW s \in Sockets,
         \/ \E d \in Dirs, cb \in BOOLEAN : setDataCb(s, d, cb)
         \/ clearDataCb(s) \/ clearOutDataCb(s)
  PROVE  past'.robbed = {} /\ (Regular' => Files')
<1>1. /\ closing[s] = {} /\ UNCHANGED <<event, closing, listening, ready>>
      /\ past'.stopped = past.stopped /\ past.odd \subseteq past'.odd
  BY Types DEF setDataCb, clearDataCb, clearOutDataCb, Idle, server, PastType
<1>2. /\ k \in FilesType /\ Watched(k) /\ event[s] \in Numbers \cup {-1} /\ past.robbed = {}
      /\ "in" \in Dirs /\ "out" \in Dirs /\ s \in Owners /\ s # "none"
      /\ past \in PastType /\ handler \in [Sockets -> [Dirs -> BOOLEAN]]
  BY Types DEF Files, Regular
<1>3. CASE \E d \in Dirs, cb \in BOOLEAN : setDataCb(s, d, cb)
  <2>1. PICK d \in Dirs, cb \in BOOLEAN : setDataCb(s, d, cb)
    BY <1>3
  <2>2. /\ k' = Added(k, event[s], d, s) /\ handler' = [handler EXCEPT ![s][d] = cb]
        /\ past'.robbed = {} /\ (~cb => s \in past'.odd)
    BY <1>2, <2>1 DEF setDataCb, PastType
  <2>3. /\ k'.opened = k.opened /\ Watched(k')
        /\ \A m \in Numbers, x \in Dirs :
             k'.entry[m][x] = IF m = event[s] /\ x = d THEN s ELSE k.entry[m][x]
    <3>1. /\ Added(k, event[s], d, s).opened = k.opened
          /\ Watched(Added(k, event[s], d, s))
          /\ \A m \in Numbers, x \in Dirs :
               Added(k, event[s], d, s).entry[m][x]
                 = IF m = event[s] /\ x = d THEN s ELSE k.entry[m][x]
      BY <1>2, AddedIs
    <3> QED
      BY <2>2, <3>1
  <2>4. /\ \A t \in Sockets, x \in Dirs : t # s => handler'[t][x] = handler[t][x]
        /\ handler'[s][d] = cb /\ \A x \in Dirs : x # d => handler'[s][x] = handler[s][x]
    BY <1>2, <2>2
  <2>5. Files'
    BY <1>1, <1>2, <2>2, <2>3, <2>4, CallbackKept
  <2> QED
    BY <2>2, <2>5
<1>4. ASSUME NEW d \in Dirs PROVE HitByErase(k, event[s], {d}, s) = {}
  BY <1>1, OwnNumber DEF HitByErase
<1>5. CASE clearDataCb(s)
  <2>1. /\ k' = Erased(k, event[s], "in") /\ handler' = [handler EXCEPT ![s]["in"] = FALSE]
        /\ past'.robbed = {}
    BY <1>2, <1>4, <1>5 DEF clearDataCb, PastType
  <2>2. /\ k'.opened = k.opened /\ Watched(k')
        /\ \A m \in Numbers, x \in Dirs :
             k'.entry[m][x] = IF m = event[s] /\ x = "in" THEN "none" ELSE k.entry[m][x]
    <3>1. k \in FilesType /\ event[s] \in Numbers \cup {-1} /\ "in" \in Dirs
      BY <1>2
    <3>2. /\ Erased(k, event[s], "in").opened = k.opened
          /\ Watched(k) => Watched(Erased(k, event[s], "in"))
          /\ \A m \in Numbers, x \in Dirs :
               Erased(k, event[s], "in").entry[m][x]
                 = IF m = event[s] /\ x = "in" THEN "none" ELSE k.entry[m][x]
      BY <3>1, ErasedIs
    <3> QED
      BY <1>2, <2>1, <3>2
  <2>3. /\ \A t \in Sockets, x \in Dirs : t # s => handler'[t][x] = handler[t][x]
        /\ handler'[s]["in"] = FALSE
        /\ \A x \in Dirs : x # "in" => handler'[s][x] = handler[s][x]
    BY <1>2, <2>1
  <2>4. Files'
    BY <1>1, <1>2, <2>2, <2>3, CallbackKept
  <2> QED
    BY <2>1, <2>4
<1>6. CASE clearOutDataCb(s)
  <2>1. /\ k' = Erased(k, event[s], "out") /\ handler' = [handler EXCEPT ![s]["in"] = FALSE]
        /\ past'.robbed = {} /\ s \in past'.odd
    BY <1>2, <1>4, <1>6 DEF clearOutDataCb, PastType
  <2>2. /\ k'.opened = k.opened /\ Watched(k')
        /\ \A m \in Numbers, x \in Dirs :
             k'.entry[m][x] = IF m = event[s] /\ x = "out" THEN "none" ELSE k.entry[m][x]
    <3>1. k \in FilesType /\ event[s] \in Numbers \cup {-1} /\ "out" \in Dirs
      BY <1>2
    <3>2. /\ Erased(k, event[s], "out").opened = k.opened
          /\ Watched(k) => Watched(Erased(k, event[s], "out"))
          /\ \A m \in Numbers, x \in Dirs :
               Erased(k, event[s], "out").entry[m][x]
                 = IF m = event[s] /\ x = "out" THEN "none" ELSE k.entry[m][x]
      BY <3>1, ErasedIs
    <3> QED
      BY <1>2, <2>1, <3>2
  <2>3. \A t \in Sockets, x \in Dirs : t # s => handler'[t][x] = handler[t][x]
    BY <1>2, <2>1
  <2>4. Files'
    BY <1>1, <1>2, <2>1, <2>2, <2>3, CallbackKept
  <2> QED
    BY <2>1, <2>4
<1> QED
  BY <1>3, <1>5, <1>6

LEMMA DisconnectKept ==
  ASSUME TypeOK, Known, Ownership, Regular, Files, NEW s \in Sockets,
         DisconnectClose(s) \/ DisconnectEraseIn(s) \/ DisconnectErase(s)
  PROVE  past'.robbed = {} /\ (Regular' => Files')
<1>1. /\ UNCHANGED <<handler, listening, ready>>
      /\ past'.stopped = past.stopped /\ past.odd = past'.odd
  BY Types DEF DisconnectClose, DisconnectEraseIn, DisconnectErase, server, PastType
<1>2. /\ k \in FilesType /\ Watched(k) /\ past.robbed = {} /\ past \in PastType /\ "in" \in Dirs
      /\ -1 \notin Numbers /\ s # "server" /\ s # "free"
      /\ \A t \in Sockets : event[t] \in Numbers \cup {-1}
  BY Types, NumbersAre DEF Files, Regular
<1>3. CASE DisconnectClose(s)
  <2>1. /\ k' = Closed(k, event[s]) /\ event' = event /\ event[s] # -1 /\ closing[s] = {}
        /\ closing' = [closing EXCEPT ![s] = Dirs]
        /\ past'.robbed = past.robbed \cup HitByClose(k, event[s], s)
    BY <1>2, <1>3 DEF DisconnectClose, Idle, PastType
  <2>2. /\ event[s] \in Numbers /\ k.opened[event[s]] = s
        /\ \A d \in Dirs : k.entry[event[s]][d] \in {"none", s}
        /\ \A t \in Sockets : t # s => event[t] # event[s]
    BY <2>1, OwnNumber
  <2>3. past'.robbed = {}
    BY <1>2, <2>1, <2>2 DEF HitByClose
  <2>4. /\ k'.entry = k.entry
        /\ \A m \in Numbers : /\ k'.opened[m] = IF m = event[s] THEN "free" ELSE k.opened[m]
                              /\ k'.watched[m] = IF m = event[s] THEN {} ELSE k.watched[m]
    BY <1>2, <2>1, ClosedIs
  <2>5. closing'[s] = Dirs /\ closing'[s] # {} /\ \A t \in Sockets : t # s => closing'[t] = closing[t]
    BY <2>1, Types
  <2>6. EntriesOwned'
    <3>1. ASSUME NEW m \in Numbers, NEW d \in Dirs
          PROVE  \/ k'.entry[m][d] \in {"none", k'.opened[m]}
                 \/ \E t \in Sockets : d \in closing'[t] /\ event'[t] = m /\ k'.entry[m][d] = t
      <4>1. CASE m = event[s]
        BY <2>1, <2>2, <2>4, <2>5, <4>1
      <4>2. CASE m # event[s]
        BY <2>1, <2>4, <2>5, <4>2 DEF Files, EntriesOwned
      <4> QED
        BY <4>1, <4>2
    <3>2. ASSUME NEW t \in Sockets, closing'[t] # {} PROVE k'.opened[event'[t]] = "free"
      <4>1. CASE t = s
        BY <2>1, <2>2, <2>4, <4>1
      <4>2. CASE t # s
        <5>1. closing[t] # {} /\ event[t] \in Numbers
          BY <1>2, <2>5, <3>2, <4>2 DEF Known
        <5> QED
          BY <2>1, <2>4, <5>1 DEF Files, EntriesOwned
      <4> QED
        BY <4>1, <4>2
    <3>3. \A t, u \in Sockets : closing'[t] # {} /\ closing'[u] # {} /\ event'[t] = event'[u] => t = u
      BY <2>1, <2>2, <2>5 DEF Files, EntriesOwned
    <3>4. \A m \in Numbers : k'.entry[m]["out"] \in Sockets \cup {"none"}
      BY <2>4 DEF Files, EntriesOwned
    <3> QED
      BY <3>1, <3>2, <3>3, <3>4 DEF EntriesOwned
  <2>7. Watched(k')
    BY <1>2, <2>4 DEF Watched
  <2>8. Handling'
    BY <1>1, <2>1, <2>4, <2>5 DEF Files, Handling
  <2>9. Listening'
    BY <1>1, <1>2, <2>2, <2>4, ListeningKept DEF Files
  <2> QED
    BY <2>3, <2>6, <2>7, <2>8, <2>9 DEF Files
(* Both erasures: what is left of the number is the entry still to erase.  *)
<1>4. ASSUME NEW d \in Dirs, d \in closing[s], closing[s] \subseteq Dirs,
             k' = Erased(k, event[s], d),
             past'.robbed = past.robbed \cup HitByErase(k, event[s], {d}, s),
             closing' = [closing EXCEPT ![s] = closing[s] \ {d}],
             \/ event' = event /\ closing[s] # {d}
             \/ event' = [event EXCEPT ![s] = -1] /\ closing[s] = {d}
      PROVE  past'.robbed = {} /\ (Regular' => Files')
  <2>1. closing[s] # {}
    BY <1>4
  <2>2. event[s] \in Numbers /\ k.opened[event[s]] = "free"
    BY <1>2, <2>1 DEF Known, Files, EntriesOwned
  <2>3. \A x \in Dirs : k.entry[event[s]][x] = "none" \/ (x \in closing[s] /\ k.entry[event[s]][x] = s)
    <3>1. \A x \in Dirs : k.entry[event[s]][x] # "free"
      BY <2>2, Types DEF FilesType
    <3>2. \A t \in Sockets : closing[t] # {} /\ event[t] = event[s] => t = s
      BY <2>1 DEF Files, EntriesOwned
    <3> QED
      BY <2>2, <3>1, <3>2 DEF Files, EntriesOwned
  <2>4. past'.robbed = {}
    BY <1>2, <1>4, <2>3 DEF HitByErase
  <2>5. /\ k'.opened = k.opened /\ Watched(k')
        /\ \A m \in Numbers, x \in Dirs :
             k'.entry[m][x] = IF m = event[s] /\ x = d THEN "none" ELSE k.entry[m][x]
    <3> DEFINE g == Erased(k, event[s], d)
    <3>1. k \in FilesType /\ event[s] \in Numbers \cup {-1} /\ d \in Dirs
      BY <1>2, <1>4
    <3>2. /\ g.opened = k.opened /\ (Watched(k) => Watched(g))
          /\ \A m \in Numbers, x \in Dirs :
               g.entry[m][x] = IF m = event[s] /\ x = d THEN "none" ELSE k.entry[m][x]
      BY <3>1, ErasedIs
    <3>3. k' = g
      BY <1>4
    <3> HIDE DEF g
    <3> QED
      BY <1>2, <3>2, <3>3
  <2>6. /\ closing'[s] = closing[s] \ {d}
        /\ \A t \in Sockets : t # s => event'[t] = event[t] /\ closing'[t] = closing[t]
        /\ closing'[s] # {} => event'[s] = event[s]
        /\ closing'[s] = {} => event'[s] = -1
    BY <1>4, Types
  <2>7. EntriesOwned'
    <3>1. ASSUME NEW m \in Numbers, NEW x \in Dirs
          PROVE  \/ k'.entry[m][x] \in {"none", k'.opened[m]}
                 \/ \E t \in Sockets : x \in closing'[t] /\ event'[t] = m /\ k'.entry[m][x] = t
      <4>1. CASE m = event[s] /\ x = d
        BY <2>5, <4>1
      <4>2. CASE m = event[s] /\ x # d
        <5>1. CASE k.entry[m][x] = "none"
          BY <2>5, <4>2, <5>1
        <5>2. CASE x \in closing[s] /\ k.entry[m][x] = s
          <6>1. x \in closing'[s] /\ event'[s] = m
            BY <2>6, <4>2, <5>2
          <6> QED
            BY <2>5, <4>2, <5>2, <6>1
        <5> QED
          BY <2>3, <4>2, <5>1, <5>2
      <4>3. CASE m # event[s]
        BY <2>5, <2>6, <4>3 DEF Files, EntriesOwned
      <4> QED
        BY <4>1, <4>2, <4>3
    <3>2. \A m \in Numbers : k'.entry[m]["out"] \in Sockets \cup {"none"}
      BY <2>5, Types DEF Files, EntriesOwned
    <3>3. \A t \in Sockets : closing'[t] # {} => closing[t] # {} /\ event'[t] = event[t]
      BY <2>1, <2>6
    <3> QED
      BY <2>5, <3>1, <3>2, <3>3 DEF Files, EntriesOwned
  <2>8. Handling'
    <3> SUFFICES ASSUME NEW t \in Sockets, NEW x \in Dirs,
                        event'[t] # -1, closing'[t] = {}, t \notin past.odd
        PROVE  k'.entry[event'[t]][x] # "none" <=> handler[t][x]
      BY <1>1 DEF Handling
    <3>1. t # s /\ event'[t] = event[t] /\ closing[t] = {} /\ event[t] # -1
      BY <2>6
    <3>2. event[t] \in Numbers /\ event[t] # event[s]
      BY <3>1, OwnNumber
    <3> QED
      BY <2>5, <3>1, <3>2 DEF Files, Handling
  <2>9. Listening'
    BY <1>1, <1>2, <2>2, <2>5, ListeningKept DEF Files
  <2> QED
    BY <2>4, <2>5, <2>7, <2>8, <2>9 DEF Files
<1>5. CASE DisconnectEraseIn(s)
  <2>1. /\ "in" \in closing[s] /\ k' = Erased(k, event[s], "in") /\ event' = event
        /\ closing' = [closing EXCEPT ![s] = {"out"}]
        /\ past'.robbed = past.robbed \cup HitByErase(k, event[s], {"in"}, s)
    BY <1>2, <1>5 DEF DisconnectEraseIn, PastType
  <2>2. closing[s] = Dirs
    BY <2>1, Types
  <2>3. closing[s] \ {"in"} = {"out"} /\ closing[s] # {"in"}
    BY <2>2 DEF Dirs
  <2> QED
    BY <1>2, <1>4, <2>1, <2>2, <2>3
<1>6. CASE DisconnectErase(s)
  <2>1. /\ closing[s] = {"out"} /\ k' = Erased(k, event[s], "out")
        /\ event' = [event EXCEPT ![s] = -1] /\ closing' = [closing EXCEPT ![s] = {}]
        /\ past'.robbed = past.robbed \cup HitByErase(k, event[s], {"out"}, s)
    BY <1>2, <1>6 DEF DisconnectErase, Reset, PastType
  <2>2. closing[s] \ {"out"} = {} /\ "out" \in Dirs /\ closing[s] \subseteq Dirs
    BY <2>1, Types
  <2> QED
    BY <1>4, <2>1, <2>2
<1> QED
  BY <1>3, <1>5, <1>6

(* A number is given out to o, which registers it for input or not.        *)
LEMMA GivenKept ==
  ASSUME TypeOK, Known, Ownership, Regular, Files,
         NEW n \in Numbers, k.opened[n] = "free", ~Reuses(n), NEW o \in Owners,
         \A m \in Numbers : k'.opened[m] = IF m = n THEN o ELSE k.opened[m],
         \A m \in Numbers, d \in Dirs : m # n => k'.entry[m][d] = k.entry[m][d],
         k'.entry[n]["in"] \in {"none", o}, k'.entry[n]["out"] = "none", Watched(k'),
         UNCHANGED <<event, handler, closing>>, past'.odd = past.odd
  PROVE  EntriesOwned' /\ Watched(k') /\ Handling'
<1>1. EntriesOwned'
  <2>1. \A d \in Dirs : k'.entry[n][d] \in {"none", o}
    BY DEF Dirs
  <2> QED
    BY <2>1, EntriesGiven
<1>2. Handling'
  <2> SUFFICES ASSUME NEW t \in Sockets, NEW d \in Dirs,
                      event[t] # -1, closing[t] = {}, t \notin past.odd
      PROVE  k'.entry[event[t]][d] # "none" <=> handler[t][d]
    BY DEF Handling
  <2>1. event[t] \in Numbers /\ event[t] # n
    BY OwnNumber, FreeClean
  <2>2. k'.entry[event[t]][d] = k.entry[event[t]][d]
    BY <2>1
  <2> QED
    BY <2>1, <2>2 DEF Files, Handling
<1> QED
  BY <1>1, <1>2

(* A number that is free, or not of a socket, is erased and closed.        *)
LEMMA ReleasedKept ==
  ASSUME TypeOK, Known, Ownership, Regular, Files,
         NEW n \in Numbers \cup {-1}, n # -1 => k.opened[n] \in {"free", "server", "other"},
         k' = Closed(Erased(k, n, "in"), n),
         UNCHANGED <<event, handler, closing>>, past'.odd = past.odd
  PROVE  EntriesOwned' /\ Watched(k') /\ Handling'
<1>1. /\ \A m \in Numbers : k'.opened[m] = IF m = n THEN "free" ELSE k.opened[m]
      /\ \A m \in Numbers, d \in Dirs :
           k'.entry[m][d] = IF m = n /\ d = "in" THEN "none" ELSE k.entry[m][d]
      /\ Watched(k')
  <2>1. /\ \A m \in Numbers : Closed(Erased(k, n, "in"), n).opened[m]
                                = IF m = n THEN "free" ELSE k.opened[m]
        /\ \A m \in Numbers, d \in Dirs :
             Closed(Erased(k, n, "in"), n).entry[m][d]
               = IF m = n /\ d = "in" THEN "none" ELSE k.entry[m][d]
        /\ Watched(k) => Watched(Closed(Erased(k, n, "in"), n))
    BY ErasedClosed
  <2> QED
    BY <2>1 DEF Files
<1>2. /\ \A s \in Sockets : s # "free" /\ s # "server" /\ s # "other" /\ s # "none"
      /\ \A s \in Sockets : event[s] \in Numbers \cup {-1}
      /\ "out" \in Dirs /\ "in" \in Dirs
  BY Types
<1>3. EntriesOwned'
  <2>1. ASSUME NEW m \in Numbers, NEW d \in Dirs
        PROVE  \/ k'.entry[m][d] \in {"none", k'.opened[m]}
               \/ \E s \in Sockets : d \in closing'[s] /\ event'[s] = m /\ k'.entry[m][d] = s
    <3>1. CASE m # n
      BY <1>1, <3>1 DEF Files, EntriesOwned
    <3>2. CASE m = n /\ d = "in"
      BY <1>1, <3>2
    <3>3. CASE m = n /\ d # "in"
      <4>1. k'.entry[m][d] = k.entry[m]["out"] /\ d = "out"
        BY <1>1, <1>2, <3>3 DEF Dirs
      <4>2. \/ k.entry[m]["out"] \in {"none", k.opened[m]}
            \/ \E s \in Sockets : "out" \in closing[s] /\ event[s] = m /\ k.entry[m]["out"] = s
        BY <1>2 DEF Files, EntriesOwned
      <4>3. k.entry[m]["out"] \in Sockets \cup {"none"} /\ k.opened[m] \notin Sockets
        BY <1>2, <3>3, NumbersAre DEF Files, EntriesOwned
      <4> QED
        BY <4>1, <4>2, <4>3
    <3> QED
      BY <3>1, <3>2, <3>3
  <2>2. \A m \in Numbers : k'.entry[m]["out"] \in Sockets \cup {"none"}
    BY <1>1, <1>2 DEF Files, EntriesOwned
  <2>3. ASSUME NEW s \in Sockets, closing[s] # {} PROVE k'.opened[event[s]] = "free"
    <3>1. event[s] \in Numbers /\ k.opened[event[s]] = "free"
      BY <1>2, <2>3 DEF Known, Files, EntriesOwned
    <3> QED
      BY <1>1, <3>1
  <2> QED
    BY <2>1, <2>2, <2>3 DEF Files, EntriesOwned
<1>4. Handling'
  <2> SUFFICES ASSUME NEW t \in Sockets, NEW d \in Dirs,
                      event[t] # -1, closing[t] = {}, t \notin past.odd
      PROVE  k'.entry[event[t]][d] # "none" <=> handler[t][d]
    BY DEF Handling
  <2>1. event[t] \in Numbers /\ k.opened[event[t]] = t
    BY OwnNumber
  <2>2. event[t] # n
    BY <1>2, <2>1, NumbersAre
  <2>3. k'.entry[event[t]][d] = k.entry[event[t]][d]
    BY <1>1, <2>1, <2>2
  <2> QED
    BY <2>1, <2>3 DEF Files, Handling
<1> QED
  BY <1>1, <1>3, <1>4

(* The callback of accept has dropped the socket: no entry of a free       *)
(* number is left.                                                         *)
LEMMA DroppedKept ==
  ASSUME TypeOK, Known, Ownership, Regular, Files,
         NEW n \in Numbers, k.opened[n] = "free",
         k' = Erased(Erased(k, n, "in"), n, "out"),
         UNCHANGED <<event, handler, closing, listening, ready>>,
         past'.odd = past.odd, past'.stopped = past.stopped
  PROVE  Files'
<1>1. /\ k'.opened = k.opened /\ Watched(k')
      /\ \A m \in Numbers, d \in Dirs :
           k'.entry[m][d] = IF m = n THEN "none" ELSE k.entry[m][d]
  <2>1. n \in Numbers \cup {-1} /\ Watched(k)
    BY DEF Files
  <2>2. /\ Erased(Erased(k, n, "in"), n, "out").opened = k.opened
        /\ Watched(k) => Watched(Erased(Erased(k, n, "in"), n, "out"))
        /\ \A m \in Numbers, d \in Dirs :
             Erased(Erased(k, n, "in"), n, "out").entry[m][d]
               = IF m = n THEN "none" ELSE k.entry[m][d]
    BY <2>1, ErasedBoth
  <2> QED
    BY <2>1, <2>2
<1>2. EntriesOwned'
  <2>1. ASSUME NEW m \in Numbers, NEW d \in Dirs
        PROVE  \/ k'.entry[m][d] \in {"none", k'.opened[m]}
               \/ \E t \in Sockets : d \in closing'[t] /\ event'[t] = m /\ k'.entry[m][d] = t
    BY <1>1 DEF Files, EntriesOwned
  <2>2. \A m \in Numbers : k'.entry[m]["out"] \in Sockets \cup {"none"}
    BY <1>1, Types DEF Files, EntriesOwned
  <2> QED
    BY <1>1, <2>1, <2>2 DEF Files, EntriesOwned
<1>3. Handling'
  <2> SUFFICES ASSUME NEW t \in Sockets, NEW d \in Dirs,
                      event[t] # -1, closing[t] = {}, t \notin past.odd
      PROVE  k'.entry[event[t]][d] # "none" <=> handler[t][d]
    BY DEF Handling
  <2>1. event[t] \in Numbers /\ event[t] # n
    BY OwnNumber, FreeClean
  <2> QED
    BY <1>1, <2>1 DEF Files, Handling
<1>4. Listening'
  <2>1. "in" \in Dirs
    BY Types
  <2> QED
    BY <1>1, <2>1, ListeningKept DEF Files
<1> QED
  BY <1>1, <1>2, <1>3, <1>4 DEF Files

LEMMA ServerKept ==
  ASSUME TypeOK, Known, Ownership, Regular, Files, ServerCall
  PROVE  (past'.robbed = {} \/ (stop /\ past'.stoppedAgain)) /\ (Regular' => Files')
<1> DEFINE n == Lowest
<1> HIDE DEF n
<1>1. n = Lowest
  BY DEF n
<1>2. /\ past \in PastType /\ past.robbed = {} /\ Watched(k) /\ "in" \in Dirs
      /\ listening \in Numbers \cup {-1} /\ "server" \in Owners /\ "out" \in Dirs
      /\ \A s \in Sockets : s # "free" /\ s # "server"
      /\ -1 \notin Numbers
  BY Types, NumbersAre DEF Regular, Files
<1>3. UNCHANGED <<event, handler, closing>>
  BY DEF ServerCall, StartNoSocket, StartFails, start, stop, socket
<1>4. CASE StartNoSocket
  <2>1. /\ k' = k /\ listening' = -1 /\ ~ready' /\ past' = Restarted(-1)
    BY <1>4 DEF StartNoSocket
  <2>2. past'.robbed = {} /\ past'.odd = past.odd
    BY <1>2, <2>1 DEF Restarted, PastType
  <2>3. EntriesOwned' /\ Watched(k') /\ Handling'
    BY <1>3, <2>1, <2>2 DEF Files, EntriesOwned, Handling
  <2>4. Listening'
    BY <2>1 DEF Listening
  <2> QED
    BY <2>2, <2>3, <2>4 DEF Files
<1>5. CASE StartFails \/ \E cb \in BOOLEAN, c \in 0..MaxBacklog : start(cb, c)
  <2>1. /\ Free(k) # {} /\ listening' = n /\ past' = Restarted(n)
        /\ \/ k' = Opened(k, n, "server") /\ ~ready'
           \/ k' = Added(Opened(k, n, "server"), n, "in", "server")
    BY <1>1, <1>5 DEF StartFails, start
  <2>2. /\ past'.robbed = {} /\ past'.odd = past.odd
        /\ past'.reused = (past.reused \/ Reuses(n))
    BY <1>2, <2>1 DEF Restarted, PastType
  <2>3. SUFFICES ASSUME ~Reuses(n) PROVE Files'
    BY <2>2 DEF Regular
  <2>4. n \in Numbers /\ k.opened[n] = "free"
    BY <1>1, <2>1, LowestFree
  <2>5. /\ \A d \in Dirs : k.entry[n][d] = "none"
        /\ n # -1
    BY <2>3, <2>4, FreeClean
  <2>6. CASE k' = Opened(k, n, "server") /\ ~ready'
    <3>1. /\ \A m \in Numbers : k'.opened[m] = IF m = n THEN "server" ELSE k.opened[m]
          /\ k'.entry = k.entry
          /\ Watched(k')
      <4>1. /\ \A m \in Numbers : Opened(k, n, "server").opened[m]
                                    = IF m = n THEN "server" ELSE k.opened[m]
            /\ Opened(k, n, "server").entry = k.entry
            /\ Watched(Opened(k, n, "server"))
        BY <1>1, <1>2, <2>1, <2>5, OpenedOnly
      <4> QED
        BY <2>6, <4>1
    <3>2. EntriesOwned' /\ Watched(k') /\ Handling'
      BY <1>2, <1>3, <2>2, <2>3, <2>4, <2>5, <3>1, GivenKept
    <3>3. Listening'
      BY <2>1, <2>4, <2>6, <3>1 DEF Listening
    <3> QED
      BY <3>2, <3>3 DEF Files
  <2>7. CASE k' = Added(Opened(k, n, "server"), n, "in", "server")
    <3>1. /\ \A m \in Numbers : k'.opened[m] = IF m = n THEN "server" ELSE k.opened[m]
          /\ \A m \in Numbers, d \in Dirs :
               k'.entry[m][d] = IF m = n /\ d = "in" THEN "server" ELSE k.entry[m][d]
          /\ Watched(k')
      <4> DEFINE g == Added(Opened(k, n, "server"), n, "in", "server")
      <4>1. /\ \A m \in Numbers : g.opened[m] = IF m = n THEN "server" ELSE k.opened[m]
            /\ \A m \in Numbers, d \in Dirs :
                 g.entry[m][d] = IF m = n /\ d = "in" THEN "server" ELSE k.entry[m][d]
            /\ Watched(g)
        BY <1>1, <1>2, <2>1, <2>5, OpenedAdded
      <4> HIDE DEF g
      <4>2. k' = g
        BY <2>7 DEF g
      <4> QED
        BY <4>1, <4>2
    <3>2. /\ \A m \in Numbers, d \in Dirs : m # n => k'.entry[m][d] = k.entry[m][d]
          /\ k'.entry[n]["in"] = "server" /\ k'.entry[n]["out"] = "none"
      BY <1>2, <2>4, <2>5, <3>1
    <3>3. EntriesOwned' /\ Watched(k') /\ Handling'
      BY <1>2, <1>3, <2>2, <2>3, <2>4, <3>1, <3>2, GivenKept
    <3>4. Listening'
      BY <2>1, <2>4, <2>5, <3>1, <3>2 DEF Listening
    <3> QED
      BY <3>3, <3>4 DEF Files
  <2> QED
    BY <2>1, <2>6, <2>7
<1>6. CASE stop
  <2>1. /\ k' = Closed(Erased(k, listening, "in"), listening)
        /\ ~ready' /\ past'.stopped /\ past'.odd = past.odd
        /\ past'.robbed = past.robbed \cup HitByErase(k, listening, {"in"}, "server")
                                      \cup HitByClose(k, listening, "server")
        /\ past.stopped => past'.stoppedAgain
    BY <1>2, <1>6 DEF stop, PastType
  <2>2. ASSUME ~past.stopped PROVE past'.robbed = {}
    <3>1. CASE listening = -1
      BY <1>2, <2>1, <3>1 DEF HitByErase, HitByClose
    <3>2. CASE listening # -1
      <4>1. k.opened[listening] = "server" /\ listening \in Numbers
        BY <1>2, <2>2, <3>2 DEF Files, Listening
      <4>2. k.entry[listening]["in"] \in {"none", "server"}
        BY <1>2, <4>1 DEF Files, EntriesOwned
      <4> QED
        BY <1>2, <2>1, <4>1, <4>2 DEF HitByErase, HitByClose
    <3> QED
      BY <3>1, <3>2
  <2>3. ASSUME past'.robbed = {} PROVE Files'
    <3>1. listening # -1 => k.opened[listening] \in {"free", "server"}
      BY <2>1, <2>3 DEF HitByClose
    <3>2. EntriesOwned' /\ Watched(k') /\ Handling'
      BY <1>2, <1>3, <2>1, <3>1, ReleasedKept
    <3>3. Listening'
      BY <2>1 DEF Listening
    <3> QED
      BY <3>2, <3>3 DEF Files
  <2> QED
    BY <1>6, <2>1, <2>2, <2>3 DEF Regular
<1> QED
  BY <1>4, <1>5, <1>6 DEF ServerCall

LEMMA ProcessKept ==
  ASSUME TypeOK, Known, Ownership, Regular, Files, ProcessStep
  PROVE  past'.robbed = {} /\ (Regular' => Files')
<1> DEFINE n == Lowest
<1> HIDE DEF n
<1>1. n = Lowest
  BY DEF n
<1>2. /\ past \in PastType /\ past.robbed = {} /\ Watched(k) /\ "in" \in Dirs /\ "out" \in Dirs
      /\ "worker" \in Owners /\ "worker" \in Sockets /\ "worker" # "server"
      /\ -1 \notin Numbers /\ handler \in [Sockets -> [Dirs -> BOOLEAN]]
      /\ event \in [Sockets -> Numbers \cup {-1}]
  BY Types, NumbersAre DEF Regular, Files, Sockets
<1>3. /\ past'.robbed = {} /\ past'.stopped = past.stopped
      /\ UNCHANGED <<closing, listening, ready>>
  BY <1>2 DEF ProcessStep, Accept, AcceptNone, AcceptFails, AcceptThrows, socket, PastType
<1>4. CASE AcceptNone \/ AcceptFails
  <2>1. UNCHANGED <<k, event, handler>> /\ past'.odd = past.odd
    BY <1>2, <1>4 DEF AcceptNone, AcceptFails, socket, PastType
  <2>2. Files'
    BY <1>3, <2>1 DEF Files, EntriesOwned, Handling, Listening
  <2> QED
    BY <1>3, <2>2
<1>5. CASE Accept(FALSE) \/ (AcceptThrows /\ k' = Erased(Erased(k, n, "in"), n, "out"))
  <2>1. /\ Free(k) # {} /\ k' = Erased(Erased(k, n, "in"), n, "out")
        /\ UNCHANGED <<event, handler>> /\ past'.odd = past.odd
    BY <1>1, <1>2, <1>5 DEF Accept, AcceptThrows, socket, PastType
  <2>2. n \in Numbers /\ k.opened[n] = "free"
    BY <1>1, <2>1, LowestFree
  <2>3. Files'
    BY <1>3, <2>1, <2>2, DroppedKept
  <2> QED
    BY <1>3, <2>3
<1>6. CASE Accept(TRUE) \/ (AcceptThrows /\ k' = Opened(k, n, "worker"))
  <2>1. Free(k) # {} /\ k' = Opened(k, n, "worker")
    BY <1>1, <1>6 DEF Accept, AcceptThrows
  <2>2. n \in Numbers /\ k.opened[n] = "free"
    BY <1>1, <2>1, LowestFree
  <2>3. \/ past'.reused = (past.reused \/ Reuses(n))
        \/ k' = Erased(Erased(k, n, "in"), n, "out")
    BY <1>1, <1>2, <1>6 DEF Accept, AcceptThrows, PastType
  <2>4. /\ \A m \in Numbers : k'.opened[m] = IF m = n THEN "worker" ELSE k.opened[m]
        /\ k'.entry = k.entry
        /\ (\A d \in Dirs : k.entry[n][d] = "none") => Watched(k')
    <3> DEFINE g == Opened(k, n, "worker")
    <3>1. /\ \A m \in Numbers : g.opened[m] = IF m = n THEN "worker" ELSE k.opened[m]
          /\ g.entry = k.entry
          /\ (\A d \in Dirs : k.entry[n][d] = "none") => Watched(g)
      BY <1>1, <1>2, <2>1, OpenedOnly
    <3> HIDE DEF g
    <3>2. k' = g
      BY <2>1 DEF g
    <3> QED
      BY <3>1, <3>2
  <2>5. k' # Erased(Erased(k, n, "in"), n, "out")
    <3>1. k'.opened[n] # k.opened[n]
      BY <2>2, <2>4
    <3>2. Erased(Erased(k, n, "in"), n, "out").opened = k.opened
      BY <2>2, ErasedBoth
    <3> QED
      BY <3>1, <3>2
  <2>6. SUFFICES ASSUME ~Reuses(n) PROVE Files'
    BY <1>3, <2>3, <2>5 DEF Regular
  <2>7. /\ \A d \in Dirs : k.entry[n][d] = "none"
        /\ \A t \in Sockets : event[t] # n
        /\ n # -1
    BY <2>2, <2>6, FreeClean DEF Reuses
  <2>8. Listening'
    <3>1. \A m \in Numbers : k.opened[m] = "server" => k'.opened[m] = "server"
      BY <2>2, <2>4
    <3> QED
      BY <1>3, <2>4, <3>1, ListeningKept DEF Files
  <2>9. CASE AcceptThrows
    <3>1. UNCHANGED <<event, handler>> /\ past'.odd = past.odd
      BY <1>2, <2>9 DEF AcceptThrows, socket, PastType
    <3>2. EntriesOwned' /\ Watched(k') /\ Handling'
      BY <1>2, <1>3, <2>2, <2>4, <2>6, <2>7, <3>1, GivenKept
    <3> QED
      BY <2>8, <3>2 DEF Files
  <2>10. CASE Accept(TRUE)
    <3>1. /\ event["worker"] = -1 /\ event' = [event EXCEPT !["worker"] = n]
          /\ handler' = [handler EXCEPT !["worker"] = [d \in Dirs |-> FALSE]]
          /\ past'.odd = past.odd \ {"worker"}
      BY <1>1, <1>2, <2>10 DEF Accept, PastType
    <3>2. closing["worker"] = {}
      BY <1>2, <3>1 DEF Known
    <3>3. /\ event'["worker"] = n
          /\ \A t \in Sockets : t # "worker" => event'[t] = event[t] /\ handler'[t] = handler[t]
          /\ \A d \in Dirs : ~handler'["worker"][d]
      BY <1>2, <3>1
    <3>4. EntriesOwned'
      <4>1. \A s \in Sockets : closing[s] # {} => event'[s] = event[s]
        BY <3>2, <3>3
      <4> QED
        BY <1>2, <1>3, <2>2, <2>4, <2>6, <2>7, <4>1, EntriesGiven
    <3>5. Handling'
      <4> SUFFICES ASSUME NEW t \in Sockets, NEW d \in Dirs,
                          event'[t] # -1, closing[t] = {}, t \notin past'.odd
          PROVE  k.entry[event'[t]][d] # "none" <=> handler'[t][d]
        BY <1>3, <2>4 DEF Handling
      <4>1. CASE t = "worker"
        BY <2>7, <3>3, <4>1
      <4>2. CASE t # "worker"
        BY <3>1, <3>3, <4>2 DEF Files, Handling
      <4> QED
        BY <4>1, <4>2
    <3> QED
      BY <2>4, <2>7, <2>8, <3>4, <3>5 DEF Files
  <2> QED
    BY <1>6, <2>9, <2>10
<1>7. AcceptThrows => \/ k' = Erased(Erased(k, n, "in"), n, "out")
                      \/ k' = Opened(k, n, "worker")
  BY <1>1 DEF AcceptThrows
<1>8. Accept(TRUE) \/ Accept(FALSE) \/ AcceptNone \/ AcceptFails \/ AcceptThrows
  <2>1. \A keep \in BOOLEAN : Accept(keep) => Accept(TRUE) \/ Accept(FALSE)
    OBVIOUS
  <2> QED
    BY <2>1 DEF ProcessStep
<1>9. CASE AcceptThrows
  BY <1>5, <1>6, <1>7, <1>9
<1> QED
  BY <1>4, <1>5, <1>6, <1>8, <1>9

LEMMA OtherKept ==
  ASSUME TypeOK, Known, Ownership, Regular, Files,
         Dispatch \/ Arrive \/ OtherOpens \/ OtherCloses
  PROVE  past'.robbed = {} /\ (Regular' => Files')
<1> DEFINE n == Lowest
<1> HIDE DEF n
<1>1. n = Lowest
  BY DEF n
<1>2. /\ past \in PastType /\ past.robbed = {} /\ Watched(k) /\ "in" \in Dirs /\ "out" \in Dirs
      /\ "other" \in Owners /\ "other" # "server" /\ held \in Numbers \cup {-1}
  BY Types DEF Regular, Files
<1>3. /\ past'.robbed = {} /\ past'.stopped = past.stopped /\ past'.odd = past.odd
      /\ UNCHANGED <<event, handler, closing, listening, ready>>
  BY <1>2 DEF Dispatch, Arrive, OtherOpens, OtherCloses, socket, server, PastType
<1>4. CASE Dispatch \/ Arrive \/ k' = k
  <2>1. k' = k
    BY <1>4 DEF Dispatch, Arrive
  <2>2. Files'
    BY <1>3, <2>1 DEF Files, EntriesOwned, Handling, Listening
  <2> QED
    BY <1>3, <2>2
<1>5. CASE OtherOpens
  <2>1. /\ Free(k) # {} /\ k' = Added(Opened(k, n, "other"), n, "in", "other")
        /\ past'.reused = (past.reused \/ Reuses(n))
    BY <1>1, <1>2, <1>5 DEF OtherOpens, PastType
  <2>2. SUFFICES ASSUME ~Reuses(n) PROVE Files'
    BY <1>3, <2>1 DEF Regular
  <2>3. n \in Numbers /\ k.opened[n] = "free"
    BY <1>1, <2>1, LowestFree
  <2>4. \A d \in Dirs : k.entry[n][d] = "none"
    BY <2>2, <2>3, FreeClean
  <2>5. /\ \A m \in Numbers : k'.opened[m] = IF m = n THEN "other" ELSE k.opened[m]
        /\ \A m \in Numbers, d \in Dirs :
             k'.entry[m][d] = IF m = n /\ d = "in" THEN "other" ELSE k.entry[m][d]
        /\ Watched(k')
    <3> DEFINE g == Added(Opened(k, n, "other"), n, "in", "other")
    <3>1. /\ \A m \in Numbers : g.opened[m] = IF m = n THEN "other" ELSE k.opened[m]
          /\ \A m \in Numbers, d \in Dirs :
               g.entry[m][d] = IF m = n /\ d = "in" THEN "other" ELSE k.entry[m][d]
          /\ Watched(g)
      BY <1>1, <1>2, <2>1, <2>4, OpenedAdded
    <3> HIDE DEF g
    <3>2. k' = g
      BY <2>1 DEF g
    <3> QED
      BY <3>1, <3>2
  <2>6. /\ \A m \in Numbers, d \in Dirs : m # n => k'.entry[m][d] = k.entry[m][d]
        /\ k'.entry[n]["in"] = "other" /\ k'.entry[n]["out"] = "none"
    BY <1>2, <2>3, <2>4, <2>5
  <2>7. EntriesOwned' /\ Watched(k') /\ Handling'
    BY <1>2, <1>3, <2>2, <2>3, <2>5, <2>6, GivenKept
  <2>8. Listening'
    <3>1. \A m \in Numbers : k.opened[m] = "server" => m # n
      BY <2>3
    <3> QED
      BY <1>2, <1>3, <2>5, <3>1, ListeningKept DEF Files
  <2> QED
    BY <2>7, <2>8 DEF Files
<1>6. CASE OtherCloses /\ k' # k
  <2>1. /\ k' = Closed(Erased(k, held, "in"), held)
        /\ k.opened[held] = "other" /\ held \in Numbers
    BY <1>2, <1>6 DEF OtherCloses
  <2>2. EntriesOwned' /\ Watched(k') /\ Handling'
    BY <1>3, <2>1, ReleasedKept
  <2>3. Listening'
    <3>1. /\ \A m \in Numbers : Closed(Erased(k, held, "in"), held).opened[m]
                                  = IF m = held THEN "free" ELSE k.opened[m]
          /\ \A m \in Numbers, d \in Dirs :
               Closed(Erased(k, held, "in"), held).entry[m][d]
                 = IF m = held /\ d = "in" THEN "none" ELSE k.entry[m][d]
      BY <2>1, ErasedClosed
    <3>2. ASSUME NEW m \in Numbers, k.opened[m] = "server"
          PROVE  k'.opened[m] = "server" /\ k'.entry[m]["in"] = k.entry[m]["in"]
      <4>1. m # held
        BY <1>2, <2>1, <3>2
      <4> QED
        BY <1>2, <2>1, <3>1, <3>2, <4>1
    <3> QED
      BY <1>3, <3>2, ListeningKept DEF Files
  <2> QED
    BY <1>3, <2>2, <2>3 DEF Files
<1> QED
  BY <1>4, <1>5, <1>6

-----------------------------------------------------------------------------
(* Nothing is taken away                                                   *)

(* A server that is listening is watched.                                  *)
LEMMA ListeningWatched ==
  ASSUME TypeOK, Files, ready
  PROVE  k.watched[listening] # {} /\ k.entry[listening]["in"] = "server"
<1>1. /\ listening \in Numbers /\ k.opened[listening] = "server"
      /\ k.entry[listening]["in"] = "server"
  BY Types DEF Files, Listening
<1>2. "in" \in {d \in Dirs : k.entry[listening][d] # "none"}
  BY <1>1, Types
<1>3. k.watched[listening] = {d \in Dirs : k.entry[listening][d] # "none"}
  BY <1>1 DEF Files, Watched
<1> QED
  BY <1>1, <1>2, <1>3

(* After start() the same holds of the new state, so process() is called.  *)
LEMMA StartCalls ==
  ASSUME TypeOK', Files', NEW cb, NEW c, start(cb, c)
  PROVE  accepting'
<1>1. ready' /\ listening' = Lowest /\ accepting' = (k'.watched[Lowest] # {})
  BY DEF start
<1>2. /\ k'.opened[listening'] = "server" /\ k'.entry[listening']["in"] = "server"
      /\ listening' # -1
  BY <1>1 DEF Files, Listening
<1>3. listening' \in Numbers
  BY <1>2 DEF TypeOK
<1>4. k'.watched[listening'] = {d \in Dirs : k'.entry[listening'][d] # "none"}
  BY <1>2, <1>3 DEF Files, Watched
<1>5. "in" \in {d \in Dirs : k'.entry[listening'][d] # "none"}
  BY <1>2 DEF Dirs
<1> QED
  BY <1>1, <1>4, <1>5

LEMMA SoonStep ==
  ASSUME TypeOK, TypeOK', Files, Files', Soon, [Next]_vars
  PROVE  Soon'
<1>1. past \in PastType /\ waiting \in Nat
  BY Types
<1>2. CASE SocketCall \/ OtherOpens \/ OtherCloses \/ UNCHANGED vars
  <2>1. UNCHANGED server
    BY <1>2 DEF SocketCall, connect, ConnectNoSocket, setDataCb, clearDataCb, clearOutDataCb,
                DisconnectClose, DisconnectEraseIn, DisconnectErase, OtherOpens, OtherCloses, vars
  <2>2. past'.stalled = past.stalled
    BY <1>1, <1>2 DEF SocketCall, connect, ConnectNoSocket, setDataCb, clearDataCb,
                      clearOutDataCb, DisconnectClose, DisconnectEraseIn, DisconnectErase,
                      OtherOpens, OtherCloses, vars, PastType
  <2> QED
    BY <2>1, <2>2 DEF Soon, server
<1>3. CASE ServerCall
  <2>1. ASSUME NEW cb \in BOOLEAN, NEW c \in 0..MaxBacklog, start(cb, c) PROVE Soon'
    BY <2>1, StartCalls DEF Soon
  <2>2. CASE StartNoSocket \/ StartFails \/ stop
    BY <2>2 DEF StartNoSocket, StartFails, stop, Soon
  <2> QED
    BY <1>3, <2>1, <2>2 DEF ServerCall
<1>4. CASE Dispatch
  BY <1>4 DEF Dispatch, Soon
<1>5. CASE ProcessStep
  <2>1. ASSUME NEW keep \in BOOLEAN, Accept(keep) PROVE Soon'
    BY <2>1 DEF Accept, Again, Soon
  <2>2. CASE AcceptNone
    BY <1>1, <2>2 DEF AcceptNone, Soon
  <2>3. CASE AcceptFails
    BY <1>1, <2>3 DEF AcceptFails, Soon, PastType
  <2>4. CASE AcceptThrows
    BY <1>1, <2>4 DEF AcceptThrows, Soon, PastType
  <2> QED
    BY <1>5, <2>1, <2>2, <2>3, <2>4 DEF ProcessStep
<1>6. CASE Arrive
  <2>1. k.watched[listening] # {}
    BY <1>6, ListeningWatched DEF Arrive
  <2>2. signalled'
    BY <1>6, <2>1 DEF Arrive
  <2> QED
    BY <2>2 DEF Soon
<1> QED
  BY <1>2, <1>3, <1>4, <1>5, <1>6 DEF Next

LEMMA RegularStep ==
  ASSUME TypeOK, Known, Ownership, Regular, Files, [Next]_vars
  PROVE  (past'.robbed = {} \/ (stop /\ past'.stoppedAgain)) /\ (Regular' => Files')
<1>1. "client" \in Sockets /\ Listeners \subseteq Sockets
  BY SocketsAssumption DEF Sockets
<1>2. CASE SocketCall
  <2>1. ASSUME NEW s \in Sockets, connect(s) PROVE past'.robbed = {} /\ (Regular' => Files')
    BY <2>1, ConnectKept
  <2>2. ASSUME NEW s \in Sockets, ConnectNoSocket(s)
        PROVE  past'.robbed = {} /\ (Regular' => Files')
    <3>1. /\ UNCHANGED <<k, handler, closing, listening, ready>> /\ closing[s] = {}
          /\ event' = [event EXCEPT ![s] = -1]
          /\ past'.robbed = past.robbed /\ past'.odd = past.odd /\ past'.stopped = past.stopped
      BY <2>2, Types DEF ConnectNoSocket, Idle, server, PastType
    <3>2. event'[s] = -1 /\ \A t \in Sockets : t # s => event'[t] = event[t]
      BY <3>1, Types
    <3>3. \A t \in Sockets : closing[t] # {} => event'[t] = event[t]
      BY <3>1, <3>2
    <3>4. EntriesOwned' /\ Watched(k')
      BY <3>1, <3>3 DEF Files, EntriesOwned
    <3>5. Handling'
      BY <3>1, <3>2 DEF Files, Handling
    <3>6. Listening'
      BY <3>1 DEF Files, Listening
    <3> QED
      BY <3>1, <3>4, <3>5, <3>6 DEF Files, Regular
  <2>3. ASSUME NEW s \in Listeners,
               \/ \E d \in Dirs, cb \in BOOLEAN : setDataCb(s, d, cb)
               \/ clearDataCb(s) \/ clearOutDataCb(s)
        PROVE  past'.robbed = {} /\ (Regular' => Files')
    BY <1>1, <2>3, CallbacksKept
  <2>4. ASSUME NEW s \in Sockets, DisconnectClose(s) \/ DisconnectEraseIn(s) \/ DisconnectErase(s)
        PROVE  past'.robbed = {} /\ (Regular' => Files')
    BY <2>4, DisconnectKept
  <2> QED
    BY <1>1, <1>2, <2>1, <2>2, <2>3, <2>4 DEF SocketCall
<1>3. CASE UNCHANGED vars
  BY <1>3 DEF vars, socket, server, Regular, Files, EntriesOwned, Handling, Listening
<1> QED
  BY <1>2, <1>3, ServerKept, ProcessKept, OtherKept DEF Next

(* The inductive invariant.                                                *)
RegularInv == NobodyRobbed /\ (Regular => Files /\ Soon)

LEMMA RegularInit == Init => TypeOK /\ Known /\ Ownership /\ RegularInv
<1> SUFFICES ASSUME Init PROVE TypeOK /\ Known /\ Ownership /\ RegularInv
  OBVIOUS
<1>1. TypeOK
  BY InitTyped
<1>2. Known /\ Ownership
  BY <1>1, Types DEF Init, NoFiles, Known, Ownership
<1>3. NobodyRobbed /\ Soon
  BY DEF Init, NoPast, NobodyRobbed, Soon
<1>4. EntriesOwned
  BY <1>1, Types DEF Init, NoFiles, EntriesOwned
<1>5. Watched(k)
  BY DEF Init, NoFiles, Watched
<1>6. Handling /\ Listening
  BY DEF Init, Handling, Listening
<1> QED
  BY <1>1, <1>2, <1>3, <1>4, <1>5, <1>6 DEF RegularInv, Files

LEMMA RegularInvStep ==
  ASSUME TypeOK, Known, Ownership, RegularInv, [Next]_vars
  PROVE  TypeOK' /\ Known' /\ Ownership' /\ RegularInv'
<1>1. TypeOK' /\ Known' /\ Ownership'
  BY TypeStep, OwnStep
<1>2. /\ past.robbed \subseteq past'.robbed
      /\ past.reused => past'.reused
      /\ past.stoppedAgain => past'.stoppedAgain
  BY PastTyped
<1>3. NobodyRobbed'
  <2>1. CASE Regular
    BY <2>1, RegularStep DEF RegularInv, NobodyRobbed
  <2>2. CASE ~Regular
    BY <1>2, <2>2 DEF Regular, RegularInv, NobodyRobbed
  <2> QED
    BY <2>1, <2>2
<1>4. ASSUME Regular' PROVE Files' /\ Soon'
  <2>1. Regular
    BY <1>2, <1>4 DEF Regular
  <2>2. Files /\ Soon /\ Files'
    BY <1>4, <2>1, RegularStep DEF RegularInv
  <2> QED
    BY <1>1, <2>2, SoonStep
<1> QED
  BY <1>1, <1>3, <1>4 DEF RegularInv

(* Nothing is taken away that was not given up, and until something is,    *)
(* entries, descriptors and callbacks agree: what the following theorems   *)
(* rest on.                                                                *)
LEMMA RegularAlways == Spec => [](TypeOK /\ Known /\ Ownership /\ RegularInv)
<1>1. TypeOK /\ Known /\ Ownership /\ RegularInv /\ [Next]_vars
        => (TypeOK /\ Known /\ Ownership /\ RegularInv)'
  BY RegularInvStep
<1> QED
  BY <1>1, RegularInit, PTL DEF Spec

(* No object closes or erases what is not its own, unless stop() is called *)
(* again or a number is given out in the middle of disconnect().           *)
THEOREM NobodyRobbedAlways == Spec => []NobodyRobbed
<1>1. RegularInv => NobodyRobbed
  BY DEF RegularInv
<1> QED
  BY <1>1, RegularAlways, PTL

(* A connection that waits has its call of process() to come.              *)
THEOREM AcceptDueAlways == Spec => []AcceptDue
<1>1. TypeOK /\ Known /\ Ownership /\ RegularInv => AcceptDue
  <2> SUFFICES ASSUME TypeOK, RegularInv, Regular, ready, waiting > 0, ~past.stalled, ~accepting
      PROVE  signalled /\ k.watched[listening] # {} /\ k.entry[listening]["in"] = "server"
    BY DEF AcceptDue, Regular
  <2> QED
    BY ListeningWatched DEF RegularInv, Soon
<1> QED
  BY <1>1, RegularAlways, PTL


-----------------------------------------------------------------------------
(* What is watched                                                         *)

(* Like the run, nothing is said of what follows once something was taken  *)
(* away; the state that this leads to is still looked at.                  *)
SpecUntilRobbed == Init /\ [][Next /\ past.robbed = {}]_vars

(* A socket whose descriptor is its own is watched for its callbacks.      *)
LEMMA WatchedFor ==
  ASSUME TypeOK, Ownership, Regular, Files,
         NEW s \in Sockets, event[s] # -1, closing[s] = {}, s \notin past.odd
  PROVE  k.watched[event[s]] = {d \in Dirs : handler[s][d]}
<1>1. event[s] \in Numbers /\ k.opened[event[s]] = s /\ s # "free"
  BY OwnNumber
<1>2. k.watched[event[s]] = {d \in Dirs : k.entry[event[s]][d] # "none"}
  BY <1>1 DEF Files, Watched
<1>3. \A d \in Dirs : k.entry[event[s]][d] # "none" <=> handler[s][d]
  BY DEF Files, Handling
<1> QED
  BY <1>2, <1>3

LEMMA WatchedAll == TypeOK /\ Ownership /\ Regular /\ Files => CallbacksWatched
BY WatchedFor DEF CallbacksWatched

(* stop() is called again and closes a number that is not its own: whoever *)
(* has lost nothing is watched as before.                                  *)
LEMMA StopWatches ==
  ASSUME TypeOK, Ownership, Regular, Files, stop
  PROVE  CallbacksWatched'
<1>1. /\ k' = Closed(Erased(k, listening, "in"), listening)
      /\ UNCHANGED <<event, handler, closing>> /\ past'.odd = past.odd
      /\ HitByClose(k, listening, "server") \subseteq past'.robbed
  BY Types DEF stop, socket, PastType
<1>2. SUFFICES ASSUME NEW s \in Sockets, event[s] # -1, closing[s] = {}, s \notin past.odd,
                      s \notin past'.robbed
      PROVE  k'.watched[event[s]] = {d \in Dirs : handler[s][d]}
  BY <1>1 DEF CallbacksWatched
<1>3. event[s] \in Numbers /\ k.opened[event[s]] = s /\ s # "free" /\ s # "server"
  BY <1>2, OwnNumber
<1>4. event[s] # listening
  BY <1>1, <1>2, <1>3 DEF HitByClose
<1>5. k'.watched[event[s]] = k.watched[event[s]]
  <2>1. k \in FilesType /\ listening \in Numbers \cup {-1}
    BY Types
  <2> DEFINE f == Erased(k, listening, "in")
  <2>2. f \in FilesType /\ f.watched[event[s]] = k.watched[event[s]]
    <3>1. f \in FilesType
      BY <2>1, ErasedIs, Types
    <3>2. f.watched[event[s]] = k.watched[event[s]]
      BY <1>3, <1>4, <2>1 DEF Erased, FilesType
    <3> QED
      BY <3>1, <3>2
  <2> HIDE DEF f
  <2>3. Closed(f, listening).watched[event[s]] = f.watched[event[s]]
    BY <1>3, <1>4, <2>1, <2>2, ClosedIs
  <2> QED
    BY <1>1, <2>2, <2>3 DEF f
<1> QED
  BY <1>2, <1>5, WatchedFor

LEMMA WatchesStep ==
  ASSUME TypeOK, Known, Ownership, RegularInv, [Next /\ past.robbed = {}]_vars, CallbacksWatched
  PROVE  CallbacksWatched'
<1>1. CASE UNCHANGED vars
  BY <1>1 DEF CallbacksWatched, vars, socket
<1>2. CASE Next /\ past.robbed = {}
  <2>1. TypeOK' /\ Ownership' /\ RegularInv' /\ (past.reused => past'.reused)
    BY <1>2, RegularInvStep, PastTyped
  <2>2. CASE past'.reused
    BY <2>2 DEF CallbacksWatched
  <2>3. CASE Regular'
    <3>1. Files'
      BY <2>1, <2>3 DEF RegularInv
    <3> QED
      BY <2>1, <2>3, <3>1, WatchedAll, PTL
  <2>4. CASE ~past'.reused /\ ~Regular'
    <3>1. Regular /\ Files /\ past'.robbed # {}
      BY <1>2, <2>1, <2>4 DEF Regular, RegularInv
    <3>2. stop
      BY <1>2, <3>1, RegularStep
    <3> QED
      BY <3>1, <3>2, StopWatches
  <2> QED
    BY <2>2, <2>3, <2>4
<1> QED
  BY <1>1, <1>2

(* A connected socket is watched for exactly the callbacks that are set,   *)
(* before or after connect(), but for the cases that the property names.   *)
THEOREM CallbacksWatchedAlways == SpecUntilRobbed => []CallbacksWatched
<1> DEFINE All == TypeOK /\ Known /\ Ownership /\ RegularInv /\ CallbacksWatched
<1>1. Init => All
  <2>1. Init => CallbacksWatched
    BY DEF Init, CallbacksWatched
  <2> QED
    BY <2>1, RegularInit
<1>2. All /\ [Next /\ past.robbed = {}]_vars => All'
  <2>1. [Next /\ past.robbed = {}]_vars => [Next]_vars
    OBVIOUS
  <2> QED
    BY <2>1, RegularInvStep, WatchesStep
<1> QED
  BY <1>1, <1>2, PTL DEF SpecUntilRobbed
=============================================================================
