---------------------------- MODULE TimerProofs -----------------------------
(***************************************************************************)
(* Proofs about Timer, for any number of calls of set().                   *)
(***************************************************************************)
EXTENDS Timer, TLAPS

(* The steps of thread t inside set() and cancel().                        *)
ThreadStep(t) == SetCall(t) \/ CancelSwap(t) \/ CancelNested(t) \/ InCall(t)

(* An expiry belongs to a call of set().                                   *)
OwnerOK ==
  /\ armed # "off" \/ expired => owner \in Calls
  /\ pc = "fire" => tickOf \in Calls

LEMMA CallsNumbers == Calls \subseteq Nat \ {0} /\ \A g \in Calls : g <= MaxSets
BY TimerAssumption DEF Calls

LEMMA TypeInit == Init => TypeOK /\ OwnerOK
<1> SUFFICES ASSUME Init PROVE TypeOK /\ OwnerOK
  OBVIOUS
<1>1. 0 \in 0..MaxSets /\ nop \in Handlers
  BY TimerAssumption DEF Handlers
<1>2. /\ expired \in BOOLEAN /\ ready \in BOOLEAN /\ shared \in BOOLEAN
      /\ calledOff \in BOOLEAN /\ silenced \in BOOLEAN
  BY DEF Init
<1> QED
  BY <1>1, <1>2 DEF Init, TypeOK, OwnerOK

LEMMA TypeThread ==
  ASSUME TypeOK, NEW t \in Threads, ThreadStep(t)
  PROVE  TypeOK'
<1>1. CASE SetCall(t)
  <2>1. PICK m \in {"once", "cyclic"}, isEmpty \in BOOLEAN : SetHandler(t, m, isEmpty)
    BY <1>1 DEF SetCall
  <2>2. given + 1 \in Calls /\ given + 1 \in 0..MaxSets
    BY <2>1, TimerAssumption DEF SetHandler, TypeOK, Calls
  <2>3. handler' \in Handlers
    BY <2>1, <2>2 DEF SetHandler, Handlers
  <2>4. impaired' \in SUBSET Calls /\ real' \in SUBSET Calls
    BY <2>1, <2>2 DEF SetHandler, Impaired, TypeOK
  <2>5. mode' \in [Calls -> {"once", "cyclic"}] /\ setting' \in [Threads -> 0..MaxSets]
    BY <2>1, <2>2 DEF SetHandler, TypeOK
  <2>6. given' \in 0..MaxSets
    BY <2>1, <2>2 DEF SetHandler
  <2>7. shared' \in BOOLEAN /\ calledOff' \in BOOLEAN /\ silenced' \in BOOLEAN
    BY <2>1 DEF SetHandler, TypeOK
  <2> QED
    BY <2>1, <2>3, <2>4, <2>5, <2>6, <2>7 DEF SetHandler, TypeOK, timerfd, process
<1>2. CASE SetTime(t)
  <2>1. setting[t] \in Calls
    BY <1>2 DEF SetTime, TypeOK, Calls
  <2>2. armed' \in {"once", "cyclic"} /\ owner' \in 0..MaxSets /\ expired' \in BOOLEAN
    BY <1>2, <2>1 DEF SetTime, settime, TypeOK
  <2>3. setting' \in [Threads -> 0..MaxSets]
    BY <1>2, TimerAssumption DEF SetTime, TypeOK
  <2> QED
    BY <1>2, <2>2, <2>3 DEF SetTime, TypeOK, process, history
<1>3. CASE CancelSwap(t)
  BY <1>3 DEF CancelSwap, TypeOK, timerfd, process, Handlers
<1>4. CASE CancelGettime(t)
  <2>1. cancelled' \in SUBSET Calls /\ twice' \in SUBSET Calls
    BY <1>4 DEF CancelGettime, Cancelled, TypeOK
  <2>2. cancelling' \in [Threads -> {"no", "gettime", "callback", "disarm"}]
    BY <1>4 DEF CancelGettime, TypeOK
  <2> QED
    BY <1>4, <2>1, <2>2 DEF CancelGettime, TypeOK, timerfd, process
<1>5. CASE CancelNested(t)
  <2>1. cancelled' \in SUBSET Calls /\ twice' \in SUBSET Calls
    BY <1>5 DEF CancelNested, Cancelled, TypeOK
  <2> QED
    BY <1>5, <2>1 DEF CancelNested, settime, TypeOK, process, calls, Handlers
<1>6. CASE CancelCallbackReturn(t) \/ CancelDisarm(t)
  BY <1>6 DEF CancelCallbackReturn, CancelDisarm, settime, TypeOK, timerfd, process, history,
       Handlers
<1> QED
  BY <1>1, <1>2, <1>3, <1>4, <1>5, <1>6 DEF ThreadStep, InCall

LEMMA TypeLoop ==
  ASSUME TypeOK, OwnerOK, LoopStep \/ Expire \/ UNCHANGED vars
  PROVE  TypeOK'
<1>1. CASE Fire
  BY <1>1 DEF Fire, TypeOK, OwnerOK, timerfd, calls
<1>2. CASE Dispatch \/ Read \/ CallbackReturn \/ Expire \/ UNCHANGED vars
  BY <1>2 DEF Dispatch, Read, CallbackReturn, Expire, TypeOK, vars, timerfd, process, calls,
       history
<1> QED
  BY <1>1, <1>2 DEF LoopStep

LEMMA OwnerStep ==
  ASSUME TypeOK, OwnerOK, [Next]_vars
  PROVE  OwnerOK'
<1>1. ASSUME NEW t \in Threads, SetTime(t) PROVE OwnerOK'
  <2>1. setting[t] \in Calls
    BY <1>1 DEF SetTime, TypeOK, Calls
  <2> QED
    BY <1>1, <2>1 DEF SetTime, OwnerOK, process
<1>2. CASE LoopStep \/ Expire \/ UNCHANGED vars
  BY <1>2 DEF LoopStep, Dispatch, Read, Fire, CallbackReturn, Expire, OwnerOK, vars, timerfd,
       process
<1>3. ASSUME NEW t \in Threads, ThreadStep(t), ~SetTime(t) PROVE OwnerOK'
  BY <1>3 DEF ThreadStep, InCall, SetCall, SetHandler, CancelSwap, CancelNested, CancelGettime,
       CancelCallbackReturn, CancelDisarm, settime, OwnerOK, timerfd, process
<1> QED
  BY <1>1, <1>2, <1>3 DEF Next, ThreadStep

LEMMA TypeStep ==
  ASSUME TypeOK, OwnerOK, [Next]_vars
  PROVE  TypeOK'
BY TypeThread, TypeLoop DEF Next, ThreadStep

(* Every variable keeps its type, and an expiry that process() reads is    *)
(* one of a call of set(), for any number of calls and with two threads.   *)
THEOREM TypeCorrect == Spec => [](TypeOK /\ OwnerOK)
<1>1. TypeOK /\ OwnerOK /\ [Next]_vars => (TypeOK /\ OwnerOK)'
  BY TypeStep, OwnerStep
<1> QED
  BY <1>1, TypeInit, PTL DEF Spec

-----------------------------------------------------------------------------
(* cancel() silences the timer.                                            *)

(* cancel() takes the callback away first, and only set() gives the timer  *)
(* a new one; so the silence begins before cancel() returns.               *)
SilenceInv ==
  /\ calledOff => handler = nop
  /\ silenced => calledOff

LEMMA SilenceStep ==
  ASSUME TypeOK, SilenceInv, [Next]_vars
  PROVE  SilenceInv'
<1>1. ASSUME NEW t \in Threads, ThreadStep(t) PROVE SilenceInv'
  BY <1>1 DEF ThreadStep, InCall, SetCall, SetHandler, SetTime, CancelSwap, CancelNested,
       CancelGettime, CancelCallbackReturn, CancelDisarm, SilenceInv, TypeOK, history
<1>2. CASE LoopStep \/ Expire \/ UNCHANGED vars
  BY <1>2 DEF LoopStep, Dispatch, Read, Fire, CallbackReturn, Expire, SilenceInv, vars, history
<1> QED
  BY <1>1, <1>2 DEF Next, ThreadStep

(* Once cancel() has returned no callback is executed until set() is       *)
(* called again, whatever process() and another thread were doing          *)
(* meanwhile: also if the timer had expired and process() had read it.     *)
THEOREM CancelSilencesAlways == Spec => []CancelSilences
<1>1. Init => SilenceInv
  BY DEF Init, SilenceInv
<1>2. TypeOK /\ SilenceInv /\ [Next]_vars => SilenceInv'
  BY SilenceStep
<1>3. SilenceInv => CancelSilences
  BY CallsNumbers DEF SilenceInv, CancelSilences, nop
<1> QED
  BY <1>1, <1>2, <1>3, TypeCorrect, PTL DEF Spec

-----------------------------------------------------------------------------
(* Calls made in the thread of the event loop only.                        *)

(* Nobody else is in set() or cancel(), and neither is the loop while      *)
(* process() is on its way to the callback.                                *)
SoloInv ==
  /\ setting["app"] = 0 /\ cancelling["app"] = "no"
  /\ pc \in {"read", "fire"} => setting["loop"] = 0 /\ cancelling["loop"] = "no"
  /\ cancelling["loop"] \in {"gettime", "disarm"} => setting["loop"] = 0
  /\ cancelling["loop"] = "gettime" => handler = nop

(* The calls of set() are numbered: only the last one is in progress, and  *)
(* nothing is known of later ones.                                         *)
NumberInv ==
  /\ setting["loop"] \in {0, given}
  /\ handler <= given /\ original["loop"] <= given /\ owner <= given
  /\ \A g \in Calls : g > given => firedBy[g] = {} /\ g \notin cancelled /\ g \notin real

(* Outside of set() a timer that may expire was armed for the callback     *)
(* that is set.                                                            *)
OwnInv ==
  /\ setting["loop"] # 0 /\ handler \in Calls => handler = setting["loop"]
  /\ setting["loop"] = 0 /\ handler \in Calls /\ (armed # "off" \/ expired) => owner = handler
  /\ pc = "fire" /\ handler \in Calls => tickOf = handler
  /\ \A g \in Calls : firedBy[g] \subseteq {g}

(* The kernel disarms a single-shot timer when it expires.                 *)
ModeInv ==
  /\ armed = "once" => ~expired
  /\ armed = "cyclic" => mode[owner] = "cyclic"

(* The callbacks that may still be executed: the one that is set, and the  *)
(* one that cancel() has taken.                                            *)
Live(h) == h = handler \/ (cancelling["loop"] = "gettime" /\ h = original["loop"])

Spent == armed = "off" /\ ~expired

(* A live callback was not cancelled; and if its timer is a single-shot    *)
(* one that has fired, or is just about to, then it cannot expire again.   *)
OnceInv ==
  /\ twice = {}
  /\ \A h \in Calls : Live(h) =>
       /\ h \notin cancelled
       /\ mode[h] = "once" /\ firedBy[h] # {} => Spent /\ setting["loop"] = 0 /\ pc # "fire"
  /\ pc = "fire" /\ handler \in Calls => (mode[handler] = "once" => Spent)

(* A call of set() that is neither impaired nor called off has its signal  *)
(* still to come or behind it.                                             *)
FireInv ==
  given \in real \ impaired /\ ~calledOff =>
    /\ handler = given
    /\ cancelling["loop"] = "no"
    /\ \/ setting["loop"] = given \/ armed # "off" \/ expired \/ pc = "fire"
       \/ firedBy[given] # {}

LoopInv == ~shared => SoloInv /\ NumberInv /\ OwnInv /\ ModeInv /\ OnceInv /\ FireInv

LoopParts == SoloInv /\ NumberInv /\ OwnInv /\ ModeInv /\ OnceInv /\ FireInv

(* Such a step is one of the loop's thread, of the kernel, or none.        *)
LEMMA SoloNext ==
  ASSUME TypeOK, SoloInv, [Next]_vars, ~shared'
  PROVE  \/ \E m \in {"once", "cyclic"}, isEmpty \in BOOLEAN : SetHandler("loop", m, isEmpty)
         \/ SetTime("loop") \/ CancelSwap("loop") \/ CancelGettime("loop")
         \/ CancelNested("loop") \/ CancelCallbackReturn("loop") \/ CancelDisarm("loop")
         \/ Dispatch \/ Read \/ Fire \/ CallbackReturn \/ Expire \/ UNCHANGED vars
<1>1. ASSUME ThreadStep("app") PROVE FALSE
  BY <1>1 DEF ThreadStep, InCall, SetCall, SetHandler, SetTime, CancelSwap, CancelGettime,
       CancelNested, CancelCallbackReturn, CancelDisarm, SoloInv
<1> QED
  BY <1>1 DEF Next, Threads, ThreadStep, InCall, SetCall, LoopStep

LEMMA SetHandlerParts ==
  ASSUME TypeOK, OwnerOK, LoopParts, NEW m \in {"once", "cyclic"}, NEW isEmpty \in BOOLEAN,
         SetHandler("loop", m, isEmpty)
  PROVE  LoopParts'
<1>1. /\ given' = given + 1 /\ given \in Nat /\ given' \in Calls
      /\ setting["loop"] = 0 /\ setting'["loop"] = given' /\ setting'["app"] = setting["app"]
      /\ handler' \in {nop, empty, given'} /\ pc \in {"wait", "callback"}
      /\ cancelling["loop"] \in {"no", "callback"}
      /\ calledOff' = FALSE
  BY TimerAssumption DEF SetHandler, MayCall, TypeOK, Calls, Threads
<1>2. UNCHANGED <<armed, expired, owner, ready, pc, tickOf, cancelling, original, firedBy, twice,
                  cancelled>>
  BY DEF SetHandler, timerfd, process
<1>3. \A g \in Calls : g # given' => mode'[g] = mode[g]
  BY <1>1 DEF SetHandler, TypeOK
<1>4. SoloInv'
  BY <1>1, <1>2 DEF LoopParts, SoloInv
<1>5. NumberInv'
  <2>1. handler' <= given'
    BY <1>1 DEF nop, empty
  <2>2. original["loop"] <= given' /\ owner <= given'
    BY <1>1 DEF LoopParts, NumberInv, TypeOK, Handlers, Calls, nop, empty, Threads
  <2>3. \A g \in Calls : g > given' => firedBy[g] = {} /\ g \notin cancelled /\ g \notin real'
    <3>1. \A g \in Calls : g > given' => g > given /\ g # given'
      BY <1>1 DEF Calls
    <3>2. real' \subseteq real \cup {given'}
      BY <1>1 DEF SetHandler
    <3> QED
      BY <3>1, <3>2 DEF LoopParts, NumberInv
  <2> QED
    BY <1>1, <1>2, <2>1, <2>2, <2>3 DEF NumberInv
<1>6. OwnInv'
  BY <1>1, <1>2, CallsNumbers DEF LoopParts, OwnInv, nop, empty
<1>7. ModeInv'
  <2>1. owner # given'
    BY <1>1 DEF LoopParts, NumberInv, TypeOK
  <2> QED
    BY <1>2, <1>3, <2>1 DEF LoopParts, ModeInv, OwnerOK
<1>8. OnceInv'
  <2>1. firedBy[given'] = {} /\ given' \notin cancelled
    BY <1>1 DEF LoopParts, NumberInv
  <2>2. \A h \in Calls : Live(h)' => h = given'
    BY <1>1, <1>2, CallsNumbers DEF Live, nop, empty
  <2> QED
    BY <1>1, <1>2, <2>1, <2>2 DEF LoopParts, OnceInv
<1>9. FireInv'
  <2>1. ASSUME given' \in real' \ impaired' PROVE handler' = given' /\ cancelling["loop"] = "no"
    <3>1. given' \notin real
      BY <1>1 DEF LoopParts, NumberInv
    <3> QED
      BY <1>1, <2>1, <3>1 DEF SetHandler, Impaired
  <2> QED
    BY <1>1, <1>2, <2>1 DEF FireInv
<1> QED
  BY <1>4, <1>5, <1>6, <1>7, <1>8, <1>9 DEF LoopParts

LEMMA SetTimeParts ==
  ASSUME TypeOK, OwnerOK, LoopParts, SetTime("loop")
  PROVE  LoopParts'
<1>1. /\ setting["loop"] = given /\ given \in Calls /\ pc \in {"wait", "callback"}
      /\ cancelling["loop"] \in {"no", "callback"}
      /\ setting'["loop"] = 0 /\ setting'["app"] = setting["app"]
      /\ armed' = mode[given] /\ armed' \in {"once", "cyclic"} /\ ~expired' /\ owner' = given
  BY DEF LoopParts, SoloInv, NumberInv, SetTime, settime, TypeOK, Calls, Threads
<1>2. UNCHANGED <<handler, pc, tickOf, cancelling, original, given, mode, shared, real, impaired,
                  firedBy, twice, cancelled, calledOff>>
  BY DEF SetTime, process, history
<1>3. SoloInv' /\ NumberInv'
  <2>1. SoloInv'
    BY <1>1, <1>2 DEF LoopParts, SoloInv
  <2>2. setting'["loop"] \in {0, given'} /\ owner' <= given'
    BY <1>1, <1>2, CallsNumbers
  <2>3. handler' <= given' /\ original'["loop"] <= given'
    BY <1>2 DEF LoopParts, NumberInv
  <2>4. \A g \in Calls : g > given' => firedBy'[g] = {} /\ g \notin cancelled' /\ g \notin real'
    BY <1>2 DEF LoopParts, NumberInv
  <2> QED
    BY <2>1, <2>2, <2>3, <2>4 DEF NumberInv
<1>4. OwnInv'
  <2>1. handler \in Calls => handler = given
    BY <1>1, CallsNumbers DEF LoopParts, OwnInv
  <2> QED
    BY <1>1, <1>2, <2>1 DEF LoopParts, OwnInv
<1>5. ModeInv'
  BY <1>1, <1>2 DEF ModeInv
<1>6. OnceInv'
  <2>1. \A h \in Calls : Live(h)' => Live(h)
    BY <1>2 DEF Live
  <2>2. \A h \in Calls : Live(h) => ~(mode[h] = "once" /\ firedBy[h] # {})
    BY <1>1, CallsNumbers DEF LoopParts, OnceInv
  <2> QED
    BY <1>1, <1>2, <2>1, <2>2 DEF LoopParts, OnceInv
<1>7. FireInv'
  BY <1>1, <1>2 DEF LoopParts, FireInv
<1> QED
  BY <1>3, <1>4, <1>5, <1>6, <1>7 DEF LoopParts

LEMMA CancelSwapParts ==
  ASSUME TypeOK, OwnerOK, LoopParts, CancelSwap("loop")
  PROVE  LoopParts'
<1>1. /\ setting["loop"] = 0 /\ pc \in {"wait", "callback"} /\ cancelling["loop"] = "no"
      /\ cancelling'["loop"] = "gettime" /\ cancelling'["app"] = cancelling["app"]
      /\ original'["loop"] = handler /\ handler' = nop /\ calledOff' = TRUE
  BY DEF CancelSwap, MayCall, TypeOK, Threads
<1>2. UNCHANGED <<armed, expired, owner, pc, tickOf, setting, given, mode, real, impaired,
                  firedBy, twice, cancelled>>
  BY DEF CancelSwap, timerfd, process
<1>3. SoloInv'
  BY <1>1, <1>2 DEF LoopParts, SoloInv
<1>4. NumberInv'
  BY <1>1, <1>2 DEF LoopParts, NumberInv, TypeOK, nop
<1>5. OwnInv' /\ ModeInv'
  BY <1>1, <1>2, CallsNumbers DEF LoopParts, OwnInv, ModeInv, nop
<1>6. OnceInv'
  <2>1. \A h \in Calls : Live(h)' => Live(h)
    BY <1>1, CallsNumbers DEF Live, nop
  <2> QED
    BY <1>1, <1>2, <2>1, CallsNumbers DEF LoopParts, OnceInv, Spent, nop
<1>7. FireInv'
  BY <1>1 DEF FireInv
<1> QED
  BY <1>3, <1>4, <1>5, <1>6, <1>7 DEF LoopParts

LEMMA CancelGettimeParts ==
  ASSUME TypeOK, OwnerOK, LoopParts, CancelGettime("loop")
  PROVE  LoopParts'
<1>1. /\ cancelling["loop"] = "gettime" /\ cancelling'["app"] = cancelling["app"]
      /\ cancelling'["loop"] \in {"callback", "disarm"}
      /\ handler = nop /\ setting["loop"] = 0
  BY DEF LoopParts, SoloInv, CancelGettime, TypeOK, Threads
<1>2. UNCHANGED <<armed, expired, owner, handler, pc, tickOf, setting, original, given, mode, real,
                  impaired, firedBy, calledOff>>
  BY DEF CancelGettime, timerfd, process
<1>3. \A h \in Calls : h \in cancelled' => h \in cancelled \/ h = original["loop"]
  BY DEF CancelGettime, Cancelled
<1>4. SoloInv'
  BY <1>1, <1>2 DEF LoopParts, SoloInv
<1>5. NumberInv'
  BY <1>1, <1>2, <1>3 DEF LoopParts, NumberInv, TypeOK, Calls, Handlers, nop, empty, Threads
<1>6. OwnInv' /\ ModeInv'
  BY <1>1, <1>2 DEF LoopParts, OwnInv, ModeInv
<1>7. OnceInv'
  <2>1. twice' = {}
    <3>1. CASE armed # "off" /\ original["loop"] \in Calls
      <4>1. Live(original["loop"]) /\ Cancelled(original["loop"]) /\ ~Spent
        BY <1>1, <3>1 DEF Live, CancelGettime, Spent
      <4> QED
        BY <3>1, <4>1 DEF LoopParts, OnceInv, Cancelled
    <3>2. CASE ~(armed # "off" /\ original["loop"] \in Calls)
      BY <3>2 DEF CancelGettime, LoopParts, OnceInv
    <3> QED
      BY <3>1, <3>2
  <2>2. \A h \in Calls : ~Live(h)'
    BY <1>1, <1>2, CallsNumbers DEF Live, nop
  <2> QED
    BY <1>1, <1>2, <2>1, <2>2, CallsNumbers DEF LoopParts, OnceInv, nop
<1>8. FireInv'
  BY <1>1, <1>2 DEF LoopParts, FireInv
<1> QED
  BY <1>4, <1>5, <1>6, <1>7, <1>8 DEF LoopParts

LEMMA CancelNestedParts ==
  ASSUME TypeOK, OwnerOK, LoopParts, CancelNested("loop")
  PROVE  LoopParts'
<1>1. /\ cancelling["loop"] = "callback" /\ setting["loop"] = 0 /\ pc \in {"wait", "callback"}
      /\ handler' = nop /\ calledOff' = TRUE /\ Spent'
  BY DEF CancelNested, MayCall, settime, Spent
<1>2. UNCHANGED <<owner, pc, tickOf, setting, cancelling, original, given, mode, real, impaired,
                  firedBy>>
  BY DEF CancelNested, process, calls
<1>3. \A h \in Calls : h \in cancelled' => h \in cancelled \/ h = handler
  BY DEF CancelNested, Cancelled
<1>4. SoloInv'
  BY <1>1, <1>2 DEF LoopParts, SoloInv
<1>5. NumberInv'
  BY <1>1, <1>2, <1>3 DEF LoopParts, NumberInv, TypeOK, Calls, Handlers, nop, empty
<1>6. OwnInv' /\ ModeInv'
  BY <1>1, <1>2, CallsNumbers DEF LoopParts, OwnInv, ModeInv, Spent, nop
<1>7. OnceInv'
  <2>1. twice' = {}
    <3>1. CASE armed # "off" /\ handler \in Calls
      <4>1. Live(handler) /\ Cancelled(handler) /\ ~Spent
        BY <1>1, <3>1 DEF Live, CancelNested, Spent
      <4> QED
        BY <3>1, <4>1 DEF LoopParts, OnceInv, Cancelled
    <3>2. CASE ~(armed # "off" /\ handler \in Calls)
      BY <3>2 DEF CancelNested, LoopParts, OnceInv
    <3> QED
      BY <3>1, <3>2
  <2>2. \A h \in Calls : ~Live(h)'
    BY <1>1, <1>2, CallsNumbers DEF Live, nop
  <2> QED
    BY <1>1, <1>2, <2>1, <2>2, CallsNumbers DEF OnceInv, nop
<1>8. FireInv'
  BY <1>1 DEF FireInv
<1> QED
  BY <1>4, <1>5, <1>6, <1>7, <1>8 DEF LoopParts

LEMMA CancelReturnParts ==
  ASSUME TypeOK, OwnerOK, LoopParts, CancelCallbackReturn("loop") \/ CancelDisarm("loop")
  PROVE  LoopParts'
<1>1. /\ cancelling["loop"] \in {"callback", "disarm"} /\ cancelling'["app"] = cancelling["app"]
      /\ cancelling'["loop"] \in {"disarm", "no"} /\ setting["loop"] = 0
      /\ original'["loop"] \in {original["loop"], nop}
      /\ UNCHANGED <<armed, expired>> \/ Spent'
  BY DEF LoopParts, SoloInv, CancelCallbackReturn, CancelDisarm, settime, Spent, timerfd, TypeOK,
       Threads
<1>2. UNCHANGED <<owner, handler, pc, tickOf, setting, given, mode, real, impaired, firedBy, twice,
                  cancelled, calledOff>>
  BY DEF CancelCallbackReturn, CancelDisarm, timerfd, process, history
<1>3. SoloInv'
  BY <1>1, <1>2 DEF LoopParts, SoloInv
<1>4. NumberInv'
  BY <1>1, <1>2 DEF LoopParts, NumberInv, TypeOK, nop
<1>5. OwnInv' /\ ModeInv'
  BY <1>1, <1>2 DEF LoopParts, OwnInv, ModeInv, Spent
<1>6. OnceInv'
  <2>1. \A h \in Calls : Live(h)' => Live(h)
    BY <1>1, <1>2 DEF Live
  <2> QED
    BY <1>1, <1>2, <2>1 DEF LoopParts, OnceInv, Spent
<1>7. FireInv'
  BY <1>1, <1>2 DEF LoopParts, FireInv
<1> QED
  BY <1>3, <1>4, <1>5, <1>6, <1>7 DEF LoopParts

LEMMA FireParts ==
  ASSUME TypeOK, OwnerOK, LoopParts, Fire
  PROVE  LoopParts'
<1>1. /\ pc = "fire" /\ pc' \in {"callback", "wait"}
      /\ setting["loop"] = 0 /\ cancelling["loop"] = "no"
  BY DEF LoopParts, SoloInv, Fire
<1>2. UNCHANGED <<armed, expired, owner, handler, tickOf, setting, cancelling, original, given, mode,
                  real, impaired, cancelled, calledOff>>
  BY DEF Fire, timerfd, calls
<1>3. CASE handler \notin Calls
  <2>1. UNCHANGED <<firedBy, twice>>
    BY <1>3 DEF Fire
  <2>2. SoloInv' /\ NumberInv' /\ OwnInv' /\ ModeInv'
    BY <1>1, <1>2, <2>1 DEF LoopParts, SoloInv, NumberInv, OwnInv, ModeInv
  <2>3. OnceInv'
    BY <1>1, <1>2, <2>1 DEF LoopParts, OnceInv, Live, Spent
  <2>4. FireInv'
    BY <1>1, <1>2, <1>3, <2>1 DEF LoopParts, FireInv, TypeOK
  <2> QED
    BY <2>2, <2>3, <2>4 DEF LoopParts
<1>4. CASE handler \in Calls
  <2>1. /\ tickOf = handler
        /\ firedBy' = [firedBy EXCEPT ![handler] = firedBy[handler] \cup {handler}]
    BY <1>1, <1>4 DEF Fire, LoopParts, OwnInv
  <2>2. \A g \in Calls : firedBy'[g] = IF g = handler THEN firedBy[g] \cup {g} ELSE firedBy[g]
    BY <2>1 DEF TypeOK
  <2>3. SoloInv' /\ ModeInv'
    BY <1>1, <1>2 DEF LoopParts, SoloInv, ModeInv
  <2>4. NumberInv'
    <3>1. \A g \in Calls : g > given => g # handler
      BY CallsNumbers DEF LoopParts, NumberInv, TypeOK
    <3>2. \A g \in Calls : g > given => firedBy'[g] = {}
      BY <2>2, <3>1 DEF LoopParts, NumberInv
    <3> QED
      BY <1>2, <3>2 DEF LoopParts, NumberInv
  <2>5. OwnInv'
    BY <1>1, <1>2, <2>2 DEF LoopParts, OwnInv
  <2>6. OnceInv'
    <3>1. Live(handler) /\ handler \notin cancelled
          /\ (mode[handler] = "once" => firedBy[handler] = {} /\ Spent)
      BY <1>1, <1>4 DEF LoopParts, OnceInv, Live
    <3>2. twice' = {}
      BY <1>4, <3>1 DEF Fire, LoopParts, OnceInv
    <3>3. \A h \in Calls : Live(h)' => h = handler
      BY <1>1, <1>2 DEF Live
    <3> QED
      BY <1>1, <1>2, <3>1, <3>2, <3>3 DEF OnceInv, Spent
  <2>7. FireInv'
    BY <1>2, <1>4, <2>2 DEF LoopParts, FireInv
  <2> QED
    BY <2>3, <2>4, <2>5, <2>6, <2>7 DEF LoopParts
<1> QED
  BY <1>3, <1>4

LEMMA ProcessParts ==
  ASSUME TypeOK, OwnerOK, LoopParts,
         Dispatch \/ Read \/ CallbackReturn \/ Expire \/ UNCHANGED vars
  PROVE  LoopParts'
<1>1. UNCHANGED <<owner, handler, setting, cancelling, original, given, mode, real, impaired, firedBy,
                  twice, cancelled, calledOff>>
  BY DEF Dispatch, Read, CallbackReturn, Expire, vars, timerfd, calls, history
<1>2. NumberInv'
  BY <1>1 DEF LoopParts, NumberInv
<1>3. SoloInv'
  BY <1>1 DEF LoopParts, SoloInv, Dispatch, LoopFree, Read, CallbackReturn, Expire, vars, process
<1>4. OwnInv'
  BY <1>1 DEF LoopParts, SoloInv, OwnInv, Dispatch, Read, CallbackReturn, Expire, vars, process, timerfd
<1>5. ModeInv'
  BY <1>1 DEF LoopParts, ModeInv, Dispatch, Read, CallbackReturn, Expire, vars, timerfd
<1>6. OnceInv'
  <2>1. \A h \in Calls : Live(h)' => Live(h)
    BY <1>1 DEF Live
  <2>2. CASE Read
    <3>1. pc = "read" /\ setting["loop"] = 0 /\ UNCHANGED armed /\ ~expired'
          /\ (pc' = "fire" <=> expired)
      BY <2>2 DEF Read, LoopParts, SoloInv, TypeOK
    <3>2. ASSUME expired, handler \in Calls, mode[handler] = "once" PROVE armed = "off"
      BY <3>1, <3>2 DEF LoopParts, OwnInv, ModeInv, TypeOK
    <3>3. ASSUME expired, NEW h \in Calls, Live(h), mode[h] = "once" PROVE firedBy[h] = {}
      BY <3>3 DEF LoopParts, OnceInv, Spent
    <3> QED
      BY <1>1, <2>1, <3>1, <3>2, <3>3 DEF LoopParts, OnceInv, Spent
  <2>3. CASE Expire
    BY <1>1, <2>1, <2>3 DEF Expire, process, LoopParts, OnceInv, Spent
  <2>4. CASE Dispatch \/ CallbackReturn \/ UNCHANGED vars
    BY <1>1, <2>1, <2>4 DEF Dispatch, CallbackReturn, vars, process, timerfd, LoopParts, OnceInv, Spent
  <2> QED
    BY <2>2, <2>3, <2>4
<1>7. FireInv'
  BY <1>1 DEF LoopParts, FireInv, Dispatch, Read, CallbackReturn, Expire, vars, process, timerfd, TypeOK
<1> QED
  BY <1>2, <1>3, <1>4, <1>5, <1>6, <1>7 DEF LoopParts

LEMMA PartsStep ==
  ASSUME TypeOK, OwnerOK, LoopInv, [Next]_vars
  PROVE  LoopInv'
<1> SUFFICES ASSUME ~shared' PROVE LoopParts'
  BY DEF LoopInv, LoopParts
<1>1. ~shared
  BY DEF Next, SetCall, SetHandler, CancelSwap, CancelNested, InCall, SetTime, CancelGettime,
       CancelCallbackReturn, CancelDisarm, LoopStep, Dispatch, Read, Fire, CallbackReturn, Expire,
       vars, history, TypeOK
<1>2. LoopParts
  BY <1>1 DEF LoopInv, LoopParts
<1>3. SoloInv
  BY <1>2 DEF LoopParts
<1> QED
  BY <1>2, <1>3, SoloNext, SetHandlerParts, SetTimeParts, CancelSwapParts, CancelGettimeParts,
     CancelNestedParts, CancelReturnParts, FireParts, ProcessParts

LEMMA PartsInit == Init => LoopInv
<1> SUFFICES ASSUME Init PROVE LoopParts
  BY DEF LoopInv, LoopParts
<1>1. SoloInv /\ NumberInv /\ OwnInv /\ ModeInv
  BY CallsNumbers DEF Init, SoloInv, NumberInv, OwnInv, ModeInv, Threads, nop
<1>2. OnceInv
  BY CallsNumbers DEF Init, OnceInv, Live, Threads, nop
<1>3. FireInv
  BY DEF Init, FireInv
<1> QED
  BY <1>1, <1>2, <1>3 DEF LoopParts

LEMMA LoopInvAlways == Spec => []LoopInv
<1>1. TypeOK /\ OwnerOK /\ LoopInv /\ [Next]_vars => LoopInv'
  BY PartsStep
<1> QED
  BY <1>1, PartsInit, TypeCorrect, PTL DEF Spec

(* A callback is executed with fired = true only for an expiry of the      *)
(* setting it was given to, however often callbacks set the timer again    *)
(* and cancel it: for all calls in the thread of the event loop.           *)
THEOREM OwnExpiryAlways == Spec => []OwnExpiry
<1>1. LoopInv => OwnExpiry
  BY DEF LoopInv, OwnInv, OwnExpiry
<1> QED
  BY <1>1, LoopInvAlways, PTL

(* The callback of a single-shot timer is executed at most once, fired or  *)
(* cancelled, also if it sets the timer again or cancels it itself: for    *)
(* all calls in the thread of the event loop.                              *)
THEOREM AtMostOnceAlways == Spec => []AtMostOnce
<1>1. LoopInv => AtMostOnce
  BY DEF LoopInv, OnceInv, AtMostOnce
<1> QED
  BY <1>1, LoopInvAlways, PTL

(* A timer comes to rest only after the callback given last was executed   *)
(* or cancel() was called after it, but for the two calls of set() that    *)
(* the code gets wrong: for all calls in the thread of the event loop.     *)
THEOREM FiresUnlessImpairedAlways == Spec => []FiresUnlessImpaired
<1>1. ASSUME TypeOK, LoopInv PROVE FiresUnlessImpaired
  <2> SUFFICES ASSUME AtRest, given \in real, ~calledOff, given \notin impaired, ~shared
               PROVE  firedBy[given] # {}
    BY DEF FiresUnlessImpaired
  <2>1. FireInv /\ given \in Calls
    BY <1>1 DEF LoopInv, TypeOK
  <2> QED
    BY <2>1, CallsNumbers DEF FireInv, AtRest, Threads
<1> QED
  BY <1>1, LoopInvAlways, TypeCorrect, PTL
=============================================================================
