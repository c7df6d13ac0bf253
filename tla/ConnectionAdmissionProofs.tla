----------------------- MODULE ConnectionAdmissionProofs -----------------------
(***************************************************************************)
(* Type correctness of ConnectionAdmission, and that every slot of the two *)
(* pools is free or taken for exactly one connection, for any number of    *)
(* connections and any size of the pools.                                  *)
(***************************************************************************)
EXTENDS ConnectionAdmission, FiniteSetTheorems, TLAPS

Fresh    == {"admitted", "timing", "locking", "adding", "starting"}
Failed   == {"failing", "forgetting", "givingPending", "givingActive", "dropping"}
Promotes == {"promoting", "timing", "moving"}

(* The main thread admits one connection at a time; the connection has a    *)
(* thread of its own from start() on.                                       *)
MainOK ==
  /\ main \in Fresh => inHand \in Conn /\ thread[inHand] = "accepted"
  /\ main \in Failed => inHand \in Conn /\ thread[inHand] \notin {"new", "accepted"}
  /\ \A c \in Conn : thread[c] = "accepted" => inHand = c /\ main \in Fresh

(* Who may be registered: from Register until one of the two threads        *)
(* releases the connection, and pending until its promotion.                *)
SetsOK ==
  /\ pending \subseteq active
  /\ main \in {"givingPending", "givingActive", "dropping"} => inHand \notin active
  /\ \A c \in active : /\ thread[c] \notin {"new", "gone", "endedPending", "endedActive"}
                       /\ thread[c] = "accepted" => main = "starting"
  /\ \A c \in Conn : /\ thread[c] \in Promotes /\ c \in active => c \in pending
                     /\ thread[c] = "promoted" => c \notin pending

(* A connection does not hold one slot twice, so releasing it by one thread *)
(* leaves nothing to release for the other.                                 *)
OnceOK ==
  /\ main = "givingPending" => thread[inHand] \notin {"promoted", "endedPending"}
  /\ main = "givingActive" => thread[inHand] \notin Promotes \union {"endedActive"}

(* A signal handler that raises may leave a released connection in the sets *)
(* or its slot taken.                                                       *)
Inv == TypeOK /\ MainOK /\ (signal # "leaked" => SetsOK /\ OnceOK)

-----------------------------------------------------------------------------
(* The invariant holds at the start. *)
LEMMA InitInv == Init => Inv
BY ConnAssumption, SlotsAssumption
DEF Init, Inv, TypeOK, MainOK, SetsOK, OnceOK, MainPoint, ThreadPoint, Fresh, Failed, Promotes

(* Every step of the main thread and of the signal handler keeps it. *)
LEMMA MainInv == ASSUME Inv, MainStep PROVE Inv'
<1> USE ConnAssumption DEF Inv, TypeOK, MainOK, SetsOK, OnceOK, MainPoint, ThreadPoint, Fresh, Failed,
      Failure, Promotes, MainAt, MainTo, Goes, books
<1>1. CASE TakePending BY <1>1 DEF TakePending, TurnAway
<1>2. CASE SetHeaderTimeout BY <1>2 DEF SetHeaderTimeout, TurnAway
<1>3. CASE EnterLock BY <1>3 DEF EnterLock
<1>4. CASE Register BY <1>4 DEF Register
<1>5. CASE StartThread BY <1>5 DEF StartThread
<1>6. CASE StartFails BY <1>6 DEF StartFails
<1>7. CASE EnterRelease BY <1>7 DEF EnterRelease
<1>8. CASE Forget BY <1>8 DEF Forget, Unregister
<1>9. CASE GiveBack BY <1>9 DEF GiveBack
<1>10. CASE Drop BY <1>10 DEF Drop
<1>11. CASE HandleSignal BY <1>11 DEF HandleSignal, MainHolds
<1>12. CASE AskToStop BY <1>12 DEF AskToStop
<1>16. CASE HandlerRaises BY <1>16 DEF HandlerRaises, MainHolds, Failure
<1>13. CASE LeaveLoop BY <1>13 DEF LeaveLoop
<1>14. CASE CloseServer BY <1>14 DEF CloseServer
<1>15. CASE JoinThreads BY <1>15 DEF JoinThreads
<1> QED BY <1>1, <1>2, <1>3, <1>4, <1>5, <1>6, <1>7, <1>8, <1>9, <1>10, <1>11, <1>12, <1>13, <1>14,
     <1>15, <1>16 DEF MainStep

(* So does every step of the thread of a connection, and its acceptance. *)
LEMMA ThreadInv ==
  ASSUME Inv, NEW c \in Conn, Accept(c) \/ Proceed(c) \/ Serve(c) PROVE Inv'
<1> USE ConnAssumption DEF Inv, TypeOK, MainOK, SetsOK, OnceOK, MainPoint, ThreadPoint, Fresh, Failed,
      Failure, Promotes, MainAt, MainTo, Goes, books, ThreadFrame
<1>1. CASE Accept(c) BY <1>1 DEF Accept
<1>2. CASE ParseRequest(c) BY <1>2 DEF ParseRequest
<1>3. CASE TakeActive(c) BY <1>3 DEF TakeActive
<1>4. CASE SetActiveTimeout(c) BY <1>4 DEF SetActiveTimeout
<1>5. CASE Move(c) BY <1>5 DEF Move
<1>6. CASE LeavePending(c) BY <1>6 DEF LeavePending
<1>7. CASE Respond(c) BY <1>7 DEF Respond
<1>8. CASE HangUp(c) BY <1>8 DEF HangUp
<1>9. CASE Release(c) BY <1>9 DEF Release, Unregister
<1>10. CASE ReturnSlot(c) BY <1>10 DEF ReturnSlot
<1> QED BY <1>1, <1>2, <1>3, <1>4, <1>5, <1>6, <1>7, <1>8, <1>9, <1>10 DEF Proceed, Serve

(* The invariant is inductive. *)
LEMMA NextInv == Inv /\ [Next]_vars => Inv'
<1> SUFFICES ASSUME Inv, [Next]_vars PROVE Inv' OBVIOUS
<1>1. CASE Interrupt
  BY <1>1 DEF Interrupt, Inv, TypeOK, MainOK, SetsOK, OnceOK, books
<1>2. CASE UNCHANGED vars
  BY <1>2 DEF vars, Inv, TypeOK, MainOK, SetsOK, OnceOK
<1> QED BY <1>1, <1>2, MainInv, ThreadInv DEF Next

(* In every reachable state the variables have their types; free slots in   *)
(* particular never become negative.                                        *)
THEOREM TypeCorrect == Spec => []TypeOK
<1>1. Inv => TypeOK BY DEF Inv
<1> QED BY <1>1, InitInv, NextInv, PTL DEF Spec

-----------------------------------------------------------------------------
(* A pool before and after a step: nothing changes, or one holder takes a   *)
(* slot that was free, or gives back the one it held.                       *)
Exchange(free, free2, holders, holders2) ==
  \/ free2 = free /\ holders2 = holders
  \/ \E h : h \notin holders /\ free2 = free - 1 /\ holders2 = holders \union {h}
  \/ \E h : h \in holders /\ free2 = free + 1 /\ holders2 = holders \ {h}

(* Such a step keeps the sum of the free and the held slots. *)
LEMMA ExchangeKeepsSum ==
  ASSUME NEW free \in Nat, NEW free2 \in Nat, NEW holders, IsFiniteSet(holders), NEW holders2,
         Exchange(free, free2, holders, holders2)
  PROVE  free2 + Cardinality(holders2) = free + Cardinality(holders)
<1>1. Cardinality(holders) \in Nat BY FS_CardinalityType
<1>2. CASE free2 = free /\ holders2 = holders BY <1>2
<1>3. ASSUME NEW h, h \notin holders, free2 = free - 1, holders2 = holders \union {h}
      PROVE  free2 + Cardinality(holders2) = free + Cardinality(holders)
  <2>1. Cardinality(holders \union {h}) = Cardinality(holders) + 1 BY <1>3, FS_AddElement
  <2> QED BY <1>1, <1>3, <2>1
<1>4. ASSUME NEW h, h \in holders, free2 = free + 1, holders2 = holders \ {h}
      PROVE  free2 + Cardinality(holders2) = free + Cardinality(holders)
  <2>1. Cardinality(holders \ {h}) = Cardinality(holders) - 1 BY <1>4, FS_RemoveElement
  <2> QED BY <1>1, <1>4, <2>1
<1> QED BY <1>2, <1>3, <1>4 DEF Exchange
PendingPool == Exchange(pendingSlots, pendingSlots', PendingHolders, PendingHolders')
ActivePool  == Exchange(activeSlots, activeSlots', ActiveHolders, ActiveHolders')

(* The main thread exchanges slots for the connection it admits. *)
LEMMA MainExchanges ==
  ASSUME Inv, MainStep, signal' # "leaked" PROVE PendingPool /\ ActivePool
<1> USE ConnAssumption DEF Inv, TypeOK, MainOK, SetsOK, OnceOK, MainPoint, ThreadPoint, Fresh, Failed,
      Failure, Promotes, MainAt, MainTo, Goes, books, PendingPool, ActivePool, Exchange,
      PendingHolders, ActiveHolders, HoldsPending, HoldsActive
<1>1. CASE TakePending BY <1>1 DEF TakePending, TurnAway
<1>2. CASE SetHeaderTimeout BY <1>2 DEF SetHeaderTimeout, TurnAway
<1>3. CASE EnterLock BY <1>3 DEF EnterLock
<1>4. CASE Register BY <1>4 DEF Register
<1>5. CASE StartThread BY <1>5 DEF StartThread
<1>6. CASE StartFails BY <1>6 DEF StartFails
<1>7. CASE EnterRelease BY <1>7 DEF EnterRelease
<1>8. CASE Forget BY <1>8 DEF Forget, Unregister
<1>9. CASE GiveBack BY <1>9 DEF GiveBack
<1>10. CASE Drop BY <1>10 DEF Drop
<1>11. CASE HandleSignal BY <1>11 DEF HandleSignal, MainHolds
<1>12. CASE AskToStop BY <1>12 DEF AskToStop
<1>16. CASE HandlerRaises
  <2> USE <1>16 DEF HandlerRaises, MainHolds, Failure
  <2>1. UNCHANGED <<active, pending, activeSlots, pendingSlots>> OBVIOUS
  <2>2. CASE main \in {"poll", "dropping"}
    <3>1. PendingHolders' = PendingHolders /\ ActiveHolders' = ActiveHolders BY <2>1, <2>2
    <3> QED BY <2>1, <3>1
  <2>3. CASE main = "admitted"
    <3>1. PendingHolders' = PendingHolders /\ ActiveHolders' = ActiveHolders BY <2>1, <2>3
    <3> QED BY <2>1, <3>1
  <2>4. CASE main = "starting"
    <3>1. PendingHolders' = PendingHolders /\ ActiveHolders' = ActiveHolders BY <2>1, <2>4
    <3> QED BY <2>1, <3>1
  <2> QED BY <2>2, <2>3, <2>4
<1>13. CASE LeaveLoop BY <1>13 DEF LeaveLoop
<1>14. CASE CloseServer BY <1>14 DEF CloseServer
<1>15. CASE JoinThreads BY <1>15 DEF JoinThreads
<1> QED BY <1>1, <1>2, <1>3, <1>4, <1>5, <1>6, <1>7, <1>8, <1>9, <1>10, <1>11, <1>12, <1>13, <1>14,
     <1>15, <1>16 DEF MainStep

(* The thread of a connection exchanges the slots of its own connection. *)
LEMMA ThreadExchanges ==
  ASSUME Inv, NEW c \in Conn, Accept(c) \/ Proceed(c) \/ Serve(c), signal' # "leaked"
  PROVE  PendingPool /\ ActivePool
<1> USE ConnAssumption DEF Inv, TypeOK, MainOK, SetsOK, OnceOK, MainPoint, ThreadPoint, Fresh, Failed,
      Failure, Promotes, MainAt, MainTo, Goes, books, ThreadFrame, PendingPool, ActivePool, Exchange,
      PendingHolders, ActiveHolders, HoldsPending, HoldsActive
<1>1. CASE Accept(c) BY <1>1 DEF Accept
<1>2. CASE ParseRequest(c) BY <1>2 DEF ParseRequest
<1>3. CASE TakeActive(c) BY <1>3 DEF TakeActive
<1>4. CASE SetActiveTimeout(c) BY <1>4 DEF SetActiveTimeout
<1>5. CASE Move(c) BY <1>5 DEF Move
<1>6. CASE LeavePending(c) BY <1>6 DEF LeavePending
<1>7. CASE Respond(c) BY <1>7 DEF Respond
<1>8. CASE HangUp(c) BY <1>8 DEF HangUp
<1>9. CASE Release(c) BY <1>9 DEF Release, Unregister
<1>10. CASE ReturnSlot(c) BY <1>10 DEF ReturnSlot
<1> QED BY <1>1, <1>2, <1>3, <1>4, <1>5, <1>6, <1>7, <1>8, <1>9, <1>10 DEF Proceed, Serve

(* Once the signal handler has broken the bookkeeping off, no step undoes   *)
(* that.                                                                    *)
LEMMA LeakStays == ASSUME [Next]_vars, signal = "leaked" PROVE signal' = "leaked"
BY DEF Next, vars, MainStep, TakePending, SetHeaderTimeout, EnterLock, Register, StartThread, StartFails,
   EnterRelease, Forget, GiveBack, Drop, HandleSignal, HandlerRaises, AskToStop, LeaveLoop, CloseServer,
   JoinThreads, Interrupt, Accept, Proceed, Serve, ThreadFrame, TakeActive, SetActiveTimeout, Move,
   LeavePending, Release, ReturnSlot, ParseRequest, Respond, HangUp

(* No slot leaks and none is given back twice, for any number of            *)
(* connections and any size of the pools, whichever of the two threads      *)
(* releases a connection and whenever, unless a failing signal handler      *)
(* breaks a release or an admission off.                                    *)
THEOREM SlotsNeverLeak == Spec => []SlotsAccounted
<1>1. Init => SlotsAccounted
  <2>1. Init => PendingHolders = {} /\ ActiveHolders = {}
    BY ConnAssumption DEF Init, PendingHolders, ActiveHolders, HoldsPending, HoldsActive
  <2> QED BY <2>1, FS_EmptySet, SlotsAssumption DEF Init, SlotsAccounted
<1>2. ASSUME Inv, Inv', SlotsAccounted, [Next]_vars PROVE SlotsAccounted'
  <2> SUFFICES ASSUME signal' # "leaked"
               PROVE  /\ pendingSlots' + Cardinality(PendingHolders') = MaxPending
                      /\ activeSlots' + Cardinality(ActiveHolders') = MaxActive
    BY DEF SlotsAccounted
  <2>0. signal # "leaked" BY <1>2, LeakStays
  <2>1. PendingPool /\ ActivePool
    <3>1. CASE Interrupt \/ UNCHANGED vars
      BY <3>1 DEF Interrupt, vars, books, PendingPool, ActivePool, Exchange, PendingHolders,
         ActiveHolders, HoldsPending, HoldsActive
    <3>2. CASE MainStep BY <1>2, <3>2, MainExchanges
    <3>3. CASE \E c \in Conn : Accept(c) \/ Proceed(c) \/ Serve(c) BY <1>2, <3>3, ThreadExchanges
    <3> QED BY <1>2, <3>1, <3>2, <3>3 DEF Next
  <2>2. /\ {pendingSlots, activeSlots, pendingSlots', activeSlots'} \subseteq Nat
        /\ IsFiniteSet(PendingHolders) /\ IsFiniteSet(ActiveHolders)
    <3>1. PendingHolders \subseteq Conn /\ ActiveHolders \subseteq Conn
      BY DEF PendingHolders, ActiveHolders
    <3> QED BY <1>2, <3>1, ConnAssumption, FS_Subset DEF Inv, TypeOK
  <2>3. pendingSlots' + Cardinality(PendingHolders') = pendingSlots + Cardinality(PendingHolders)
    BY <2>1, <2>2, ExchangeKeepsSum DEF PendingPool
  <2>4. activeSlots' + Cardinality(ActiveHolders') = activeSlots + Cardinality(ActiveHolders)
    BY <2>1, <2>2, ExchangeKeepsSum DEF ActivePool
  <2> QED BY <1>2, <2>0, <2>3, <2>4 DEF SlotsAccounted
<1>3. Inv /\ SlotsAccounted /\ [Next]_vars => (Inv /\ SlotsAccounted)' BY <1>2, NextInv
<1> QED BY <1>1, <1>3, InitInv, PTL DEF Spec

(* When all threads are over and the main thread is idle, every slot is     *)
(* free and no socket is registered, whatever has failed half-way.          *)
THEOREM IdleIsEmpty == Spec => []NothingLeaked
<1>1. ASSUME Inv, SlotsAccounted PROVE NothingLeaked
  <2> SUFFICES ASSUME main = "poll", signal # "leaked", \A c \in Conn : thread[c] \in {"new", "gone"}
               PROVE  active = {} /\ pendingSlots = MaxPending /\ activeSlots = MaxActive
    BY DEF NothingLeaked
  <2>1. active = {} /\ pending = {} BY <1>1 DEF Inv, TypeOK, SetsOK
  <2>2. PendingHolders = {} /\ ActiveHolders = {}
    BY <2>1 DEF PendingHolders, ActiveHolders, HoldsPending, HoldsActive
  <2> QED BY <1>1, <2>1, <2>2, FS_EmptySet DEF Inv, TypeOK, SlotsAccounted
<1>2. Inv /\ SlotsAccounted => NothingLeaked BY <1>1
<1>3. Spec => []Inv BY InitInv, NextInv, PTL DEF Spec
<1> QED BY <1>2, <1>3, SlotsNeverLeak, PTL
=============================================================================
