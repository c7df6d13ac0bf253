-------------------------- MODULE ConnectionAdmission --------------------------
(***************************************************************************)
(* Admission of connections by PasteberthServer (runtime/server.py).       *)
(*                                                                         *)
(* The main thread accepts connections, gives each a slot of the pending   *)
(* pool and starts a thread for it; the thread reads a request and then    *)
(* exchanges the pending slot for an active one.  Both keep the two sets   *)
(* of sockets under _sockets_lock.  SIGTERM and SIGINT interrupt the main  *)
(* thread wherever it is: the handler closes every connection and has the  *)
(* accept loop stopped; server_close() closes what came after and waits    *)
(* for the threads.                                                        *)
(*                                                                         *)
(* What a thread does under the lock never blocks and is one step; what    *)
(* the main thread does under it is several, for the signal can arrive     *)
(* between them.                                                           *)
(***************************************************************************)
EXTENDS Naturals, FiniteSets

CONSTANTS
  None,
  Conn,        \* bound: connections in one behaviour
  MaxPending,  \* max_pending_requests
  MaxActive    \* max_active_requests

VARIABLES
  main,          \* program point of the main thread
  inHand,        \* the connection it is admitting
  signal,        \* "none", "entered" while the handler runs, "handled" or how it failed
  stopping,      \* server.shutdown() was called
  thread,        \* program point of the thread of each connection
  closed,        \* connections the server has shut down
  active,        \* _active_sockets
  pending,       \* _pending_sockets
  activeSlots,   \* free slots of _active_slots
  pendingSlots   \* free slots of _pending_slots

books == <<active, pending, activeSlots, pendingSlots>>
vars == <<main, inHand, signal, stopping, thread, closed, active, pending, activeSlots, pendingSlots>>

ASSUME ConnAssumption == IsFiniteSet(Conn) /\ None \notin Conn
ASSUME SlotsAssumption == MaxPending \in Nat \ {0} /\ MaxActive \in Nat \ {0}

MainPoint == {"poll", "admitted", "timing", "locking", "adding", "starting", "failing",
              "forgetting", "givingPending", "givingActive", "dropping",
              "closing", "joining", "stopped"}
ThreadPoint == {"new", "accepted", "unstarted", "reading", "promoting", "timing", "moving",
                "promoted", "serving", "ending", "endedPending", "endedActive", "gone"}

Init ==
  /\ main = "poll" /\ inHand = None /\ signal = "none" /\ stopping = FALSE
  /\ thread = [c \in Conn |-> "new"] /\ closed = {}
  /\ active = {} /\ pending = {} /\ activeSlots = MaxActive /\ pendingSlots = MaxPending

(* What a failing handler interrupted: the accept loop, which ends; one     *)
(* request, whose failure the loop survives; or, beyond it, the             *)
(* bookkeeping of that request, which stays unfinished.                     *)
Failure == {"left", "swallowed", "leaked"}

MainHolds == main \in {"adding", "forgetting"}
MainAt(m) == main = m /\ signal # "entered"
MainTo(m) == main' = m
Goes(c, t) == thread' = [thread EXCEPT ![c] = t]

-----------------------------------------------------------------------------
(* process_request, in the main thread. *)

Accept(c) ==
  /\ MainAt("poll") /\ ~stopping /\ thread[c] = "new"
  /\ MainTo("admitted") /\ inHand' = c /\ Goes(c, "accepted")
  /\ UNCHANGED <<signal, stopping, closed, books>>

(* A connection that cannot be admitted is closed at once. *)
TurnAway == Goes(inHand, "gone") /\ closed' = closed \union {inHand} /\ inHand' = None /\ MainTo("poll")

(* Mistake: the slot is taken without asking whether one is free. *)
TakePendingUnchecked ==
  /\ MainAt("admitted") /\ pendingSlots' = pendingSlots - 1 /\ MainTo("timing")
  /\ UNCHANGED <<inHand, signal, stopping, thread, closed, active, pending, activeSlots>>

TakePending ==
  /\ MainAt("admitted")
  /\ \/ /\ pendingSlots > 0
        /\ pendingSlots' = pendingSlots - 1 /\ MainTo("timing") /\ UNCHANGED <<inHand, thread, closed>>
     \/ pendingSlots = 0 /\ TurnAway /\ UNCHANGED pendingSlots
  /\ UNCHANGED <<signal, stopping, active, pending, activeSlots>>

SetHeaderTimeout ==
  /\ MainAt("timing")
  /\ \/ MainTo("locking") /\ UNCHANGED <<pendingSlots, inHand, thread, closed>>
     \/ pendingSlots' = pendingSlots + 1 /\ TurnAway
  /\ UNCHANGED <<signal, stopping, active, pending, activeSlots>>

EnterLock ==
  /\ MainAt("locking") /\ MainTo("adding")
  /\ UNCHANGED <<inHand, signal, stopping, thread, closed, books>>

Register ==
  /\ MainAt("adding") /\ MainTo("starting")
  /\ active' = active \union {inHand} /\ pending' = pending \union {inHand}
  /\ UNCHANGED <<inHand, signal, stopping, thread, closed, activeSlots, pendingSlots>>

StartThread ==
  /\ MainAt("starting") /\ MainTo("poll") /\ inHand' = None /\ Goes(inHand, "reading")
  /\ UNCHANGED <<signal, stopping, closed, books>>

(* start() raises: no thread could be made. *)
StartFails ==
  /\ MainAt("starting") /\ MainTo("failing") /\ Goes(inHand, "unstarted")
  /\ UNCHANGED <<inHand, signal, stopping, closed, books>>

-----------------------------------------------------------------------------
(* _release_request: under the lock the connection leaves both sets, then   *)
(* the slot it held is given back.                                          *)

Unregister(c) == active' = active \ {c} /\ pending' = pending \ {c}

EnterRelease ==
  /\ MainAt("failing") /\ MainTo("forgetting")
  /\ UNCHANGED <<inHand, signal, stopping, thread, closed, books>>

Forget ==
  /\ MainAt("forgetting") /\ Unregister(inHand)
  /\ MainTo(IF inHand \notin active THEN "dropping"
            ELSE IF inHand \in pending THEN "givingPending" ELSE "givingActive")
  /\ UNCHANGED <<inHand, signal, stopping, thread, closed, activeSlots, pendingSlots>>

GiveBack ==
  /\ MainAt("givingPending") \/ MainAt("givingActive")
  /\ IF main = "givingPending" THEN pendingSlots' = pendingSlots + 1 /\ UNCHANGED activeSlots
                               ELSE activeSlots' = activeSlots + 1 /\ UNCHANGED pendingSlots
  /\ MainTo("dropping")
  /\ UNCHANGED <<inHand, signal, stopping, thread, closed, active, pending>>

(* socketserver reports the exception and shuts the request down. *)
Drop ==
  /\ MainAt("dropping") /\ MainTo("poll") /\ inHand' = None
  /\ closed' = closed \union {inHand}
  /\ IF thread[inHand] = "unstarted" THEN Goes(inHand, "gone") ELSE UNCHANGED thread
  /\ UNCHANGED <<signal, stopping, books>>

-----------------------------------------------------------------------------
(* The thread of a connection: parse_request promotes it after each parsed  *)
(* header; the first look of promote_request is under the lock.             *)
ThreadFrame == UNCHANGED <<main, inHand, signal, stopping, closed>>

ParseRequest(c) ==
  /\ thread[c] = "reading" /\ ~MainHolds
  /\ Goes(c, IF c \notin active THEN "ending" ELSE IF c \notin pending THEN "serving" ELSE "promoting")
  /\ ThreadFrame /\ UNCHANGED books

TakeActive(c) ==
  /\ thread[c] = "promoting"
  /\ \/ activeSlots > 0 /\ activeSlots' = activeSlots - 1 /\ Goes(c, "timing")
     \/ activeSlots = 0 /\ Goes(c, "ending") /\ UNCHANGED activeSlots
  /\ ThreadFrame /\ UNCHANGED <<active, pending, pendingSlots>>

SetActiveTimeout(c) ==
  /\ thread[c] = "timing"
  /\ \/ Goes(c, "moving") /\ UNCHANGED activeSlots
     \/ Goes(c, "ending") /\ activeSlots' = activeSlots + 1
  /\ ThreadFrame /\ UNCHANGED <<active, pending, pendingSlots>>

(* Mistake: the connection is taken to be still pending. *)
MoveUnchecked(c) ==
  /\ thread[c] = "moving" /\ ~MainHolds
  /\ pending' = pending \ {c} /\ Goes(c, "promoted")
  /\ ThreadFrame /\ UNCHANGED <<active, activeSlots, pendingSlots>>

(* The second look: the main thread may have released it meanwhile. *)
Move(c) ==
  /\ thread[c] = "moving" /\ ~MainHolds
  /\ \/ /\ c \in pending
        /\ pending' = pending \ {c} /\ Goes(c, "promoted") /\ UNCHANGED activeSlots
     \/ /\ c \notin pending
        /\ activeSlots' = activeSlots + 1 /\ UNCHANGED pending
        /\ Goes(c, IF c \in active THEN "serving" ELSE "ending")
  /\ ThreadFrame /\ UNCHANGED <<active, pendingSlots>>

LeavePending(c) ==
  /\ thread[c] = "promoted" /\ Goes(c, "serving") /\ pendingSlots' = pendingSlots + 1
  /\ ThreadFrame /\ UNCHANGED <<active, pending, activeSlots>>

(* The response is sent; an open connection may be kept for another one. *)
Respond(c) ==
  /\ thread[c] = "serving"
  /\ Goes(c, "ending") \/ (c \notin closed /\ Goes(c, "reading"))
  /\ ThreadFrame /\ UNCHANGED books

(* The peer or the server closes the connection, a timeout expires or the   *)
(* header is refused.                                                       *)
HangUp(c) ==
  /\ thread[c] = "reading" /\ Goes(c, "ending")
  /\ ThreadFrame /\ UNCHANGED books

(* Mistake: the slot of the pending pool is taken to be given back already. *)
ReleaseActive(c) ==
  /\ thread[c] = "ending" /\ ~MainHolds /\ Unregister(c)
  /\ Goes(c, IF c \notin active THEN "gone" ELSE "endedActive")
  /\ ThreadFrame /\ UNCHANGED <<activeSlots, pendingSlots>>

(* process_request_thread has closed the socket: _release_request. *)
Release(c) ==
  /\ thread[c] = "ending" /\ ~MainHolds /\ Unregister(c)
  /\ Goes(c, IF c \notin active THEN "gone" ELSE IF c \in pending THEN "endedPending" ELSE "endedActive")
  /\ ThreadFrame /\ UNCHANGED <<activeSlots, pendingSlots>>

ReturnSlot(c) ==
  /\ thread[c] \in {"endedPending", "endedActive"} /\ Goes(c, "gone")
  /\ IF thread[c] = "endedPending" THEN pendingSlots' = pendingSlots + 1 /\ UNCHANGED activeSlots
                                   ELSE activeSlots' = activeSlots + 1 /\ UNCHANGED pendingSlots
  /\ ThreadFrame /\ UNCHANGED <<active, pending>>

-----------------------------------------------------------------------------
(* Shutdown.  serve_forever() takes its signal handlers away before it      *)
(* calls server_close().                                                    *)

Interrupt ==
  /\ signal = "none" /\ main \notin {"closing", "joining", "stopped"}
  /\ signal' = "entered"
  /\ UNCHANGED <<main, inHand, stopping, thread, closed, books>>

(* close_active_connections, with the lock the main thread may hold. *)
HandleSignal ==
  /\ signal = "entered" /\ ~MainHolds
  /\ closed' = closed \union active /\ signal' = "handled"
  /\ UNCHANGED <<main, inHand, stopping, thread, books>>

(* The thread that would call server.shutdown() cannot be started, and      *)
(* start() raises in the thread the signal interrupted, which may be        *)
(* waiting for the thread of a connection to begin.                         *)
HandlerRaises ==
  /\ signal = "entered" /\ ~MainHolds
  /\ \/ /\ main \in {"poll", "dropping"} /\ signal' = "left" /\ MainTo("closing") /\ inHand' = None
        /\ IF main = "dropping" /\ thread[inHand] = "unstarted" THEN Goes(inHand, "gone") ELSE UNCHANGED thread
        /\ closed' = closed \union active
     \/ /\ main \in {"admitted", "timing", "locking"}
        /\ signal' = IF main = "admitted" THEN "swallowed" ELSE "leaked"
        /\ Goes(inHand, "gone") /\ inHand' = None /\ MainTo("poll")
        /\ closed' = closed \union active \union {inHand}
     \/ /\ main = "starting" /\ signal' = "swallowed" /\ MainTo("failing") /\ UNCHANGED inHand
        /\ Goes(inHand, "unstarted") \/ Goes(inHand, "reading")
        /\ closed' = closed \union active
     \/ /\ main \in {"failing", "givingPending", "givingActive"} /\ signal' = "leaked"
        /\ MainTo("dropping") /\ UNCHANGED <<inHand, thread>>
        /\ closed' = closed \union active
  /\ UNCHANGED <<stopping, books>>

(* The thread the handler starts calls server.shutdown(). *)
AskToStop ==
  /\ signal = "handled" /\ ~stopping /\ stopping' = TRUE
  /\ UNCHANGED <<main, inHand, signal, thread, closed, books>>

LeaveLoop ==
  /\ MainAt("poll") /\ stopping /\ MainTo("closing")
  /\ UNCHANGED <<inHand, signal, stopping, thread, closed, books>>

(* Mistake: the connections are closed by the signal handler only. *)
CloseNothing ==
  /\ MainAt("closing") /\ MainTo("joining")
  /\ UNCHANGED <<inHand, signal, stopping, thread, closed, books>>

CloseServer ==
  /\ MainAt("closing") /\ MainTo("joining")
  /\ closed' = closed \union active
  /\ UNCHANGED <<inHand, signal, stopping, thread, books>>

JoinThreads ==
  /\ MainAt("joining") /\ MainTo("stopped")
  /\ \A c \in Conn : thread[c] \in {"new", "gone"}
  /\ UNCHANGED <<inHand, signal, stopping, thread, closed, books>>

-----------------------------------------------------------------------------
MainStep ==
  \/ TakePending \/ SetHeaderTimeout \/ EnterLock \/ Register \/ StartThread \/ StartFails
  \/ EnterRelease \/ Forget \/ GiveBack \/ Drop
  \/ HandleSignal \/ HandlerRaises \/ AskToStop \/ LeaveLoop \/ CloseServer \/ JoinThreads

Proceed(c) ==
  \/ TakeActive(c) \/ SetActiveTimeout(c) \/ Move(c) \/ LeavePending(c)
  \/ Release(c) \/ ReturnSlot(c)

Serve(c) == ParseRequest(c) \/ Respond(c) \/ HangUp(c)

Next ==
  \/ MainStep \/ Interrupt
  \/ \E c \in Conn : Accept(c) \/ Proceed(c) \/ Serve(c)

Spec == Init /\ [][Next]_vars

(* Threads that do not wait for a peer run; a read or a write on a closed   *)
(* socket returns.  Nothing obliges an open connection to end: timeouts may *)
(* be unlimited.                                                            *)
LiveSpec ==
  /\ Spec /\ WF_vars(MainStep)
  /\ \A c \in Conn : WF_vars(Proceed(c)) /\ WF_vars(c \in closed /\ (HangUp(c) \/ Respond(c)))

-----------------------------------------------------------------------------
TypeOK ==
  /\ main \in MainPoint /\ inHand \in Conn \union {None}
  /\ signal \in {"none", "entered", "handled"} \union Failure /\ stopping \in BOOLEAN
  /\ thread \in [Conn -> ThreadPoint]
  /\ closed \subseteq Conn /\ active \subseteq Conn /\ pending \subseteq Conn
  /\ activeSlots \in Nat /\ pendingSlots \in Nat

(* The connections a slot is taken for: registered, or on the way in or out *)
(* of the sets.                                                             *)
HoldsPending(c) ==
  \/ c \in pending
  \/ thread[c] \in {"promoted", "endedPending"}
  \/ inHand = c /\ main \in {"timing", "locking", "adding", "givingPending"}
HoldsActive(c) ==
  \/ c \in active \ pending
  \/ thread[c] \in {"timing", "moving", "endedActive"}
  \/ inHand = c /\ main = "givingActive"
PendingHolders == {c \in Conn : HoldsPending(c)}
ActiveHolders == {c \in Conn : HoldsActive(c)}

(* Each slot is free or taken for exactly one connection, whichever of the  *)
(* main thread and the connection's own releases it: none leaks and none is *)
(* given back twice (a bounded semaphore would raise), at any step.  A      *)
(* failing signal handler may end that bookkeeping half-way.                *)
SlotsAccounted ==
  signal # "leaked" =>
    /\ pendingSlots + Cardinality(PendingHolders) = MaxPending
    /\ activeSlots + Cardinality(ActiveHolders) = MaxActive

(* Once every thread is over and the main thread is idle, all slots are     *)
(* free and no socket is registered: connections that failed half-way took  *)
(* nothing with them.                                                       *)
NothingLeaked ==
  main = "poll" /\ signal # "leaked" /\ (\A c \in Conn : thread[c] \in {"new", "gone"})
    => active = {} /\ pendingSlots = MaxPending /\ activeSlots = MaxActive

(* A signal that finds the main thread without the lock ends the server,    *)
(* also when connections were being admitted or kept open at that moment,   *)
(* and also when the handler fails in the accept loop itself.  It may not   *)
(* end it when the handler fails while a request is being admitted.         *)
ShutdownCompletes ==
  (signal = "entered" /\ ~MainHolds) ~> (main = "stopped" \/ signal \in {"swallowed", "leaked"})

(* server.py: "Close active connections so graceful shutdown can complete." *)
(* The handler takes a lock that the interrupted thread may hold.           *)
GracefulShutdown == (signal = "entered") ~> (main = "stopped" \/ signal \in Failure)
=============================================================================
