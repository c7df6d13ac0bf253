------------------------------ MODULE ZoneContents ------------------------------
(***************************************************************************)
(* What requests do to the items of zones (PasteService in                 *)
(* runtime/service.py, the item level of runtime/storage.py): uploads with *)
(* deduplication and retention, direct drops that a command stages for the *)
(* daemon, deletions, renames, transfers between two zones, and commands   *)
(* that register a file they find, on devices that keep a reserve of space. *)
(*                                                                         *)
(* A change of one item is one step here, with the outcomes AtomicItem     *)
(* allows it: ItemTransaction is how the files get there.  The locks of    *)
(* the zones of a request are taken in one step: ZoneOperations is how.    *)
(***************************************************************************)
EXTENDS Naturals, FiniteSets

CONSTANTS
  None,
  Zone,
  Name,      \* file names, numbered in their order
  Data,      \* contents, told apart by their SHA-256
  Device,    \* the device of each zone
  Room,      \* items its device takes before the reserve of a zone is touched
  Retain,    \* items each zone retains
  Request,   \* bound: requests in one behaviour
  Orders,    \* what they may ask for: functions on Request
  Stocks,    \* what the zones may hold at first
  MaxFaults  \* bound: failing calls, process deaths and vanishing files

VARIABLES
  held,      \* the item under each name of each zone
  journal,   \* what the journal of a name has left behind
  zoneLock, deviceLock,
  order, at,
  run,       \* the local variables of each request
  staged,    \* direct drops whose staging file is in the zone
  faults

items == <<held, journal>>
locks == <<zoneLock, deviceLock>>
vars == <<held, journal, zoneLock, deviceLock, order, at, run, staged, faults>>

Item == [data : Data, created : Nat, comment : Data \union {None}]
OrderType == [op : {"upload", "delete", "rename", "comment", "register", "copy", "move"}, zone : Zone, to : Zone,
              names : SUBSET Name, into : Name \union {None}, replace : SUBSET Name,
              data : Data, created : Nat, staged : BOOLEAN]
Devices == {Device[z] : z \in Zone}
Mark == {"committed", "prepared", "deleting", "orphan", "foreign"}

ASSUME SetsAssumption == /\ Name \subseteq Nat /\ IsFiniteSet(Name) /\ IsFiniteSet(Zone)
                         /\ None \notin Name \union Request \union Item \union Mark /\ MaxFaults \in Nat
ASSUME LimitsAssumption == Retain \in [Zone -> Nat \ {0}] /\ Room \in [Zone -> Nat]
ASSUME OrdersAssumption ==
  /\ Orders \subseteq [Request -> OrderType]
  /\ \A o \in Orders, r \in Request :
       /\ o[r].op \in {"copy", "move"} => o[r].zone # o[r].to
       /\ o[r].op = "rename" => o[r].into \in Name \ o[r].names
       /\ o[r].staged => o[r].op = "upload" /\ o[r].names # {}
       /\ o[r].op \notin {"delete", "copy", "move"} => \E n \in Name : o[r].names \subseteq {n}
ASSUME StocksAssumption == Stocks \subseteq [Zone -> [Name -> Item \union {None}]]

(* left: names still to be worked on; picked: the items a transfer lists;   *)
(* doing: the item just saved; victims, evicted: of its retention; kept:    *)
(* published and retained; good, bad: the answer; dropped: what the answer  *)
(* says retention has deleted; blind: a read that failed was passed over,   *)
(* or the file was written to after the last look at it.                    *)
Blank == [left |-> {}, picked |-> [n \in Name |-> None], doing |-> None, victims |-> {},
          evicted |-> {}, stuck |-> FALSE, kept |-> {}, good |-> {}, bad |-> {},
          dropped |-> {}, blind |-> FALSE, code |-> None]

(* A file without a sidecar has no time of creation. *)
Unmanaged(item) == item # None /\ item.created = 0

Init ==
  /\ held \in Stocks
  /\ journal = [z \in Zone |-> [n \in Name |-> IF Unmanaged(held[z][n]) THEN "foreign" ELSE None]]
  /\ zoneLock = [z \in Zone |-> None] /\ deviceLock = [d \in Devices |-> None]
  /\ order \in Orders /\ at = [r \in Request |-> "new"] /\ run = [r \in Request |-> Blank]
  /\ staged = {} /\ faults = 0

Fault == faults < MaxFaults /\ faults' = faults + 1
Goes(r, point) == at' = [at EXCEPT ![r] = point]
Transfers(r) == order[r].op \in {"copy", "move"}
Unnamed(r) == order[r].op = "upload" /\ order[r].names = {}
Zones(r) == IF Transfers(r) THEN {order[r].zone, order[r].to} ELSE {order[r].zone}
Target(r) == IF Transfers(r) THEN order[r].to ELSE order[r].zone

-----------------------------------------------------------------------------
(* Items.  A journal left by a committed save shows the item, by a prepared *)
(* one or by a deletion it hides it; either refuses every mutation.  An     *)
(* "orphan" is the sidecar of a file an external process has deleted, a     *)
(* "foreign" file one without a sidecar: neither is an item.                *)

Shown(z) == {n \in Name : held[z][n] # None /\ journal[z][n] \in {None, "committed"}}
Hidden(z) == {n \in Name : held[z][n] # None /\ journal[z][n] \in {"prepared", "deleting"}}

(* list() passes over what it cannot read: without its sidecar or its data  *)
(* an item is missing, without its marker a journal hides nothing.  What is *)
(* shown then is taken to be what the name will hold again.                 *)
Lists(z, listing) ==
  \/ listing = Shown(z) /\ UNCHANGED faults
  \/ listing \in SUBSET (Shown(z) \union Hidden(z)) \ {Shown(z)} /\ Fault
Listing(z) == SUBSET (Shown(z) \union Hidden(z))

Becomes(z, n, item, mark) ==
  /\ held' = [held EXCEPT ![z][n] = item]
  /\ journal' = [journal EXCEPT ![z][n] = mark]

(* Cleanup, or the removal of a deletion's marker, may be deferred. *)
Changes(z, n, item) ==
  \/ Becomes(z, n, item, None) /\ UNCHANGED faults
  \/ Fault /\ Becomes(z, n, item, IF item = None THEN "deleting" ELSE "committed")

SaveFails(z, n, item) ==
  /\ Fault
  /\ \/ UNCHANGED items
     \/ Becomes(z, n, held[z][n], "prepared")
     \/ Becomes(z, n, item, "committed")

DeleteFails(z, n) == Fault /\ (UNCHANGED items \/ Becomes(z, n, held[z][n], "deleting"))

(* A sidecar that is written alone, without a journal: it is all there, or  *)
(* not at all, even when the call that published it fails.                  *)
SidecarFails(z, n, item) == Fault /\ (UNCHANGED items \/ Becomes(z, n, item, None))

Newer(z, m, n) ==
  \/ held[z][m].created > held[z][n].created
  \/ held[z][m].created = held[z][n].created /\ m > n

(* apply_retention: the oldest of a listing go, but not the item just saved. *)
Victims(z, saved, listing) ==
  LET others == listing \ {saved}
      room   == IF saved \in listing THEN Retain[z] - 1 ELSE Retain[z]
  IN {n \in others : Cardinality({m \in others : Newer(z, m, n)}) >= room}

(* ensure_space: staging files take space, but are written unchecked.  The  *)
(* reserve is that of the zone written to.                                  *)
Stored(d) == {p \in Zone \X Name : Device[p[1]] = d /\ held[p[1]][p[2]] # None}
Fits(z, incoming) ==
  LET d == Device[z] IN
  Cardinality(Stored(d)) + Cardinality({r \in staged : Device[order[r].zone] = d}) + incoming <= Room[z]

-----------------------------------------------------------------------------
(* A request enters and ends. *)

(* stage_direct_drop; a command that cannot stage uploads over HTTP. *)
Begin(r) ==
  /\ at[r] = "new" /\ Goes(r, "waiting")
  /\ \/ staged' = (IF order[r].staged THEN staged \union {r} ELSE staged) /\ UNCHANGED <<order, faults>>
     \/ order[r].staged /\ Fault /\ order' = [order EXCEPT ![r].staged = FALSE] /\ UNCHANGED staged
  /\ UNCHANGED <<items, locks, run>>

(* A daemon that does not take this client's direct drops: the command      *)
(* takes its staging file back and uploads over HTTP; if it cannot, it      *)
(* tries once more and gives up.                                            *)
Refuse(r) ==
  /\ at[r] = "waiting" /\ order[r].staged
  /\ \/ staged' = staged \ {r} /\ order' = [order EXCEPT ![r].staged = FALSE] /\ UNCHANGED <<at, faults>>
     \/ Fault /\ Goes(r, "closed") /\ staged' \in {staged, staged \ {r}} /\ UNCHANGED order
  /\ UNCHANGED <<items, locks, run>>

Entry(r) == CASE order[r].op = "delete" -> "deleting"
              [] order[r].op \in {"rename", "comment"} -> "amending"
              [] OTHER -> "looking"

(* Mistake: a request does not wait for the locks of its zones. *)
EnterAtOnce(r) ==
  /\ at[r] = "waiting"
  /\ zoneLock' = [z \in Zone |-> IF z \in Zones(r) THEN r ELSE zoneLock[z]]
  /\ Goes(r, Entry(r))
  /\ run' = [run EXCEPT ![r].left = order[r].names]
  /\ UNCHANGED <<items, deviceLock, order, staged, faults>>

Enter(r) ==
  /\ at[r] = "waiting" /\ \A z \in Zones(r) : zoneLock[z] = None
  /\ zoneLock' = [z \in Zone |-> IF z \in Zones(r) THEN r ELSE zoneLock[z]]
  /\ Goes(r, Entry(r))
  /\ run' = [run EXCEPT ![r].left = order[r].names]
  /\ UNCHANGED <<items, deviceLock, order, staged, faults>>

Freed(lock, r) == [x \in DOMAIN lock |-> IF lock[x] = r THEN None ELSE lock[x]]
Releases(r) == zoneLock' = Freed(zoneLock, r) /\ deviceLock' = Freed(deviceLock, r)

(* Mistake: an exception leaves the lock of the device taken. *)
EndsHolding(r, state, code) ==
  /\ run' = [run EXCEPT ![r] = [state EXCEPT !.code = code]]
  /\ Goes(r, "ended") /\ zoneLock' = Freed(zoneLock, r)
  /\ IF code = "ok" THEN deviceLock' = Freed(deviceLock, r) ELSE UNCHANGED deviceLock

Ends(r, state, code) ==
  /\ run' = [run EXCEPT ![r] = [state EXCEPT !.code = code]]
  /\ Goes(r, "ended") /\ Releases(r)

Continues(r, point, state) ==
  /\ run' = [run EXCEPT ![r] = state] /\ Goes(r, point) /\ UNCHANGED locks

(* What goes wrong with one name ends an upload, and is one entry in the    *)
(* answer of a transfer, which goes on with the next.                       *)
Fails(r, n, published, code) ==
  IF Transfers(r)
    THEN Continues(r, "saving", [run[r] EXCEPT !.left = @ \ {n}, !.bad = @ \union {<<n, published>>}])
    ELSE Ends(r, run[r], code)

-----------------------------------------------------------------------------
(* Before anything is written. *)

(* ensure_transfer_target_available, and the same checks of _save_named. *)
Availability(z, n, replace) ==
  CASE journal[z][n] # None -> "storage_conflict"
    [] journal[z][n] = None /\ held[z][n] # None /\ ~replace -> "replacement_required"
    [] OTHER -> "ok"

(* find_duplicate *)
Duplicate(z, data, listing) == \E n \in listing : held[z][n].data = data

(* read_direct_drop: the client may have taken its file back meanwhile. *)
LookAtUpload(r) ==
  /\ at[r] = "looking" /\ order[r].op = "upload"
  /\ IF order[r].staged /\ r \notin staged
       THEN Ends(r, run[r], "destination_error")
       ELSE Continues(r, "measuring", run[r])
  /\ UNCHANGED <<items, order, staged, faults>>

(* transfer: all selected items are known and all targets free, or none is  *)
(* transferred.                                                             *)
LookAtTransfer(r) ==
  /\ at[r] = "looking" /\ Transfers(r)
  /\ LET o == order[r]
         verdicts == {Availability(o.to, n, n \in o.replace) : n \in o.names} \ {"ok"}
     IN \/ \E listing \in Listing(o.zone) :
             /\ Lists(o.zone, listing)
             /\ \/ ~(o.names \subseteq listing) /\ Ends(r, run[r], "unknown_image")
                \/ o.names \subseteq listing /\ \E code \in verdicts : Ends(r, run[r], code)
                \/ /\ o.names \subseteq listing /\ verdicts = {}
                   /\ Continues(r, "measuring", [run[r] EXCEPT !.picked = held[o.zone]])
        \/ Fault /\ Ends(r, run[r], "destination_error")
  /\ UNCHANGED <<items, order, staged>>

(* Mistake: a transfer makes sure of the space of one item. *)
MeasureOne(r) ==
  /\ at[r] = "measuring" /\ deviceLock[Device[Target(r)]] = None
  /\ IF Fits(Target(r), 1)
       THEN /\ deviceLock' = [deviceLock EXCEPT ![Device[Target(r)]] = r]
            /\ Goes(r, "saving") /\ UNCHANGED <<zoneLock, run>>
       ELSE Ends(r, run[r], "storage_low")
  /\ UNCHANGED <<items, order, staged, faults>>

(* Under the lock of the device: an unnamed upload of content the zone has  *)
(* gets the item there is; otherwise the whole of the request must fit.     *)
Measure(r) ==
  /\ at[r] = "measuring" /\ deviceLock[Device[Target(r)]] = None
  /\ LET d == Device[Target(r)]
         incoming == IF Transfers(r) THEN Cardinality(order[r].names) ELSE 1
     IN \/ \E listing \in Listing(order[r].zone) :
             /\ Unnamed(r) /\ Lists(order[r].zone, listing)
             /\ Duplicate(order[r].zone, order[r].data, listing) /\ Ends(r, run[r], "duplicate")
        \/ /\ \/ ~Unnamed(r) /\ UNCHANGED faults
              \/ \E listing \in Listing(order[r].zone) :
                   Unnamed(r) /\ Lists(order[r].zone, listing) /\ ~Duplicate(order[r].zone, order[r].data, listing)
           /\ \/ ~Fits(Target(r), incoming) /\ Ends(r, run[r], "storage_low")
              \/ /\ Fits(Target(r), incoming) /\ deviceLock' = [deviceLock EXCEPT ![d] = r]
                 /\ Goes(r, "saving") /\ UNCHANGED <<zoneLock, run>>
        \/ Fault /\ Ends(r, run[r], "destination_error")
  /\ UNCHANGED <<items, order, staged>>

-----------------------------------------------------------------------------
(* Saving one item, and the retention that follows it. *)

(* An upload without a name takes one that nothing uses. *)
Choices(r) ==
  IF ~Unnamed(r) THEN run[r].left
  ELSE {n \in Name : held[order[r].zone][n] = None /\ journal[order[r].zone][n] = None}

Incoming(r, n) ==
  IF Transfers(r) THEN held[order[r].zone][n]
  ELSE [data |-> order[r].data, created |-> order[r].created, comment |-> None]

Save(r, n) ==
  /\ at[r] = "saving" /\ n \in Choices(r)
  /\ LET z == Target(r)
         item == Incoming(r, n)
         verdict == Availability(z, n, n \in order[r].replace)
         refused == item = None \/ verdict # "ok"
     IN \/ refused /\ Fails(r, n, FALSE, verdict) /\ UNCHANGED <<items, faults>>
        \/ ~refused /\ Changes(z, n, item) /\ Continues(r, "retaining", [run[r] EXCEPT !.doing = n])
        \/ ~refused /\ SaveFails(z, n, item) /\ Fails(r, n, FALSE, "destination_error")
  /\ UNCHANGED <<order, staged>>

(* No name was free in eight attempts. *)
NoName(r) ==
  /\ at[r] = "saving" /\ Unnamed(r) /\ Choices(r) = {}
  /\ Ends(r, run[r], "destination_error")
  /\ UNCHANGED <<items, order, staged, faults>>

ListVictims(r) ==
  /\ at[r] = "retaining"
  /\ \/ \E listing \in Listing(Target(r)) :
          /\ Lists(Target(r), listing)
          /\ Continues(r, "evicting",
               [run[r] EXCEPT !.victims = Victims(Target(r), run[r].doing, listing), !.evicted = {}, !.stuck = FALSE,
                              !.blind = @ \/ listing # Shown(Target(r))])
     \/ Fault /\ Fails(r, run[r].doing, TRUE, "destination_error")
  /\ UNCHANGED <<items, order, staged>>

(* A victim that cannot be deleted does not save the next. *)
Evict(r, n) ==
  /\ at[r] = "evicting" /\ n \in run[r].victims
  /\ LET z == Target(r)
         spared == [run[r] EXCEPT !.victims = @ \ {n}, !.stuck = TRUE]
         refused == held[z][n] = None \/ journal[z][n] # None
     IN \/ refused /\ Continues(r, "evicting", spared) /\ UNCHANGED <<items, faults>>
        \/ ~refused /\ Changes(z, n, None)
           /\ Continues(r, "evicting", [run[r] EXCEPT !.victims = @ \ {n}, !.evicted = @ \union {n}])
        \/ ~refused /\ DeleteFails(z, n) /\ Continues(r, "evicting", spared)
  /\ UNCHANGED <<order, staged>>

(* A failed retention hides what it has deleted from the answer. *)
Retained(r) ==
  /\ at[r] = "evicting" /\ run[r].victims = {}
  /\ LET n == run[r].doing
         state == [run[r] EXCEPT !.left = @ \ {n}, !.kept = @ \union {n}, !.dropped = @ \union run[r].evicted]
     IN IF run[r].stuck THEN Fails(r, n, TRUE, "retention_error")
        ELSE CASE Transfers(r) -> Continues(r, "saving", state)
               [] ~Transfers(r) /\ order[r].staged -> Continues(r, "unstaging", state)
               [] OTHER -> Ends(r, state, "ok")
  /\ UNCHANGED <<items, order, staged, faults>>

(* Mistake: the daemon leaves the staging file to the command. *)
UnstageNothing(r) ==
  /\ at[r] = "unstaging" /\ Ends(r, run[r], "ok")
  /\ UNCHANGED <<items, order, staged, faults>>

(* discard_direct_drop of the daemon: gone is as good. *)
Unstage(r) ==
  /\ at[r] = "unstaging"
  /\ \/ staged' = staged \ {r} /\ UNCHANGED faults /\ Ends(r, run[r], "ok")
     \/ Fault /\ UNCHANGED staged /\ Ends(r, run[r], "destination_error")
  /\ UNCHANGED <<items, order>>

-----------------------------------------------------------------------------
(* The end of a transfer, and deletions. *)

(* Mistake: what was published is taken to be there still. *)
ConfirmBlindly(r) ==
  /\ at[r] = "saving" /\ Transfers(r) /\ run[r].left = {}
  /\ IF order[r].op = "move"
       THEN Continues(r, "removing", [run[r] EXCEPT !.left = run[r].kept])
       ELSE Ends(r, [run[r] EXCEPT !.good = run[r].kept], "ok")
  /\ UNCHANGED <<items, order, staged, faults>>

(* Retention for a later item may have removed an earlier one: the target   *)
(* is listed once more.                                                     *)
Confirm(r) ==
  /\ at[r] = "saving" /\ Transfers(r) /\ run[r].left = {}
  /\ \/ \E listing \in Listing(order[r].to) :
          LET there == run[r].kept \intersect listing
              state == [run[r] EXCEPT !.bad = @ \union {<<n, TRUE>> : n \in run[r].kept \ there},
                                      !.blind = @ \/ listing # Shown(order[r].to)]
          IN /\ Lists(order[r].to, listing)
             /\ IF order[r].op = "move"
                  THEN Continues(r, "removing", [state EXCEPT !.left = there])
                  ELSE Ends(r, [state EXCEPT !.good = there], "ok")
     \/ run[r].kept # {} /\ Fault /\ Ends(r, run[r], "destination_error")
  /\ UNCHANGED <<items, order, staged>>

(* Mistake: no `continue` after a failed deletion. *)
RemoveRegardless(r, n) ==
  /\ at[r] = "removing" /\ n \in run[r].left
  /\ LET z == order[r].zone
         done == [run[r] EXCEPT !.left = @ \ {n}, !.good = @ \union {n}]
         failed == [done EXCEPT !.bad = @ \union {<<n, TRUE>>}]
     IN \/ held[z][n] # None /\ journal[z][n] = None /\ Changes(z, n, None) /\ Continues(r, "removing", done)
        \/ held[z][n] # None /\ journal[z][n] = None /\ DeleteFails(z, n) /\ Continues(r, "removing", failed)
        \/ (held[z][n] = None \/ journal[z][n] # None) /\ UNCHANGED <<items, faults>> /\ Continues(r, "removing", failed)
  /\ UNCHANGED <<order, staged>>

(* The source of a transfer that has gone already is said both to have      *)
(* failed and to be done.                                                   *)
Remove(r, n) ==
  /\ at[r] = "removing" /\ n \in run[r].left
  /\ LET z == order[r].zone
         done == [run[r] EXCEPT !.left = @ \ {n}, !.good = @ \union {n}]
         failed == [run[r] EXCEPT !.left = @ \ {n}, !.bad = @ \union {<<n, TRUE>>}]
         gone == held[z][n] = None
         blocked == ~gone /\ journal[z][n] # None
     IN \/ gone /\ UNCHANGED <<items, faults>>
           /\ Continues(r, "removing", [failed EXCEPT !.good = @ \union {n}])
        \/ blocked /\ UNCHANGED <<items, faults>> /\ Continues(r, "removing", failed)
        \/ ~gone /\ ~blocked /\ Changes(z, n, None) /\ Continues(r, "removing", done)
        \/ ~gone /\ ~blocked /\ DeleteFails(z, n) /\ Continues(r, "removing", failed)
  /\ UNCHANGED <<order, staged>>

(* delete, delete_many: one file after the other. *)
Delete(r, n) ==
  /\ at[r] = "deleting" /\ n \in run[r].left
  /\ LET z == order[r].zone
         done == [run[r] EXCEPT !.left = @ \ {n}, !.good = @ \union {n}]
         failed == [run[r] EXCEPT !.left = @ \ {n}, !.bad = @ \union {<<n, FALSE>>}]
         refused == held[z][n] = None \/ journal[z][n] # None
     IN \/ refused /\ UNCHANGED <<items, faults>> /\ Continues(r, "deleting", failed)
        \/ ~refused /\ Changes(z, n, None) /\ Continues(r, "deleting", done)
        \/ ~refused /\ DeleteFails(z, n) /\ Continues(r, "deleting", failed)
  /\ UNCHANGED <<order, staged>>

Removed(r) ==
  /\ at[r] \in {"removing", "deleting"} /\ run[r].left = {} /\ Ends(r, run[r], "ok")
  /\ UNCHANGED <<items, order, staged, faults>>

(* rename never replaces its target; its journal names both. *)
Rename(r, n) ==
  /\ at[r] = "amending" /\ order[r].op = "rename" /\ n \in order[r].names
  /\ LET z == order[r].zone
         m == order[r].into
         moved(mark) == /\ held' = [held EXCEPT ![z] = [@ EXCEPT ![m] = held[z][n], ![n] = None]]
                        /\ journal' = [journal EXCEPT ![z] = [@ EXCEPT ![m] = mark, ![n] = mark]]
         refused == held[z][n] = None \/ held[z][m] # None \/ journal[z][n] # None \/ journal[z][m] # None
     IN \/ refused /\ UNCHANGED <<items, faults>> /\ Ends(r, run[r], "storage_conflict")
        \/ ~refused /\ moved(None) /\ UNCHANGED faults /\ Ends(r, run[r], "ok")
        \/ ~refused /\ Fault /\ moved("committed") /\ \E code \in {"ok", "destination_error"} : Ends(r, run[r], code)
        \/ ~refused /\ Fault /\ UNCHANGED items /\ Ends(r, run[r], "destination_error")
        \/ /\ ~refused /\ Fault /\ UNCHANGED held /\ Ends(r, run[r], "destination_error")
           /\ journal' = [journal EXCEPT ![z] = [@ EXCEPT ![m] = "prepared", ![n] = "prepared"]]
  /\ UNCHANGED <<order, staged>>

(* _cmd_register_path reads the file, classifies it, and only then writes   *)
(* its sidecar, under the lock of the zone but with no retention.           *)
ReadForeign(r, n) ==
  /\ at[r] = "looking" /\ order[r].op = "register" /\ n \in order[r].names
  /\ LET z == order[r].zone IN
     \/ held[z][n] = None /\ Ends(r, run[r], "storage_conflict") /\ UNCHANGED faults
     \/ held[z][n] # None /\ Continues(r, "registering", [run[r] EXCEPT !.picked = held[z]]) /\ UNCHANGED faults
     \/ Fault /\ Ends(r, run[r], "destination_error")
  /\ UNCHANGED <<items, order, staged>>

(* The file is read once more, and must be what was read; an item keeps its *)
(* comment, unless its sidecar cannot be read.                              *)
Register(r, n) ==
  /\ at[r] = "registering" /\ n \in order[r].names
  /\ LET z == order[r].zone
         same == /\ journal[z][n] \in {None, "foreign"} /\ held[z][n] # None
                 /\ held[z][n].data = run[r].picked[n].data
     IN \/ ~same /\ UNCHANGED faults /\ Ends(r, run[r], "storage_conflict")
        \/ same /\ UNCHANGED faults /\ Continues(r, "publishing", run[r])
        \/ same /\ Fault /\ Continues(r, "publishing", [run[r] EXCEPT !.picked[n].comment = None, !.blind = TRUE])
        \/ Fault /\ Ends(r, run[r], "destination_error")
  /\ UNCHANGED <<items, order, staged>>

(* What the sidecar makes of the file. *)
Registered(r, n, data) ==
  [data |-> data, created |-> order[r].created, comment |-> run[r].picked[n].comment]

(* The sidecar appears or is replaced in one step, and taken away again if  *)
(* the file has gone or is another one by then; a file that was written to  *)
(* in place since the comparison is the same one.                           *)
Publish(r, n) ==
  /\ at[r] = "publishing" /\ n \in order[r].names
  /\ LET z == order[r].zone
         same == held[z][n] # None /\ held[z][n].data = run[r].picked[n].data
         edited == [run[r] EXCEPT !.blind = TRUE]
     IN \/ ~same /\ UNCHANGED <<items, faults>> /\ Ends(r, run[r], "storage_conflict")
        \/ /\ same /\ UNCHANGED faults /\ Ends(r, run[r], "ok")
           /\ Becomes(z, n, Registered(r, n, run[r].picked[n].data), None)
        \/ /\ same /\ journal[z][n] = "foreign" /\ Fault /\ Ends(r, edited, "ok")
           /\ \E data \in Data : Becomes(z, n, Registered(r, n, data), None)
        \/ /\ same /\ SidecarFails(z, n, Registered(r, n, run[r].picked[n].data))
           /\ Ends(r, run[r], "destination_error")
  /\ UNCHANGED <<order, staged>>

(* update_comment replaces the sidecar in one step, without a journal. *)
Comment(r, n) ==
  /\ at[r] = "amending" /\ order[r].op = "comment" /\ n \in order[r].names
  /\ LET z == order[r].zone
         refused == held[z][n] = None \/ journal[z][n] # None
         noted == [held[z][n] EXCEPT !.comment = order[r].data]
     IN \/ refused /\ UNCHANGED <<items, faults>> /\ Ends(r, run[r], "storage_conflict")
        \/ ~refused /\ Becomes(z, n, noted, None) /\ UNCHANGED faults /\ Ends(r, run[r], "ok")
        \/ ~refused /\ SidecarFails(z, n, noted) /\ Ends(r, run[r], "destination_error")
  /\ UNCHANGED <<order, staged>>

-----------------------------------------------------------------------------
(* What happens around a request. *)

(* The command has its answer, or a broken connection.  After an answer of  *)
(* success it leaves the staging file to the daemon, which has removed it;  *)
(* otherwise it takes the file back, and an answer may have been lost.      *)
Collect(r) ==
  /\ at[r] \in {"ended", "dead"} /\ Goes(r, "closed")
  /\ \/ at[r] = "ended" /\ run[r].code = "ok" /\ UNCHANGED <<staged, faults>>
     \/ (at[r] = "dead" \/ run[r].code # "ok") /\ staged' = staged \ {r} /\ UNCHANGED faults
     \/ r \in staged /\ Fault /\ staged' \in {staged, staged \ {r}}
  /\ UNCHANGED <<items, locks, order, run>>

(* The client of a direct drop no longer waits; the daemon works on. *)
GiveUp(r) ==
  /\ r \in staged /\ at[r] \notin {"ended", "dead", "closed"} /\ staged' = staged \ {r}
  /\ UNCHANGED <<items, locks, order, at, run, faults>>

Inside(r) == at[r] \notin {"new", "waiting", "ended", "dead", "closed"}

(* A death inside a change of an item leaves what a failed one may leave,   *)
(* so it is a failed change with a death after it.                          *)
Die(r) ==
  /\ Inside(r) /\ Fault /\ Goes(r, "dead") /\ Releases(r)
  /\ UNCHANGED <<items, order, run, staged>>

(* A process that starts reconciles each zone under its lock: a deletion    *)
(* that could not be undone is finished, or undone.                         *)
Reconcile(z) ==
  /\ zoneLock[z] = None
  /\ LET marked == {n \in Name : journal[z][n] \in {"committed", "prepared", "deleting"}}
     IN /\ marked # {}
        /\ journal' = [journal EXCEPT ![z] = [n \in Name |-> IF n \in marked THEN None ELSE journal[z][n]]]
        /\ \E doomed \in SUBSET {n \in marked : journal[z][n] = "deleting"} :
             held' = [held EXCEPT ![z] = [n \in Name |-> IF n \in doomed THEN None ELSE held[z][n]]]
  /\ UNCHANGED <<locks, order, at, run, staged, faults>>

(* An external process deletes a data file. *)
Vanish(z, n) ==
  /\ held[z][n] # None /\ journal[z][n] \in {None, "foreign"} /\ Fault
  /\ Becomes(z, n, None, IF journal[z][n] = None THEN "orphan" ELSE None)
  /\ UNCHANGED <<locks, order, at, run, staged>>

(* An external process writes to a file that is not an item yet. *)
Rewrite(z, n, data) ==
  /\ journal[z][n] = "foreign" /\ data # held[z][n].data /\ Fault
  /\ held' = [held EXCEPT ![z][n].data = data]
  /\ UNCHANGED <<journal, locks, order, at, run, staged>>

-----------------------------------------------------------------------------
Works(r) ==
  \/ Enter(r) \/ LookAtUpload(r) \/ LookAtTransfer(r) \/ Measure(r)
  \/ \E n \in Name : Save(r, n) \/ Evict(r, n) \/ Remove(r, n) \/ Delete(r, n) \/ Rename(r, n) \/ Comment(r, n)
                     \/ ReadForeign(r, n) \/ Register(r, n) \/ Publish(r, n)
  \/ NoName(r) \/ ListVictims(r) \/ Retained(r) \/ Unstage(r) \/ Confirm(r) \/ Removed(r)

Next ==
  \/ \E r \in Request : Begin(r) \/ Refuse(r) \/ Works(r) \/ Collect(r) \/ GiveUp(r) \/ Die(r)
  \/ \E z \in Zone : Reconcile(z) \/ \E n \in Name : Vanish(z, n) \/ \E data \in Data : Rewrite(z, n, data)

Spec == Init /\ [][Next]_vars

(* A thread that waits for nobody runs on; a lock that is free now and then *)
(* is promised to nobody, but requests are finitely many.                   *)
LiveSpec == Spec /\ \A r \in Request : WF_vars(Begin(r)) /\ WF_vars(Works(r)) /\ WF_vars(Collect(r))

-----------------------------------------------------------------------------
Point == {"new", "waiting", "looking", "measuring", "saving", "retaining", "evicting", "unstaging",
          "removing", "deleting", "amending", "registering", "publishing", "ended", "dead", "closed"}
Code == {None, "ok", "duplicate", "unknown_image", "storage_conflict", "replacement_required",
         "storage_low", "retention_error", "destination_error"}

Run == [left : SUBSET Name, picked : [Name -> Item \union {None}], doing : Name \union {None},
        victims : SUBSET Name, evicted : SUBSET Name, stuck : BOOLEAN, kept : SUBSET Name,
        good : SUBSET Name, bad : SUBSET (Name \X BOOLEAN), dropped : SUBSET Name, blind : BOOLEAN, code : Code]

(* The locks a request holds wherever it is: both of its zones while it is  *)
(* inside, and the device of its target only while it writes there.         *)
LocksHeld ==
  /\ \A r \in Request, z \in Zone : zoneLock[z] = r <=> Inside(r) /\ z \in Zones(r)
  /\ \A r \in Request, d \in Devices :
       deviceLock[d] = r => d = Device[Target(r)] /\ at[r] \in {"saving", "retaining", "evicting", "unstaging", "removing"}

(* Types, and the locks of each request.                                    *)
TypeOK ==
  /\ held \in [Zone -> [Name -> Item \union {None}]] /\ journal \in [Zone -> [Name -> Mark \union {None}]]
  /\ order \in [Request -> OrderType] /\ at \in [Request -> Point] /\ run \in [Request -> Run]
  /\ staged \subseteq Request /\ faults \in 0..MaxFaults
  /\ zoneLock \in [Zone -> Request \union {None}] /\ deviceLock \in [Devices -> Request \union {None}]
  /\ LocksHeld

(* service.py (the lock of a device, taken before ensure_space and held     *)
(* until the last item is published): no step takes the room of one item    *)
(* more and leaves the device with less than the reserve of the zone it     *)
(* writes to, whatever else is published in other zones of it meanwhile.    *)
(* The reserve of another zone is not looked at.                            *)
SpaceKept ==
  [][\A z \in Zone, n \in Name :
       LET d == Device[z] IN
       /\ held[z][n] = None /\ held'[z][n] # None
       /\ Cardinality(Stored(d)') > Cardinality(Stored(d))
       => Cardinality(Stored(d)') <= Room[z]]_vars

(* An item is there, or has been taken by an external process. *)
Holds(z, n, data) == journal[z][n] = "orphan" \/ (n \in Shown(z) /\ held[z][n].data = data)
HoldsItem(z, n, item) == journal[z][n] = "orphan" \/ (n \in Shown(z) /\ held[z][n] = item)
Orphans(z) == {n \in Name : journal[z][n] = "orphan"}

(* What a listing that may have passed something over can have shown. *)
Seen(r, z) == IF run[r].blind THEN Shown(z) \union Hidden(z) ELSE Shown(z)
HasSeen(r, z, n, item) == journal[z][n] = "orphan" \/ (n \in Seen(r, z) /\ held[z][n] = item)

(* What a request may take from a zone: what it was asked to delete, rename *)
(* or replace; the source of a move whose target shows the same content, or *)
(* hides it behind a marker that could not be read; what retention does not *)
(* retain (not counting what an external process takes away while it        *)
(* works).                                                                  *)
Entitled(r, z, n) ==
  LET o == order[r] IN
  \/ z = o.zone /\ o.op \in {"delete", "rename"} /\ n \in o.names
  \/ z = Target(r) /\ n \in o.replace
  \/ /\ o.op = "move" /\ z = o.zone /\ n \in o.names
     /\ journal[o.to][n] = "orphan" \/ (n \in Seen(r, o.to) /\ held[o.to][n].data = held[z][n].data)
  \/ o.op \in {"upload", "copy", "move"} /\ z = Target(r)
     /\ Cardinality(Seen(r, z) \union Orphans(z)) > Retain[z]

(* Nothing is lost: an item disappears or changes its content only by a     *)
(* request entitled to that, by the completion of a deletion that was asked *)
(* for, or by an external process; a file that is not an item is touched by *)
(* no request, and written to by an external process only.  In particular a *)
(* move deletes a source only while its target holds the content, and only  *)
(* an unread marker lets it do so while that target is being deleted.       *)
NothingLost ==
  [][\A z \in Zone, n \in Name :
       held[z][n] # None /\ (held'[z][n] = None \/ held'[z][n].data # held[z][n].data) =>
         \/ journal[z][n] = "deleting" \/ journal'[z][n] = "orphan"
         \/ /\ journal[z][n] = "foreign"
            /\ UNCHANGED at \/ \E r \in Request : at[r] = "publishing" /\ run'[r].blind /\ Fault
         \/ journal[z][n] # "foreign" /\ \E r \in Request : Inside(r) /\ Entitled(r, z, n)]_vars

Gone(z, n) == held[z][n] = None

(* What the answer to a request says of the items, as the code of each      *)
(* handler builds it.                                                       *)
Truthful(r) ==
  LET o == order[r]
      good == run[r].good
      failed == {b[1] : b \in run[r].bad}
  IN CASE o.op = "upload" ->
            /\ Holds(o.zone, run[r].doing, o.data)
            /\ run[r].blind \/ Cardinality(Shown(o.zone)) <= Retain[o.zone]
       [] o.op = "delete" ->
            /\ good \union failed = o.names /\ good \intersect failed = {}
            /\ \A n \in good : Gone(o.zone, n)
       [] o.op = "comment" -> \A n \in o.names : held[o.zone][n].comment = o.data
       [] o.op = "register" ->
            \A n \in o.names :
              \/ HoldsItem(o.zone, n, [run[r].picked[n] EXCEPT !.created = o.created])
              \/ run[r].blind /\ n \in Shown(o.zone) /\ held[o.zone][n].created = o.created
       [] o.op = "rename" -> \A n \in o.names : Gone(o.zone, n) /\ o.into \in Shown(o.zone)
       [] Transfers(r) ->
            /\ good \union failed = o.names
            /\ \A n \in good : HasSeen(r, o.to, n, run[r].picked[n]) /\ (o.op = "move" => Gone(o.zone, n))
            /\ \A n \in failed \ good : journal[o.zone][n] = "orphan" \/ held[o.zone][n] = run[r].picked[n]
            /\ run[r].dropped \intersect Shown(o.to) \subseteq o.names
            /\ (good # {} /\ failed = {} /\ ~run[r].blind => Cardinality(Shown(o.to)) <= Retain[o.to])

(* What an answer of success says is true when the locks are given back: an *)
(* upload is there and its zone within its retention; what a transfer has   *)
(* transferred is in the target, with its comment, and after a move no      *)
(* longer in the source; what it has not is still in the source; every name *)
(* asked for is in the answer; what retention is said to have deleted is    *)
(* gone, but for a name the transfer was asked for itself and published     *)
(* after that (service.py, upload_spooled() to rename()).  A registered     *)
(* file is an item with the content that was read and classified and the    *)
(* comment it had (storage.py, _register_named()).  A read that was passed  *)
(* over may leave a zone with more than it retains, a target hidden behind  *)
(* its journal or an item without its comment, and a file written to during *)
(* its registration is registered as it is then: nothing else goes wrong.   *)
AnswerTrue ==
  [][\A r \in Request : at[r] # "ended" /\ at'[r] = "ended" /\ run'[r].code = "ok" => Truthful(r)']_vars

(* Without failing calls and deaths, no staging file outlives its command,  *)
(* whatever the daemon answered and whenever the command gave up: the       *)
(* daemon has removed it whenever it says so, and the command removes it    *)
(* whenever the daemon does not.                                            *)
StageRetired == \A r \in Request : at[r] = "closed" /\ r \in staged => faults > 0

(* Every request that reaches the program is answered, or its process dies. *)
AllAnswered == \A r \in Request : <>(at[r] = "closed")
=============================================================================
