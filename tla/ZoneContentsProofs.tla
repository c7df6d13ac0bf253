-------------------------- MODULE ZoneContentsProofs --------------------------
(***************************************************************************)
(* What requests on the items of zones guarantee, for any zones, devices,  *)
(* orders, limits and failures: the locks they hold, the reserve of each   *)
(* device, the staging files of direct drops, that nothing is lost, and    *)
(* that an answer of success is true.                                      *)
(***************************************************************************)
EXTENDS ZoneContents, FiniteSetTheorems, WellFoundedInduction, TLAPS

Saves == {"saving", "retaining", "evicting"}
Writer(r) == order[r].op \in {"upload", "copy", "move"}

(* Orders stay what was asked for; only a direct drop may become an upload. *)
OrdersOK ==
  \A r \in Request :
    /\ Transfers(r) => order[r].zone # order[r].to
    /\ order[r].op = "rename" => order[r].into \in Name \ order[r].names
    /\ order[r].op \notin {"delete", "copy", "move"} => \E n \in Name : order[r].names \subseteq {n}
    /\ order[r].staged => order[r].op = "upload"

(* Where a request is, for what, and with what left to do. *)
PointOK(r) ==
  /\ at[r] = "looking" => order[r].op \in {"upload", "copy", "move", "register"}
  /\ at[r] = "measuring" => Writer(r)
  /\ at[r] \in Saves => Writer(r) /\ deviceLock[Device[Target(r)]] = r
  /\ at[r] \in {"retaining", "evicting"} => run[r].doing \in Name
  /\ at[r] = "unstaging" => order[r].op = "upload"
  /\ at[r] = "removing" => order[r].op = "move"
  /\ at[r] = "deleting" => order[r].op = "delete"
  /\ at[r] = "amending" => order[r].op \in {"rename", "comment"}
  /\ at[r] \in {"registering", "publishing"} =>
       order[r].op = "register" /\ \A n \in order[r].names : run[r].picked[n] \in Item
  /\ Inside(r) => run[r].left \subseteq order[r].names
  /\ at[r] \in {"looking", "measuring"} => run[r].left = order[r].names
  /\ at[r] \in {"new", "waiting", "looking", "measuring"} => run[r].kept = {}
  /\ at[r] \in Saves /\ Transfers(r) => run[r].kept \subseteq order[r].names \ run[r].left
  /\ at[r] \in {"retaining", "evicting"} /\ Transfers(r) => run[r].doing \in run[r].left
PointsOK == \A r \in Request : PointOK(r)

(* A file without a sidecar is a file. *)
ForeignThere == \A z \in Zone, n \in Name : journal[z][n] = "foreign" => held[z][n] # None

(* What a request that holds the lock of a device has still to publish has  *)
(* room, before the reserve of its zone is touched.                         *)
Owed(r) ==
  CASE at[r] = "saving" -> IF Transfers(r) THEN Cardinality(run[r].left) ELSE 1
    [] at[r] \in {"retaining", "evicting"} -> IF Transfers(r) THEN Cardinality(run[r].left \ {run[r].doing}) ELSE 0
    [] OTHER -> 0
RoomPromised ==
  \A r \in Request, d \in Devices : deviceLock[d] = r => Cardinality(Stored(d)) + Owed(r) <= Room[Target(r)]

(* An orphan is a sidecar without a file. *)
OrphanGone == \A z \in Zone, n \in Name : journal[z][n] = "orphan" => held[z][n] = None

(* What a transfer has read is in the source, and what it has published in  *)
(* the target, but for what an external process takes away.                 *)
Copied(r, n) ==
  n \in Shown(order[r].to) \union Hidden(order[r].to) => held[order[r].to][n] = run[r].picked[n]
SourceOK(r, n) ==
  \/ held[order[r].zone][n] = run[r].picked[n] /\ journal[order[r].zone][n] # "foreign"
  \/ journal[order[r].zone][n] = "orphan"
TransferOK(r) ==
  Transfers(r) =>
    /\ at[r] \in {"measuring"} \union Saves => \A n \in order[r].names : SourceOK(r, n)
    /\ at[r] \in Saves => \A n \in run[r].kept : Copied(r, n)
    /\ at[r] \in {"retaining", "evicting"} => Copied(r, run[r].doing)
    /\ at[r] = "removing" => \A n \in run[r].left : SourceOK(r, n) /\ HasSeen(r, order[r].to, n, run[r].picked[n])
TransfersOK == \A r \in Request : TransferOK(r)

(* Retention deletes only what is more than the zone retains. *)
Counted(r, z) == Seen(r, z) \union Orphans(z)
EvictionOK(r) ==
  \A z \in Zone : at[r] = "evicting" /\ z = Target(r) /\ run[r].victims # {} =>
    Cardinality(Counted(r, z)) >= Retain[z] + Cardinality(run[r].victims)
EvictionsOK == \A r \in Request : EvictionOK(r)

-----------------------------------------------------------------------------
(* Types *)

Types ==
  /\ held \in [Zone -> [Name -> Item \union {None}]] /\ journal \in [Zone -> [Name -> Mark \union {None}]]
  /\ order \in [Request -> OrderType] /\ at \in [Request -> Point] /\ run \in [Request -> Run]
  /\ staged \subseteq Request /\ faults \in 0..MaxFaults
  /\ zoneLock \in [Zone -> Request \union {None}] /\ deviceLock \in [Devices -> Request \union {None}]

(* The type invariant is that of the values and that of the locks.          *)
LEMMA TypesParts == TypeOK <=> Types /\ LocksHeld
BY DEF TypeOK, Types

(* A change of an item leaves the items well-formed.                        *)
LEMMA BecomesTyped ==
  ASSUME Types, ForeignThere, NEW z \in Zone, NEW n \in Name, NEW item \in Item \union {None},
         NEW mark \in (Mark \union {None}) \ {"foreign"}, Becomes(z, n, item, mark)
  PROVE  /\ held' \in [Zone -> [Name -> Item \union {None}]] /\ journal' \in [Zone -> [Name -> Mark \union {None}]]
         /\ ForeignThere'
BY DEF Becomes, Types, ForeignThere

(* A fault is counted within its bound.                                     *)
LEMMA FaultTyped == ASSUME Types PROVE Fault \/ UNCHANGED faults => faults' \in 0..MaxFaults
BY SetsAssumption DEF Fault, Types

(* Every change of an item leaves items and journals typed.                 *)
LEMMA ChangeTyped ==
  ASSUME Types, ForeignThere, NEW z \in Zone, NEW n \in Name, NEW item \in Item \union {None},
         \/ UNCHANGED <<items, faults>>
         \/ Changes(z, n, item) \/ SaveFails(z, n, item) \/ DeleteFails(z, n) \/ SidecarFails(z, n, item)
         \/ Becomes(z, n, item, None) /\ UNCHANGED faults
  PROVE  /\ held' \in [Zone -> [Name -> Item \union {None}]] /\ journal' \in [Zone -> [Name -> Mark \union {None}]]
         /\ faults' \in 0..MaxFaults /\ ForeignThere'
<1>1. faults' \in 0..MaxFaults BY FaultTyped DEF Changes, SaveFails, DeleteFails, SidecarFails
<1>2. CASE UNCHANGED items BY <1>1, <1>2 DEF items, Types, ForeignThere
<1>3. held[z][n] \in Item \union {None} BY DEF Types
<1>4. CASE ~UNCHANGED items
  <2>1. \E i \in Item \union {None}, mark \in (Mark \union {None}) \ {"foreign"} : Becomes(z, n, i, mark)
    <3>1. {None, "committed", "prepared", "deleting"} \subseteq (Mark \union {None}) \ {"foreign"}
      BY SetsAssumption DEF Mark
    <3> QED BY <1>3, <1>4, <3>1 DEF Changes, SaveFails, DeleteFails, SidecarFails, items
  <2> QED BY <1>1, <2>1, BecomesTyped
<1> QED BY <1>2, <1>4

(* What a handler inside its zones does: it goes on, keeping the locks, or  *)
(* it ends and gives them back.                                             *)
Inner == Point \ {"new", "waiting", "ended", "dead", "closed"}
Writing == {"saving", "retaining", "evicting", "unstaging", "removing"}
GoesOn(r) == \E p \in Inner, s \in Run : Continues(r, p, s) /\ (at[r] \in Writing => p \in Writing)
Stops(r) == \E s \in Run, code \in Code : Ends(r, s, code)
Proceeds(r) == order' = order /\ Inside(r) /\ (GoesOn(r) \/ Stops(r))

(* The fields of an order and of a run are typed.                           *)
LEMMA OrderTyped ==
  ASSUME Types, NEW r \in Request
  PROVE  /\ run[r] \in Run /\ order[r] \in OrderType
         /\ order[r].zone \in Zone /\ order[r].to \in Zone /\ Target(r) \in Zone /\ Zones(r) \subseteq Zone
         /\ order[r].names \subseteq Name /\ order[r].data \in Data /\ order[r].created \in Nat
BY DEF Types, OrderType, Target, Zones

(* A run with another list of failures is one, ...                          *)
LEMMA AnswerTyped ==
  ASSUME NEW s \in Run, NEW L \in SUBSET Name, NEW B \in SUBSET (Name \X BOOLEAN)
  PROVE  [s EXCEPT !.left = L, !.bad = B] \in Run /\ [s EXCEPT !.bad = B] \in Run
BY DEF Run

(* ... and so is one with a failure more.                                   *)
LEMMA FailedTyped ==
  ASSUME NEW s \in Run, NEW n \in Name, NEW published \in BOOLEAN
  PROVE  [s EXCEPT !.left = @ \ {n}, !.bad = @ \union {<<n, published>>}] \in Run
<1>1. s.left \in SUBSET Name /\ s.bad \in SUBSET (Name \X BOOLEAN) BY DEF Run
<1>2. s.left \ {n} \in SUBSET Name BY <1>1
<1>3. s.bad \union {<<n, published>>} \in SUBSET (Name \X BOOLEAN) BY <1>1
<1>4. [s EXCEPT !.left = s.left \ {n}, !.bad = s.bad \union {<<n, published>>}] \in Run BY <1>2, <1>3, AnswerTyped
<1> QED BY <1>4

(* After a failure a request goes on or stops.                              *)
LEMMA FailsProceeds ==
  ASSUME Types, NEW r \in Request, NEW n \in Name, NEW published \in BOOLEAN, NEW code \in Code,
         at[r] \in {"saving", "retaining", "evicting"}, Fails(r, n, published, code)
  PROVE  GoesOn(r) \/ Stops(r)
<1>1. run[r] \in Run BY OrderTyped
<1>2. CASE Transfers(r)
  <2> DEFINE s == [run[r] EXCEPT !.left = @ \ {n}, !.bad = @ \union {<<n, published>>}]
  <2>1. s \in Run BY <1>1, FailedTyped
  <2>2. Continues(r, "saving", s) BY <1>2 DEF Fails
  <2> QED BY <2>1, <2>2 DEF GoesOn, Inner, Writing, Point
<1>3. CASE ~Transfers(r) BY <1>1, <1>3 DEF Fails, Stops
<1> QED BY <1>2, <1>3

(* A listing is a set of names.                                             *)
LEMMA ListingNames == \A z \in Zone : Listing(z) \subseteq SUBSET Name /\ Shown(z) \in Listing(z)
BY DEF Listing, Shown, Hidden

(* What retention makes of a listing. *)
Listed(r, listing) ==
  [run[r] EXCEPT !.victims = Victims(Target(r), run[r].doing, listing), !.evicted = {}, !.stuck = FALSE,
                 !.blind = @ \/ listing # Shown(Target(r))]
SameBut(s, r) ==
  /\ s.picked = run[r].picked /\ s.doing = run[r].doing /\ s.kept = run[r].kept
  /\ s.good = run[r].good /\ s.dropped = run[r].dropped

(* Retention goes on with the victims of some listing, or fails.            *)
LEMMA ListedRun ==
  ASSUME Types, NEW r \in Request, NEW listing \in Listing(Target(r))
  PROVE  /\ Listed(r, listing) \in Run /\ SameBut(Listed(r, listing), r)
         /\ Listed(r, listing).left = run[r].left /\ Listed(r, listing).bad = run[r].bad
         /\ Listed(r, listing).victims = Victims(Target(r), run[r].doing, listing)
         /\ Listed(r, listing).evicted = {} /\ ~Listed(r, listing).stuck
         /\ Listed(r, listing).blind <=> run[r].blind \/ listing # Shown(Target(r))
<1>1. run[r] \in Run /\ Target(r) \in Zone BY OrderTyped
<1>2. listing \in SUBSET Name BY <1>1, ListingNames
<1>3. Victims(Target(r), run[r].doing, listing) \in SUBSET Name BY <1>2 DEF Victims
<1>4. (run[r].blind \/ listing # Shown(Target(r))) \in BOOLEAN OBVIOUS
<1> DEFINE V == Victims(Target(r), run[r].doing, listing)
           b == run[r].blind \/ listing # Shown(Target(r))
<1>5. Listed(r, listing) = [run[r] EXCEPT !.victims = V, !.evicted = {}, !.stuck = FALSE, !.blind = b] BY DEF Listed
<1>6. V \in SUBSET Name /\ b \in BOOLEAN BY <1>3, <1>4
<1> HIDE DEF V, b
<1>7. Listed(r, listing) \in Run BY <1>1, <1>5, <1>6 DEF Run
<1>8. Listed(r, listing).blind = b BY <1>1, <1>5 DEF Run
<1>9. Listed(r, listing).victims = V BY <1>1, <1>5 DEF Run
<1> QED BY <1>1, <1>5, <1>7, <1>8, <1>9 DEF Run, SameBut, V, b

LEMMA ListsVictims ==
  ASSUME NEW r \in Request, ListVictims(r)
  PROVE  /\ at[r] = "retaining" /\ UNCHANGED <<items, order, staged>> /\ (Fault \/ UNCHANGED faults)
         /\ \/ Fails(r, run[r].doing, TRUE, "destination_error")
            \/ \E listing \in Listing(Target(r)) :
                 Lists(Target(r), listing) /\ Continues(r, "evicting", Listed(r, listing))
BY DEF ListVictims, Listed, Lists

(* What the last look at the target makes of a listing. *)
Found(r, listing) ==
  [run[r] EXCEPT !.bad = @ \union {<<n, TRUE>> : n \in run[r].kept \ (run[r].kept \intersect listing)},
                 !.blind = @ \/ listing # Shown(order[r].to)]
ToRemove(r, listing) == [Found(r, listing) EXCEPT !.left = run[r].kept \intersect listing]
ToReport(r, listing) == [Found(r, listing) EXCEPT !.good = run[r].kept \intersect listing]

LEMMA FoundRun ==
  ASSUME Types, NEW r \in Request, NEW listing \in Listing(order[r].to)
  PROVE  /\ Found(r, listing) \in Run /\ ToRemove(r, listing) \in Run /\ ToReport(r, listing) \in Run
         /\ \A s \in {ToRemove(r, listing), ToReport(r, listing)} :
              /\ s.picked = run[r].picked /\ s.doing = run[r].doing /\ s.kept = run[r].kept
              /\ s.dropped = run[r].dropped /\ s.evicted = run[r].evicted
              /\ s.bad = run[r].bad \union {<<n, TRUE>> : n \in run[r].kept \ (run[r].kept \intersect listing)}
              /\ (s.blind <=> run[r].blind \/ listing # Shown(order[r].to))
         /\ ToRemove(r, listing).left = run[r].kept \intersect listing
         /\ ToRemove(r, listing).good = run[r].good
         /\ ToReport(r, listing).good = run[r].kept \intersect listing
         /\ ToReport(r, listing).left = run[r].left
<1>1. run[r] \in Run /\ order[r].to \in Zone BY OrderTyped
<1>2. listing \in SUBSET Name BY <1>1, ListingNames
<1> DEFINE there == run[r].kept \intersect listing
           B == run[r].bad \union {<<n, TRUE>> : n \in run[r].kept \ there}
           b == run[r].blind \/ listing # Shown(order[r].to)
<1>3. run[r].bad \in SUBSET (Name \X BOOLEAN) /\ run[r].kept \subseteq Name BY <1>1 DEF Run
<1>4. there \in SUBSET Name BY <1>3
<1>5. B \in SUBSET (Name \X BOOLEAN)
  <2> HIDE DEF there
  <2>1. \A n \in run[r].kept \ there : <<n, TRUE>> \in Name \X BOOLEAN BY <1>3
  <2>2. {<<n, TRUE>> : n \in run[r].kept \ there} \subseteq Name \X BOOLEAN BY <2>1, Zenon
  <2> QED BY <1>3, <2>2, Zenon
<1>6. b \in BOOLEAN OBVIOUS
<1>7. Found(r, listing) = [run[r] EXCEPT !.bad = B, !.blind = b] BY DEF Found
<1>8. ToRemove(r, listing) = [Found(r, listing) EXCEPT !.left = there]
      /\ ToReport(r, listing) = [Found(r, listing) EXCEPT !.good = there]
  BY DEF ToRemove, ToReport
<1> HIDE DEF B, b, there
<1>9. /\ Found(r, listing) \in Run /\ ToRemove(r, listing) \in Run /\ ToReport(r, listing) \in Run
      /\ \A s \in {ToRemove(r, listing), ToReport(r, listing)} :
           /\ s.picked = run[r].picked /\ s.doing = run[r].doing /\ s.kept = run[r].kept
           /\ s.dropped = run[r].dropped /\ s.evicted = run[r].evicted /\ s.bad = B /\ s.blind = b
      /\ ToRemove(r, listing).left = there /\ ToRemove(r, listing).good = run[r].good
      /\ ToReport(r, listing).good = there /\ ToReport(r, listing).left = run[r].left
  <2> DEFINE X == [run[r] EXCEPT !.bad = B, !.blind = b]
  <2>1. /\ X \in Run /\ X.picked = run[r].picked /\ X.doing = run[r].doing /\ X.kept = run[r].kept
        /\ X.dropped = run[r].dropped /\ X.evicted = run[r].evicted /\ X.bad = B /\ X.blind = b
        /\ X.left = run[r].left /\ X.good = run[r].good
    BY <1>1, <1>5, <1>6 DEF Run
  <2>2. Found(r, listing) = X BY <1>7
  <2> HIDE DEF X
  <2> DEFINE Y == [X EXCEPT !.left = there]
             Z == [X EXCEPT !.good = there]
  <2>3. /\ Y \in Run /\ Y.picked = X.picked /\ Y.doing = X.doing /\ Y.kept = X.kept /\ Y.good = X.good
        /\ Y.dropped = X.dropped /\ Y.evicted = X.evicted /\ Y.bad = X.bad /\ Y.blind = X.blind /\ Y.left = there
    BY <1>4, <2>1 DEF Run
  <2>4. /\ Z \in Run /\ Z.picked = X.picked /\ Z.doing = X.doing /\ Z.kept = X.kept /\ Z.left = X.left
        /\ Z.dropped = X.dropped /\ Z.evicted = X.evicted /\ Z.bad = X.bad /\ Z.blind = X.blind /\ Z.good = there
    BY <1>4, <2>1 DEF Run
  <2>5. ToRemove(r, listing) = Y /\ ToReport(r, listing) = Z BY <1>8, <2>2
  <2> HIDE DEF Y, Z
  <2> QED BY <2>1, <2>2, <2>3, <2>4, <2>5
<1> QED BY <1>9 DEF B, b, there

(* The last look goes on to the removals or reports, or fails.              *)
LEMMA Confirms ==
  ASSUME NEW r \in Request, Confirm(r)
  PROVE  /\ at[r] = "saving" /\ Transfers(r) /\ run[r].left = {}
         /\ UNCHANGED <<items, order, staged>> /\ (Fault \/ UNCHANGED faults)
         /\ \/ Ends(r, run[r], "destination_error")
            \/ \E listing \in Listing(order[r].to) :
                 /\ Lists(order[r].to, listing)
                 /\ IF order[r].op = "move" THEN Continues(r, "removing", ToRemove(r, listing))
                    ELSE Ends(r, ToReport(r, listing), "ok")
BY DEF Confirm, Found, ToRemove, ToReport, Lists

(* A comment that could not be read is lost to the run.                     *)
LEMMA UncommentedRun ==
  ASSUME Types, NEW r \in Request, NEW n \in Name, run[r].picked[n] \in Item
  PROVE  [run[r] EXCEPT !.picked[n].comment = None, !.blind = TRUE] \in Run
<1> DEFINE item == [run[r].picked[n] EXCEPT !.comment = None]
           P == [run[r].picked EXCEPT ![n] = item]
<1>1. run[r] \in Run BY OrderTyped
<1>2. item \in Item BY DEF Item
<1>3. [run[r] EXCEPT !.picked[n].comment = None, !.blind = TRUE] = [run[r] EXCEPT !.picked = P, !.blind = TRUE]
  BY <1>1 DEF Run
<1> HIDE DEF item
<1>4. P \in [Name -> Item \union {None}] BY <1>1, <1>2 DEF Run
<1> HIDE DEF P
<1> QED BY <1>1, <1>3, <1>4 DEF Run

(* The sidecar is written over a file that is there.                        *)
Publishes(r, n, data) ==
  /\ held[order[r].zone][n] # None
  /\ \/ Becomes(order[r].zone, n, Registered(r, n, data), None) /\ UNCHANGED faults
     \/ SidecarFails(order[r].zone, n, Registered(r, n, data))

LEMMA PublishForms ==
  ASSUME Types, PointsOK, NEW r \in Request, NEW n \in Name, Publish(r, n)
  PROVE  \/ UNCHANGED <<items, faults>>
         \/ \E data \in Data : Registered(r, n, data) \in Item /\ Publishes(r, n, data)
<1>1. run[r].picked[n] \in Item /\ order[r].created \in Nat BY OrderTyped DEF Publish, PointsOK, PointOK
<1>2. \A data \in Data : Registered(r, n, data) \in Item BY <1>1 DEF Registered, Item
<1>3. run[r].picked[n].data \in Data BY <1>1 DEF Item
<1>4. \/ UNCHANGED <<items, faults>> \/ \E data \in Data : Publishes(r, n, data)
  BY <1>3 DEF Publish, Publishes, SidecarFails
<1> QED BY <1>2, <1>4

(* Each step of a handler goes on, stops or leaves.                         *)
LEMMA HandlerProceeds ==
  ASSUME Types, PointsOK, NEW r \in Request,
         \/ LookAtUpload(r) \/ LookAtTransfer(r) \/ NoName(r) \/ ListVictims(r) \/ Retained(r) \/ Unstage(r)
         \/ Confirm(r) \/ Removed(r)
         \/ \E n \in Name : Save(r, n) \/ Evict(r, n) \/ Remove(r, n) \/ Delete(r, n) \/ Rename(r, n)
                            \/ Comment(r, n) \/ ReadForeign(r, n) \/ Register(r, n) \/ Publish(r, n)
  PROVE  Proceeds(r)
<1>1. run[r] \in Run /\ Target(r) \in Zone /\ order[r].zone \in Zone BY OrderTyped
<1>2. {"measuring", "saving", "retaining", "evicting", "unstaging", "removing", "deleting", "registering", "publishing"} \subseteq Inner
  BY DEF Inner, Point
<1>3. \A z \in Zone : held[z] \in [Name -> Item \union {None}] BY DEF Types
<1>4. Code = {None, "ok", "duplicate", "unknown_image", "storage_conflict", "replacement_required",
              "storage_low", "retention_error", "destination_error"} BY DEF Code
<1>5. CASE LookAtUpload(r) BY <1>1, <1>2, <1>4, <1>5 DEF LookAtUpload, Proceeds, Inside, GoesOn, Stops, Writing
<1>6. CASE LookAtTransfer(r)
  <2>1. [run[r] EXCEPT !.picked = held[order[r].zone]] \in Run BY <1>1, <1>3 DEF Run
  <2>2. \A n \in order[r].names : Availability(order[r].to, n, n \in order[r].replace) \in Code
    BY <1>4 DEF Availability
  <2> QED BY <1>1, <1>2, <1>4, <1>6, <2>1, <2>2 DEF LookAtTransfer, Proceeds, Inside, GoesOn, Stops, Writing
<1>7. CASE NoName(r) BY <1>1, <1>4, <1>7 DEF NoName, Proceeds, Inside, Stops
<1>8. CASE ListVictims(r)
  <2>2. run[r].doing \in Name BY <1>8 DEF ListVictims, PointsOK, PointOK
  <2>3. Fails(r, run[r].doing, TRUE, "destination_error") => GoesOn(r) \/ Stops(r)
    BY <1>4, <1>8, <2>2, FailsProceeds DEF ListVictims
  <2>4. \A listing \in Listing(Target(r)) : Continues(r, "evicting", Listed(r, listing)) => GoesOn(r)
    BY <1>2, ListedRun DEF GoesOn, Writing
  <2> QED BY <1>8, <2>3, <2>4, ListsVictims DEF Proceeds, Inside
<1>9. CASE Retained(r)
  <2> DEFINE n == run[r].doing
             s == [run[r] EXCEPT !.left = @ \ {n}, !.kept = @ \union {n}, !.dropped = @ \union run[r].evicted]
  <2>1. n \in Name BY <1>9 DEF Retained, PointsOK, PointOK
  <2>2. s \in Run BY <1>1, <2>1 DEF Run
  <2>3. Fails(r, n, TRUE, "retention_error") => GoesOn(r) \/ Stops(r)
    BY <1>4, <1>9, <2>1, FailsProceeds DEF Retained
  <2>4. Continues(r, "saving", s) \/ Continues(r, "unstaging", s) \/ Ends(r, s, "ok")
        \/ Fails(r, n, TRUE, "retention_error")
    BY <1>9 DEF Retained
  <2> HIDE DEF s
  <2> QED BY <1>2, <1>4, <1>9, <2>2, <2>3, <2>4 DEF Retained, Proceeds, Inside, GoesOn, Stops, Writing
<1>10. CASE Unstage(r) BY <1>1, <1>4, <1>10 DEF Unstage, Proceeds, Inside, Stops
<1>11. CASE Confirm(r)
  <2>1. \A listing \in Listing(order[r].to) :
          /\ Continues(r, "removing", ToRemove(r, listing)) => GoesOn(r)
          /\ Ends(r, ToReport(r, listing), "ok") => Stops(r)
    BY <1>2, <1>4, FoundRun DEF GoesOn, Stops, Writing
  <2>2. Ends(r, run[r], "destination_error") => Stops(r) BY <1>1, <1>4 DEF Stops
  <2> QED BY <1>11, <2>1, <2>2, Confirms DEF Proceeds, Inside
<1>12. CASE Removed(r) BY <1>1, <1>4, <1>12 DEF Removed, Proceeds, Inside, Stops
<1>13. ASSUME NEW n \in Name, Save(r, n) PROVE Proceeds(r)
  <2>1. [run[r] EXCEPT !.doing = n] \in Run BY <1>1 DEF Run
  <2>2. \A replace \in BOOLEAN : Availability(Target(r), n, replace) \in Code BY <1>4 DEF Availability
  <2>3. \A code \in Code : Fails(r, n, FALSE, code) => GoesOn(r) \/ Stops(r)
    BY <1>13, FailsProceeds DEF Save
  <2>4. Continues(r, "retaining", [run[r] EXCEPT !.doing = n]) \/ (\E code \in Code : Fails(r, n, FALSE, code))
    <3> DEFINE verdict == Availability(Target(r), n, n \in order[r].replace)
    <3>1. verdict \in Code /\ "destination_error" \in Code BY <1>4 DEF Availability
    <3>2. \/ Fails(r, n, FALSE, verdict) \/ Fails(r, n, FALSE, "destination_error")
          \/ Continues(r, "retaining", [run[r] EXCEPT !.doing = n])
      BY <1>13 DEF Save
    <3> HIDE DEF verdict
    <3> QED BY <3>1, <3>2
  <2> QED BY <1>2, <1>13, <2>1, <2>3, <2>4 DEF Save, Proceeds, Inside, GoesOn, Writing
<1>14. ASSUME NEW n \in Name, Evict(r, n) PROVE Proceeds(r)
  <2>1. [run[r] EXCEPT !.victims = @ \ {n}, !.stuck = TRUE] \in Run
        /\ [run[r] EXCEPT !.victims = @ \ {n}, !.evicted = @ \union {n}] \in Run BY <1>1 DEF Run
  <2> QED BY <1>2, <1>14, <2>1 DEF Evict, Proceeds, Inside, GoesOn, Writing
<1>15. ASSUME NEW n \in Name, Remove(r, n) PROVE Proceeds(r)
  <2> DEFINE done == [run[r] EXCEPT !.left = @ \ {n}, !.good = @ \union {n}]
             failed == [run[r] EXCEPT !.left = @ \ {n}, !.bad = @ \union {<<n, TRUE>>}]
             gone == [failed EXCEPT !.good = @ \union {n}]
  <2>1. done \in Run BY <1>1 DEF Run
  <2>5. failed \in Run BY <1>1, FailedTyped
  <2>2. gone \in Run
    <3> HIDE DEF failed
    <3> QED BY <2>5 DEF Run
  <2>3. Continues(r, "removing", done) \/ Continues(r, "removing", failed) \/ Continues(r, "removing", gone)
    BY <1>15 DEF Remove
  <2> HIDE DEF done, failed, gone
  <2> QED BY <1>2, <1>15, <2>1, <2>2, <2>3, <2>5 DEF Remove, Proceeds, Inside, GoesOn, Writing
<1>16. ASSUME NEW n \in Name, Delete(r, n) PROVE Proceeds(r)
  <2>1. [run[r] EXCEPT !.left = @ \ {n}, !.good = @ \union {n}] \in Run BY <1>1 DEF Run
  <2>2. [run[r] EXCEPT !.left = @ \ {n}, !.bad = @ \union {<<n, FALSE>>}] \in Run BY <1>1, FailedTyped
  <2> QED BY <1>2, <1>16, <2>1, <2>2 DEF Delete, Proceeds, Inside, GoesOn, Writing
<1>17. ASSUME NEW n \in Name, Rename(r, n) \/ Comment(r, n) PROVE Proceeds(r)
  BY <1>1, <1>4, <1>17 DEF Rename, Comment, Proceeds, Inside, Stops
<1>19. ASSUME NEW n \in Name, Register(r, n) PROVE Proceeds(r)
  <2>1. [run[r] EXCEPT !.picked[n].comment = None, !.blind = TRUE] \in Run BY <1>19, UncommentedRun DEF Register, PointsOK, PointOK
  <2> QED BY <1>1, <1>2, <1>4, <1>19, <2>1 DEF Register, Proceeds, Inside, GoesOn, Stops, Writing
<1>20. ASSUME NEW n \in Name, Publish(r, n) PROVE Proceeds(r)
  <2>1. [run[r] EXCEPT !.blind = TRUE] \in Run BY <1>1 DEF Run
  <2> QED BY <1>1, <1>4, <1>20, <2>1 DEF Publish, Proceeds, Inside, Stops
<1>18. ASSUME NEW n \in Name, ReadForeign(r, n) PROVE Proceeds(r)
  <2>1. [run[r] EXCEPT !.picked = held[order[r].zone]] \in Run BY <1>1, <1>3 DEF Run
  <2> QED BY <1>1, <1>2, <1>4, <1>18, <2>1 DEF ReadForeign, Proceeds, Inside, GoesOn, Stops, Writing
<1> QED BY <1>5, <1>6, <1>7, <1>8, <1>9, <1>10, <1>11, <1>12, <1>13, <1>14, <1>15, <1>16, <1>17, <1>18, <1>19, <1>20

-----------------------------------------------------------------------------
(* Locks *)

(* What a request does leaves the others where they are, with their locks. *)
OthersStay(r) ==
  \A q \in Request \ {r} :
    /\ at'[q] = at[q] /\ run'[q] = run[q] /\ order'[q] = order[q]
    /\ \A d \in Devices : deviceLock'[d] = q <=> deviceLock[d] = q

ControlTyped ==
  /\ order \in [Request -> OrderType] /\ at \in [Request -> Point] /\ run \in [Request -> Run]
  /\ zoneLock \in [Zone -> Request \union {None}] /\ deviceLock \in [Devices -> Request \union {None}]

(* Nothing is none of the values.                                           *)
LEMMA NoneApart == None \notin Request /\ None \notin Name /\ None \notin Item /\ None \notin Mark
BY SetsAssumption

(* The points at which a request is inside its zones.                       *)
LEMMA InsideOf == \A r \in Request : at[r] \in Inner => Inside(r)
BY DEF Inner, Inside

(* The locks of one request are given back, and no others.                  *)
LEMMA FreedLock ==
  ASSUME NEW S, NEW lock \in [S -> Request \union {None}], NEW r \in Request
  PROVE  /\ Freed(lock, r) \in [S -> Request \union {None}]
         /\ \A x \in S, q \in Request : Freed(lock, r)[x] = q <=> lock[x] = q /\ q # r
BY NoneApart DEF Freed

(* A request that goes on keeps its locks, and others theirs.               *)
LEMMA GoesOnKeeps ==
  ASSUME Types, LocksHeld, NEW r \in Request, order' = order, Inside(r), GoesOn(r)
  PROVE  ControlTyped' /\ LocksHeld' /\ OthersStay(r)
<1>1. PICK p \in Inner, s \in Run : Continues(r, p, s) /\ (at[r] \in Writing => p \in Writing) BY DEF GoesOn
<1>2. at' = [at EXCEPT ![r] = p] /\ run' = [run EXCEPT ![r] = s] /\ zoneLock' = zoneLock /\ deviceLock' = deviceLock
  BY <1>1 DEF Continues, Goes, locks
<1>3. p \in Point BY DEF Inner
<1>4. ControlTyped' BY <1>2, <1>3 DEF ControlTyped, Types
<1>5. OthersStay(r) BY <1>2 DEF OthersStay, Types
<1>6. LocksHeld'
  <2>1. \A q \in Request : Inside(q)' <=> Inside(q) BY <1>2 DEF Inside, Inner, Types
  <2>2. \A q \in Request : Zones(q)' = Zones(q) /\ Target(q)' = Target(q) BY DEF Zones, Target, Transfers
  <2>3. \A q \in Request : at[q] \in Writing => at'[q] \in Writing BY <1>1, <1>2 DEF Types
  <2> QED BY <1>2, <2>1, <2>2, <2>3 DEF LocksHeld, Writing
<1> QED BY <1>4, <1>5, <1>6

(* Its locks given back, and where it is then. *)
Leaves(r) ==
  /\ order' = order /\ Releases(r)
  /\ \E p \in {"ended", "dead"}, s \in Run : at' = [at EXCEPT ![r] = p] /\ run' = [run EXCEPT ![r] = s]

(* One that leaves gives its locks back, and others keep theirs.            *)
LEMMA LeavesKeeps ==
  ASSUME Types, LocksHeld, NEW r \in Request, Leaves(r)
  PROVE  ControlTyped' /\ LocksHeld' /\ OthersStay(r) /\ \A d \in Devices : deviceLock'[d] # r
<1>1. PICK p \in {"ended", "dead"}, s \in Run : at' = [at EXCEPT ![r] = p] /\ run' = [run EXCEPT ![r] = s]
  BY DEF Leaves
<1>2. zoneLock' = Freed(zoneLock, r) /\ deviceLock' = Freed(deviceLock, r) /\ order' = order BY DEF Leaves, Releases
<1>3. /\ zoneLock' \in [Zone -> Request \union {None}]
      /\ \A z \in Zone, q \in Request : zoneLock'[z] = q <=> zoneLock[z] = q /\ q # r
  BY <1>2, FreedLock DEF Types
<1>4. /\ deviceLock' \in [Devices -> Request \union {None}]
      /\ \A d \in Devices, q \in Request : deviceLock'[d] = q <=> deviceLock[d] = q /\ q # r
  BY <1>2, FreedLock DEF Types
<1>5. ControlTyped' BY <1>1, <1>2, <1>3, <1>4 DEF ControlTyped, Types, Point
<1>6. OthersStay(r) BY <1>1, <1>2, <1>4 DEF OthersStay, Types
<1>7. LocksHeld'
  <2>1. \A q \in Request : Inside(q)' <=> Inside(q) /\ q # r BY <1>1 DEF Inside, Types
  <2>2. \A q \in Request : Zones(q)' = Zones(q) /\ Target(q)' = Target(q) BY <1>2 DEF Zones, Target, Transfers
  <2>3. \A q \in Request : q # r => at'[q] = at[q] BY <1>1 DEF Types
  <2> QED BY <1>3, <1>4, <2>1, <2>2, <2>3 DEF LocksHeld
<1> QED BY <1>4, <1>5, <1>6, <1>7

(* Either way the locks are held as they must be.                           *)
LEMMA ProceedsKeeps ==
  ASSUME Types, LocksHeld, NEW r \in Request, Proceeds(r)
  PROVE  ControlTyped' /\ LocksHeld' /\ OthersStay(r)
<1>1. CASE GoesOn(r) BY <1>1, GoesOnKeeps DEF Proceeds
<1>2. CASE Stops(r)
  <2>1. PICK s \in Run, code \in Code : Ends(r, s, code) BY <1>2 DEF Stops
  <2>2. [s EXCEPT !.code = code] \in Run BY DEF Run
  <2>3. Leaves(r) BY <2>1, <2>2 DEF Leaves, Ends, Goes, Proceeds
  <2> QED BY <2>3, LeavesKeeps
<1> QED BY <1>1, <1>2 DEF Proceeds

(* A request that enters takes locks that nobody has.                       *)
LEMMA EnterKeeps ==
  ASSUME Types, LocksHeld, NEW r \in Request, Enter(r)
  PROVE  ControlTyped' /\ LocksHeld' /\ OthersStay(r)
<1>1. run[r] \in Run /\ order[r].names \subseteq Name /\ Zones(r) \subseteq Zone BY OrderTyped
<1>2. [run[r] EXCEPT !.left = order[r].names] \in Run BY <1>1 DEF Run
<1>3. Entry(r) \in Inner BY DEF Entry, Inner, Point
<1>4. Entry(r) \in Point /\ Entry(r) \notin {"new", "waiting", "ended", "dead", "closed"} BY <1>3 DEF Inner
<1>5. /\ at[r] = "waiting" /\ at' = [at EXCEPT ![r] = Entry(r)] /\ order' = order /\ deviceLock' = deviceLock
      /\ zoneLock' = [z \in Zone |-> IF z \in Zones(r) THEN r ELSE zoneLock[z]]
      /\ \A z \in Zones(r) : zoneLock[z] = None
      /\ run' = [run EXCEPT ![r] = [run[r] EXCEPT !.left = order[r].names]]
  BY DEF Enter, Goes
<1>6. ControlTyped'
  <2>1. run' \in [Request -> Run] BY <1>2, <1>5 DEF Types
  <2> QED BY <1>4, <1>5, <2>1 DEF ControlTyped, Types
<1>7. OthersStay(r) BY <1>5 DEF OthersStay, Types
<1>8. LocksHeld'
  <2>1. \A q \in Request : Inside(q)' <=> Inside(q) \/ q = r BY <1>4, <1>5 DEF Inside, Types
  <2>2. \A q \in Request : Zones(q)' = Zones(q) /\ Target(q)' = Target(q) BY <1>5 DEF Zones, Target, Transfers
  <2>3. \A q \in Request, z \in Zone : zoneLock'[z] = q <=> Inside(q)' /\ z \in Zones(q)'
    <3> SUFFICES ASSUME NEW q \in Request, NEW z \in Zone
                 PROVE  zoneLock'[z] = q <=> Inside(q)' /\ z \in Zones(q)'
      OBVIOUS
    <3>1. zoneLock[z] = q <=> Inside(q) /\ z \in Zones(q) BY DEF LocksHeld
    <3>2. ~Inside(r) BY <1>5 DEF Inside
    <3>3. CASE z \in Zones(r) BY <1>5, <2>1, <2>2, <3>1, <3>2, <3>3, NoneApart
    <3>4. CASE z \notin Zones(r) BY <1>5, <2>1, <2>2, <3>1, <3>4
    <3> QED BY <3>3, <3>4
  <2>4. \A q \in Request : at[q] \in Writing => q # r BY <1>5 DEF Writing
  <2> QED BY <1>5, <2>2, <2>3, <2>4 DEF LocksHeld, Types, Writing
<1> QED BY <1>6, <1>7, <1>8

(* One that measures takes the lock of the device, or leaves.               *)
LEMMA MeasureKeeps ==
  ASSUME Types, LocksHeld, NEW r \in Request, Measure(r)
  PROVE  /\ ControlTyped' /\ LocksHeld' /\ OthersStay(r)
         /\ Leaves(r) \/ (at'[r] = "saving" /\ deviceLock'[Device[Target(r)]] = r)
<1>1. run[r] \in Run /\ Target(r) \in Zone /\ Device[Target(r)] \in Devices BY OrderTyped DEF Devices
<1>2. CASE \E code \in Code : Ends(r, run[r], code)
  <2>1. PICK code \in Code : Ends(r, run[r], code) BY <1>2
  <2>2. [run[r] EXCEPT !.code = code] \in Run BY <1>1 DEF Run
  <2>3. Leaves(r) BY <2>1, <2>2 DEF Leaves, Ends, Goes, Measure
  <2> QED BY <2>3, LeavesKeeps
<1>3. CASE ~\E code \in Code : Ends(r, run[r], code)
  <2> DEFINE d == Device[Target(r)]
  <2>1. /\ deviceLock' = [deviceLock EXCEPT ![d] = r] /\ at' = [at EXCEPT ![r] = "saving"] /\ order' = order
        /\ at[r] = "measuring" /\ deviceLock[d] = None /\ zoneLock' = zoneLock /\ run' = run
    BY <1>3 DEF Measure, Code, Goes
  <2>2. ControlTyped' BY <1>1, <2>1 DEF ControlTyped, Types, Point
  <2>3. OthersStay(r) BY <1>1, <2>1, NoneApart DEF OthersStay, Types
  <2>4. \A q \in Request : Inside(q)' <=> Inside(q) BY <2>1 DEF Inside, Types
  <2>5. \A q \in Request : Zones(q)' = Zones(q) /\ Target(q)' = Target(q) BY <2>1 DEF Zones, Target, Transfers
  <2>6. LocksHeld' BY <1>1, <2>1, <2>4, <2>5, NoneApart DEF LocksHeld, Types
  <2> QED BY <1>1, <2>1, <2>2, <2>3, <2>6 DEF Types
<1> QED BY <1>2, <1>3

-----------------------------------------------------------------------------
(* Items and points *)

(* One item changes, as a request or its failure may change it. *)
Touches(z, n, item) ==
  \/ Changes(z, n, item) \/ SaveFails(z, n, item) \/ DeleteFails(z, n) \/ SidecarFails(z, n, item)
  \/ Becomes(z, n, item, None) /\ UNCHANGED faults
Keeps == UNCHANGED items /\ (Fault \/ UNCHANGED faults)
TouchesOne(r) == Keeps \/ \E z \in Zones(r), n \in Name, item \in Item \union {None} : Touches(z, n, item)

ItemsTyped ==
  /\ held \in [Zone -> [Name -> Item \union {None}]] /\ journal \in [Zone -> [Name -> Mark \union {None}]]
  /\ staged \subseteq Request /\ faults \in 0..MaxFaults

(* A step that changes one item leaves the items typed.                     *)
LEMMA TouchesOneTyped ==
  ASSUME Types, ForeignThere, NEW r \in Request, TouchesOne(r), staged' \subseteq Request
  PROVE  ItemsTyped' /\ ForeignThere'
<1>1. CASE Keeps
  <2>1. faults' \in 0..MaxFaults BY <1>1, FaultTyped DEF Keeps
  <2> QED BY <1>1, <2>1 DEF Keeps, items, ItemsTyped, ForeignThere, Types
<1>2. CASE \E z \in Zones(r), n \in Name, item \in Item \union {None} : Touches(z, n, item)
  <2>1. PICK z \in Zones(r), n \in Name, item \in Item \union {None} : Touches(z, n, item) BY <1>2
  <2>2. z \in Zone BY OrderTyped
  <2> QED BY <2>1, <2>2, ChangeTyped DEF Touches, ItemsTyped
<1> QED BY <1>1, <1>2 DEF TouchesOne

(* Every handler changes at most one item of its zones, but a rename.       *)
LEMMA HandlerTouches ==
  ASSUME Types, PointsOK, NEW r \in Request,
         \/ LookAtUpload(r) \/ LookAtTransfer(r) \/ NoName(r) \/ ListVictims(r) \/ Retained(r) \/ Unstage(r)
         \/ Confirm(r) \/ Removed(r) \/ Enter(r) \/ Measure(r)
         \/ \E n \in Name : Save(r, n) \/ Evict(r, n) \/ Remove(r, n) \/ Delete(r, n)
                            \/ Comment(r, n) \/ ReadForeign(r, n) \/ Register(r, n) \/ Publish(r, n)
  PROVE  TouchesOne(r)
<1>1. Target(r) \in Zones(r) /\ order[r].zone \in Zones(r) /\ Zones(r) \subseteq Zone BY OrderTyped DEF Target, Zones
<1>2. \A z \in Zone, n \in Name : held[z][n] \in Item \union {None} BY DEF Types
<1>3. CASE LookAtUpload(r) \/ NoName(r) \/ Retained(r) \/ Removed(r) \/ Enter(r)
  BY <1>3 DEF LookAtUpload, NoName, Retained, Removed, Enter, TouchesOne, Keeps
<1>4. CASE LookAtTransfer(r) \/ ListVictims(r) \/ Unstage(r) \/ Confirm(r) \/ Measure(r)
  BY <1>4 DEF LookAtTransfer, ListVictims, Unstage, Confirm, Measure, Lists, TouchesOne, Keeps
<1>5. ASSUME NEW n \in Name, ReadForeign(r, n) \/ Register(r, n) PROVE TouchesOne(r)
  BY <1>5 DEF ReadForeign, Register, TouchesOne, Keeps
<1>6. ASSUME NEW n \in Name, Save(r, n) PROVE TouchesOne(r)
  <2>1. Incoming(r, n) \in Item \union {None}
    <3>1. order[r].zone \in Zone /\ order[r].data \in Data /\ order[r].created \in Nat BY OrderTyped
    <3> QED BY <1>2, <3>1 DEF Incoming, Item
  <2>2. \/ UNCHANGED <<items, faults>> \/ Changes(Target(r), n, Incoming(r, n))
        \/ SaveFails(Target(r), n, Incoming(r, n))
    BY <1>6 DEF Save
  <2> QED BY <1>1, <2>1, <2>2 DEF TouchesOne, Touches, Keeps
<1>7. ASSUME NEW n \in Name, Evict(r, n) PROVE TouchesOne(r)
  BY <1>1, <1>7 DEF Evict, TouchesOne, Touches, Keeps
<1>8. ASSUME NEW n \in Name, Remove(r, n) PROVE TouchesOne(r)
  BY <1>1, <1>8 DEF Remove, TouchesOne, Touches, Keeps
<1>9. ASSUME NEW n \in Name, Delete(r, n) PROVE TouchesOne(r)
  BY <1>1, <1>9 DEF Delete, TouchesOne, Touches, Keeps
<1>10. ASSUME NEW n \in Name, Comment(r, n) PROVE TouchesOne(r)
  <2> DEFINE z == order[r].zone
             noted == [held[z][n] EXCEPT !.comment = order[r].data]
  <2>1. CASE UNCHANGED <<items, faults>> BY <2>1 DEF TouchesOne, Keeps
  <2>2. CASE held[z][n] # None /\ ((Becomes(z, n, noted, None) /\ UNCHANGED faults) \/ SidecarFails(z, n, noted))
    <3>1. held[z][n] \in Item /\ order[r].data \in Data BY <1>1, <1>2, <2>2, OrderTyped
    <3>2. noted \in Item BY <3>1 DEF Item
    <3> HIDE DEF noted
    <3> QED BY <1>1, <2>2, <3>2 DEF TouchesOne, Touches
  <2> QED BY <1>10, <2>1, <2>2 DEF Comment
<1>11. ASSUME NEW n \in Name, Publish(r, n) PROVE TouchesOne(r)
  <2> DEFINE z == order[r].zone
  <2>1. CASE UNCHANGED <<items, faults>> BY <2>1 DEF TouchesOne, Keeps
  <2>2. CASE ~UNCHANGED <<items, faults>>
    <3>1. PICK data \in Data : Registered(r, n, data) \in Item /\ Publishes(r, n, data)
      BY <1>11, <2>2, PublishForms
    <3> QED BY <1>1, <3>1 DEF TouchesOne, Touches, Publishes
  <2> QED BY <2>1, <2>2
<1> QED BY <1>3, <1>4, <1>5, <1>6, <1>7, <1>8, <1>9, <1>10, <1>11

(* So does a rename, which changes two.                                     *)
LEMMA RenameTyped ==
  ASSUME Types, ForeignThere, OrdersOK, NEW r \in Request, NEW n \in Name, Rename(r, n)
  PROVE  ItemsTyped' /\ ForeignThere'
<1> DEFINE z == order[r].zone
           m == order[r].into
<1>1. z \in Zone /\ m \in Name /\ m # n BY OrderTyped DEF Rename, OrdersOK
<1>2. faults' \in 0..MaxFaults /\ staged' \subseteq Request
  <2>1. Fault \/ UNCHANGED faults BY DEF Rename, Fault
  <2> QED BY <2>1, FaultTyped DEF Rename, Types
<1>3. \A mark \in Mark \union {None} : [journal[z] EXCEPT ![m] = mark, ![n] = mark] \in [Name -> Mark \union {None}]
  BY <1>1 DEF Types
<1>4. [held[z] EXCEPT ![m] = held[z][n], ![n] = None] \in [Name -> Item \union {None}] BY <1>1 DEF Types
<1>5. {"committed", "prepared"} \subseteq Mark /\ "foreign" # None BY NoneApart DEF Mark
<1>6. \/ UNCHANGED items
      \/ \E mark \in {None, "committed", "prepared"} :
           /\ journal' = [journal EXCEPT ![z] = [journal[z] EXCEPT ![m] = mark, ![n] = mark]]
           /\ held' = held \/ held' = [held EXCEPT ![z] = [held[z] EXCEPT ![m] = held[z][n], ![n] = None]]
  BY DEF Rename
<1>7. CASE UNCHANGED items BY <1>2, <1>7 DEF ItemsTyped, ForeignThere, Types, items
<1>8. ASSUME NEW mark \in {None, "committed", "prepared"},
             journal' = [journal EXCEPT ![z] = [journal[z] EXCEPT ![m] = mark, ![n] = mark]],
             held' = held \/ held' = [held EXCEPT ![z] = [held[z] EXCEPT ![m] = held[z][n], ![n] = None]]
      PROVE  ItemsTyped' /\ ForeignThere'
  <2> DEFINE J == [journal[z] EXCEPT ![m] = mark, ![n] = mark]
             H == [held[z] EXCEPT ![m] = held[z][n], ![n] = None]
  <2>1. J \in [Name -> Mark \union {None}] /\ H \in [Name -> Item \union {None}] BY <1>3, <1>4, <1>5
  <2>2. \A i \in Name : J[i] = mark \/ (i # n /\ i # m /\ J[i] = journal[z][i] /\ H[i] = held[z][i])
    BY <1>1 DEF Types
  <2>3. mark # "foreign" BY <1>5
  <2>4. journal' = [journal EXCEPT ![z] = J] /\ (held' = held \/ held' = [held EXCEPT ![z] = H]) BY <1>8
  <2> HIDE DEF J, H
  <2>5. ItemsTyped' BY <1>1, <1>2, <2>1, <2>4 DEF ItemsTyped, Types
  <2>6. ForeignThere' BY <1>1, <2>1, <2>2, <2>3, <2>4 DEF ForeignThere, Types
  <2> QED BY <2>5, <2>6
<1> QED BY <1>6, <1>7, <1>8

(* A step of one request leaves the points of the others.                   *)
LEMMA PointOthers ==
  ASSUME Types, PointsOK, NEW r \in Request, OthersStay(r), PointOK(r)'
  PROVE  PointsOK'
<1> SUFFICES ASSUME NEW q \in Request \ {r} PROVE PointOK(q)' BY DEF PointsOK
<1>1. PointOK(q) BY DEF PointsOK
<1>2. at'[q] = at[q] /\ run'[q] = run[q] /\ order'[q] = order[q] BY DEF OthersStay
<1>3. Target(q) \in Zone BY OrderTyped
<1>4. Device[Target(q)] \in Devices BY <1>3 DEF Devices
<1>5. deviceLock'[Device[Target(q)]] = q <=> deviceLock[Device[Target(q)]] = q BY <1>4 DEF OthersStay
<1>6. Target(q)' = Target(q) /\ Transfers(q)' = Transfers(q) /\ Writer(q)' = Writer(q) /\ Inside(q)' = Inside(q)
  BY <1>2 DEF Target, Transfers, Writer, Inside
<1> QED BY <1>1, <1>2, <1>5, <1>6 DEF PointOK

(* A request that has ended is nowhere. *)
LEMMA PointGone ==
  ASSUME NEW r \in Request, at'[r] \in {"ended", "dead", "closed"}
  PROVE  PointOK(r)'
BY DEF PointOK, Inside, Saves

(* The end of a request is a point of each kind.                            *)
LEMMA StopsPoint ==
  ASSUME Types, NEW r \in Request, NEW s, NEW code, Ends(r, s, code)
  PROVE  PointOK(r)'
<1>1. at'[r] = "ended" BY DEF Ends, Goes, Types
<1> QED BY <1>1, PointGone

(* The request goes on from a point to another. *)
LEMMA ContinuesPoint ==
  ASSUME Types, NEW r \in Request, NEW p \in Inner, NEW s \in Run, Continues(r, p, s), order' = order
  PROVE  /\ at'[r] = p /\ run'[r] = s /\ deviceLock' = deviceLock
         /\ Target(r)' = Target(r) /\ Transfers(r)' = Transfers(r) /\ Writer(r)' = Writer(r) /\ Inside(r)'
BY DEF Types, Continues, Goes, locks, Target, Transfers, Writer, Inside, Inner

(* A failure leads to a point of the same kind of request.                  *)
LEMMA FailsPoint ==
  ASSUME Types, PointsOK, NEW r \in Request, NEW n \in Name, NEW published \in BOOLEAN, NEW code \in Code,
         at[r] \in Saves, Fails(r, n, published, code), order' = order
  PROVE  PointOK(r)'
<1>1. run[r] \in Run BY OrderTyped
<1>2. CASE Transfers(r)
  <2> DEFINE s == [run[r] EXCEPT !.left = @ \ {n}, !.bad = @ \union {<<n, published>>}]
  <2>1. s \in Run BY <1>1, FailedTyped
  <2>2. Continues(r, "saving", s) BY <1>2 DEF Fails
  <2>3. s.left = run[r].left \ {n} /\ s.kept = run[r].kept BY <1>1 DEF Run
  <2>4. "saving" \in Inner BY DEF Inner, Point
  <2>5. PointOK(r) /\ Inside(r) BY DEF PointsOK, Saves, Inside
  <2> HIDE DEF s
  <2> QED BY <1>2, <2>1, <2>2, <2>3, <2>4, <2>5, ContinuesPoint DEF PointOK, Saves
<1>3. CASE ~Transfers(r) BY <1>3, StopsPoint DEF Fails
<1> QED BY <1>2, <1>3

(* So does each step of a handler.                                          *)
LEMMA HandlerPoint ==
  ASSUME Types, OrdersOK, PointsOK, NEW r \in Request,
         \/ LookAtUpload(r) \/ LookAtTransfer(r) \/ NoName(r) \/ ListVictims(r) \/ Retained(r) \/ Unstage(r)
         \/ Confirm(r) \/ Removed(r)
         \/ \E n \in Name : Save(r, n) \/ Evict(r, n) \/ Remove(r, n) \/ Delete(r, n) \/ Rename(r, n)
                            \/ Comment(r, n) \/ ReadForeign(r, n) \/ Register(r, n) \/ Publish(r, n)
  PROVE  PointOK(r)'
<1>1. run[r] \in Run /\ Target(r) \in Zone /\ order[r].zone \in Zone BY OrderTyped
<1>2. {"measuring", "saving", "retaining", "evicting", "unstaging", "removing", "deleting", "registering", "publishing"} \subseteq Inner
  BY DEF Inner, Point
<1>3. \A z \in Zone : held[z] \in [Name -> Item \union {None}] BY DEF Types
<1>4. PointOK(r) BY DEF PointsOK
<1>5. Inside(r) /\ order' = order BY HandlerProceeds DEF Proceeds
<1>19. Code = {None, "ok", "duplicate", "unknown_image", "storage_conflict", "replacement_required",
               "storage_low", "retention_error", "destination_error"} BY DEF Code
<1>6. CASE \E s, code : Ends(r, s, code) BY <1>6, StopsPoint
<1>7. CASE LookAtUpload(r) /\ ~\E s, code : Ends(r, s, code)
  <2>1. Continues(r, "measuring", run[r]) /\ at[r] = "looking" /\ order[r].op = "upload" BY <1>7 DEF LookAtUpload
  <2> QED BY <1>1, <1>2, <1>4, <1>5, <2>1, ContinuesPoint DEF PointOK, Saves, Writer
<1>8. CASE LookAtTransfer(r) /\ ~\E s, code : Ends(r, s, code)
  <2> DEFINE s == [run[r] EXCEPT !.picked = held[order[r].zone]]
  <2>1. s \in Run /\ s.left = run[r].left /\ s.kept = run[r].kept BY <1>1, <1>3 DEF Run
  <2>2. Continues(r, "measuring", s) /\ at[r] = "looking" /\ Writer(r)
    BY <1>8 DEF LookAtTransfer, Writer, Transfers
  <2> HIDE DEF s
  <2> QED BY <1>1, <1>2, <1>4, <1>5, <2>1, <2>2, ContinuesPoint DEF PointOK, Saves
<1>9. CASE ListVictims(r)
  <2>2. run[r].doing \in Name /\ at[r] = "retaining" BY <1>4, <1>9 DEF ListVictims, PointOK
  <2>3. Fails(r, run[r].doing, TRUE, "destination_error") => PointOK(r)'
    BY <1>5, <1>19, <2>2, FailsPoint DEF Saves
  <2>5. ASSUME NEW listing \in Listing(Target(r)), Continues(r, "evicting", Listed(r, listing)) PROVE PointOK(r)'
    BY <1>1, <1>2, <1>4, <1>5, <2>2, <2>5, ListedRun, ContinuesPoint DEF PointOK, Saves, SameBut
  <2> QED BY <1>9, <2>3, <2>5, ListsVictims
<1>10. CASE Retained(r) /\ ~\E s, code : Ends(r, s, code)
  <2> DEFINE n == run[r].doing
             s == [run[r] EXCEPT !.left = @ \ {n}, !.kept = @ \union {n}, !.dropped = @ \union run[r].evicted]
  <2>1. n \in Name /\ at[r] = "evicting" BY <1>4, <1>10 DEF Retained, PointOK
  <2>2. s \in Run /\ s.left = run[r].left \ {n} /\ s.kept = run[r].kept \union {n} BY <1>1, <2>1 DEF Run
  <2>3. Fails(r, n, TRUE, "retention_error") => PointOK(r)' BY <1>5, <1>19, <2>1, FailsPoint DEF Saves
  <2>4. \/ (Continues(r, "saving", s) /\ Transfers(r)) \/ (Continues(r, "unstaging", s) /\ ~Transfers(r))
        \/ Fails(r, n, TRUE, "retention_error")
    <3>1. \/ (Continues(r, "saving", s) /\ Transfers(r)) \/ (Continues(r, "unstaging", s) /\ ~Transfers(r))
          \/ Fails(r, n, TRUE, "retention_error") \/ Ends(r, s, "ok")
      BY <1>10 DEF Retained
    <3>2. ~Ends(r, s, "ok")
      <4> HIDE DEF s
      <4> QED BY <1>10
    <3> QED BY <3>1, <3>2
  <2> HIDE DEF s, n
  <2>5. CASE Continues(r, "saving", s) /\ Transfers(r)
    <3>1. n \in order[r].names /\ n \in run[r].left BY <1>4, <1>5, <2>1, <2>5 DEF PointOK, n
    <3> QED BY <1>2, <1>4, <1>5, <2>1, <2>2, <2>5, <3>1, ContinuesPoint DEF PointOK, Saves
  <2>6. CASE Continues(r, "unstaging", s) /\ ~Transfers(r)
    <3>1. order[r].op = "upload" BY <1>4, <2>1, <2>6 DEF PointOK, Writer, Transfers, Saves
    <3> QED BY <1>2, <1>4, <1>5, <2>1, <2>2, <2>6, <3>1, ContinuesPoint DEF PointOK, Saves
  <2> QED BY <2>3, <2>4, <2>5, <2>6
<1>11. CASE Confirm(r) /\ ~\E s, code : Ends(r, s, code)
  <2>1. PICK listing \in Listing(order[r].to) :
          order[r].op = "move" /\ Continues(r, "removing", ToRemove(r, listing))
    BY <1>11, Confirms
  <2>2. at[r] = "saving" /\ Transfers(r) BY <1>11, Confirms
  <2>3. run[r].kept \intersect listing \subseteq order[r].names BY <1>4, <2>2 DEF PointOK, Saves
  <2>4. ToRemove(r, listing) \in Run /\ ToRemove(r, listing).left = run[r].kept \intersect listing BY <1>1, FoundRun
  <2>5. at'[r] = "removing" /\ run'[r] = ToRemove(r, listing) /\ Transfers(r)' = Transfers(r) /\ Inside(r)'
    BY <1>2, <1>5, <2>1, <2>4, ContinuesPoint
  <2> QED BY <1>5, <2>1, <2>3, <2>4, <2>5 DEF PointOK, Saves
<1>12. CASE NoName(r) \/ Unstage(r) \/ Removed(r) BY <1>6, <1>12 DEF NoName, Unstage, Removed
<1>13. ASSUME NEW n \in Name, Save(r, n) PROVE PointOK(r)'
  <2> DEFINE s == [run[r] EXCEPT !.doing = n]
             verdict == Availability(Target(r), n, n \in order[r].replace)
  <2>1. s \in Run /\ s.left = run[r].left /\ s.kept = run[r].kept /\ s.doing = n BY <1>1 DEF Run
  <2>2. Continues(r, "retaining", s) \/ Fails(r, n, FALSE, verdict) \/ Fails(r, n, FALSE, "destination_error")
    BY <1>13 DEF Save
  <2>3. at[r] = "saving" /\ (Transfers(r) => n \in run[r].left)
    BY <1>13 DEF Save, Choices, Unnamed, Transfers
  <2> HIDE DEF s, verdict
  <2>4. CASE Continues(r, "retaining", s)
    BY <1>2, <1>4, <1>5, <2>1, <2>3, <2>4, ContinuesPoint DEF PointOK, Saves
  <2>5. Fails(r, n, FALSE, "destination_error") => PointOK(r)' BY <1>5, <1>19, <2>3, FailsPoint DEF Saves
  <2>6. Fails(r, n, FALSE, verdict) => PointOK(r)'
    <3>1. verdict \in Code BY <1>19 DEF verdict, Availability
    <3> QED BY <1>5, <2>3, <3>1, FailsPoint DEF Saves
  <2> QED BY <2>2, <2>4, <2>5, <2>6
<1>14. ASSUME NEW n \in Name, Evict(r, n) PROVE PointOK(r)'
  <2> DEFINE s == [run[r] EXCEPT !.victims = @ \ {n}, !.stuck = TRUE]
             t == [run[r] EXCEPT !.victims = @ \ {n}, !.evicted = @ \union {n}]
  <2>1. s \in Run /\ s.left = run[r].left /\ s.kept = run[r].kept /\ s.doing = run[r].doing BY <1>1 DEF Run
  <2>2. t \in Run /\ t.left = run[r].left /\ t.kept = run[r].kept /\ t.doing = run[r].doing BY <1>1 DEF Run
  <2>3. (Continues(r, "evicting", s) \/ Continues(r, "evicting", t)) /\ at[r] = "evicting" BY <1>14 DEF Evict
  <2> HIDE DEF s, t
  <2> QED BY <1>2, <1>4, <1>5, <2>1, <2>2, <2>3, ContinuesPoint DEF PointOK, Saves
<1>15. ASSUME NEW n \in Name, Remove(r, n) PROVE PointOK(r)'
  <2> DEFINE done == [run[r] EXCEPT !.left = @ \ {n}, !.good = @ \union {n}]
             failed == [run[r] EXCEPT !.left = @ \ {n}, !.bad = @ \union {<<n, TRUE>>}]
             gone == [failed EXCEPT !.good = @ \union {n}]
  <2>1. done \in Run /\ done.left = run[r].left \ {n} BY <1>1 DEF Run
  <2>2. failed \in Run /\ failed.left = run[r].left \ {n}
    <3>1. failed \in Run BY <1>1, FailedTyped
    <3>2. failed.left = run[r].left \ {n} BY <1>1 DEF Run
    <3> QED BY <3>1, <3>2
  <2>3. gone \in Run /\ gone.left = run[r].left \ {n}
    <3> HIDE DEF failed
    <3> QED BY <2>2 DEF Run
  <2>4. at[r] = "removing"
        /\ (Continues(r, "removing", done) \/ Continues(r, "removing", failed) \/ Continues(r, "removing", gone))
    BY <1>15 DEF Remove
  <2> HIDE DEF done, failed, gone
  <2> QED BY <1>2, <1>4, <1>5, <2>1, <2>2, <2>3, <2>4, ContinuesPoint DEF PointOK, Saves
<1>16. ASSUME NEW n \in Name, Delete(r, n) PROVE PointOK(r)'
  <2> DEFINE done == [run[r] EXCEPT !.left = @ \ {n}, !.good = @ \union {n}]
             failed == [run[r] EXCEPT !.left = @ \ {n}, !.bad = @ \union {<<n, FALSE>>}]
  <2>1. done \in Run /\ done.left = run[r].left \ {n} BY <1>1 DEF Run
  <2>2. failed \in Run /\ failed.left = run[r].left \ {n}
    <3>1. failed \in Run BY <1>1, FailedTyped
    <3>2. failed.left = run[r].left \ {n} BY <1>1 DEF Run
    <3> QED BY <3>1, <3>2
  <2>3. at[r] = "deleting" /\ (Continues(r, "deleting", done) \/ Continues(r, "deleting", failed))
    BY <1>16 DEF Delete
  <2> HIDE DEF done, failed
  <2> QED BY <1>2, <1>4, <1>5, <2>1, <2>2, <2>3, ContinuesPoint DEF PointOK, Saves
<1>17. ASSUME NEW n \in Name, Rename(r, n) \/ Comment(r, n) \/ Publish(r, n) PROVE PointOK(r)'
  BY <1>6, <1>17 DEF Rename, Comment, Publish
<1>20. ASSUME NEW n \in Name, Register(r, n), ~\E s, code : Ends(r, s, code) PROVE PointOK(r)'
  <2> DEFINE s == [run[r] EXCEPT !.picked[n].comment = None, !.blind = TRUE]
  <2>1. s \in Run BY <1>4, <1>20, UncommentedRun DEF Register, PointOK
  <2>2. s.left = run[r].left /\ \A m \in Name : run[r].picked[m] \in Item => s.picked[m] \in Item
    BY <1>1 DEF Run, Item
  <2>3. Continues(r, "publishing", run[r]) \/ Continues(r, "publishing", s) BY <1>20 DEF Register
  <2>4. at[r] = "registering" /\ order[r].names \subseteq Name BY <1>20, OrderTyped DEF Register
  <2> HIDE DEF s
  <2> QED BY <1>1, <1>2, <1>4, <1>5, <2>1, <2>2, <2>3, <2>4, ContinuesPoint DEF PointOK, Saves
<1>18. ASSUME NEW n \in Name, ReadForeign(r, n), ~\E s, code : Ends(r, s, code) PROVE PointOK(r)'
  <2> DEFINE s == [run[r] EXCEPT !.picked = held[order[r].zone]]
  <2>1. s \in Run /\ s.left = run[r].left /\ s.picked = held[order[r].zone] BY <1>1, <1>3 DEF Run
  <2>2. Continues(r, "registering", s) /\ order[r].op = "register" /\ n \in order[r].names
        /\ held[order[r].zone][n] # None
    BY <1>18 DEF ReadForeign
  <2>3. order[r].names = {n} BY <2>2 DEF OrdersOK
  <2>4. held[order[r].zone][n] \in Item BY <1>1, <2>2 DEF Types
  <2> HIDE DEF s
  <2> QED BY <1>2, <1>4, <1>5, <2>1, <2>2, <2>3, <2>4, ContinuesPoint DEF PointOK, Saves
<1> QED BY <1>6, <1>7, <1>8, <1>9, <1>10, <1>11, <1>12, <1>13, <1>14, <1>15, <1>16, <1>17, <1>18, <1>20

-----------------------------------------------------------------------------
(* Types, locks and points are an invariant *)

Base == TypeOK /\ OrdersOK /\ PointsOK /\ ForeignThere

(* The parts of the base invariant, before and after a step.                *)
LEMMA BaseParts ==
  /\ Base <=> ControlTyped /\ ItemsTyped /\ LocksHeld /\ OrdersOK /\ PointsOK /\ ForeignThere
  /\ Base' <=> ControlTyped' /\ ItemsTyped' /\ LocksHeld' /\ OrdersOK' /\ PointsOK' /\ ForeignThere'
BY DEF Base, TypeOK, ControlTyped, ItemsTyped

(* At first the base invariant holds.                                       *)
LEMMA BaseInit == Init => Base
<1> SUFFICES ASSUME Init PROVE Base OBVIOUS
<1>1. order \in [Request -> OrderType] /\ held \in [Zone -> [Name -> Item \union {None}]]
  BY OrdersAssumption, StocksAssumption DEF Init
<1>2. Blank \in Run BY DEF Blank, Run, Code
<1>3. ControlTyped BY <1>1, <1>2 DEF Init, ControlTyped, Point
<1>4. ItemsTyped BY <1>1, SetsAssumption DEF Init, ItemsTyped, Mark
<1>5. LocksHeld BY NoneApart DEF Init, LocksHeld, Inside
<1>6. OrdersOK
  <2> SUFFICES ASSUME NEW r \in Request
               PROVE  /\ Transfers(r) => order[r].zone # order[r].to
                      /\ order[r].op = "rename" => order[r].into \in Name \ order[r].names
                      /\ order[r].op \notin {"delete", "copy", "move"} => \E n \in Name : order[r].names \subseteq {n}
                      /\ order[r].staged => order[r].op = "upload"
    BY DEF OrdersOK
  <2> QED BY OrdersAssumption DEF Init, Transfers
<1>7. PointsOK
  <2> SUFFICES ASSUME NEW r \in Request PROVE PointOK(r) BY DEF PointsOK
  <2>1. at[r] = "new" /\ run[r].kept = {} BY DEF Init, Blank
  <2> QED BY <2>1 DEF PointOK, Inside, Saves
<1>8. ForeignThere BY NoneApart DEF Init, ForeignThere, Unmanaged, Mark
<1> QED BY <1>3, <1>4, <1>5, <1>6, <1>7, <1>8, BaseParts

Handles(r) ==
  \/ LookAtUpload(r) \/ LookAtTransfer(r) \/ NoName(r) \/ ListVictims(r) \/ Retained(r) \/ Unstage(r)
  \/ Confirm(r) \/ Removed(r)
  \/ \E n \in Name : Save(r, n) \/ Evict(r, n) \/ Remove(r, n) \/ Delete(r, n) \/ Rename(r, n)
                     \/ Comment(r, n) \/ ReadForeign(r, n) \/ Register(r, n) \/ Publish(r, n)

(* The work of a request is to enter, to measure and to handle.             *)
LEMMA WorksOn == ASSUME NEW r \in Request PROVE Works(r) <=> Enter(r) \/ Measure(r) \/ Handles(r)
BY DEF Works, Handles

(* A handler fails at most once in a step, and stages nothing.             *)
LEMMA HandlesFaults == ASSUME NEW r \in Request, Handles(r) PROVE (Fault \/ UNCHANGED faults) /\ staged' \subseteq staged
<1>1. ASSUME NEW z, NEW n, NEW item, Changes(z, n, item) \/ SaveFails(z, n, item) \/ DeleteFails(z, n)
                                     \/ SidecarFails(z, n, item)
      PROVE  Fault \/ UNCHANGED faults
  BY <1>1 DEF Changes, SaveFails, DeleteFails, SidecarFails
<1>2. CASE LookAtUpload(r) \/ LookAtTransfer(r) \/ NoName(r) \/ ListVictims(r) \/ Retained(r) \/ Unstage(r)
           \/ Confirm(r) \/ Removed(r)
  BY <1>2 DEF LookAtUpload, LookAtTransfer, NoName, ListVictims, Retained, Unstage, Confirm, Removed, Lists
<1>3. ASSUME NEW n \in Name, Save(r, n) \/ Evict(r, n) \/ Remove(r, n) \/ Delete(r, n)
      PROVE  (Fault \/ UNCHANGED faults) /\ staged' \subseteq staged
  BY <1>1, <1>3 DEF Save, Evict, Remove, Delete
<1>4. ASSUME NEW n \in Name, Rename(r, n) \/ Comment(r, n) \/ ReadForeign(r, n) \/ Register(r, n) \/ Publish(r, n)
      PROVE  (Fault \/ UNCHANGED faults) /\ staged' \subseteq staged
  BY <1>1, <1>4 DEF Rename, Comment, ReadForeign, Register, Publish
<1> QED BY <1>2, <1>3, <1>4 DEF Handles

(* A step of a handler keeps the base invariant, ...                        *)
LEMMA BaseHandles ==
  ASSUME Base, NEW r \in Request, Handles(r)
  PROVE  Base' /\ OthersStay(r) /\ Proceeds(r)
<1>1. Types /\ LocksHeld /\ OrdersOK /\ PointsOK /\ ForeignThere BY TypesParts DEF Base
<1>2. Proceeds(r) BY <1>1, HandlerProceeds DEF Handles
<1>3. ControlTyped' /\ LocksHeld' /\ OthersStay(r) BY <1>1, <1>2, ProceedsKeeps
<1>4. PointsOK'
  <2>1. PointOK(r)' BY <1>1, HandlerPoint DEF Handles
  <2> QED BY <1>1, <1>3, <2>1, PointOthers
<1>5. ItemsTyped' /\ ForeignThere'
  <2>1. CASE \E n \in Name : Rename(r, n) BY <1>1, <2>1, RenameTyped
  <2>2. CASE ~\E n \in Name : Rename(r, n)
    <3>1. TouchesOne(r) BY <1>1, <2>2, HandlerTouches DEF Handles
    <3>2. staged' \subseteq Request
      <4>1. staged \subseteq Request BY <1>1 DEF Types
      <4> QED BY <4>1, HandlesFaults
    <3> QED BY <1>1, <3>1, <3>2, TouchesOneTyped
  <2> QED BY <2>1, <2>2
<1>6. OrdersOK' BY <1>1, <1>2 DEF OrdersOK, Proceeds, Transfers
<1> QED BY <1>2, <1>3, <1>4, <1>5, <1>6, BaseParts

(* ... as do the entry ...                                                  *)
LEMMA BaseEnter ==
  ASSUME Base, NEW r \in Request, Enter(r)
  PROVE  Base' /\ OthersStay(r)
<1>1. Types /\ LocksHeld /\ OrdersOK /\ PointsOK /\ ForeignThere BY TypesParts DEF Base
<1>2. ControlTyped' /\ LocksHeld' /\ OthersStay(r) BY <1>1, EnterKeeps
<1>3. ItemsTyped' /\ ForeignThere' BY <1>1 DEF Enter, items, ItemsTyped, Types, ForeignThere
<1>4. PointOK(r)'
  <2>1. run[r] \in Run BY <1>1, OrderTyped
  <2>2. run'[r] = [run[r] EXCEPT !.left = order[r].names] /\ at[r] = "waiting" /\ at'[r] = Entry(r) /\ order' = order
    BY <1>1 DEF Enter, Goes, Types
  <2>3. run'[r].left = order[r].names /\ run'[r].kept = run[r].kept BY <2>1, <2>2 DEF Run
  <2>4. run[r].kept = {} BY <1>1, <2>2 DEF PointsOK, PointOK
  <2>5. CASE order[r].op = "delete" BY <2>2, <2>3, <2>4, <2>5 DEF Entry, PointOK, Saves
  <2>6. CASE order[r].op \in {"rename", "comment"} BY <2>2, <2>3, <2>4, <2>6 DEF Entry, PointOK, Saves
  <2>7. CASE order[r].op \notin {"delete", "rename", "comment"}
    <3>1. order[r].op \in {"upload", "copy", "move", "register"} BY <1>1, <2>7, OrderTyped DEF OrderType
    <3> QED BY <2>2, <2>3, <2>4, <2>7, <3>1 DEF Entry, PointOK, Saves
  <2> QED BY <2>5, <2>6, <2>7
<1>5. PointsOK' BY <1>1, <1>2, <1>4, PointOthers
<1>6. OrdersOK' BY <1>1 DEF OrdersOK, Enter, Transfers
<1> QED BY <1>2, <1>3, <1>5, <1>6, BaseParts

(* ... and the measure.                                                     *)
LEMMA BaseMeasure ==
  ASSUME Base, NEW r \in Request, Measure(r)
  PROVE  Base' /\ OthersStay(r)
<1>1. Types /\ LocksHeld /\ OrdersOK /\ PointsOK /\ ForeignThere BY TypesParts DEF Base
<1>2. ControlTyped' /\ LocksHeld' /\ OthersStay(r) BY <1>1, MeasureKeeps
<1>3. ItemsTyped' /\ ForeignThere'
  <2>1. TouchesOne(r) BY <1>1, HandlerTouches
  <2>2. staged' \subseteq Request BY <1>1 DEF Measure, Types
  <2> QED BY <1>1, <2>1, <2>2, TouchesOneTyped
<1>4. PointOK(r)'
  <2>1. Leaves(r) \/ (at'[r] = "saving" /\ deviceLock'[Device[Target(r)]] = r) BY <1>1, MeasureKeeps
  <2>2. CASE Leaves(r)
    <3>1. at'[r] \in {"ended", "dead", "closed"} BY <1>1, <2>2 DEF Leaves, Types
    <3> QED BY <3>1, PointGone
  <2>3. CASE at'[r] = "saving" /\ deviceLock'[Device[Target(r)]] = r
    <3>1. at[r] = "measuring" /\ PointOK(r) /\ order' = order BY <1>1 DEF Measure, PointsOK
    <3>2. run' = run
      <4>1. ~\E code : Ends(r, run[r], code) BY <1>1, <2>3 DEF Ends, Goes, Types
      <4> QED BY <4>1 DEF Measure
    <3>3. Target(r)' = Target(r) BY <3>1 DEF Target, Transfers
    <3> QED BY <2>3, <3>1, <3>2, <3>3 DEF PointOK, Saves, Writer, Inside, Transfers
  <2> QED BY <2>1, <2>2, <2>3
<1>5. PointsOK' BY <1>1, <1>2, <1>4, PointOthers
<1>6. OrdersOK' BY <1>1 DEF OrdersOK, Measure, Transfers
<1> QED BY <1>2, <1>3, <1>5, <1>6, BaseParts

(* Orders lose at most that they are direct drops. *)
SameOrders ==
  \A q \in Request :
    /\ order'[q].op = order[q].op /\ order'[q].zone = order[q].zone /\ order'[q].to = order[q].to
    /\ order'[q].names = order[q].names /\ order'[q].into = order[q].into /\ order'[q].replace = order[q].replace
    /\ order'[q].data = order[q].data /\ (order'[q].staged => order[q].staged)

(* Orders that stay the same stay right.                                    *)
LEMMA SameOrdersOK ==
  ASSUME SameOrders
  PROVE  /\ OrdersOK => OrdersOK'
         /\ \A q \in Request : Target(q)' = Target(q) /\ Zones(q)' = Zones(q) /\ Transfers(q)' = Transfers(q)
                               /\ Writer(q)' = Writer(q)
<1>1. ASSUME NEW q \in Request
      PROVE  Target(q)' = Target(q) /\ Zones(q)' = Zones(q) /\ Transfers(q)' = Transfers(q) /\ Writer(q)' = Writer(q)
  BY DEF SameOrders, Target, Zones, Transfers, Writer
<1>2. OrdersOK => OrdersOK' BY DEF SameOrders, OrdersOK, Transfers
<1> QED BY <1>1, <1>2

(* A direct drop may become an upload; nothing else changes.                *)
LEMMA UnstagedOrder ==
  ASSUME Types, NEW r \in Request, order' = order \/ order' = [order EXCEPT ![r].staged = FALSE]
  PROVE  order' \in [Request -> OrderType] /\ SameOrders /\ \A q \in Request \ {r} : order'[q] = order[q]
<1>1. CASE order' = order BY <1>1 DEF SameOrders, Types
<1>2. CASE order' = [order EXCEPT ![r].staged = FALSE]
  <2> DEFINE o == [order[r] EXCEPT !.staged = FALSE]
  <2>1. order[r] \in OrderType BY OrderTyped
  <2>2. o \in OrderType /\ o.op = order[r].op /\ o.zone = order[r].zone /\ o.to = order[r].to
        /\ o.names = order[r].names /\ o.into = order[r].into /\ o.replace = order[r].replace /\ o.data = order[r].data
        /\ ~o.staged
    BY <2>1 DEF OrderType
  <2>3. order' = [order EXCEPT ![r] = o] BY <1>2
  <2> HIDE DEF o
  <2> QED BY <2>2, <2>3 DEF SameOrders, Types
<1> QED BY <1>1, <1>2

Quiet(r) ==
  /\ UNCHANGED <<items, locks, run>> /\ staged' \subseteq staged \union {r} /\ (Fault \/ UNCHANGED faults)
  /\ order' = order \/ (order' = [order EXCEPT ![r].staged = FALSE] /\ at[r] \in {"new", "waiting"})
  /\ at' = at \/ (\E p \in {"waiting", "closed"} : at' = [at EXCEPT ![r] = p] /\ ~Inside(r) /\ p # at[r])
  /\ at[r] # "new" => at'[r] # "waiting" \/ at' = at

(* The steps outside of the zones touch no lock and no item, ...            *)
LEMMA QuietSteps ==
  ASSUME NEW r \in Request, Types, Begin(r) \/ Refuse(r) \/ Collect(r) \/ GiveUp(r)
  PROVE  Quiet(r)
<1>1. CASE Begin(r) BY <1>1 DEF Begin, Quiet, Goes, Inside, Fault, Types
<1>2. CASE Refuse(r) BY <1>2 DEF Refuse, Quiet, Goes, Inside, Fault, Types
<1>3. CASE Collect(r) BY <1>3 DEF Collect, Quiet, Goes, Inside, Fault, Types
<1>4. CASE GiveUp(r) BY <1>4 DEF GiveUp, Quiet, Fault, Types
<1> QED BY <1>1, <1>2, <1>3, <1>4

(* ... and keep the base invariant.                                         *)
LEMMA BaseQuiet ==
  ASSUME Base, NEW r \in Request, Quiet(r)
  PROVE  Base' /\ OthersStay(r) /\ SameOrders
<1>1. Types /\ LocksHeld /\ OrdersOK /\ PointsOK /\ ForeignThere BY TypesParts DEF Base
<1>2. order' \in [Request -> OrderType] /\ SameOrders /\ \A q \in Request \ {r} : order'[q] = order[q]
  BY <1>1, UnstagedOrder DEF Quiet
<1>3. at' \in [Request -> Point] /\ \A q \in Request \ {r} : at'[q] = at[q] BY <1>1 DEF Quiet, Types, Point
<1>4. ControlTyped' BY <1>1, <1>2, <1>3 DEF Quiet, ControlTyped, Types, locks
<1>5. ItemsTyped' /\ ForeignThere'
  <2>1. faults' \in 0..MaxFaults BY <1>1, FaultTyped DEF Quiet
  <2> QED BY <1>1, <2>1 DEF Quiet, ItemsTyped, ForeignThere, Types, items
<1>6. \A q \in Request : Inside(q)' <=> Inside(q) BY <1>1, <1>3 DEF Quiet, Inside, Types
<1>7. \A q \in Request : Target(q)' = Target(q) /\ Zones(q)' = Zones(q) /\ Transfers(q)' = Transfers(q)
                         /\ Writer(q)' = Writer(q)
  BY <1>2, SameOrdersOK
<1>8. \A q \in Request : at[q] \in Writing => at'[q] = at[q]
  BY <1>1, <1>3 DEF Quiet, Types, Writing, Inside
<1>9. LocksHeld' BY <1>1, <1>6, <1>7, <1>8 DEF LocksHeld, Quiet, locks, Writing
<1>10. OthersStay(r) BY <1>2, <1>3 DEF OthersStay, Quiet, locks
<1>11. PointOK(r)'
  <2>1. PointOK(r) BY <1>1 DEF PointsOK
  <2>2. CASE at'[r] = "closed" BY <2>2, PointGone
  <2>3. CASE at' = at
    BY <1>2, <1>6, <1>7, <2>1, <2>3 DEF PointOK, Quiet, locks, SameOrders
  <2>4. CASE at'[r] = "waiting" /\ at[r] = "new"
    BY <1>2, <1>6, <1>7, <2>1, <2>4 DEF PointOK, Quiet, Saves, Inside
  <2> QED BY <1>1, <2>2, <2>3, <2>4 DEF Quiet, Types
<1>12. PointsOK' BY <1>1, <1>10, <1>11, PointOthers
<1> QED BY <1>1, <1>2, <1>4, <1>5, <1>9, <1>10, <1>12, SameOrdersOK, BaseParts

(* A death gives all locks back and keeps the base invariant.               *)
LEMMA BaseDie ==
  ASSUME Base, NEW r \in Request, Die(r)
  PROVE  Base' /\ OthersStay(r) /\ Leaves(r)
<1>1. Types /\ LocksHeld /\ OrdersOK /\ PointsOK /\ ForeignThere BY TypesParts DEF Base
<1>2. Leaves(r)
  <2>1. run[r] \in Run /\ run' = [run EXCEPT ![r] = run[r]] BY <1>1 DEF Die, Types
  <2> QED BY <2>1 DEF Die, Leaves, Goes
<1>3. ControlTyped' /\ LocksHeld' /\ OthersStay(r) BY <1>1, <1>2, LeavesKeeps
<1>4. ItemsTyped' /\ ForeignThere'
  <2>1. faults' \in 0..MaxFaults BY <1>1, FaultTyped DEF Die
  <2> QED BY <1>1, <2>1 DEF Die, ItemsTyped, ForeignThere, Types, items
<1>5. PointsOK'
  <2>1. at'[r] = "dead" BY <1>1 DEF Die, Goes, Types
  <2> QED BY <1>1, <1>3, <2>1, PointGone, PointOthers
<1>6. OrdersOK' BY <1>1 DEF OrdersOK, Die, Transfers
<1> QED BY <1>2, <1>3, <1>4, <1>5, <1>6, BaseParts

(* What is not the work of a request. *)
Around ==
  \E z \in Zone : Reconcile(z) \/ \E n \in Name : Vanish(z, n) \/ \E data \in Data : Rewrite(z, n, data)

(* What happens around the requests leaves the items typed ...              *)
LEMMA AroundTyped == ASSUME Types, ForeignThere, Around PROVE ItemsTyped' /\ ForeignThere'
<1>1. faults' \in 0..MaxFaults /\ staged' \subseteq Request
  <2>1. (Fault \/ UNCHANGED faults) /\ UNCHANGED staged BY DEF Around, Reconcile, Vanish, Rewrite
  <2> QED BY <2>1, FaultTyped DEF Types
<1>2. PICK z \in Zone : Reconcile(z) \/ \E n \in Name : Vanish(z, n) \/ \E data \in Data : Rewrite(z, n, data)
  BY DEF Around
<1>3. CASE Reconcile(z)
  <2> DEFINE marked == {n \in Name : journal[z][n] \in {"committed", "prepared", "deleting"}}
             J == [n \in Name |-> IF n \in marked THEN None ELSE journal[z][n]]
             H(doomed) == [n \in Name |-> IF n \in doomed THEN None ELSE held[z][n]]
  <2>1. PICK doomed \in SUBSET {n \in marked : journal[z][n] = "deleting"} : held' = [held EXCEPT ![z] = H(doomed)]
    BY <1>3 DEF Reconcile
  <2>2. journal' = [journal EXCEPT ![z] = J] BY <1>3 DEF Reconcile
  <2>3. J \in [Name -> Mark \union {None}] /\ H(doomed) \in [Name -> Item \union {None}] BY DEF Types
  <2>4. \A n \in Name : J[n] = "foreign" => H(doomed)[n] # None BY NoneApart DEF ForeignThere, Mark
  <2> HIDE DEF J, H
  <2>5. ItemsTyped' BY <1>1, <2>1, <2>2, <2>3 DEF ItemsTyped, Types
  <2>6. ForeignThere' BY <2>1, <2>2, <2>3, <2>4 DEF ForeignThere, Types
  <2> QED BY <2>5, <2>6
<1>4. ASSUME NEW n \in Name, Vanish(z, n) PROVE ItemsTyped' /\ ForeignThere'
  <2>1. PICK mark \in {"orphan", None} : Becomes(z, n, None, mark) BY <1>4 DEF Vanish
  <2>2. mark \in (Mark \union {None}) \ {"foreign"} BY <2>1, NoneApart DEF Mark
  <2>3. None \in Item \union {None} OBVIOUS
  <2> QED BY <1>1, <2>1, <2>2, <2>3, BecomesTyped DEF ItemsTyped
<1>5. ASSUME NEW n \in Name, NEW data \in Data, Rewrite(z, n, data) PROVE ItemsTyped' /\ ForeignThere'
  <2> DEFINE item == [held[z][n] EXCEPT !.data = data]
  <2>1. held' = [held EXCEPT ![z] = [held[z] EXCEPT ![n] = item]] /\ journal' = journal BY <1>5 DEF Rewrite, Types
  <2>2. held[z][n] \in Item BY <1>5 DEF Rewrite, ForeignThere, Types
  <2>3. item \in Item BY <2>2 DEF Item
  <2> HIDE DEF item
  <2> QED BY <1>1, <2>1, <2>3, NoneApart DEF ItemsTyped, ForeignThere, Types
<1> QED BY <1>2, <1>3, <1>4, <1>5

(* ... and the requests alone.                                              *)
LEMMA BaseAround == ASSUME Base, Around PROVE Base' /\ UNCHANGED <<locks, order, at, run, staged>>
<1>1. Types /\ LocksHeld /\ OrdersOK /\ PointsOK /\ ForeignThere BY TypesParts DEF Base
<1>2. UNCHANGED <<locks, order, at, run, staged>> BY DEF Around, Reconcile, Vanish, Rewrite
<1>3. ItemsTyped' /\ ForeignThere' BY <1>1, AroundTyped
<1>4. ControlTyped' BY <1>1, <1>2 DEF ControlTyped, Types, locks
<1>5. LocksHeld' BY <1>1, <1>2 DEF LocksHeld, Inside, Zones, Target, Transfers, locks
<1>6. PointsOK' BY <1>1, <1>2 DEF PointsOK, PointOK, Inside, Target, Transfers, Writer, locks
<1>7. OrdersOK' BY <1>1, <1>2 DEF OrdersOK, Transfers
<1> QED BY <1>2, <1>3, <1>4, <1>5, <1>6, <1>7, BaseParts

(* The kinds of step.                                                       *)
LEMMA NextCases ==
  Next <=> Around \/ \E r \in Request : \/ Begin(r) \/ Refuse(r) \/ Collect(r) \/ GiveUp(r)
                                        \/ Enter(r) \/ Measure(r) \/ Handles(r) \/ Die(r)
BY WorksOn DEF Next, Around

(* Every step keeps the base invariant.                                     *)
LEMMA BaseStep == Base /\ [Next]_vars => Base'
<1> SUFFICES ASSUME Base, [Next]_vars PROVE Base' OBVIOUS
<1>1. CASE Around BY <1>1, BaseAround
<1>2. ASSUME NEW r \in Request, Begin(r) \/ Refuse(r) \/ Collect(r) \/ GiveUp(r) PROVE Base'
  <2>1. Quiet(r) BY <1>2, QuietSteps, TypesParts DEF Base
  <2> QED BY <2>1, BaseQuiet
<1>3. ASSUME NEW r \in Request, Enter(r) PROVE Base' BY <1>3, BaseEnter
<1>4. ASSUME NEW r \in Request, Measure(r) PROVE Base' BY <1>4, BaseMeasure
<1>5. ASSUME NEW r \in Request, Handles(r) PROVE Base' BY <1>5, BaseHandles
<1>6. ASSUME NEW r \in Request, Die(r) PROVE Base' BY <1>6, BaseDie
<1>7. CASE UNCHANGED vars
  BY <1>7 DEF vars, Base, TypeOK, LocksHeld, OrdersOK, PointsOK, PointOK, ForeignThere, Inside, Zones, Target,
              Transfers, Writer
<1> QED BY <1>1, <1>2, <1>3, <1>4, <1>5, <1>6, <1>7, NextCases

(* Types hold, and in every state each request holds the locks of its zones *)
(* while it is inside, and the lock of a device only while it writes there. *)
THEOREM LocksAlwaysHeld == Spec => []TypeOK
<1>1. Base => TypeOK BY DEF Base
<1> QED BY BaseInit, BaseStep, <1>1, PTL DEF Spec

-----------------------------------------------------------------------------
(* Staging files *)

LEMMA HandlesGoes ==
  ASSUME Base, NEW r \in Request, Handles(r) \/ Enter(r) \/ Measure(r) \/ Die(r)
  PROVE  /\ at'[r] # "closed" /\ staged' \subseteq staged /\ (Fault \/ UNCHANGED faults)
         /\ \A q \in Request \ {r} : at'[q] = at[q]
<1>1. Types BY TypesParts DEF Base
<1>2. CASE Handles(r)
  <2>1. Proceeds(r) /\ OthersStay(r) BY <1>2, BaseHandles
  <2>2. at'[r] # "closed" BY <1>1, <2>1 DEF Proceeds, GoesOn, Stops, Continues, Ends, Goes, Types, Inner
  <2> QED BY <1>2, <2>1, <2>2, HandlesFaults DEF OthersStay
<1>3. CASE Enter(r)
  <2>1. at'[r] # "closed" BY <1>1, <1>3 DEF Enter, Goes, Types, Entry
  <2> QED BY <1>3, <2>1, BaseEnter DEF Enter, OthersStay
<1>4. CASE Measure(r)
  <2>1. at'[r] # "closed" BY <1>1, <1>4 DEF Measure, Ends, Goes, Types
  <2> QED BY <1>4, <2>1, BaseMeasure DEF Measure, Lists, OthersStay
<1>5. CASE Die(r)
  <2>1. at'[r] # "closed" BY <1>1, <1>5 DEF Die, Goes, Types
  <2> QED BY <1>5, <2>1, BaseDie DEF Die, OthersStay
<1> QED BY <1>2, <1>3, <1>4, <1>5

(* A staging file is that of a direct drop; the answer of success comes     *)
(* after its removal.                                                       *)
StageOK(r) ==
  /\ r \in staged => order[r].staged /\ at[r] # "new"
  /\ at[r] = "ended" /\ run[r].code = "ok" => r \notin staged
StagesOK == \A r \in Request : StageOK(r)

(* The end of a request has the code of its answer.                         *)
LEMMA EndsCode ==
  ASSUME Types, NEW r \in Request, NEW s \in Run, NEW code \in Code, Ends(r, s, code)
  PROVE  run'[r].code = code /\ at'[r] = "ended"
BY DEF Ends, Goes, Types, Run

(* An upload that is a direct drop answers with success only after it has   *)
(* removed its staging file.                                                *)
LEMMA SuccessUnstaged ==
  ASSUME Base, NEW r \in Request, Handles(r) \/ Measure(r), order[r].staged, at'[r] = "ended", run'[r].code = "ok"
  PROVE  r \notin staged'
<1>1. Types /\ PointOK(r) /\ order[r].op = "upload" BY TypesParts DEF Base, PointsOK, OrdersOK
<1>2. run[r] \in Run BY <1>1, OrderTyped
<1>3. Code = {None, "ok", "duplicate", "unknown_image", "storage_conflict", "replacement_required",
              "storage_low", "retention_error", "destination_error"} BY DEF Code
<1>4. ~Transfers(r) BY <1>1 DEF Transfers
<1>5. \A code \in Code : Ends(r, run[r], code) => code = "ok" BY <1>1, <1>2, EndsCode
<1>6. ASSUME NEW p \in Inner, NEW s, Continues(r, p, s) PROVE FALSE
  BY <1>1, <1>6 DEF Continues, Goes, Types, Inner
<1>7. {"measuring", "saving", "retaining", "evicting", "unstaging", "removing", "deleting", "registering", "publishing"} \subseteq Inner
  BY DEF Inner, Point
<1>8. CASE LookAtUpload(r)
  <2>1. Ends(r, run[r], "destination_error") BY <1>6, <1>7, <1>8 DEF LookAtUpload
  <2> QED BY <1>3, <1>5, <2>1
<1>9. CASE LookAtTransfer(r) \/ Confirm(r) BY <1>4, <1>9 DEF LookAtTransfer, Confirm
<1>10. CASE NoName(r) BY <1>3, <1>5, <1>10 DEF NoName
<1>11. CASE ListVictims(r)
  <2>1. Fails(r, run[r].doing, TRUE, "destination_error") BY <1>6, <1>7, <1>11, ListsVictims
  <2> QED BY <1>3, <1>4, <1>5, <2>1 DEF Fails
<1>12. CASE Retained(r)
  <2>1. Fails(r, run[r].doing, TRUE, "retention_error") BY <1>4, <1>6, <1>7, <1>12 DEF Retained
  <2> QED BY <1>3, <1>4, <1>5, <2>1 DEF Fails
<1>13. CASE Unstage(r)
  <2>1. ~Ends(r, run[r], "destination_error") BY <1>3, <1>5
  <2> QED BY <1>13, <2>1 DEF Unstage
<1>14. CASE Removed(r) BY <1>1, <1>14 DEF Removed, PointOK
<1>15. CASE Measure(r)
  <2>1. ~Ends(r, run[r], "duplicate") /\ ~Ends(r, run[r], "storage_low") /\ ~Ends(r, run[r], "destination_error")
    BY <1>3, <1>5
  <2>2. at'[r] = "saving" BY <1>1, <1>15, <2>1 DEF Measure, Goes, Types
  <2> QED BY <2>2
<1>16. ASSUME NEW n \in Name, Save(r, n) PROVE FALSE
  <2> DEFINE verdict == Availability(Target(r), n, n \in order[r].replace)
  <2>1. /\ Fails(r, n, FALSE, verdict) \/ Fails(r, n, FALSE, "destination_error")
        /\ Fails(r, n, FALSE, verdict) => verdict # "ok" \/ Incoming(r, n) = None \/ Fails(r, n, FALSE, "destination_error")
    BY <1>6, <1>7, <1>16 DEF Save
  <2>2. Incoming(r, n) # None
    <3>1. Incoming(r, n) \in Item BY <1>1, <1>4, OrderTyped DEF Incoming, Item
    <3> QED BY <3>1, NoneApart
  <2>3. verdict \in Code BY <1>3 DEF Availability
  <2> HIDE DEF verdict
  <2> QED BY <1>3, <1>4, <1>5, <2>1, <2>2, <2>3 DEF Fails
<1>17. ASSUME NEW n \in Name, Evict(r, n) \/ Remove(r, n) \/ Delete(r, n) PROVE FALSE
  BY <1>6, <1>7, <1>17 DEF Evict, Remove, Delete
<1>18. ASSUME NEW n \in Name,
              Rename(r, n) \/ Comment(r, n) \/ ReadForeign(r, n) \/ Register(r, n) \/ Publish(r, n)
       PROVE  FALSE
  BY <1>1, <1>18 DEF Rename, Comment, ReadForeign, Register, Publish, PointOK
<1> QED BY <1>8, <1>9, <1>10, <1>11, <1>12, <1>13, <1>14, <1>15, <1>16, <1>17, <1>18 DEF Handles

(* Every step keeps that.                                                   *)
LEMMA StagesStep == ASSUME Base, StagesOK, [Next]_vars PROVE StagesOK'
<1>1. Types BY TypesParts DEF Base
<1> SUFFICES ASSUME NEW q \in Request PROVE StageOK(q)' BY DEF StagesOK
<1>2. StageOK(q) BY DEF StagesOK
<1>3. ASSUME order'[q] = order[q], at'[q] = at[q], run'[q] = run[q], q \in staged' => q \in staged
      PROVE  StageOK(q)'
  BY <1>2, <1>3 DEF StageOK
<1>4. CASE Around \/ UNCHANGED vars BY <1>3, <1>4, BaseAround DEF vars
<1>5. ASSUME NEW r \in Request, Handles(r) \/ Enter(r) \/ Measure(r) \/ Die(r) PROVE StageOK(q)'
  <2>1. OthersStay(r) /\ staged' \subseteq staged /\ order' = order
    BY <1>5, HandlesGoes, BaseHandles, BaseEnter, BaseMeasure, BaseDie DEF Proceeds, Enter, Measure, Die
  <2>2. CASE q # r BY <1>3, <2>1, <2>2 DEF OthersStay
  <2>3. CASE q = r
    <3>3. at'[r] # "new" \/ at'[r] = at[r]
      <4>1. CASE Handles(r)
        BY <1>1, <4>1, BaseHandles DEF Proceeds, GoesOn, Stops, Continues, Ends, Goes, Types, Inner
      <4>2. CASE Enter(r) \/ Measure(r) \/ Die(r) BY <1>1, <4>2 DEF Enter, Measure, Die, Ends, Goes, Types, Entry
      <4> QED BY <1>5, <4>1, <4>2
    <3>1. CASE Handles(r) \/ Measure(r) BY <1>2, <2>1, <2>3, <3>1, <3>3, SuccessUnstaged DEF StageOK
    <3>2. CASE Enter(r) \/ Die(r)
      <4>1. at'[r] \notin {"ended", "new"} BY <1>1, <3>2 DEF Enter, Die, Goes, Types, Entry
      <4> QED BY <1>2, <2>1, <2>3, <4>1 DEF StageOK
    <3> QED BY <1>5, <3>1, <3>2
  <2> QED BY <2>2, <2>3
<1>6. ASSUME NEW r \in Request, Begin(r) \/ Refuse(r) \/ Collect(r) \/ GiveUp(r), q # r PROVE StageOK(q)'
  <2>1. OthersStay(r) /\ staged' \subseteq staged \union {r} BY <1>1, <1>6, QuietSteps, BaseQuiet DEF Quiet
  <2> QED BY <1>3, <1>6, <2>1 DEF OthersStay
<1>7. CASE Begin(q)
  <2>1. at'[q] = "waiting" BY <1>1, <1>7 DEF Begin, Goes, Types
  <2>2. q \in staged' => order'[q].staged BY <1>1, <1>2, <1>7 DEF Begin, StageOK, Types
  <2> QED BY <2>1, <2>2 DEF StageOK
<1>8. CASE Refuse(q)
  <2>1. at'[q] \in {"waiting", "closed"} BY <1>1, <1>8 DEF Refuse, Goes, Types
  <2>2. q \in staged' => order'[q].staged BY <1>2, <1>8 DEF Refuse, StageOK, Types
  <2> QED BY <2>1, <2>2 DEF StageOK
<1>9. CASE Collect(q)
  <2>1. at'[q] = "closed" BY <1>1, <1>9 DEF Collect, Goes, Types
  <2>2. q \in staged' => order'[q].staged BY <1>2, <1>9 DEF Collect, StageOK
  <2> QED BY <2>1, <2>2 DEF StageOK
<1>10. CASE GiveUp(q) BY <1>10 DEF GiveUp, StageOK
<1> QED BY <1>4, <1>5, <1>6, <1>7, <1>8, <1>9, <1>10, NextCases

(* Every step keeps that staging files are retired.                         *)
LEMMA StageStep == ASSUME Base, StagesOK, StageRetired, [Next]_vars PROVE StageRetired'
<1>1. Types /\ faults \in Nat BY TypesParts, SetsAssumption DEF Base, Types
<1>2. ASSUME Fault \/ UNCHANGED faults, \A q \in Request : at'[q] = "closed" /\ q \in staged' => at[q] = "closed" /\ q \in staged
      PROVE  StageRetired'
  BY <1>1, <1>2 DEF StageRetired, Fault
<1>3. CASE Around
  <2>1. Fault \/ UNCHANGED faults BY <1>3 DEF Around, Reconcile, Vanish, Rewrite
  <2> QED BY <1>2, <1>3, <2>1, BaseAround
<1>4. ASSUME NEW r \in Request, Handles(r) \/ Enter(r) \/ Measure(r) \/ Die(r) PROVE StageRetired'
  BY <1>2, <1>4, HandlesGoes
<1>5. ASSUME NEW r \in Request, Begin(r) PROVE StageRetired'
  <2>1. Fault \/ UNCHANGED faults BY <1>5 DEF Begin
  <2> QED BY <1>1, <1>2, <1>5, <2>1 DEF Begin, Goes, Types
<1>6. ASSUME NEW r \in Request, Refuse(r) PROVE StageRetired'
  <2>1. CASE faults' = faults + 1 BY <1>1, <2>1 DEF StageRetired
  <2>2. CASE ~Fault BY <1>1, <1>2, <1>6, <2>2 DEF Refuse
  <2> QED BY <2>1, <2>2 DEF Fault
<1>7. ASSUME NEW r \in Request, Collect(r) PROVE StageRetired'
  <2>1. CASE faults' = faults + 1 BY <1>1, <2>1 DEF StageRetired
  <2>2. CASE ~Fault
    <3>1. r \notin staged' /\ staged' \subseteq staged /\ UNCHANGED faults
      BY <1>7, <2>2 DEF Collect, StagesOK, StageOK
    <3>2. \A q \in Request : at'[q] = "closed" /\ q # r => at[q] = "closed" BY <1>1, <1>7 DEF Collect, Goes, Types
    <3> QED BY <1>2, <3>1, <3>2
  <2> QED BY <2>1, <2>2 DEF Fault
<1>8. ASSUME NEW r \in Request, GiveUp(r) PROVE StageRetired' BY <1>1, <1>2, <1>8 DEF GiveUp
<1>9. CASE UNCHANGED vars BY <1>9 DEF vars, StageRetired
<1> QED BY <1>3, <1>4, <1>5, <1>6, <1>7, <1>8, <1>9, NextCases

(* cli.py, _try_direct_drop(), and service.py: without failing calls and    *)
(* deaths no staging file of a direct drop outlives the command that made   *)
(* it, whether the daemon takes the drop, refuses it or fails, and whenever *)
(* the client gives up: after an answer of success the command leaves the   *)
(* file alone, and the daemon has removed it before it gave that answer.    *)
THEOREM StagingRetired == Spec => []StageRetired
<1>1. Init => StageRetired /\ StagesOK BY DEF Init, StageRetired, StagesOK, StageOK
<1> QED BY <1>1, BaseInit, BaseStep, StagesStep, StageStep, PTL DEF Spec

-----------------------------------------------------------------------------
(* Space *)

LEMMA StoredFinite == \A d : IsFiniteSet(Stored(d)) /\ Cardinality(Stored(d)) \in Nat
<1> TAKE d
<1>1. IsFiniteSet(Zone \X Name) BY SetsAssumption, FS_Product
<1>2. IsFiniteSet(Stored(d)) BY <1>1, FS_Subset DEF Stored
<1> QED BY <1>2, FS_CardinalityType

(* Names can be counted.                                                    *)
LEMMA NamesFinite == \A S \in SUBSET Name : IsFiniteSet(S) /\ Cardinality(S) \in Nat
BY SetsAssumption, FS_Subset, FS_CardinalityType

(* One name less counts one less.                                           *)
LEMMA WithoutOne ==
  ASSUME NEW S \in SUBSET Name, NEW n \in Name
  PROVE  /\ Cardinality(S \ {n}) <= Cardinality(S)
         /\ n \in S => Cardinality(S \ {n}) + 1 = Cardinality(S)
<1>1. IsFiniteSet(S) /\ Cardinality(S) \in Nat BY NamesFinite
<1>2. Cardinality(S \ {n}) = IF n \in S THEN Cardinality(S) - 1 ELSE Cardinality(S) BY <1>1, FS_RemoveElement
<1> QED BY <1>1, <1>2

(* How the number of items of a device changes with its items.              *)
LEMMA StoredShrinks ==
  ASSUME NEW d, Stored(d)' \subseteq Stored(d)
  PROVE  Cardinality(Stored(d)') <= Cardinality(Stored(d)) /\ Cardinality(Stored(d)') \in Nat
<1>1. IsFiniteSet(Stored(d)) BY StoredFinite
<1>2. IsFiniteSet(Stored(d)') BY <1>1, FS_Subset
<1> QED BY <1>1, <1>2, FS_Subset, FS_CardinalityType

(* One place more is one more place taken at most.                          *)
LEMMA StoredGrows ==
  ASSUME NEW d, NEW p, Stored(d)' \subseteq Stored(d) \union {p}
  PROVE  Cardinality(Stored(d)') <= Cardinality(Stored(d)) + 1 /\ Cardinality(Stored(d)') \in Nat
<1>1. IsFiniteSet(Stored(d)) /\ Cardinality(Stored(d)) \in Nat BY StoredFinite
<1>2. /\ IsFiniteSet(Stored(d) \union {p})
      /\ Cardinality(Stored(d) \union {p}) = IF p \in Stored(d) THEN Cardinality(Stored(d)) ELSE Cardinality(Stored(d)) + 1
  BY <1>1, FS_AddElement
<1>3. Cardinality(Stored(d) \union {p}) <= Cardinality(Stored(d)) + 1 BY <1>1, <1>2
<1>4. IsFiniteSet(Stored(d)') /\ Cardinality(Stored(d)') <= Cardinality(Stored(d) \union {p})
  BY <1>2, FS_Subset
<1> QED BY <1>1, <1>2, <1>3, <1>4, FS_CardinalityType

(* A place given for another takes no more.                                 *)
LEMMA StoredMoves ==
  ASSUME NEW d, NEW p, NEW q \in Stored(d), Stored(d)' \subseteq (Stored(d) \ {q}) \union {p}
  PROVE  Cardinality(Stored(d)') <= Cardinality(Stored(d)) /\ Cardinality(Stored(d)') \in Nat
<1> DEFINE S == Stored(d) \ {q}
<1>1. IsFiniteSet(Stored(d)) /\ Cardinality(Stored(d)) \in Nat BY StoredFinite
<1>2. IsFiniteSet(S) /\ Cardinality(S) = Cardinality(Stored(d)) - 1 BY <1>1, FS_RemoveElement
<1>3. Cardinality(S) \in Nat BY <1>2, FS_CardinalityType
<1>4. IsFiniteSet(S \union {p}) /\ Cardinality(S \union {p}) = IF p \in S THEN Cardinality(S) ELSE Cardinality(S) + 1
  BY <1>2, FS_AddElement
<1>5. Cardinality(S \union {p}) <= Cardinality(Stored(d)) BY <1>1, <1>2, <1>3, <1>4
<1>6. IsFiniteSet(Stored(d)') /\ Cardinality(Stored(d)') <= Cardinality(S \union {p}) BY <1>4, FS_Subset
<1>7. Cardinality(Stored(d)') \in Nat /\ Cardinality(S \union {p}) \in Nat BY <1>4, <1>6, FS_CardinalityType
<1> QED BY <1>1, <1>5, <1>6, <1>7

(* Only a save adds an item, and only to the device of its target.          *)
LEMMA BecomesStored ==
  ASSUME Types, NEW z \in Zone, NEW n \in Name, NEW item, NEW mark, Becomes(z, n, item, mark), NEW d
  PROVE  /\ item = None \/ held[z][n] # None => Stored(d)' \subseteq Stored(d)
         /\ Stored(d)' \subseteq Stored(d) \union {<<z, n>>}
         /\ Device[z] # d => Stored(d)' \subseteq Stored(d)
<1>1. \A y \in Zone, m \in Name : held'[y][m] = IF y = z /\ m = n THEN item ELSE held[y][m] BY DEF Becomes, Types
<1>2. \A p \in Stored(d)' : /\ p \in Zone \X Name /\ Device[p[1]] = d
                            /\ p = <<p[1], p[2]>> /\ p[1] \in Zone /\ p[2] \in Name /\ held'[p[1]][p[2]] # None
  BY DEF Stored
<1>3. \A p \in Stored(d)' : p \in Stored(d) \/ (p[1] = z /\ p[2] = n /\ item # None) BY <1>1, <1>2 DEF Stored
<1>4. \A p \in Stored(d)' : p \in Stored(d) \/ (p = <<z, n>> /\ item # None /\ Device[z] = d) BY <1>2, <1>3
<1>5. held[z][n] # None /\ Device[z] = d => <<z, n>> \in Stored(d) BY DEF Stored
<1> QED BY <1>4, <1>5

(* A change of one item takes its own place at most.                        *)
LEMMA TouchesStored ==
  ASSUME Types, NEW z \in Zone, NEW n \in Name, NEW item, NEW d, Touches(z, n, item)
  PROVE  /\ item = None \/ held[z][n] # None => Stored(d)' \subseteq Stored(d)
         /\ Stored(d)' \subseteq Stored(d) \union {<<z, n>>}
         /\ Device[z] # d => Stored(d)' \subseteq Stored(d)
<1>1. CASE UNCHANGED items BY <1>1 DEF items, Stored
<1>2. CASE \E mark : Becomes(z, n, item, mark) BY <1>2, BecomesStored
<1>3. CASE \E mark : Becomes(z, n, held[z][n], mark)
  <2>1. PICK mark : Becomes(z, n, held[z][n], mark) BY <1>3
  <2>2. Stored(d)' \subseteq Stored(d) BY <2>1, BecomesStored
  <2> QED BY <2>2
<1> QED BY <1>1, <1>2, <1>3 DEF Touches, Changes, SaveFails, DeleteFails, SidecarFails

(* A rename takes no more place.                                            *)
LEMMA RenameStored ==
  ASSUME Types, OrdersOK, NEW r \in Request, NEW n \in Name, Rename(r, n), NEW d
  PROVE  Cardinality(Stored(d)') <= Cardinality(Stored(d)) /\ Cardinality(Stored(d)') \in Nat
<1> DEFINE z == order[r].zone
           m == order[r].into
           H == [held[z] EXCEPT ![m] = held[z][n], ![n] = None]
<1>1. z \in Zone /\ m \in Name /\ m # n BY OrderTyped DEF Rename, OrdersOK
<1>2. CASE held' = held
  <2>1. Stored(d)' \subseteq Stored(d) BY <1>2 DEF Stored
  <2> QED BY <2>1, StoredShrinks
<1>3. CASE held' = [held EXCEPT ![z] = H] /\ held[z][n] # None
  <2>1. \A y \in Zone, i \in Name : held'[y][i] = IF y # z \/ (i # n /\ i # m) THEN held[y][i]
                                                  ELSE IF i = n THEN None ELSE held[z][n]
    BY <1>1, <1>3 DEF Types
  <2>2. \A p \in Stored(d)' : /\ p \in Zone \X Name /\ Device[p[1]] = d
                              /\ p = <<p[1], p[2]>> /\ p[1] \in Zone /\ p[2] \in Name /\ held'[p[1]][p[2]] # None
    BY DEF Stored
  <2>3. \A p \in Stored(d)' : p # <<z, n>> /\ (p \in Stored(d) \/ p = <<z, m>>)
    <3>1. ASSUME NEW p \in Stored(d)' PROVE p # <<z, n>> /\ (p \in Stored(d) \/ p = <<z, m>>)
      <4>1. ~(p[1] = z /\ p[2] = n) BY <1>1, <2>1, <2>2, <3>1
      <4>2. CASE p[1] = z /\ p[2] = m BY <1>1, <2>2, <3>1, <4>2
      <4>3. CASE ~(p[1] = z /\ p[2] = m)
        <5>1. held[p[1]][p[2]] # None BY <2>1, <2>2, <3>1, <4>1, <4>3
        <5> QED BY <2>2, <3>1, <4>1, <5>1 DEF Stored
      <4> QED BY <4>2, <4>3
    <3> QED BY <3>1
  <2>4. CASE Device[z] = d
    <3>1. <<z, n>> \in Stored(d) BY <1>1, <1>3, <2>4 DEF Stored
    <3>2. Stored(d)' \subseteq (Stored(d) \ {<<z, n>>}) \union {<<z, m>>} BY <2>3
    <3> DEFINE q == <<z, n>>
               p == <<z, m>>
    <3>3. q \in Stored(d) /\ Stored(d)' \subseteq (Stored(d) \ {q}) \union {p} BY <3>1, <3>2
    <3> HIDE DEF p, q
    <3> QED BY <3>3, StoredMoves
  <2>5. CASE Device[z] # d
    <3>1. Stored(d)' \subseteq Stored(d) BY <2>2, <2>3, <2>5
    <3> QED BY <3>1, StoredShrinks
  <2> QED BY <2>4, <2>5
<1> QED BY <1>2, <1>3 DEF Rename, items

(* Only a save takes more place, ...                                        *)
LEMMA HandlesStored ==
  ASSUME Base, NEW r \in Request, Handles(r) \/ Enter(r) \/ Measure(r), ~\E n \in Name : Save(r, n), NEW d
  PROVE  Cardinality(Stored(d)') <= Cardinality(Stored(d)) /\ Cardinality(Stored(d)') \in Nat
<1>1. Types /\ OrdersOK /\ PointsOK BY TypesParts DEF Base
<1>2. CASE \E n \in Name : Rename(r, n) BY <1>1, <1>2, RenameStored
<1>3. CASE UNCHANGED items
  <2>1. Stored(d)' \subseteq Stored(d) BY <1>3 DEF items, Stored
  <2> QED BY <2>1, StoredShrinks
<1>4. CASE \E item : \E z \in Zone, n \in Name : Touches(z, n, item) /\ (item = None \/ held[z][n] # None)
  <2>1. PICK item : \E z \in Zone, n \in Name : Touches(z, n, item) /\ (item = None \/ held[z][n] # None)
    BY <1>4
  <2>2. Stored(d)' \subseteq Stored(d) BY <1>1, <2>1, TouchesStored
  <2> QED BY <2>2, StoredShrinks
<1>5. order[r].zone \in Zone /\ Target(r) \in Zone BY <1>1, OrderTyped
<1>6. ASSUME NEW n \in Name, Evict(r, n) \/ Remove(r, n) \/ Delete(r, n), ~UNCHANGED items
      PROVE  \E item : \E z \in Zone : Touches(z, n, item) /\ (item = None \/ held[z][n] # None)
  BY <1>5, <1>6 DEF Evict, Remove, Delete, Touches
<1>7. ASSUME NEW n \in Name, Comment(r, n) \/ Publish(r, n), ~UNCHANGED items
      PROVE  \E item : \E z \in Zone : Touches(z, n, item) /\ (item = None \/ held[z][n] # None)
  <2> DEFINE z == order[r].zone
  <2>1. held[z][n] # None /\ \E item : (Becomes(z, n, item, None) /\ UNCHANGED faults) \/ SidecarFails(z, n, item)
    <3>1. CASE Comment(r, n) BY <1>7, <3>1 DEF Comment
    <3>2. CASE Publish(r, n) BY <1>1, <1>7, <3>2, PublishForms DEF Publishes
    <3> QED BY <1>7, <3>1, <3>2
  <2> QED BY <1>5, <2>1 DEF Touches
<1>8. \/ UNCHANGED items \/ \E n \in Name : Rename(r, n)
      \/ \E n \in Name : Evict(r, n) \/ Remove(r, n) \/ Delete(r, n) \/ Comment(r, n) \/ Publish(r, n)
  BY DEF Handles, LookAtUpload, LookAtTransfer, NoName, ListVictims, Retained, Unstage, Confirm, Removed, ReadForeign,
         Register, Enter, Measure
<1> QED BY <1>2, <1>3, <1>4, <1>6, <1>7, <1>8

(* ... one item of it, on the device of its target.                         *)
LEMMA SaveStored ==
  ASSUME Base, NEW r \in Request, NEW n \in Name, Save(r, n), NEW d
  PROVE  /\ Cardinality(Stored(d)') <= Cardinality(Stored(d)) + 1 /\ Cardinality(Stored(d)') \in Nat
         /\ d # Device[Target(r)] => Cardinality(Stored(d)') <= Cardinality(Stored(d))
<1>1. Types /\ Target(r) \in Zone BY TypesParts, OrderTyped DEF Base
<1>2. CASE UNCHANGED items
  <2>1. Stored(d)' \subseteq Stored(d) BY <1>2 DEF items, Stored
  <2> QED BY <2>1, StoredShrinks, StoredFinite
<1>3. CASE Touches(Target(r), n, Incoming(r, n))
  <2>1. Stored(d)' \subseteq Stored(d) \union {<<Target(r), n>>} /\ (Device[Target(r)] # d => Stored(d)' \subseteq Stored(d))
    BY <1>1, <1>3, TouchesStored
  <2> QED BY <2>1, StoredShrinks, StoredGrows
<1> QED BY <1>2, <1>3 DEF Save, Touches

(* What a request owes its device: at most what it owed before, and less by *)
(* one after a save.                                                        *)
LEMMA OwedTyped == ASSUME Types, NEW r \in Request PROVE Owed(r) \in Nat
<1>1. run[r] \in Run BY OrderTyped
<1>2. run[r].left \in SUBSET Name /\ run[r].left \ {run[r].doing} \in SUBSET Name BY <1>1 DEF Run
<1> QED BY <1>2, NamesFinite DEF Owed

(* A failure leaves what is still to be published without that name.        *)
LEMMA OwedLeft ==
  ASSUME Types, NEW r \in Request, NEW n \in Name, NEW published \in BOOLEAN, NEW code,
         Fails(r, n, published, code), Transfers(r), order' = order
  PROVE  Owed(r)' = Cardinality(run[r].left \ {n})
<1> DEFINE s == [run[r] EXCEPT !.left = @ \ {n}, !.bad = @ \union {<<n, published>>}]
<1>1. run[r] \in Run BY OrderTyped
<1>2. s.left = run[r].left \ {n} BY <1>1 DEF Run
<1>3. at'[r] = "saving" /\ run'[r] = s BY DEF Fails, Continues, Goes, Types
<1>4. Transfers(r)' BY DEF Transfers
<1> HIDE DEF s
<1>5. run'[r].left = run[r].left \ {n} BY <1>2, <1>3
<1> QED BY <1>3, <1>4, <1>5 DEF Owed

(* A request that ends or fails alone owes nothing: it has given back the   *)
(* lock of its device.                                                      *)
LEMMA NoLockLeft ==
  ASSUME Types, LocksHeld, NEW r \in Request, NEW s, NEW code, Ends(r, s, code), NEW d \in Devices
  PROVE  deviceLock'[d] # r
<1>1. deviceLock \in [Devices -> Request \union {None}] /\ deviceLock' = Freed(deviceLock, r) BY DEF Ends, Releases, Types
<1> QED BY <1>1, FreedLock

(* A save is one item less to publish; other steps owe no more.             *)
LEMMA OwedStep ==
  ASSUME Base, NEW r \in Request, Handles(r), deviceLock'[Device[Target(r)]] = r
  PROVE  IF \E n \in Name : Save(r, n) THEN Owed(r)' + 1 <= Owed(r) /\ at[r] = "saving" ELSE Owed(r)' <= Owed(r)
<1>1. Types /\ LocksHeld /\ PointOK(r) BY TypesParts DEF Base, PointsOK
<1>2. run[r] \in Run /\ Device[Target(r)] \in Devices BY <1>1, OrderTyped DEF Devices
<1>3. ~\E s, code : Ends(r, s, code) BY <1>1, <1>2, NoLockLeft
<1>4. Base' /\ OthersStay(r) /\ Proceeds(r) BY BaseHandles
<1>5. order' = order /\ Transfers(r)' = Transfers(r) /\ Types' BY <1>4, TypesParts DEF Proceeds, Transfers, Base, TypeOK, Types
<1>6. Owed(r) \in Nat /\ Owed(r)' \in Nat
  <2>1. Owed(r) \in Nat BY <1>1, OwedTyped
  <2>2. run'[r] \in Run BY <1>5 DEF Types
  <2>3. run'[r].left \in SUBSET Name /\ run'[r].left \ {run'[r].doing} \in SUBSET Name BY <2>2 DEF Run
  <2>4. Owed(r)' \in Nat BY <2>3, NamesFinite DEF Owed
  <2> QED BY <2>1, <2>4
<1>7. run[r].left \in SUBSET Name BY <1>2 DEF Run
<1>8. at[r] \in Writing
  <2>1. GoesOn(r) BY <1>3, <1>4 DEF Proceeds, Stops
  <2>2. deviceLock[Device[Target(r)]] = r BY <2>1 DEF GoesOn, Continues, locks
  <2> QED BY <1>1, <1>2, <2>2 DEF LocksHeld, Writing
<1>9. ASSUME NEW n \in Name, Save(r, n) PROVE Owed(r)' + 1 <= Owed(r) /\ at[r] = "saving"
  <2>1. at[r] = "saving" /\ (Transfers(r) => n \in run[r].left)
    BY <1>9 DEF Save, Choices, Unnamed, Transfers
  <2> DEFINE s == [run[r] EXCEPT !.doing = n]
  <2>2. s.left = run[r].left /\ s.doing = n BY <1>2 DEF Run
  <2>3. Continues(r, "retaining", s) \/ \E code : Fails(r, n, FALSE, code) BY <1>9 DEF Save
  <2> HIDE DEF s
  <2>4. CASE Continues(r, "retaining", s)
    <3>1. at'[r] = "retaining" /\ run'[r] = s BY <1>1, <2>4 DEF Continues, Goes, Types
    <3>2. Owed(r)' = IF Transfers(r) THEN Cardinality(run[r].left \ {n}) ELSE 0
      BY <1>5, <2>2, <3>1 DEF Owed
    <3>3. Owed(r) = IF Transfers(r) THEN Cardinality(run[r].left) ELSE 1 BY <2>1 DEF Owed
    <3>4. Transfers(r) => Cardinality(run[r].left \ {n}) + 1 = Cardinality(run[r].left) BY <1>7, <2>1, WithoutOne
    <3> QED BY <1>6, <2>1, <3>2, <3>3, <3>4
  <2>5. CASE \E code : Fails(r, n, FALSE, code)
    <3>1. Transfers(r) BY <1>3, <2>5 DEF Fails
    <3>2. Owed(r)' = Cardinality(run[r].left \ {n}) BY <1>1, <1>5, <2>5, <3>1, OwedLeft
    <3>3. Owed(r) = Cardinality(run[r].left) BY <2>1, <3>1 DEF Owed
    <3>4. Cardinality(run[r].left \ {n}) + 1 = Cardinality(run[r].left) BY <1>7, <2>1, <3>1, WithoutOne
    <3> QED BY <1>6, <2>1, <3>2, <3>3, <3>4
  <2> QED BY <2>3, <2>4, <2>5
<1>10. ASSUME ListVictims(r) PROVE Owed(r)' <= Owed(r)
  <2>1. at[r] = "retaining" /\ run[r].doing \in Name BY <1>1, <1>10 DEF ListVictims, PointOK
  <2>2. Owed(r) = IF Transfers(r) THEN Cardinality(run[r].left \ {run[r].doing}) ELSE 0 BY <2>1 DEF Owed
  <2>4. \/ Fails(r, run[r].doing, TRUE, "destination_error")
        \/ \E listing \in Listing(Target(r)) : Continues(r, "evicting", Listed(r, listing))
    BY <1>10, ListsVictims
  <2>5. ASSUME NEW listing \in Listing(Target(r)), Continues(r, "evicting", Listed(r, listing))
        PROVE  Owed(r)' <= Owed(r)
    <3>1. at'[r] = "evicting" /\ run'[r] = Listed(r, listing) BY <1>1, <2>5 DEF Continues, Goes, Types
    <3>2. run'[r].left = run[r].left /\ run'[r].doing = run[r].doing BY <1>1, <2>1, <2>5, <3>1, ListedRun DEF SameBut
    <3>3. Owed(r)' = Owed(r) BY <1>5, <2>2, <3>1, <3>2 DEF Owed
    <3> QED BY <1>6, <3>3
  <2>6. CASE Fails(r, run[r].doing, TRUE, "destination_error")
    <3>1. Transfers(r) BY <1>3, <2>6 DEF Fails
    <3>2. Owed(r)' = Owed(r) BY <1>1, <1>5, <2>1, <2>2, <2>6, <3>1, OwedLeft
    <3> QED BY <1>6, <3>2
  <2> QED BY <2>4, <2>5, <2>6
<1>11. ASSUME Retained(r) PROVE Owed(r)' <= Owed(r)
  <2> DEFINE n == run[r].doing
             s == [run[r] EXCEPT !.left = @ \ {n}, !.kept = @ \union {n}, !.dropped = @ \union run[r].evicted]
  <2>1. n \in Name /\ at[r] = "evicting" BY <1>1, <1>11 DEF Retained, PointOK
  <2>2. s.left = run[r].left \ {n} BY <1>2 DEF Run
  <2>3. \/ Continues(r, "saving", s) \/ Continues(r, "unstaging", s) \/ Ends(r, s, "ok")
        \/ Fails(r, n, TRUE, "retention_error")
    BY <1>11 DEF Retained
  <2>4. Continues(r, "saving", s) => Transfers(r)
    <3>1. Continues(r, "saving", s) => at'[r] = "saving" BY <1>1 DEF Continues, Goes, Types
    <3>2. ~Transfers(r) => ~Continues(r, "saving", s)
      <4> SUFFICES ASSUME ~Transfers(r) PROVE at'[r] # "saving" BY <3>1
      <4>1. at'[r] \in {"unstaging", "ended"}
        BY <1>1, <1>11 DEF Retained, Fails, Continues, Ends, Goes, Types
      <4> QED BY <4>1
    <3> QED BY <3>2
  <2>5. Owed(r) = IF Transfers(r) THEN Cardinality(run[r].left \ {n}) ELSE 0 BY <2>1 DEF Owed
  <2> HIDE DEF s, n
  <2>6. CASE Continues(r, "saving", s)
    <3>1. at'[r] = "saving" /\ run'[r] = s BY <1>1, <2>6 DEF Continues, Goes, Types
    <3>2. Owed(r)' = Owed(r) BY <1>5, <2>2, <2>4, <2>5, <2>6, <3>1 DEF Owed
    <3> QED BY <1>6, <3>2
  <2>7. CASE Continues(r, "unstaging", s)
    <3>1. at'[r] = "unstaging" BY <1>1, <2>7 DEF Continues, Goes, Types
    <3>2. Owed(r)' = 0 BY <3>1 DEF Owed
    <3> QED BY <1>6, <3>2
  <2>8. CASE Fails(r, n, TRUE, "retention_error")
    <3>1. Transfers(r) BY <1>3, <2>8 DEF Fails
    <3>2. Owed(r)' = Owed(r) BY <1>1, <1>5, <2>1, <2>5, <2>8, <3>1, OwedLeft
    <3> QED BY <1>6, <3>2
  <2> QED BY <1>3, <2>3, <2>6, <2>7, <2>8
<1>12. ASSUME NEW n \in Name, Evict(r, n) PROVE Owed(r)' <= Owed(r)
  <2> DEFINE s == [run[r] EXCEPT !.victims = @ \ {n}, !.stuck = TRUE]
             t == [run[r] EXCEPT !.victims = @ \ {n}, !.evicted = @ \union {n}]
  <2>1. s.left = run[r].left /\ s.doing = run[r].doing /\ t.left = run[r].left /\ t.doing = run[r].doing BY <1>2 DEF Run
  <2>2. (Continues(r, "evicting", s) \/ Continues(r, "evicting", t)) /\ at[r] = "evicting" BY <1>12 DEF Evict
  <2> HIDE DEF s, t
  <2>3. at'[r] = "evicting" /\ (run'[r] = s \/ run'[r] = t) BY <1>1, <2>2 DEF Continues, Goes, Types
  <2>4. Owed(r)' = Owed(r) BY <1>5, <2>1, <2>2, <2>3 DEF Owed
  <2> QED BY <1>6, <2>4
<1>13. ASSUME at'[r] \in {"removing", "ended"} PROVE Owed(r)' <= Owed(r)
  <2>1. Owed(r)' = 0 BY <1>13 DEF Owed
  <2> QED BY <1>6, <2>1
<1>14. ASSUME Confirm(r) PROVE Owed(r)' <= Owed(r)
  <2>1. at'[r] \in {"removing", "ended"} BY <1>1, <1>14 DEF Confirm, Continues, Ends, Goes, Types
  <2> QED BY <1>13, <2>1
<1>15. ASSUME NEW n \in Name, Remove(r, n) PROVE Owed(r)' <= Owed(r)
  <2>1. at'[r] \in {"removing", "ended"} BY <1>1, <1>15 DEF Remove, Continues, Goes, Types
  <2> QED BY <1>13, <2>1
<1>16. ~(NoName(r) \/ Unstage(r) \/ Removed(r)) BY <1>3 DEF NoName, Unstage, Removed
<1>17. ~(LookAtUpload(r) \/ LookAtTransfer(r)
         \/ \E n \in Name : Delete(r, n) \/ Rename(r, n) \/ Comment(r, n) \/ ReadForeign(r, n) \/ Register(r, n)
                          \/ Publish(r, n))
  BY <1>8 DEF Writing, LookAtUpload, LookAtTransfer, Delete, Rename, Comment, ReadForeign, Register, Publish
<1>18. CASE \E n \in Name : Save(r, n) BY <1>9, <1>18
<1>19. CASE ~\E n \in Name : Save(r, n)
  <2>1. Owed(r)' <= Owed(r) BY <1>10, <1>11, <1>12, <1>14, <1>15, <1>16, <1>17, <1>19 DEF Handles
  <2> QED BY <1>19, <2>1
<1> QED BY <1>18, <1>19

(* What happens around the requests takes no place.                         *)
LEMMA AroundStored == ASSUME Types, ForeignThere, Around, NEW d PROVE Stored(d)' \subseteq Stored(d)
<1>1. \A z \in Zone, n \in Name : held[z][n] = None => held'[z][n] = None
  <2>1. PICK z \in Zone : Reconcile(z) \/ \E n \in Name : Vanish(z, n) \/ \E data \in Data : Rewrite(z, n, data)
    BY DEF Around
  <2>2. CASE Reconcile(z)
    <3>1. PICK doomed : held' = [held EXCEPT ![z] = [n \in Name |-> IF n \in doomed THEN None ELSE held[z][n]]]
      BY <2>2 DEF Reconcile
    <3> QED BY <3>1 DEF Types
  <2>3. ASSUME NEW n \in Name, Vanish(z, n) PROVE \A y \in Zone, m \in Name : held[y][m] = None => held'[y][m] = None
    BY <2>3 DEF Vanish, Becomes, Types
  <2>4. ASSUME NEW n \in Name, NEW data \in Data, Rewrite(z, n, data)
        PROVE  \A y \in Zone, m \in Name : held[y][m] = None => held'[y][m] = None
    <3> DEFINE item == [held[z][n] EXCEPT !.data = data]
    <3>1. held' = [held EXCEPT ![z] = [held[z] EXCEPT ![n] = item]] /\ held[z][n] # None
      BY <2>4 DEF Rewrite, Types, ForeignThere
    <3> HIDE DEF item
    <3> QED BY <3>1 DEF Types
  <2> QED BY <2>1, <2>2, <2>3, <2>4
<1> QED BY <1>1 DEF Stored

(* Staging files come one at a time. *)
StagedFinite == IsFiniteSet(staged)

(* Every step keeps the staging files finite in number.                     *)
LEMMA StagedStep == ASSUME Base, StagedFinite, [Next]_vars PROVE StagedFinite'
<1>1. \/ staged' \subseteq staged \/ \E r \in Request : staged' \subseteq staged \union {r}
  <2>1. CASE Around BY <2>1, BaseAround
  <2>2. ASSUME NEW r \in Request, Begin(r) \/ Refuse(r) \/ Collect(r) \/ GiveUp(r)
        PROVE  staged' \subseteq staged \union {r}
    BY <2>2, QuietSteps, TypesParts DEF Base, Quiet
  <2>3. ASSUME NEW r \in Request, Handles(r) \/ Enter(r) \/ Measure(r) \/ Die(r) PROVE staged' \subseteq staged
    BY <2>3, HandlesGoes
  <2>4. CASE UNCHANGED vars BY <2>4 DEF vars
  <2> QED BY <2>1, <2>2, <2>3, <2>4, NextCases
<1>2. CASE staged' \subseteq staged BY <1>2, FS_Subset DEF StagedFinite
<1>3. ASSUME NEW r \in Request, staged' \subseteq staged \union {r} PROVE StagedFinite'
  <2>1. IsFiniteSet(staged \union {r}) BY FS_AddElement DEF StagedFinite
  <2> QED BY <1>3, <2>1, FS_Subset DEF StagedFinite
<1> QED BY <1>1, <1>2, <1>3

(* Every step keeps that what is promised has room.                         *)
LEMMA RoomStep == ASSUME Base, StagedFinite, RoomPromised, [Next]_vars PROVE RoomPromised'
<1> SUFFICES ASSUME NEW q \in Request, NEW d \in Devices, deviceLock'[d] = q
             PROVE  Cardinality(Stored(d)') + Owed(q)' <= Room[Target(q)']
  BY DEF RoomPromised
<1>1. Types /\ LocksHeld /\ PointsOK /\ ForeignThere BY TypesParts DEF Base
<1>2. Base' BY BaseStep
<1>3. (\A z \in Zone : Room[z] \in Nat) /\ Cardinality(Stored(d)) \in Nat BY LimitsAssumption, StoredFinite
<1>4. \A r \in Request : Owed(r) \in Nat /\ Target(r) \in Zone /\ Device[Target(r)] \in Devices
  BY <1>1, OwedTyped, OrderTyped DEF Devices
<1>14. d = Device[Target(q)'] BY <1>2 DEF Base, TypeOK, LocksHeld
<1>5. ASSUME NEW r \in Request \ {q}, OthersStay(r), Target(q)' = Target(q),
             deviceLock[d] = q => Cardinality(Stored(d)') <= Cardinality(Stored(d)) /\ Cardinality(Stored(d)') \in Nat
      PROVE  Cardinality(Stored(d)') + Owed(q)' <= Room[Target(q)']
  <2>1. deviceLock[d] = q BY <1>4, <1>5 DEF OthersStay
  <2>2. Cardinality(Stored(d)) + Owed(q) <= Room[Target(q)] BY <2>1 DEF RoomPromised
  <2>3. Owed(q)' = Owed(q) BY <1>5 DEF OthersStay, Owed, Transfers
  <2> QED BY <1>3, <1>4, <1>5, <2>1, <2>2, <2>3
<1>6. ASSUME Target(q)' = Target(q), deviceLock[d] = q, Owed(q)' = Owed(q), Stored(d)' \subseteq Stored(d)
      PROVE  Cardinality(Stored(d)') + Owed(q)' <= Room[Target(q)']
  <2>1. Cardinality(Stored(d)) + Owed(q) <= Room[Target(q)] BY <1>6 DEF RoomPromised
  <2>2. Cardinality(Stored(d)') <= Cardinality(Stored(d)) /\ Cardinality(Stored(d)') \in Nat BY <1>6, StoredShrinks
  <2> QED BY <1>3, <1>4, <1>6, <2>1, <2>2
<1>7. CASE Around
  <2>1. UNCHANGED <<locks, order, at, run, staged>> BY <1>7, BaseAround
  <2>2. Target(q)' = Target(q) /\ Owed(q)' = Owed(q) BY <2>1 DEF Target, Transfers, Owed
  <2>3. Stored(d)' \subseteq Stored(d) BY <1>1, <1>7, AroundStored
  <2> QED BY <1>6, <2>1, <2>2, <2>3 DEF locks
<1>8. ASSUME NEW r \in Request, Begin(r) \/ Refuse(r) \/ Collect(r) \/ GiveUp(r)
      PROVE  Cardinality(Stored(d)') + Owed(q)' <= Room[Target(q)']
  <2>1. Quiet(r) BY <1>1, <1>8, QuietSteps
  <2>2. SameOrders /\ OthersStay(r) BY <2>1, BaseQuiet
  <2>3. Target(q)' = Target(q) /\ Transfers(q)' = Transfers(q) BY <2>2, SameOrdersOK
  <2>4. deviceLock' = deviceLock /\ run' = run /\ Stored(d)' = Stored(d) BY <2>1 DEF Quiet, locks, items, Stored
  <2>5. at[q] \in Writing BY <1>1, <1>4, <2>3, <2>4 DEF LocksHeld, Writing
  <2>6. at'[q] = at[q] BY <1>1, <2>1, <2>2, <2>5 DEF OthersStay, Quiet, Writing, Inside
  <2>7. Owed(q)' = Owed(q) BY <2>3, <2>4, <2>6 DEF Owed
  <2> QED BY <1>6, <2>3, <2>4, <2>7
<1>9. ASSUME NEW r \in Request, Die(r)
      PROVE  Cardinality(Stored(d)') + Owed(q)' <= Room[Target(q)']
  <2>1. OthersStay(r) /\ Leaves(r) BY <1>9, BaseDie
  <2>2. Target(q)' = Target(q) BY <2>1 DEF Leaves, Target, Transfers
  <2>3. q # r BY <1>1, <1>4, <2>1, <2>2, LeavesKeeps
  <2>4. Stored(d)' \subseteq Stored(d) BY <1>9 DEF Die, items, Stored
  <2> QED BY <1>5, <2>1, <2>2, <2>3, <2>4, StoredShrinks
<1>10. ASSUME NEW r \in Request, Enter(r)
       PROVE  Cardinality(Stored(d)') + Owed(q)' <= Room[Target(q)']
  <2>1. OthersStay(r) BY <1>10, BaseEnter
  <2>2. Target(q)' = Target(q) /\ deviceLock' = deviceLock BY <1>10 DEF Enter, Target, Transfers
  <2>3. q # r BY <1>1, <1>4, <1>10, <2>2 DEF LocksHeld, Enter
  <2>4. Stored(d)' \subseteq Stored(d) BY <1>10 DEF Enter, items, Stored
  <2> QED BY <1>5, <2>1, <2>2, <2>3, <2>4, StoredShrinks
<1>11. ASSUME NEW r \in Request, Measure(r)
       PROVE  Cardinality(Stored(d)') + Owed(q)' <= Room[Target(q)']
  <2>1. OthersStay(r) /\ order' = order /\ Stored(d)' = Stored(d)
    BY <1>11, BaseMeasure DEF Measure, items, Stored
  <2>2. Target(q)' = Target(q) /\ Transfers(q)' = Transfers(q) /\ d = Device[Target(q)]
    BY <1>14, <2>1 DEF Target, Transfers
  <2>3. CASE q # r BY <1>5, <2>1, <2>2, <2>3, StoredShrinks
  <2>4. CASE q = r
    <3> DEFINE incoming == IF Transfers(r) THEN Cardinality(order[r].names) ELSE 1
    <3>1. ~\E s, code : Ends(r, s, code) BY <1>1, <1>4, <2>2, <2>4, NoLockLeft
    <3>2. Fits(Target(r), incoming) /\ run' = run /\ at'[r] = "saving"
      BY <1>1, <1>11, <2>2, <2>4, <3>1 DEF Measure, Goes, Types
    <3>3. run[r].left = order[r].names BY <1>1, <1>11 DEF Measure, PointsOK, PointOK
    <3>4. Owed(r)' = incoming BY <2>2, <2>4, <3>2, <3>3 DEF Owed
    <3>5. incoming \in Nat
      <4>1. order[r].names \in SUBSET Name BY <1>1, OrderTyped
      <4> QED BY <4>1, NamesFinite
    <3>6. Cardinality({p \in staged : Device[order[p].zone] = d}) \in Nat
      BY FS_Subset, FS_CardinalityType DEF StagedFinite
    <3>7. Cardinality(Stored(d)) + incoming <= Room[Target(r)] BY <1>3, <1>4, <2>2, <2>4, <3>2, <3>5, <3>6 DEF Fits
    <3> QED BY <2>1, <2>2, <2>4, <3>4, <3>7
  <2> QED BY <2>3, <2>4
<1>12. ASSUME NEW r \in Request, Handles(r)
       PROVE  Cardinality(Stored(d)') + Owed(q)' <= Room[Target(q)']
  <2>1. OthersStay(r) /\ order' = order BY <1>12, BaseHandles DEF Proceeds
  <2>2. Target(q)' = Target(q) /\ d = Device[Target(q)] BY <1>14, <2>1 DEF Target, Transfers
  <2>3. CASE q # r
    <3>1. CASE \E n \in Name : Save(r, n)
      <4>1. deviceLock[Device[Target(r)]] = r BY <1>1, <3>1 DEF Save, PointsOK, PointOK, Saves
      <4>2. deviceLock[d] = q => d # Device[Target(r)] BY <2>3, <4>1
      <4>3. deviceLock[d] = q => Cardinality(Stored(d)') <= Cardinality(Stored(d)) /\ Cardinality(Stored(d)') \in Nat
        BY <3>1, <4>2, SaveStored
      <4> QED BY <1>5, <2>1, <2>2, <2>3, <4>3
    <3>2. CASE ~\E n \in Name : Save(r, n)
      <4>1. Cardinality(Stored(d)') <= Cardinality(Stored(d)) /\ Cardinality(Stored(d)') \in Nat
        BY <1>12, <3>2, HandlesStored
      <4> QED BY <1>5, <2>1, <2>2, <2>3, <4>1
    <3> QED BY <3>1, <3>2
  <2>4. CASE q = r
    <3>1. deviceLock'[d] = r /\ d = Device[Target(r)] BY <2>2, <2>4
    <3>2. deviceLock[d] = r
      <4>1. ~\E s, code : Ends(r, s, code) BY <1>1, <1>4, <2>4, <3>1, NoLockLeft
      <4>2. GoesOn(r) BY <1>12, <4>1, BaseHandles DEF Proceeds, Stops
      <4> QED BY <3>1, <4>2 DEF GoesOn, Continues, locks
    <3>3. Cardinality(Stored(d)) + Owed(r) <= Room[Target(r)] BY <2>4, <3>2 DEF RoomPromised
    <3>4. Owed(r)' \in Nat
      <4>1. Types' BY <1>2, TypesParts DEF Base, TypeOK, Types
      <4>2. run'[r] \in Run BY <4>1 DEF Types
      <4>3. run'[r].left \in SUBSET Name /\ run'[r].left \ {run'[r].doing} \in SUBSET Name BY <4>2 DEF Run
      <4> QED BY <4>3, NamesFinite DEF Owed
    <3>5. CASE \E n \in Name : Save(r, n)
      <4>1. Owed(r)' + 1 <= Owed(r) BY <1>12, <2>4, <3>1, <3>5, OwedStep
      <4>2. Cardinality(Stored(d)') <= Cardinality(Stored(d)) + 1 /\ Cardinality(Stored(d)') \in Nat BY <3>5, SaveStored
      <4> QED BY <1>3, <1>4, <2>2, <2>4, <3>3, <3>4, <4>1, <4>2
    <3>6. CASE ~\E n \in Name : Save(r, n)
      <4>1. Owed(r)' <= Owed(r) BY <1>12, <2>4, <3>1, <3>6, OwedStep
      <4>2. Cardinality(Stored(d)') <= Cardinality(Stored(d)) /\ Cardinality(Stored(d)') \in Nat
        BY <1>12, <3>6, HandlesStored
      <4> QED BY <1>3, <1>4, <2>2, <2>4, <3>3, <3>4, <4>1, <4>2
    <3> QED BY <3>5, <3>6
  <2> QED BY <2>3, <2>4
<1>13. CASE UNCHANGED vars
  <2>1. Target(q)' = Target(q) /\ Owed(q)' = Owed(q) /\ Stored(d)' = Stored(d) /\ deviceLock' = deviceLock
    BY <1>13 DEF vars, Target, Transfers, Owed, Stored
  <2> QED BY <1>6, <2>1
<1> QED BY <1>7, <1>8, <1>9, <1>10, <1>11, <1>12, <1>13, NextCases

(* So a step that takes the room of one item more leaves the reserve of its *)
(* zone alone.                                                              *)
LEMMA SpaceStep ==
  ASSUME Base, RoomPromised, [Next]_vars, NEW z \in Zone, NEW n \in Name, held[z][n] = None, held'[z][n] # None,
         Cardinality(Stored(Device[z])') > Cardinality(Stored(Device[z]))
  PROVE  Cardinality(Stored(Device[z])') <= Room[z]
<1> DEFINE d == Device[z]
<1>1. Types /\ PointsOK /\ ForeignThere BY TypesParts DEF Base
<1>2. Room[z] \in Nat /\ Cardinality(Stored(d)) \in Nat BY LimitsAssumption, StoredFinite
<1>3. ASSUME Cardinality(Stored(d)') <= Cardinality(Stored(d)) /\ Cardinality(Stored(d)') \in Nat PROVE FALSE
  BY <1>2, <1>3
<1>4. ~Around BY <1>1, <1>3, AroundStored, StoredShrinks
<1>5. ASSUME NEW r \in Request, Begin(r) \/ Refuse(r) \/ Collect(r) \/ GiveUp(r) \/ Die(r) PROVE FALSE
  <2>1. Stored(d)' \subseteq Stored(d) BY <1>5 DEF Begin, Refuse, Collect, GiveUp, Die, items, Stored
  <2> QED BY <1>3, <2>1, StoredShrinks
<1>6. ASSUME NEW r \in Request, Handles(r) \/ Enter(r) \/ Measure(r), ~\E m \in Name : Save(r, m) PROVE FALSE
  BY <1>3, <1>6, HandlesStored
<1>7. ASSUME NEW r \in Request, NEW m \in Name, Save(r, m) PROVE Cardinality(Stored(d)') <= Room[z]
  <2>1. z = Target(r)
    BY <1>1, <1>7, OrderTyped DEF Save, Changes, SaveFails, Becomes, items, Types
  <2>2. d = Device[Target(r)] BY <2>1
  <2>3. deviceLock[d] = r /\ d \in Devices BY <1>1, <1>7, <2>2 DEF Save, PointsOK, PointOK, Saves, Devices
  <2>4. Cardinality(Stored(d)) + Owed(r) <= Room[z] BY <2>1, <2>3 DEF RoomPromised
  <2>5. Owed(r) \in Nat /\ Owed(r) >= 1
    <3>1. Owed(r) \in Nat BY <1>1, OwedTyped
    <3>2. CASE ~Transfers(r) BY <1>7, <3>1, <3>2 DEF Save, Owed
    <3>3. CASE Transfers(r)
      <4>1. m \in run[r].left /\ at[r] = "saving" BY <1>7, <3>3 DEF Save, Choices, Unnamed, Transfers
      <4>2. run[r].left \in SUBSET Name BY <1>1, OrderTyped DEF Run
      <4>3. Cardinality(run[r].left \ {m}) + 1 = Cardinality(run[r].left) BY <4>1, <4>2, WithoutOne
      <4>4. Cardinality(run[r].left \ {m}) \in Nat /\ Cardinality(run[r].left) \in Nat
        <5>1. run[r].left \ {m} \in SUBSET Name BY <4>2
        <5> QED BY <4>2, <5>1, NamesFinite
      <4> QED BY <3>1, <3>3, <4>1, <4>3, <4>4 DEF Owed
    <3> QED BY <3>2, <3>3
  <2>6. Cardinality(Stored(d)') <= Cardinality(Stored(d)) + 1 /\ Cardinality(Stored(d)') \in Nat BY <1>7, SaveStored
  <2> QED BY <1>2, <2>4, <2>5, <2>6
<1>8. ~UNCHANGED vars BY DEF vars
<1> QED BY <1>4, <1>5, <1>6, <1>7, <1>8, NextCases

(* service.py, upload_spooled() and transfer(): no upload or transfer takes *)
(* the room of an item from the reserve of the zone it writes to, whatever  *)
(* other requests publish on its device meanwhile.                          *)
THEOREM ReserveKept == Spec => SpaceKept
<1>1. Init => StagedFinite BY FS_EmptySet DEF Init, StagedFinite
<1>2. Init => RoomPromised
  <2> SUFFICES ASSUME Init, NEW r \in Request PROVE \A d \in Devices : deviceLock[d] # r BY DEF RoomPromised
  <2> QED BY NoneApart DEF Init
<1>3. Base /\ RoomPromised /\ [Next]_vars =>
        \A z \in Zone, n \in Name :
          LET d == Device[z] IN
          /\ held[z][n] = None /\ held'[z][n] # None
          /\ Cardinality(Stored(d)') > Cardinality(Stored(d))
          => Cardinality(Stored(d)') <= Room[z]
  BY SpaceStep
<1> QED BY <1>1, <1>2, <1>3, BaseInit, BaseStep, StagedStep, RoomStep, PTL DEF Spec, SpaceKept

-----------------------------------------------------------------------------
(* Retention *)

(* Newer is a strict order. *)
LEMMA NewerOrder ==
  ASSUME Types, NEW z \in Zone, NEW L \in Listing(z), NEW l \in L, NEW m \in L, NEW n \in L
  PROVE  ~Newer(z, n, n) /\ (Newer(z, l, m) /\ Newer(z, m, n) => Newer(z, l, n))
<1>0. held \in [Zone -> [Name -> Item \union {None}]] BY DEF Types
<1>1. \A i \in L : i \in Nat /\ held[z][i] \in Item
  <2> SUFFICES ASSUME NEW i \in L PROVE i \in Nat /\ held[z][i] \in Item OBVIOUS
  <2>1. i \in Name /\ held[z][i] # None BY DEF Listing, Shown, Hidden
  <2>2. held[z][i] \in Item \union {None} BY <1>0, <2>1
  <2> QED BY <2>1, <2>2, SetsAssumption
<1>2. \A i \in L : held[z][i].created \in Nat BY <1>1 DEF Item
<1> QED BY <1>1, <1>2 DEF Newer

(* Items and orphans have names.                                            *)
LEMMA ShownNames ==
  \A z : Shown(z) \in SUBSET Name /\ Hidden(z) \in SUBSET Name /\ Orphans(z) \in SUBSET Name
         /\ \A r : Seen(r, z) \in SUBSET Name /\ Counted(r, z) \in SUBSET Name
BY DEF Shown, Hidden, Orphans, Seen, Counted

(* One of some natural numbers is the least.                                *)
LEMMA LeastOf ==
  ASSUME NEW K \in SUBSET Nat, K # {}
  PROVE  \E x \in K : \A y \in K : x <= y
<1>1. PICK x \in K : \A y \in K : ~ (<< y, x >> \in OpToRel(<, Nat)) BY WFMin, NatLessThanWellFounded, Zenon
<1>2. \A y \in Nat : << y, x >> \in OpToRel(<, Nat) <=> y < x BY Zenon DEF OpToRel
<1>3. \A y \in K : ~ (y < x) BY <1>1, <1>2, Zenon
<1> QED BY <1>3

(* What is newer than the newest victim is no victim, and there is as much  *)
(* of it as the zone retains: retention never lists more than is too much.  *)
LEMMA VictimsBeyond ==
  ASSUME Types, NEW z \in Zone, NEW saved, NEW L \in Listing(z), Victims(z, saved, L) # {}
  PROVE  Cardinality(L) >= Retain[z] + Cardinality(Victims(z, saved, L))
<1> DEFINE others == L \ {saved}
           room == IF saved \in L THEN Retain[z] - 1 ELSE Retain[z]
           N(n) == {m \in others : Newer(z, m, n)}
           V == Victims(z, saved, L)
           K == {Cardinality(N(n)) : n \in V}
<1>1. L \in SUBSET Name /\ others \in SUBSET Name /\ V \subseteq others BY ListingNames DEF Victims
<1>2. \A n \in V : IsFiniteSet(N(n)) /\ Cardinality(N(n)) \in Nat /\ Cardinality(N(n)) >= room
  <2> SUFFICES ASSUME NEW n \in V PROVE IsFiniteSet(N(n)) /\ Cardinality(N(n)) \in Nat /\ Cardinality(N(n)) >= room
    OBVIOUS
  <2>1. N(n) \in SUBSET Name BY <1>1
  <2>2. IsFiniteSet(N(n)) /\ Cardinality(N(n)) \in Nat BY <2>1, NamesFinite
  <2>3. Cardinality(N(n)) >= room BY DEF Victims
  <2> QED BY <2>2, <2>3
<1>3. K \in SUBSET Nat /\ K # {}
  <2> HIDE DEF N
  <2> QED BY <1>2
<1>4. PICK k \in K : \A j \in K : k <= j
  <2> HIDE DEF K
  <2> QED BY <1>3, LeastOf
<1>5. PICK v \in V : Cardinality(N(v)) = k OBVIOUS
<1>6. N(v) \intersect V = {}
  <2> SUFFICES ASSUME NEW m \in N(v), m \in V PROVE FALSE OBVIOUS
  <2>1. N(m) \subseteq N(v) \ {m}
    <3> SUFFICES ASSUME NEW l \in N(m) PROVE l \in N(v) /\ l # m OBVIOUS
    <3>1. l \in L /\ m \in L /\ v \in L /\ l \in others BY <1>1
    <3>2. Newer(z, l, m) /\ Newer(z, m, v) OBVIOUS
    <3> QED BY <3>1, <3>2, NewerOrder
  <2>2. IsFiniteSet(N(v)) /\ Cardinality(N(v)) \in Nat /\ IsFiniteSet(N(m)) /\ Cardinality(N(m)) \in Nat BY <1>2
  <2>3. m \in N(v) OBVIOUS
  <2>4. Cardinality(N(m)) \in K OBVIOUS
  <2> HIDE DEF N, K, V
  <2>5. IsFiniteSet(N(v) \ {m}) /\ Cardinality(N(v) \ {m}) = Cardinality(N(v)) - 1 BY <2>2, <2>3, FS_RemoveElement
  <2>6. Cardinality(N(m)) <= Cardinality(N(v) \ {m}) BY <2>1, <2>5, FS_Subset
  <2>7. k <= Cardinality(N(m)) BY <1>4, <2>4
  <2> QED BY <1>5, <2>2, <2>5, <2>6, <2>7
<1>7. Cardinality(others) >= room + Cardinality(V)
  <2>1. N(v) \subseteq others OBVIOUS
  <2>2. IsFiniteSet(others) /\ Cardinality(others) \in Nat /\ IsFiniteSet(V) /\ Cardinality(V) \in Nat
    <3>1. V \in SUBSET Name BY <1>1
    <3> HIDE DEF others, V
    <3> QED BY <1>1, <3>1, NamesFinite
  <2>3. IsFiniteSet(N(v)) /\ Cardinality(N(v)) \in Nat /\ Cardinality(N(v)) >= room BY <1>2
  <2>4. room \in Nat BY LimitsAssumption
  <2> HIDE DEF N, K, V, others, room
  <2>5. Cardinality(N(v) \union V) = Cardinality(N(v)) + Cardinality(V)
    <3>1. Cardinality(N(v) \intersect V) = 0 BY <1>6, FS_EmptySet
    <3>2. Cardinality(N(v) \union V) = Cardinality(N(v)) + Cardinality(V) - Cardinality(N(v) \intersect V)
      BY <2>2, <2>3, FS_Union
    <3> QED BY <2>2, <2>3, <3>1, <3>2
  <2>6. Cardinality(N(v) \union V) <= Cardinality(others) BY <1>1, <2>1, <2>2, FS_Subset
  <2> QED BY <2>2, <2>3, <2>4, <2>5, <2>6
<1>8. Cardinality(L) = IF saved \in L THEN Cardinality(others) + 1 ELSE Cardinality(others)
  <2>1. IsFiniteSet(L) /\ Cardinality(L) \in Nat BY <1>1, NamesFinite
  <2>2. Cardinality(L \ {saved}) = IF saved \in L THEN Cardinality(L) - 1 ELSE Cardinality(L)
    BY <2>1, FS_RemoveElement
  <2> QED BY <2>1, <2>2
<1>9. Cardinality(V) \in Nat /\ Cardinality(others) \in Nat /\ Retain[z] \in Nat
  <2>1. V \in SUBSET Name BY <1>1
  <2> HIDE DEF V, others
  <2> QED BY <1>1, <2>1, NamesFinite, LimitsAssumption
<1>10. Cardinality(L) >= Retain[z] + Cardinality(V)
  <2> HIDE DEF V, others
  <2> QED BY <1>7, <1>8, <1>9
<1> QED BY <1>10

-----------------------------------------------------------------------------
(* Transfers *)

Same(z, n) == held'[z][n] = held[z][n] /\ journal'[z][n] = journal[z][n]

(* What may happen to the names of a zone whose lock another request holds. *)
Fades(z) ==
  \A n \in Name :
    \/ Same(z, n)
    \/ journal[z][n] = None /\ held'[z][n] = None /\ journal'[z][n] = "orphan"
    \/ journal[z][n] = "foreign" /\ journal'[z][n] = None /\ held'[z][n] = None
    \/ /\ journal[z][n] = "foreign" /\ journal'[z][n] = "foreign"
       /\ held[z][n] # None /\ held'[z][n].comment = held[z][n].comment

Delicate == {"measuring", "removing"} \union Saves

(* A request that relies on items is inside its zones.                      *)
LEMMA DelicateInside == \A r \in Request : at[r] \in Delicate => Inside(r)
BY DEF Delicate, Saves, Inside

(* Elsewhere there is nothing to rely on.                                   *)
LEMMA IndelicateOK == ASSUME NEW r \in Request, at'[r] \notin Delicate PROVE TransferOK(r)' /\ EvictionOK(r)'
BY DEF TransferOK, EvictionOK, Delicate, Saves

(* Items that only fade keep what a request relies on.                      *)
LEMMA FadesKeeps ==
  ASSUME Types, NEW r \in Request, TransferOK(r), EvictionOK(r), SameOrders,
         at'[r] = at[r], run'[r] = run[r], \A z \in Zones(r) : Fades(z), PointOK(r), Inside(r)
  PROVE  TransferOK(r)' /\ EvictionOK(r)'
<1>1. /\ order[r].zone \in Zones(r) /\ Target(r) \in Zones(r) /\ (Transfers(r) => order[r].to \in Zones(r))
      /\ Zones(r) \subseteq Zone
  BY OrderTyped DEF Zones, Target
<1>2. /\ Target(r)' = Target(r) /\ Transfers(r)' = Transfers(r)
      /\ order'[r].zone = order[r].zone /\ order'[r].to = order[r].to /\ order'[r].names = order[r].names
  BY SameOrdersOK DEF SameOrders
<1>3. ASSUME NEW n \in Name, SourceOK(r, n) PROVE SourceOK(r, n)'
  <2>1. Fades(order[r].zone) BY <1>1
  <2> QED BY <1>2, <1>3, <2>1, NoneApart DEF Fades, Same, SourceOK, Mark
<1>4. ASSUME NEW n \in Name, Copied(r, n), Transfers(r) PROVE Copied(r, n)'
  <2>1. Fades(order[r].to) BY <1>1, <1>4
  <2> QED BY <1>2, <1>4, <2>1, NoneApart DEF Fades, Same, Copied, Shown, Hidden, Mark
<1>5. ASSUME NEW n \in Name, HasSeen(r, order[r].to, n, run[r].picked[n]), Transfers(r)
      PROVE  HasSeen(r, order[r].to, n, run[r].picked[n])'
  <2>1. Fades(order[r].to) BY <1>1, <1>5
  <2>2. CASE Same(order[r].to, n) BY <1>2, <1>5, <2>2 DEF Same, HasSeen, Seen, Shown, Hidden
  <2>3. CASE journal'[order[r].to][n] = "orphan" BY <1>2, <2>3 DEF HasSeen
  <2>4. journal[order[r].to][n] # "foreign" BY <1>5, NoneApart DEF HasSeen, Seen, Shown, Hidden, Mark
  <2> QED BY <2>1, <2>2, <2>3, <2>4 DEF Fades
<1>6. TransferOK(r)'
  <2>1. run[r].kept \subseteq Name /\ run[r].left \subseteq Name /\ order[r].names \subseteq Name
    BY OrderTyped DEF Run
  <2>2. at[r] \in {"retaining", "evicting"} => run[r].doing \in Name BY DEF PointOK
  <2> QED BY <1>2, <1>3, <1>4, <1>5, <2>1, <2>2 DEF TransferOK
<1>7. EvictionOK(r)'
  <2> SUFFICES ASSUME NEW z \in Zone, at[r] = "evicting", z = Target(r), run[r].victims # {}
               PROVE  Cardinality(Counted(r, z)') >= Retain[z] + Cardinality(run[r].victims)
    BY <1>2 DEF EvictionOK
  <2>1. Cardinality(Counted(r, z)) >= Retain[z] + Cardinality(run[r].victims) BY DEF EvictionOK
  <2>2. Fades(z) BY <1>1
  <2>3. Counted(r, z) \subseteq Counted(r, z)' BY <2>2, NoneApart DEF Fades, Same, Counted, Seen, Shown, Hidden, Orphans, Mark
  <2>4. Counted(r, z) \in SUBSET Name /\ Counted(r, z)' \in SUBSET Name BY DEF Counted, Seen, Shown, Hidden, Orphans
  <2>5. Cardinality(Counted(r, z)) <= Cardinality(Counted(r, z)') /\ Cardinality(Counted(r, z)) \in Nat
        /\ Cardinality(Counted(r, z)') \in Nat
    BY <2>3, <2>4, NamesFinite, FS_Subset
  <2>6. Cardinality(run[r].victims) \in Nat /\ Retain[z] \in Nat
    <3>1. run[r].victims \in SUBSET Name BY OrderTyped DEF Run
    <3> QED BY <3>1, NamesFinite, LimitsAssumption
  <2> QED BY <2>1, <2>5, <2>6
<1> QED BY <1>6, <1>7

(* Two requests are never inside one zone. *)
LEMMA ZonesApart ==
  ASSUME Base, NEW r \in Request, NEW q \in Request, r # q, Inside(r), Inside(q), NEW z \in Zones(r)
  PROVE  z \in Zone \ Zones(q)
<1>1. Types /\ LocksHeld BY TypesParts DEF Base
<1>2. z \in Zone BY <1>1, OrderTyped
<1> QED BY <1>1, <1>2 DEF LocksHeld

(* A change of one item leaves the others.                                  *)
LEMMA TouchesElsewhere ==
  ASSUME Types, NEW z \in Zone, NEW n \in Name, NEW item, Touches(z, n, item),
         NEW y \in Zone, NEW m \in Name, y # z \/ m # n
  PROVE  Same(y, m)
<1>1. CASE UNCHANGED items BY <1>1 DEF items, Same
<1>2. CASE \E i, mark : Becomes(z, n, i, mark) BY <1>2 DEF Becomes, Same, Types
<1> QED BY <1>1, <1>2 DEF Touches, Changes, SaveFails, DeleteFails, SidecarFails

(* A handler leaves the items of other zones alone.                         *)
LEMMA HandlesLocal ==
  ASSUME Base, NEW r \in Request, Handles(r), NEW z \in Zone \ Zones(r), NEW n \in Name
  PROVE  Same(z, n)
<1>1. Types /\ PointsOK /\ OrdersOK BY TypesParts DEF Base
<1>2. CASE \E m \in Name : Rename(r, m)
  <2>1. z # order[r].zone BY DEF Zones
  <2> QED BY <1>1, <1>2, <2>1 DEF Rename, items, Same, Types
<1>3. CASE ~\E m \in Name : Rename(r, m)
  <2>1. TouchesOne(r) BY <1>1, <1>3, HandlerTouches DEF Handles
  <2>2. Zones(r) \subseteq Zone BY <1>1, OrderTyped
  <2>3. CASE Keeps BY <2>3 DEF Keeps, items, Same
  <2>4. ASSUME NEW y \in Zones(r), NEW m \in Name, NEW item \in Item \union {None}, Touches(y, m, item)
        PROVE  Same(z, n)
    BY <1>1, <2>2, <2>4, TouchesElsewhere
  <2> QED BY <2>1, <2>3, <2>4 DEF TouchesOne
<1> QED BY <1>2, <1>3

(* In a zone with a request inside, items only fade around it.              *)
LEMMA AroundFades == ASSUME Base, Around, NEW r \in Request, Inside(r), NEW z \in Zones(r) PROVE Fades(z)
<1>1. Types /\ LocksHeld /\ ForeignThere BY TypesParts DEF Base
<1>2. z \in Zone BY <1>1, OrderTyped
<1>3. PICK y \in Zone : Reconcile(y) \/ \E n \in Name : Vanish(y, n) \/ \E data \in Data : Rewrite(y, n, data)
  BY DEF Around
<1>4. CASE Reconcile(y)
  <2>1. z # y BY <1>1, <1>2, <1>4, NoneApart DEF Reconcile, LocksHeld
  <2> QED BY <1>1, <1>2, <1>4, <2>1 DEF Reconcile, Fades, Same, Types
<1>5. ASSUME NEW n \in Name, Vanish(y, n) PROVE Fades(z)
  <2>1. PICK mark : Becomes(y, n, None, mark) /\ mark = IF journal[y][n] = None THEN "orphan" ELSE None
    BY <1>5 DEF Vanish
  <2>2. journal[y][n] \in {None, "foreign"} BY <1>5 DEF Vanish
  <2> QED BY <1>1, <1>2, <2>1, <2>2 DEF Becomes, Fades, Same, Types
<1>6. ASSUME NEW n \in Name, NEW data \in Data, Rewrite(y, n, data) PROVE Fades(z)
  <2> DEFINE item == [held[y][n] EXCEPT !.data = data]
  <2>1. held' = [held EXCEPT ![y] = [held[y] EXCEPT ![n] = item]] /\ journal' = journal /\ journal[y][n] = "foreign"
    BY <1>1, <1>6 DEF Rewrite, Types
  <2>2. held[y][n] \in Item BY <1>1, <2>1 DEF Types, ForeignThere
  <2>3. item.comment = held[y][n].comment BY <2>2 DEF Item
  <2> HIDE DEF item
  <2>4. \A m \in Name : \/ Same(z, m)
                        \/ y = z /\ n = m /\ held'[z][m] = item /\ journal'[z][m] = "foreign"
    BY <1>1, <1>2, <2>1 DEF Same, Types
  <2> QED BY <1>1, <1>2, <2>1, <2>2, <2>3, <2>4, NoneApart DEF Fades
<1> QED BY <1>3, <1>4, <1>5, <1>6

(* Orphans *)
LEMMA OrphanStep == ASSUME Base, OrphanGone, [Next]_vars PROVE OrphanGone'
<1>1. Types /\ OrdersOK /\ PointsOK BY TypesParts DEF Base
<1>2. CASE UNCHANGED items BY <1>2 DEF items, OrphanGone
<1>3. ASSUME NEW z \in Zone, NEW n \in Name, NEW item, NEW mark, Becomes(z, n, item, mark), mark = "orphan" => item = None
      PROVE  OrphanGone'
  BY <1>1, <1>3 DEF Becomes, OrphanGone, Types
<1>4. "orphan" # None BY NoneApart DEF Mark
<1>5. ASSUME NEW r \in Request, TouchesOne(r) PROVE OrphanGone'
  <2>1. Zones(r) \subseteq Zone BY <1>1, OrderTyped
  <2>2. ASSUME NEW z \in Zone, NEW n \in Name, NEW item, Touches(z, n, item), ~UNCHANGED items PROVE OrphanGone'
    <3>1. \E i : \E mark \in {None, "committed", "prepared", "deleting"} : Becomes(z, n, i, mark)
      BY <2>2 DEF Touches, Changes, SaveFails, DeleteFails, SidecarFails
    <3> QED BY <1>3, <1>4, <3>1
  <2> QED BY <1>2, <1>5, <2>1, <2>2 DEF TouchesOne, Keeps
<1>6. ASSUME NEW r \in Request, NEW n \in Name, Rename(r, n) PROVE OrphanGone'
  <2> DEFINE z == order[r].zone
             m == order[r].into
  <2>1. z \in Zone /\ m \in Name /\ m # n BY <1>1, <1>6, OrderTyped DEF Rename, OrdersOK
  <2>2. PICK mark \in {None, "committed", "prepared"} :
          journal' = [journal EXCEPT ![z] = [journal[z] EXCEPT ![m] = mark, ![n] = mark]] \/ UNCHANGED items
    BY <1>6 DEF Rename
  <2>3. held' = held \/ held' = [held EXCEPT ![z] = [held[z] EXCEPT ![m] = held[z][n], ![n] = None]]
    BY <1>6 DEF Rename, items
  <2>4. \A y \in Zone, i \in Name : y # z \/ (i # m /\ i # n) => held'[y][i] = held[y][i]
    BY <1>1, <2>1, <2>3 DEF Types
  <2>5. CASE journal' = [journal EXCEPT ![z] = [journal[z] EXCEPT ![m] = mark, ![n] = mark]]
    <3>1. \A y \in Zone, i \in Name : journal'[y][i] = IF y # z \/ (i # m /\ i # n) THEN journal[y][i] ELSE mark
      BY <1>1, <2>1, <2>5 DEF Types
    <3> QED BY <1>4, <2>4, <3>1 DEF OrphanGone
  <2> QED BY <1>2, <2>2, <2>5
<1>7. ASSUME NEW z \in Zone, Reconcile(z) PROVE OrphanGone'
  <2>1. PICK doomed : held' = [held EXCEPT ![z] = [n \in Name |-> IF n \in doomed THEN None ELSE held[z][n]]]
    BY <1>7 DEF Reconcile
  <2>2. journal' = [journal EXCEPT ![z] = [n \in Name |->
          IF n \in {i \in Name : journal[z][i] \in {"committed", "prepared", "deleting"}} THEN None ELSE journal[z][n]]]
    BY <1>7 DEF Reconcile
  <2>3. \A y \in Zone, n \in Name : journal'[y][n] = "orphan" => journal[y][n] = "orphan" BY <1>1, <1>4, <2>2 DEF Types
  <2>4. \A y \in Zone, n \in Name : held[y][n] = None => held'[y][n] = None BY <1>1, <2>1 DEF Types
  <2> QED BY <2>3, <2>4 DEF OrphanGone
<1>8. ASSUME NEW z \in Zone, NEW n \in Name, Vanish(z, n) PROVE OrphanGone' BY <1>3, <1>8 DEF Vanish
<1>9. ASSUME NEW z \in Zone, NEW n \in Name, NEW data \in Data, Rewrite(z, n, data) PROVE OrphanGone'
  <2> DEFINE item == [held[z][n] EXCEPT !.data = data]
  <2>1. held' = [held EXCEPT ![z] = [held[z] EXCEPT ![n] = item]] /\ journal' = journal /\ journal[z][n] = "foreign"
    BY <1>1, <1>9 DEF Rewrite, Types
  <2> HIDE DEF item
  <2> QED BY <1>1, <2>1 DEF OrphanGone, Types
<1>10. ASSUME NEW r \in Request, Handles(r) PROVE OrphanGone'
  BY <1>1, <1>5, <1>6, <1>10, HandlerTouches DEF Handles
<1>11. ASSUME NEW r \in Request, Begin(r) \/ Refuse(r) \/ Collect(r) \/ GiveUp(r) \/ Enter(r) \/ Die(r) PROVE OrphanGone'
  BY <1>2, <1>11 DEF Begin, Refuse, Collect, GiveUp, Enter, Die
<1>12. ASSUME NEW r \in Request, Measure(r) PROVE OrphanGone' BY <1>2, <1>12 DEF Measure
<1>13. CASE UNCHANGED vars BY <1>2, <1>13 DEF vars, items
<1> QED BY <1>7, <1>8, <1>9, <1>10, <1>11, <1>12, <1>13, NextCases DEF Around

(* A name that an eviction or a deletion leaves is as it was, or is hidden. *)
Wanes(z, n) ==
  \/ Same(z, n) \/ held'[z][n] = None
  \/ n \in Shown(z) /\ held'[z][n] = held[z][n] /\ journal'[z][n] = "deleting"
LEMMA DeletionAt ==
  ASSUME Types, NEW z \in Zone, NEW n \in Name,
         UNCHANGED items \/ (n \in Shown(z) /\ (Changes(z, n, None) \/ DeleteFails(z, n)))
  PROVE  /\ \A y \in Zone, m \in Name : y # z \/ m # n => Same(y, m)
         /\ Wanes(z, n)
<1>1. CASE UNCHANGED items BY <1>1 DEF items, Same, Wanes
<1>2. ASSUME NEW item, NEW mark, Becomes(z, n, item, mark),
             item = None \/ (item = held[z][n] /\ mark = "deleting" /\ n \in Shown(z))
      PROVE  /\ \A y \in Zone, m \in Name : y # z \/ m # n => Same(y, m)
             /\ Wanes(z, n)
  <2>1. \A y \in Zone, m \in Name : y # z \/ m # n => Same(y, m) BY <1>2 DEF Becomes, Same, Types
  <2>2. held'[z][n] = item /\ journal'[z][n] = mark BY <1>2 DEF Becomes, Types
  <2> QED BY <1>2, <2>1, <2>2 DEF Wanes
<1> QED BY <1>1, <1>2 DEF Changes, DeleteFails

(* What wanes is as it was or is not shown. *)
LEMMA WanesShown ==
  ASSUME NEW z \in Zone, NEW n \in Name, Wanes(z, n)
  PROVE  Same(z, n) \/ n \notin Shown(z)'
<1>1. "deleting" # None BY NoneApart DEF Mark
<1> QED BY <1>1 DEF Wanes, Shown

(* The zone that a transfer writes is not the one it reads. *)
LEMMA TransferZones ==
  ASSUME Base, NEW r \in Request, Transfers(r)
  PROVE  /\ order[r].zone \in Zone /\ order[r].to \in Zone /\ order[r].zone # order[r].to /\ Target(r) = order[r].to
         /\ order[r].names \subseteq Name
BY TypesParts, OrderTyped DEF Base, OrdersOK, Target

(* The request goes on to save or to retain: what it has read and published *)
(* stays, and what it adds is published.                                    *)
LEMMA SavingKeeps ==
  ASSUME Base, NEW r \in Request, TransferOK(r), at[r] \in Saves, order' = order, at'[r] \in Saves, Transfers(r),
         \A n \in Name : Same(order[r].zone, n), run'[r].picked = run[r].picked,
         \A n \in run'[r].kept : Copied(r, n)',
         at'[r] \in {"retaining", "evicting"} => \A n \in {run'[r].doing} : Copied(r, n)'
  PROVE  TransferOK(r)'
<1>1. Transfers(r)' = Transfers(r) BY DEF Transfers
<1>2. order[r].names \subseteq Name BY TransferZones
<1>3. ASSUME NEW n \in order[r].names PROVE SourceOK(r, n)'
  <2>1. SourceOK(r, n) BY DEF TransferOK
  <2>2. Same(order[r].zone, n) BY <1>2
  <2> QED BY <2>1, <2>2 DEF SourceOK, Same
<1>4. \A n \in order'[r].names : SourceOK(r, n)' BY <1>3
<1>5. at'[r] \in {"retaining", "evicting"} => Copied(r, run[r].doing)'
  BY DEF Copied
<1>6. at'[r] # "removing" BY DEF Saves
<1> QED BY <1>4, <1>5, <1>6 DEF TransferOK

(* A copy stays one while it is there.                                      *)
LEMMA CopiedKeeps ==
  ASSUME NEW r \in Request, NEW n \in Name, Copied(r, n), order' = order, run'[r].picked = run[r].picked,
         Wanes(order[r].to, n)
  PROVE  Copied(r, n)'
<1>1. CASE held'[order[r].to][n] = None BY <1>1 DEF Copied, Shown, Hidden
<1>2. CASE Same(order[r].to, n) BY <1>2 DEF Same, Copied, Shown, Hidden
<1>3. CASE n \in Shown(order[r].to) /\ held'[order[r].to][n] = held[order[r].to][n] BY <1>3 DEF Copied
<1> QED BY <1>1, <1>2, <1>3 DEF Wanes

(* A save of a transfer keeps what it relies on, ...                        *)
LEMMA SaveTransfer ==
  ASSUME Base, OrphanGone, NEW r \in Request, NEW n \in Name, Save(r, n), TransferOK(r), Transfers(r)
  PROVE  TransferOK(r)'
<1>1. Types /\ PointOK(r) BY TypesParts DEF Base, PointsOK
<1>2. /\ order[r].zone \in Zone /\ order[r].to \in Zone /\ order[r].zone # order[r].to /\ Target(r) = order[r].to
      /\ order[r].names \subseteq Name
  BY TransferZones
<1>3. at[r] = "saving" /\ n \in run[r].left /\ run[r].kept \subseteq order[r].names \ run[r].left /\ order' = order
  BY <1>1 DEF Save, Choices, Unnamed, Transfers, PointOK, Saves
<1>4. run[r] \in Run /\ run[r].left \subseteq order[r].names
  BY <1>1, <1>3, OrderTyped DEF PointOK, Inside
<1> DEFINE to == order[r].to
           item == Incoming(r, n)
           s == [run[r] EXCEPT !.doing = n]
<1>5. \/ UNCHANGED items /\ (\E code : Fails(r, n, FALSE, code))
      \/ item # None /\ Changes(to, n, item) /\ Continues(r, "retaining", s)
      \/ SaveFails(to, n, item) /\ (\E code : Fails(r, n, FALSE, code))
  BY <1>2 DEF Save
<1>6. \A y \in Zone, m \in Name : y # to \/ m # n => Same(y, m)
  <2>1. CASE UNCHANGED items BY <2>1 DEF items, Same
  <2>2. CASE Touches(to, n, item) BY <1>1, <1>2, <2>2, TouchesElsewhere
  <2> QED BY <1>5, <2>1, <2>2 DEF Touches
<1>7. \A m \in Name : Same(order[r].zone, m) BY <1>2, <1>6
<1>8. \A m \in run[r].kept : m \in Name /\ Copied(r, m) /\ Same(to, m)
  BY <1>2, <1>3, <1>6 DEF TransferOK, Saves
<1>9. CASE \E code : Fails(r, n, FALSE, code)
  <2> DEFINE t == [run[r] EXCEPT !.left = @ \ {n}, !.bad = @ \union {<<n, FALSE>>}]
  <2>1. t.picked = run[r].picked /\ t.kept = run[r].kept BY <1>4 DEF Run
  <2>2. at'[r] = "saving" /\ run'[r] = t BY <1>1, <1>9 DEF Fails, Continues, Goes, Types
  <2> HIDE DEF t
  <2>3. \A m \in run'[r].kept : Copied(r, m)' BY <1>3, <1>8, <2>1, <2>2, CopiedKeeps DEF Wanes
  <2> QED BY <1>3, <1>7, <2>1, <2>2, <2>3, SavingKeeps DEF Saves
<1>10. CASE item # None /\ Changes(to, n, item) /\ Continues(r, "retaining", s)
  <2>1. s.picked = run[r].picked /\ s.kept = run[r].kept /\ s.doing = n BY <1>4 DEF Run
  <2>2. at'[r] = "retaining" /\ run'[r] = s BY <1>1, <1>10 DEF Continues, Goes, Types
  <2>3. held'[to][n] = item BY <1>1, <1>2, <1>10 DEF Changes, Becomes, Types
  <2>4. item = run[r].picked[n]
    <3>1. item = held[order[r].zone][n] BY DEF Incoming
    <3>2. n \in order[r].names /\ SourceOK(r, n) BY <1>3, <1>4 DEF TransferOK, Saves
    <3> QED BY <1>2, <1>10, <3>1, <3>2 DEF SourceOK, OrphanGone
  <2> HIDE DEF s, item
  <2>5. \A m \in run'[r].kept : Copied(r, m)' BY <1>3, <1>8, <2>1, <2>2, CopiedKeeps DEF Wanes
  <2>6. Copied(r, n)' BY <1>3, <2>1, <2>2, <2>3, <2>4 DEF Copied
  <2>7. \A m \in {run'[r].doing} : Copied(r, m)' BY <2>1, <2>2, <2>6
  <2> QED BY <1>3, <1>7, <2>1, <2>2, <2>5, <2>7, SavingKeeps DEF Saves
<1> QED BY <1>5, <1>9, <1>10

(* Retention after a save: nothing but the target changes. *)
LEMMA RetainTransfer ==
  ASSUME Base, NEW r \in Request, TransferOK(r), Transfers(r),
         ListVictims(r) \/ Retained(r) \/ \E n \in Name : Evict(r, n)
  PROVE  TransferOK(r)'
<1>1. Types /\ PointOK(r) BY TypesParts DEF Base, PointsOK
<1>2. /\ order[r].zone \in Zone /\ order[r].to \in Zone /\ order[r].zone # order[r].to /\ Target(r) = order[r].to
      /\ order[r].names \subseteq Name
  BY TransferZones
<1>3. at[r] \in {"retaining", "evicting"} /\ order' = order BY DEF ListVictims, Retained, Evict
<1>4. run[r] \in Run /\ run[r].kept \subseteq Name /\ run[r].doing \in Name
  BY <1>1, <1>3, OrderTyped DEF PointOK, Run
<1>5. (\A m \in run[r].kept : Copied(r, m)) /\ Copied(r, run[r].doing) BY <1>3 DEF TransferOK, Saves
<1> DEFINE to == order[r].to
           d == run[r].doing
           bad == [run[r] EXCEPT !.left = @ \ {d}, !.bad = @ \union {<<d, TRUE>>}]
<1>6. bad.picked = run[r].picked /\ bad.kept = run[r].kept BY <1>4 DEF Run
<1>7. ASSUME \A m \in Name : Same(order[r].zone, m), \A m \in Name : Wanes(to, m),
             run'[r].picked = run[r].picked, run'[r].kept \subseteq run[r].kept \union {d},
             run'[r].doing = d \/ at'[r] = "saving", at'[r] \in Saves
      PROVE  TransferOK(r)'
  <2>1. \A m \in Name : Copied(r, m) => Copied(r, m)' BY <1>3, <1>7, CopiedKeeps
  <2>2. \A m \in run'[r].kept : Copied(r, m)' BY <1>4, <1>5, <1>7, <2>1
  <2>3. \A m \in Name : m = d => Copied(r, m)' BY <1>5, <2>1
  <2>4. at'[r] \in {"retaining", "evicting"} => \A m \in {run'[r].doing} : Copied(r, m)' BY <1>4, <1>7, <2>3
  <2> QED BY <1>3, <1>7, <2>2, <2>4, SavingKeeps DEF Saves
<1>8. UNCHANGED items => (\A m \in Name : Same(order[r].zone, m)) /\ (\A m \in Name : Wanes(to, m))
  BY DEF items, Same, Wanes
<1>9. CASE UNCHANGED items /\ \E code : Fails(r, d, TRUE, code)
  <2>1. at'[r] = "saving" /\ run'[r] = bad BY <1>1, <1>9 DEF Fails, Continues, Goes, Types
  <2> HIDE DEF bad
  <2> QED BY <1>6, <1>7, <1>8, <1>9, <2>1 DEF Saves
<1>10. CASE ListVictims(r)
  <2>2. UNCHANGED items /\ (\/ \E code : Fails(r, d, TRUE, code)
                           \/ \E L \in Listing(Target(r)) : Continues(r, "evicting", Listed(r, L)))
    BY <1>10, ListsVictims
  <2>3. ASSUME NEW L \in Listing(Target(r)), Continues(r, "evicting", Listed(r, L)) PROVE TransferOK(r)'
    <3>1. at'[r] = "evicting" /\ run'[r] = Listed(r, L) BY <1>1, <2>3 DEF Continues, Goes, Types
    <3>2. run'[r].picked = run[r].picked /\ run'[r].kept = run[r].kept /\ run'[r].doing = d
      BY <1>1, <3>1, ListedRun DEF SameBut
    <3> QED BY <1>7, <1>8, <2>2, <3>1, <3>2 DEF Saves
  <2> QED BY <1>9, <2>2, <2>3
<1>11. CASE Retained(r)
  <2> DEFINE s == [run[r] EXCEPT !.left = @ \ {d}, !.kept = @ \union {d}, !.dropped = @ \union run[r].evicted]
  <2>1. s.picked = run[r].picked /\ s.kept = run[r].kept \union {d} BY <1>4 DEF Run
  <2>2. UNCHANGED items /\ (Continues(r, "saving", s) \/ \E code : Fails(r, d, TRUE, code)) BY <1>11 DEF Retained
  <2> HIDE DEF s
  <2>3. CASE Continues(r, "saving", s)
    <3>1. at'[r] = "saving" /\ run'[r] = s BY <1>1, <2>3 DEF Continues, Goes, Types
    <3> QED BY <1>7, <1>8, <2>1, <2>2, <3>1 DEF Saves
  <2> QED BY <1>9, <2>2, <2>3
<1>12. ASSUME NEW n \in Name, Evict(r, n) PROVE TransferOK(r)'
  <2> DEFINE s == [run[r] EXCEPT !.victims = @ \ {n}, !.stuck = TRUE]
             t == [run[r] EXCEPT !.victims = @ \ {n}, !.evicted = @ \union {n}]
  <2>1. /\ s.picked = run[r].picked /\ s.kept = run[r].kept /\ s.doing = d
        /\ t.picked = run[r].picked /\ t.kept = run[r].kept /\ t.doing = d
    BY <1>4 DEF Run
  <2>2. /\ Continues(r, "evicting", s) \/ Continues(r, "evicting", t)
        /\ UNCHANGED items \/ (n \in Shown(to) /\ (Changes(to, n, None) \/ DeleteFails(to, n)))
    BY <1>2, <1>12 DEF Evict, Shown
  <2> HIDE DEF s, t
  <2>3. at'[r] = "evicting" /\ (run'[r] = s \/ run'[r] = t) BY <1>1, <2>2 DEF Continues, Goes, Types
  <2>4. (\A m \in Name : Same(order[r].zone, m)) /\ (\A m \in Name : Wanes(to, m))
    <3>1. /\ \A y \in Zone, m \in Name : y # to \/ m # n => Same(y, m)
          /\ Wanes(to, n)
      BY <1>1, <1>2, <1>3, <2>2, DeletionAt
    <3> QED BY <1>2, <3>1 DEF Wanes
  <2>5. run'[r].picked = run[r].picked /\ run'[r].kept = run[r].kept /\ run'[r].doing = d BY <2>1, <2>3
  <2> QED BY <1>7, <2>3, <2>4, <2>5 DEF Saves
<1> QED BY <1>10, <1>11, <1>12

(* The end of a transfer, and of a move the deletion of its sources. *)
LEMMA ConfirmTransfer ==
  ASSUME Base, NEW r \in Request, TransferOK(r), Transfers(r), Confirm(r)
  PROVE  TransferOK(r)'
<1>1. Types /\ PointOK(r) BY TypesParts DEF Base, PointsOK
<1>2. at[r] = "saving" /\ order' = order /\ UNCHANGED items /\ run[r] \in Run
  BY <1>1, OrderTyped, Confirms
<1>3. at'[r] = "ended" \/ \E L \in Listing(order[r].to) : Continues(r, "removing", ToRemove(r, L))
  BY <1>1, Confirms DEF Ends, Goes, Types
<1>4. CASE at'[r] = "ended" BY <1>4, IndelicateOK DEF Delicate, Saves
<1>5. ASSUME NEW L \in Listing(order[r].to), Continues(r, "removing", ToRemove(r, L)) PROVE TransferOK(r)'
  <2>1. at'[r] = "removing" /\ run'[r] = ToRemove(r, L) BY <1>1, <1>5 DEF Continues, Goes, Types
  <2>2. /\ run'[r].left = run[r].kept \intersect L /\ run'[r].picked = run[r].picked
        /\ run'[r].blind <=> run[r].blind \/ L # Shown(order[r].to)
    <3>1. LET t == ToRemove(r, L)
          IN t.left = run[r].kept \intersect L /\ t.picked = run[r].picked /\ (t.blind <=> run[r].blind \/ L # Shown(order[r].to))
      BY <1>1, FoundRun
    <3> QED BY <2>1, <3>1
  <2>3. run[r].kept \subseteq order[r].names BY <1>1, <1>2 DEF PointOK, Saves
  <2>4. ASSUME NEW n \in run[r].kept \intersect L PROVE SourceOK(r, n)' /\ HasSeen(r, order[r].to, n, run[r].picked[n])'
    <3>1. SourceOK(r, n) /\ Copied(r, n) /\ n \in Shown(order[r].to) \union Hidden(order[r].to)
      BY <1>2, <2>3 DEF TransferOK, Saves, Listing
    <3>2. SourceOK(r, n)' BY <1>2, <2>2, <3>1 DEF SourceOK, items
    <3>3. n \in Seen(r, order[r].to)'
      <4>1. Shown(order[r].to)' = Shown(order[r].to) /\ Hidden(order[r].to)' = Hidden(order[r].to)
        BY <1>2 DEF Shown, Hidden, items
      <4>2. Seen(r, order[r].to)' = IF run'[r].blind THEN Shown(order[r].to) \union Hidden(order[r].to)
                                    ELSE Shown(order[r].to)
        BY <1>2, <4>1 DEF Seen
      <4> QED BY <2>2, <3>1, <4>2
    <3>4. held'[order[r].to][n] = run'[r].picked[n] BY <1>2, <2>2, <3>1 DEF Copied, items
    <3> QED BY <1>2, <2>2, <3>2, <3>3, <3>4 DEF HasSeen
  <2> QED BY <2>1, <2>2, <2>4 DEF TransferOK, Saves
<1> QED BY <1>3, <1>4, <1>5

(* ... as does the removal of a source.                                     *)
LEMMA RemoveTransfer ==
  ASSUME Base, NEW r \in Request, TransferOK(r), Transfers(r), NEW n \in Name, Remove(r, n)
  PROVE  TransferOK(r)'
<1>1. Types /\ PointOK(r) BY TypesParts DEF Base, PointsOK
<1>2. /\ order[r].zone \in Zone /\ order[r].to \in Zone /\ order[r].zone # order[r].to
      /\ at[r] = "removing" /\ order' = order /\ run[r] \in Run
  BY <1>1, OrderTyped, TransferZones DEF Remove
<1> DEFINE done == [run[r] EXCEPT !.left = @ \ {n}, !.good = @ \union {n}]
           failed == [run[r] EXCEPT !.left = @ \ {n}, !.bad = @ \union {<<n, TRUE>>}]
           gone == [failed EXCEPT !.good = @ \union {n}]
<1>3. done.left = run[r].left \ {n} /\ done.picked = run[r].picked /\ done.blind = run[r].blind BY <1>2 DEF Run
<1>4. failed \in Run /\ failed.left = run[r].left \ {n} /\ failed.picked = run[r].picked /\ failed.blind = run[r].blind
  <2>1. failed \in Run BY <1>2, FailedTyped
  <2>2. failed.left = run[r].left \ {n} /\ failed.picked = run[r].picked /\ failed.blind = run[r].blind BY <1>2 DEF Run
  <2> QED BY <2>1, <2>2
<1>5. gone.left = failed.left /\ gone.picked = failed.picked /\ gone.blind = failed.blind
  <2> HIDE DEF failed
  <2> QED BY <1>4 DEF Run
<1>6. /\ Continues(r, "removing", done) \/ Continues(r, "removing", failed) \/ Continues(r, "removing", gone)
      /\ UNCHANGED items
         \/ (n \in Shown(order[r].zone) /\ (Changes(order[r].zone, n, None) \/ DeleteFails(order[r].zone, n)))
  BY DEF Remove, Shown
<1> HIDE DEF done, failed, gone
<1>7. at'[r] = "removing" /\ run'[r].left = run[r].left \ {n} /\ run'[r].picked = run[r].picked
      /\ run'[r].blind = run[r].blind
  BY <1>1, <1>3, <1>4, <1>5, <1>6 DEF Continues, Goes, Types
<1>8. \A y \in Zone, m \in Name : y # order[r].zone \/ m # n => Same(y, m)
  BY <1>1, <1>2, <1>6, DeletionAt
<1>9. ASSUME NEW m \in run[r].left \ {n} PROVE SourceOK(r, m)' /\ HasSeen(r, order[r].to, m, run[r].picked[m])'
  <2>1. m \in Name BY <1>2 DEF Run
  <2>2. SourceOK(r, m) /\ HasSeen(r, order[r].to, m, run[r].picked[m]) BY <1>2 DEF TransferOK
  <2>3. Same(order[r].zone, m) /\ Same(order[r].to, m) BY <1>2, <1>8, <2>1
  <2> QED BY <1>2, <1>7, <2>2, <2>3 DEF SourceOK, HasSeen, Seen, Shown, Hidden, Same
<1> QED BY <1>7, <1>9 DEF TransferOK, Saves

(* Retention stays within what was too much.                                *)
LEMMA EvictCounted ==
  ASSUME Base, NEW r \in Request, EvictionOK(r), ListVictims(r) \/ \E n \in Name : Evict(r, n)
  PROVE  EvictionOK(r)'
<1>1. Types /\ run[r] \in Run /\ order' = order BY TypesParts, OrderTyped DEF Base, ListVictims, Evict
<1> SUFFICES ASSUME NEW z \in Zone, at'[r] = "evicting", z = Target(r)', run'[r].victims # {}
             PROVE  Cardinality(Counted(r, z)') >= Retain[z] + Cardinality(run'[r].victims)
  BY DEF EvictionOK
<1>2. z = Target(r) BY <1>1 DEF Target, Transfers
<1>3. Retain[z] \in Nat BY LimitsAssumption
<1>4. Counted(r, z) \in SUBSET Name /\ Counted(r, z)' \in SUBSET Name BY ShownNames DEF Counted, Seen, Shown, Hidden, Orphans
<1>5. CASE ListVictims(r)
  <2>1. ~\E code : Fails(r, run[r].doing, TRUE, code) BY <1>1 DEF Fails, Continues, Ends, Goes, Types
  <2>2. PICK L \in Listing(z) : UNCHANGED items /\ Continues(r, "evicting", Listed(r, L))
    BY <1>2, <1>5, <2>1, ListsVictims
  <2>3. run'[r] = Listed(r, L) BY <1>1, <2>2 DEF Continues, Types
  <2>4. /\ run'[r].victims = Victims(z, run[r].doing, L) /\ L \in SUBSET Name
        /\ run'[r].blind <=> run[r].blind \/ L # Shown(z)
    BY <1>1, <1>2, <2>3, ListedRun, ListingNames
  <2>5. Cardinality(L) >= Retain[z] + Cardinality(run'[r].victims)
    BY <1>1, <2>4, VictimsBeyond
  <2>6. L \subseteq Counted(r, z)' BY <2>2, <2>4 DEF Counted, Seen, Shown, Hidden, Listing, items
  <2>7. Cardinality(L) <= Cardinality(Counted(r, z)') /\ Cardinality(L) \in Nat
        /\ Cardinality(Counted(r, z)') \in Nat
    BY <1>4, <2>4, <2>6, NamesFinite, FS_Subset
  <2>8. Cardinality(run'[r].victims) \in Nat
    <3>1. run'[r].victims \in SUBSET Name BY <2>4 DEF Victims
    <3> QED BY <3>1, NamesFinite
  <2> QED BY <1>3, <2>5, <2>7, <2>8
<1>6. ASSUME NEW n \in Name, Evict(r, n)
      PROVE  Cardinality(Counted(r, z)') >= Retain[z] + Cardinality(run'[r].victims)
  <2> DEFINE s == [run[r] EXCEPT !.victims = @ \ {n}, !.stuck = TRUE]
             t == [run[r] EXCEPT !.victims = @ \ {n}, !.evicted = @ \union {n}]
  <2>1. /\ s.victims = run[r].victims \ {n} /\ t.victims = run[r].victims \ {n}
        /\ s.blind = run[r].blind /\ t.blind = run[r].blind
    BY <1>1 DEF Run
  <2>2. /\ Continues(r, "evicting", s) \/ Continues(r, "evicting", t)
        /\ UNCHANGED items \/ (n \in Shown(z) /\ (Changes(z, n, None) \/ DeleteFails(z, n)))
        /\ at[r] = "evicting" /\ n \in run[r].victims
    BY <1>2, <1>6 DEF Evict, Shown
  <2> HIDE DEF s, t
  <2>3. run'[r].victims = run[r].victims \ {n} /\ run'[r].blind = run[r].blind BY <1>1, <2>1, <2>2 DEF Continues, Types
  <2>4. Cardinality(Counted(r, z)) >= Retain[z] + Cardinality(run[r].victims) BY <1>2, <2>2 DEF EvictionOK
  <2>5. \A m \in Name \ {n} : Same(z, m) BY <1>1, <2>2, DeletionAt
  <2>6. Counted(r, z) \ {n} \subseteq Counted(r, z)' BY <2>3, <2>5 DEF Counted, Seen, Shown, Hidden, Orphans, Same
  <2>7. run[r].victims \in SUBSET Name BY <1>1 DEF Run
  <2>8. Cardinality(run[r].victims \ {n}) + 1 = Cardinality(run[r].victims) /\ Cardinality(run[r].victims) \in Nat
        /\ Cardinality(run[r].victims \ {n}) \in Nat
    <3>1. run[r].victims \ {n} \in SUBSET Name BY <2>7
    <3> QED BY <2>2, <2>7, <3>1, WithoutOne, NamesFinite
  <2>9. Cardinality(Counted(r, z) \ {n}) + 1 >= Cardinality(Counted(r, z)) /\ Cardinality(Counted(r, z)) \in Nat
        /\ Cardinality(Counted(r, z) \ {n}) \in Nat
    <3>1. Counted(r, z) \ {n} \in SUBSET Name BY <1>4
    <3>2. n \notin Counted(r, z) => Counted(r, z) \ {n} = Counted(r, z) OBVIOUS
    <3>3. Cardinality(Counted(r, z)) \in Nat /\ Cardinality(Counted(r, z) \ {n}) \in Nat BY <1>4, <3>1, NamesFinite
    <3>4. n \in Counted(r, z) => Cardinality(Counted(r, z) \ {n}) + 1 = Cardinality(Counted(r, z)) BY <1>4, WithoutOne
    <3>5. CASE n \in Counted(r, z)
      <4>1. Cardinality(Counted(r, z) \ {n}) + 1 = Cardinality(Counted(r, z)) BY <3>4, <3>5
      <4> QED BY <3>3, <4>1
    <3>6. CASE n \notin Counted(r, z)
      <4>1. Cardinality(Counted(r, z) \ {n}) = Cardinality(Counted(r, z)) BY <3>2, <3>6
      <4> QED BY <3>3, <4>1
    <3> QED BY <3>5, <3>6
  <2>10. Cardinality(Counted(r, z) \ {n}) <= Cardinality(Counted(r, z)') /\ Cardinality(Counted(r, z)') \in Nat
    BY <1>4, <2>6, NamesFinite, FS_Subset
  <2> QED BY <1>3, <2>3, <2>4, <2>8, <2>9, <2>10
<1> QED BY <1>5, <1>6

(* A transfer has just read what it relies on.                              *)
LEMMA LookTransfer ==
  ASSUME Base, NEW r \in Request, LookAtTransfer(r)
  PROVE  TransferOK(r)' /\ EvictionOK(r)'
<1>1. Types /\ run[r] \in Run /\ order' = order /\ UNCHANGED items
  BY TypesParts, OrderTyped DEF Base, LookAtTransfer
<1> DEFINE s == [run[r] EXCEPT !.picked = held[order[r].zone]]
<1>2. \/ at'[r] = "ended"
      \/ order[r].names \subseteq Shown(order[r].zone) \union Hidden(order[r].zone) /\ Continues(r, "measuring", s)
  BY <1>1 DEF LookAtTransfer, Listing, Ends, Goes, Types
<1>3. CASE at'[r] = "ended" BY <1>3, IndelicateOK DEF Delicate, Saves
<1>4. CASE order[r].names \subseteq Shown(order[r].zone) \union Hidden(order[r].zone) /\ Continues(r, "measuring", s)
  <2>1. s.picked = held[order[r].zone] BY <1>1 DEF Run
  <2>2. at'[r] = "measuring" /\ run'[r] = s BY <1>1, <1>4 DEF Continues, Goes, Types
  <2> HIDE DEF s
  <2>3. \A n \in order[r].names : SourceOK(r, n)'
    BY <1>1, <1>4, <2>1, <2>2, NoneApart DEF SourceOK, Shown, Hidden, items, Mark
  <2> QED BY <1>1, <2>2, <2>3 DEF TransferOK, EvictionOK, Saves
<1> QED BY <1>2, <1>3, <1>4

(* So each step of a handler keeps what its request relies on.              *)
LEMMA HandlesOwn ==
  ASSUME Base, OrphanGone, NEW r \in Request, TransferOK(r), EvictionOK(r), Handles(r)
  PROVE  TransferOK(r)' /\ EvictionOK(r)'
<1>1. Types /\ PointOK(r) /\ Base' /\ order' = order /\ Transfers(r)' = Transfers(r)
  BY TypesParts, BaseHandles DEF Base, PointsOK, Proceeds, Transfers
<1>2. ~Transfers(r) => TransferOK(r)' BY <1>1 DEF TransferOK
<1>3. at'[r] # "evicting" => EvictionOK(r)' BY DEF EvictionOK
<1>4. CASE LookAtTransfer(r) BY <1>4, LookTransfer
<1>5. CASE ListVictims(r) \/ \E n \in Name : Evict(r, n) BY <1>2, <1>5, RetainTransfer, EvictCounted
<1>6. ASSUME NEW n \in Name, Save(r, n) PROVE TransferOK(r)' /\ EvictionOK(r)'
  <2>1. at'[r] # "evicting"
    BY <1>1, <1>6 DEF Save, Fails, Continues, Ends, Goes, Types
  <2> QED BY <1>2, <1>3, <1>6, <2>1, SaveTransfer
<1>7. CASE Retained(r)
  <2>1. at'[r] # "evicting" BY <1>1, <1>7 DEF Retained, Fails, Continues, Ends, Goes, Types
  <2> QED BY <1>2, <1>3, <1>7, <2>1, RetainTransfer
<1>8. CASE Confirm(r)
  <2>1. at'[r] # "evicting" BY <1>1, <1>8 DEF Confirm, Continues, Ends, Goes, Types
  <2> QED BY <1>2, <1>3, <1>8, <2>1, ConfirmTransfer
<1>9. ASSUME NEW n \in Name, Remove(r, n) PROVE TransferOK(r)' /\ EvictionOK(r)'
  <2>1. at'[r] # "evicting" BY <1>1, <1>9 DEF Remove, Continues, Goes, Types
  <2> QED BY <1>2, <1>3, <1>9, <2>1, RemoveTransfer
<1>10. ASSUME at'[r] \in {"ended", "measuring", "deleting", "registering", "publishing"}, ~Transfers(r) \/ at'[r] \notin Delicate
       PROVE  TransferOK(r)' /\ EvictionOK(r)'
  BY <1>2, <1>3, <1>10, IndelicateOK
<1>11. CASE LookAtUpload(r)
  <2>1. at'[r] \in {"ended", "measuring"} /\ ~Transfers(r)
    BY <1>1, <1>11 DEF LookAtUpload, Continues, Ends, Goes, Types, Transfers
  <2> QED BY <1>10, <2>1
<1>12. CASE NoName(r) \/ Unstage(r) \/ Removed(r)
  <2>1. at'[r] = "ended" BY <1>1, <1>12 DEF NoName, Unstage, Removed, Ends, Goes, Types
  <2> QED BY <1>10, <2>1 DEF Delicate, Saves
<1>13. ASSUME NEW n \in Name, Delete(r, n) \/ ReadForeign(r, n) \/ Register(r, n) \/ Publish(r, n)
       PROVE  TransferOK(r)' /\ EvictionOK(r)'
  <2>1. at'[r] \in {"ended", "deleting", "registering", "publishing"}
    BY <1>1, <1>13 DEF Delete, ReadForeign, Register, Publish, Continues, Ends, Goes, Types
  <2> QED BY <1>10, <2>1 DEF Delicate, Saves
<1>14. ASSUME NEW n \in Name, Rename(r, n) \/ Comment(r, n) PROVE TransferOK(r)' /\ EvictionOK(r)'
  <2>1. at'[r] = "ended" BY <1>1, <1>14 DEF Rename, Comment, Ends, Goes, Types
  <2> QED BY <1>10, <2>1 DEF Delicate, Saves
<1> QED BY <1>4, <1>5, <1>6, <1>7, <1>8, <1>9, <1>11, <1>12, <1>13, <1>14 DEF Handles

(* A request keeps what it relies on, whoever steps. *)
LEMMA TransfersStep ==
  ASSUME Base, OrphanGone, TransfersOK, EvictionsOK, [Next]_vars
  PROVE  TransfersOK' /\ EvictionsOK'
<1>1. Types /\ LocksHeld /\ PointsOK BY TypesParts DEF Base
<1> SUFFICES ASSUME NEW r \in Request PROVE TransferOK(r)' /\ EvictionOK(r)' BY DEF TransfersOK, EvictionsOK
<1>2. TransferOK(r) /\ EvictionOK(r) /\ PointOK(r) BY <1>1 DEF TransfersOK, EvictionsOK, PointsOK
<1>3. Zones(r) \subseteq Zone BY <1>1, OrderTyped
<1>4. ASSUME SameOrders, at'[r] = at[r], run'[r] = run[r], Inside(r) => \A z \in Zones(r) : Fades(z)
      PROVE  TransferOK(r)' /\ EvictionOK(r)'
  <2>1. CASE at[r] \in Delicate BY <1>1, <1>2, <1>4, <2>1, DelicateInside, FadesKeeps
  <2>2. CASE at[r] \notin Delicate BY <1>4, <2>2, IndelicateOK
  <2> QED BY <2>1, <2>2
<1>5. UNCHANGED items => \A z \in Zone : Fades(z) BY DEF items, Fades, Same
<1>6. order' = order => SameOrders BY DEF SameOrders
<1>7. CASE Around BY <1>4, <1>6, <1>7, BaseAround, AroundFades
<1>8. ASSUME NEW q \in Request, Quiet(q) PROVE TransferOK(r)' /\ EvictionOK(r)'
  <2>1. SameOrders /\ OthersStay(q) /\ UNCHANGED items /\ run' = run BY <1>8, BaseQuiet DEF Quiet
  <2>2. CASE at'[r] = at[r] BY <1>3, <1>4, <1>5, <2>1, <2>2
  <2>3. CASE at'[r] # at[r]
    <3>1. r = q BY <2>1, <2>3 DEF OthersStay
    <3>2. at'[r] \in {"waiting", "closed"} BY <1>1, <1>8, <2>3, <3>1 DEF Quiet, Types
    <3> QED BY <3>2, IndelicateOK DEF Delicate, Saves
  <2> QED BY <2>2, <2>3
<1>9. ASSUME NEW q \in Request, Enter(q) \/ Measure(q) \/ Die(q) PROVE TransferOK(r)' /\ EvictionOK(r)'
  <2>1. OthersStay(q) /\ UNCHANGED items /\ order' = order
    BY <1>9, BaseEnter, BaseMeasure, BaseDie DEF Enter, Measure, Die
  <2>2. CASE r # q BY <1>3, <1>4, <1>5, <1>6, <2>1, <2>2 DEF OthersStay
  <2>3. CASE Enter(r)
    <3>1. at'[r] \notin Delicate BY <1>1, <2>3 DEF Enter, Goes, Types, Entry, Delicate, Saves
    <3> QED BY <3>1, IndelicateOK
  <2>4. CASE Die(r)
    <3>1. at'[r] \notin Delicate BY <1>1, <2>4 DEF Die, Goes, Types, Delicate, Saves
    <3> QED BY <3>1, IndelicateOK
  <2>5. CASE Measure(r)
    <3>1. at'[r] = "ended" \/ (at'[r] = "saving" /\ run' = run)
      BY <1>1, <2>5 DEF Measure, Ends, Goes, Types
    <3>2. CASE at'[r] = "ended" BY <3>2, IndelicateOK DEF Delicate, Saves
    <3>3. CASE at'[r] = "saving" /\ run' = run
      <4>1. at[r] = "measuring" /\ order' = order /\ UNCHANGED items BY <2>5 DEF Measure
      <4>2. run[r].kept = {} BY <1>2, <4>1 DEF PointOK
      <4>3. Transfers(r) => \A n \in order[r].names : SourceOK(r, n)'
        BY <1>2, <3>3, <4>1 DEF TransferOK, SourceOK, items
      <4>4. Transfers(r)' = Transfers(r) BY <4>1 DEF Transfers
      <4> QED BY <3>3, <4>1, <4>2, <4>3, <4>4 DEF TransferOK, EvictionOK, Saves
    <3> QED BY <3>1, <3>2, <3>3
  <2> QED BY <1>9, <2>2, <2>3, <2>4, <2>5
<1>10. ASSUME NEW q \in Request, Handles(q) PROVE TransferOK(r)' /\ EvictionOK(r)'
  <2>1. OthersStay(q) /\ Inside(q) /\ order' = order BY <1>10, BaseHandles DEF Proceeds
  <2>2. CASE r # q
    <3>1. ASSUME Inside(r), NEW z \in Zones(r) PROVE Fades(z)
      <4>1. z \in Zone \ Zones(q) BY <2>1, <2>2, <3>1, ZonesApart
      <4> QED BY <1>10, <4>1, HandlesLocal DEF Fades
    <3> QED BY <1>4, <1>6, <2>1, <2>2, <3>1 DEF OthersStay
  <2>3. CASE r = q BY <1>2, <1>10, <2>3, HandlesOwn
  <2> QED BY <2>2, <2>3
<1>11. CASE UNCHANGED vars
  <2>1. UNCHANGED <<items, order, at, run>> BY <1>11 DEF vars, items
  <2> QED BY <1>3, <1>4, <1>5, <1>6, <2>1
<1> QED BY <1>1, <1>7, <1>8, <1>9, <1>10, <1>11, QuietSteps, NextCases

TransferInv == Base /\ OrphanGone /\ TransfersOK /\ EvictionsOK

(* At first no request relies on anything.                                  *)
LEMMA TransferInvInit == Init => TransferInv
<1> SUFFICES ASSUME Init PROVE TransferInv OBVIOUS
<1>1. OrphanGone BY NoneApart DEF Init, OrphanGone, Mark
<1>2. TransfersOK /\ EvictionsOK BY DEF Init, TransfersOK, TransferOK, EvictionsOK, EvictionOK, Saves
<1> QED BY <1>1, <1>2, BaseInit DEF TransferInv

(* Every step keeps what the requests rely on.                              *)
LEMMA TransferInvStep == TransferInv /\ [Next]_vars => TransferInv'
BY BaseStep, OrphanStep, TransfersStep DEF TransferInv

-----------------------------------------------------------------------------
(* Nothing is lost *)

Loses(z, n) == held[z][n] # None /\ (held'[z][n] = None \/ held'[z][n].data # held[z][n].data)
Excused(z, n) ==
  \/ journal[z][n] = "deleting" \/ journal'[z][n] = "orphan"
  \/ /\ journal[z][n] = "foreign"
     /\ UNCHANGED at \/ \E r \in Request : at[r] = "publishing" /\ run'[r].blind /\ Fault
  \/ journal[z][n] # "foreign" /\ \E r \in Request : Inside(r) /\ Entitled(r, z, n)

(* What is lost around the requests is excused.                             *)
LEMMA AroundExcused ==
  ASSUME Base, Around, NEW z \in Zone, NEW n \in Name, Loses(z, n)
  PROVE  Excused(z, n)
<1>1. Types /\ UNCHANGED at BY TypesParts, BaseAround DEF Base
<1>2. PICK y \in Zone : Reconcile(y) \/ \E m \in Name : Vanish(y, m) \/ \E data \in Data : Rewrite(y, m, data)
  BY DEF Around
<1>3. CASE Reconcile(y)
  <2>1. PICK doomed \in SUBSET {m \in Name : journal[y][m] = "deleting"} :
          held' = [held EXCEPT ![y] = [m \in Name |-> IF m \in doomed THEN None ELSE held[y][m]]]
    BY <1>3 DEF Reconcile
  <2>2. z = y /\ n \in doomed BY <1>1, <2>1 DEF Loses, Types
  <2> QED BY <2>2 DEF Excused
<1>4. ASSUME NEW m \in Name, Vanish(y, m) PROVE Excused(z, n)
  <2>1. PICK mark : Becomes(y, m, None, mark) /\ mark = IF journal[y][m] = None THEN "orphan" ELSE None
    BY <1>4 DEF Vanish
  <2>2. z = y /\ n = m BY <1>1, <2>1 DEF Loses, Becomes, Types
  <2>3. journal[z][n] \in {None, "foreign"} BY <1>4, <2>2 DEF Vanish
  <2>4. journal'[z][n] = mark BY <1>1, <2>1, <2>2 DEF Becomes, Types
  <2> QED BY <1>1, <2>1, <2>2, <2>3, <2>4 DEF Excused
<1>5. ASSUME NEW m \in Name, NEW data \in Data, Rewrite(y, m, data) PROVE Excused(z, n)
  <2> DEFINE item == [held[y][m] EXCEPT !.data = data]
  <2>1. held' = [held EXCEPT ![y] = [held[y] EXCEPT ![m] = item]] /\ journal[y][m] = "foreign"
    BY <1>1, <1>5 DEF Rewrite, Types
  <2> HIDE DEF item
  <2>2. z = y /\ n = m BY <1>1, <2>1 DEF Loses, Types
  <2> QED BY <1>1, <2>1, <2>2 DEF Excused
<1> QED BY <1>2, <1>3, <1>4, <1>5

(* What a request takes it is entitled to. *)
LEMMA TakesExcused ==
  ASSUME NEW r \in Request, Inside(r), NEW z \in Zone, NEW n \in Name,
         journal[z][n] # "foreign", Entitled(r, z, n)
  PROVE  Excused(z, n)
BY DEF Excused

(* Retention may delete what it deletes.                                    *)
LEMMA EvictEntitled ==
  ASSUME TransferInv, NEW r \in Request, NEW n \in Name, Evict(r, n)
  PROVE  Entitled(r, Target(r), n)
<1>1. Types /\ PointOK(r) /\ EvictionOK(r) BY TypesParts DEF TransferInv, Base, PointsOK, EvictionsOK
<1>2. at[r] = "evicting" /\ n \in run[r].victims BY DEF Evict
<1>3. Target(r) \in Zone /\ run[r].victims \in SUBSET Name BY <1>1, OrderTyped DEF Run
<1> PICK z \in Zone : z = Target(r) BY <1>3
<1>4. Cardinality(Counted(r, z)) >= Retain[z] + Cardinality(run[r].victims) BY <1>1, <1>2 DEF EvictionOK
<1>5. Cardinality(run[r].victims) \in Nat /\ Cardinality(run[r].victims) # 0
  BY <1>2, <1>3, NamesFinite, FS_EmptySet
<1>6. Retain[z] \in Nat BY LimitsAssumption
<1>7. Cardinality(Counted(r, z)) \in Nat
  <2>1. Counted(r, z) \in SUBSET Name BY ShownNames
  <2> QED BY <2>1, NamesFinite
<1>8. Cardinality(Counted(r, z)) > Retain[z] BY <1>4, <1>5, <1>6, <1>7
<1>9. order[r].op \in {"upload", "copy", "move"} BY <1>1, <1>2 DEF PointOK, Writer, Saves
<1> QED BY <1>8, <1>9 DEF Entitled, Counted

(* A move may remove what it removes: its copy is there.                    *)
LEMMA RemoveEntitled ==
  ASSUME TransferInv, NEW r \in Request, NEW n \in Name, Remove(r, n), held[order[r].zone][n] # None,
         journal[order[r].zone][n] = None
  PROVE  Entitled(r, order[r].zone, n)
<1>1. Types /\ PointOK(r) /\ TransferOK(r) BY TypesParts DEF TransferInv, Base, PointsOK, TransfersOK
<1>2. at[r] = "removing" /\ n \in run[r].left /\ order[r].op = "move" BY <1>1 DEF Remove, PointOK
<1>3. n \in order[r].names BY <1>1, <1>2 DEF PointOK, Inside
<1>4. SourceOK(r, n) /\ HasSeen(r, order[r].to, n, run[r].picked[n]) BY <1>1, <1>2 DEF TransferOK, Transfers
<1>5. held[order[r].zone][n] = run[r].picked[n] BY <1>4, NoneApart DEF SourceOK, Mark
<1>6. \/ journal[order[r].to][n] = "orphan"
      \/ n \in Seen(r, order[r].to) /\ held[order[r].to][n].data = held[order[r].zone][n].data
  BY <1>4, <1>5 DEF HasSeen
<1> QED BY <1>2, <1>3, <1>6 DEF Entitled

(* A change of an item, and what it takes. *)
LEMMA TouchesLoses ==
  ASSUME Types, NEW z \in Zone, NEW n \in Name, NEW item, Touches(z, n, item) \/ UNCHANGED items,
         NEW y \in Zone, NEW m \in Name, Loses(y, m)
  PROVE  y = z /\ m = n /\ held'[z][n] = item
<1>1. ~UNCHANGED items BY DEF items, Loses
<1>2. PICK i, mark : Becomes(z, n, i, mark) /\ i \in {item, held[z][n]}
  BY <1>1 DEF Touches, Changes, SaveFails, DeleteFails, SidecarFails
<1> QED BY <1>2 DEF Becomes, Loses, Types

(* So a handler loses only what its request may delete.                     *)
LEMMA HandlesExcused ==
  ASSUME TransferInv, NEW r \in Request, Handles(r), NEW z \in Zone, NEW n \in Name, Loses(z, n)
  PROVE  Excused(z, n)
<1>1. Types /\ PointOK(r) /\ OrdersOK /\ Base BY TypesParts DEF TransferInv, Base, PointsOK
<1>2. Inside(r) /\ run[r] \in Run /\ order[r].zone \in Zone /\ Target(r) \in Zone
  BY <1>1, BaseHandles, OrderTyped DEF Proceeds
<1>3. ~UNCHANGED items BY DEF items, Loses
<1>4. None # "foreign" BY NoneApart DEF Mark
<1>5. ASSUME NEW m \in Name, Save(r, m) PROVE Excused(z, n)
  <2>1. z = Target(r) /\ n = m
    <3>1. UNCHANGED items \/ Touches(Target(r), m, Incoming(r, m)) BY <1>5 DEF Save, Touches
    <3> QED BY <1>1, <1>2, <3>1, TouchesLoses
  <2>2. Availability(z, n, n \in order[r].replace) = "ok" BY <1>3, <1>5, <2>1 DEF Save
  <2>3. journal[z][n] = None /\ n \in order[r].replace BY <2>2 DEF Availability, Loses
  <2> QED BY <1>2, <1>4, <2>1, <2>3, TakesExcused DEF Entitled
<1>6. ASSUME NEW m \in Name, Evict(r, m) PROVE Excused(z, n)
  <2>1. z = Target(r) /\ n = m BY <1>1, <1>2, <1>6, TouchesLoses DEF Evict, Touches
  <2>2. journal[z][n] = None BY <1>3, <1>6, <2>1 DEF Evict
  <2>3. Entitled(r, z, n) BY <1>6, <2>1, EvictEntitled
  <2> QED BY <1>2, <1>4, <2>2, <2>3, TakesExcused
<1>7. ASSUME NEW m \in Name, Remove(r, m) PROVE Excused(z, n)
  <2>1. z = order[r].zone /\ n = m
    <3>1. UNCHANGED items \/ Touches(order[r].zone, m, None) BY <1>7 DEF Remove, Touches
    <3> QED BY <1>1, <1>2, <3>1, TouchesLoses
  <2>2. journal[z][n] = None BY <1>3, <1>7, <2>1 DEF Remove
  <2>3. Entitled(r, z, n) BY <1>7, <2>1, <2>2, RemoveEntitled DEF Loses
  <2> QED BY <1>2, <1>4, <2>2, <2>3, TakesExcused
<1>8. ASSUME NEW m \in Name, Delete(r, m) PROVE Excused(z, n)
  <2>1. z = order[r].zone /\ n = m
    <3>1. UNCHANGED items \/ Touches(order[r].zone, m, None) BY <1>8 DEF Delete, Touches
    <3> QED BY <1>1, <1>2, <3>1, TouchesLoses
  <2>2. journal[z][n] = None BY <1>3, <1>8, <2>1 DEF Delete
  <2>3. order[r].op = "delete" /\ n \in order[r].names BY <1>1, <1>2, <1>8, <2>1 DEF Delete, PointOK
  <2> QED BY <1>2, <1>4, <2>1, <2>2, <2>3, TakesExcused DEF Entitled
<1>9. ASSUME NEW m \in Name, Rename(r, m) PROVE Excused(z, n)
  <2> DEFINE y == order[r].zone
             i == order[r].into
  <2>1. i \in Name /\ i # m /\ order[r].op = "rename" /\ m \in order[r].names BY <1>1, <1>9 DEF Rename, OrdersOK
  <2>2. held' # held BY DEF Loses
  <2>3. /\ held' = [held EXCEPT ![y] = [held[y] EXCEPT ![i] = held[y][m], ![m] = None]]
        /\ held[y][i] = None /\ journal[y][m] = None
    BY <2>2, <1>9 DEF Rename, items
  <2>4. z = y /\ n = m BY <1>1, <1>2, <2>1, <2>3 DEF Loses, Types
  <2> QED BY <1>2, <1>4, <2>1, <2>3, <2>4, TakesExcused DEF Entitled
<1>10. ASSUME NEW m \in Name, Comment(r, m) PROVE Excused(z, n)
  <2> DEFINE y == order[r].zone
             item == [held[y][m] EXCEPT !.comment = order[r].data]
  <2>1. Touches(y, m, item) /\ held[y][m] # None BY <1>3, <1>10 DEF Comment, Touches, items
  <2>2. held[y][m] \in Item BY <1>1, <1>2, <2>1 DEF Types
  <2>3. item # None /\ item.data = held[y][m].data
    <3>1. order[r].data \in Data BY <1>1, OrderTyped
    <3>2. item \in Item /\ item.data = held[y][m].data BY <2>2, <3>1 DEF Item
    <3> HIDE DEF item
    <3> QED BY <3>2, NoneApart
  <2> HIDE DEF item
  <2>4. z = y /\ n = m /\ held'[z][n] = item BY <1>1, <1>2, <2>1, TouchesLoses
  <2> QED BY <2>3, <2>4 DEF Loses
<1>11. ASSUME NEW m \in Name, Publish(r, m) PROVE Excused(z, n)
  <2> DEFINE y == order[r].zone
             item(data) == Registered(r, m, data)
  <2>1. order[r].created \in Nat /\ at[r] = "publishing" /\ run[r].picked[m] \in Item
    BY <1>1, <1>11, OrderTyped DEF Publish, PointOK
  <2>2. \A data \in Data : item(data) # None /\ item(data).data = data
    <3> SUFFICES ASSUME NEW data \in Data PROVE item(data) # None /\ item(data).data = data OBVIOUS
    <3>1. item(data) \in Item /\ item(data).data = data BY <2>1 DEF Item, Registered
    <3> HIDE DEF item
    <3> QED BY <3>1, NoneApart
  <2>3. run[r].picked[m].data \in Data BY <2>1 DEF Item
  <2> DEFINE same == held[y][m] # None /\ held[y][m].data = run[r].picked[m].data
             edited == [run[r] EXCEPT !.blind = TRUE]
  <2>4. edited.blind BY <1>2 DEF Run
  <2>5. \/ same /\ Becomes(y, m, item(run[r].picked[m].data), None)
        \/ /\ same /\ journal[y][m] = "foreign" /\ Fault /\ Ends(r, edited, "ok")
           /\ \E data \in Data : Becomes(y, m, item(data), None)
    BY <1>3, <1>11 DEF Publish, SidecarFails
  <2> HIDE DEF item, edited
  <2>6. CASE same /\ Becomes(y, m, item(run[r].picked[m].data), None)
    BY <1>1, <1>2, <2>2, <2>3, <2>6 DEF Becomes, Loses, Types
  <2>7. CASE /\ same /\ journal[y][m] = "foreign" /\ Fault /\ Ends(r, edited, "ok")
             /\ \E data \in Data : Becomes(y, m, item(data), None)
    <3>1. z = y /\ n = m BY <1>1, <1>2, <2>7 DEF Becomes, Loses, Types
    <3>2. run'[r].blind
      <4>1. run'[r] = [edited EXCEPT !.code = "ok"] BY <1>1, <2>7 DEF Ends, Types
      <4>2. edited \in Run BY <1>2 DEF edited, Run
      <4> QED BY <2>4, <4>1, <4>2 DEF Run
    <3> QED BY <2>1, <2>7, <3>1, <3>2 DEF Excused
  <2> QED BY <2>5, <2>6, <2>7
<1> QED BY <1>3, <1>5, <1>6, <1>7, <1>8, <1>9, <1>10, <1>11
    DEF Handles, LookAtUpload, LookAtTransfer, NoName, ListVictims, Retained, Unstage, Confirm, Removed, ReadForeign, Register

(* Whatever a step loses is excused.                                        *)
LEMMA LossExcused ==
  ASSUME TransferInv, [Next]_vars, NEW z \in Zone, NEW n \in Name, Loses(z, n)
  PROVE  Excused(z, n)
<1>1. ~UNCHANGED items BY DEF items, Loses
<1>2. CASE Around BY <1>2, AroundExcused DEF TransferInv
<1>3. ASSUME NEW r \in Request, Handles(r) PROVE Excused(z, n) BY <1>3, HandlesExcused
<1>4. \A r \in Request : ~(Begin(r) \/ Refuse(r) \/ Collect(r) \/ GiveUp(r) \/ Enter(r) \/ Measure(r) \/ Die(r))
  BY <1>1 DEF Begin, Refuse, Collect, GiveUp, Enter, Measure, Die
<1>5. ~UNCHANGED vars BY <1>1 DEF vars, items
<1> QED BY <1>2, <1>3, <1>4, <1>5, NextCases

(* service.py, upload_spooled() to rename(), and retention: an item         *)
(* disappears or changes its content only by a request that is entitled to  *)
(* it -- it was asked to delete, rename or replace it, or moves it and the  *)
(* target shows the same content or hides it behind a marker that could not *)
(* be read, or the zone has more than it retains, of which an unread marker *)
(* may hide a part --, by the completion of a deletion that had been asked  *)
(* for, or by an external process; no request touches a file that is not an *)
(* item.  Whatever a listing has passed over is in Entitled.                *)
THEOREM ItemsNotLost == Spec => NothingLost
<1>1. TransferInv /\ [Next]_vars =>
        \A z \in Zone, n \in Name :
          held[z][n] # None /\ (held'[z][n] = None \/ held'[z][n].data # held[z][n].data) =>
            \/ journal[z][n] = "deleting" \/ journal'[z][n] = "orphan"
            \/ /\ journal[z][n] = "foreign"
               /\ UNCHANGED at \/ \E r \in Request : at[r] = "publishing" /\ run'[r].blind /\ Fault
            \/ journal[z][n] # "foreign" /\ \E r \in Request : Inside(r) /\ Entitled(r, z, n)
  BY LossExcused DEF Loses, Excused
<1> QED BY <1>1, TransferInvInit, TransferInvStep, PTL DEF Spec, NothingLost

-----------------------------------------------------------------------------
(* Answers. *)

(* What each request relies on to say the truth at its end. *)
FailedNames(s) == {f[1] : f \in s.bad}
FreshOK(r) ==
  at[r] \in {"new", "waiting", "looking", "measuring"} =>
    run[r].good = {} /\ run[r].bad = {} /\ run[r].dropped = {} /\ run[r].evicted = {}
UploadOK(r) ==
  order[r].op = "upload" /\ at[r] \in {"retaining", "evicting", "unstaging"} =>
    run[r].doing \in Name /\ Holds(order[r].zone, run[r].doing, order[r].data)
WithinOK(r) ==
  \A z \in Zone : z = Target(r) =>
    /\ at[r] = "evicting" =>
         /\ run[r].doing \notin run[r].victims
         /\ ~run[r].stuck /\ ~run[r].blind => Cardinality(Shown(z) \ run[r].victims) <= Retain[z]
    /\ \/ at[r] = "unstaging"
       \/ Transfers(r) /\ at[r] \in {"saving", "removing"} /\ run[r].kept # {} /\ run[r].bad = {}
       => run[r].blind \/ Cardinality(Shown(z)) <= Retain[z]
DroppedOK(r) ==
  Transfers(r) /\ at[r] \in Saves \union {"removing"} =>
    (run[r].dropped \union run[r].evicted) \intersect Shown(order[r].to) \subseteq order[r].names
ListedOK(r) ==
  /\ Transfers(r) /\ at[r] \in Saves =>
       run[r].good = {} /\ order[r].names = run[r].left \union run[r].kept \union FailedNames(run[r])
  /\ at[r] = "removing" =>
       /\ order[r].names = run[r].left \union run[r].good \union FailedNames(run[r])
       /\ run[r].left \union run[r].good \subseteq run[r].kept
  /\ at[r] = "deleting" =>
       /\ order[r].names = run[r].left \union run[r].good \union FailedNames(run[r])
       /\ run[r].left \intersect (run[r].good \union FailedNames(run[r])) = {}
       /\ run[r].good \intersect FailedNames(run[r]) = {}
DoneOK(r) ==
  /\ at[r] = "removing" =>
       /\ \A n \in run[r].good : HasSeen(r, order[r].to, n, run[r].picked[n]) /\ Gone(order[r].zone, n)
       /\ \A n \in FailedNames(run[r]) \ run[r].good : SourceOK(r, n)
  /\ at[r] = "deleting" => \A n \in run[r].good : Gone(order[r].zone, n)
AnswerOK(r) ==
  FreshOK(r) /\ UploadOK(r) /\ WithinOK(r) /\ DroppedOK(r) /\ ListedOK(r) /\ DoneOK(r)
AnswersOK == \A r \in Request : AnswerOK(r)

(* Of two items one is newer.                                               *)
LEMMA NewerTotal ==
  ASSUME Types, NEW z \in Zone, NEW L \in Listing(z), NEW m \in L, NEW n \in L, m # n, ~Newer(z, n, m)
  PROVE  Newer(z, m, n)
<1>1. \A i \in L : i \in Nat /\ held[z][i].created \in Nat
  <2> SUFFICES ASSUME NEW i \in L PROVE i \in Nat /\ held[z][i].created \in Nat OBVIOUS
  <2>1. i \in Name /\ held[z][i] # None BY DEF Listing, Shown, Hidden
  <2>2. held[z][i] \in Item BY <2>1 DEF Types
  <2> QED BY <2>1, <2>2, SetsAssumption DEF Item
<1> QED BY <1>1 DEF Newer

(* The names that fail together are added to those that failed.             *)
LEMMA ConfirmedNames ==
  ASSUME NEW s, NEW t, NEW S, t.bad = s.bad \union {<<n, TRUE>> : n \in S}
  PROVE  FailedNames(t) = FailedNames(s) \union S
<1>1. \A n : n \in S => <<n, TRUE>> \in t.bad /\ <<n, TRUE>>[1] = n OBVIOUS
<1>2. \A f \in t.bad : f \in s.bad \/ \E n \in S : f = <<n, TRUE>> OBVIOUS
<1>3. \A f \in s.bad : f \in t.bad OBVIOUS
<1>4. FailedNames(s) \union S \subseteq FailedNames(t)
  <2>1. S \subseteq FailedNames(t)
    <3> SUFFICES ASSUME NEW n \in S PROVE n \in FailedNames(t) OBVIOUS
    <3> QED BY <1>1, Zenon DEF FailedNames
  <2>2. FailedNames(s) \subseteq FailedNames(t) BY <1>3, Zenon DEF FailedNames
  <2> QED BY <2>1, <2>2
<1>5. FailedNames(t) \subseteq FailedNames(s) \union S
  <2> SUFFICES ASSUME NEW f \in t.bad PROVE f[1] \in FailedNames(s) \union S BY DEF FailedNames
  <2>1. CASE f \in s.bad BY <2>1 DEF FailedNames
  <2>2. CASE \E n \in S : f = <<n, TRUE>> BY <2>2
  <2> QED BY <1>2, <2>1, <2>2
<1> QED BY <1>4, <1>5

(* A failure adds its name to them.                                         *)
LEMMA FailedGrows ==
  ASSUME NEW s \in Run, NEW n \in Name, NEW published \in BOOLEAN, NEW t, t.bad = s.bad \union {<<n, published>>}
  PROVE  FailedNames(t) = FailedNames(s) \union {n} /\ t.bad # {}
<1>1. <<n, published>> \in t.bad /\ \A f \in t.bad : f \in s.bad \/ f = <<n, published>> OBVIOUS
<1>2. FailedNames(s) \union {n} \subseteq FailedNames(t)
  <2>1. <<n, published>>[1] = n OBVIOUS
  <2> QED BY <1>1, <2>1 DEF FailedNames
<1>3. FailedNames(t) \subseteq FailedNames(s) \union {n} BY <1>1 DEF FailedNames
<1> QED BY <1>1, <1>2, <1>3

(* They are names.                                                          *)
LEMMA FailedNamed == ASSUME NEW s \in Run PROVE FailedNames(s) \subseteq Name
BY DEF FailedNames, Run

(* A smaller set of names stays below the same bound.                       *)
LEMMA FewerNames ==
  ASSUME NEW A \in SUBSET Name, NEW B \in SUBSET Name, A \subseteq B, NEW k \in Nat, Cardinality(B) <= k
  PROVE  Cardinality(A) <= k
<1>1. Cardinality(A) <= Cardinality(B) /\ Cardinality(A) \in Nat /\ Cardinality(B) \in Nat BY NamesFinite, FS_Subset
<1> QED BY <1>1

(* Among the items that are no victims all are newer than the oldest one:   *)
(* what is left when all victims are gone is no more than the zone retains. *)
LEMMA VictimsEnough ==
  ASSUME Types, NEW z \in Zone, NEW saved, NEW L \in Listing(z)
  PROVE  Cardinality(L \ Victims(z, saved, L)) <= Retain[z]
<1> DEFINE others == L \ {saved}
           room == IF saved \in L THEN Retain[z] - 1 ELSE Retain[z]
           N(n) == {m \in others : Newer(z, m, n)}
           V == Victims(z, saved, L)
           W == others \ V
           Older(n) == {m \in W : Newer(z, n, m)}
           K == {Cardinality(Older(n)) : n \in W}
<1>1. L \in SUBSET Name /\ others \in SUBSET Name /\ W \in SUBSET Name /\ V \subseteq others
  BY ListingNames DEF Victims
<1>2. room \in Nat /\ Retain[z] \in Nat /\ Retain[z] = IF saved \in L THEN room + 1 ELSE room
  BY LimitsAssumption
<1>3. Cardinality(W) <= room /\ IsFiniteSet(W) /\ Cardinality(W) \in Nat
  <2>1. IsFiniteSet(W) /\ Cardinality(W) \in Nat
    <3> HIDE DEF W
    <3> QED BY <1>1, NamesFinite
  <2>2. CASE W = {}
    <3> HIDE DEF W, room
    <3> QED BY <1>2, <2>1, <2>2, FS_EmptySet
  <2>3. CASE W # {}
    <3>1. \A n \in W : IsFiniteSet(Older(n)) /\ Cardinality(Older(n)) \in Nat
      <4> SUFFICES ASSUME NEW n \in W PROVE IsFiniteSet(Older(n)) /\ Cardinality(Older(n)) \in Nat OBVIOUS
      <4>1. Older(n) \in SUBSET Name BY <1>1
      <4> HIDE DEF Older
      <4> QED BY <4>1, NamesFinite
    <3>2. K \in SUBSET Nat /\ K # {}
      <4> HIDE DEF Older
      <4> QED BY <2>3, <3>1
    <3>3. PICK k \in K : \A j \in K : k <= j
      <4> HIDE DEF K
      <4> QED BY <3>2, LeastOf
    <3>4. PICK w \in W : Cardinality(Older(w)) = k OBVIOUS
    <3>5. Older(w) = {}
      <4> SUFFICES ASSUME NEW m \in Older(w) PROVE FALSE OBVIOUS
      <4>1. Older(m) \subseteq Older(w) \ {m}
        <5> SUFFICES ASSUME NEW l \in Older(m) PROVE l \in Older(w) /\ l # m OBVIOUS
        <5>1. l \in L /\ m \in L /\ w \in L /\ l \in W OBVIOUS
        <5>2. Newer(z, w, m) /\ Newer(z, m, l) OBVIOUS
        <5> QED BY <5>1, <5>2, NewerOrder
      <4>2. m \in W OBVIOUS
      <4>3. IsFiniteSet(Older(w)) /\ Cardinality(Older(w)) \in Nat /\ Cardinality(Older(m)) \in Nat BY <3>1, <4>2
      <4>4. Cardinality(Older(m)) \in K BY <4>2
      <4> HIDE DEF Older, K, W
      <4>5. IsFiniteSet(Older(w) \ {m}) /\ Cardinality(Older(w) \ {m}) = Cardinality(Older(w)) - 1
        BY <4>3, FS_RemoveElement
      <4>6. Cardinality(Older(m)) <= Cardinality(Older(w) \ {m}) BY <4>1, <4>5, FS_Subset
      <4>7. k <= Cardinality(Older(m)) BY <3>3, <4>4
      <4> QED BY <3>4, <4>3, <4>5, <4>6, <4>7
    <3>6. W \ {w} \subseteq N(w)
      <4> SUFFICES ASSUME NEW m \in W, m # w PROVE Newer(z, m, w) OBVIOUS
      <4>1. m \in L /\ w \in L /\ ~Newer(z, w, m) BY <3>5
      <4> QED BY <4>1, NewerTotal
    <3>7. N(w) \in SUBSET Name /\ w \in others \ V BY <1>1
    <3>8. ~(Cardinality(N(w)) >= room) BY <3>7 DEF Victims
    <3> HIDE DEF N, W, V, others, room
    <3>9. IsFiniteSet(N(w)) /\ Cardinality(N(w)) \in Nat BY <3>7, NamesFinite
    <3>10. Cardinality(W \ {w}) <= Cardinality(N(w)) BY <3>6, <3>9, FS_Subset
    <3>11. Cardinality(W \ {w}) = Cardinality(W) - 1 BY <2>1, FS_RemoveElement
    <3> QED BY <1>2, <2>1, <3>8, <3>9, <3>10, <3>11
  <2> QED BY <2>1, <2>2, <2>3
<1>4. CASE saved \in L
  <2>1. L \ V = W \union {saved} /\ saved \notin W BY <1>1, <1>4
  <2> HIDE DEF W, V, room
  <2>2. Cardinality(W \union {saved}) = Cardinality(W) + 1 BY <1>3, <2>1, FS_AddElement
  <2> QED BY <1>2, <1>3, <1>4, <2>1, <2>2 DEF V
<1>5. CASE saved \notin L
  <2>1. L \ V = W BY <1>5
  <2> HIDE DEF W, V, room
  <2> QED BY <1>2, <1>3, <1>5, <2>1 DEF V
<1> QED BY <1>4, <1>5

(* A request at a point that promises nothing. *)
LEMMA AnswerIdle ==
  ASSUME NEW r \in Request, at'[r] \in {"ended", "dead", "closed", "amending", "registering", "publishing"}
  PROVE  AnswerOK(r)'
BY DEF AnswerOK, FreshOK, UploadOK, WithinOK, DroppedOK, ListedOK, DoneOK, Saves

(* What stays true of the items of a zone whose lock another request holds. *)
LEMMA FadesFacts ==
  ASSUME Types, NEW z \in Zone, Fades(z)
  PROVE  /\ Shown(z)' \subseteq Shown(z)
         /\ \A n \in Name : /\ journal[z][n] = "orphan" => journal'[z][n] = "orphan"
                            /\ held[z][n] = None => held'[z][n] = None
                            /\ n \in Hidden(z) => n \in Hidden(z)' /\ held'[z][n] = held[z][n]
                            /\ n \in Shown(z) => \/ n \in Shown(z)' /\ held'[z][n] = held[z][n]
                                                 \/ journal'[z][n] = "orphan"
BY NoneApart DEF Fades, Same, Shown, Hidden, Mark

(* A source that fades stays the one that was read, or is gone.             *)
LEMMA FadesSource ==
  ASSUME Types, NEW r \in Request, NEW n \in Name, SourceOK(r, n), SameOrders, run'[r] = run[r], Fades(order[r].zone)
  PROVE  SourceOK(r, n)'
BY NoneApart DEF SameOrders, Fades, Same, SourceOK, Mark

(* Items that only fade leave a true answer true.                           *)
LEMMA AnswerFades ==
  ASSUME Types, NEW r \in Request, AnswerOK(r), PointOK(r), SameOrders,
         at'[r] = at[r], run'[r] = run[r], Inside(r) => \A z \in Zones(r) : Fades(z)
  PROVE  AnswerOK(r)'
<1>1. /\ order[r].zone \in Zones(r) /\ Target(r) \in Zones(r) /\ (Transfers(r) => order[r].to \in Zones(r))
      /\ Zones(r) \subseteq Zone /\ order[r].names \subseteq Name /\ run[r] \in Run
  BY OrderTyped DEF Zones, Target
<1>2. /\ Target(r)' = Target(r) /\ Transfers(r)' = Transfers(r) /\ order'[r].op = order[r].op
      /\ order'[r].zone = order[r].zone /\ order'[r].to = order[r].to /\ order'[r].names = order[r].names
      /\ order'[r].data = order[r].data
  BY SameOrdersOK DEF SameOrders
<1>3. CASE ~Inside(r)
  <2>1. at[r] \in {"new", "waiting", "ended", "dead", "closed"} BY <1>3 DEF Inside
  <2> QED BY <2>1 DEF AnswerOK, FreshOK, UploadOK, WithinOK, DroppedOK, ListedOK, DoneOK, Saves
<1>4. CASE Inside(r)
  <2>0. \A z \in Zones(r) : Fades(z) BY <1>4
  <2>1. \A z \in Zones(r) :
          /\ Shown(z)' \subseteq Shown(z)
          /\ \A n \in Name : /\ journal[z][n] = "orphan" => journal'[z][n] = "orphan"
                             /\ held[z][n] = None => held'[z][n] = None
                             /\ n \in Hidden(z) => n \in Hidden(z)' /\ held'[z][n] = held[z][n]
                             /\ n \in Shown(z) => \/ n \in Shown(z)' /\ held'[z][n] = held[z][n]
                                                  \/ journal'[z][n] = "orphan"
    BY <1>1, <2>0, FadesFacts
  <2>2. FreshOK(r)' BY DEF AnswerOK, FreshOK
  <2>3. UploadOK(r)' BY <1>1, <1>2, <2>1 DEF AnswerOK, UploadOK, Holds
  <2>4. WithinOK(r)'
    <3> SUFFICES ASSUME NEW z \in Zone, z = Target(r)
                 PROVE  /\ at[r] = "evicting" =>
                             /\ run[r].doing \notin run[r].victims
                             /\ ~run[r].stuck /\ ~run[r].blind => Cardinality(Shown(z)' \ run[r].victims) <= Retain[z]
                        /\ \/ at[r] = "unstaging"
                           \/ /\ Transfers(r) /\ at[r] \in {"saving", "removing"}
                              /\ run[r].kept # {} /\ run[r].bad = {}
                           => run[r].blind \/ Cardinality(Shown(z)') <= Retain[z]
      BY <1>2 DEF WithinOK
    <3>1. Shown(z) \in SUBSET Name /\ Shown(z)' \subseteq Shown(z) BY <1>1, <2>1, ShownNames
    <3>2. Shown(z)' \in SUBSET Name /\ Shown(z)' \ run[r].victims \in SUBSET Name
          /\ Shown(z) \ run[r].victims \in SUBSET Name /\ Shown(z)' \ run[r].victims \subseteq Shown(z) \ run[r].victims
      BY <3>1
    <3>3. Retain[z] \in Nat BY LimitsAssumption
    <3>4. Cardinality(Shown(z) \ run[r].victims) <= Retain[z] => Cardinality(Shown(z)' \ run[r].victims) <= Retain[z]
      BY <3>2, <3>3, FewerNames
    <3>5. Cardinality(Shown(z)) <= Retain[z] => Cardinality(Shown(z)') <= Retain[z] BY <3>1, <3>2, <3>3, FewerNames
    <3> QED BY <3>4, <3>5 DEF AnswerOK, WithinOK
  <2>5. DroppedOK(r)' BY <1>1, <1>2, <2>1 DEF AnswerOK, DroppedOK
  <2>6. ListedOK(r)' BY <1>2 DEF AnswerOK, ListedOK
  <2>7. DoneOK(r)'
    <3>1. run[r].good \subseteq Name /\ FailedNames(run[r]) \subseteq Name BY <1>1, FailedNamed DEF Run
    <3>2. at[r] = "removing" => Transfers(r) BY DEF PointOK, Transfers
    <3>3. FailedNames(run'[r]) = FailedNames(run[r]) OBVIOUS
    <3>4. ASSUME NEW n \in Name, SourceOK(r, n) PROVE SourceOK(r, n)' BY <1>1, <2>0, <3>4, FadesSource
    <3>5. ASSUME NEW n \in Name, HasSeen(r, order[r].to, n, run[r].picked[n]), Transfers(r)
          PROVE  HasSeen(r, order[r].to, n, run[r].picked[n])'
      BY <1>1, <1>2, <2>1, <3>5 DEF HasSeen, Seen
    <3>6. ASSUME NEW n \in Name, Gone(order[r].zone, n) PROVE Gone(order[r].zone, n)' BY <1>1, <1>2, <2>1, <3>6 DEF Gone
    <3> QED BY <1>2, <3>1, <3>2, <3>3, <3>4, <3>5, <3>6 DEF AnswerOK, DoneOK
  <2> QED BY <2>2, <2>3, <2>4, <2>5, <2>6, <2>7 DEF AnswerOK
<1> QED BY <1>3, <1>4

(* What goes wrong with one name is in the answer. *)
LEMMA FailsAnswer ==
  ASSUME Base, NEW r \in Request, AnswerOK(r), NEW n \in Name, NEW published \in BOOLEAN, NEW code,
         at[r] \in Saves, Fails(r, n, published, code), order' = order,
         Transfers(r) => n \in run[r].left /\ Shown(order[r].to)' \subseteq Shown(order[r].to) \union order[r].names
  PROVE  AnswerOK(r)'
<1>1. Types /\ run[r] \in Run BY TypesParts, OrderTyped DEF Base
<1>2. CASE Transfers(r)
  <2> DEFINE s == [run[r] EXCEPT !.left = @ \ {n}, !.bad = @ \union {<<n, published>>}]
  <2>1. at'[r] = "saving" /\ run'[r] = s BY <1>1, <1>2 DEF Fails, Continues, Goes, Types
  <2>2. /\ s.left = run[r].left \ {n} /\ s.bad = run[r].bad \union {<<n, published>>} /\ s.kept = run[r].kept
        /\ s.good = run[r].good /\ s.dropped = run[r].dropped /\ s.evicted = run[r].evicted
    BY <1>1 DEF Run
  <2> HIDE DEF s
  <2>3. FailedNames(s) = FailedNames(run[r]) \union {n} /\ s.bad # {} BY <1>1, <2>2, FailedGrows
  <2>4. ListedOK(r) /\ DroppedOK(r) /\ order[r].op # "upload" BY <1>2 DEF AnswerOK, Transfers
  <2>5. ListedOK(r)' BY <1>2, <2>1, <2>2, <2>3, <2>4 DEF ListedOK, Transfers
  <2>6. DroppedOK(r)'
    <3>1. (run[r].dropped \union run[r].evicted) \intersect Shown(order[r].to) \subseteq order[r].names
      BY <1>2, <2>4 DEF DroppedOK
    <3> QED BY <1>2, <2>1, <2>2, <3>1 DEF DroppedOK
  <2>7. FreshOK(r)' /\ UploadOK(r)' /\ WithinOK(r)' /\ DoneOK(r)'
    BY <2>1, <2>2, <2>3, <2>4 DEF FreshOK, UploadOK, WithinOK, DoneOK
  <2> QED BY <2>5, <2>6, <2>7 DEF AnswerOK
<1>3. CASE ~Transfers(r)
  <2>1. at'[r] = "ended" BY <1>1, <1>3 DEF Fails, Ends, Goes, Types
  <2> QED BY <2>1, AnswerIdle
<1> QED BY <1>2, <1>3

(* What a save publishes is what the request is for. *)
LEMMA SaveAnswer ==
  ASSUME Base, NEW r \in Request, AnswerOK(r), NEW n \in Name, Save(r, n)
  PROVE  AnswerOK(r)'
<1>0. Target(r) \in Zone BY TypesParts, OrderTyped DEF Base
<1> PICK z \in Zone : z = Target(r) BY <1>0
<1> DEFINE item == Incoming(r, n)
           verdict == Availability(z, n, n \in order[r].replace)
           s == [run[r] EXCEPT !.doing = n]
<1>1. Types /\ PointOK(r) /\ run[r] \in Run /\ order' = order /\ at[r] = "saving"
  BY TypesParts, OrderTyped DEF Base, PointsOK, Save
<1>2. Transfers(r) => n \in run[r].left /\ n \in order[r].names /\ z = order[r].to
  BY <1>1 DEF Save, Choices, Unnamed, Transfers, PointOK, Inside, Target
<1>3. UNCHANGED items \/ Touches(z, n, item) BY DEF Save, Touches
<1>4. Shown(z)' \subseteq Shown(z) \union {n}
  <2>1. \A m \in Name \ {n} : Same(z, m)
    <3>1. UNCHANGED items => \A m \in Name : Same(z, m) BY DEF items, Same
    <3> HIDE DEF item
    <3> QED BY <1>1, <1>3, <3>1, TouchesElsewhere
  <2> QED BY <2>1 DEF Same, Shown
<1>5. Transfers(r) => Shown(order[r].to)' \subseteq Shown(order[r].to) \union order[r].names
  BY <1>1, <1>2, <1>4
<1>6. \/ Fails(r, n, FALSE, verdict) \/ Fails(r, n, FALSE, "destination_error")
      \/ Changes(z, n, item) /\ Continues(r, "retaining", s) /\ item # None
  BY DEF Save
<1>7. CASE Fails(r, n, FALSE, verdict) \/ Fails(r, n, FALSE, "destination_error")
  <2>1. PICK code : Fails(r, n, FALSE, code) BY <1>7
  <2>2. at[r] \in Saves /\ FALSE \in BOOLEAN BY <1>1 DEF Saves
  <2> QED BY <1>1, <1>2, <1>5, <2>1, <2>2, FailsAnswer
<1>8. CASE Changes(z, n, item) /\ Continues(r, "retaining", s) /\ item # None
  <2>1. at'[r] = "retaining" /\ run'[r] = s BY <1>1, <1>8 DEF Continues, Goes, Types
  <2>2. /\ s.left = run[r].left /\ s.bad = run[r].bad /\ s.kept = run[r].kept /\ s.doing = n
        /\ s.good = run[r].good /\ s.dropped = run[r].dropped /\ s.evicted = run[r].evicted
    BY <1>1 DEF Run
  <2>3. FailedNames(s) = FailedNames(run[r]) BY <2>2 DEF FailedNames
  <2> HIDE DEF s
  <2>4. UploadOK(r)'
    <3> SUFFICES ASSUME order[r].op = "upload" PROVE Holds(z, n, order[r].data)'
      BY <1>1, <2>1, <2>2 DEF UploadOK, Target, Transfers
    <3>1. item.data = order[r].data BY DEF Incoming, Transfers
    <3> HIDE DEF item
    <3>2. held'[z][n] = item /\ journal'[z][n] \in {None, "committed"} BY <1>1, <1>8 DEF Changes, Becomes, Types
    <3> QED BY <1>1, <1>8, <3>1, <3>2 DEF Holds, Shown
  <2>5. ListedOK(r)' BY <1>1, <2>1, <2>2, <2>3 DEF AnswerOK, ListedOK, Transfers, Saves
  <2>6. DroppedOK(r)'
    <3> SUFFICES ASSUME Transfers(r)
                 PROVE  (run[r].dropped \union run[r].evicted) \intersect Shown(order[r].to)' \subseteq order[r].names
      BY <1>1, <2>1, <2>2 DEF DroppedOK, Transfers
    <3>1. (run[r].dropped \union run[r].evicted) \intersect Shown(order[r].to) \subseteq order[r].names
      BY <1>1 DEF AnswerOK, DroppedOK, Saves
    <3> QED BY <1>5, <3>1
  <2>7. FreshOK(r)' /\ WithinOK(r)' /\ DoneOK(r)'
    BY <2>1 DEF FreshOK, WithinOK, DoneOK
  <2> QED BY <2>4, <2>5, <2>6, <2>7 DEF AnswerOK
<1> QED BY <1>6, <1>7, <1>8

(* Retention: what it has listed, deleted and left. *)
LEMMA RetainAnswer ==
  ASSUME Base, NEW r \in Request, AnswerOK(r), ListVictims(r) \/ Retained(r)
  PROVE  AnswerOK(r)'
<1>0. Target(r) \in Zone BY TypesParts, OrderTyped DEF Base
<1> PICK z \in Zone : z = Target(r) BY <1>0
<1>1. /\ Types /\ PointOK(r) /\ run[r] \in Run /\ order' = order /\ UNCHANGED items
      /\ at[r] \in {"retaining", "evicting"} /\ Retain[z] \in Nat
  BY TypesParts, OrderTyped, LimitsAssumption DEF Base, PointsOK, ListVictims, Retained
<1>11. run[r].doing \in Name BY <1>1 DEF PointOK
<1> PICK d \in Name : d = run[r].doing BY <1>11
<1>2. d \in Name /\ (Transfers(r) => d \in run[r].left /\ d \in order[r].names /\ z = order[r].to)
  BY <1>1 DEF PointOK, Inside, Target, Saves
<1>3. Shown(z)' = Shown(z) /\ (Transfers(r) => Shown(order[r].to)' = Shown(order[r].to)) BY <1>1 DEF Shown, items
<1>4. Target(r)' = Target(r) /\ Transfers(r)' = Transfers(r) BY <1>1 DEF Target, Transfers
<1>5. CASE \E code : Fails(r, d, TRUE, code)
  <2>1. PICK code : Fails(r, d, TRUE, code) BY <1>5
  <2>2. at[r] \in Saves /\ TRUE \in BOOLEAN BY <1>1 DEF Saves
  <2> QED BY <1>1, <1>2, <1>3, <2>1, <2>2, FailsAnswer
<1>6. order[r].op = "upload" => Holds(order[r].zone, d, order[r].data)'
  BY <1>1 DEF AnswerOK, UploadOK, Holds, Shown, items
<1>7. Transfers(r) => (run[r].dropped \union run[r].evicted) \intersect Shown(z) \subseteq order[r].names
  BY <1>1, <1>2 DEF AnswerOK, DroppedOK, Saves
<1>8. Transfers(r) => run[r].good = {} /\ order[r].names = run[r].left \union run[r].kept \union FailedNames(run[r])
  BY <1>1 DEF AnswerOK, ListedOK, Saves
<1>9. CASE ListVictims(r) /\ ~\E code : Fails(r, d, TRUE, code)
  <2>1. PICK L \in Listing(z) : Continues(r, "evicting", Listed(r, L)) BY <1>9, ListsVictims
  <2>2. at'[r] = "evicting" /\ run'[r] = Listed(r, L) BY <1>1, <2>1 DEF Continues, Goes, Types
  <2>3. /\ run'[r].left = run[r].left /\ run'[r].bad = run[r].bad /\ run'[r].kept = run[r].kept /\ run'[r].doing = d
        /\ run'[r].good = run[r].good /\ run'[r].dropped = run[r].dropped /\ run'[r].evicted = {}
        /\ run'[r].victims = Victims(z, d, L) /\ (run'[r].blind <=> run[r].blind \/ L # Shown(z))
    BY <1>1, <2>2, ListedRun DEF SameBut
  <2>4. FailedNames(run'[r]) = FailedNames(run[r]) BY <2>3 DEF FailedNames
  <2>5. UploadOK(r)' BY <1>1, <1>2, <1>6, <2>2, <2>3 DEF UploadOK
  <2>6. WithinOK(r)'
    <3>1. d \notin Victims(z, d, L) BY DEF Victims
    <3>2. Cardinality(L \ Victims(z, d, L)) <= Retain[z] BY <1>1, VictimsEnough
    <3>3. ~run'[r].blind => Cardinality(Shown(z)' \ run'[r].victims) <= Retain[z] BY <1>3, <2>3, <3>2
    <3> QED BY <1>4, <2>2, <2>3, <3>1, <3>3 DEF WithinOK
  <2>7. ListedOK(r)' BY <1>1, <1>4, <1>8, <2>2, <2>3, <2>4 DEF ListedOK, Saves
  <2>8. DroppedOK(r)' BY <1>1, <1>2, <1>3, <1>4, <1>7, <2>2, <2>3 DEF DroppedOK
  <2>9. FreshOK(r)' /\ DoneOK(r)' BY <2>2 DEF FreshOK, DoneOK
  <2> QED BY <2>5, <2>6, <2>7, <2>8, <2>9 DEF AnswerOK
<1>10. CASE Retained(r) /\ ~\E code : Fails(r, d, TRUE, code)
  <2> DEFINE s == [run[r] EXCEPT !.left = @ \ {d}, !.kept = @ \union {d}, !.dropped = @ \union run[r].evicted]
  <2>1. \/ at'[r] = "ended"
        \/ at'[r] = "saving" /\ run'[r] = s /\ Transfers(r)
        \/ at'[r] = "unstaging" /\ run'[r] = s /\ ~Transfers(r)
    <3> HIDE DEF s
    <3>1. Ends(r, s, "ok") \/ (Continues(r, "saving", s) /\ Transfers(r)) \/ (Continues(r, "unstaging", s) /\ ~Transfers(r))
      BY <1>10 DEF Retained, s
    <3> QED BY <1>1, <3>1 DEF Continues, Ends, Goes, Types
  <2>2. /\ s.left = run[r].left \ {d} /\ s.bad = run[r].bad /\ s.kept = run[r].kept \union {d} /\ s.doing = d
        /\ s.good = run[r].good /\ s.dropped = run[r].dropped \union run[r].evicted /\ s.evicted = run[r].evicted
        /\ s.blind = run[r].blind
    BY <1>1 DEF Run
  <2>3. FailedNames(s) = FailedNames(run[r]) BY <2>2 DEF FailedNames
  <2>4. run[r].blind \/ Cardinality(Shown(z)') <= Retain[z]
    <3> SUFFICES ASSUME ~run[r].blind PROVE Cardinality(Shown(z)') <= Retain[z] OBVIOUS
    <3>1. at[r] = "evicting" /\ run[r].victims = {} /\ ~run[r].stuck BY <1>10 DEF Retained
    <3>2. Cardinality(Shown(z) \ {}) <= Retain[z] BY <3>1 DEF AnswerOK, WithinOK
    <3>3. Shown(z) \ {} = Shown(z) OBVIOUS
    <3> QED BY <1>3, <3>2, <3>3
  <2> HIDE DEF s
  <2>5. CASE at'[r] = "ended" BY <2>5, AnswerIdle
  <2>6. CASE at'[r] = "saving" /\ run'[r] = s /\ Transfers(r)
    <3>1. UploadOK(r)' /\ FreshOK(r)' /\ DoneOK(r)'
      BY <2>6 DEF UploadOK, FreshOK, DoneOK
    <3>2. WithinOK(r)' BY <1>4, <2>2, <2>4, <2>6 DEF WithinOK
    <3>3. ListedOK(r)' BY <1>1, <1>2, <1>8, <2>2, <2>3, <2>6 DEF ListedOK
    <3>4. DroppedOK(r)' BY <1>1, <1>2, <1>3, <1>7, <2>2, <2>6 DEF DroppedOK
    <3> QED BY <3>1, <3>2, <3>3, <3>4 DEF AnswerOK
  <2>7. CASE at'[r] = "unstaging" /\ run'[r] = s /\ ~Transfers(r)
    <3>1. FreshOK(r)' /\ DoneOK(r)' /\ DroppedOK(r)' /\ ListedOK(r)'
      BY <1>4, <2>7 DEF FreshOK, DoneOK, DroppedOK, ListedOK, Saves
    <3>2. WithinOK(r)' BY <1>4, <2>2, <2>4, <2>7 DEF WithinOK
    <3>3. UploadOK(r)' BY <1>1, <1>2, <1>6, <2>2, <2>7 DEF UploadOK
    <3> QED BY <3>1, <3>2, <3>3 DEF AnswerOK
  <2> QED BY <2>1, <2>5, <2>6, <2>7
<1> QED BY <1>5, <1>9, <1>10

(* A deletion by retention keeps the answer true, ...                       *)
LEMMA EvictAnswer ==
  ASSUME Base, NEW r \in Request, AnswerOK(r), NEW n \in Name, Evict(r, n)
  PROVE  AnswerOK(r)'
<1>0. Target(r) \in Zone BY TypesParts, OrderTyped DEF Base
<1> PICK z \in Zone : z = Target(r) BY <1>0
<1> DEFINE s == [run[r] EXCEPT !.victims = @ \ {n}, !.stuck = TRUE]
           t == [run[r] EXCEPT !.victims = @ \ {n}, !.evicted = @ \union {n}]
<1>1. /\ Types /\ PointOK(r) /\ run[r] \in Run /\ order' = order /\ at[r] = "evicting" /\ n \in run[r].victims
      /\ Retain[z] \in Nat
  BY TypesParts, OrderTyped, LimitsAssumption DEF Base, PointsOK, Evict
<1>2. /\ s.left = run[r].left /\ s.bad = run[r].bad /\ s.kept = run[r].kept /\ s.doing = run[r].doing /\ s.stuck
      /\ s.good = run[r].good /\ s.dropped = run[r].dropped /\ s.evicted = run[r].evicted /\ s.victims = run[r].victims \ {n}
      /\ s.blind = run[r].blind
  BY <1>1 DEF Run
<1>3. /\ t.left = run[r].left /\ t.bad = run[r].bad /\ t.kept = run[r].kept /\ t.doing = run[r].doing
      /\ t.good = run[r].good /\ t.dropped = run[r].dropped /\ t.evicted = run[r].evicted \union {n}
      /\ t.victims = run[r].victims \ {n} /\ t.stuck = run[r].stuck /\ t.blind = run[r].blind
  BY <1>1 DEF Run
<1>4. \/ Continues(r, "evicting", s) /\ (UNCHANGED items \/ (n \in Shown(z) /\ DeleteFails(z, n)))
      \/ Continues(r, "evicting", t) /\ n \in Shown(z) /\ Changes(z, n, None)
  BY <1>1 DEF Evict, Shown
<1> HIDE DEF s, t
<1>5. at'[r] = "evicting" /\ (run'[r] = s \/ run'[r] = t) BY <1>1, <1>4 DEF Continues, Goes, Types
<1>6. FailedNames(run'[r]) = FailedNames(run[r]) BY <1>2, <1>3, <1>5 DEF FailedNames
<1>7. (\A y \in Zone, m \in Name : y # z \/ m # n => Same(y, m)) /\ (Same(z, n) \/ n \notin Shown(z)')
  BY <1>1, <1>4, DeletionAt, WanesShown
<1>8. Shown(z)' \subseteq Shown(z) /\ Shown(z) \in SUBSET Name BY <1>7, ShownNames DEF Same, Shown
<1>9. Target(r)' = Target(r) /\ Transfers(r)' = Transfers(r) BY <1>1 DEF Target, Transfers
<1>10. ~run'[r].stuck => run'[r] = t /\ ~run[r].stuck /\ n \notin Shown(z)'
  <2>1. run'[r] = t => Continues(r, "evicting", s) \/ n \notin Shown(z)'
    BY <1>1, <1>4 DEF Changes, Becomes, Shown, Types
  <2>2. Continues(r, "evicting", s) => run'[r] = s BY <1>1 DEF Continues, Types
  <2> QED BY <1>2, <1>3, <1>5, <2>1, <2>2
<1>11. UploadOK(r)'
  <2> SUFFICES ASSUME order[r].op = "upload"
               PROVE  Holds(order[r].zone, run[r].doing, order[r].data)' /\ run[r].doing \in Name
    BY <1>1, <1>2, <1>3, <1>5 DEF UploadOK, Holds
  <2>1. Holds(order[r].zone, run[r].doing, order[r].data) /\ run[r].doing \in Name /\ run[r].doing # n /\ order[r].zone = z
    BY <1>1 DEF AnswerOK, UploadOK, WithinOK, Target, Transfers
  <2>2. Same(z, run[r].doing) BY <1>7, <2>1
  <2>3. run'[r].doing = run[r].doing BY <1>2, <1>3, <1>5
  <2> QED BY <1>1, <2>1, <2>2, <2>3 DEF Holds, Same, Shown
<1>12. WithinOK(r)'
  <2>1. run[r].doing \notin run[r].victims /\ (~run[r].stuck /\ ~run[r].blind => Cardinality(Shown(z) \ run[r].victims) <= Retain[z])
    BY <1>1 DEF AnswerOK, WithinOK
  <2>2. run'[r].doing \notin run'[r].victims /\ run'[r].blind = run[r].blind BY <1>2, <1>3, <1>5, <2>1
  <2>3. ASSUME ~run'[r].stuck, ~run'[r].blind PROVE Cardinality(Shown(z)' \ run'[r].victims) <= Retain[z]
    <3>1. Shown(z)' \ run'[r].victims \subseteq Shown(z) \ run[r].victims BY <1>3, <1>8, <1>10, <2>3
    <3>2. Shown(z)' \ run'[r].victims \in SUBSET Name /\ Shown(z) \ run[r].victims \in SUBSET Name BY <1>8
    <3> QED BY <1>1, <1>10, <2>1, <2>2, <2>3, <3>1, <3>2, FewerNames
  <2> QED BY <1>5, <1>9, <2>2, <2>3 DEF WithinOK
<1>13. DroppedOK(r)'
  <2> SUFFICES ASSUME Transfers(r)
               PROVE  (run'[r].dropped \union run'[r].evicted) \intersect Shown(z)' \subseteq order[r].names
    BY <1>1, <1>9 DEF DroppedOK, Target
  <2>1. (run[r].dropped \union run[r].evicted) \intersect Shown(z) \subseteq order[r].names
    BY <1>1 DEF AnswerOK, DroppedOK, Saves, Target
  <2>2. run'[r].dropped = run[r].dropped /\ (run'[r].evicted = run[r].evicted \/ run'[r] = t) BY <1>2, <1>3, <1>5
  <2>3. run'[r].evicted = run[r].evicted
        \/ (run'[r].evicted = run[r].evicted \union {n} /\ n \notin Shown(z)')
    <3>1. Continues(r, "evicting", s) => run'[r] = s BY <1>1 DEF Continues, Types
    <3>2. Changes(z, n, None) => n \notin Shown(z)' BY <1>1 DEF Changes, Becomes, Shown, Types
    <3> QED BY <1>2, <1>3, <1>4, <1>5, <3>1, <3>2
  <2> QED BY <1>8, <2>1, <2>2, <2>3
<1>14. ListedOK(r)' BY <1>1, <1>2, <1>3, <1>5, <1>6, <1>9 DEF AnswerOK, ListedOK, Saves
<1>15. FreshOK(r)' /\ DoneOK(r)' BY <1>5 DEF FreshOK, DoneOK
<1> QED BY <1>11, <1>12, <1>13, <1>14, <1>15 DEF AnswerOK

(* The end of a transfer: what is not in the target any more has failed.    *)
LEMMA ConfirmAnswer ==
  ASSUME Base, NEW r \in Request, AnswerOK(r), TransferOK(r), Confirm(r)
  PROVE  AnswerOK(r)'
<1>1. /\ Types /\ PointOK(r) /\ run[r] \in Run /\ order' = order /\ UNCHANGED items
      /\ at[r] = "saving" /\ Transfers(r) /\ run[r].left = {}
  BY TypesParts, OrderTyped, Confirms DEF Base, PointsOK
<1>2. \/ at'[r] = "ended"
      \/ order[r].op = "move" /\ \E L \in Listing(order[r].to) : at'[r] = "removing" /\ run'[r] = ToRemove(r, L)
  BY <1>1, Confirms DEF Continues, Ends, Goes, Types
<1>3. CASE at'[r] = "ended" BY <1>3, AnswerIdle
<1>4. ASSUME order[r].op = "move", NEW L \in Listing(order[r].to), at'[r] = "removing", run'[r] = ToRemove(r, L)
      PROVE  AnswerOK(r)'
  <2> DEFINE there == run[r].kept \intersect L
             moved == ToRemove(r, L)
  <2>1. /\ moved.left = there /\ moved.bad = run[r].bad \union {<<n, TRUE>> : n \in run[r].kept \ there}
        /\ moved.kept = run[r].kept /\ moved.good = run[r].good /\ moved.dropped = run[r].dropped
        /\ moved.evicted = run[r].evicted /\ moved.picked = run[r].picked /\ (run[r].blind => moved.blind)
    <3>1. moved.left = run[r].kept \intersect L /\ moved.good = run[r].good BY <1>1, FoundRun
    <3>2. /\ moved.picked = run[r].picked /\ moved.kept = run[r].kept /\ moved.dropped = run[r].dropped
          /\ moved.evicted = run[r].evicted
      BY <1>1, FoundRun
    <3>3. moved.bad = run[r].bad \union {<<n, TRUE>> : n \in run[r].kept \ (run[r].kept \intersect L)}
      BY <1>1, FoundRun, Zenon
    <3>4. moved.blind <=> run[r].blind \/ L # Shown(order[r].to) BY <1>1, FoundRun
    <3> HIDE DEF moved
    <3> QED BY <3>1, <3>2, <3>3, <3>4
  <2>2. FailedNames(moved) = FailedNames(run[r]) \union (run[r].kept \ there)
    <3> DEFINE S == run[r].kept \ there
    <3>1. moved.bad = run[r].bad \union {<<n, TRUE>> : n \in S} BY <2>1
    <3> HIDE DEF moved, S
    <3>2. FailedNames(moved) = FailedNames(run[r]) \union S BY <3>1, ConfirmedNames
    <3> QED BY <3>2 DEF S
  <2>3. ListedOK(r) /\ WithinOK(r) /\ DroppedOK(r) BY DEF AnswerOK
  <2>4. order[r].names = run[r].kept \union FailedNames(run[r]) /\ run[r].good = {}
    BY <1>1, <2>3 DEF ListedOK, Saves
  <2>5. there \subseteq run[r].kept OBVIOUS
  <2>6. moved.bad = {} => run[r].bad = {} BY <2>1
  <2>0. run'[r] = moved BY <1>4
  <2> HIDE DEF moved, there
  <2>7. ListedOK(r)' BY <1>1, <1>4, <2>0, <2>1, <2>2, <2>4, <2>5 DEF ListedOK, Saves
  <2>8. WithinOK(r)'
    <3>1. Target(r)' = Target(r) /\ Transfers(r)' = Transfers(r) /\ \A z \in Zone : Shown(z)' = Shown(z)
      BY <1>1 DEF Target, Transfers, Shown, items
    <3> QED BY <1>1, <1>4, <2>0, <2>1, <2>3, <2>6, <3>1 DEF WithinOK
  <2>9. DroppedOK(r)' BY <1>1, <1>4, <2>0, <2>1, <2>3 DEF DroppedOK, Transfers, Shown, items, Saves
  <2>10. DoneOK(r)'
    <3>1. \A n \in FailedNames(moved) : SourceOK(r, n)
      BY <1>1, <2>2, <2>4 DEF TransferOK, Saves
    <3>2. \A n \in FailedNames(moved) : SourceOK(r, n)'
      <4> SUFFICES ASSUME NEW n \in FailedNames(moved) PROVE SourceOK(r, n)' OBVIOUS
      <4>1. SourceOK(r, n) /\ run'[r].picked = run[r].picked BY <2>0, <2>1, <3>1
      <4> QED BY <1>1, <4>1 DEF SourceOK, items
    <3> QED BY <1>4, <2>0, <2>1, <2>4, <3>2 DEF DoneOK
  <2>11. FreshOK(r)' /\ UploadOK(r)' BY <1>4 DEF FreshOK, UploadOK
  <2> QED BY <2>7, <2>8, <2>9, <2>10, <2>11 DEF AnswerOK
<1> QED BY <1>2, <1>3, <1>4

(* The sources of a move: what is done is gone there and is in the target. *)
LEMMA RemoveAnswer ==
  ASSUME Base, OrphanGone, NEW r \in Request, AnswerOK(r), TransferOK(r), NEW n \in Name, Remove(r, n)
  PROVE  AnswerOK(r)'
<1> DEFINE done == [run[r] EXCEPT !.left = @ \ {n}, !.good = @ \union {n}]
           failed == [run[r] EXCEPT !.left = @ \ {n}, !.bad = @ \union {<<n, TRUE>>}]
           gone == [failed EXCEPT !.good = @ \union {n}]
<1>1. /\ Types /\ PointOK(r) /\ run[r] \in Run /\ order' = order /\ order[r].op = "move" /\ Transfers(r)
      /\ at[r] = "removing" /\ n \in run[r].left
      /\ order[r].zone \in Zone /\ order[r].to \in Zone /\ order[r].zone # order[r].to
  <2>1. Types /\ PointOK(r) /\ OrdersOK BY TypesParts DEF Base, PointsOK
  <2>2. order[r].op = "move" BY <2>1 DEF Remove, PointOK
  <2> QED BY <2>1, <2>2, OrderTyped DEF Remove, OrdersOK, Transfers
<1> PICK z \in Zone : z = order[r].zone BY <1>1
<1> PICK to \in Zone : to = order[r].to BY <1>1
<1>2. /\ done.left = run[r].left \ {n} /\ done.good = run[r].good \union {n} /\ done.bad = run[r].bad
      /\ done.kept = run[r].kept /\ done.dropped = run[r].dropped /\ done.evicted = run[r].evicted
      /\ done.picked = run[r].picked /\ done.blind = run[r].blind
  BY <1>1 DEF Run
<1>3. /\ failed \in Run /\ failed.left = run[r].left \ {n} /\ failed.good = run[r].good
      /\ failed.bad = run[r].bad \union {<<n, TRUE>>} /\ failed.picked = run[r].picked
      /\ failed.kept = run[r].kept /\ failed.dropped = run[r].dropped /\ failed.evicted = run[r].evicted
      /\ failed.blind = run[r].blind
  <2>1. failed \in Run BY <1>1, FailedTyped
  <2> QED BY <1>1, <2>1 DEF Run
<1>4. /\ gone.left = failed.left /\ gone.good = failed.good \union {n} /\ gone.bad = failed.bad
      /\ gone.picked = failed.picked /\ gone.kept = failed.kept /\ gone.dropped = failed.dropped
      /\ gone.evicted = failed.evicted /\ gone.blind = failed.blind
  <2> HIDE DEF failed
  <2> QED BY <1>3 DEF Run
<1>5. \/ Continues(r, "removing", done) /\ held[z][n] # None /\ journal[z][n] = None /\ Changes(z, n, None)
      \/ Continues(r, "removing", gone) /\ held[z][n] = None /\ UNCHANGED items
      \/ Continues(r, "removing", failed) /\ held[z][n] # None /\ (UNCHANGED items \/ DeleteFails(z, n))
  BY DEF Remove
<1> HIDE DEF done, failed, gone
<1>6. /\ at'[r] = "removing"
      /\ \/ run'[r] = done /\ held'[z][n] = None
         \/ run'[r] = gone /\ held'[z][n] = None
         \/ run'[r] = failed /\ held'[z][n] # None /\ held'[z][n] = held[z][n]
            /\ (journal'[z][n] = journal[z][n] \/ journal'[z][n] = "deleting")
  <2>1. Changes(z, n, None) => held'[z][n] = None BY <1>1 DEF Changes, Becomes, Types
  <2>2. UNCHANGED items \/ DeleteFails(z, n) =>
          held'[z][n] = held[z][n] /\ (journal'[z][n] = journal[z][n] \/ journal'[z][n] = "deleting")
    BY <1>1 DEF DeleteFails, Becomes, Types, items
  <2>3. \A p, s : Continues(r, p, s) => at'[r] = p /\ run'[r] = s BY <1>1 DEF Continues, Goes, Types
  <2> QED BY <1>5, <2>1, <2>2, <2>3 DEF items
<1>7. \A y \in Zone, m \in Name : y # z \/ m # n => Same(y, m)
  <2>1. UNCHANGED items \/ (n \in Shown(z) /\ (Changes(z, n, None) \/ DeleteFails(z, n))) BY <1>1 DEF Remove, Shown
  <2> QED BY <1>1, <2>1, DeletionAt
<1>8. /\ FailedNames(done) = FailedNames(run[r])
      /\ FailedNames(failed) = FailedNames(run[r]) \union {n} /\ failed.bad # {}
      /\ FailedNames(gone) = FailedNames(failed) /\ gone.bad # {}
  <2>1. FailedNames(failed) = FailedNames(run[r]) \union {n} /\ failed.bad # {} BY <1>1, <1>3, FailedGrows
  <2> QED BY <1>2, <1>4, <2>1 DEF FailedNames
<1>9. /\ Shown(to)' = Shown(to) /\ Hidden(to)' = Hidden(to)
      /\ \A m \in Name : Same(to, m)
  BY <1>1, <1>7 DEF Same, Shown, Hidden
<1>10. ListedOK(r) /\ WithinOK(r) /\ DroppedOK(r) /\ DoneOK(r) BY DEF AnswerOK
<1>11. /\ order[r].names = run[r].left \union run[r].good \union FailedNames(run[r])
       /\ run[r].left \union run[r].good \subseteq run[r].kept
  BY <1>1, <1>10 DEF ListedOK
<1>12. /\ run'[r].kept = run[r].kept /\ run'[r].dropped = run[r].dropped /\ run'[r].evicted = run[r].evicted
       /\ run'[r].picked = run[r].picked /\ run'[r].left = run[r].left \ {n}
       /\ run'[r].bad = {} => run[r].bad = {}
       /\ run'[r].blind = run[r].blind
  BY <1>2, <1>3, <1>4, <1>6, <1>8
<1>13. Target(r)' = Target(r) /\ Transfers(r)' = Transfers(r) /\ Target(r) = to BY <1>1 DEF Target, Transfers
<1>14. ListedOK(r)' BY <1>1, <1>2, <1>3, <1>4, <1>6, <1>8, <1>11 DEF ListedOK, Saves
<1>15. WithinOK(r)' BY <1>1, <1>6, <1>9, <1>10, <1>12, <1>13 DEF WithinOK
<1>16. DroppedOK(r)' BY <1>1, <1>6, <1>9, <1>10, <1>12, <1>13 DEF DroppedOK
<1>17. DoneOK(r)'
  <2>1. run[r].good \subseteq Name /\ run[r].left \subseteq Name /\ FailedNames(run[r]) \subseteq Name
    BY <1>1, FailedNamed DEF Run
  <2>2. SourceOK(r, n) /\ HasSeen(r, to, n, run[r].picked[n]) BY <1>1 DEF TransferOK
  <2>3. ASSUME NEW m \in Name, HasSeen(r, to, m, run[r].picked[m]) PROVE HasSeen(r, order[r].to, m, run[r].picked[m])'
    BY <1>1, <1>9, <1>12, <2>3 DEF HasSeen, Seen, Same
  <2>4. ASSUME NEW m \in run[r].good PROVE HasSeen(r, to, m, run[r].picked[m]) /\ held'[z][m] = None
    <3>1. HasSeen(r, to, m, run[r].picked[m]) /\ held[z][m] = None BY <1>1, <1>10 DEF DoneOK, Gone
    <3>2. m # n => Same(z, m) BY <1>7, <2>1
    <3> QED BY <1>6, <3>1, <3>2 DEF Same
  <2>5. run'[r].good \subseteq run[r].good \union {n} /\ (n \in run'[r].good => held'[z][n] = None)
    BY <1>2, <1>3, <1>4, <1>6, <2>4
  <2>6. \A m \in run'[r].good : HasSeen(r, order[r].to, m, run[r].picked[m])' /\ Gone(order[r].zone, m)'
    BY <1>1, <2>1, <2>2, <2>3, <2>4, <2>5 DEF Gone
  <2>7. ASSUME NEW m \in FailedNames(run'[r]) \ run'[r].good PROVE SourceOK(r, m)'
    <3>1. m \in Name BY <1>2, <1>3, <1>4, <1>6, <1>8, <2>1
    <3>2. CASE m # n
      <4>1. m \in FailedNames(run[r]) \ run[r].good BY <1>2, <1>3, <1>4, <1>6, <1>8, <2>7, <3>2
      <4>2. SourceOK(r, m) BY <1>1, <1>10, <4>1 DEF DoneOK
      <4>3. Same(z, m) BY <1>7, <3>1, <3>2
      <4> QED BY <1>1, <1>12, <4>2, <4>3 DEF SourceOK, Same
    <3>3. CASE m = n
      <4>1. run'[r] = failed BY <1>2, <1>4, <1>6, <2>7, <3>3
      <4>2. held'[z][n] # None /\ held'[z][n] = held[z][n]
            /\ (journal'[z][n] = journal[z][n] \/ journal'[z][n] = "deleting")
        BY <1>2, <1>4, <1>6, <2>7, <3>3
      <4>3. journal[z][n] # "orphan" BY <4>2 DEF OrphanGone
      <4> QED BY <1>1, <1>12, <2>2, <3>3, <4>2, <4>3 DEF SourceOK
    <3> QED BY <3>2, <3>3
  <2> QED BY <1>1, <1>6, <1>12, <2>6, <2>7 DEF DoneOK
<1>18. FreshOK(r)' /\ UploadOK(r)' BY <1>6 DEF FreshOK, UploadOK
<1> QED BY <1>14, <1>15, <1>16, <1>17, <1>18 DEF AnswerOK

(* ... as does one that was asked for, ...                                  *)
LEMMA DeleteAnswer ==
  ASSUME Base, NEW r \in Request, AnswerOK(r), NEW n \in Name, Delete(r, n)
  PROVE  AnswerOK(r)'
<1> DEFINE done == [run[r] EXCEPT !.left = @ \ {n}, !.good = @ \union {n}]
           failed == [run[r] EXCEPT !.left = @ \ {n}, !.bad = @ \union {<<n, FALSE>>}]
<1>1. /\ Types /\ run[r] \in Run /\ order' = order /\ order[r].op = "delete"
      /\ at[r] = "deleting" /\ n \in run[r].left /\ order[r].zone \in Zone
  <2>1. Types /\ PointOK(r) BY TypesParts DEF Base, PointsOK
  <2> QED BY <2>1, OrderTyped DEF Delete, PointOK
<1> PICK z \in Zone : z = order[r].zone BY <1>1
<1>2. /\ done.left = run[r].left \ {n} /\ done.good = run[r].good \union {n} /\ done.bad = run[r].bad
      /\ failed.left = run[r].left \ {n} /\ failed.good = run[r].good /\ failed.bad = run[r].bad \union {<<n, FALSE>>}
  BY <1>1 DEF Run
<1>3. \/ Continues(r, "deleting", done) /\ Changes(z, n, None)
      \/ Continues(r, "deleting", failed) /\ (UNCHANGED items \/ DeleteFails(z, n))
  BY DEF Delete
<1> HIDE DEF done, failed
<1>4. at'[r] = "deleting" /\ ((run'[r] = done /\ held'[z][n] = None) \/ run'[r] = failed)
  <2>1. Changes(z, n, None) => held'[z][n] = None BY <1>1 DEF Changes, Becomes, Types
  <2> QED BY <1>1, <1>3, <2>1 DEF Continues, Goes, Types
<1>5. \A m \in Name : m # n => Same(z, m)
  <2>1. UNCHANGED items \/ (n \in Shown(z) /\ (Changes(z, n, None) \/ DeleteFails(z, n))) BY <1>1 DEF Delete, Shown
  <2> QED BY <1>1, <2>1, DeletionAt
<1>6. FailedNames(done) = FailedNames(run[r]) /\ FailedNames(failed) = FailedNames(run[r]) \union {n}
  <2>1. FailedNames(failed) = FailedNames(run[r]) \union {n} BY <1>1, <1>2, FailedGrows
  <2> QED BY <1>2, <2>1 DEF FailedNames
<1>7. /\ order[r].names = run[r].left \union run[r].good \union FailedNames(run[r])
      /\ run[r].left \intersect (run[r].good \union FailedNames(run[r])) = {}
      /\ run[r].good \intersect FailedNames(run[r]) = {}
      /\ \A m \in run[r].good : held[z][m] = None
  BY <1>1 DEF AnswerOK, ListedOK, DoneOK, Gone
<1>8. ListedOK(r)' BY <1>1, <1>2, <1>4, <1>6, <1>7 DEF ListedOK, Transfers, Saves
<1>9. DoneOK(r)'
  <2>1. run[r].good \subseteq Name BY <1>1 DEF Run
  <2>2. \A m \in run[r].good : held'[z][m] = None BY <1>1, <1>5, <1>7, <2>1 DEF Same
  <2>3. \A m \in run'[r].good : held'[z][m] = None BY <1>2, <1>4, <2>2
  <2> QED BY <1>1, <1>4, <2>3 DEF DoneOK, Gone
<1>10. FreshOK(r)' /\ UploadOK(r)' /\ WithinOK(r)' /\ DroppedOK(r)'
  BY <1>4 DEF FreshOK, UploadOK, WithinOK, DroppedOK, Saves
<1> QED BY <1>8, <1>9, <1>10 DEF AnswerOK

(* ... the look at an upload or a transfer, ...                             *)
LEMMA LookAnswer ==
  ASSUME Base, NEW r \in Request, AnswerOK(r), LookAtUpload(r) \/ LookAtTransfer(r)
  PROVE  AnswerOK(r)'
<1> DEFINE s == [run[r] EXCEPT !.picked = held[order[r].zone]]
<1>1. Types /\ run[r] \in Run /\ at[r] = "looking" BY TypesParts, OrderTyped DEF Base, LookAtUpload, LookAtTransfer
<1>2. s.good = run[r].good /\ s.bad = run[r].bad /\ s.dropped = run[r].dropped /\ s.evicted = run[r].evicted
  BY <1>1 DEF Run
<1>3. (\E code : Ends(r, run[r], code)) \/ Continues(r, "measuring", run[r]) \/ Continues(r, "measuring", s)
  BY DEF LookAtUpload, LookAtTransfer
<1> HIDE DEF s
<1>4. at'[r] = "ended" \/ (at'[r] = "measuring" /\ (run'[r] = run[r] \/ run'[r] = s))
  BY <1>1, <1>3 DEF Continues, Ends, Goes, Types
<1>5. CASE at'[r] = "ended" BY <1>5, AnswerIdle
<1>6. CASE at'[r] = "measuring" /\ (run'[r] = run[r] \/ run'[r] = s)
  <2>1. FreshOK(r)' BY <1>1, <1>2, <1>6 DEF AnswerOK, FreshOK
  <2>2. UploadOK(r)' /\ WithinOK(r)' /\ DroppedOK(r)' /\ ListedOK(r)' /\ DoneOK(r)'
    BY <1>6 DEF UploadOK, WithinOK, DroppedOK, ListedOK, DoneOK, Saves
  <2> QED BY <2>1, <2>2 DEF AnswerOK
<1> QED BY <1>4, <1>5, <1>6

(* ... the entry ...                                                        *)
LEMMA EnterAnswer ==
  ASSUME Base, NEW r \in Request, AnswerOK(r), Enter(r)
  PROVE  AnswerOK(r)'
<1> DEFINE s == [run[r] EXCEPT !.left = order[r].names]
<1>1. Types /\ run[r] \in Run /\ order' = order /\ at[r] = "waiting" BY TypesParts, OrderTyped DEF Base, Enter
<1>2. /\ s.left = order[r].names /\ s.good = run[r].good /\ s.bad = run[r].bad
      /\ s.dropped = run[r].dropped /\ s.evicted = run[r].evicted
  BY <1>1 DEF Run
<1>3. run'[r] = s /\ at'[r] = Entry(r) BY <1>1 DEF Enter, Goes, Types
<1>4. at'[r] \in {"deleting", "amending", "looking"} BY <1>3 DEF Entry
<1>5. run[r].good = {} /\ run[r].bad = {} /\ run[r].dropped = {} /\ run[r].evicted = {}
  BY <1>1 DEF AnswerOK, FreshOK
<1>6. FailedNames(s) = {} BY <1>2, <1>5 DEF FailedNames
<1> HIDE DEF s
<1>7. CASE at'[r] = "amending" BY <1>7, AnswerIdle
<1>8. CASE at'[r] \in {"deleting", "looking"}
  <2>1. ListedOK(r)' BY <1>1, <1>2, <1>3, <1>5, <1>6, <1>8 DEF ListedOK, Saves
  <2>2. FreshOK(r)' /\ DoneOK(r)' BY <1>2, <1>3, <1>5, <1>8 DEF FreshOK, DoneOK
  <2>3. UploadOK(r)' /\ WithinOK(r)' /\ DroppedOK(r)'
    BY <1>8 DEF UploadOK, WithinOK, DroppedOK, Saves
  <2> QED BY <2>1, <2>2, <2>3 DEF AnswerOK
<1> QED BY <1>4, <1>7, <1>8

(* ... and the measure.                                                     *)
LEMMA MeasureAnswer ==
  ASSUME Base, NEW r \in Request, AnswerOK(r), Measure(r)
  PROVE  AnswerOK(r)'
<1>1. /\ Types /\ PointOK(r) /\ run[r] \in Run /\ order' = order /\ at[r] = "measuring" /\ UNCHANGED items
  BY TypesParts, OrderTyped DEF Base, PointsOK, Measure
<1>2. at'[r] = "ended" \/ (at'[r] = "saving" /\ run' = run) BY <1>1 DEF Measure, Ends, Goes, Types
<1>3. CASE at'[r] = "ended" BY <1>3, AnswerIdle
<1>4. CASE at'[r] = "saving" /\ run' = run
  <2>1. run[r].good = {} /\ run[r].bad = {} /\ run[r].dropped = {} /\ run[r].evicted = {}
    BY <1>1 DEF AnswerOK, FreshOK
  <2>2. run[r].left = order[r].names /\ run[r].kept = {} BY <1>1 DEF PointOK
  <2>3. FailedNames(run[r]) = {} BY <2>1 DEF FailedNames
  <2>4. ListedOK(r)' BY <1>1, <1>4, <2>1, <2>2, <2>3 DEF ListedOK
  <2>5. DroppedOK(r)' /\ WithinOK(r)' BY <1>4, <2>1, <2>2 DEF DroppedOK, WithinOK
  <2>6. FreshOK(r)' /\ UploadOK(r)' /\ DoneOK(r)'
    BY <1>4 DEF FreshOK, UploadOK, DoneOK
  <2> QED BY <2>4, <2>5, <2>6 DEF AnswerOK
<1> QED BY <1>2, <1>3, <1>4

(* So each step of a handler keeps the answer of its request true.          *)
LEMMA HandlesAnswer ==
  ASSUME Base, OrphanGone, NEW r \in Request, AnswerOK(r), TransferOK(r), Handles(r)
  PROVE  AnswerOK(r)'
<1>1. Types BY TypesParts DEF Base
<1>2. CASE NoName(r) \/ Unstage(r) \/ Removed(r)
  <2>1. at'[r] = "ended" BY <1>1, <1>2 DEF NoName, Unstage, Removed, Ends, Goes, Types
  <2> QED BY <2>1, AnswerIdle
<1>3. ASSUME NEW n \in Name, Rename(r, n) \/ Comment(r, n) \/ ReadForeign(r, n) \/ Register(r, n) \/ Publish(r, n)
      PROVE  AnswerOK(r)'
  <2>1. at'[r] \in {"ended", "registering", "publishing"}
    BY <1>1, <1>3 DEF Rename, Comment, ReadForeign, Register, Publish, Continues, Ends, Goes, Types
  <2> QED BY <2>1, AnswerIdle
<1> QED BY <1>2, <1>3, LookAnswer, SaveAnswer, RetainAnswer, EvictAnswer, ConfirmAnswer, RemoveAnswer,
           DeleteAnswer DEF Handles

(* Every step keeps all answers true.                                       *)
LEMMA AnswersStep ==
  ASSUME TransferInv, AnswersOK, [Next]_vars
  PROVE  AnswersOK'
<1>1. Types /\ PointsOK /\ Base /\ OrphanGone /\ TransfersOK BY TypesParts DEF TransferInv, Base
<1> SUFFICES ASSUME NEW r \in Request PROVE AnswerOK(r)' BY DEF AnswersOK
<1>2. AnswerOK(r) /\ TransferOK(r) /\ PointOK(r) /\ Zones(r) \subseteq Zone
  BY <1>1, OrderTyped DEF AnswersOK, TransfersOK, PointsOK
<1>3. ASSUME SameOrders, at'[r] = at[r], run'[r] = run[r], Inside(r) => \A z \in Zones(r) : Fades(z)
      PROVE  AnswerOK(r)'
  BY <1>1, <1>2, <1>3, AnswerFades
<1>4. UNCHANGED items => \A z \in Zone : Fades(z) BY DEF items, Fades, Same
<1>5. order' = order => SameOrders BY DEF SameOrders
<1>6. CASE Around BY <1>1, <1>3, <1>5, <1>6, BaseAround, AroundFades
<1>7. ASSUME NEW q \in Request, Quiet(q) PROVE AnswerOK(r)'
  <2>1. SameOrders /\ OthersStay(q) /\ UNCHANGED items /\ run' = run BY <1>1, <1>7, BaseQuiet DEF Quiet
  <2>2. CASE at'[r] = at[r] BY <1>2, <1>3, <1>4, <2>1, <2>2
  <2>3. CASE at'[r] # at[r]
    <3>1. r = q BY <2>1, <2>3 DEF OthersStay
    <3>2. at'[r] = "closed" \/ (at'[r] = "waiting" /\ at[r] = "new") BY <1>1, <1>7, <2>3, <3>1 DEF Quiet, Types
    <3>3. CASE at'[r] = "closed" BY <3>3, AnswerIdle
    <3>4. CASE at'[r] = "waiting" /\ at[r] = "new"
      <4>1. FreshOK(r)' BY <1>2, <2>1, <3>4 DEF AnswerOK, FreshOK
      <4>2. UploadOK(r)' /\ WithinOK(r)' /\ DroppedOK(r)' /\ ListedOK(r)' /\ DoneOK(r)'
        BY <3>4 DEF UploadOK, WithinOK, DroppedOK, ListedOK, DoneOK, Saves
      <4> QED BY <4>1, <4>2 DEF AnswerOK
    <3> QED BY <3>2, <3>3, <3>4
  <2> QED BY <2>2, <2>3
<1>8. ASSUME NEW q \in Request, Enter(q) \/ Measure(q) \/ Die(q) PROVE AnswerOK(r)'
  <2>1. OthersStay(q) /\ UNCHANGED items /\ order' = order
    BY <1>1, <1>8, BaseEnter, BaseMeasure, BaseDie DEF Enter, Measure, Die
  <2>2. CASE r # q BY <1>2, <1>3, <1>4, <1>5, <2>1, <2>2 DEF OthersStay
  <2>3. CASE Die(r)
    <3>1. at'[r] = "dead" BY <1>1, <2>3 DEF Die, Goes, Types
    <3> QED BY <3>1, AnswerIdle
  <2> QED BY <1>1, <1>2, <1>8, <2>2, <2>3, EnterAnswer, MeasureAnswer
<1>9. ASSUME NEW q \in Request, Handles(q) PROVE AnswerOK(r)'
  <2>1. OthersStay(q) /\ Inside(q) /\ order' = order BY <1>1, <1>9, BaseHandles DEF Proceeds
  <2>2. CASE r # q
    <3>1. ASSUME Inside(r), NEW z \in Zones(r) PROVE Fades(z)
      <4>1. z \in Zone \ Zones(q) BY <1>1, <2>1, <2>2, <3>1, ZonesApart
      <4> QED BY <1>1, <1>9, <4>1, HandlesLocal DEF Fades
    <3> QED BY <1>3, <1>5, <2>1, <2>2, <3>1 DEF OthersStay
  <2>3. CASE r = q BY <1>1, <1>2, <1>9, <2>3, HandlesAnswer
  <2> QED BY <2>2, <2>3
<1>10. CASE UNCHANGED vars
  <2>1. UNCHANGED <<items, order, at, run>> BY <1>10 DEF vars, items
  <2> QED BY <1>2, <1>3, <1>4, <1>5, <2>1
<1> QED BY <1>1, <1>6, <1>7, <1>8, <1>9, <1>10, QuietSteps, NextCases

(* At first there are none.                                                 *)
LEMMA AnswersInit == Init => AnswersOK
BY DEF Init, AnswersOK, AnswerOK, FreshOK, UploadOK, WithinOK, DroppedOK, ListedOK, DoneOK, Saves, Blank

-----------------------------------------------------------------------------
(* What an answer of success says is true. *)

LEMMA EndsRun ==
  ASSUME Types, NEW r \in Request, NEW s \in Run, NEW code, Ends(r, s, code)
  PROVE  /\ at'[r] = "ended" /\ run'[r].code = code /\ run'[r].picked = s.picked /\ run'[r].doing = s.doing
         /\ run'[r].good = s.good /\ run'[r].bad = s.bad /\ run'[r].dropped = s.dropped
         /\ run'[r].blind = s.blind /\ FailedNames(run'[r]) = FailedNames(s)
<1>1. at'[r] = "ended" /\ run'[r] = [s EXCEPT !.code = code] BY DEF Ends, Goes, Types
<1> QED BY <1>1 DEF Run, FailedNames

(* What the answer to a request of each kind says. *)
LEMMA TruthfulUpload ==
  ASSUME NEW r \in Request, order' = order, UNCHANGED items, order[r].op = "upload", run'[r].doing = run[r].doing,
         run'[r].blind = run[r].blind, run[r].blind \/ Cardinality(Shown(order[r].zone)) <= Retain[order[r].zone],
         Holds(order[r].zone, run[r].doing, order[r].data)
  PROVE  Truthful(r)'
<1>1. Shown(order[r].zone)' = Shown(order[r].zone) BY DEF Shown, items
<1>2. Holds(order[r].zone, run[r].doing, order[r].data)' BY <1>1 DEF Holds, items
<1>3. run'[r].blind \/ Cardinality(Shown(order[r].zone))' <= Retain[order[r].zone] BY <1>1
<1>4. order'[r].op = "upload" /\ order'[r].zone = order[r].zone OBVIOUS
<1> HIDE DEF Holds
<1> QED BY <1>2, <1>3, <1>4 DEF Truthful, Transfers

(* What an answer to a transfer needs in order to be true.                  *)
LEMMA TruthfulTransfer ==
  ASSUME NEW r \in Request, order' = order, UNCHANGED items, Transfers(r), run'[r].picked = run[r].picked,
         NEW good, good = run'[r].good, NEW failed, failed = FailedNames(run'[r]),
         run'[r].dropped = run[r].dropped,
         \A n \in good : HasSeen(r, order[r].to, n, run[r].picked[n])',
         good \union failed = order[r].names,
         \A n \in good : order[r].op = "move" => Gone(order[r].zone, n),
         \A n \in failed \ good : journal[order[r].zone][n] = "orphan" \/ held[order[r].zone][n] = run[r].picked[n],
         run[r].dropped \intersect Shown(order[r].to) \subseteq order[r].names,
         good # {} /\ failed = {} /\ ~run'[r].blind => Cardinality(Shown(order[r].to)) <= Retain[order[r].to]
  PROVE  Truthful(r)'
<1>1. Shown(order[r].to)' = Shown(order[r].to) BY DEF Shown, items
<1>2. ASSUME NEW n \in good
      PROVE  HasSeen(r, order[r].to, n, run[r].picked[n])' /\ (order[r].op = "move" => Gone(order[r].zone, n)')
  BY DEF Gone, items
<1>3. run'[r].dropped \intersect Shown(order[r].to)' \subseteq order[r].names BY <1>1
<1>4. good # {} /\ failed = {} /\ ~run'[r].blind => Cardinality(Shown(order[r].to))' <= Retain[order[r].to] BY <1>1
<1>5. failed = {f[1] : f \in run'[r].bad} BY DEF FailedNames
<1>6. \A n \in failed \ good : journal'[order[r].zone][n] = "orphan" \/ held'[order[r].zone][n] = run'[r].picked[n]
  BY DEF items
<1>7. order[r].op \in {"copy", "move"} /\ Transfers(r)' BY DEF Transfers
<1> QED BY <1>2, <1>3, <1>4, <1>5, <1>6, <1>7 DEF Truthful

(* An answer of success, and the state it is given in. *)
Succeeds(r) == at'[r] = "ended" /\ run'[r].code = "ok"

(* An upload that succeeds answers the truth, ...                           *)
LEMMA UploadTruthful ==
  ASSUME TransferInv, AnswersOK, NEW r \in Request, Retained(r) \/ Unstage(r), Succeeds(r)
  PROVE  Truthful(r)'
<1>0. Target(r) \in Zone BY TypesParts, OrderTyped DEF TransferInv, Base
<1> PICK z \in Zone : z = Target(r) BY <1>0
<1>1. /\ Types /\ PointOK(r) /\ AnswerOK(r) /\ run[r] \in Run /\ order' = order /\ UNCHANGED items
      /\ at[r] \in {"evicting", "unstaging"}
  BY TypesParts, OrderTyped DEF TransferInv, Base, PointsOK, AnswersOK, Retained, Unstage
<1> DEFINE s == [run[r] EXCEPT !.left = @ \ {run[r].doing}, !.kept = @ \union {run[r].doing}, !.dropped = @ \union run[r].evicted]
<1>2. CASE Retained(r)
  <2>1. at[r] = "evicting" /\ run[r].victims = {} BY <1>2 DEF Retained
  <2>2. run[r].doing \in Name BY <1>1, <2>1 DEF PointOK
  <2>3. s \in Run /\ s.doing = run[r].doing /\ s.blind = run[r].blind BY <1>1, <2>2 DEF Run
  <2>4. \/ Continues(r, "saving", s) \/ Continues(r, "unstaging", s)
        \/ Ends(r, s, "ok") /\ ~Transfers(r) /\ ~run[r].stuck
        \/ Fails(r, run[r].doing, TRUE, "retention_error")
    BY <1>2 DEF Retained
  <2> HIDE DEF s
  <2>5. ~Continues(r, "saving", s) /\ ~Continues(r, "unstaging", s)
    BY <1>1 DEF Succeeds, Continues, Goes, Types
  <2>6. ~Fails(r, run[r].doing, TRUE, "retention_error")
    <3>1. ~Ends(r, run[r], "retention_error") BY <1>1, EndsRun DEF Succeeds
    <3> QED BY <1>1, <3>1 DEF Fails, Succeeds, Continues, Goes, Types
  <2>7. Ends(r, s, "ok") /\ ~Transfers(r) /\ ~run[r].stuck BY <2>4, <2>5, <2>6
  <2>8. run'[r].doing = run[r].doing /\ run'[r].blind = run[r].blind BY <1>1, <2>3, <2>7, EndsRun
  <2>9. order[r].op = "upload" BY <1>1, <2>1, <2>7 DEF PointOK, Writer, Transfers, Saves
  <2>10. Holds(order[r].zone, run[r].doing, order[r].data) BY <1>1, <2>1, <2>9 DEF AnswerOK, UploadOK
  <2>11. run[r].blind \/ Cardinality(Shown(z)) <= Retain[z]
    <3> SUFFICES ASSUME ~run[r].blind PROVE Cardinality(Shown(z)) <= Retain[z] OBVIOUS
    <3>1. Cardinality(Shown(z) \ {}) <= Retain[z] BY <1>1, <2>1, <2>7 DEF AnswerOK, WithinOK
    <3>2. Shown(z) \ {} = Shown(z) OBVIOUS
    <3> QED BY <3>1, <3>2
  <2>12. z = order[r].zone BY <2>7 DEF Target
  <2> QED BY <1>1, <2>8, <2>9, <2>10, <2>11, <2>12, TruthfulUpload
<1>3. CASE Unstage(r)
  <2>1. at[r] = "unstaging" /\ order[r].op = "upload" BY <1>1, <1>3 DEF Unstage, PointOK
  <2>2. Ends(r, run[r], "ok") \/ Ends(r, run[r], "destination_error") BY <1>3 DEF Unstage
  <2>3. run'[r].doing = run[r].doing /\ run'[r].blind = run[r].blind BY <1>1, <2>2, EndsRun
  <2>4. Holds(order[r].zone, run[r].doing, order[r].data) BY <1>1, <2>1 DEF AnswerOK, UploadOK
  <2>5. run[r].blind \/ Cardinality(Shown(z)) <= Retain[z] BY <1>1, <2>1 DEF AnswerOK, WithinOK
  <2>6. z = order[r].zone BY <2>1 DEF Target, Transfers
  <2> QED BY <1>1, <2>1, <2>3, <2>4, <2>5, <2>6, TruthfulUpload
<1> QED BY <1>2, <1>3

(* ... as does a copy ...                                                   *)
LEMMA CopyTruthful ==
  ASSUME TransferInv, AnswersOK, NEW r \in Request, Confirm(r), Succeeds(r)
  PROVE  Truthful(r)'
<1>1. /\ Types /\ PointOK(r) /\ AnswerOK(r) /\ TransferOK(r) /\ run[r] \in Run /\ order' = order /\ UNCHANGED items
      /\ at[r] = "saving" /\ Transfers(r) /\ run[r].left = {} /\ order[r].to \in Zone /\ Target(r) = order[r].to
  BY TypesParts, OrderTyped, Confirms DEF TransferInv, Base, PointsOK, AnswersOK, TransfersOK, Target
<1>2. PICK L \in Listing(order[r].to) : Ends(r, ToReport(r, L), "ok") /\ order[r].op # "move"
  <2>1. \A s : ~Continues(r, "removing", s) BY <1>1 DEF Succeeds, Continues, Goes, Types
  <2>2. ~Ends(r, run[r], "destination_error") BY <1>1, EndsRun DEF Succeeds
  <2> QED BY <2>1, <2>2, Confirms
<1> DEFINE there == run[r].kept \intersect L
           copied == ToReport(r, L)
<1>3. /\ copied \in Run /\ copied.good = there /\ copied.dropped = run[r].dropped /\ copied.picked = run[r].picked
      /\ copied.bad = run[r].bad \union {<<n, TRUE>> : n \in run[r].kept \ there}
      /\ copied.blind <=> run[r].blind \/ L # Shown(order[r].to)
  <2>1. copied \in Run /\ copied.good = there BY <1>1, FoundRun
  <2>2. copied.picked = run[r].picked /\ copied.dropped = run[r].dropped BY <1>1, FoundRun
  <2>3. copied.bad = run[r].bad \union {<<n, TRUE>> : n \in run[r].kept \ there} BY <1>1, FoundRun, Zenon
  <2>4. copied.blind <=> run[r].blind \/ L # Shown(order[r].to) BY <1>1, FoundRun
  <2> HIDE DEF copied
  <2> QED BY <2>1, <2>2, <2>3, <2>4
<1>4. FailedNames(copied) = FailedNames(run[r]) \union (run[r].kept \ there)
  <2> DEFINE S == run[r].kept \ there
  <2>1. copied.bad = run[r].bad \union {<<n, TRUE>> : n \in S} BY <1>3
  <2> HIDE DEF copied, S
  <2>2. FailedNames(copied) = FailedNames(run[r]) \union S BY <2>1, ConfirmedNames
  <2> QED BY <2>2 DEF S
<1>5. there \subseteq run[r].kept /\ there \subseteq Shown(order[r].to) \union Hidden(order[r].to) /\ there \subseteq Name
  BY <1>1 DEF Run, Listing
<1>16. there \subseteq L OBVIOUS
<1>0. Ends(r, copied, "ok") BY <1>2
<1> HIDE DEF copied, there
<1>6. /\ run'[r].good = there /\ run'[r].dropped = run[r].dropped /\ run'[r].picked = run[r].picked
      /\ FailedNames(run'[r]) = FailedNames(run[r]) \union (run[r].kept \ there) /\ run'[r].bad = copied.bad
      /\ run'[r].blind <=> run[r].blind \/ L # Shown(order[r].to)
  BY <1>0, <1>1, <1>3, <1>4, EndsRun
<1>7. order[r].names = run[r].kept \union FailedNames(run[r]) BY <1>1 DEF AnswerOK, ListedOK, Saves
<1>8. \A n \in there : HasSeen(r, order[r].to, n, run[r].picked[n])'
  <2> SUFFICES ASSUME NEW n \in there PROVE HasSeen(r, order[r].to, n, run[r].picked[n])' OBVIOUS
  <2>1. held[order[r].to][n] = run[r].picked[n] BY <1>1, <1>5 DEF TransferOK, Copied, Saves
  <2>2. Shown(order[r].to)' = Shown(order[r].to) /\ Hidden(order[r].to)' = Hidden(order[r].to)
    BY <1>1 DEF Shown, Hidden, items
  <2>3. Seen(r, order[r].to)' = IF run'[r].blind THEN Shown(order[r].to) \union Hidden(order[r].to)
                                ELSE Shown(order[r].to)
    BY <1>1, <2>2 DEF Seen
  <2>4. n \in Seen(r, order[r].to)' BY <1>5, <1>6, <1>16, <2>3
  <2> QED BY <1>1, <1>6, <2>1, <2>4 DEF HasSeen, items
<1>9. \A n \in order[r].names : held[order[r].zone][n] = run[r].picked[n] \/ journal[order[r].zone][n] = "orphan"
  BY <1>1 DEF TransferOK, SourceOK, Saves
<1>10. run[r].dropped \intersect Shown(order[r].to) \subseteq order[r].names
  BY <1>1 DEF AnswerOK, DroppedOK, Saves
<1>11. ASSUME there # {}, FailedNames(run'[r]) = {}, ~run'[r].blind
       PROVE  Cardinality(Shown(order[r].to)) <= Retain[order[r].to]
  <2>1. run[r].kept # {} /\ FailedNames(run[r]) = {} /\ ~run[r].blind BY <1>5, <1>6, <1>11
  <2>2. run[r].bad = {} BY <2>1 DEF FailedNames
  <2> QED BY <1>1, <2>1, <2>2 DEF AnswerOK, WithinOK
<1>12. PICK failed : failed = FailedNames(run'[r]) OBVIOUS
<1>13. there \union failed = order[r].names /\ failed \subseteq order[r].names BY <1>5, <1>6, <1>7, <1>12
<1>14. \A n \in failed \ there : journal[order[r].zone][n] = "orphan" \/ held[order[r].zone][n] = run[r].picked[n]
  BY <1>9, <1>13
<1>15. there # {} /\ failed = {} /\ ~run'[r].blind => Cardinality(Shown(order[r].to)) <= Retain[order[r].to] BY <1>11, <1>12
<1> QED BY <1>1, <1>2, <1>6, <1>8, <1>10, <1>12, <1>13, <1>14, <1>15, TruthfulTransfer

(* The answer to a move, or to a deletion. *)
LEMMA RemovedTruthful ==
  ASSUME TransferInv, AnswersOK, NEW r \in Request, Removed(r)
  PROVE  Truthful(r)'
<1>1. /\ Types /\ PointOK(r) /\ OrdersOK /\ AnswerOK(r) /\ run[r] \in Run /\ order' = order /\ UNCHANGED items
      /\ at[r] \in {"removing", "deleting"} /\ run[r].left = {} /\ Ends(r, run[r], "ok")
      /\ order[r].zone \in Zone /\ order[r].to \in Zone
  BY TypesParts, OrderTyped DEF TransferInv, Base, PointsOK, AnswersOK, Removed
<1>2. /\ run'[r].good = run[r].good /\ run'[r].dropped = run[r].dropped /\ run'[r].picked = run[r].picked
      /\ run'[r].blind = run[r].blind
      /\ FailedNames(run'[r]) = FailedNames(run[r])
  BY <1>1, EndsRun
<1>3. CASE at[r] = "removing"
  <2>1. order[r].op = "move" /\ Transfers(r) /\ Target(r) = order[r].to
    BY <1>1, <1>3 DEF PointOK, Transfers, Target
  <2>2. PICK good : good = run'[r].good OBVIOUS
  <2>3. PICK failed : failed = FailedNames(run'[r]) OBVIOUS
  <2>4. good \union failed = order[r].names /\ good \subseteq run[r].kept
    BY <1>1, <1>2, <1>3, <2>2, <2>3 DEF AnswerOK, ListedOK
  <2>5. \A n \in good : HasSeen(r, order[r].to, n, run[r].picked[n]) /\ Gone(order[r].zone, n)
    BY <1>1, <1>2, <1>3, <2>2 DEF AnswerOK, DoneOK
  <2>9. \A n \in good : HasSeen(r, order[r].to, n, run[r].picked[n])'
    BY <1>1, <1>2, <2>5 DEF HasSeen, Seen, Shown, Hidden, items
  <2>6. \A n \in failed \ good : journal[order[r].zone][n] = "orphan" \/ held[order[r].zone][n] = run[r].picked[n]
    BY <1>1, <1>2, <1>3, <2>2, <2>3 DEF AnswerOK, DoneOK, SourceOK
  <2>7. run[r].dropped \intersect Shown(order[r].to) \subseteq order[r].names
    BY <1>1, <1>3, <2>1 DEF AnswerOK, DroppedOK
  <2>8. ASSUME good # {}, failed = {}, ~run'[r].blind
        PROVE  Cardinality(Shown(order[r].to)) <= Retain[order[r].to]
    <3>1. run[r].kept # {} BY <2>4, <2>8
    <3>2. run[r].bad = {} BY <1>2, <2>3, <2>8 DEF FailedNames
    <3> QED BY <1>1, <1>2, <1>3, <2>1, <2>8, <3>1, <3>2 DEF AnswerOK, WithinOK
  <2> QED BY <1>1, <1>2, <2>1, <2>2, <2>3, <2>4, <2>5, <2>6, <2>7, <2>8, <2>9, TruthfulTransfer
<1>4. CASE at[r] = "deleting"
  <2>1. order[r].op = "delete" BY <1>1, <1>4 DEF PointOK
  <2>2. /\ run[r].good \union FailedNames(run[r]) = order[r].names
        /\ run[r].good \intersect FailedNames(run[r]) = {}
    BY <1>1, <1>4 DEF AnswerOK, ListedOK
  <2>3. \A n \in run[r].good : Gone(order[r].zone, n) BY <1>1, <1>4 DEF AnswerOK, DoneOK
  <2>4. \A n \in run'[r].good : held'[order'[r].zone][n] = None BY <1>1, <1>2, <2>3 DEF Gone, items
  <2>5. FailedNames(run'[r]) = {f[1] : f \in run'[r].bad} BY DEF FailedNames
  <2>6. order'[r].op = "delete" BY <1>1, <2>1
  <2>7. run'[r].good \union FailedNames(run'[r]) = order'[r].names /\ run'[r].good \intersect FailedNames(run'[r]) = {}
    BY <1>1, <1>2, <2>2
  <2> QED BY <2>4, <2>5, <2>6, <2>7 DEF Truthful, Gone, Transfers
<1> QED BY <1>1, <1>3, <1>4

(* ... and a rename, a comment or a registration.                           *)
LEMMA AmendTruthful ==
  ASSUME TransferInv, AnswersOK, NEW r \in Request, NEW n \in Name,
         Rename(r, n) \/ Comment(r, n) \/ Publish(r, n), Succeeds(r)
  PROVE  Truthful(r)'
<1>1. /\ Types /\ PointOK(r) /\ OrdersOK /\ AnswerOK(r) /\ run[r] \in Run /\ order' = order
      /\ order[r].zone \in Zone /\ order[r].names \subseteq Name /\ order[r].data \in Data /\ order[r].created \in Nat
      /\ n \in order[r].names
  BY TypesParts, OrderTyped DEF TransferInv, Base, PointsOK, AnswersOK, Rename, Comment, Publish
<1> PICK z \in Zone : z = order[r].zone BY <1>1
<1>2. order[r].op \in {"rename", "comment", "register"} => \A m \in order[r].names : m = n BY <1>1 DEF OrdersOK
<1>3. \A code : Ends(r, run[r], code) => code = "ok" BY <1>1, EndsRun DEF Succeeds
<1>4. CASE Rename(r, n)
  <2>1. order[r].op = "rename" /\ order[r].into \in Name \ order[r].names /\ order[r].into # n
    BY <1>1, <1>4 DEF Rename, OrdersOK
  <2> PICK m \in Name : m = order[r].into BY <2>1
  <2>2. /\ held' = [held EXCEPT ![z] = [held[z] EXCEPT ![m] = held[z][n], ![n] = None]] /\ held[z][n] # None
        /\ \E mark \in {None, "committed"} : journal' = [journal EXCEPT ![z] = [journal[z] EXCEPT ![m] = mark, ![n] = mark]]
    BY <1>3, <1>4 DEF Rename
  <2>3. held'[z][n] = None /\ held'[z][m] # None /\ journal'[z][m] \in {None, "committed"}
    BY <1>1, <2>1, <2>2 DEF Types
  <2>4. Gone(z, n)' /\ m \in Shown(z)' BY <2>3 DEF Gone, Shown
  <2>5. order'[r].op = "rename" /\ order'[r].zone = z /\ order'[r].into = m /\ order'[r].names = order[r].names
    BY <1>1, <2>1
  <2>6. \A i \in order'[r].names : i = n BY <1>2, <2>1, <2>5
  <2>7. \A i \in order'[r].names : Gone(order[r].zone, i)' /\ order'[r].into \in Shown(order[r].zone)'
    BY <2>4, <2>5, <2>6 DEF Gone, Shown
  <2> QED BY <2>5, <2>7 DEF Truthful, Transfers
<1>5. CASE Comment(r, n)
  <2> DEFINE noted == [held[z][n] EXCEPT !.comment = order[r].data]
  <2>1. order[r].op = "comment" BY <1>5 DEF Comment
  <2>2. Becomes(z, n, noted, None) /\ held[z][n] # None BY <1>3, <1>5 DEF Comment
  <2>3. held[z][n] \in Item BY <1>1, <2>2 DEF Types
  <2>4. noted.comment = order[r].data BY <2>3 DEF Item
  <2> HIDE DEF noted
  <2>5. held'[z][n] = noted BY <1>1, <2>2 DEF Becomes, Types
  <2>6. order'[r].op = "comment" BY <1>1, <2>1
  <2> QED BY <1>1, <1>2, <2>1, <2>4, <2>5, <2>6 DEF Truthful, Transfers
<1>6. CASE Publish(r, n)
  <2> DEFINE item(data) == Registered(r, n, data)
             read == run[r].picked[n]
             edited == [run[r] EXCEPT !.blind = TRUE]
  <2>1. at[r] = "publishing" /\ order[r].op = "register" /\ read \in Item
    BY <1>1, <1>6 DEF Publish, PointOK
  <2>2. \/ Becomes(z, n, item(read.data), None) /\ Ends(r, run[r], "ok")
        \/ (\E data \in Data : Becomes(z, n, item(data), None)) /\ Ends(r, edited, "ok")
    BY <1>3, <1>6 DEF Publish
  <2>3. \A data \in Data : item(data) \in Item /\ item(data) # None /\ item(data).created = order[r].created
    <3> SUFFICES ASSUME NEW data \in Data
                 PROVE  item(data) \in Item /\ item(data) # None /\ item(data).created = order[r].created
      OBVIOUS
    <3>1. item(data) \in Item /\ item(data).created = order[r].created BY <1>1, <2>1 DEF Registered, Item
    <3> HIDE DEF item
    <3> QED BY <3>1, NoneApart
  <2>4. read.data \in Data /\ item(read.data) = [read EXCEPT !.created = order[r].created]
    BY <1>1, <2>1 DEF Registered, Item
  <2>5. edited \in Run /\ edited.blind /\ edited.picked = run[r].picked BY <1>1 DEF Run
  <2>6. order'[r] = order[r] /\ order'[r].op = "register" BY <1>1, <2>1
  <2> HIDE DEF item, edited
  <2>7. CASE Becomes(z, n, item(read.data), None) /\ Ends(r, run[r], "ok")
    <3>1. run'[r].picked = run[r].picked BY <1>1, <2>7, EndsRun
    <3>2. held'[z][n] = item(read.data) /\ journal'[z][n] = None BY <1>1, <2>7 DEF Becomes, Types
    <3>3. n \in Shown(z)' /\ held'[z][n] = [run'[r].picked[n] EXCEPT !.created = order'[r].created]
      BY <2>3, <2>4, <2>6, <3>1, <3>2 DEF Shown
    <3>4. \A m \in order'[r].names :
            HoldsItem(order[r].zone, m, [run[r].picked[m] EXCEPT !.created = order[r].created])'
      BY <1>2, <2>1, <2>6, <3>3 DEF HoldsItem, Shown
    <3> QED BY <2>6, <3>4 DEF Truthful, Transfers
  <2>8. CASE (\E data \in Data : Becomes(z, n, item(data), None)) /\ Ends(r, edited, "ok")
    <3>1. run'[r].blind BY <1>1, <2>5, <2>8, EndsRun
    <3>2. held'[z][n] # None /\ held'[z][n].created = order[r].created /\ journal'[z][n] = None
      BY <1>1, <2>3, <2>8 DEF Becomes, Types
    <3>3. \A m \in order'[r].names :
            (run[r].blind /\ m \in Shown(order[r].zone) /\ held[order[r].zone][m].created = order[r].created)'
      BY <1>2, <2>1, <2>6, <3>1, <3>2 DEF Shown
    <3> QED BY <2>6, <3>3 DEF Truthful, Transfers
  <2> QED BY <2>2, <2>7, <2>8
<1> QED BY <1>4, <1>5, <1>6

(* Whatever else happens, a request does not end with an answer of success. *)
LEMMA OtherEnds ==
  ASSUME Types, NEW r \in Request, NEW code,
         (Ends(r, run[r], code) /\ code # "ok") \/ (\E p \in Point \ {"ended"} : Goes(r, p))
  PROVE  ~Succeeds(r)
<1>1. CASE Ends(r, run[r], code) /\ code # "ok"
  <2>1. run[r] \in Run BY OrderTyped
  <2> QED BY <1>1, <2>1, EndsRun DEF Succeeds
<1>2. ASSUME NEW p \in Point \ {"ended"}, Goes(r, p) PROVE ~Succeeds(r)
  BY <1>2 DEF Goes, Types, Succeeds
<1> QED BY <1>1, <1>2

(* A failure is no answer of success, ...                                   *)
LEMMA FailsLater ==
  ASSUME Types, NEW r \in Request, NEW n, NEW published, NEW code, Fails(r, n, published, code), Transfers(r) \/ code # "ok"
  PROVE  ~Succeeds(r)
BY OtherEnds DEF Fails, Continues, Point

(* ... nor does a transfer or a deletion answer in the midst of it, ...     *)
LEMMA WorkAnswersLater ==
  ASSUME Types, NEW r \in Request, NEW n \in Name, Save(r, n) \/ Evict(r, n) \/ Remove(r, n) \/ Delete(r, n)
  PROVE  ~Succeeds(r)
<1>1. \A s : \A p \in Point \ {"ended"} : Continues(r, p, s) => ~Succeeds(r) BY OtherEnds DEF Continues
<1>2. CASE Save(r, n)
  <2> DEFINE z == Target(r)
             item == Incoming(r, n)
             verdict == Availability(z, n, n \in order[r].replace)
  <2>1. \/ item = None \/ verdict # "ok"
        \/ Continues(r, "retaining", [run[r] EXCEPT !.doing = n])
        \/ Fails(r, n, FALSE, "destination_error")
    BY <1>2 DEF Save
  <2>2. (item = None \/ verdict # "ok") =>
          \/ Fails(r, n, FALSE, verdict)
          \/ Continues(r, "retaining", [run[r] EXCEPT !.doing = n])
          \/ Fails(r, n, FALSE, "destination_error")
    BY <1>2 DEF Save
  <2>3. item = None => Transfers(r)
    <3>1. ASSUME ~Transfers(r) PROVE item \in Item
      <4>1. order[r].data \in Data /\ order[r].created \in Nat BY OrderTyped
      <4> QED BY <3>1, <4>1 DEF Incoming, Item
    <3> QED BY <3>1, NoneApart
  <2> HIDE DEF item, verdict
  <2>4. Fails(r, n, FALSE, verdict) /\ (item = None \/ verdict # "ok") => ~Succeeds(r) BY <2>3, FailsLater
  <2>5. Fails(r, n, FALSE, "destination_error") => ~Succeeds(r) BY FailsLater
  <2> QED BY <1>1, <2>1, <2>2, <2>4, <2>5 DEF Point
<1>3. CASE Evict(r, n) BY <1>1, <1>3 DEF Evict, Point
<1>4. CASE Remove(r, n) BY <1>1, <1>4 DEF Remove, Point
<1>5. CASE Delete(r, n) BY <1>1, <1>5 DEF Delete, Point
<1> QED BY <1>2, <1>3, <1>4, <1>5

(* ... nor a look at what is there.                                         *)
LEMMA LookAnswersLater ==
  ASSUME Types, NEW r \in Request,
         \/ LookAtUpload(r) \/ LookAtTransfer(r) \/ NoName(r) \/ ListVictims(r)
         \/ \E n \in Name : ReadForeign(r, n) \/ Register(r, n)
  PROVE  ~Succeeds(r)
<1>1. \A s : \A p \in Point \ {"ended"} : Continues(r, p, s) => ~Succeeds(r) BY OtherEnds DEF Continues
<1>2. \A code : Ends(r, run[r], code) /\ code # "ok" => ~Succeeds(r) BY OtherEnds
<1>3. CASE LookAtUpload(r) BY <1>1, <1>2, <1>3 DEF LookAtUpload, Point
<1>4. CASE LookAtTransfer(r)
  <2> DEFINE verdicts == {Availability(order[r].to, n, n \in order[r].replace) : n \in order[r].names} \ {"ok"}
             picked == [run[r] EXCEPT !.picked = held[order[r].zone]]
  <2>1. \/ Ends(r, run[r], "unknown_image") \/ Ends(r, run[r], "destination_error")
        \/ \E code \in verdicts : Ends(r, run[r], code)
        \/ Continues(r, "measuring", picked)
    BY <1>4 DEF LookAtTransfer
  <2>2. \A code \in verdicts : code # "ok" OBVIOUS
  <2> HIDE DEF verdicts, picked
  <2> QED BY <1>1, <1>2, <2>1, <2>2 DEF Point
<1>5. CASE NoName(r) BY <1>2, <1>5 DEF NoName
<1>6. CASE ListVictims(r)
  <2>1. \/ Fails(r, run[r].doing, TRUE, "destination_error")
        \/ \E L \in Listing(Target(r)) : Continues(r, "evicting", Listed(r, L))
    BY <1>6, ListsVictims
  <2>2. CASE Fails(r, run[r].doing, TRUE, "destination_error")
    <3>1. PICK n : n = run[r].doing OBVIOUS
    <3>2. Fails(r, n, TRUE, "destination_error") BY <2>2, <3>1
    <3> QED BY <3>2, FailsLater
  <2> QED BY <1>1, <2>1, <2>2 DEF Point
<1>7. ASSUME NEW n \in Name, ReadForeign(r, n) \/ Register(r, n) PROVE ~Succeeds(r)
  BY <1>1, <1>2, <1>7 DEF ReadForeign, Register, Point
<1> QED BY <1>3, <1>4, <1>5, <1>6, <1>7

(* So every answer of success is true.                                      *)
LEMMA AnswerTruthful ==
  ASSUME TransferInv, AnswersOK, [Next]_vars, NEW r \in Request, at[r] # "ended", Succeeds(r)
  PROVE  Truthful(r)'
<1>1. Types /\ Base BY TypesParts DEF TransferInv, Base
<1>2. at'[r] # at[r] BY DEF Succeeds
<1>3. CASE Around BY <1>1, <1>2, <1>3, BaseAround
<1>4. CASE UNCHANGED vars BY <1>2, <1>4 DEF vars
<1>5. ASSUME NEW q \in Request, Begin(q) \/ Refuse(q) \/ Collect(q) \/ GiveUp(q) PROVE FALSE
  <2>1. Quiet(q) BY <1>1, <1>5, QuietSteps
  <2> QED BY <1>1, <2>1 DEF Quiet, Types, Succeeds
<1>6. ASSUME NEW q \in Request, Enter(q) \/ Die(q) PROVE FALSE
  <2>1. \E p \in Point \ {"ended"} : Goes(q, p) BY <1>6 DEF Enter, Die, Entry, Point
  <2> QED BY <1>1, <2>1 DEF Goes, Types, Succeeds
<1>7. ASSUME NEW q \in Request, Measure(q) PROVE FALSE
  <2>1. r = q BY <1>1, <1>2, <1>7, BaseMeasure DEF OthersStay
  <2>2. \/ Goes(q, "saving") \/ Ends(q, run[q], "duplicate") \/ Ends(q, run[q], "storage_low")
        \/ Ends(q, run[q], "destination_error")
    BY <1>7 DEF Measure
  <2> QED BY <1>1, <2>1, <2>2, OtherEnds DEF Point
<1>8. ASSUME NEW q \in Request, Handles(q) PROVE Truthful(r)'
  <2>1. r = q BY <1>1, <1>2, <1>8, BaseHandles DEF OthersStay
  <2>2. Handles(r) BY <1>8, <2>1
  <2> QED BY <1>1, <2>2, WorkAnswersLater, LookAnswersLater, UploadTruthful, CopyTruthful, RemovedTruthful,
             AmendTruthful DEF Handles
<1> QED BY <1>3, <1>4, <1>5, <1>6, <1>7, <1>8, NextCases

(* service.py, upload_spooled() to rename(), and storage.py,                *)
(* _register_named(): when the locks are given back, an answer of success   *)
(* is true, whatever other requests, failures of single items, retention    *)
(* and external processes have done since the request began.  An upload is  *)
(* there and its zone within its retention; what a transfer has transferred *)
(* is in the target as it was listed, and after a move no longer in the     *)
(* source; what it has not is still in the source; every name asked for is  *)
(* in the answer; what retention is said to have deleted is gone, unless    *)
(* the transfer itself published that name again; a registered file is an   *)
(* item with the content and the comment that were read.  A listing that    *)
(* passed over what it could not read, or an edit of the file during its    *)
(* registration, weakens that as Truthful says, and no further.             *)
THEOREM AnswersTrue == Spec => AnswerTrue
<1> DEFINE AnswerInv == TransferInv /\ AnswersOK
<1>1. Init => AnswerInv BY TransferInvInit, AnswersInit
<1>2. AnswerInv /\ [Next]_vars => AnswerInv' BY TransferInvStep, AnswersStep
<1>3. AnswerInv /\ [Next]_vars =>
        \A r \in Request : at[r] # "ended" /\ at'[r] = "ended" /\ run'[r].code = "ok" => Truthful(r)'
  BY AnswerTruthful DEF Succeeds
<1> QED BY <1>1, <1>2, <1>3, PTL DEF Spec, AnswerTrue
=============================================================================
