-------------------------- MODULE ZoneOperationsProofs --------------------------
(***************************************************************************)
(* Zone operations exclude each other in a directory, and _operation_state *)
(* tells of operations that go on, for any zones, operations and jobs.     *)
(***************************************************************************)
EXTENDS ZoneOperations, TLAPS

(* A step of the refresh or of the world, and what it leaves alone: an      *)
(* operation that has found its zones keeps them and its locks.             *)
Apart ==
  /\ UNCHANGED <<job, locks, opState>>
  /\ \A o \in Op : at'[o] = at[o] \/ {at[o], at'[o]} \cap {"locking", "inside", "leaving"} = {}

(* No file lock is held before the zones are found or after the end, and    *)
(* inside all of them are.                                                  *)
Entered ==
  \A o \in Op :
    /\ flocked[o] # 0 => at[o] \in {"locking", "inside", "leaving"}
    /\ at[o] = "inside" => flocked[o] = Len(snap[o])

Shared(o, p) == ~job[o].exclusive /\ ~job[p].exclusive

(* A directory is locked twice only by two readers.                         *)
Excluded ==
  \A o, p \in Op : o # p =>
    \A i \in 1..flocked[o], j \in 1..flocked[p] : snap[o][i].dir = snap[p][j].dir => Shared(o, p)

(* Who runs a scan does nothing else.                                       *)
OwnerScans == scan # None /\ scan.owner \in Op => at[scan.owner] = "scanning" /\ job[scan.owner].daemon

Inv == TypeOK /\ OwnerScans /\ Entered /\ Excluded /\ StateKnown

-----------------------------------------------------------------------------
(* Types *)

LEMMA JobTyped ==
  ASSUME job \in Jobs, NEW o \in Op
  PROVE  job[o] \in JobType /\ job[o].zones \in Seq(Zone) /\ Zones(o) \subseteq Zone
<1>1. job[o] \in JobType BY JobsAssumption
<1>2. job[o].zones \in Seq(Zone) BY <1>1 DEF JobType
<1>. QED BY <1>1, <1>2 DEF Zones

(* What was found stays a sequence of the same when it is ordered.          *)
LEMMA OrderTyped ==
  ASSUME NEW s \in Seq(Found)
  PROVE  Order(s) \in Seq(Found)
<1>1. CASE Len(s) = 2
  <2>1. s[1] \in Found /\ s[2] \in Found BY <1>1
  <2>. QED BY <2>1 DEF Order
<1>2. CASE Len(s) # 2 BY <1>2 DEF Order
<1>. QED BY <1>1, <1>2

(* An operation looks at a typed list of zones.                             *)
LEMMA LookTyped ==
  ASSUME TypeOK, NEW o \in Op, Look(o)
  PROVE  snap' \in [Op -> Seq(Found)]
<1>1. job[o].zones \in Seq(Zone) /\ Zones(o) \subseteq Zone BY JobTyped DEF TypeOK
<1>2. CASE snap' = snap BY <1>2 DEF TypeOK
<1>3. ASSUME \A z \in Zones(o) : Entry(o, z) # None,
             snap' = [snap EXCEPT ![o] = Order([i \in DOMAIN job[o].zones |-> Entry(o, job[o].zones[i])])]
      PROVE  snap' \in [Op -> Seq(Found)]
  <2>1. \A z \in Zones(o) : Entry(o, z) \in Found
        BY <1>1, <1>3 DEF TypeOK, Entry, Found
  <2>2. \A i \in DOMAIN job[o].zones : job[o].zones[i] \in Zones(o) BY DEF Zones
  <2>3. DOMAIN job[o].zones = 1..Len(job[o].zones) /\ Len(job[o].zones) \in Nat BY <1>1
  <2>4. [i \in DOMAIN job[o].zones |-> Entry(o, job[o].zones[i])] \in Seq(Found)
        BY <2>1, <2>2, <2>3
  <2>. QED BY <1>3, <2>4, OrderTyped DEF TypeOK
<1>. QED BY <1>2, <1>3 DEF Look

(* A scan starts with a typed record.                                       *)
LEMMA ScanTyped ==
  ASSUME TypeOK, NEW owner \in Op \union {None}, StartScan(owner)
  PROVE  scan' \in [owner : Op \union {None}, found : [Zone -> Dir \union {None}], left : SUBSET Zone]
BY DEF StartScan, TypeOK

(* Its end leaves the operations typed.                                     *)
LEMMA EndTyped ==
  ASSUME TypeOK, scan # None, NEW point \in Point, EndScan(point)
  PROVE  scan' = None /\ passed' \subseteq Op /\ at' \in [Op -> Point]
BY DEF EndScan, Goes, TypeOK

(* Every step keeps the types.                                              *)
LEMMA TypeInv == TypeOK /\ [Next]_vars => TypeOK'
<1>. SUFFICES ASSUME TypeOK, [Next]_vars PROVE TypeOK' OBVIOUS
<1>. USE DEF world, refresh, locks
<1>1. ASSUME NEW z \in Zone, OpenZone(z) PROVE TypeOK'
  <2>1. PICK r \in [owner : Op \union {None}, found : [Zone -> Dir \union {None}], left : SUBSET Zone] : scan = r
        BY <1>1 DEF OpenZone, TypeOK
  <2>2. [r.found EXCEPT ![z] = None] \in [Zone -> Dir \union {None}] OBVIOUS
  <2>3. scan' = [r EXCEPT !.left = @ \ {z}] \/ scan' = [r EXCEPT !.left = @ \ {z}, !.found = [@ EXCEPT ![z] = None]]
        BY <1>1, <2>1 DEF OpenZone
  <2>4. scan' \in [owner : Op \union {None}, found : [Zone -> Dir \union {None}], left : SUBSET Zone]
        BY <2>2, <2>3
  <2>. QED BY <1>1, <2>4 DEF OpenZone, TypeOK
<1>2. CASE Install
  <2>1. scan' = None /\ passed' \subseteq Op /\ at' \in [Op -> Point]
        BY <1>2, EndTyped DEF Install, Point
  <2>2. \A z \in Zone : scan.found[z] \in Dir \union {None} BY <1>2 DEF Install, TypeOK
  <2>3. made' \in [Zone -> Nat] BY <1>2 DEF Install, TypeOK
  <2>4. registry' \in [Zone -> Found \union {None}] BY <1>2, <2>2 DEF Install, TypeOK, Found
  <2>. QED BY <1>2, <2>1, <2>3, <2>4 DEF Install, TypeOK
<1>3. CASE ScanFails
  <2>1. scan' = None /\ passed' \subseteq Op /\ at' \in [Op -> Point]
        BY <1>3, EndTyped DEF ScanFails, Point
  <2>. QED BY <1>3, <2>1 DEF ScanFails, TypeOK
<1>4. CASE StartBackground BY <1>4, ScanTyped DEF StartBackground, TypeOK
<1>5. CASE Close BY <1>5 DEF Close, TypeOK
<1>6. CASE EndClose BY <1>6 DEF EndClose, TypeOK
<1>7. ASSUME NEW o \in Op, Arrive(o) PROVE TypeOK'
  <2>1. at' \in [Op -> Point] BY <1>7 DEF Arrive, Goes, TypeOK, Point
  <2>2. scan' = scan \/ StartScan(o) BY <1>7 DEF Arrive
  <2>. QED BY <1>7, <2>1, <2>2, ScanTyped DEF Arrive, TypeOK
<1>8. ASSUME NEW o \in Op, Joined(o) PROVE TypeOK'
  BY <1>8 DEF Joined, Goes, TypeOK, Point
<1>9. ASSUME NEW o \in Op, Look(o) PROVE TypeOK'
  <2>1. at' \in [Op -> Point] BY <1>9 DEF Look, Goes, TypeOK, Point
  <2>. QED BY <1>9, <2>1, LookTyped DEF Look, TypeOK
<1>10. ASSUME NEW o \in Op, CheckState(o) PROVE TypeOK'
  BY <1>10 DEF CheckState, Goes, TypeOK, Point
<1>11. ASSUME NEW o \in Op, TakeLock(o) PROVE TypeOK'
  <2>1. at' \in [Op -> Point] BY <1>11 DEF TakeLock, Goes, TypeOK, Point
  <2>2. locked' = locked \/ locked' = [locked EXCEPT ![o] = locked[o] + 1] BY <1>11 DEF TakeLock
  <2>3. locked[o] + 1 \in Nat BY DEF TypeOK
  <2>4. locked' \in [Op -> Nat] BY <2>2, <2>3 DEF TypeOK
  <2>. QED BY <1>11, <2>1, <2>4 DEF TakeLock, TypeOK
<1>12. ASSUME NEW o \in Op, TakeFlock(o) PROVE TypeOK'
  <2>1. at' \in [Op -> Point] BY <1>12 DEF TakeFlock, Goes, TypeOK, Point
  <2>2. flocked' = flocked \/ flocked' = [flocked EXCEPT ![o] = flocked[o] + 1] BY <1>12 DEF TakeFlock
  <2>3. flocked[o] + 1 \in Nat BY DEF TypeOK
  <2>4. flocked' \in [Op -> Nat] BY <2>2, <2>3 DEF TypeOK
  <2>. QED BY <1>12, <2>1, <2>4 DEF TakeFlock, TypeOK
<1>14. ASSUME NEW o \in Op, Enter(o) PROVE TypeOK'
  <2>1. at' \in [Op -> Point] BY <1>14 DEF Enter, Goes, TypeOK, Point
  <2>2. job[o].kind \in Kind BY JobTyped DEF TypeOK, JobType
  <2>3. opState' \in [Zone -> Kind \union {None}] BY <1>14, <2>2 DEF Enter, TypeOK
  <2>. QED BY <1>14, <2>1, <2>3 DEF Enter, TypeOK
<1>15. ASSUME NEW o \in Op, Leave(o) PROVE TypeOK'
  <2>1. at' \in [Op -> Point] BY <1>15 DEF Leave, Goes, TypeOK, Point
  <2>2. opState' \in [Zone -> Kind \union {None}] BY <1>15 DEF Leave, TypeOK
  <2>. QED BY <1>15, <2>1, <2>2 DEF Leave, TypeOK
<1>16. ASSUME NEW o \in Op, Release(o) \/ Die(o) PROVE TypeOK'
  <2>1. << >> \in Seq(Found) OBVIOUS
  <2>2. ReleasesAll(o) BY <1>16 DEF Release, Die
  <2>3. at' \in [Op -> Point] BY <2>2 DEF ReleasesAll, Goes, TypeOK, Point
  <2>4. snap' \in [Op -> Seq(Found)] BY <2>1, <2>2 DEF ReleasesAll, TypeOK
  <2>5. locked' \in [Op -> Nat] /\ flocked' \in [Op -> Nat] BY <2>2 DEF ReleasesAll, TypeOK
  <2>. QED BY <2>2, <2>3, <2>4, <2>5 DEF ReleasesAll, TypeOK
<1>17. ASSUME NEW z \in Collected, MoveZone(z) PROVE TypeOK'
  <2>1. moves' \in 0..MaxMoves BY <1>17, ZonesAssumption DEF MoveZone, TypeOK
  <2>2. disk' \in [Zone -> Dir \union {None}] BY <1>17, ZonesAssumption DEF MoveZone, TypeOK
  <2>. QED BY <1>17, <2>1, <2>2 DEF MoveZone, TypeOK
<1>18. CASE UNCHANGED vars BY <1>18 DEF vars, TypeOK
<1>. QED BY <1>1, <1>2, <1>3, <1>4, <1>5, <1>6, <1>7, <1>8, <1>9, <1>10, <1>11, <1>12,
            <1>14, <1>15, <1>16, <1>17, <1>18 DEF Next, ScanStep, OpStep

-----------------------------------------------------------------------------
(* Exclusion *)

LEMMA ApartKeeps ==
  ASSUME Apart, Entered, Excluded, StateKnown
  PROVE  Entered' /\ Excluded' /\ StateKnown'
<1>1. Entered' BY DEF Apart, Entered, locks
<1>2. job' = job /\ snap' = snap /\ flocked' = flocked BY DEF Apart, locks
<1>4. Excluded' BY <1>2 DEF Excluded, Shared
<1>3. StateKnown'
  <2>1. job' = job /\ opState' = opState BY DEF Apart
  <2>2. \A o \in Op : at[o] = "inside" => at'[o] = "inside" BY DEF Apart
  <2>3. ASSUME NEW z \in Zone, opState[z] # None
        PROVE  \E o \in Op : at'[o] = "inside" /\ z \in Zones(o) /\ Keeps(o) /\ job[o].kind = opState[z]
        BY <2>2, <2>3 DEF StateKnown
  <2>. QED BY <2>1, <2>3 DEF StateKnown, Zones, Keeps
<1>. QED BY <1>1, <1>3, <1>4

(* No step of a scan moves an operation out of a directory.                 *)
LEMMA RefreshApart ==
  ASSUME TypeOK, OwnerScans,
         \/ ScanStep \/ ScanFails \/ StartBackground \/ Close \/ EndClose
         \/ \E o \in Op : Arrive(o) \/ Joined(o)
         \/ \E z \in Collected : MoveZone(z)
         \/ UNCHANGED vars
  PROVE  Apart
<1>1. ASSUME NEW point \in {"looking", "done"}, EndScan(point), scan # None, UNCHANGED <<job, locks, opState>>
      PROVE  Apart
  <2>1. CASE scan.owner \in Op BY <1>1, <2>1 DEF EndScan, Goes, OwnerScans, TypeOK, Apart
  <2>2. CASE scan.owner \notin Op BY <1>1, <2>2 DEF EndScan, Apart
  <2>. QED BY <2>1, <2>2
<1>2. CASE Install
  <2>. QED BY <1>1, <1>2 DEF Install
<1>3. CASE ScanFails BY <1>1, <1>3 DEF ScanFails
<1>4. ASSUME NEW z \in Zone, OpenZone(z) PROVE Apart BY <1>4 DEF OpenZone, Apart
<1>5. CASE StartBackground \/ Close \/ EndClose BY <1>5 DEF StartBackground, Close, EndClose, Apart
<1>6. ASSUME NEW o \in Op, Arrive(o) PROVE Apart BY <1>6 DEF Arrive, Goes, Apart, TypeOK
<1>7. ASSUME NEW o \in Op, Joined(o) PROVE Apart BY <1>7 DEF Joined, Goes, Apart, TypeOK
<1>8. ASSUME NEW z \in Collected, MoveZone(z) PROVE Apart BY <1>8 DEF MoveZone, Apart
<1>9. CASE UNCHANGED vars BY <1>9 DEF vars, locks, Apart
<1>. QED BY <1>2, <1>3, <1>4, <1>5, <1>6, <1>7, <1>8, <1>9 DEF ScanStep

(* The owner of a scan waits for it.                                        *)
LEMMA OwnerInv == TypeOK /\ OwnerScans /\ [Next]_vars => OwnerScans'
<1>. SUFFICES ASSUME TypeOK, OwnerScans, [Next]_vars PROVE OwnerScans' OBVIOUS
<1>. USE DEF OwnerScans
<1>1. CASE Install \/ ScanFails BY <1>1 DEF Install, ScanFails, EndScan
<1>2. ASSUME NEW z \in Zone, OpenZone(z) PROVE OwnerScans'
  <2>1. PICK r \in [owner : Op \union {None}, found : [Zone -> Dir \union {None}], left : SUBSET Zone] : scan = r
        BY <1>2 DEF OpenZone, TypeOK
  <2>2. scan'.owner = scan.owner BY <1>2, <2>1 DEF OpenZone
  <2>. QED BY <1>2, <2>2 DEF OpenZone
<1>3. CASE StartBackground BY <1>3, SetsAssumption DEF StartBackground, StartScan
<1>4. CASE Close \/ EndClose BY <1>4 DEF Close, EndClose
<1>5. ASSUME NEW o \in Op, Arrive(o) PROVE OwnerScans'
  <2>1. CASE scan = None /\ StartScan(o) /\ Asks(o) /\ Goes(o, "scanning")
        BY <1>5, <2>1 DEF Arrive, StartScan, Asks, Goes, TypeOK
  <2>2. CASE UNCHANGED scan BY <1>5, <2>2 DEF Arrive, Goes, TypeOK
  <2>. QED BY <1>5, <2>1, <2>2 DEF Arrive
<1>6. ASSUME NEW o \in Op, OpStep(o) \/ Die(o) PROVE OwnerScans'
  <2>1. UNCHANGED <<scan, job>>
        BY <1>6 DEF OpStep, Joined, Look, CheckState, TakeLock, TakeFlock, Enter, Leave, Release,
                    Die, ReleasesAll, refresh
  <2>2. at[o] # "scanning" \/ ~job[o].daemon
        BY <1>6 DEF OpStep, Joined, Look, CheckState, TakeLock, TakeFlock, Enter, Leave, Release, Die
  <2>3. \A p \in Op \ {o} : at'[p] = at[p]
        BY <1>6 DEF OpStep, Joined, Look, CheckState, TakeLock, TakeFlock, Enter, Leave, Release,
                    Die, ReleasesAll, Goes, TypeOK
  <2>. QED BY <2>1, <2>2, <2>3
<1>7. ASSUME NEW z \in Collected, MoveZone(z) PROVE OwnerScans' BY <1>7 DEF MoveZone, refresh
<1>8. CASE UNCHANGED vars BY <1>8 DEF vars
<1>. QED BY <1>1, <1>2, <1>3, <1>4, <1>5, <1>6, <1>7, <1>8 DEF Next, ScanStep

(* A step of one operation on its own locks, and the locks of the others.   *)
Alone(o) ==
  /\ job' = job
  /\ \A p \in Op \ {o} : at'[p] = at[p] /\ snap'[p] = snap[p] /\ flocked'[p] = flocked[p]

(* A step of an operation leaves the others where they are.                 *)
LEMMA OpAlone ==
  ASSUME TypeOK, NEW o \in Op, OpStep(o) \/ Die(o)
  PROVE  Alone(o)
<1>. USE DEF Goes, TypeOK, Alone, locks
<1>1. CASE Joined(o) \/ CheckState(o) BY <1>1 DEF Joined, CheckState
<1>2. CASE Look(o) BY <1>2 DEF Look
<1>3. CASE TakeLock(o) BY <1>3 DEF TakeLock
<1>4. CASE TakeFlock(o) BY <1>4 DEF TakeFlock
<1>5. CASE Enter(o) \/ Leave(o) BY <1>5 DEF Enter, Leave
<1>6. CASE Release(o) \/ Die(o) BY <1>6 DEF Release, Die, ReleasesAll
<1>. QED BY <1>1, <1>2, <1>3, <1>4, <1>5, <1>6 DEF OpStep

(* An operation that takes no new file lock disturbs nobody.                *)
LEMMA FewerLocks ==
  ASSUME TypeOK, Excluded, NEW o \in Op, Alone(o),
         flocked'[o] = 0 \/ (flocked'[o] = flocked[o] /\ snap'[o] = snap[o])
  PROVE  Excluded'
<1>1. job' = job /\ \A p \in Op \ {o} : snap'[p] = snap[p] /\ flocked'[p] = flocked[p] BY DEF Alone
<1>2. ASSUME NEW p \in Op, NEW q \in Op, p # q, NEW i \in 1..flocked'[p], NEW j \in 1..flocked'[q],
             snap'[p][i].dir = snap'[q][j].dir
      PROVE  Shared(p, q)
  <2>1. \A r \in {p, q} : flocked'[r] = flocked[r] /\ snap'[r] = snap[r]
    <3>1. flocked'[p] # 0 /\ flocked'[q] # 0 BY <1>2
    <3>. QED BY <1>1, <3>1
  <2>. QED BY <1>2, <2>1 DEF Excluded
<1>. QED BY <1>1, <1>2 DEF Excluded, Shared

(* A lock is only taken beside readers, by a reader.                        *)
LEMMA OneMoreLock ==
  ASSUME TypeOK, Excluded, NEW o \in Op, TakeFlock(o)
  PROVE  Excluded'
<1>1. CASE flocked' = flocked BY <1>1 DEF TakeFlock, Excluded, Shared
<1>2. CASE flocked' = [flocked EXCEPT ![o] = flocked[o] + 1] /\ ~Flocked(o, snap[o][flocked[o] + 1].dir)
  <2>1. job' = job /\ snap' = snap BY DEF TakeFlock
  <2>2. \A p \in Op \ {o} : flocked'[p] = flocked[p] BY <1>2 DEF TypeOK
  <2>3. flocked'[o] = flocked[o] + 1 /\ flocked[o] \in Nat BY <1>2 DEF TypeOK
  <2>4. ASSUME NEW p \in Op \ {o}, NEW i \in 1..flocked'[o], NEW j \in 1..flocked[p],
               snap[o][i].dir = snap[p][j].dir
        PROVE  Shared(o, p)
    <3>1. CASE i \in 1..flocked[o] BY <2>4, <3>1 DEF Excluded
    <3>2. CASE i = flocked[o] + 1 BY <1>2, <2>4, <3>2 DEF Flocked, Holders, Shared
    <3>. QED BY <2>3, <3>1, <3>2
  <2>5. ASSUME NEW p \in Op, NEW q \in Op, p # q, NEW i \in 1..flocked'[p], NEW j \in 1..flocked'[q],
               snap[p][i].dir = snap[q][j].dir
        PROVE  Shared(p, q)
    <3>1. CASE p = o BY <2>2, <2>4, <2>5, <3>1
    <3>2. CASE q = o
      <4>1. Shared(q, p) BY <2>2, <2>4, <2>5, <3>2
      <4>. QED BY <4>1 DEF Shared
    <3>3. CASE p # o /\ q # o BY <2>2, <2>5, <3>3 DEF Excluded
    <3>. QED BY <3>1, <3>2, <3>3
  <2>. QED BY <2>1, <2>5 DEF Excluded, Shared
<1>. QED BY <1>1, <1>2 DEF TakeFlock

(* So each step of an operation keeps directories exclusive, ...            *)
LEMMA OpLocks ==
  ASSUME TypeOK, Entered, Excluded, NEW o \in Op, OpStep(o) \/ Die(o)
  PROVE  Entered' /\ Excluded'
<1>. DEFINE E(p) == /\ flocked[p] # 0 => at[p] \in {"locking", "inside", "leaving"}
                    /\ at[p] = "inside" => flocked[p] = Len(snap[p])
<1>1. Alone(o) BY OpAlone
<1>2. (E(o))'
  <2>1. CASE Joined(o) \/ Look(o) \/ CheckState(o)
        BY <2>1 DEF Joined, Look, CheckState, Goes, Entered, TypeOK, locks
  <2>2. CASE TakeLock(o) BY <2>2 DEF TakeLock, Goes, Entered, TypeOK
  <2>3. CASE TakeFlock(o) BY <2>3 DEF TakeFlock, Goes, Entered, TypeOK
  <2>4. CASE Leave(o) BY <2>4 DEF Leave, Goes, Entered, TypeOK, locks
  <2>5. CASE Enter(o) BY <2>5 DEF Enter, Goes, Entered, TypeOK, locks
  <2>6. CASE Release(o) \/ Die(o) BY <2>6 DEF Release, Die, ReleasesAll, Goes, Entered, TypeOK
  <2>. QED BY <2>1, <2>2, <2>3, <2>4, <2>5, <2>6 DEF OpStep
<1>3. Entered' BY <1>1, <1>2 DEF Alone, Entered
<1>4. Excluded'
  <2>1. CASE TakeFlock(o) BY <2>1, OneMoreLock
  <2>2. CASE ~TakeFlock(o)
    <3>1. flocked'[o] = 0 \/ (flocked'[o] = flocked[o] /\ snap'[o] = snap[o])
          BY <2>2 DEF OpStep, Joined, Look, CheckState, TakeLock, Enter, Leave, Release, Die,
                      ReleasesAll, Entered, TypeOK, locks
    <3>. QED BY <1>1, <3>1, FewerLocks
  <2>. QED BY <2>1, <2>2
<1>. QED BY <1>3, <1>4

-----------------------------------------------------------------------------
(* _operation_state *)

(* Why a zone may be entered as busy with k.                                *)
Works(z, k) == \E o \in Op : at[o] = "inside" /\ z \in Zones(o) /\ Keeps(o) /\ job[o].kind = k

(* ... and the states of zones true.                                        *)
LEMMA OpStates ==
  ASSUME TypeOK, StateKnown, NEW o \in Op, OpStep(o) \/ Die(o)
  PROVE  StateKnown'
<1>1. Alone(o) BY OpAlone
<1>2. CASE Enter(o)
  <2>1. at'[o] = "inside" /\ \A p \in Op : at[p] = "inside" => at'[p] = "inside"
        BY <1>2 DEF Enter, Goes, TypeOK
  <2>2. ASSUME NEW z \in Zone, opState'[z] # None PROVE (Works(z, opState[z]))'
    <3>1. CASE Keeps(o) /\ z \in Zones(o) BY <1>2, <2>1, <3>1 DEF Enter, Keeps, Works, Zones
    <3>2. CASE ~(Keeps(o) /\ z \in Zones(o))
      <4>1. opState'[z] = opState[z] /\ job' = job BY <1>2, <3>2 DEF Enter
      <4>2. PICK p \in Op : at[p] = "inside" /\ z \in Zones(p) /\ Keeps(p) /\ job[p].kind = opState[z]
            BY <2>2, <4>1 DEF StateKnown
      <4>. QED BY <2>1, <4>1, <4>2 DEF Works, Zones, Keeps
    <3>. QED BY <3>1, <3>2
  <2>. QED BY <2>2 DEF StateKnown, Works
<1>3. CASE Leave(o)
  <2>1. ASSUME NEW z \in Zone, opState'[z] # None PROVE (Works(z, opState[z]))'
    <3>1. opState'[z] = opState[z] /\ ~(Keeps(o) /\ z \in Zones(o) /\ opState[z] = job[o].kind)
          BY <1>3, <2>1 DEF Leave
    <3>2. PICK p \in Op : at[p] = "inside" /\ z \in Zones(p) /\ Keeps(p) /\ job[p].kind = opState[z]
          BY <2>1, <3>1 DEF StateKnown
    <3>3. p # o BY <3>1, <3>2
    <3>. QED BY <1>1, <3>1, <3>2, <3>3 DEF Alone, Works, Zones, Keeps
  <2>. QED BY <2>1 DEF StateKnown, Works
<1>4. CASE ~Enter(o) /\ ~Leave(o)
  <2>1. opState' = opState
        BY <1>4 DEF OpStep, Joined, Look, CheckState, TakeLock, TakeFlock, Release, Die, ReleasesAll
  <2>2. at[o] # "inside" \/ ~job[o].daemon
        BY <1>4 DEF OpStep, Joined, Look, CheckState, TakeLock, TakeFlock, Release, Die
  <2>3. ASSUME NEW z \in Zone, opState[z] # None PROVE (Works(z, opState[z]))'
    <3>1. PICK p \in Op : at[p] = "inside" /\ z \in Zones(p) /\ Keeps(p) /\ job[p].kind = opState[z]
          BY <2>3 DEF StateKnown
    <3>2. p # o BY <2>2, <3>1 DEF Keeps
    <3>. QED BY <1>1, <2>1, <3>1, <3>2 DEF Alone, Works, Zones, Keeps
  <2>. QED BY <2>1, <2>3 DEF StateKnown, Works
<1>. QED BY <1>2, <1>3, <1>4

-----------------------------------------------------------------------------
(* At first nobody is inside.                                               *)
LEMMA InitInv == Init => Inv
<1>. SUFFICES ASSUME Init PROVE Inv OBVIOUS
<1>. USE DEF Init
<1>1. TypeOK
  <2>1. << >> \in Seq(Found) OBVIOUS
  <2>2. registry \in [Zone -> Found \union {None}] BY ZonesAssumption DEF Found
  <2>. QED BY <2>1, <2>2, ZonesAssumption DEF TypeOK, Point
<1>2. OwnerScans BY DEF OwnerScans
<1>3. Entered BY DEF Entered
<1>4. Excluded BY DEF Excluded
<1>5. StateKnown BY DEF StateKnown
<1>. QED BY <1>1, <1>2, <1>3, <1>4, <1>5 DEF Inv

(* Every step keeps the invariant.                                          *)
LEMMA NextInv == Inv /\ [Next]_vars => Inv'
<1>. SUFFICES ASSUME Inv, [Next]_vars PROVE Inv' OBVIOUS
<1>. USE DEF Inv
<1>1. TypeOK' BY TypeInv
<1>2. OwnerScans' BY OwnerInv
<1>3. ASSUME NEW o \in Op, OpStep(o) \/ Die(o) PROVE Entered' /\ Excluded' /\ StateKnown'
  BY <1>3, OpLocks, OpStates
<1>4. CASE ~\E o \in Op : OpStep(o) \/ Die(o)
  <2>1. Apart BY <1>4, RefreshApart DEF Next
  <2>. QED BY <1>1, <1>2, <2>1, ApartKeeps
<1>. QED BY <1>1, <1>2, <1>3, <1>4

(* Entries are found, kept and dropped as wholes: no operation goes on with *)
(* a zone that a scan has removed before it looked (zone_operation and      *)
(* transfer_operation read the registry under its lock).                    *)
THEOREM ZonesTyped == Spec => []TypeOK
<1>1. Inv => TypeOK BY DEF Inv
<1>. QED BY InitInv, NextInv, <1>1, PTL DEF Spec

(* In a directory, an operation that needs it alone is alone, although the  *)
(* registry may have given the zone another thread lock meanwhile, and      *)
(* whatever other processes do (operation_lock).                            *)
THEOREM DirectoriesExclusive == Spec => []Exclusive
<1>1. Inv => Exclusive
  <2>. SUFFICES ASSUME Inv, NEW o \in Op, NEW p \in Op, o # p, at[o] = "inside", at[p] = "inside",
                       NEW i \in 1..Len(snap[o]), NEW j \in 1..Len(snap[p]), snap[o][i].dir = snap[p][j].dir
                PROVE  Shared(o, p)
       BY DEF Exclusive, Dirs, Shared
  <2>1. flocked[o] = Len(snap[o]) /\ flocked[p] = Len(snap[p]) BY DEF Inv, Entered
  <2>. QED BY <2>1 DEF Inv, Excluded
<1>. QED BY InitInv, NextInv, <1>1, PTL DEF Spec

(* What _operation_state says of a zone is true of an operation that goes   *)
(* on: zone_busy is never the answer for ever.                              *)
THEOREM StatesTrue == Spec => []StateKnown
<1>1. Inv => StateKnown BY DEF Inv
<1>. QED BY InitInv, NextInv, <1>1, PTL DEF Spec

(* Once close() has returned, no scan goes on and none begins: a scan       *)
(* begins only while nobody has asked to close, and close() waits for it.   *)
THEOREM ClosesForGood == Spec => []ClosedForGood
<1>1. Init => ClosedForGood BY DEF Init, ClosedForGood
<1>2. ClosedForGood /\ [Next]_vars => ClosedForGood'
  <2>. SUFFICES ASSUME ClosedForGood, [Next]_vars PROVE ClosedForGood' OBVIOUS
  <2>. USE DEF ClosedForGood, refresh
  <2>1. ASSUME NEW z \in Zone, OpenZone(z) PROVE ClosedForGood' BY <2>1 DEF OpenZone
  <2>2. CASE Install \/ ScanFails BY <2>2 DEF Install, ScanFails, EndScan
  <2>3. CASE StartBackground \/ Close \/ EndClose BY <2>3 DEF StartBackground, Close, EndClose
  <2>4. ASSUME NEW o \in Op, Arrive(o) PROVE ClosedForGood' BY <2>4 DEF Arrive, Asks
  <2>5. ASSUME NEW o \in Op, OpStep(o) \/ Die(o) PROVE ClosedForGood'
    BY <2>5 DEF OpStep, Joined, Look, CheckState, TakeLock, TakeFlock, Enter, Leave, Release, Die, ReleasesAll
  <2>6. ASSUME NEW z \in Collected, MoveZone(z) PROVE ClosedForGood' BY <2>6 DEF MoveZone
  <2>7. CASE UNCHANGED vars BY <2>7 DEF vars
  <2>. QED BY <2>1, <2>2, <2>3, <2>4, <2>5, <2>6, <2>7 DEF Next, ScanStep
<1>. QED BY <1>1, <1>2, PTL DEF Spec
=============================================================================
