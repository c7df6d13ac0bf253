----------------------------- MODULE ZoneOperations -----------------------------
(***************************************************************************)
(* Operations on zones by PasteService (runtime/service.py): how they find *)
(* a zone in the registry, which a discovery scan replaces as a whole, and *)
(* which locks they take: the thread lock of each zone, then the file lock *)
(* of its directory.                                                       *)
(*                                                                         *)
(* The daemon runs its operations in threads; a command runs one operation *)
(* in a process of its own, where nobody competes for the thread locks.    *)
(* The two file locks of a directory (operation_lock in storage.py) are    *)
(* taken and given back together, and are one lock here.                   *)
(***************************************************************************)
EXTENDS Naturals, Sequences, FiniteSets

CONSTANTS
  None,
  Zone,       \* zone identifiers
  Collected,  \* those a zone collection discovers; the others are configured
  Dir,        \* directories, numbered in the order of their path names
  Home,       \* the directory of each zone at first
  Op,         \* bound: operations in one behaviour
  Jobs,       \* what the operations may be asked to do: functions on Op
  MaxMoves    \* bound: times a zone vanishes, appears or changes its directory

VARIABLES
  disk,       \* the directory a scan would accept for each zone
  moves,
  registry,   \* the daemon's tables: directory and thread lock of each zone
  made,       \* thread locks made for each zone
  scan,       \* the refresh in progress
  passed,     \* operations whose refresh, which they wait for, is over
  closing,    \* close(): "no", "waiting" for the scan, "closed"
  job, at,
  snap,       \* zones of each operation, as it found them, in locking order
  locked,     \* how many of their thread locks it holds
  flocked,    \* how many of their directories it has locked
  opState     \* _operation_state of the daemon

world == <<disk, moves>>
refresh == <<registry, made, scan, passed, closing>>
locks == <<snap, locked, flocked>>
vars == <<disk, moves, registry, made, scan, passed, closing, job, at, snap, locked, flocked, opState>>

(* An "upload" is any other exclusive operation too (delete, rename, update *)
(* of a comment), a "read" a preview or an archive.                         *)
Kind == {"upload", "delete_batch", "history", "transfer", "read"}
JobType == [kind : Kind, zones : Seq(Zone), daemon : BOOLEAN, exclusive : BOOLEAN,
            blocking : BOOLEAN, refresh : BOOLEAN]

ASSUME SetsAssumption == IsFiniteSet(Op) /\ None \notin Kind \union Nat \union Op /\ Dir \subseteq Nat
ASSUME JobsAssumption == Jobs \subseteq [Op -> JobType]
ASSUME ZonesAssumption == Home \in [Zone -> Dir] /\ Collected \subseteq Zone /\ MaxMoves \in Nat

Init ==
  /\ disk = Home /\ moves = 0
  /\ registry = [z \in Zone |-> [dir |-> Home[z], lock |-> <<z, 1>>]] /\ made = [z \in Zone |-> 1]
  /\ scan = None /\ passed = {} /\ closing = "no"
  /\ job \in Jobs /\ at = [o \in Op |-> "new"]
  /\ snap = [o \in Op |-> << >>]
  /\ locked = [o \in Op |-> 0] /\ flocked = [o \in Op |-> 0]
  /\ opState = [z \in Zone |-> None]

Goes(o, point) == at' = [at EXCEPT ![o] = point]
Zones(o) == {job[o].zones[i] : i \in DOMAIN job[o].zones}
Holders(d) == {o \in Op : \E i \in 1..flocked[o] : snap[o][i].dir = d}

-----------------------------------------------------------------------------
(* Refresh: one scan at a time; who asks meanwhile waits for it to end.     *)

Known(z) == registry[z] # None /\ registry[z].dir = disk[z]

(* The walk: what the roots contain now; the directories that have no       *)
(* destination yet are to be opened.                                        *)
StartScan(owner) ==
  scan' = [owner |-> owner, found |-> disk, left |-> {z \in Zone : disk[z] # None /\ ~Known(z)}]

(* Mistake: refreshes have no number, and whoever waits only looks whether  *)
(* one is in progress.                                                      *)
EndScanUnnumbered(point) ==
  /\ scan' = None /\ UNCHANGED passed
  /\ IF scan.owner \in Op THEN Goes(scan.owner, point) ELSE UNCHANGED at

(* The owner goes on, and so do all who wait: the refresh has a number.     *)
EndScan(point) ==
  /\ scan' = None /\ passed' = passed \union {o \in Op : at[o] = "joining"}
  /\ IF scan.owner \in Op THEN Goes(scan.owner, point) ELSE UNCHANGED at

Asks(o) == job[o].daemon /\ job[o].refresh /\ closing = "no"

Arrive(o) ==
  /\ at[o] = "new"
  /\ \/ Asks(o) /\ scan = None /\ Goes(o, "scanning") /\ StartScan(o)
     \/ Asks(o) /\ scan # None /\ Goes(o, "joining") /\ UNCHANGED scan
     \/ ~Asks(o) /\ Goes(o, "looking") /\ UNCHANGED scan
  /\ UNCHANGED <<world, registry, made, passed, closing, job, locks, opState>>

Joined(o) ==
  /\ at[o] = "joining" /\ (scan = None \/ o \in passed) /\ Goes(o, "looking")
  /\ passed' = passed \ {o}
  /\ UNCHANGED <<world, registry, made, scan, closing, job, locks, opState>>

(* Mistake: an overview does not look whether the service is closing.       *)
StartBackgroundAlways ==
  /\ scan = None /\ StartScan(None)
  /\ UNCHANGED <<world, registry, made, passed, closing, job, at, locks, opState>>

(* An overview starts a scan in a thread of its own.                        *)
StartBackground ==
  /\ scan = None /\ closing = "no" /\ StartScan(None)
  /\ UNCHANGED <<world, registry, made, passed, closing, job, at, locks, opState>>

(* A new destination reconciles its directory under the exclusive lock; one *)
(* that has vanished is left out.                                           *)
OpenZone(z) ==
  /\ scan # None /\ z \in scan.left
  /\ \/ disk[z] = scan.found[z] /\ Holders(disk[z]) = {}
        /\ scan' = [scan EXCEPT !.left = @ \ {z}]
     \/ disk[z] # scan.found[z]
        /\ scan' = [scan EXCEPT !.left = @ \ {z}, !.found = [@ EXCEPT ![z] = None]]
  /\ UNCHANGED <<world, registry, made, passed, closing, job, at, locks, opState>>

(* The tables are replaced at once; a zone that stays keeps its thread      *)
(* lock, and one that has vanished since the walk is left out.              *)
Install ==
  /\ scan # None /\ scan.left = {}
  /\ LET stays(z) == scan.found[z] # None /\ disk[z] = scan.found[z]
         fresh(z) == stays(z) /\ registry[z] = None
     IN  /\ made' = [z \in Zone |-> IF fresh(z) THEN made[z] + 1 ELSE made[z]]
         /\ registry' = [z \in Zone |->
              IF ~stays(z) THEN None
              ELSE [dir |-> scan.found[z], lock |-> IF fresh(z) THEN <<z, made[z] + 1>> ELSE registry[z].lock]]
  /\ EndScan("looking")
  /\ UNCHANGED <<world, closing, job, locks, opState>>

(* Walking the roots or opening a configured zone raises.                   *)
ScanFails ==
  /\ scan # None /\ EndScan("done")
  /\ UNCHANGED <<world, registry, made, closing, job, locks, opState>>

Close ==
  /\ closing = "no" /\ closing' = "waiting"
  /\ UNCHANGED <<world, registry, made, scan, passed, job, at, locks, opState>>

(* Mistake: close() does not wait for the scan under way.                   *)
EndCloseAtOnce ==
  /\ closing = "waiting" /\ closing' = "closed"
  /\ UNCHANGED <<world, registry, made, scan, passed, job, at, locks, opState>>

EndClose ==
  /\ closing = "waiting" /\ scan = None /\ closing' = "closed"
  /\ UNCHANGED <<world, registry, made, scan, passed, job, at, locks, opState>>

-----------------------------------------------------------------------------
(* zone_operation, transfer_operation, open_preview *)

(* A command has the tables of its own process, made when it looks.         *)
Entry(o, z) ==
  IF job[o].daemon THEN registry[z]
  ELSE IF disk[z] = None THEN None ELSE [dir |-> disk[z], lock |-> <<z, 0>>]

(* Mistake: the source is locked before the target.                         *)
OrderAsGiven(s) == s

(* Two zones are locked in the order of their directories.                  *)
Order(s) == IF Len(s) = 2 /\ s[1].dir > s[2].dir THEN << s[2], s[1] >> ELSE s

(* Mistake: nobody looks whether the zone is still there.                   *)
LookUnchecked(o) ==
  /\ at[o] = "looking"
  /\ snap' = [snap EXCEPT ![o] = [i \in DOMAIN job[o].zones |-> Entry(o, job[o].zones[i])]]
  /\ Goes(o, "locking")
  /\ UNCHANGED <<world, refresh, job, locked, flocked, opState>>

Look(o) ==
  /\ at[o] = "looking"
  /\ \/ /\ \E z \in Zones(o) : Entry(o, z) = None
        /\ Goes(o, "done") /\ UNCHANGED snap
     \/ /\ \A z \in Zones(o) : Entry(o, z) # None
        /\ snap' = [snap EXCEPT ![o] = Order([i \in DOMAIN job[o].zones |-> Entry(o, job[o].zones[i])])]
        /\ Goes(o, IF job[o].kind \in {"transfer", "read"} THEN "locking" ELSE "checking")
  /\ UNCHANGED <<world, refresh, job, locked, flocked, opState>>

(* A zone that is busy with a batch deletion is not waited for.             *)
CheckState(o) ==
  /\ at[o] = "checking"
  /\ Goes(o, IF job[o].daemon /\ \E z \in Zones(o) : opState[z] = "delete_batch"
             THEN "leaving" ELSE "locking")
  /\ UNCHANGED <<world, refresh, job, locks, opState>>

(* Reading bypasses the thread locks.                                       *)
Threads(o) == IF job[o].daemon /\ job[o].kind # "read" THEN Len(snap[o]) ELSE 0

LockHeld(o, l) == \E p \in Op \ {o} : \E i \in 1..locked[p] : snap[p][i].lock = l

TakeLock(o) ==
  LET n == locked[o] + 1 IN
  /\ at[o] = "locking" /\ n <= Threads(o)
  /\ \/ /\ ~LockHeld(o, snap[o][n].lock)
        /\ locked' = [locked EXCEPT ![o] = n] /\ UNCHANGED at
     \/ /\ LockHeld(o, snap[o][n].lock) /\ ~job[o].blocking
        /\ Goes(o, "leaving") /\ UNCHANGED locked
  /\ UNCHANGED <<world, refresh, job, snap, flocked, opState>>

(* Mistake: a file lock that belongs to the process, as fcntl() locks do.   *)
FlockedByProcess(o, d) ==
  \E p \in Holders(d) \ {o} : (job[o].exclusive \/ job[p].exclusive) /\ ~(job[o].daemon /\ job[p].daemon)

Flocked(o, d) == \E p \in Holders(d) \ {o} : job[o].exclusive \/ job[p].exclusive

(* The directory is opened under its name, and may not be there any more.   *)
TakeFlock(o) ==
  LET n == flocked[o] + 1 IN
  /\ at[o] = "locking" /\ locked[o] = Threads(o) /\ n <= Len(snap[o])
  /\ \/ /\ ~Flocked(o, snap[o][n].dir) /\ \E z \in Zone : disk[z] = snap[o][n].dir
        /\ flocked' = [flocked EXCEPT ![o] = n] /\ UNCHANGED at
     \/ /\ IF Flocked(o, snap[o][n].dir) THEN ~job[o].blocking
           ELSE \A z \in Zone : disk[z] # snap[o][n].dir
        /\ Goes(o, "leaving") /\ UNCHANGED flocked
  /\ UNCHANGED <<world, refresh, job, snap, locked, opState>>

Keeps(o) == job[o].daemon /\ job[o].kind # "read"

Enter(o) ==
  /\ at[o] = "locking" /\ locked[o] = Threads(o) /\ flocked[o] = Len(snap[o])
  /\ Goes(o, "inside")
  /\ opState' = [z \in Zone |-> IF Keeps(o) /\ z \in Zones(o) THEN job[o].kind ELSE opState[z]]
  /\ UNCHANGED <<world, refresh, job, locks>>

(* Mistake: only the first zone of a transfer is entered out.               *)
LeaveFirst(o) ==
  /\ at[o] = "inside" /\ Goes(o, "leaving")
  /\ opState' = [z \in Zone |->
       IF Keeps(o) /\ z = job[o].zones[1] /\ opState[z] = job[o].kind THEN None ELSE opState[z]]
  /\ UNCHANGED <<world, refresh, job, locks>>

(* The work is done, or has failed. Another kind that was entered meanwhile *)
(* (under another thread lock, in another directory) is left alone.         *)
Leave(o) ==
  /\ at[o] = "inside" /\ Goes(o, "leaving")
  /\ opState' = [z \in Zone |->
       IF Keeps(o) /\ z \in Zones(o) /\ opState[z] = job[o].kind THEN None ELSE opState[z]]
  /\ UNCHANGED <<world, refresh, job, locks>>

ReleasesAll(o) ==
  /\ Goes(o, "done") /\ snap' = [snap EXCEPT ![o] = << >>]
  /\ locked' = [locked EXCEPT ![o] = 0] /\ flocked' = [flocked EXCEPT ![o] = 0]
  /\ UNCHANGED <<world, refresh, job, opState>>

(* The file locks and then the thread locks are given back: whoever gets a  *)
(* file lock in between is a command, or under another thread lock.         *)
Release(o) == at[o] = "leaving" /\ ReleasesAll(o)

(* A command is killed: the system gives its file locks back.               *)
Die(o) == ~job[o].daemon /\ at[o] \notin {"new", "done"} /\ ReleasesAll(o)

-----------------------------------------------------------------------------
(* A project directory vanishes, appears, or gives way to another one from  *)
(* whose path the same identifier is made.                                  *)
MoveZone(z) ==
  /\ moves < MaxMoves /\ moves' = moves + 1
  /\ \E d \in (Dir \ {disk[y] : y \in Zone}) \union {None} : d # disk[z] /\ disk' = [disk EXCEPT ![z] = d]
  /\ UNCHANGED <<refresh, job, at, locks, opState>>

ScanStep == Install \/ \E z \in Zone : OpenZone(z)

OpStep(o) ==
  \/ Joined(o) \/ Look(o) \/ CheckState(o) \/ TakeLock(o) \/ TakeFlock(o)
  \/ Enter(o) \/ Leave(o) \/ Release(o)

Next ==
  \/ ScanStep \/ ScanFails \/ StartBackground \/ Close \/ EndClose
  \/ \E o \in Op : Arrive(o) \/ OpStep(o) \/ Die(o)
  \/ \E z \in Collected : MoveZone(z)

Spec == Init /\ [][Next]_vars

(* Threads run, also the one that scans; nothing obliges a request to come. *)
LiveSpec == Spec /\ WF_vars(ScanStep) /\ WF_vars(EndClose) /\ \A o \in Op : WF_vars(OpStep(o))

-----------------------------------------------------------------------------
Point == {"new", "joining", "scanning", "looking", "checking", "locking", "inside", "leaving", "done"}
Found == [dir : Dir, lock : Zone \X Nat]

(* Types; in particular an operation that looks its zones up holds an entry *)
(* for each of them, whatever a scan removed meanwhile.                     *)
TypeOK ==
  /\ disk \in [Zone -> Dir \union {None}] /\ moves \in 0..MaxMoves
  /\ registry \in [Zone -> Found \union {None}] /\ made \in [Zone -> Nat]
  /\ scan = None \/ scan \in [owner : Op \union {None}, found : [Zone -> Dir \union {None}], left : SUBSET Zone]
  /\ passed \subseteq Op /\ closing \in {"no", "waiting", "closed"}
  /\ job \in Jobs /\ at \in [Op -> Point]
  /\ snap \in [Op -> Seq(Found)] /\ locked \in [Op -> Nat] /\ flocked \in [Op -> Nat]
  /\ opState \in [Zone -> Kind \union {None}]

Dirs(o) == {snap[o][i].dir : i \in 1..Len(snap[o])}

(* Two operations work in a directory at once only if both only read, also  *)
(* after the registry has dropped and found a zone again, whose operations  *)
(* then have different thread locks, and between processes.                 *)
Exclusive ==
  \A o, p \in Op : o # p /\ at[o] = "inside" /\ at[p] = "inside" /\ Dirs(o) \cap Dirs(p) # {}
    => ~job[o].exclusive /\ ~job[p].exclusive

(* A zone is entered as busy only while an operation of that kind works on  *)
(* it: the entry is shared by operations under different thread locks, and  *)
(* one left behind would refuse the zone for ever.                          *)
StateKnown ==
  \A z \in Zone : opState[z] # None =>
    \E o \in Op : at[o] = "inside" /\ z \in Zones(o) /\ Keeps(o) /\ job[o].kind = opState[z]

(* No scan goes on, and none begins, once close() has returned.             *)
ClosedForGood == closing = "closed" => scan = None

(* Every operation ends, whatever waits for whatever: transfers in opposite *)
(* directions, operations that wait for a scan, and the scan that waits for *)
(* the directories of operations; a request that joined a scan does not     *)
(* wait for the next ones.                                                  *)
OperationsEnd == \A o \in Op : (at[o] # "new") ~> (at[o] = "done")

(* close() returns although overviews go on asking for scans.               *)
CloseEnds == (closing = "waiting") ~> (closing = "closed")
=============================================================================
