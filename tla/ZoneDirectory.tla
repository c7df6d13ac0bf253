----------------------------- MODULE ZoneDirectory -----------------------------
(***************************************************************************)
(* One zone directory and the file operations that LocalDestination        *)
(* (runtime/storage.py) composes into transactions.                        *)
(*                                                                         *)
(* The directory maps names to inodes.  A transaction is a script: a       *)
(* sequence of steps, each one of the helpers _write_transaction_file,     *)
(* _move_expected, _link_expected, _remove_expected, ... of storage.py.    *)
(* A step runs in up to four stages (look at the identity, change the      *)
(* directory, look again, unlink), so that a process outside Pasteberth    *)
(* may change a public name between any two of them and the process may    *)
(* stop there.                                                             *)
(*                                                                         *)
(* External writers touch public names only: private names carry 96 random *)
(* bits.  Only one cooperating process at a time is inside the directory   *)
(* (operation_lock), so one script runs at a time.                         *)
(***************************************************************************)
EXTENDS Naturals, Sequences

CONSTANTS
  None,         \* no entry under a name
  ForeignFile,  \* files an external writer may put under a public name
  Trash,        \* bound: anonymous .pbtrash-<random>.data names in one behaviour
  MaxFaults     \* bound: system calls that fail in one behaviour

VARIABLES
  dir,      \* the directory: name -> inode or None
  todo,     \* steps left of the running script
  stage,    \* stage of the step at the head of todo
  moved,    \* quarantine name the step under way moved its entry to
  ok,       \* FALSE once a step of the running script has failed
  handles,  \* quarantine names holding this run's recovery copies
  faults,   \* system calls that have failed
  used      \* foreign files that have appeared

dirVars == <<dir, todo, stage, moved, ok, handles, faults, used>>

Part    == {"data", "meta"}
Named   == {"public", "source", "target", "temp", "backup", "guard", "spare"} \X Part
Journal == {"journal"} \X {"marker", "commit"}
Scrap   == {"trash"} \X Trash
Entry   == Named \union Journal
Name    == Entry \union Scrap

File    == {"old", "new"} \X Part
Own     == File \union Journal
Foreign == {"foreign"} \X ForeignFile
Inode   == Own \union Foreign

Marker == <<"journal", "marker">>
Commit == <<"journal", "commit">>
IsPublic(n) == n[1] \in {"public", "source", "target"}

ASSUME NoneAssumption == None \notin Inode /\ None \notin Name
ASSUME FaultAssumption == MaxFaults \in Nat

Links(d, i) == {n \in Name : d[n] = i}
Set(d, n, i) == [d EXCEPT ![n] = i]
Renamed(d, from, to) == [d EXCEPT ![to] = d[from], ![from] = None]
FreshScrap == {n \in Scrap \ handles : dir[n] = None}
FixedScrap == Marker  \* mistake: recovery copies under one fixed name
FreeScrap == CHOOSE n \in FreshScrap : TRUE
RecoveryNames(i) == {n \in Scrap : dir[n] = i}
Holds(pair) == \A p \in pair : dir[p[1]] = p[2]

-----------------------------------------------------------------------------
(* Steps.  name is the entry acted on, to the second name, from the named   *)
(* candidates to restore it from, id the identity expected, pair the public *)
(* identities that must still hold; guarded marks a removal made under      *)
(* _cleanup_pair_guard; a strict step ends its script when it fails.        *)

Op == {"write", "move", "settle", "link", "drop", "retract", "flush", "restore", "reclaim",
       "relink", "heal", "adopt", "retain", "preserve", "expect", "gone", "assert", "close", "purge"}

Stage == {"look", "act", "confirm", "unlink"}

Pairs == SUBSET (Entry \X (Own \union {None}))

Step == [op : Op, name : Entry, to : Entry, from : SUBSET Entry, id : Own \union {None},
         pair : Pairs, guarded : BOOLEAN, strict : BOOLEAN]

Flush == [op |-> "flush", name |-> Marker, to |-> Marker, from |-> {}, id |-> None,
          pair |-> {}, guarded |-> FALSE, strict |-> TRUE]

Write(n, i)         == [Flush EXCEPT !.op = "write", !.name = n, !.id = i]
Log(n)              == Write(n, n)
Move(n, t, i)       == [Flush EXCEPT !.op = "move", !.name = n, !.to = t, !.id = i]
Settle(n, t, i)     == [Move(n, t, i) EXCEPT !.op = "settle"]
Link(n, t, i)       == [Flush EXCEPT !.op = "link", !.name = n, !.to = t, !.id = i]
Drop(n, i)          == [Flush EXCEPT !.op = "drop", !.name = n, !.id = i]
Retract(n, i)       == [Drop(n, i) EXCEPT !.op = "retract"]
DropIf(pair, n, i)  == [Drop(n, i) EXCEPT !.pair = pair]
Guarded(pair, n, i) == [DropIf(pair, n, i) EXCEPT !.guarded = TRUE]
Restore(n, c, i)    == [Flush EXCEPT !.op = "restore", !.name = n, !.from = {c}, !.id = i]
Reclaim(n, t, cs, i) == [Flush EXCEPT !.op = "reclaim", !.name = n, !.to = t, !.from = cs, !.id = i]
Relink(n, cs, i)    == [Flush EXCEPT !.op = "relink", !.name = n, !.from = cs, !.id = i]
Adopt(pair)         == [Flush EXCEPT !.op = "adopt", !.pair = pair]
Heal(n, i)          == [Flush EXCEPT !.op = "heal", !.name = n, !.id = i]
Retain(n, i)        == [Flush EXCEPT !.op = "retain", !.name = n, !.id = i]
Preserve(n, copies) == [Flush EXCEPT !.op = "preserve", !.name = n, !.id = n, !.pair = copies]
Expect(n, i)        == [Flush EXCEPT !.op = "expect", !.name = n, !.id = i]
Gone(n, i)          == [Flush EXCEPT !.op = "gone", !.name = n, !.id = i]
Assert(pair)        == [Flush EXCEPT !.op = "assert", !.pair = pair]
Close(pair)         == [Flush EXCEPT !.op = "close", !.pair = pair]
Purge(i)            == [Flush EXCEPT !.op = "purge", !.id = i]
Leniently(s)        == [s EXCEPT !.strict = FALSE]
-----------------------------------------------------------------------------
(* Execution of the step at the head of the script. *)

step == Head(todo)
At(ops, st) == todo # <<>> /\ step.op \in ops /\ stage = st

Pass == /\ todo' = Tail(todo) /\ stage' = "look" /\ moved' = None
        /\ UNCHANGED ok
Miss == /\ todo' = IF step.strict THEN <<>> ELSE Tail(todo)
        /\ stage' = "look" /\ moved' = None /\ ok' = FALSE
GoOn(st, m) == stage' = st /\ moved' = m /\ UNCHANGED <<todo, ok>>

(* _move_expected, _link_expected: the source must be the expected inode. *)
LookAtSource ==
  /\ At({"move", "link"}, "look")
  /\ IF dir[step.name] = step.id THEN GoOn("act", None) ELSE Miss
  /\ UNCHANGED <<dir, handles, faults, used>>

(* Finishing a deletion moves only an entry that is still there. *)
LookAtLeftover ==
  /\ At({"settle"}, "look")
  /\ IF dir[step.name] = step.id /\ dir[step.to] = None THEN GoOn("act", None) ELSE Pass
  /\ UNCHANGED <<dir, handles, faults, used>>

(* rename without replacement: whatever is now under the name moves. *)
RenameEntry ==
  /\ At({"move", "settle"}, "act")
  /\ IF dir[step.name] # None /\ dir[step.to] = None
       THEN dir' = Renamed(dir, step.name, step.to) /\ GoOn("confirm", None)
       ELSE Miss /\ UNCHANGED dir
  /\ UNCHANGED <<handles, faults, used>>

(* The entry that moved is the expected one, or goes back if it still can. *)
ConfirmRename ==
  /\ At({"move", "settle"}, "confirm")
  /\ IF dir[step.to] = step.id
       THEN Pass /\ UNCHANGED dir
       ELSE /\ Miss
            /\ dir' = IF dir[step.to] # None /\ dir[step.name] = None
                         THEN Renamed(dir, step.to, step.name) ELSE dir
  /\ UNCHANGED <<handles, faults, used>>

LinkEntry ==
  /\ At({"link"}, "act")
  /\ IF dir[step.name] # None /\ dir[step.to] = None
       THEN dir' = Set(dir, step.to, dir[step.name]) /\ GoOn("confirm", None)
       ELSE Miss /\ UNCHANGED dir
  /\ UNCHANGED <<handles, faults, used>>

ConfirmLink ==
  /\ At({"link"}, "confirm")
  /\ IF dir[step.to] = step.id THEN Pass ELSE Miss
  /\ UNCHANGED <<dir, handles, faults, used>>

(* _remove_expected: nothing there is success, another inode is failure; a  *)
(* guarded removal first links a recovery copy under an anonymous name.     *)
(* Retracting a public name leaves alone what is not the expected inode.    *)
LookAtVictim ==
  /\ At({"drop"}, "look")
  /\ \/ /\ Holds(step.pair) /\ dir[step.name] = None
        /\ Pass /\ UNCHANGED <<dir, handles>>
     \/ /\ ~Holds(step.pair) \/ dir[step.name] \notin {None, step.id}
        /\ Miss /\ UNCHANGED <<dir, handles>>
     \/ /\ Holds(step.pair) /\ dir[step.name] = step.id
        /\ GoOn("act", None)
        /\ \/ ~step.guarded /\ UNCHANGED <<dir, handles>>
           \/ /\ step.guarded /\ FreshScrap # {}
              /\ dir' = Set(dir, FreeScrap, step.id) /\ handles' = handles \union {FreeScrap}
  /\ UNCHANGED <<faults, used>>

LookAtOwn ==
  /\ At({"retract"}, "look")
  /\ IF dir[step.name] = step.id THEN GoOn("act", None) ELSE Pass
  /\ UNCHANGED <<dir, handles, faults, used>>

Quarantine ==
  /\ At({"drop", "retract"}, "act") /\ FreshScrap # {}
  /\ IF dir[step.name] # None
       THEN dir' = Renamed(dir, step.name, FreeScrap) /\ GoOn("confirm", FreeScrap)
       ELSE Miss /\ UNCHANGED dir
  /\ UNCHANGED <<handles, faults, used>>

(* Mistake: whatever was quarantined is unlinked. *)
DiscardUnchecked ==
  /\ At({"drop", "retract"}, "confirm") /\ GoOn("unlink", moved)
  /\ UNCHANGED <<dir, handles, faults, used>>

(* The quarantined entry is to be unlinked, unless it is not the one        *)
(* expected or the guarded pair broke meanwhile: then it goes back if it    *)
(* still can.                                                               *)
Discard ==
  /\ At({"drop", "retract"}, "confirm")
  /\ IF dir[moved] = step.id /\ (step.guarded => Holds(step.pair))
       THEN GoOn("unlink", moved) /\ UNCHANGED dir
       ELSE /\ Miss
            /\ dir' = IF dir[step.name] = None THEN Renamed(dir, moved, step.name) ELSE dir
  /\ UNCHANGED <<handles, faults, used>>

(* _unlink_expected of what was quarantined, whatever became of the pair    *)
(* since the look at it.                                                    *)
UnlinkEntry ==
  /\ At({"drop", "retract"}, "unlink")
  /\ Pass /\ dir' = Set(dir, moved, None)
  /\ UNCHANGED <<handles, faults, used>>

(* _write_transaction_file and the two temporary files. *)
WriteFile ==
  /\ At({"write"}, "look")
  /\ IF dir[step.name] = None
       THEN Pass /\ dir' = Set(dir, step.name, step.id)
       ELSE Miss /\ UNCHANGED dir
  /\ UNCHANGED <<handles, faults, used>>

Sync ==
  /\ At({"flush"}, "look") /\ Pass
  /\ UNCHANGED <<dir, handles, faults, used>>

Check ==
  /\ At({"assert"}, "look")
  /\ IF Holds(step.pair) THEN Pass ELSE Miss
  /\ UNCHANGED <<dir, handles, faults, used>>

CheckNoForeign ==
  /\ At({"expect"}, "look")
  /\ IF dir[step.name] \in {None, step.id} THEN Pass ELSE Miss
  /\ UNCHANGED <<dir, handles, faults, used>>

CheckGone ==
  /\ At({"gone"}, "look")
  /\ IF dir[step.name] # step.id THEN Pass ELSE Miss
  /\ UNCHANGED <<dir, handles, faults, used>>

(* Rollback puts one old entry back under its public name, by a link from   *)
(* its backup or from an anonymous copy, if the name is free.               *)
Sources(cs) == {n \in cs \union RecoveryNames(step.id) : dir[n] = step.id}
RestoreEntry ==
  /\ At({"restore"}, "look")
  /\ IF /\ \A c \in step.from : dir[c] \in {None, step.id}
        /\ dir[step.name] = step.id \/ (dir[step.name] = None /\ Sources(step.from) # {})
       THEN Pass ELSE Miss
  /\ dir' = IF dir[step.name] = None /\ Sources(step.from) # {}
              THEN Set(dir, step.name, step.id) ELSE dir
  /\ UNCHANGED <<handles, faults, used>>

(* Rolling a rename back moves the source back, from the target name if the *)
(* file is there and otherwise from a private copy.                         *)
LookAtTarget ==
  /\ At({"reclaim"}, "look")
  /\ \/ /\ dir[step.name] = step.id
        /\ Pass /\ UNCHANGED dir
     \/ /\ dir[step.name] \notin {None, step.id}
        /\ Miss /\ UNCHANGED dir
     \/ /\ dir[step.name] = None /\ dir[step.to] = step.id
        /\ GoOn("act", None) /\ UNCHANGED dir
     \/ /\ dir[step.name] = None /\ dir[step.to] # step.id
        /\ IF Sources(step.from) = {} THEN Miss /\ UNCHANGED dir
           ELSE Pass /\ dir' = Renamed(dir, CHOOSE n \in Sources(step.from) : TRUE, step.name)
  /\ UNCHANGED <<handles, faults, used>>

RenameBack ==
  /\ At({"reclaim"}, "act")
  /\ IF dir[step.to] # None /\ dir[step.name] = None
       THEN GoOn("confirm", None) /\ dir' = Renamed(dir, step.to, step.name)
       ELSE Miss /\ UNCHANGED dir
  /\ UNCHANGED <<handles, faults, used>>

ConfirmReclaim ==
  /\ At({"reclaim"}, "confirm")
  /\ IF dir[step.name] = step.id THEN Pass ELSE Miss
  /\ UNCHANGED <<dir, handles, faults, used>>

(* Committed cleanup republishes a name that vanished, from any copy left;  *)
(* afterwards only the recovery copies of this run are used.                *)
RelinkEntry ==
  /\ At({"relink", "heal"}, "look") /\ Pass
  /\ LET sources == IF step.op = "relink" THEN Sources(step.from)
                    ELSE {h \in handles : dir[h] = step.id}
     IN dir' = IF dir[step.name] = None /\ sources # {}
                THEN Set(dir, step.name, step.id) ELSE dir
  /\ UNCHANGED <<handles, faults, used>>

(* Anonymous copies an earlier run left are moved aside, guarded like the   *)
(* named ones, into copies that are unlinked at the end of this run.        *)
AdoptScrap ==
  /\ At({"adopt"}, "look")
  /\ IF Holds(step.pair)
       THEN Pass /\ handles' = handles \union {n \in Scrap : dir[n] \in File}
       ELSE Miss /\ UNCHANGED handles
  /\ UNCHANGED <<dir, faults, used>>

(* _retain_recovery_candidates: a recovery copy becomes a named one again. *)
RetainCopy ==
  /\ At({"retain"}, "look") /\ Pass
  /\ LET copies == {h \in handles : dir[h] = step.id}
     IN IF dir[step.name] = None /\ copies # {}
          THEN LET h == CHOOSE h \in copies : TRUE
               IN dir' = Renamed(dir, h, step.name) /\ handles' = handles \ {h}
          ELSE UNCHANGED <<dir, handles>>
  /\ UNCHANGED <<faults, used>>

(* _preserve_*_transaction: the journal is written again if it is gone and  *)
(* (for a prepared one) a copy of what it protects is left.                 *)
PreserveJournal ==
  /\ At({"preserve"}, "look") /\ Pass
  /\ dir' = IF /\ dir[step.name] = None
              /\ \/ step.pair = {}
                 \/ \E p \in step.pair : dir[p[1]] = p[2] \/ RecoveryNames(p[2]) # {}
             THEN Set(dir, step.name, step.id) ELSE dir
  /\ UNCHANGED <<handles, faults, used>>

(* _close_recovery_handles: each copy is replaced by a safety link of the   *)
(* same file (which no handle names), the pair is looked at, and then the   *)
(* safety link is unlinked.                                                 *)
CloseHandle ==
  /\ At({"close"}, "look")
  /\ \/ ~Holds(step.pair) /\ Miss /\ UNCHANGED handles
     \/ Holds(step.pair) /\ handles = {} /\ Pass /\ UNCHANGED handles
     \/ /\ Holds(step.pair) /\ handles # {}
        /\ LET h == CHOOSE h \in handles : TRUE
           IN GoOn("confirm", h) /\ handles' = handles \ {h}
  /\ UNCHANGED <<dir, faults, used>>

(* Mistake: the pair is not looked at again. *)
ConfirmCloseBlindly ==
  /\ At({"close"}, "confirm") /\ GoOn("unlink", moved)
  /\ UNCHANGED <<dir, handles, faults, used>>

ConfirmClose ==
  /\ At({"close"}, "confirm")
  /\ IF Holds(step.pair) THEN GoOn("unlink", moved) ELSE Miss
  /\ UNCHANGED <<dir, handles, faults, used>>

UnlinkCopy ==
  /\ At({"close"}, "unlink") /\ GoOn("look", None)
  /\ dir' = Set(dir, moved, None)
  /\ UNCHANGED <<handles, faults, used>>

(* _remove_anonymous_recovery *)
PurgeScrap ==
  /\ At({"purge"}, "look")
  /\ IF RecoveryNames(step.id) = {} THEN Pass /\ UNCHANGED dir
     ELSE /\ GoOn("look", None)
          /\ dir' = Set(dir, CHOOSE n \in RecoveryNames(step.id) : TRUE, None)
  /\ UNCHANGED <<handles, faults, used>>

(* A system call of the step fails.  A recovery copy that cannot be made is  *)
(* skipped and the removal goes on; so does a rollback that could not link   *)
(* one back.  A write leaves its file behind when its removal fails too.     *)
FailCall ==
  /\ todo # <<>> /\ step.op \notin {"assert", "adopt"} /\ faults < MaxFaults
  /\ faults' = faults + 1
  /\ \/ Miss /\ UNCHANGED dir
     \/ /\ At({"restore"}, "look")
        /\ ok' = FALSE /\ todo' = Tail(todo) /\ UNCHANGED <<dir, stage, moved>>
     \/ /\ At({"drop"}, "look") /\ step.guarded /\ Holds(step.pair) /\ dir[step.name] = step.id
        /\ GoOn("act", None) /\ UNCHANGED dir
  /\ UNCHANGED <<handles, used>>

FailTwice ==
  /\ At({"write"}, "look") /\ dir[step.name] = None /\ faults + 1 < MaxFaults
  /\ faults' = faults + 2
  /\ Miss /\ dir' = Set(dir, step.name, step.id)
  /\ UNCHANGED <<handles, used>>

RunStep ==
  \/ LookAtSource \/ LookAtLeftover \/ RenameEntry \/ ConfirmRename \/ LinkEntry \/ ConfirmLink
  \/ LookAtVictim \/ LookAtOwn \/ Quarantine \/ Discard \/ UnlinkEntry
  \/ WriteFile \/ Sync \/ Check \/ CheckNoForeign \/ CheckGone
  \/ LookAtTarget \/ RenameBack \/ ConfirmReclaim \/ RestoreEntry \/ RelinkEntry
  \/ AdoptScrap \/ RetainCopy \/ PreserveJournal
  \/ CloseHandle \/ ConfirmClose \/ UnlinkCopy \/ PurgeScrap

(* A process that takes no lock creates, replaces or deletes a public entry. *)
ForeignPut(n, f) ==
  /\ IsPublic(n) /\ f \notin used
  /\ dir' = Set(dir, n, <<"foreign", f>>) /\ used' = used \union {f}
  /\ UNCHANGED <<todo, stage, moved, ok, handles, faults>>

ForeignDelete(n, f) ==
  /\ IsPublic(n) /\ f \notin used /\ dir[n] # None
  /\ dir' = Set(dir, n, None) /\ used' = used \union {f}
  /\ UNCHANGED <<todo, stage, moved, ok, handles, faults>>

ForeignStep == \E n \in Name, f \in ForeignFile : ForeignPut(n, f) \/ ForeignDelete(n, f)

(* The process starts a script, or stops and forgets the one it was running. *)
Run(script) == /\ todo' = script /\ ok' = TRUE /\ stage' = "look" /\ moved' = None
Halt        == /\ todo' = <<>> /\ ok' = TRUE /\ stage' = "look" /\ moved' = None /\ handles' = {}
=============================================================================
