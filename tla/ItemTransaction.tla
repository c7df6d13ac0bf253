---------------------------- MODULE ItemTransaction ----------------------------
(***************************************************************************)
(* One mutation of a stored item from the request to the reply, through    *)
(* publication, cleanup or rollback, process death at any point, and the   *)
(* reconciliation the next process runs (LocalDestination in               *)
(* runtime/storage.py).  The caller holds the exclusive operation lock of  *)
(* the directory, so nothing cooperating interleaves; external writers do. *)
(***************************************************************************)
EXTENDS TransactionScripts

CONSTANTS
  Kinds,        \* mutations the model starts with
  MaxCrashes    \* bound: process deaths in one behaviour

VARIABLES
  kind,       \* the mutation
  phase,      \* the part of it under way
  complete,   \* result so far of the cleanup or rollback under way
  reply,      \* what the caller has heard
  crashes,
  committed,  \* history: the mutation has passed its point of no return
  misread     \* history: a commit file that was there was taken for absent

control == <<kind, phase, complete, reply, crashes, committed>>
vars == <<dir, todo, stage, moved, ok, handles, faults, used,
          kind, phase, complete, reply, crashes, committed>>

ASSUME CrashAssumption == MaxCrashes \in Nat
ASSUME KindAssumption == Kinds \subseteq Kind

Opening(k) ==
  [n \in Name |-> IF n[1] = (IF k = "rename" THEN "source" ELSE "public") /\ k # "fresh"
                    THEN Old(n[2]) ELSE None]

Init ==
  /\ kind \in Kinds /\ dir = Opening(kind)
  /\ todo = << >> /\ stage = "look" /\ moved = None /\ ok = TRUE
  /\ handles = {} /\ faults = 0 /\ used = {}
  /\ phase = "idle" /\ complete = TRUE /\ reply = "none" /\ crashes = 0 /\ committed = FALSE
  /\ misread = FALSE

Journalled == dir[Marker] # None \/ dir[Commit] # None
Done(ph) == phase = ph /\ todo = << >>
Become(ph, script) == phase' = ph /\ Run(script)

-----------------------------------------------------------------------------
(* A journal that names the item, a pair that is not the managed one or a   *)
(* taken target name refuse the mutation.                                   *)
Accepted ==
  /\ ~Journalled /\ Holds(Before(kind))
  /\ kind = "rename" => \A p \in Part : dir[N("target", p)] = None

Begin ==
  /\ phase = "idle" /\ reply = "none"
  /\ IF Accepted
       THEN Become("staging", Staging(kind)) /\ UNCHANGED reply
       ELSE reply' = "error" /\ UNCHANGED <<phase, todo, stage, moved, ok>>
  /\ UNCHANGED <<dir, handles, faults, used, kind, complete, crashes, committed>>

Staged ==
  /\ Done("staging")
  /\ IF ok THEN Become("installing", Install(kind)) ELSE Become("discarding", Leftovers(kind))
  /\ UNCHANGED <<dir, handles, faults, used, kind, complete, reply, crashes, committed>>

(* A failure rolls back, unless the commit file is there all the same. *)
Installed ==
  /\ Done("installing")
  /\ CASE ok /\ kind # "delete" -> Become("cleaning", Cleanup(kind))
       [] ok /\ kind = "delete" -> Become("finishing", Finish)
       [] ~ok /\ dir[Commit] # None ->
            Become("discarding", IF kind = "rename" THEN Leftovers(kind) ELSE << >>)
       [] ~ok /\ dir[Commit] = None -> Become("rolling", Rollback(kind))
  /\ committed' = (committed \/ (ok /\ kind = "delete"))
  /\ UNCHANGED <<dir, handles, faults, used, kind, complete, reply, crashes>>

(* Mistake: the exception is swallowed. *)
DiscardedSilently ==
  /\ Done("discarding") /\ Become("idle", << >>)
  /\ reply' = "ok"
  /\ UNCHANGED <<dir, handles, faults, used, kind, complete, crashes, committed>>

(* The exception reaches the caller: the same one whether the mutation is   *)
(* undone, to be undone by the next start, or committed all the same.       *)
Discarded ==
  /\ Done("discarding") /\ Become("idle", << >>)
  /\ reply' = "error"
  /\ UNCHANGED <<dir, handles, faults, used, kind, complete, crashes, committed>>

-----------------------------------------------------------------------------
(* _cleanup_committed_transaction, _cleanup_committed_rename: the body, a    *)
(* republication from the recovery copies with a second body, and then the   *)
(* copies are kept or closed.                                                *)

KeepOrClose(finished) ==
  Become("keeping", (IF Holds(After(kind)) THEN << >> ELSE KeepNew(kind))
                    \o (IF finished THEN << >> ELSE KeepCommit))

Cleaned ==
  /\ Done("cleaning") \/ Done("recleaning")
  /\ complete' = (ok /\ Holds(After(kind)))
  /\ IF phase = "cleaning" /\ ~Holds(After(kind))
       THEN Become("healing", HealNew(kind))
       ELSE KeepOrClose(ok /\ Holds(After(kind)))
  /\ UNCHANGED <<dir, handles, faults, used, kind, reply, crashes, committed>>

Healed ==
  /\ Done("healing")
  /\ IF ok /\ Holds(After(kind)) THEN Become("recleaning", Cleanup(kind)) ELSE KeepOrClose(FALSE)
  /\ UNCHANGED <<dir, handles, faults, used, kind, complete, reply, crashes, committed>>

Kept ==
  /\ Done("keeping") /\ Become("closing", << Close(After(kind)) >>)
  /\ UNCHANGED <<dir, handles, faults, used, kind, complete, reply, crashes, committed>>

(* A publication whose public pair is intact succeeds even when its private *)
(* cleanup is deferred to the next start; otherwise the caller is told that *)
(* it is published but not verified, and a rename still removes its         *)
(* temporary sidecar.                                                       *)
Answer(good) ==
  /\ handles' = {}
  /\ \/ /\ good \/ reply # "none"
        /\ Become("idle", << >>) /\ reply' = IF reply = "none" THEN "ok" ELSE reply
     \/ /\ ~good /\ reply = "none"
        /\ Become("discarding", IF kind = "rename" THEN Leftovers(kind) ELSE << >>)
        /\ UNCHANGED reply

Closed ==
  /\ Done("closing") /\ complete' = (complete /\ ok)
  /\ IF ok THEN Answer(complete \/ Holds(After(kind)))
     ELSE Become("rekeeping", KeepNew(kind) \o KeepCommit) /\ UNCHANGED <<handles, reply>>
  /\ UNCHANGED <<dir, faults, used, kind, crashes, committed>>

Rekept ==
  /\ Done("rekeeping") /\ Answer(Holds(After(kind)))
  /\ UNCHANGED <<dir, faults, used, kind, complete, crashes, committed>>

-----------------------------------------------------------------------------
(* _rollback_transaction, _rollback_rename_transaction,                     *)
(* _rollback_delete_transaction.                                            *)

(* The mutation removes the temporary files it still has; reconcile does    *)
(* not.                                                                     *)
EndRollback ==
  /\ handles' = {}
  /\ IF reply = "none" THEN Become("discarding", Leftovers(kind)) ELSE Become("idle", << >>)

RolledBack ==
  /\ Done("rolling") /\ complete' = ok
  /\ IF ok THEN Become("retiring", RetireMarker(kind)) /\ UNCHANGED handles ELSE EndRollback
  /\ UNCHANGED <<dir, faults, used, kind, reply, crashes, committed>>

KeepOldOrClose(finished) ==
  LET journal == IF finished THEN << >> ELSE KeepMarker(kind)
      copies  == IF Holds(Before(kind)) THEN << >> ELSE KeepOld(kind)
  IN Become("restoring", IF kind = "rename" THEN journal \o copies ELSE copies \o journal)

Retired ==
  /\ Done("retiring") /\ complete' = ok
  /\ CASE kind = "fresh" -> EndRollback
       [] kind = "rename" /\ ~ok /\ ~Holds(Before(kind)) ->
            Become("reviving", HealOld) /\ UNCHANGED handles
       [] kind \in {"replace", "delete"} \/ (kind = "rename" /\ (ok \/ Holds(Before(kind)))) ->
            KeepOldOrClose(ok \/ (kind = "rename" /\ Holds(Before(kind)))) /\ UNCHANGED handles
  /\ UNCHANGED <<dir, faults, used, kind, reply, crashes, committed>>

(* Only a rename rolls back anew once its source pair is linked again. *)
Revived ==
  /\ Done("reviving")
  /\ IF ok /\ Holds(Before(kind)) THEN Become("rolling", Rollback(kind)) ELSE KeepOldOrClose(FALSE)
  /\ UNCHANGED <<dir, handles, faults, used, kind, complete, reply, crashes, committed>>

Restored ==
  /\ Done("restoring") /\ Become("unlinking", << Close(Before(kind)) >>)
  /\ UNCHANGED <<dir, handles, faults, used, kind, complete, reply, crashes, committed>>

Unlinked ==
  /\ Done("unlinking") /\ complete' = (complete /\ ok)
  /\ CASE complete /\ ok -> Become("purging", ForgetCopies) /\ UNCHANGED handles
       [] ~ok -> Become("rerestoring", KeepOld(kind) \o KeepMarker(kind)) /\ UNCHANGED handles
       [] ok /\ ~complete -> EndRollback
  /\ UNCHANGED <<dir, faults, used, kind, reply, crashes, committed>>

RolledOut ==
  /\ Done("purging") \/ Done("rerestoring")
  /\ EndRollback
  /\ UNCHANGED <<dir, faults, used, kind, complete, reply, crashes, committed>>

(* An entry that cannot be inspected ends the rollback where it stands. *)
RollbackPhases == {"rolling", "retiring", "reviving", "restoring", "unlinking", "rerestoring", "purging"}

RollbackRaises ==
  /\ phase \in RollbackPhases /\ todo # << >> /\ faults < MaxFaults
  /\ faults' = faults + 1 /\ EndRollback
  /\ UNCHANGED <<dir, used, kind, complete, reply, crashes, committed>>

-----------------------------------------------------------------------------
(* _finish_delete_transaction: a deletion whose cleanup is deferred has     *)
(* succeeded all the same.                                                  *)
Finished ==
  /\ Done("finishing") \/ Done("emptying")
  /\ CASE ok /\ phase = "finishing" -> Become("emptying", EmptyTrash) /\ UNCHANGED <<handles, reply>>
       [] ok /\ phase = "emptying" -> Become("untombing", Untomb) /\ UNCHANGED <<handles, reply>>
       [] ~ok -> Answer(TRUE)
  /\ UNCHANGED <<dir, faults, used, kind, complete, crashes, committed>>

Untombed ==
  /\ Done("untombing") /\ Answer(TRUE)
  /\ UNCHANGED <<dir, faults, used, kind, complete, crashes, committed>>

-----------------------------------------------------------------------------
(* The process dies; a new destination reconciles the directory first: a    *)
(* commit file is cleaned up after, a prepared marker rolled back, a marked *)
(* deletion finished.                                                       *)
Crash ==
  /\ phase # "down" /\ crashes < MaxCrashes /\ crashes' = crashes + 1
  /\ Halt /\ phase' = "down"
  /\ reply' = IF phase # "idle" /\ reply = "none" THEN "lost" ELSE reply
  /\ UNCHANGED <<dir, faults, used, kind, complete, committed>>

RecoverCommitted ==
  kind # "delete" /\ dir[Commit] # None /\ Become("cleaning", Cleanup(kind))

RecoverPrepared ==
  /\ kind # "delete" /\ dir[Commit] = None /\ dir[Marker] # None
  /\ Become("rolling", Rollback(kind))

RecoverDeletions == kind = "delete" /\ dir[Marker] # None /\ Become("finishing", Finish)

Reconcile ==
  /\ phase = "down"
  /\ \/ RecoverCommitted \/ RecoverPrepared \/ RecoverDeletions
     \/ dir[Marker] = None /\ (kind = "delete" \/ dir[Commit] = None) /\ Become("idle", << >>)
  /\ committed' = (committed \/ (dir[Marker] # None /\ kind = "delete"))
  /\ UNCHANGED <<dir, handles, faults, used, kind, complete, reply, crashes>>

-----------------------------------------------------------------------------
(* A file of the journal that cannot be read is no journal: a commit file    *)
(* is taken for absent and the mutation rolled back although it is there     *)
(* (_commit_file_matches, _recover_transactions), ...  The commit file of a  *)
(* failed write could not be removed: that it cannot be read either is not   *)
(* counted as one more failure.                                              *)
Misreads == faults < MaxFaults /\ faults' = faults + 1 /\ misread' = TRUE

InstalledUnread ==
  /\ Done("installing") /\ ~ok /\ dir[Commit] # None /\ misread' = TRUE
  /\ Become("rolling", Rollback(kind))
  /\ UNCHANGED <<dir, handles, faults, used, kind, complete, reply, crashes, committed>>

RecoverUnread ==
  /\ phase = "down" /\ kind # "delete" /\ dir[Commit] # None /\ dir[Marker] # None /\ Misreads
  /\ Become("rolling", Rollback(kind))
  /\ UNCHANGED <<dir, handles, used, kind, complete, reply, crashes, committed>>

(* ... and a journal of which nothing can be read waits for the next start.  *)
Overlook ==
  /\ phase = "down" /\ Journalled
  /\ faults' = faults + (IF dir[Marker] # None /\ dir[Commit] # None THEN 2 ELSE 1) /\ faults' <= MaxFaults
  /\ Become("idle", << >>)
  /\ UNCHANGED <<dir, handles, used, kind, complete, reply, crashes, committed>>

-----------------------------------------------------------------------------
FileStep ==
  /\ RunStep \/ FailCall \/ FailTwice
  /\ committed' = (committed \/ dir'[Commit] # None)
  /\ UNCHANGED <<kind, phase, complete, reply, crashes>>

Progress ==
  \/ Staged \/ Installed \/ Discarded
  \/ Cleaned \/ Healed \/ Kept \/ Closed \/ Rekept
  \/ RolledBack \/ Retired \/ Revived \/ Restored \/ Unlinked \/ RolledOut
  \/ Finished \/ Untombed
  \/ Reconcile

Interference == ForeignStep /\ UNCHANGED control

(* The steps that take the journal for what it is. *)
Work == FileStep \/ Begin \/ Progress \/ RollbackRaises \/ Crash \/ Overlook \/ Interference

Next == (Work /\ UNCHANGED misread) \/ InstalledUnread \/ RecoverUnread

Spec == Init /\ [][Next]_<<vars, misread>>

(* A live process runs its script to the end, and a dead one is restarted. *)
LiveSpec == Spec /\ WF_vars(FileStep) /\ WF_vars(Progress)

-----------------------------------------------------------------------------
(* What a reader may be given (_blocked_read_targets): nothing while the    *)
(* journal is prepared or a committed pair is not intact.  acquire_reads()  *)
(* refuses when a file of the journal cannot be read, list() goes by those  *)
(* that can.  Readers hold the operation lock, so they look between         *)
(* operations only.                                                         *)
LockFree == phase \in {"idle", "down"}
JournalFiles == {n \in Journal : dir[n] # None}
Shows(read) == read = {} \/ (Commit \in read /\ Holds(After(kind)))

Entries(pairs) == {p \in pairs : p[2] # None}

(* The pair a restart must be able to give back, and the entries that must  *)
(* not be shown any more, or not yet.                                       *)
Wanted == Entries(IF committed THEN After(kind) ELSE Before(kind))
Stale  == Entries(IF committed THEN Before(kind) \ After(kind) ELSE After(kind) \ Before(kind))

Phase == {"idle", "down", "staging", "installing", "discarding", "cleaning", "healing",
          "recleaning", "keeping", "closing", "rekeeping", "finishing", "emptying",
          "untombing"} \union RollbackPhases

TypeOK ==
  /\ dir \in [Name -> Inode \union {None}]
  /\ todo \in Seq(Step)
  /\ stage \in Stage
  /\ moved \in Scrap \union {None}
  /\ ok \in BOOLEAN /\ handles \subseteq Scrap
  /\ faults \in 0..MaxFaults /\ used \subseteq ForeignFile
  /\ kind \in Kinds /\ complete \in BOOLEAN /\ committed \in BOOLEAN /\ misread \in BOOLEAN
  /\ phase \in Phase
  /\ reply \in {"none", "ok", "error", "lost"}
  /\ crashes \in 0..MaxCrashes

(* A step of the program unlinks the last link to a file of the pair that   *)
(* recovery has to publish, or decides to: the look that goes before an     *)
(* unlink has passed with no link but the one to be unlinked.               *)
DropsWanted == used' = used /\ \E p \in Wanted : Links(dir, p[2]) # {} /\ Links(dir', p[2]) = {}
DecidesBlindly ==
  stage # "unlink" /\ stage' = "unlink" /\ \E p \in Wanted : Links(dir, p[2]) = {moved'}

(* The public pair has been changed from outside after the last look at it. *)
Overtaken == stage = "unlink" /\ ~Holds(step.pair)

(* Until the transaction is over (only anonymous copies are left to purge), *)
(* no step of the program, failing calls included, drops the last link to a *)
(* file of the pair that recovery has to publish: every look that decides   *)
(* on an unlink finds another link, and so the last one goes only if an     *)
(* external process takes that other one away between the look and the      *)
(* unlink (_remove_expected, _close_recovery_handles).  The exception       *)
(* handler of a published rename is left out (see CopyRetained), and so is  *)
(* the rollback of a mutation whose commit file was misread.                *)
LastCopyKept ==
  [][DropsWanted \/ DecidesBlindly =>
       Overtaken \/ phase = "purging" \/ (phase = "discarding" /\ committed) \/ misread]_vars

(* storage.py (_retain_recovery_candidates): keep a private copy in the     *)
(* journal.  rename() removes its temporary sidecar also after the commit,  *)
(* and so the copy that was just kept under that name.                      *)
CopyRetained == [][DropsWanted => phase = "purging" \/ Overtaken]_vars

(* A file an external writer put in the zone may be moved aside by a check  *)
(* that came too late, but the program never unlinks or overwrites it.      *)
ForeignKept ==
  [][used' = used => \A f \in ForeignFile :
       Links(dir, <<"foreign", f>>) # {} => Links(dir', <<"foreign", f>>) # {}]_vars

(* What readers can see between operations is never the content of a        *)
(* mutation that did not commit, nor what a committed one replaced, so      *)
(* never a data file with the sidecar of another, whatever the failures,    *)
(* crashes and external writers, as long as one file of the journal can be  *)
(* read (acquire_reads() insists on all; a list() that can read none takes  *)
(* the mutation for finished).                                              *)
OutcomeVisible ==
  LockFree => \A read \in SUBSET JournalFiles :
    Shows(read) /\ (Journalled => read # {}) => \A p \in Stale : dir[p[1]] # p[2]

(* Left alone by external writers, the item is the one before or the one    *)
(* after whenever no journal is left.                                       *)
AllOrNothing ==
  LockFree /\ ~Journalled /\ used = {} => Holds(IF committed THEN After(kind) ELSE Before(kind))

(* A caller is told of success only once the mutation is past its point of  *)
(* no return, and what a caller has been told to have failed is not carried *)
(* out later: not by the restart either, except that a failed deletion      *)
(* whose marker could not be rolled back is finished by the next one.       *)
ReplyFinal ==
  [][/\ reply' = "ok" => committed'
     /\ reply = "error" /\ committed' # committed => kind = "delete" /\ phase = "down"]_vars

(* deployment.md: Pasteberth never overwrites, renames or deletes a foreign *)
(* file.  The restore half of _move_expected renames one that appears under *)
(* the target name after the rename and before the second look.             *)
ForeignInPlace ==
  LockFree => \A n \in Name : (\E f \in ForeignFile : dir[n] = <<"foreign", f>>) => IsPublic(n)

(* Without external writers, a restart during which no call fails retires   *)
(* the journal a process death has left, whatever calls had failed before   *)
(* (but for a commit file that was misread).                                *)
(* Only a deletion whose failed call was being rolled back may need another *)
(* restart, when a file is linked under its public name and in the trash.   *)
JournalRetired ==
  \A n \in 0..MaxFaults :
    (phase = "down" /\ faults = n /\ (kind = "delete" => n = 0)) ~>
      ((phase = "idle" /\ ~Journalled) \/ faults > n \/ misread)
=============================================================================
