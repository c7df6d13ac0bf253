--------------------------- MODULE TransactionScripts ---------------------------
(***************************************************************************)
(* The scripts of the four mutations of a stored item (runtime/storage.py):*)
(* a fresh save and a replacing save (_save_named), a rename and a delete. *)
(*                                                                         *)
(* An item is a data file and its sidecar (meta).  Save and delete work on *)
(* one public name; rename moves the data inode from source to target and  *)
(* gives the target a sidecar of its own.                                  *)
(***************************************************************************)
EXTENDS ZoneDirectory

Kind == {"fresh", "replace", "rename", "delete"}

N(place, p) == <<place, p>>
Old(p) == <<"old", p>>
New(p) == <<"new", p>>
D == "data"
M == "meta"

(* The public names before and after; a rename must still find its source,  *)
(* and not its target, to start.                                            *)
Before(k) ==
  CASE k = "fresh"  -> {<<N("public", p), None>> : p \in Part}
    [] k = "rename" -> {<<N("source", p), Old(p)>> : p \in Part}
    [] k \in {"replace", "delete"} -> {<<N("public", p), Old(p)>> : p \in Part}

After(k) ==
  CASE k \in {"fresh", "replace"} -> {<<N("public", p), New(p)>> : p \in Part}
    [] k = "rename" -> {<<N("target", D), Old(D)>>, <<N("target", M), New(M)>>}
                         \union {<<N("source", p), None>> : p \in Part}
    [] k = "delete" -> {<<N("public", p), None>> : p \in Part}

-----------------------------------------------------------------------------
(* Private files and the prepared marker come first. *)
Staging(k) ==
  CASE k \in {"fresh", "replace"} ->
         << Write(N("temp", D), New(D)), Write(N("temp", M), New(M)), Log(Marker) >>
    [] k = "rename" -> << Write(N("temp", M), New(M)), Log(Marker) >>
    [] k = "delete" -> << Log(Marker) >>

(* What the except clause of save() and rename() still removes. *)
Leftovers(k) ==
  CASE k \in {"fresh", "replace"} ->
         << Leniently(Drop(N("temp", D), New(D))), Leniently(Drop(N("temp", M), New(M))) >>
    [] k = "rename" -> << Leniently(Drop(N("temp", M), New(M))) >>
    [] k = "delete" -> << >>

(* The public names change; the commit file decides (a delete has none). *)
InstallRename ==
  << Link(N("source", D), N("backup", D), Old(D)), Link(N("backup", D), N("guard", D), Old(D)),
     Link(N("source", M), N("spare", M), Old(M)),
     Move(N("source", D), N("target", D), Old(D)), Move(N("source", M), N("backup", M), Old(M)),
     Link(N("temp", M), N("target", M), New(M)), Link(N("temp", M), N("guard", M), New(M)),
     Flush, Log(Commit) >>

Install(k) ==
  CASE k = "fresh" ->
         << Link(N("temp", D), N("guard", D), New(D)), Move(N("temp", D), N("public", D), New(D)),
            Link(N("temp", M), N("guard", M), New(M)), Move(N("temp", M), N("public", M), New(M)),
            Flush, Log(Commit) >>
    [] k = "replace" ->
         << Move(N("public", D), N("backup", D), Old(D)), Move(N("public", M), N("backup", M), Old(M)),
            Link(N("temp", D), N("public", D), New(D)), Link(N("temp", D), N("guard", D), New(D)),
            Link(N("temp", M), N("public", M), New(M)), Link(N("temp", M), N("guard", M), New(M)),
            Flush, Log(Commit) >>
    [] k = "rename" -> InstallRename
    [] k = "delete" ->
         << Move(N("public", D), N("backup", D), Old(D)), Move(N("public", M), N("backup", M), Old(M)),
            Flush >>

-----------------------------------------------------------------------------
(* Cleanup of a committed transaction: nothing goes, the marker before the   *)
(* commit file, unless the public names are the committed ones.              *)

(* Mistakes: the commit file goes first; it does not go at all. *)
RetireCommitFirst(k) == << DropIf(After(k), Commit, Commit), DropIf(After(k), Marker, Marker),
                           Assert(After(k)), Flush >>
RetireMarkerOnly(k) == << DropIf(After(k), Marker, Marker), Assert(After(k)), Flush >>

Retire(k) == << DropIf(After(k), Marker, Marker), DropIf(After(k), Commit, Commit),
                Assert(After(k)), Flush >>

CleanupRename ==
  LET after == After("rename") IN
  << Relink(N("target", D), {N("backup", D), N("guard", D)}, Old(D)),
     Relink(N("target", M), {N("temp", M), N("guard", M)}, New(M)),
     Assert(after),
     Guarded(after, N("backup", M), Old(M)), Guarded(after, N("temp", M), New(M)),
     Guarded(after, N("spare", M), Old(M)), DropIf(after, N("backup", D), Old(D)),
     Adopt(after),
     Guarded(after, N("guard", M), New(M)), Guarded(after, N("guard", D), Old(D)) >>
  \o Retire("rename")

Cleanup(k) ==
  CASE k \in {"fresh", "replace"} ->
         << Relink(N("public", D), {N("temp", D), N("guard", D)}, New(D)),
            Relink(N("public", M), {N("temp", M), N("guard", M)}, New(M)),
            Assert(After(k)) >>
         \o (IF k = "fresh" THEN << >>
             ELSE << DropIf(After(k), N("backup", D), Old(D)),
                     Guarded(After(k), N("backup", M), Old(M)) >>)
         \o << Guarded(After(k), N("temp", M), New(M)), Adopt(After(k)),
               Guarded(After(k), N("guard", M), New(M)),
               Guarded(After(k), N("temp", D), New(D)), Guarded(After(k), N("guard", D), New(D)) >>
         \o Retire(k)
    [] k = "rename" -> CleanupRename

(* A public name lost during the cleanup is linked again from its copies. *)
HealNew(k) ==
  CASE k \in {"fresh", "replace"} -> << Heal(N("public", D), New(D)), Heal(N("public", M), New(M)) >>
    [] k = "rename" -> << Heal(N("target", D), Old(D)), Heal(N("target", M), New(M)) >>

KeepNew(k) ==
  CASE k \in {"fresh", "replace"} ->
         << Retain(N("temp", D), New(D)), Retain(N("guard", D), New(D)),
            Retain(N("temp", M), New(M)), Retain(N("guard", M), New(M)) >>
    [] k = "rename" ->
         << Retain(N("guard", D), Old(D)), Retain(N("backup", D), Old(D)),
            Retain(N("temp", M), New(M)), Retain(N("guard", M), New(M)) >>

KeepCommit == << Leniently(Preserve(Commit, {})) >>

-----------------------------------------------------------------------------
(* Rollback of a prepared transaction: the old pair gets its names back ... *)
RollbackRename ==
  << Leniently(Reclaim(N("source", D), N("target", D), {N("backup", D), N("guard", D)}, Old(D))),
     Leniently(Retract(N("target", M), New(M))),
     Leniently(Reclaim(N("source", M), N("backup", M), {N("spare", M)}, Old(M))),
     Leniently(Expect(N("backup", M), Old(M))), Leniently(Expect(N("spare", M), Old(M))),
     Leniently(Drop(N("temp", M), New(M))), Leniently(Drop(N("guard", M), New(M))),
     Leniently(Assert({<<N("source", M), Old(M)>>})) >>

RollbackDelete ==
  << Restore(N("public", D), N("backup", D), Old(D)),
     Restore(N("public", M), N("backup", M), Old(M)) >>

Rollback(k) ==
  CASE k = "fresh" ->
         << Leniently(Retract(N("public", D), New(D))), Leniently(Retract(N("public", M), New(M))),
            Leniently(Drop(N("temp", D), New(D))), Leniently(Drop(N("guard", D), New(D))),
            Leniently(Drop(N("temp", M), New(M))), Leniently(Drop(N("guard", M), New(M))) >>
    [] k = "replace" ->
         << Leniently(Retract(N("public", D), New(D))), Leniently(Retract(N("public", M), New(M))),
            Leniently(Restore(N("public", D), N("backup", D), Old(D))),
            Leniently(Restore(N("public", M), N("backup", M), Old(M))),
            Leniently(Drop(N("temp", D), New(D))), Leniently(Drop(N("guard", D), New(D))),
            Leniently(Drop(N("temp", M), New(M))), Leniently(Drop(N("guard", M), New(M))),
            Assert(Before(k)) >>
    [] k = "rename" -> RollbackRename
    [] k = "delete" -> RollbackDelete

(* ... then the copies that protected it go, and the marker last. *)
RetireRename ==
  LET before == Before("rename") IN
  << Guarded(before, N("guard", D), Old(D)), Guarded(before, N("guard", M), New(M)),
     Guarded(before, N("backup", D), Old(D)), Guarded(before, N("backup", M), Old(M)),
     Guarded(before, N("spare", M), Old(M)), Guarded(before, Marker, Marker), Assert(before) >>

RetireMarker(k) ==
  CASE k = "fresh" -> << Drop(Marker, Marker), Flush >>
    [] k = "rename" -> RetireRename
    [] k \in {"replace", "delete"} ->
         << Assert(Before(k)),
            Guarded(Before(k), N("backup", D), Old(D)), Guarded(Before(k), N("backup", M), Old(M)),
            Guarded(Before(k), Marker, Marker), Assert(Before(k)) >>

HealOld == << Heal(N("source", D), Old(D)), Heal(N("source", M), Old(M)) >>

OldCopies(k) ==
  {<<N("backup", p), Old(p)>> : p \in Part}
    \union IF k = "rename" THEN {<<N("guard", D), Old(D)>>, <<N("spare", M), Old(M)>>} ELSE {}

KeepOld(k) ==
  IF k = "rename"
    THEN << Retain(N("backup", D), Old(D)), Retain(N("guard", D), Old(D)),
            Retain(N("backup", M), Old(M)), Retain(N("spare", M), Old(M)) >>
    ELSE << Retain(N("backup", D), Old(D)), Retain(N("backup", M), Old(M)) >>

KeepMarker(k) == << Leniently(Preserve(Marker, OldCopies(k))) >>

ForgetCopies == << Purge(Old(D)), Purge(Old(M)), Flush >>

-----------------------------------------------------------------------------
(* A marked deletion is finished: what is still public moves to the trash,  *)
(* the trash goes, then the marker unless a file is public again (a         *)
(* rollback cut short had linked it back).                                  *)
Finish ==
  << Expect(N("public", D), Old(D)), Leniently(Settle(N("public", D), N("backup", D), Old(D))),
     Expect(N("backup", D), Old(D)),
     Expect(N("public", M), Old(M)), Leniently(Settle(N("public", M), N("backup", M), Old(M))),
     Expect(N("backup", M), Old(M)) >>

EmptyTrashUnchecked ==  \* mistake: no second look at the public names
  << Leniently(Drop(N("backup", D), Old(D))), Leniently(Drop(N("backup", M), Old(M))) >>

EmptyTrash ==
  << Leniently(Drop(N("backup", D), Old(D))), Leniently(Drop(N("backup", M), Old(M))),
     Leniently(Gone(N("public", D), Old(D))), Leniently(Gone(N("public", M), Old(M))) >>

Untomb == << Drop(Marker, Marker), Flush >>
=============================================================================
