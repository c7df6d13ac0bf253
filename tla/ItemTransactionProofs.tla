------------------------- MODULE ItemTransactionProofs -------------------------
(***************************************************************************)
(* ItemTransaction, for any set of mutations, any external files and any   *)
(* number of failures and crashes: type correctness and the safety of the  *)
(* files of external writers (what one step of any script does to the      *)
(* directory, that every script is made of such steps, the mutations and   *)
(* their recovery), then what a mutation leaves behind: nothing stale is   *)
(* shown, the item is the one before or the one after, replies are final,  *)
(* the whole implements AtomicItem, and no step unlinks the last copy of a *)
(* file that a restart has to give back.  What a mutation leaves behind is *)
(* as promised until a commit file is misread, when the code rolls a       *)
(* committed mutation back (see InstalledUnread in ItemTransaction).       *)
(***************************************************************************)
EXTENDS ItemRefinement, TLAPS

-----------------------------------------------------------------------------
(***************************************************************************)
(* What one step of the file operations does to the directory, for any     *)
(* script: it only fills free names, unlinks or rewrites entries that are  *)
(* the program's own, and so never drops a file of an external writer.     *)
(***************************************************************************)

Directory == [Name -> Inode \union {None}]

(* A recovery copy is an inode of the program, and a quarantined entry is   *)
(* not one of them; what a step is about to unlink is an own file.          *)
Unlinks(st) == todo # << >> /\ (st = "unlink" \/ (st = "confirm" /\ step.op = "close"))
CopiesOwn == handles \subseteq Scrap /\ \A h \in handles : dir[h] \in Own \union {None}
QuarantineApart ==
  /\ moved \in Scrap \union {None} /\ moved \notin handles
  /\ At({"drop", "retract"}, "confirm") => moved \in Scrap
  /\ Unlinks(stage) => moved \in Scrap /\ dir[moved] \in Own \union {None}

ScriptOK == todo \in Seq(Step) /\ stage \in Stage /\ ok \in BOOLEAN

DirectoryInv ==
  /\ dir \in Directory /\ ScriptOK /\ CopiesOwn /\ QuarantineApart
  /\ faults \in 0..MaxFaults /\ used \subseteq ForeignFile

(* The four things a program step may do to the directory: nothing, a       *)
(* rename or a link to a free name, a new value for an entry of its own.    *)
Untouched == dir' = dir
Renames == \E a \in Name, b \in Name \ handles : dir[b] = None /\ dir' = Renamed(dir, a, b)
Doubles == \E a \in Name, b \in Name \ handles : dir[b] = None /\ dir' = Set(dir, b, dir[a])
Sets == \E n \in Name, i \in Own \union {None} :
          dir[n] \in Own \union {None} /\ dir' = Set(dir, n, i)
Tame == Untouched \/ Renames \/ Doubles \/ Sets

KeepsForeign(d, e) == \A i \in Foreign : Links(d, i) # {} => Links(e, i) # {}

(* Named entries and quarantine names are apart, and so are own and foreign files. *)
LEMMA Apart == /\ Entry \cap Scrap = {} /\ Own \cap Foreign = {} /\ None \notin Inode /\ None \notin Name
               /\ Entry \subseteq Name /\ Scrap \subseteq Name
               /\ Own \subseteq Inode /\ Foreign \subseteq Inode /\ File \subseteq Own
<1>1. Entry \cap Scrap = {}
  BY DEF Entry, Named, Journal, Scrap
<1>2. Own \cap Foreign = {}
  BY DEF Own, File, Journal, Foreign
<1> QED
  BY <1>1, <1>2, NoneAssumption DEF Name, Inode, Own

(* A renamed entry goes to a free name, so every inode keeps its links. *)
LEMMA RenamedKeeps ==
  ASSUME NEW d \in Directory, NEW a \in Name, NEW b \in Name, d[b] = None
  PROVE  Renamed(d, a, b) \in Directory /\ KeepsForeign(d, Renamed(d, a, b))
<1> DEFINE e == Renamed(d, a, b)
<1>1. e \in Directory
  BY DEF Directory, Renamed
<1>2. ASSUME NEW i \in Foreign, NEW n \in Name, d[n] = i PROVE \E m \in Name : e[m] = i
  <2>1. i # None /\ n # b
    BY <1>2, Apart
  <2>2. CASE n = a
    BY <1>2, <2>1, <2>2 DEF Directory, Renamed
  <2>3. CASE n # a
    BY <1>2, <2>1, <2>3 DEF Directory, Renamed
  <2> QED BY <2>2, <2>3
<1> QED BY <1>1, <1>2 DEF KeepsForeign, Links

(* An entry that is not a foreign file may be rewritten or removed. *)
LEMMA SetKeeps ==
  ASSUME NEW d \in Directory, NEW n \in Name, NEW i \in Inode \union {None}, d[n] \in Own \union {None}
  PROVE  Set(d, n, i) \in Directory /\ KeepsForeign(d, Set(d, n, i))
BY Apart DEF Directory, Set, KeepsForeign, Links

(* A tame change of the directory loses no foreign file.                   *)
LEMMA TameKeeps ==
  ASSUME DirectoryInv, Tame PROVE dir' \in Directory /\ KeepsForeign(dir, dir')
<1>1. CASE Untouched BY <1>1 DEF Untouched, KeepsForeign, Links, DirectoryInv
<1>2. CASE Renames BY <1>2, RenamedKeeps DEF Renames, DirectoryInv
<1>3. CASE Sets BY <1>3, SetKeeps, Apart DEF Sets, DirectoryInv
<1>4. CASE Doubles
  <2>1. PICK a \in Name, b \in Name \ handles : dir[b] = None /\ dir' = Set(dir, b, dir[a])
    BY <1>4 DEF Doubles
  <2>2. dir \in Directory /\ dir[a] \in Inode \union {None}
    BY DEF DirectoryInv, Directory
  <2> QED BY <2>1, <2>2, SetKeeps
<1> QED BY <1>1, <1>2, <1>3, <1>4 DEF Tame

(* Recovery copies stay the program's own when handles gains nothing else. *)
LEMMA TameCopies ==
  ASSUME DirectoryInv, Tame, handles' \subseteq Scrap,
         \A h \in handles' : h \in handles \/ dir'[h] \in Own \union {None}
  PROVE  CopiesOwn'
<1> SUFFICES ASSUME NEW h \in handles, h \in handles' PROVE dir'[h] \in Own \union {None}
  BY DEF CopiesOwn
<1>1. dir \in Directory /\ dir[h] \in Own \union {None} /\ h \in Name
  BY Apart DEF DirectoryInv, CopiesOwn
<1>2. CASE Untouched BY <1>1, <1>2 DEF Untouched
<1>3. CASE Renames BY <1>1, <1>3 DEF Renames, Renamed, Directory
<1>4. CASE Sets BY <1>1, <1>4 DEF Sets, Set, Directory
<1>5. CASE Doubles BY <1>1, <1>5 DEF Doubles, Set, Directory
<1> QED BY <1>2, <1>3, <1>4, <1>5 DEF Tame

-----------------------------------------------------------------------------
(* The script: its head is a step, and it only gets shorter. *)
LEMMA HeadType ==
  ASSUME DirectoryInv, todo # << >>
  PROVE  step \in Step /\ Tail(todo) \in Seq(Step)
BY DEF DirectoryInv, ScriptOK, step

(* The fields of the step under way are typed.                             *)
LEMMA HeadFields ==
  ASSUME DirectoryInv, todo # << >>
  PROVE  /\ step.name \in Entry /\ step.to \in Entry /\ step.from \subseteq Entry
         /\ step.id \in Own \union {None} /\ step.pair \in Pairs /\ step.strict \in BOOLEAN
         /\ step.name \in Name /\ step.to \in Name /\ step.name \notin Scrap /\ step.to \notin Scrap
<1>1. step \in Step BY HeadType
<1> QED BY <1>1, Apart DEF Step

(* Passing or missing a step leaves a typed script.                        *)
LEMMA ScriptEnds ==
  ASSUME DirectoryInv, todo # << >>, Pass \/ Miss, handles' \subseteq Scrap
  PROVE  ScriptOK' /\ QuarantineApart'
<1>1. << >> \in Seq(Step) /\ Tail(todo) \in Seq(Step) BY HeadType
<1>2. ScriptOK' BY <1>1 DEF DirectoryInv, ScriptOK, Pass, Miss, Stage
<1>3. QuarantineApart' BY Apart DEF QuarantineApart, Unlinks, Pass, Miss, At
<1> QED BY <1>2, <1>3

(* So does staying at the step.                                            *)
LEMMA ScriptGoesOn ==
  ASSUME DirectoryInv, NEW st \in Stage, NEW m \in Scrap \union {None},
         GoOn(st, m), handles' \subseteq Scrap, m \notin handles',
         todo # << >> /\ st = "confirm" /\ step.op \in {"drop", "retract"} => m \in Scrap,
         Unlinks(st) => m \in Scrap /\ dir'[m] \in Own \union {None}
  PROVE  ScriptOK' /\ QuarantineApart'
<1>1. ScriptOK' BY DEF DirectoryInv, ScriptOK, GoOn
<1>2. QuarantineApart' BY DEF QuarantineApart, Unlinks, GoOn, At, step
<1> QED BY <1>1, <1>2

(* What is left to show of an action once its script part is known. *)
LEMMA StepFrame ==
  ASSUME DirectoryInv, Tame, ScriptOK' /\ QuarantineApart', handles' \subseteq Scrap,
         \A h \in handles' : h \in handles \/ dir'[h] \in Own \union {None},
         faults' \in 0..MaxFaults, used' = used
  PROVE  DirectoryInv'
BY TameKeeps, TameCopies DEF DirectoryInv

(* A new quarantine name holds nothing and is nobody's recovery copy.      *)
LEMMA FreeScrapFree ==
  ASSUME FreshScrap # {} PROVE FreeScrap \in Scrap \ handles /\ dir[FreeScrap] = None
BY DEF FreshScrap, FreeScrap

(* Actions that leave the directory and the copies alone. *)
LEMMA QuietStep ==
  ASSUME DirectoryInv, todo # << >>, UNCHANGED <<dir, handles, faults, used>>,
         Pass \/ Miss \/ GoOn("act", None) \/ GoOn("look", None)
  PROVE  DirectoryInv' /\ Tame
<1>1. handles' \subseteq Scrap /\ None \notin handles'
  BY Apart DEF DirectoryInv, CopiesOwn
<1>2. ScriptOK' /\ QuarantineApart'
  BY <1>1, ScriptEnds, ScriptGoesOn DEF Stage, Unlinks
<1>3. Tame BY DEF Tame, Untouched
<1>4. faults' \in 0..MaxFaults BY DEF DirectoryInv
<1> QED BY <1>1, <1>2, <1>3, <1>4, StepFrame

(* A step that only looks changes no entry.                                *)
LEMMA Looks ==
  ASSUME DirectoryInv,
         LookAtSource \/ LookAtLeftover \/ ConfirmLink \/ LookAtOwn \/ Sync \/ Check
           \/ CheckNoForeign \/ CheckGone \/ ConfirmReclaim
  PROVE  DirectoryInv' /\ Tame
<1>1. todo # << >> /\ UNCHANGED <<dir, handles, faults, used>>
  BY DEF LookAtSource, LookAtLeftover, ConfirmLink, LookAtOwn, Sync, Check,
         CheckNoForeign, CheckGone, ConfirmReclaim, At
<1>2. Pass \/ Miss \/ GoOn("act", None)
  BY DEF LookAtSource, LookAtLeftover, ConfirmLink, LookAtOwn, Sync, Check,
         CheckNoForeign, CheckGone, ConfirmReclaim
<1> QED BY <1>1, <1>2, QuietStep

(* Actions that touch the directory but leave the copies alone. *)
LEMMA TameStep ==
  ASSUME DirectoryInv, todo # << >>, Tame, UNCHANGED <<handles, faults, used>>,
         Pass \/ Miss \/ GoOn("act", None) \/ GoOn("look", None)
           \/ (GoOn("confirm", None) /\ step.op \notin {"drop", "retract", "close"})
  PROVE  DirectoryInv' /\ Tame
<1>1. handles' \subseteq Scrap /\ None \notin handles'
  BY Apart DEF DirectoryInv, CopiesOwn
<1>2. ScriptOK' /\ QuarantineApart'
  BY <1>1, ScriptEnds, ScriptGoesOn DEF Stage, Unlinks
<1>4. faults' \in 0..MaxFaults BY DEF DirectoryInv
<1> QED BY <1>1, <1>2, <1>4, StepFrame

(* A rename of a typed directory is typed.                                 *)
LEMMA Renaming ==
  ASSUME DirectoryInv, NEW a \in Name, NEW b \in Name \ handles, dir[b] = None, dir' = Renamed(dir, a, b)
  PROVE  Tame
BY DEF Tame, Renames

(* So is a change of one entry.                                            *)
LEMMA Setting ==
  ASSUME DirectoryInv, NEW n \in Name, NEW i \in Own \union {None}, dir[n] \in Own \union {None},
         dir' = Set(dir, n, i)
  PROVE  Tame
BY DEF Tame, Sets

(* A named entry is never a quarantine name.                               *)
LEMMA EntriesApart ==
  ASSUME DirectoryInv, todo # << >>
  PROVE  /\ step.name \in Name \ handles /\ step.to \in Name \ handles
         /\ step.id \in Own \union {None} /\ step.from \subseteq Name
BY HeadFields, Apart DEF DirectoryInv, CopiesOwn

(* rename without replacement moves a link and drops none.                 *)
LEMMA RenameEntryInv == ASSUME DirectoryInv, RenameEntry PROVE DirectoryInv' /\ Tame
<1>1. todo # << >> /\ step.op \notin {"drop", "retract", "close"} /\ UNCHANGED <<handles, faults, used>>
  BY DEF RenameEntry, At
<1>2. Tame
  BY <1>1, EntriesApart, Renaming DEF RenameEntry, Tame, Untouched
<1>3. Miss \/ GoOn("confirm", None)
  BY DEF RenameEntry
<1> QED BY <1>1, <1>2, <1>3, TameStep

(* Moving an unexpected entry back drops no link.                          *)
LEMMA ConfirmRenameInv == ASSUME DirectoryInv, ConfirmRename PROVE DirectoryInv' /\ Tame
<1>1. todo # << >> /\ UNCHANGED <<handles, faults, used>>
  BY DEF ConfirmRename, At
<1>2. Tame
  BY <1>1, EntriesApart, Renaming DEF ConfirmRename, Tame, Untouched
<1>3. Miss \/ Pass
  BY DEF ConfirmRename
<1> QED BY <1>1, <1>2, <1>3, TameStep

(* A file is created under a free name only.                               *)
LEMMA WriteFileInv == ASSUME DirectoryInv, WriteFile PROVE DirectoryInv' /\ Tame
<1>1. todo # << >> /\ UNCHANGED <<handles, faults, used>>
  BY DEF WriteFile, At
<1>2. Tame
  BY <1>1, EntriesApart, Setting DEF WriteFile, Tame, Untouched
<1>3. Miss \/ Pass
  BY DEF WriteFile
<1> QED BY <1>1, <1>2, <1>3, TameStep

(* A restored link takes a free name only.                                 *)
LEMMA RestoreEntryInv == ASSUME DirectoryInv, RestoreEntry PROVE DirectoryInv' /\ Tame
<1>1. todo # << >> /\ UNCHANGED <<handles, faults, used>>
  BY DEF RestoreEntry, At
<1>2. Tame
  BY <1>1, EntriesApart, Setting DEF RestoreEntry, Tame, Untouched
<1>3. Miss \/ Pass
  BY DEF RestoreEntry
<1> QED BY <1>1, <1>2, <1>3, TameStep

(* A republished link takes a free name only.                              *)
LEMMA RelinkEntryInv == ASSUME DirectoryInv, RelinkEntry PROVE DirectoryInv' /\ Tame
<1>1. todo # << >> /\ UNCHANGED <<handles, faults, used>>
  BY DEF RelinkEntry, At
<1>2. Tame
  BY <1>1, EntriesApart, Setting DEF RelinkEntry, Tame, Untouched
<1>3. Miss \/ Pass
  BY DEF RelinkEntry
<1> QED BY <1>1, <1>2, <1>3, TameStep

(* A journal is written again under a free name only.                      *)
LEMMA PreserveJournalInv == ASSUME DirectoryInv, PreserveJournal PROVE DirectoryInv' /\ Tame
<1>1. todo # << >> /\ UNCHANGED <<handles, faults, used>>
  BY DEF PreserveJournal, At
<1>2. Tame
  BY <1>1, EntriesApart, Setting DEF PreserveJournal, Tame, Untouched
<1>3. Miss \/ Pass
  BY DEF PreserveJournal
<1> QED BY <1>1, <1>2, <1>3, TameStep

(* link takes a free name only.                                            *)
LEMMA LinkEntryInv == ASSUME DirectoryInv, LinkEntry PROVE DirectoryInv' /\ Tame
<1>1. todo # << >> /\ step.op \notin {"drop", "retract", "close"} /\ UNCHANGED <<handles, faults, used>>
  BY DEF LinkEntry, At
<1>2. Tame
  BY <1>1, EntriesApart DEF LinkEntry, Tame, Untouched, Doubles
<1>3. Miss \/ GoOn("confirm", None)
  BY DEF LinkEntry
<1> QED BY <1>1, <1>2, <1>3, TameStep

(* A reclaimed file moves to a free name only.                             *)
LEMMA LookAtTargetInv == ASSUME DirectoryInv, LookAtTarget PROVE DirectoryInv' /\ Tame
<1>1. todo # << >> /\ UNCHANGED <<handles, faults, used>>
  BY DEF LookAtTarget, At
<1>2. Tame
  <2>1. CASE dir' = dir BY <2>1 DEF Tame, Untouched
  <2>2. CASE dir' # dir
    <3> DEFINE c == CHOOSE n \in Sources(step.from) : TRUE
    <3>1. dir[step.name] = None /\ Sources(step.from) # {} /\ dir' = Renamed(dir, c, step.name)
      BY <2>2 DEF LookAtTarget
    <3>2. c \in Name
      <4>1. c \in Sources(step.from) BY <3>1
      <4> QED BY <4>1, <1>1, EntriesApart, Apart DEF Sources, RecoveryNames
    <3> QED BY <3>1, <3>2, <1>1, EntriesApart, Renaming
  <2> QED BY <2>1, <2>2
<1>3. Miss \/ Pass \/ GoOn("act", None)
  BY DEF LookAtTarget
<1> QED BY <1>1, <1>2, <1>3, TameStep

(* Moving the target back drops no link.                                   *)
LEMMA RenameBackInv == ASSUME DirectoryInv, RenameBack PROVE DirectoryInv' /\ Tame
<1>1. todo # << >> /\ step.op \notin {"drop", "retract", "close"} /\ UNCHANGED <<handles, faults, used>>
  BY DEF RenameBack, At
<1>2. Tame
  BY <1>1, EntriesApart, Renaming DEF RenameBack, Tame, Untouched
<1>3. Miss \/ GoOn("confirm", None)
  BY DEF RenameBack
<1> QED BY <1>1, <1>2, <1>3, TameStep

(* Only links to files of the item are purged.                             *)
LEMMA PurgeScrapInv == ASSUME DirectoryInv, PurgeScrap PROVE DirectoryInv' /\ Tame
<1>1. todo # << >> /\ UNCHANGED <<handles, faults, used>>
  BY DEF PurgeScrap, At
<1>2. Tame
  <2> DEFINE c == CHOOSE n \in RecoveryNames(step.id) : TRUE
  <2>1. CASE RecoveryNames(step.id) = {}
    BY <2>1 DEF PurgeScrap, Tame, Untouched
  <2>2. CASE RecoveryNames(step.id) # {}
    <3>1. c \in RecoveryNames(step.id) /\ dir' = Set(dir, c, None)
      BY <2>2 DEF PurgeScrap
    <3>2. c \in Name /\ dir[c] = step.id
      BY <3>1, Apart DEF RecoveryNames
    <3> QED BY <3>1, <3>2, <1>1, EntriesApart, Setting
  <2> QED BY <2>1, <2>2
<1>3. Pass \/ GoOn("look", None)
  BY DEF PurgeScrap
<1> QED BY <1>1, <1>2, <1>3, TameStep

(* Actions that use the quarantine or the recovery copies. *)
LEMMA LookAtVictimInv == ASSUME DirectoryInv, LookAtVictim PROVE DirectoryInv' /\ Tame
<1>1. todo # << >> /\ UNCHANGED <<faults, used>> /\ faults' \in 0..MaxFaults
  BY DEF LookAtVictim, At, DirectoryInv
<1>2. CASE UNCHANGED <<dir, handles>>
  <2>1. Pass \/ Miss \/ GoOn("act", None) BY DEF LookAtVictim
  <2> QED BY <1>1, <1>2, <2>1, QuietStep
<1>3. CASE ~UNCHANGED <<dir, handles>>
  <2>1. /\ FreshScrap # {} /\ GoOn("act", None)
        /\ dir' = Set(dir, FreeScrap, step.id) /\ handles' = handles \union {FreeScrap}
    BY <1>3 DEF LookAtVictim
  <2>2. /\ FreeScrap \in Scrap /\ FreeScrap \in Name /\ dir[FreeScrap] = None
        /\ dir \in Directory /\ handles \subseteq Scrap /\ step.id \in Own \union {None}
    BY <2>1, <1>1, FreeScrapFree, Apart, EntriesApart DEF DirectoryInv, CopiesOwn
  <2>3. Tame BY <2>1, <2>2, Setting
  <2>4. handles' \subseteq Scrap /\ None \notin handles' BY <2>1, <2>2, Apart
  <2>5. ScriptOK' /\ QuarantineApart' BY <1>1, <2>1, <2>4, ScriptGoesOn DEF Stage, Unlinks
  <2>6. \A h \in handles' : h \in handles \/ dir'[h] \in Own \union {None}
    BY <2>1, <2>2 DEF Set, Directory
  <2> QED BY <1>1, <2>3, <2>4, <2>5, <2>6, StepFrame
<1> QED BY <1>2, <1>3

(* A quarantined entry moves to a fresh name.                              *)
LEMMA QuarantineInv == ASSUME DirectoryInv, Quarantine PROVE DirectoryInv' /\ Tame
<1>1. todo # << >> /\ UNCHANGED <<handles, faults, used>> /\ FreshScrap # {}
  BY DEF Quarantine, At
<1>2. FreeScrap \in Scrap \ handles /\ FreeScrap \in Name /\ dir[FreeScrap] = None
  BY <1>1, FreeScrapFree, Apart
<1>3. Tame
  BY <1>1, <1>2, EntriesApart, Renaming DEF Quarantine, Tame, Untouched
<1>4. handles' \subseteq Scrap BY <1>1 DEF DirectoryInv, CopiesOwn
<1>5. ScriptOK' /\ QuarantineApart'
  <2>1. CASE Miss BY <1>1, <1>4, <2>1, ScriptEnds
  <2>2. CASE GoOn("confirm", FreeScrap)
    <3>1. step.op # "close" BY DEF Quarantine, At
    <3> QED BY <1>1, <1>2, <1>4, <2>2, <3>1, ScriptGoesOn DEF Stage, Unlinks
  <2> QED BY <2>1, <2>2 DEF Quarantine
<1>6. faults' \in 0..MaxFaults BY <1>1 DEF DirectoryInv
<1> QED BY <1>1, <1>3, <1>4, <1>5, <1>6, StepFrame

(* What is to be unlinked after the quarantine is the expected, hence an    *)
(* own, file.                                                               *)
LEMMA DiscardInv == ASSUME DirectoryInv, Discard PROVE DirectoryInv' /\ Tame
<1>1. todo # << >> /\ UNCHANGED <<handles, faults, used>> /\ moved \in Scrap /\ moved \notin handles
  BY DEF Discard, At, DirectoryInv, QuarantineApart
<1>2. moved \in Name /\ handles' \subseteq Scrap /\ faults' \in 0..MaxFaults
  BY <1>1, Apart DEF DirectoryInv, CopiesOwn
<1>3. Tame
  BY <1>1, <1>2, EntriesApart, Renaming DEF Discard, Tame, Untouched
<1>4. CASE Miss BY <1>1, <1>3, <1>4, TameStep
<1>5. CASE GoOn("unlink", moved) /\ dir' = dir /\ dir[moved] = step.id
  <2>1. dir'[moved] \in Own \union {None} BY <1>1, <1>5, HeadFields
  <2>2. ScriptOK' /\ QuarantineApart' BY <1>1, <1>2, <1>5, <2>1, ScriptGoesOn DEF Stage
  <2> QED BY <1>1, <1>2, <1>3, <2>2, StepFrame
<1> QED BY <1>4, <1>5 DEF Discard

(* Its unlink leaves the recovery copies alone.                             *)
LEMMA UnlinkEntryInv == ASSUME DirectoryInv, UnlinkEntry PROVE DirectoryInv' /\ Tame
<1>1. /\ todo # << >> /\ UNCHANGED <<handles, faults, used>> /\ Pass /\ dir' = Set(dir, moved, None)
      /\ moved \in Scrap /\ dir[moved] \in Own \union {None}
  BY DEF UnlinkEntry, At, DirectoryInv, QuarantineApart, Unlinks
<1>2. Tame BY <1>1, Apart, Setting
<1> QED BY <1>1, <1>2, TameStep

(* Only copies of files of the item become recovery copies.                *)
LEMMA AdoptScrapInv == ASSUME DirectoryInv, AdoptScrap PROVE DirectoryInv' /\ Tame
<1>1. todo # << >> /\ UNCHANGED <<dir, faults, used>> /\ faults' \in 0..MaxFaults
  BY DEF AdoptScrap, At, DirectoryInv
<1>2. Tame BY <1>1 DEF Tame, Untouched
<1>3. handles' \subseteq Scrap /\ \A h \in handles' : h \in handles \/ dir'[h] \in Own \union {None}
  BY <1>1, Apart DEF AdoptScrap, DirectoryInv, CopiesOwn
<1>4. ScriptOK' /\ QuarantineApart'
  BY <1>1, <1>3, ScriptEnds DEF AdoptScrap
<1> QED BY <1>1, <1>2, <1>3, <1>4, StepFrame

(* A recovery copy takes a free name only.                                 *)
LEMMA RetainCopyInv == ASSUME DirectoryInv, RetainCopy PROVE DirectoryInv' /\ Tame
<1>1. todo # << >> /\ UNCHANGED <<faults, used>> /\ faults' \in 0..MaxFaults /\ Pass
  BY DEF RetainCopy, At, DirectoryInv
<1>2. Tame /\ handles' \subseteq handles
  <2> DEFINE copies == {h \in handles : dir[h] = step.id}
             h == CHOOSE x \in copies : TRUE
  <2>1. CASE dir[step.name] = None /\ copies # {}
    <3>1. dir' = Renamed(dir, h, step.name) /\ handles' = handles \ {h}
      BY <2>1 DEF RetainCopy
    <3>2. h \in copies BY <2>1
    <3>3. h \in Name BY <3>2, Apart DEF DirectoryInv, CopiesOwn
    <3> QED BY <1>1, <2>1, <3>1, <3>3, EntriesApart, Renaming
  <2>2. CASE ~(dir[step.name] = None /\ copies # {})
    BY <2>2 DEF RetainCopy, Tame, Untouched
  <2> QED BY <2>1, <2>2
<1>3. handles' \subseteq Scrap BY <1>2 DEF DirectoryInv, CopiesOwn
<1>4. ScriptOK' /\ QuarantineApart'
  BY <1>1, <1>3, ScriptEnds
<1> QED BY <1>1, <1>2, <1>3, <1>4, StepFrame

(* A recovery copy that is to be closed is an own file, ...                 *)
LEMMA CloseHandleInv == ASSUME DirectoryInv, CloseHandle PROVE DirectoryInv' /\ Tame
<1>1. todo # << >> /\ UNCHANGED <<dir, faults, used>> /\ faults' \in 0..MaxFaults /\ Tame
  BY DEF CloseHandle, At, DirectoryInv, Tame, Untouched
<1>2. CASE UNCHANGED handles /\ (Pass \/ Miss)
  BY <1>1, <1>2, QuietStep
<1>3. CASE ~(UNCHANGED handles /\ (Pass \/ Miss))
  <2> DEFINE h == CHOOSE x \in handles : TRUE
  <2>1. handles # {} /\ GoOn("confirm", h) /\ handles' = handles \ {h} /\ step.op = "close"
    BY <1>3 DEF CloseHandle, At
  <2>2. h \in handles BY <2>1
  <2>3. h \in Scrap /\ dir'[h] \in Own \union {None} /\ handles' \subseteq Scrap /\ h \notin handles'
    BY <1>1, <2>1, <2>2 DEF DirectoryInv, CopiesOwn
  <2> HIDE DEF h
  <2>4. ScriptOK' /\ QuarantineApart' BY <2>1, <2>3, ScriptGoesOn DEF Stage
  <2> QED BY <1>1, <2>1, <2>3, <2>4, StepFrame
<1> QED BY <1>2, <1>3

(* ... also after the last look at the pair, ...                            *)
LEMMA ConfirmCloseInv == ASSUME DirectoryInv, ConfirmClose PROVE DirectoryInv' /\ Tame
<1>1. /\ todo # << >> /\ UNCHANGED <<dir, handles, faults, used>> /\ faults' \in 0..MaxFaults /\ Tame
      /\ moved \in Scrap /\ moved \notin handles' /\ handles' \subseteq Scrap /\ dir'[moved] \in Own \union {None}
  BY DEF ConfirmClose, At, DirectoryInv, QuarantineApart, CopiesOwn, Unlinks, Tame, Untouched
<1>2. CASE Miss BY <1>1, <1>2, QuietStep
<1>3. CASE GoOn("unlink", moved)
  <2>1. ScriptOK' /\ QuarantineApart' BY <1>1, <1>3, ScriptGoesOn DEF Stage
  <2> QED BY <1>1, <2>1, StepFrame
<1> QED BY <1>2, <1>3 DEF ConfirmClose

(* ... and its unlink leaves the others alone.                              *)
LEMMA UnlinkCopyInv == ASSUME DirectoryInv, UnlinkCopy PROVE DirectoryInv' /\ Tame
<1>1. /\ todo # << >> /\ UNCHANGED <<handles, faults, used>> /\ GoOn("look", None) /\ dir' = Set(dir, moved, None)
      /\ moved \in Scrap /\ dir[moved] \in Own \union {None}
  BY DEF UnlinkCopy, At, DirectoryInv, QuarantineApart, Unlinks
<1>2. Tame BY <1>1, Apart, Setting
<1> QED BY <1>1, <1>2, TameStep

-----------------------------------------------------------------------------
(* A failing call changes nothing ...                                      *)
LEMMA FailCallInv == ASSUME DirectoryInv, FailCall PROVE DirectoryInv' /\ Tame
<1>1. todo # << >> /\ UNCHANGED <<dir, handles, used>> /\ faults' = faults + 1 /\ faults < MaxFaults
  BY DEF FailCall
<1>2. Tame /\ faults' \in 0..MaxFaults /\ handles' \subseteq Scrap /\ None \notin handles'
  BY <1>1, Apart, FaultAssumption DEF DirectoryInv, CopiesOwn, Tame, Untouched
<1>3. ScriptOK' /\ QuarantineApart'
  <2>1. CASE Miss BY <1>1, <1>2, <2>1, ScriptEnds
  <2>2. CASE ok' = FALSE /\ todo' = Tail(todo) /\ UNCHANGED <<stage, moved>> /\ stage = "look"
    BY <1>1, <1>2, <2>2, HeadType DEF ScriptOK, QuarantineApart, Unlinks, At, DirectoryInv
  <2>3. CASE GoOn("act", None) BY <1>1, <1>2, <2>3, ScriptGoesOn DEF Stage, Unlinks
  <2> QED BY <2>1, <2>2, <2>3 DEF FailCall, At
<1> QED BY <1>1, <1>2, <1>3, StepFrame

(* ... or leaves behind the file it was writing.                           *)
LEMMA FailTwiceInv == ASSUME DirectoryInv, FailTwice PROVE DirectoryInv' /\ Tame
<1>1. /\ todo # << >> /\ UNCHANGED <<handles, used>> /\ faults' = faults + 2 /\ faults + 1 < MaxFaults
      /\ Miss /\ dir[step.name] = None /\ dir' = Set(dir, step.name, step.id)
  BY DEF FailTwice, At
<1>2. Tame BY <1>1, EntriesApart, Setting
<1>3. faults' \in 0..MaxFaults /\ handles' \subseteq Scrap
  BY <1>1, FaultAssumption DEF DirectoryInv, CopiesOwn
<1>4. ScriptOK' /\ QuarantineApart'
  BY <1>1, <1>3, ScriptEnds
<1> QED BY <1>1, <1>2, <1>3, <1>4, StepFrame

(* Every step of a script keeps the directory typed, by a tame change.     *)
LEMMA TameProgram ==
  ASSUME DirectoryInv, RunStep \/ FailCall \/ FailTwice
  PROVE  DirectoryInv' /\ Tame
BY Looks, RenameEntryInv, ConfirmRenameInv, LinkEntryInv, LookAtVictimInv, QuarantineInv, DiscardInv,
   UnlinkEntryInv, ConfirmCloseInv, UnlinkCopyInv, WriteFileInv, LookAtTargetInv, RenameBackInv, RestoreEntryInv, RelinkEntryInv, AdoptScrapInv,
   RetainCopyInv, PreserveJournalInv, CloseHandleInv, PurgeScrapInv, FailCallInv, FailTwiceInv
   DEF RunStep

(* So it loses no foreign file.                                            *)
THEOREM ProgramStep ==
  ASSUME DirectoryInv, RunStep \/ FailCall \/ FailTwice
  PROVE  DirectoryInv' /\ KeepsForeign(dir, dir')
BY TameProgram, TameKeeps

(* A process outside Pasteberth, which may do anything to the public names, *)
(* keeps the directory typed and touches no recovery copy.                 *)
THEOREM OutsideStep ==
  ASSUME DirectoryInv, ForeignStep PROVE DirectoryInv'
<1>1. PICK n \in Name, f \in ForeignFile : ForeignPut(n, f) \/ ForeignDelete(n, f)
  BY DEF ForeignStep
<1>2. <<"foreign", f>> \in Inode /\ n \notin Scrap
  BY <1>1 DEF Foreign, Inode, ForeignPut, ForeignDelete, IsPublic, Scrap
<1>3. dir' \in Directory /\ CopiesOwn'
  BY <1>1, <1>2, Apart DEF ForeignPut, ForeignDelete, Set, Directory, DirectoryInv, CopiesOwn
<1>4. ScriptOK' /\ QuarantineApart' /\ faults' \in 0..MaxFaults /\ used' \subseteq ForeignFile
  <2>1. UNCHANGED <<todo, stage, moved, ok, handles, faults>> /\ used' \subseteq ForeignFile
        /\ \A m \in Scrap : dir'[m] = dir[m]
    BY <1>1, <1>2, Apart DEF ForeignPut, ForeignDelete, Set, Directory, DirectoryInv
  <2> QED BY <2>1 DEF DirectoryInv, ScriptOK, QuarantineApart, Unlinks, At, step
<1> QED BY <1>3, <1>4 DEF DirectoryInv

(* A new script starts, or the process stops. *)
THEOREM ScriptChange ==
  ASSUME DirectoryInv, dir' = dir, faults' \in 0..MaxFaults, used' = used,
         handles' \in {{}, handles}, NEW script \in Seq(Step), Run(script)
  PROVE  DirectoryInv'
<1>1. ScriptOK' BY DEF ScriptOK, Run, Stage
<1>2. CopiesOwn' BY DEF CopiesOwn, DirectoryInv
<1>3. QuarantineApart' BY <1>2, Apart DEF QuarantineApart, Unlinks, CopiesOwn, Run, At
<1> QED BY <1>1, <1>2, <1>3 DEF DirectoryInv
-----------------------------------------------------------------------------
(***************************************************************************)
(* Every script of TransactionScripts is a sequence of well-formed steps:  *)
(* it names entries, never a quarantine name, and inodes the program made  *)
(* or owns, never a foreign one.                                           *)
(***************************************************************************)

(* The step every other one is built from is typed.                        *)
LEMMA FlushType == Flush \in Step
<1>1. {} \in Pairs BY DEF Pairs
<1> QED BY <1>1 DEF Flush, Step, Op, Marker, Entry, Journal

(* Steps that name one or two entries and the inode expected there. *)
LEMMA PlainSteps ==
  ASSUME NEW n \in Entry, NEW t \in Entry, NEW i \in Own
  PROVE  /\ Write(n, i) \in Step /\ Move(n, t, i) \in Step /\ Link(n, t, i) \in Step
         /\ Drop(n, i) \in Step /\ Heal(n, i) \in Step /\ Retain(n, i) \in Step
         /\ Expect(n, i) \in Step /\ Gone(n, i) \in Step /\ Purge(i) \in Step
         /\ Settle(n, t, i) \in Step /\ Retract(n, i) \in Step
BY FlushType DEF Step, Op, Write, Move, Link, Drop, Heal, Retain, Expect, Gone, Purge,
                 Settle, Retract

(* Steps that also name the copies to restore an entry from. *)
LEMMA CopySteps ==
  ASSUME NEW n \in Entry, NEW t \in Entry, NEW c \in Entry, NEW i \in Own, NEW cs \in SUBSET Entry
  PROVE  /\ Restore(n, c, i) \in Step
         /\ Reclaim(n, t, cs, i) \in Step /\ Relink(n, cs, i) \in Step
BY FlushType DEF Step, Op, Restore, Reclaim, Relink

(* Steps that depend on the public pair. *)
LEMMA PairSteps ==
  ASSUME NEW n \in Entry, NEW i \in Own, NEW pair \in Pairs
  PROVE  /\ DropIf(pair, n, i) \in Step /\ Guarded(pair, n, i) \in Step
         /\ Adopt(pair) \in Step /\ Assert(pair) \in Step /\ Close(pair) \in Step
<1>1. DropIf(pair, n, i) \in Step
  BY FlushType DEF DropIf, Drop, Step, Op
<1>2. Guarded(pair, n, i) \in Step
  BY FlushType DEF Guarded, DropIf, Drop, Step, Op
<1> QED
  BY <1>1, <1>2, FlushType DEF Step, Op, Adopt, Assert, Close

(* So are the steps on the journal ...                                     *)
LEMMA JournalSteps ==
  ASSUME NEW n \in Journal, NEW copies \in Pairs
  PROVE  Log(n) \in Step /\ Preserve(n, copies) \in Step
BY FlushType DEF Step, Op, Log, Write, Preserve, Entry, Own

(* ... and the ones whose failure does not end their script.               *)
LEMMA LenientSteps == ASSUME NEW s \in Step PROVE Leniently(s) \in Step
BY DEF Step, Leniently

(* Every place of an item and every file of a pair are of the right type.  *)
LEMMA Names ==
  /\ \A place \in {"public", "source", "target", "temp", "backup", "guard", "spare"} :
       N(place, D) \in Entry /\ N(place, M) \in Entry
  /\ \A p \in {D, M} : Old(p) \in Own /\ New(p) \in Own
  /\ Marker \in Journal /\ Commit \in Journal
  /\ Marker \in Entry /\ Commit \in Entry /\ Marker \in Own /\ Commit \in Own
BY DEF Old, New, N, Own, File, Entry, Named, Part, Marker, Commit, Journal, D, M

(* The public pairs before and after a mutation can be looked up.          *)
LEMMA PairTypes == \A k \in Kind : Before(k) \in Pairs /\ After(k) \in Pairs
BY Names DEF Before, After, Pairs, Kind, D, M, Part

(* The scripts before the point of no return. *)
LEMMA StagingType == \A k \in Kind : Staging(k) \in Seq(Step)
<1>1. Write(N("temp", D), New(D)) \in Step /\ Write(N("temp", M), New(M)) \in Step
  BY PlainSteps, Names
<1>2. Log(Marker) \in Step
  BY JournalSteps, Names, PairTypes DEF Kind
<1> QED BY <1>1, <1>2 DEF Staging, Kind

(* The script that removes the temporary files is typed.                   *)
LEMMA LeftoversType == \A k \in Kind : Leftovers(k) \in Seq(Step)
<1>1. Drop(N("temp", D), New(D)) \in Step /\ Drop(N("temp", M), New(M)) \in Step
  BY PlainSteps, Names
<1> QED BY <1>1, LenientSteps DEF Leftovers, Kind

(* The script that changes the public names is typed.                      *)
LEMMA InstallType == \A k \in Kind : Install(k) \in Seq(Step)
<1>1. Flush \in Step /\ Log(Commit) \in Step
  BY FlushType, JournalSteps, Names, PairTypes DEF Kind
<1>2. Install("fresh") \in Seq(Step)
  <2>1. /\ Link(N("temp", D), N("guard", D), New(D)) \in Step
        /\ Move(N("temp", D), N("public", D), New(D)) \in Step
        /\ Link(N("temp", M), N("guard", M), New(M)) \in Step
        /\ Move(N("temp", M), N("public", M), New(M)) \in Step
    BY PlainSteps, Names
  <2> QED BY <1>1, <2>1 DEF Install
<1>3. Install("replace") \in Seq(Step)
  <2>1. /\ Move(N("public", D), N("backup", D), Old(D)) \in Step
        /\ Move(N("public", M), N("backup", M), Old(M)) \in Step
        /\ Link(N("temp", D), N("public", D), New(D)) \in Step
        /\ Link(N("temp", D), N("guard", D), New(D)) \in Step
        /\ Link(N("temp", M), N("public", M), New(M)) \in Step
        /\ Link(N("temp", M), N("guard", M), New(M)) \in Step
    BY PlainSteps, Names
  <2> QED BY <1>1, <2>1 DEF Install
<1>4. Install("rename") \in Seq(Step)
  <2>1. /\ Link(N("source", D), N("backup", D), Old(D)) \in Step
        /\ Link(N("backup", D), N("guard", D), Old(D)) \in Step
        /\ Link(N("source", M), N("spare", M), Old(M)) \in Step
        /\ Move(N("source", D), N("target", D), Old(D)) \in Step
        /\ Move(N("source", M), N("backup", M), Old(M)) \in Step
        /\ Link(N("temp", M), N("target", M), New(M)) \in Step
        /\ Link(N("temp", M), N("guard", M), New(M)) \in Step
    BY PlainSteps, Names
  <2> QED BY <1>1, <2>1 DEF Install, InstallRename
<1>5. Install("delete") \in Seq(Step)
  <2>1. /\ Move(N("public", D), N("backup", D), Old(D)) \in Step
        /\ Move(N("public", M), N("backup", M), Old(M)) \in Step
    BY PlainSteps, Names
  <2> QED BY <1>1, <2>1 DEF Install
<1> QED BY <1>2, <1>3, <1>4, <1>5 DEF Kind

(* Cleanup of a committed transaction. *)
LEMMA RetireType == \A k \in Kind : Retire(k) \in Seq(Step)
<1> SUFFICES ASSUME NEW k \in Kind PROVE Retire(k) \in Seq(Step)
  OBVIOUS
<1>1. /\ DropIf(After(k), Marker, Marker) \in Step /\ DropIf(After(k), Commit, Commit) \in Step
      /\ Assert(After(k)) \in Step /\ Flush \in Step
  BY PairSteps, PairTypes, Names, FlushType
<1> QED BY <1>1 DEF Retire

(* The script that cleans up after the commit is typed.                    *)
LEMMA CleanupType == \A k \in Kind \ {"delete"} : Cleanup(k) \in Seq(Step)
<1>1. ASSUME NEW k \in {"fresh", "replace"} PROVE Cleanup(k) \in Seq(Step)
  <2>1. k \in Kind /\ After(k) \in Pairs
    BY PairTypes DEF Kind
  <2>2. /\ Relink(N("public", D), {N("temp", D), N("guard", D)}, New(D)) \in Step
        /\ Relink(N("public", M), {N("temp", M), N("guard", M)}, New(M)) \in Step
        /\ Assert(After(k)) \in Step
    BY <2>1, CopySteps, PairSteps, Names
  <2>3. /\ DropIf(After(k), N("backup", D), Old(D)) \in Step
        /\ Guarded(After(k), N("backup", M), Old(M)) \in Step
    BY <2>1, PairSteps, Names
  <2>4. /\ Guarded(After(k), N("temp", M), New(M)) \in Step /\ Adopt(After(k)) \in Step
        /\ Guarded(After(k), N("guard", M), New(M)) \in Step
        /\ Guarded(After(k), N("temp", D), New(D)) \in Step
        /\ Guarded(After(k), N("guard", D), New(D)) \in Step
    BY <2>1, PairSteps, Names
  <2>5. Retire(k) \in Seq(Step)
    BY <2>1, RetireType
  <2> QED BY <2>2, <2>3, <2>4, <2>5 DEF Cleanup
<1>2. Cleanup("rename") \in Seq(Step)
  <2> DEFINE after == After("rename")
  <2>1. after \in Pairs /\ Retire("rename") \in Seq(Step)
    BY PairTypes, RetireType DEF Kind
  <2> HIDE DEF after
  <2>2. /\ Relink(N("target", D), {N("backup", D), N("guard", D)}, Old(D)) \in Step
        /\ Relink(N("target", M), {N("temp", M), N("guard", M)}, New(M)) \in Step
        /\ Assert(after) \in Step
    BY <2>1, CopySteps, PairSteps, Names
  <2>3. /\ Guarded(after, N("backup", M), Old(M)) \in Step /\ Guarded(after, N("temp", M), New(M)) \in Step
        /\ Guarded(after, N("spare", M), Old(M)) \in Step /\ DropIf(after, N("backup", D), Old(D)) \in Step
        /\ Adopt(after) \in Step
        /\ Guarded(after, N("guard", M), New(M)) \in Step /\ Guarded(after, N("guard", D), Old(D)) \in Step
    BY <2>1, PairSteps, Names
  <2> QED BY <2>1, <2>2, <2>3 DEF Cleanup, CleanupRename, after
<1> QED BY <1>1, <1>2 DEF Kind

(* The script that republishes a committed pair is typed.                  *)
LEMMA HealNewType == \A k \in Kind \ {"delete"} : HealNew(k) \in Seq(Step)
<1>1. /\ Heal(N("public", D), New(D)) \in Step /\ Heal(N("public", M), New(M)) \in Step
      /\ Heal(N("target", D), Old(D)) \in Step /\ Heal(N("target", M), New(M)) \in Step
  BY PlainSteps, Names
<1> QED BY <1>1 DEF HealNew, Kind

(* The script that keeps the copies of a committed pair is typed.          *)
LEMMA KeepNewType == \A k \in Kind \ {"delete"} : KeepNew(k) \in Seq(Step)
<1>1. /\ Retain(N("temp", D), New(D)) \in Step /\ Retain(N("guard", D), New(D)) \in Step
      /\ Retain(N("temp", M), New(M)) \in Step /\ Retain(N("guard", M), New(M)) \in Step
      /\ Retain(N("guard", D), Old(D)) \in Step /\ Retain(N("backup", D), Old(D)) \in Step
  BY PlainSteps, Names
<1> QED BY <1>1 DEF KeepNew, Kind

(* The script that writes the commit file again is typed.                  *)
LEMMA KeepCommitType == KeepCommit \in Seq(Step)
<1>1. {} \in Pairs BY DEF Pairs
<1>2. Preserve(Commit, {}) \in Step BY <1>1, JournalSteps, Names
<1> QED BY <1>2, LenientSteps DEF KeepCommit

(* Rollback of a prepared transaction. *)
LEMMA RollbackType == \A k \in Kind : Rollback(k) \in Seq(Step)
<1>1. /\ Retract(N("public", D), New(D)) \in Step /\ Retract(N("public", M), New(M)) \in Step
      /\ Drop(N("temp", D), New(D)) \in Step /\ Drop(N("guard", D), New(D)) \in Step
      /\ Drop(N("temp", M), New(M)) \in Step /\ Drop(N("guard", M), New(M)) \in Step
  BY PlainSteps, Names
<1>2. /\ Restore(N("public", D), N("backup", D), Old(D)) \in Step
      /\ Restore(N("public", M), N("backup", M), Old(M)) \in Step
  BY CopySteps, Names
<1>3. Rollback("fresh") \in Seq(Step)
  BY <1>1, LenientSteps DEF Rollback
<1>4. Rollback("replace") \in Seq(Step)
  <2>1. Assert(Before("replace")) \in Step
    BY PairSteps, PairTypes, Names DEF Kind
  <2> QED BY <1>1, <1>2, <2>1, LenientSteps DEF Rollback
<1>5. Rollback("rename") \in Seq(Step)
  <2>1. Reclaim(N("source", D), N("target", D), {N("backup", D), N("guard", D)}, Old(D)) \in Step
    BY CopySteps, Names
  <2>2. Reclaim(N("source", M), N("backup", M), {N("spare", M)}, Old(M)) \in Step
    BY CopySteps, Names
  <2>3. /\ Retract(N("target", M), New(M)) \in Step
        /\ Expect(N("backup", M), Old(M)) \in Step /\ Expect(N("spare", M), Old(M)) \in Step
    BY PlainSteps, Names
  <2>4. Assert({<<N("source", M), Old(M)>>}) \in Step
    <3>1. {<<N("source", M), Old(M)>>} \in Pairs
      BY Names DEF Pairs
    <3> QED BY <3>1, PairSteps, Names
  <2>5. /\ Drop(N("temp", M), New(M)) \in Step /\ Drop(N("guard", M), New(M)) \in Step
    BY <1>1
  <2> QED BY <2>1, <2>2, <2>3, <2>4, <2>5, LenientSteps DEF Rollback, RollbackRename
<1>6. Rollback("delete") \in Seq(Step)
  BY <1>2 DEF Rollback, RollbackDelete
<1> QED BY <1>3, <1>4, <1>5, <1>6 DEF Kind

(* The script that retires a prepared marker is typed.                     *)
LEMMA RetireMarkerType == \A k \in Kind : RetireMarker(k) \in Seq(Step)
<1> SUFFICES ASSUME NEW k \in Kind PROVE RetireMarker(k) \in Seq(Step)
  OBVIOUS
<1>1. Drop(Marker, Marker) \in Step /\ Flush \in Step
  BY PlainSteps, Names, FlushType
<1>2. /\ Guarded(Before(k), N("guard", D), Old(D)) \in Step
      /\ Guarded(Before(k), N("guard", M), New(M)) \in Step
      /\ Guarded(Before(k), N("backup", D), Old(D)) \in Step
      /\ Guarded(Before(k), N("backup", M), Old(M)) \in Step
      /\ Guarded(Before(k), N("spare", M), Old(M)) \in Step
      /\ Guarded(Before(k), Marker, Marker) \in Step /\ Assert(Before(k)) \in Step
  BY PairSteps, PairTypes, Names
<1> QED BY <1>1, <1>2 DEF RetireMarker, RetireRename, Kind

(* The script that republishes the source of a rename is typed.            *)
LEMMA HealOldType == HealOld \in Seq(Step)
BY PlainSteps, Names DEF HealOld

(* The script that keeps the copies of the old pair is typed.              *)
LEMMA KeepOldType == \A k \in Kind : KeepOld(k) \in Seq(Step)
<1>1. /\ Retain(N("backup", D), Old(D)) \in Step /\ Retain(N("guard", D), Old(D)) \in Step
      /\ Retain(N("backup", M), Old(M)) \in Step /\ Retain(N("spare", M), Old(M)) \in Step
  BY PlainSteps, Names
<1> QED BY <1>1 DEF KeepOld

(* The script that writes the marker again is typed.                       *)
LEMMA KeepMarkerType == \A k \in Kind : KeepMarker(k) \in Seq(Step)
<1> SUFFICES ASSUME NEW k \in Kind PROVE KeepMarker(k) \in Seq(Step)
  OBVIOUS
<1>1. OldCopies(k) \in Pairs
  BY Names DEF OldCopies, Pairs, Part, D, M
<1>2. Preserve(Marker, OldCopies(k)) \in Step
  BY <1>1, JournalSteps, Names
<1> QED BY <1>2, LenientSteps DEF KeepMarker

(* The script that purges the anonymous copies is typed.                   *)
LEMMA ForgetCopiesType == ForgetCopies \in Seq(Step)
BY PlainSteps, Names, FlushType DEF ForgetCopies

(* The end of a deletion. *)
LEMMA FinishType == Finish \in Seq(Step)
<1>1. /\ Expect(N("public", D), Old(D)) \in Step /\ Expect(N("backup", D), Old(D)) \in Step
      /\ Expect(N("public", M), Old(M)) \in Step /\ Expect(N("backup", M), Old(M)) \in Step
      /\ Settle(N("public", D), N("backup", D), Old(D)) \in Step
      /\ Settle(N("public", M), N("backup", M), Old(M)) \in Step
  BY PlainSteps, Names
<1> QED BY <1>1, LenientSteps DEF Finish

(* The script that empties the trash of a deletion is typed.               *)
LEMMA EmptyTrashType == EmptyTrash \in Seq(Step)
<1>1. /\ Drop(N("backup", D), Old(D)) \in Step /\ Drop(N("backup", M), Old(M)) \in Step
      /\ Gone(N("public", D), Old(D)) \in Step /\ Gone(N("public", M), Old(M)) \in Step
  BY PlainSteps, Names
<1> QED BY <1>1, LenientSteps DEF EmptyTrash

(* The script that retires the marker of a deletion is typed.              *)
LEMMA UntombType == Untomb \in Seq(Step)
BY PlainSteps, Names, FlushType DEF Untomb
-----------------------------------------------------------------------------

(* The phases of a committed pair: a deletion has none. *)
PublishPhases == {"cleaning", "healing", "recleaning", "keeping", "closing", "rekeeping"}

ControlOK ==
  /\ kind \in Kinds /\ complete \in BOOLEAN /\ committed \in BOOLEAN /\ phase \in Phase
  /\ reply \in {"none", "ok", "error", "lost"} /\ crashes \in 0..MaxCrashes
  /\ kind = "delete" => phase \notin PublishPhases

Inv == DirectoryInv /\ ControlOK

(* The inductive invariant contains the type invariant.                    *)
LEMMA InvTypeOK == Inv /\ misread \in BOOLEAN => TypeOK
BY DEF Inv, DirectoryInv, Directory, ScriptOK, CopiesOwn, QuarantineApart, ControlOK, TypeOK

(* It holds of an item at rest, whatever the mutation.                     *)
LEMMA InitInv == Init => Inv
<1> SUFFICES ASSUME Init PROVE Inv OBVIOUS
<1>1. kind \in Kinds /\ kind \in Kind BY KindAssumption DEF Init
<1>2. Opening(kind) \in Directory
  <2>1. \A n \in Name : n[1] # "trash" => n[2] \in Part \/ n \in Journal
    BY DEF Name, Entry, Named, Scrap
  <2>2. ASSUME NEW n \in Name, n[1] \in {"source", "public"} PROVE Old(n[2]) \in Inode
    BY <2>2, Apart DEF Name, Entry, Named, Scrap, Journal, Old, Own, File, Inode
  <2> QED BY <2>2 DEF Opening, Directory
<1>3. DirectoryInv
  <2>1. << >> \in Seq(Step) OBVIOUS
  <2> QED BY <1>2, <2>1, Apart, FaultAssumption
        DEF Init, DirectoryInv, ScriptOK, CopiesOwn, QuarantineApart, Unlinks, At, Stage
<1>4. ControlOK
  <2>1. crashes \in 0..MaxCrashes BY CrashAssumption DEF Init
  <2>2. complete \in BOOLEAN /\ committed \in BOOLEAN BY DEF Init
  <2> QED BY <1>1, <2>1, <2>2 DEF Init, ControlOK, Phase, PublishPhases
<1> QED BY <1>3, <1>4 DEF Inv

-----------------------------------------------------------------------------
(* A step of the control either starts a well-formed script in a phase that *)
(* fits the mutation or leaves the file operations alone.                   *)
Steady == UNCHANGED <<dir, faults, used, kind>> /\ handles' \in {{}, handles}
ControlTypes ==
  /\ complete' \in BOOLEAN /\ committed' \in BOOLEAN /\ crashes' \in 0..MaxCrashes
  /\ reply' \in {"none", "ok", "error", "lost"}

(* Taking up another typed script, with nothing else changed, keeps it.    *)
LEMMA BecomeInv ==
  ASSUME Inv, Steady, ControlTypes, NEW ph \in Phase, NEW script \in Seq(Step), Become(ph, script),
         kind = "delete" => ph \notin PublishPhases
  PROVE  Inv'
<1>1. DirectoryInv'
  <2>1. dir' = dir /\ used' = used /\ handles' \in {{}, handles} /\ faults' \in 0..MaxFaults
    BY DEF Steady, Inv, DirectoryInv
  <2> QED BY <2>1, ScriptChange DEF Become, Inv
<1>2. ControlOK'
  BY DEF Inv, ControlOK, ControlTypes, Steady, Become
<1> QED BY <1>1, <1>2 DEF Inv

(* The mutation of a model is one of the four of the code.                 *)
LEMMA KindType == Inv => kind \in Kind
BY KindAssumption DEF Inv, ControlOK

(* The empty script is typed, ...                                          *)
LEMMA EmptyScript == << >> \in Seq(Step)
OBVIOUS

(* ... and so is one script after another.                                 *)
LEMMA Concatenation == \A s \in Seq(Step), t \in Seq(Step) : s \o t \in Seq(Step)
OBVIOUS

(* Publication. *)
LEMMA BeginInv == ASSUME Inv, Begin PROVE Inv'
<1>1. Steady /\ UNCHANGED <<complete, committed, crashes>>
  BY DEF Begin, Steady
<1>2. CASE Accepted
  <2>1. Become("staging", Staging(kind)) /\ UNCHANGED reply BY <1>2 DEF Begin
  <2>2. ControlTypes BY <1>1, <2>1 DEF Inv, ControlOK, ControlTypes
  <2> QED BY <1>1, <2>1, <2>2, BecomeInv, KindType, StagingType DEF Phase, PublishPhases
<1>3. CASE ~Accepted
  <2>1. /\ reply' = "error" /\ UNCHANGED <<dir, todo, stage, moved, ok, handles, faults, used>>
        /\ UNCHANGED <<kind, phase, complete, crashes, committed>>
    BY <1>3 DEF Begin
  <2>2. DirectoryInv'
    BY <2>1 DEF Inv, DirectoryInv, ScriptOK, CopiesOwn, QuarantineApart, Unlinks, At, step
  <2> QED BY <2>1, <2>2 DEF Inv, ControlOK
<1> QED BY <1>2, <1>3

(* The private files are written, or not.                                  *)
LEMMA StagedInv == ASSUME Inv, Staged PROVE Inv'
<1>1. Steady /\ ControlTypes
  BY DEF Staged, Steady, ControlTypes, Inv, ControlOK
<1>2. Become("installing", Install(kind)) \/ Become("discarding", Leftovers(kind))
  BY DEF Staged
<1> QED BY <1>1, <1>2, BecomeInv, KindType, InstallType, LeftoversType DEF Phase, PublishPhases

(* The public names have changed, or not.                                  *)
LEMMA InstalledInv == ASSUME Inv, Installed PROVE Inv'
<1>1. Steady BY DEF Installed, Steady
<1>2. ControlTypes
  <2>1. committed' \in BOOLEAN BY DEF Installed
  <2> QED BY <2>1 DEF Installed, ControlTypes, Inv, ControlOK
<1>3. kind \in Kind BY KindType
<1>4. CASE ok /\ kind # "delete"
  <2>1. Become("cleaning", Cleanup(kind)) BY <1>4 DEF Installed
  <2> QED BY <1>1, <1>2, <1>3, <1>4, <2>1, BecomeInv, CleanupType DEF Phase, PublishPhases
<1>5. CASE ok /\ kind = "delete"
  <2>1. Become("finishing", Finish) BY <1>5 DEF Installed
  <2> QED BY <1>1, <1>2, <2>1, BecomeInv, FinishType DEF Phase, PublishPhases
<1>6. CASE ~ok /\ dir[Commit] # None
  <2>1. Become("discarding", Leftovers(kind)) \/ Become("discarding", << >>) BY <1>6 DEF Installed
  <2> QED BY <1>1, <1>2, <1>3, <2>1, BecomeInv, LeftoversType, EmptyScript DEF Phase, PublishPhases
<1>7. CASE ~ok /\ dir[Commit] = None
  <2>1. Become("rolling", Rollback(kind)) BY <1>7 DEF Installed
  <2> QED BY <1>1, <1>2, <1>3, <2>1, BecomeInv, RollbackType DEF Phase, RollbackPhases, PublishPhases
<1> QED BY <1>4, <1>5, <1>6, <1>7

(* The exception reaches the caller.                                       *)
LEMMA DiscardedInv == ASSUME Inv, Discarded PROVE Inv'
<1>1. Steady BY DEF Discarded, Steady
<1>2. ControlTypes BY DEF Discarded, ControlTypes, Inv, ControlOK
<1>3. Become("idle", << >>) BY DEF Discarded
<1> QED BY <1>1, <1>2, <1>3, BecomeInv, EmptyScript DEF Phase, PublishPhases

(* Cleanup of a committed pair. *)
LEMMA KeepOrCloseInv ==
  ASSUME Inv, Steady, ControlTypes, kind # "delete", NEW finished, KeepOrClose(finished)
  PROVE  Inv'
<1> DEFINE copies == IF Holds(After(kind)) THEN << >> ELSE KeepNew(kind)
           journal == IF finished THEN << >> ELSE KeepCommit
<1>1. copies \in Seq(Step) BY KindType, KeepNewType, EmptyScript
<1>2. journal \in Seq(Step) BY KeepCommitType, EmptyScript
<1>3. copies \o journal \in Seq(Step) BY <1>1, <1>2, Concatenation
<1>4. Become("keeping", copies \o journal) BY DEF KeepOrClose
<1> QED BY <1>3, <1>4, BecomeInv DEF Phase, PublishPhases

(* The committed cleanup ends, or republishes and starts again.            *)
LEMMA CleanedInv == ASSUME Inv, Cleaned PROVE Inv'
<1>1. Steady /\ kind # "delete"
  BY DEF Cleaned, Steady, Done, Inv, ControlOK, PublishPhases
<1>2. ControlTypes
  <2>1. complete' \in BOOLEAN BY DEF Cleaned
  <2> QED BY <2>1 DEF Cleaned, ControlTypes, Inv, ControlOK
<1>3. CASE phase = "cleaning" /\ ~Holds(After(kind))
  <2>1. Become("healing", HealNew(kind)) BY <1>3 DEF Cleaned
  <2> QED BY <1>1, <1>2, <2>1, BecomeInv, KindType, HealNewType DEF Phase, PublishPhases
<1>4. CASE ~(phase = "cleaning" /\ ~Holds(After(kind)))
  <2>1. KeepOrClose(ok /\ Holds(After(kind))) BY <1>4 DEF Cleaned
  <2> QED BY <1>1, <1>2, <2>1, KeepOrCloseInv
<1> QED BY <1>3, <1>4

(* A public name was linked again from the recovery copies, or not.        *)
LEMMA HealedInv == ASSUME Inv, Healed PROVE Inv'
<1>1. Steady /\ kind # "delete"
  BY DEF Healed, Steady, Done, Inv, ControlOK, PublishPhases
<1>2. ControlTypes BY DEF Healed, ControlTypes, Inv, ControlOK
<1>3. Become("recleaning", Cleanup(kind)) \/ KeepOrClose(FALSE) BY DEF Healed
<1>4. CASE Become("recleaning", Cleanup(kind))
  BY <1>1, <1>2, <1>4, BecomeInv, KindType, CleanupType DEF Phase, PublishPhases
<1> QED BY <1>1, <1>2, <1>3, <1>4, KeepOrCloseInv

(* The copies worth keeping have their names back.                         *)
LEMMA KeptInv == ASSUME Inv, Kept PROVE Inv'
<1>1. Steady /\ kind # "delete"
  BY DEF Kept, Steady, Done, Inv, ControlOK, PublishPhases
<1>2. ControlTypes BY DEF Kept, ControlTypes, Inv, ControlOK
<1>3. Become("closing", << Close(After(kind)) >>) BY DEF Kept
<1>4. << Close(After(kind)) >> \in Seq(Step)
  <2>1. Close(After(kind)) \in Step BY KindType, PairTypes, PairSteps, Names
  <2> QED BY <2>1
<1> QED BY <1>1, <1>2, <1>3, <1>4, BecomeInv DEF Phase, PublishPhases

(* The caller of a publication is answered.                                *)
LEMMA AnswerInv ==
  ASSUME Inv, NEW good, Answer(good), UNCHANGED <<dir, faults, used, kind, crashes>>,
         complete' \in BOOLEAN, committed' \in BOOLEAN
  PROVE  Inv'
<1>1. Steady BY DEF Answer, Steady
<1>2. ControlTypes BY DEF Answer, ControlTypes, Inv, ControlOK
<1> DEFINE rest == IF kind = "rename" THEN Leftovers(kind) ELSE << >>
<1>3. rest \in Seq(Step) BY KindType, LeftoversType, EmptyScript
<1>4. Become("idle", << >>) \/ Become("discarding", rest) BY DEF Answer
<1>5. CASE Become("idle", << >>)
  BY <1>1, <1>2, <1>5, BecomeInv, EmptyScript DEF Phase, PublishPhases
<1>6. CASE Become("discarding", rest)
  BY <1>1, <1>2, <1>3, <1>6, BecomeInv DEF Phase, PublishPhases
<1> QED BY <1>4, <1>5, <1>6

(* The recovery copies are unlinked, or one could not be.                  *)
LEMMA ClosedInv == ASSUME Inv, Closed PROVE Inv'
<1>1. complete' \in BOOLEAN /\ committed' \in BOOLEAN /\ UNCHANGED <<dir, faults, used, kind, crashes>>
  BY DEF Closed, Inv, ControlOK
<1>2. CASE ok
  BY <1>1, <1>2, AnswerInv DEF Closed
<1>3. CASE ~ok
  <2>1. Become("rekeeping", KeepNew(kind) \o KeepCommit) /\ UNCHANGED <<handles, reply>>
    BY <1>3 DEF Closed
  <2>2. Steady /\ ControlTypes /\ kind # "delete"
    BY <1>1, <2>1 DEF Closed, Done, Steady, ControlTypes, Inv, ControlOK, PublishPhases
  <2>3. KeepNew(kind) \o KeepCommit \in Seq(Step)
    BY <2>2, KindType, KeepNewType, KeepCommitType, Concatenation
  <2> QED BY <2>1, <2>2, <2>3, BecomeInv DEF Phase, PublishPhases
<1> QED BY <1>2, <1>3

(* A cleanup that could not close its copies ends.                         *)
LEMMA RekeptInv == ASSUME Inv, Rekept PROVE Inv'
<1>1. complete' \in BOOLEAN /\ committed' \in BOOLEAN /\ UNCHANGED <<dir, faults, used, kind, crashes>>
  BY DEF Rekept, Inv, ControlOK
<1> QED BY <1>1, AnswerInv DEF Rekept

(* Rollback of a prepared mutation. *)
LEMMA EndRollbackInv ==
  ASSUME Inv, EndRollback, UNCHANGED <<dir, used, kind>>, faults' \in 0..MaxFaults, ControlTypes
  PROVE  Inv'
<1>1. handles' = {} BY DEF EndRollback
<1>2. DirectoryInv' /\ phase' \in {"discarding", "idle"}
  <2>1. PICK script \in Seq(Step) : Run(script) /\ phase' \in {"discarding", "idle"}
    BY KindType, LeftoversType, EmptyScript DEF EndRollback, Become
  <2> QED BY <1>1, <2>1, ScriptChange DEF Inv
<1>3. ControlOK'
  BY <1>2 DEF Inv, ControlOK, ControlTypes, Phase, PublishPhases
<1> QED BY <1>2, <1>3 DEF Inv

(* The old names are back, or the rollback stops there.                    *)
LEMMA RolledBackInv == ASSUME Inv, RolledBack PROVE Inv'
<1>1. UNCHANGED <<dir, faults, used, kind>> /\ faults' \in 0..MaxFaults
  BY DEF RolledBack, Inv, DirectoryInv
<1>2. ControlTypes
  BY DEF RolledBack, ControlTypes, Inv, ControlOK, DirectoryInv, ScriptOK
<1>3. CASE ok
  <2>1. Steady /\ Become("retiring", RetireMarker(kind)) BY <1>1, <1>3 DEF RolledBack, Steady
  <2> QED BY <1>2, <2>1, BecomeInv, KindType, RetireMarkerType DEF Phase, RollbackPhases, PublishPhases
<1>4. CASE ~ok
  BY <1>1, <1>2, <1>4, EndRollbackInv DEF RolledBack
<1> QED BY <1>3, <1>4

(* The script that keeps the journal and the old copies is typed.          *)
LEMMA KeepOldOrCloseInv ==
  ASSUME Inv, Steady, ControlTypes, NEW finished, KeepOldOrClose(finished)
  PROVE  Inv'
<1> DEFINE journal == IF finished THEN << >> ELSE KeepMarker(kind)
           copies == IF Holds(Before(kind)) THEN << >> ELSE KeepOld(kind)
<1>1. journal \in Seq(Step) BY KindType, KeepMarkerType, EmptyScript
<1>2. copies \in Seq(Step) BY KindType, KeepOldType, EmptyScript
<1>3. journal \o copies \in Seq(Step) /\ copies \o journal \in Seq(Step)
  BY <1>1, <1>2, Concatenation
<1> DEFINE script == IF kind = "rename" THEN journal \o copies ELSE copies \o journal
<1>4. script \in Seq(Step) BY <1>3
<1>5. Become("restoring", script) BY DEF KeepOldOrClose
<1> QED BY <1>4, <1>5, BecomeInv DEF Phase, RollbackPhases, PublishPhases

(* The journal of the rollback is retired, or the pair broke meanwhile.    *)
LEMMA RetiredInv == ASSUME Inv, Retired PROVE Inv'
<1>1. UNCHANGED <<dir, faults, used, kind>> /\ faults' \in 0..MaxFaults
  BY DEF Retired, Inv, DirectoryInv
<1>2. ControlTypes
  BY DEF Retired, ControlTypes, Inv, ControlOK, DirectoryInv, ScriptOK
<1>3. CASE kind = "fresh"
  BY <1>1, <1>2, <1>3, EndRollbackInv DEF Retired
<1>4. CASE kind = "rename" /\ ~ok /\ ~Holds(Before(kind))
  <2>1. Steady /\ Become("reviving", HealOld) BY <1>1, <1>4 DEF Retired, Steady
  <2> QED BY <1>2, <2>1, BecomeInv, HealOldType DEF Phase, RollbackPhases, PublishPhases
<1>5. CASE kind \in {"replace", "delete"} \/ (kind = "rename" /\ (ok \/ Holds(Before(kind))))
  <2>1. Steady /\ KeepOldOrClose(ok \/ (kind = "rename" /\ Holds(Before(kind))))
    BY <1>1, <1>5 DEF Retired, Steady
  <2> QED BY <1>2, <2>1, KeepOldOrCloseInv
<1> QED BY <1>3, <1>4, <1>5, KindType DEF Kind

(* A rename whose source was linked again rolls back anew.                 *)
LEMMA RevivedInv == ASSUME Inv, Revived PROVE Inv'
<1>1. Steady BY DEF Revived, Steady
<1>2. ControlTypes BY DEF Revived, ControlTypes, Inv, ControlOK
<1>3. CASE Become("rolling", Rollback(kind))
  BY <1>1, <1>2, <1>3, BecomeInv, KindType, RollbackType DEF Phase, RollbackPhases, PublishPhases
<1>4. CASE KeepOldOrClose(FALSE)
  BY <1>1, <1>2, <1>4, KeepOldOrCloseInv
<1> QED BY <1>3, <1>4 DEF Revived

(* The old copies worth keeping have their names back.                     *)
LEMMA RestoredInv == ASSUME Inv, Restored PROVE Inv'
<1>1. Steady BY DEF Restored, Steady
<1>2. ControlTypes BY DEF Restored, ControlTypes, Inv, ControlOK
<1>3. Become("unlinking", << Close(Before(kind)) >>) BY DEF Restored
<1>4. << Close(Before(kind)) >> \in Seq(Step)
  <2>1. Close(Before(kind)) \in Step BY KindType, PairTypes, PairSteps, Names
  <2> QED BY <2>1
<1> QED BY <1>1, <1>2, <1>3, <1>4, BecomeInv DEF Phase, RollbackPhases, PublishPhases

(* The recovery copies of the rollback are unlinked, or one could not be.  *)
LEMMA UnlinkedInv == ASSUME Inv, Unlinked PROVE Inv'
<1>1. UNCHANGED <<dir, faults, used, kind>> /\ faults' \in 0..MaxFaults
  BY DEF Unlinked, Inv, DirectoryInv
<1>2. ControlTypes
  <2>1. complete' \in BOOLEAN BY DEF Unlinked
  <2> QED BY <2>1 DEF Unlinked, ControlTypes, Inv, ControlOK
<1>3. CASE complete /\ ok
  <2>1. Steady /\ Become("purging", ForgetCopies) BY <1>1, <1>3 DEF Unlinked, Steady
  <2> QED BY <1>2, <2>1, BecomeInv, ForgetCopiesType DEF Phase, RollbackPhases, PublishPhases
<1>4. CASE ~ok
  <2>1. Steady /\ Become("rerestoring", KeepOld(kind) \o KeepMarker(kind))
    BY <1>1, <1>4 DEF Unlinked, Steady
  <2>2. KeepOld(kind) \o KeepMarker(kind) \in Seq(Step)
    BY KindType, KeepOldType, KeepMarkerType, Concatenation
  <2> QED BY <1>2, <2>1, <2>2, BecomeInv DEF Phase, RollbackPhases, PublishPhases
<1>5. CASE ok /\ ~complete
  BY <1>1, <1>2, <1>5, EndRollbackInv DEF Unlinked
<1> QED BY <1>3, <1>4, <1>5

(* The rollback returns to its caller.                                     *)
LEMMA RolledOutInv == ASSUME Inv, RolledOut PROVE Inv'
<1>1. UNCHANGED <<dir, used, kind>> /\ faults' \in 0..MaxFaults /\ ControlTypes
  BY DEF RolledOut, ControlTypes, Inv, DirectoryInv, ControlOK
<1> QED BY <1>1, EndRollbackInv DEF RolledOut

(* The rollback raises at any of its steps.                                *)
LEMMA RollbackRaisesInv == ASSUME Inv, RollbackRaises PROVE Inv'
<1>1. UNCHANGED <<dir, used, kind>> /\ ControlTypes
  BY DEF RollbackRaises, ControlTypes, Inv, ControlOK
<1>2. faults' \in 0..MaxFaults
  BY FaultAssumption DEF RollbackRaises, Inv, DirectoryInv
<1> QED BY <1>1, <1>2, EndRollbackInv DEF RollbackRaises

(* The end of a deletion. *)
LEMMA FinishedInv == ASSUME Inv, Finished PROVE Inv'
<1>1. complete' \in BOOLEAN /\ committed' \in BOOLEAN /\ UNCHANGED <<dir, faults, used, kind, crashes>>
  BY DEF Finished, Inv, ControlOK
<1>2. CASE ok
  <2>1. Steady /\ ControlTypes
    BY <1>1, <1>2 DEF Finished, Done, Steady, ControlTypes, Inv, ControlOK
  <2>2. Become("emptying", EmptyTrash) \/ Become("untombing", Untomb)
    BY <1>2 DEF Finished, Done
  <2> QED BY <2>1, <2>2, BecomeInv, EmptyTrashType, UntombType DEF Phase, PublishPhases
<1>3. CASE ~ok
  BY <1>1, <1>3, AnswerInv DEF Finished
<1> QED BY <1>2, <1>3

(* The deletion retires its marker.                                        *)
LEMMA UntombedInv == ASSUME Inv, Untombed PROVE Inv'
<1>1. complete' \in BOOLEAN /\ committed' \in BOOLEAN /\ UNCHANGED <<dir, faults, used, kind, crashes>>
  BY DEF Untombed, Inv, ControlOK
<1> QED BY <1>1, AnswerInv DEF Untombed

(* Process death and reconciliation. *)
LEMMA CrashInv == ASSUME Inv, Crash PROVE Inv'
<1>1. Run(<< >>) /\ handles' = {} BY DEF Crash, Halt, Run
<1>2. dir' = dir /\ faults' \in 0..MaxFaults /\ used' = used BY DEF Crash, Inv, DirectoryInv
<1>3. DirectoryInv' BY <1>1, <1>2, EmptyScript, ScriptChange DEF Inv
<1>4. crashes' \in 0..MaxCrashes BY CrashAssumption DEF Crash, Inv, ControlOK
<1>5. ControlOK' BY <1>4 DEF Crash, Inv, ControlOK, Phase, PublishPhases
<1> QED BY <1>3, <1>5 DEF Inv

(* The next process chooses what to recover from the journal it finds.     *)
LEMMA ReconcileInv == ASSUME Inv, Reconcile PROVE Inv'
<1>1. Steady BY DEF Reconcile, RecoverCommitted, RecoverPrepared, RecoverDeletions, Become, Run, Steady
<1>2. ControlTypes
  <2>1. committed' \in BOOLEAN BY DEF Reconcile
  <2> QED BY <2>1 DEF Reconcile, ControlTypes, Inv, ControlOK
<1>3. CASE kind # "delete" /\ Become("cleaning", Cleanup(kind))
  BY <1>1, <1>2, <1>3, BecomeInv, KindType, CleanupType DEF Phase, PublishPhases
<1>4. CASE Become("rolling", Rollback(kind))
  BY <1>1, <1>2, <1>4, BecomeInv, KindType, RollbackType DEF Phase, RollbackPhases, PublishPhases
<1>5. CASE Become("finishing", Finish) \/ Become("idle", << >>)
  BY <1>1, <1>2, <1>5, BecomeInv, FinishType, EmptyScript DEF Phase, PublishPhases
<1> QED BY <1>3, <1>4, <1>5 DEF Reconcile, RecoverCommitted, RecoverPrepared, RecoverDeletions

-----------------------------------------------------------------------------
(* A file operation keeps the invariant and every foreign file.            *)
LEMMA FileStepInv == ASSUME Inv, FileStep PROVE Inv' /\ KeepsForeign(dir, dir')
<1>1. DirectoryInv' /\ KeepsForeign(dir, dir') BY ProgramStep DEF FileStep, Inv
<1>2. committed' \in BOOLEAN BY DEF FileStep
<1>3. ControlOK' BY <1>2 DEF FileStep, Inv, ControlOK
<1> QED BY <1>1, <1>3 DEF Inv

(* So does an external writer, for the invariant.                          *)
LEMMA InterferenceInv == ASSUME Inv, Interference PROVE Inv'
<1>1. DirectoryInv' BY OutsideStep DEF Interference, Inv
<1>2. ControlOK' BY DEF Interference, control, Inv, ControlOK
<1> QED BY <1>1, <1>2 DEF Inv

(* So does a process that can read nothing of the journal ...               *)
LEMMA OverlookInv == ASSUME Inv, Overlook PROVE Inv'
<1>1. Run(<< >>) /\ UNCHANGED <<dir, handles, used>> /\ phase' = "idle" BY DEF Overlook, Become
<1>2. faults' \in 0..MaxFaults BY FaultAssumption DEF Overlook, Inv, DirectoryInv
<1>3. DirectoryInv' BY <1>1, <1>2, EmptyScript, ScriptChange DEF Inv
<1>4. ControlOK' BY <1>1 DEF Overlook, Inv, ControlOK, Phase, PublishPhases
<1> QED BY <1>3, <1>4 DEF Inv

(* ... or rolls back what it takes for a mutation that did not commit.      *)
Misread == InstalledUnread \/ RecoverUnread

LEMMA MisreadInv == ASSUME Inv, Misread PROVE Inv'
<1>1. /\ Become("rolling", Rollback(kind))
      /\ UNCHANGED <<dir, handles, used, kind, complete, reply, crashes, committed>>
  BY DEF Misread, InstalledUnread, RecoverUnread
<1>2. faults' \in 0..MaxFaults
  BY FaultAssumption DEF Misread, InstalledUnread, RecoverUnread, Misreads, Inv, DirectoryInv
<1>3. Rollback(kind) \in Seq(Step) BY KindType, RollbackType
<1>4. DirectoryInv' BY <1>1, <1>2, <1>3, ScriptChange DEF Inv, Become
<1>5. ControlOK' BY <1>1 DEF Become, Inv, ControlOK, Phase, RollbackPhases, PublishPhases
<1> QED BY <1>4, <1>5 DEF Inv

(* Every step keeps the invariant. *)
LEMMA WorkInv == Inv /\ [Work]_vars => Inv'
<1> SUFFICES ASSUME Inv, [Work]_vars PROVE Inv' OBVIOUS
<1>1. CASE UNCHANGED vars
  BY <1>1 DEF vars, Inv, DirectoryInv, ScriptOK, CopiesOwn, QuarantineApart, Unlinks, At, step, ControlOK
<1>2. CASE FileStep BY <1>2, FileStepInv
<1>3. CASE Begin \/ RollbackRaises \/ Crash \/ Overlook \/ Interference
  BY <1>3, BeginInv, RollbackRaisesInv, CrashInv, OverlookInv, InterferenceInv
<1>4. CASE Progress
  BY <1>4, StagedInv, InstalledInv, DiscardedInv, CleanedInv, HealedInv, KeptInv, ClosedInv, RekeptInv,
     RolledBackInv, RetiredInv, RevivedInv, RestoredInv, UnlinkedInv, RolledOutInv, FinishedInv,
     UntombedInv, ReconcileInv DEF Progress
<1> QED BY <1>1, <1>2, <1>3, <1>4 DEF Work

(* A step takes the journal for what it is, or misreads it.                 *)
LEMMA NextSplit ==
  [Next]_<<vars, misread>> => ([Work]_vars /\ UNCHANGED misread) \/ Misread
BY DEF Next, Misread

LEMMA NextInv == Inv /\ [Next]_<<vars, misread>> => Inv'
BY WorkInv, MisreadInv, NextSplit

(* For every set of names, of foreign files, of mutations, of failures and *)
(* of process deaths, the inductive invariant always holds.                *)
THEOREM Invariance == Spec => []Inv
BY InitInv, NextInv, PTL DEF Spec

(* Nothing takes a commit back.                                             *)
LEMMA CommitStays == ASSUME [Work]_vars, committed PROVE committed'
BY DEF Work, vars, FileStep, Begin, Progress, RollbackRaises, Crash, Overlook, Interference, control,
       Staged, Installed, Discarded, Cleaned, Healed, Kept, Closed, Rekept, RolledBack, Retired, Revived,
       Restored, Unlinked, RolledOut, Finished, Untombed, Reconcile

(* In every reachable state the variables have their types: in particular   *)
(* the script left to run only names entries the program may act on.        *)
THEOREM TypeCorrect == Spec => []TypeOK
<1>1. Init => misread \in BOOLEAN BY DEF Init
<1>2. misread \in BOOLEAN /\ [Next]_<<vars, misread>> => (misread \in BOOLEAN)'
  BY DEF Next, InstalledUnread, RecoverUnread, Misreads
<1>3. Spec => [](misread \in BOOLEAN) BY <1>1, <1>2, PTL DEF Spec
<1> QED BY <1>3, Invariance, InvTypeOK, PTL

(* No step of the program unlinks or overwrites the last link to a file of  *)
(* an external writer, whatever the mutation, the failures and the crashes: *)
(* only the external writers themselves (who change used) may.              *)
THEOREM ForeignFilesKept == Spec => ForeignKept
<1>1. ASSUME Inv, [Next]_<<vars, misread>>, used' = used
      PROVE  KeepsForeign(dir, dir')
  <2>1. CASE FileStep BY <1>1, <2>1, FileStepInv
  <2>2. CASE Interference
    <3>1. \E f \in ForeignFile : f \notin used /\ used' = used \union {f}
      BY <2>2 DEF Interference, ForeignStep, ForeignPut, ForeignDelete
    <3> QED BY <1>1, <3>1
  <2>3. CASE UNCHANGED dir BY <2>3 DEF KeepsForeign, Links
  <2> QED BY <1>1, <2>1, <2>2, <2>3
       DEF Next, Work, vars, Begin, Progress, RollbackRaises, Crash, Overlook, Staged, Installed, Discarded,
           Cleaned, Healed, Kept, Closed, Rekept, RolledBack, Retired, Revived, Restored, Unlinked, RolledOut,
           Finished, Untombed, Reconcile, InstalledUnread, RecoverUnread
<1>2. Inv /\ [Next]_<<vars, misread>> =>
        [used' = used => \A f \in ForeignFile :
           Links(dir, <<"foreign", f>>) # {} => Links(dir', <<"foreign", f>>) # {}]_vars
  BY <1>1 DEF KeepsForeign, Foreign
<1> QED BY <1>2, Invariance, PTL DEF Spec, ForeignKept

-----------------------------------------------------------------------------
(***************************************************************************)
(* What a mutation leaves behind.  The invariant says, for each part of a  *)
(* mutation, which names the steps left may change and how, what the names *)
(* may hold, and what the journal says about the pair.                     *)
(***************************************************************************)

Private == {"temp", "backup", "guard", "spare"} \X Part

(* The files of the mutation that may be under a name of the item.         *)
Mine(k, n) ==
  CASE k = "fresh"   -> {New(n[2])}
    [] k = "delete"  -> {Old(n[2])}
    [] k = "replace" -> IF n[1] \in {"temp", "guard"} THEN {New(n[2])} ELSE {Old(n[2]), New(n[2])}
    [] k = "rename"  -> IF n[2] = D \/ n[1] \in {"source", "backup", "spare"}
                          THEN {Old(n[2])} ELSE {New(n[2])}

May(k, n) == {None} \union IF n \in Journal THEN {n} ELSE Mine(k, n) \union Foreign

(* Steps that fill a free name with the inode they name, and steps that     *)
(* move whatever they find; both respect what a name may hold.              *)
Fillers == {"write", "restore", "relink", "heal", "retain", "preserve", "reclaim"}
Movers == {"move", "settle", "reclaim"}

Fitting(k) ==
  {s \in Step :
     /\ s.op \in Fillers => s.id \in May(k, s.name) \ {None}
     /\ s.op \in Movers \union {"link"} =>
          s.name \in Named /\ s.to \in Named /\ May(k, s.name) \subseteq May(k, s.to)
     /\ s.op \in Movers => May(k, s.to) \subseteq May(k, s.name)
     /\ s.op = "reclaim" => s.from \subseteq Private}

Drops(s, n) == s.op = "drop" /\ s.name = n
DropsPrivate(s) == s.op = "drop" /\ s.name \in Private
DropsJournal(s) == s.op = "drop" /\ s.name \in Journal /\ s.id = s.name

StagingSteps(k) ==
  {s \in Fitting(k) : s.op = "write" /\ (s.name \in Private \/ s.name = Marker)}

InstallSteps(k) ==
  {s \in Fitting(k) :
     /\ s.op \in {"move", "link", "flush", "write"} /\ s.strict
     /\ s.op = "write" => s.name = Commit
     /\ s.op = "link" => s.to # N("target", D)
     /\ (s.op = "move" /\ s.to = N("target", D)) => s.name = N("source", D)}

DiscardSteps(k) == {s \in Fitting(k) : DropsPrivate(s)}

PublishSteps(k) ==
  {s \in Fitting(k) :
     \/ s.op \in {"assert", "flush", "adopt", "close"}
     \/ s.op \in {"relink", "heal"} /\ <<s.name, s.id>> \in Entries(After(k))
     \/ DropsPrivate(s)
     \/ DropsJournal(s) /\ s.strict /\ ~s.guarded
     \/ s.op = "retain" /\ s.name \in Private
     \/ s.op = "preserve" /\ s.name = Commit}

RollSteps(k) ==
  {s \in Fitting(k) :
     \/ s.op \in {"assert", "expect"}
     \/ DropsPrivate(s)
     \/ s.op = "retract" /\ ~s.guarded /\ <<s.name, s.id>> \in Entries(After(k))
     \/ s.op = "restore" /\ k # "rename" /\ <<s.name, s.id>> \in Before(k)
     \/ /\ s.op = "reclaim" /\ k = "rename" /\ <<s.name, s.id>> \in Before(k)
        /\ \/ s.name = N("source", D) /\ s.to = N("target", D)
           \/ s.name # N("source", D) /\ s.to \in Private}

RetireSteps(k) ==
  {s \in Fitting(k) :
     \/ s.op \in {"assert", "flush", "close", "purge"}
     \/ DropsPrivate(s)
     \/ DropsJournal(s) /\ s.name = Marker /\ (k = "fresh" \/ (s.guarded /\ s.pair = Before(k)))
     \/ s.op = "retain" /\ s.name \in Private
     \/ s.op = "heal" /\ k = "rename" /\ <<s.name, s.id>> \in Before(k)
     \/ s.op = "preserve" /\ s.name = Marker}

FinishSteps(k) ==
  {s \in Fitting(k) :
     \/ s.op \in {"expect", "gone", "flush"}
     \/ DropsPrivate(s)
     \/ s.op = "settle" /\ s.name[1] = "public" /\ s.to \in Private}

UntombSteps(k) ==
  {s \in Fitting(k) : s.op = "flush" \/ (DropsJournal(s) /\ s.name = Marker)}

(* The rest of a script: its length says how far it is.                     *)
Rest(left, script) ==
  /\ Len(left) <= Len(script)
  /\ \A i \in 1..Len(left) : left[i] = script[Len(script) - Len(left) + i]

Retiring == RollbackPhases \ {"rolling"}

ScriptsOK ==
  /\ phase \in {"idle", "down"} => todo = << >>
  /\ phase = "staging" => todo \in Seq(StagingSteps(kind))
  /\ phase = "installing" =>
       todo \in Seq(InstallSteps(kind)) /\ Rest(todo, Install(kind)) /\ (todo # << >> => ok)
  /\ phase = "discarding" => todo \in Seq(DiscardSteps(kind))
  /\ phase \in PublishPhases => todo \in Seq(PublishSteps(kind))
  /\ phase = "rolling" => todo \in Seq(RollSteps(kind))
  /\ phase \in Retiring => todo \in Seq(RetireSteps(kind))
  /\ phase \in {"finishing", "emptying"} => todo \in Seq(FinishSteps(kind))
  /\ phase = "untombing" => todo \in Seq(UntombSteps(kind))

-----------------------------------------------------------------------------
(* What the names hold, and what the step under way has found. *)
Filling == \A n \in Entry : dir[n] \in May(kind, n)
Alone == used = {} => \A n \in Name : dir[n] \notin Foreign
Found ==
  todo # << >> /\ stage \in {"confirm", "unlink"} =>
    /\ step.op \in {"move", "settle", "drop", "retract"} => dir[step.name] \notin Own
    /\ step.op \in {"drop", "retract"} =>
         dir[moved] \in May(kind, step.name) /\ (stage = "unlink" => dir[moved] = step.id)
PairSeen == At({"drop"}, "act") /\ step.guarded /\ used = {} => Holds(step.pair)
NamesOK == Filling /\ Alone /\ Found /\ PairSeen

Pending(op, n, i) == \E j \in 1..Len(todo) : todo[j].op = op /\ todo[j].name = n /\ todo[j].id = i

(* The marker goes before the commit file, and only these two decide.       *)
MarkerFirst ==
  \A j \in 1..Len(todo) : Drops(todo[j], Commit) =>
    dir[Marker] = None \/ \E i \in 1..(j - 1) : Drops(todo[i], Marker)
CommitDecides ==
  /\ dir[Commit] # None => committed
  /\ kind # "delete" /\ committed /\ dir[Commit] = None => dir[Marker] = None
MarkerThere ==
  /\ phase = "staging" /\ ok => dir[Marker] # None \/ \E j \in 1..Len(todo) : todo[j].name = Marker
  /\ phase \in {"installing", "finishing", "emptying"} => dir[Marker] # None
  /\ phase = "rolling" /\ kind # "rename" => dir[Marker] # None
JournalOK == CommitDecides /\ MarkerThere /\ (phase \in PublishPhases => MarkerFirst)

PhaseOK ==
  /\ phase \in PublishPhases => committed
  /\ phase \in {"finishing", "emptying", "untombing"} => kind = "delete" /\ committed
  /\ phase \in RollbackPhases \union {"staging"} => ~committed
  /\ phase \in Retiring \ {"retiring"} => kind # "fresh"
  /\ phase = "reviving" => kind = "rename"
  /\ phase = "installing" => (committed => todo = << >> /\ dir[Commit] # None)
  /\ phase = "installing" /\ ok /\ todo = << >> /\ kind # "delete" => committed
  /\ phase \in {"staging", "installing", "discarding"} => reply = "none"
  /\ reply = "ok" => committed
  /\ reply = "none" /\ phase \in {"idle", "down"} => ~committed

-----------------------------------------------------------------------------
(* The steps of the installation already taken have had their effect.       *)
Settled(s) ==
  /\ s.op = "move" => dir[s.name] # s.id
  /\ used = {} /\ s.op \in {"move", "link"} => dir[s.to] = s.id

InstallOK ==
  phase = "installing" /\ ok =>
    \A i \in 1..(Len(Install(kind)) - Len(todo)) : Settled(Install(kind)[i])

(* Where the files that a mutation replaces, or brings, are not any more,   *)
(* or not yet.                                                              *)
OldGone == \A p \in Entries(Before(kind) \ After(kind)) : dir[p[1]] # p[2]
NewAbsent == \A p \in Entries(After(kind) \ Before(kind)) : dir[p[1]] # p[2]

(* A step left to run undoes the publication of a pair's entry.             *)
ToUndo(p) ==
  Pending("retract", p[1], p[2]) \/
    \E j \in 1..Len(todo) : todo[j].op = "reclaim" /\ todo[j].to = p[1] /\ todo[j].id = p[2]

OldStale == committed /\ (kind # "delete" \/ dir[Marker] = None \/ phase = "untombing") => OldGone
TrashStale ==
  phase = "emptying" /\ ok => \A p \in Before(kind) : dir[p[1]] # p[2] \/ Pending("gone", p[1], p[2])
NewStale == ~committed /\ (dir[Marker] = None \/ phase \in Retiring) => NewAbsent
Undoing ==
  phase = "rolling" /\ ok =>
    \A p \in Entries(After(kind) \ Before(kind)) : dir[p[1]] # p[2] \/ ToUndo(p)
OnePlace == kind = "rename" /\ dir[N("source", D)] = Old(D) => dir[N("target", D)] # Old(D)
StaleOK == OldStale /\ TrashStale /\ NewStale /\ Undoing /\ OnePlace

OutcomeOK ==
  used = {} =>
    /\ committed /\ kind # "delete" => Holds(After(kind))
    /\ ~committed /\ dir[Marker] = None => Holds(Before(kind))

OutcomeInv == ScriptsOK /\ NamesOK /\ JournalOK /\ PhaseOK /\ InstallOK /\ StaleOK /\ OutcomeOK
-----------------------------------------------------------------------------
(***************************************************************************)
(* What one step of a script does to the named entries.                    *)
(***************************************************************************)
ProgramAct == RunStep \/ FailCall \/ FailTwice

(* A free name gets the inode the step names.                              *)
Fills(n) ==
  /\ step.op \in Fillers /\ n = step.name /\ dir[n] = None /\ dir'[n] = step.id
  /\ step.op = "reclaim" => dir[step.to] # step.id

(* A private copy is used to give the source of a rename its name back.     *)
Yields(n) == step.op = "reclaim" /\ n \in step.from /\ dir'[n] = None

(* Whatever is under the name moves, and comes back if it was unexpected.  *)
Shifts(n) ==
  /\ step.op \in {"move", "settle"} /\ stage = "act" /\ n \in {step.name, step.to}
  /\ dir[step.to] = None /\ dir'[step.name] = None /\ dir'[step.to] = dir[step.name]
Returns(n) ==
  /\ step.op \in {"move", "settle"} /\ stage = "confirm" /\ n \in {step.name, step.to}
  /\ dir[step.name] = None /\ dir'[step.to] = None /\ dir'[step.name] = dir[step.to] /\ ~ok'

(* It gets a second name.                                                  *)
Joins(n) == step.op = "link" /\ n = step.to /\ dir[n] = None /\ dir'[n] = dir[step.name]

(* It is quarantined, and comes back if it was unexpected.                 *)
Leaves(n) == step.op \in {"drop", "retract"} /\ stage = "act" /\ n = step.name /\ dir'[n] = None
ComesBack(n) ==
  /\ step.op \in {"drop", "retract"} /\ stage = "confirm" /\ n = step.name
  /\ dir[n] = None /\ dir'[n] = dir[moved] /\ (dir[moved] # step.id \/ step.guarded)

(* The target of a rename moves back to its source.                        *)
Reverts(n) ==
  /\ step.op = "reclaim" /\ n \in {step.name, step.to}
  /\ dir[step.name] = None /\ dir'[step.to] = None /\ dir'[step.name] = dir[step.to]

Effect(n) ==
  \/ Fills(n) \/ Yields(n) \/ Shifts(n) \/ Returns(n) \/ Joins(n) \/ Leaves(n) \/ ComesBack(n)
  \/ Reverts(n)

(* Steps that move nothing change a name only by filling it.               *)
LEMMA FillEffect ==
  ASSUME DirectoryInv, NEW n \in Entry, dir'[n] # dir[n],
         WriteFile \/ RestoreEntry \/ RelinkEntry \/ PreserveJournal \/ FailTwice
  PROVE  todo # << >> /\ Fills(n)
<1>1. todo # << >> /\ step.op \in Fillers /\ step.op # "reclaim"
  BY DEF WriteFile, RestoreEntry, RelinkEntry, PreserveJournal, FailTwice, At, Fillers
<1>2. dir[step.name] = None /\ dir' = Set(dir, step.name, step.id)
  BY DEF WriteFile, RestoreEntry, RelinkEntry, PreserveJournal, FailTwice
<1>3. n \in Name /\ step.name \in Name /\ dir \in Directory
  BY <1>1, EntriesApart, Apart DEF DirectoryInv
<1> QED BY <1>1, <1>2, <1>3 DEF Set, Fills, Directory

(* A recovery copy takes a name back.                                      *)
LEMMA RetainEffect ==
  ASSUME DirectoryInv, NEW n \in Entry, dir'[n] # dir[n], RetainCopy
  PROVE  todo # << >> /\ Fills(n)
<1> DEFINE copies == {h \in handles : dir[h] = step.id}
           h == CHOOSE x \in copies : TRUE
<1>1. todo # << >> /\ step.op = "retain" BY DEF RetainCopy, At
<1>2. dir[step.name] = None /\ copies # {} /\ dir' = Renamed(dir, h, step.name)
  BY DEF RetainCopy
<1>3. h \in handles /\ dir[h] = step.id
  <2>1. h \in copies BY <1>2
  <2> QED BY <2>1
<1> HIDE DEF h, copies
<1>4. n \in Name /\ step.name \in Name /\ dir \in Directory /\ h \in Name /\ h # n /\ h # step.name
  BY <1>1, <1>3, EntriesApart, HeadFields, Apart DEF DirectoryInv, CopiesOwn
<1> QED BY <1>1, <1>2, <1>3, <1>4 DEF Renamed, Fills, Directory, Fillers

(* The source of a rename comes from the target name or from a copy.       *)
LEMMA ReclaimEffect ==
  ASSUME DirectoryInv, NEW n \in Entry, dir'[n] # dir[n], LookAtTarget \/ RenameBack
  PROVE  todo # << >> /\ (Fills(n) \/ Yields(n) \/ Reverts(n))
<1>1. todo # << >> /\ step.op = "reclaim" BY DEF LookAtTarget, RenameBack, At
<1>2. n \in Name /\ step.name \in Name /\ step.to \in Name /\ dir \in Directory
  BY <1>1, EntriesApart, Apart DEF DirectoryInv
<1>3. CASE RenameBack
  <2>1. dir[step.to] # None /\ dir[step.name] = None /\ dir' = Renamed(dir, step.to, step.name)
    BY <1>3 DEF RenameBack
  <2> QED BY <1>1, <1>2, <2>1 DEF Renamed, Directory, Reverts
<1>4. CASE LookAtTarget
  <2> DEFINE c == CHOOSE x \in Sources(step.from) : TRUE
  <2>1. /\ dir[step.name] = None /\ dir[step.to] # step.id /\ Sources(step.from) # {}
        /\ dir' = Renamed(dir, c, step.name)
    BY <1>4 DEF LookAtTarget
  <2>2. c \in step.from \union Scrap /\ dir[c] = step.id
    <3>1. c \in Sources(step.from) BY <2>1
    <3> QED BY <3>1 DEF Sources, RecoveryNames
  <2> HIDE DEF c
  <2>3. c \in Name BY <1>1, <2>2, EntriesApart, Apart
  <2>4. c # step.name BY <1>2, <2>1, <2>3 DEF Renamed, Directory
  <2>5. dir' = [dir EXCEPT ![step.name] = step.id, ![c] = None] BY <2>1, <2>2 DEF Renamed
  <2>6. n = step.name \/ n = c BY <1>2, <2>3, <2>5 DEF Directory
  <2>7. CASE n = step.name
    BY <1>1, <1>2, <2>1, <2>3, <2>4, <2>5, <2>7 DEF Directory, Fills, Fillers
  <2>8. CASE n = c
    <3>1. n \in step.from BY <2>2, <2>8, Apart
    <3> QED BY <1>1, <1>2, <2>3, <2>5, <2>8, <3>1 DEF Directory, Yields
  <2> QED BY <2>6, <2>7, <2>8
<1> QED BY <1>3, <1>4

(* rename without replacement, and back.                                   *)
LEMMA MoveEffect ==
  ASSUME DirectoryInv, NEW n \in Entry, dir'[n] # dir[n], RenameEntry \/ ConfirmRename \/ LinkEntry
  PROVE  todo # << >> /\ (Shifts(n) \/ Returns(n) \/ Joins(n))
<1>1. todo # << >> /\ step.op \in {"move", "settle", "link"}
  BY DEF RenameEntry, ConfirmRename, LinkEntry, At
<1>2. n \in Name /\ step.name \in Name /\ step.to \in Name /\ dir \in Directory
  BY <1>1, EntriesApart, Apart DEF DirectoryInv
<1>3. CASE RenameEntry
  <2>1. /\ dir[step.name] # None /\ dir[step.to] = None /\ dir' = Renamed(dir, step.name, step.to)
        /\ step.op \in {"move", "settle"} /\ stage = "act"
    BY <1>3 DEF RenameEntry, At
  <2> QED BY <1>1, <1>2, <2>1 DEF Renamed, Directory, Shifts
<1>4. CASE ConfirmRename
  <2>1. /\ dir[step.to] # None /\ dir[step.name] = None /\ dir' = Renamed(dir, step.to, step.name)
        /\ step.op \in {"move", "settle"} /\ stage = "confirm" /\ ok' = FALSE
    BY <1>4 DEF ConfirmRename, At, Miss
  <2> QED BY <1>1, <1>2, <2>1 DEF Renamed, Directory, Returns
<1>5. CASE LinkEntry
  <2>1. dir[step.to] = None /\ dir' = Set(dir, step.to, dir[step.name]) /\ step.op = "link"
    BY <1>5 DEF LinkEntry, At
  <2> QED BY <1>1, <1>2, <2>1 DEF Set, Directory, Joins
<1> QED BY <1>3, <1>4, <1>5

(* The quarantine, and back.                                               *)
LEMMA RemoveEffect ==
  ASSUME DirectoryInv, NEW n \in Entry, dir'[n] # dir[n], Quarantine \/ Discard
  PROVE  todo # << >> /\ (Leaves(n) \/ ComesBack(n))
<1>1. todo # << >> /\ step.op \in {"drop", "retract"} BY DEF Quarantine, Discard, At
<1>2. n \in Name /\ n \notin Scrap /\ step.name \in Name /\ step.name \notin Scrap /\ dir \in Directory
  BY <1>1, HeadFields, Apart DEF DirectoryInv
<1>3. CASE Quarantine
  <2>1. FreeScrap \in Scrap /\ FreeScrap \in Name BY <1>3, FreeScrapFree, Apart DEF Quarantine
  <2>2. dir' = Renamed(dir, step.name, FreeScrap) /\ stage = "act" BY <1>3 DEF Quarantine, At
  <2> QED BY <1>1, <1>2, <2>1, <2>2 DEF Renamed, Directory, Leaves
<1>4. CASE Discard
  <2>1. moved \in Scrap /\ moved \in Name /\ stage = "confirm"
    BY <1>4, Apart DEF Discard, At, DirectoryInv, QuarantineApart
  <2>2. dir' # dir BY DEF Directory
  <2>3. dir[step.name] = None /\ dir' = Renamed(dir, moved, step.name)
    BY <1>4, <2>2 DEF Discard
  <2>4. dir[moved] # step.id \/ step.guarded BY <1>4, <2>2 DEF Discard
  <2>5. n = step.name /\ dir'[n] = dir[moved] BY <1>2, <2>1, <2>3 DEF Renamed, Directory
  <2> QED BY <1>1, <2>1, <2>3, <2>4, <2>5 DEF ComesBack
<1> QED BY <1>3, <1>4

(* Recovery copies and purges leave the named entries alone.               *)
LEMMA ScrapEffect ==
  ASSUME DirectoryInv, NEW n \in Entry, LookAtVictim \/ UnlinkEntry \/ UnlinkCopy \/ PurgeScrap
  PROVE  dir'[n] = dir[n]
<1>1. n \in Name /\ n \notin Scrap /\ dir \in Directory BY Apart DEF DirectoryInv
<1>2. CASE dir' = dir BY <1>2
<1>3. CASE LookAtVictim /\ dir' # dir
  <2>1. FreshScrap # {} /\ dir' = Set(dir, FreeScrap, step.id) BY <1>3 DEF LookAtVictim
  <2> QED BY <1>1, <2>1, FreeScrapFree DEF Set, Directory
<1>4. CASE UnlinkEntry \/ UnlinkCopy
  <2>1. dir' = Set(dir, moved, None) /\ moved \in Scrap
    BY <1>4 DEF UnlinkEntry, UnlinkCopy, At, DirectoryInv, QuarantineApart, Unlinks
  <2> QED BY <1>1, <2>1 DEF Set, Directory
<1>5. CASE PurgeScrap /\ dir' # dir
  <2> DEFINE c == CHOOSE x \in RecoveryNames(step.id) : TRUE
  <2>1. RecoveryNames(step.id) # {} /\ dir' = Set(dir, c, None) BY <1>5 DEF PurgeScrap
  <2>2. c \in RecoveryNames(step.id) BY <2>1
  <2>3. c \in Scrap BY <2>2 DEF RecoveryNames
  <2> QED BY <1>1, <2>1, <2>3 DEF Set, Directory
<1> QED BY <1>2, <1>3, <1>4, <1>5

(* The ways a named entry changes.                                         *)
LEMMA Effects ==
  ASSUME DirectoryInv, ProgramAct, NEW n \in Entry, dir'[n] # dir[n]
  PROVE  todo # << >> /\ Effect(n)
<1>1. CASE WriteFile \/ RestoreEntry \/ RelinkEntry \/ PreserveJournal \/ FailTwice
  BY <1>1, FillEffect DEF Effect
<1>2. CASE RetainCopy BY <1>2, RetainEffect DEF Effect
<1>3. CASE LookAtTarget \/ RenameBack BY <1>3, ReclaimEffect DEF Effect
<1>4. CASE RenameEntry \/ ConfirmRename \/ LinkEntry BY <1>4, MoveEffect DEF Effect
<1>5. CASE Quarantine \/ Discard BY <1>5, RemoveEffect DEF Effect
<1>6. CASE LookAtVictim \/ UnlinkEntry \/ UnlinkCopy \/ PurgeScrap BY <1>6, ScrapEffect
<1>7. ~FailCall /\ ~LookAtSource /\ ~LookAtLeftover /\ ~ConfirmLink /\ ~LookAtOwn /\ ~Sync /\ ~Check
      /\ ~CheckNoForeign /\ ~CheckGone /\ ~ConfirmReclaim /\ ~AdoptScrap /\ ~CloseHandle /\ ~ConfirmClose
  BY DEF CloseHandle, ConfirmClose, FailCall, LookAtSource, LookAtLeftover, ConfirmLink, LookAtOwn, Sync, Check, CheckNoForeign,
         CheckGone, ConfirmReclaim, AdoptScrap
<1> QED BY <1>1, <1>2, <1>3, <1>4, <1>5, <1>6, <1>7 DEF ProgramAct, RunStep

(* How a step ends: it passes, goes on, or fails; a strict one that fails   *)
(* ends its script.                                                        *)
LEMMA Ends ==
  ASSUME ProgramAct
  PROVE  /\ todo # << >>
         /\ \/ Pass
            \/ todo' = todo /\ ok' = ok
            \/ /\ ok' = FALSE /\ todo' \in {Tail(todo), << >>}
               /\ step.strict /\ step.op # "restore" => todo' = << >>
<1>1. CASE FailCall \/ FailTwice
  BY <1>1 DEF FailCall, FailTwice, At, Miss, GoOn
<1>2. CASE RunStep
  <2>1. todo # << >>
    BY <1>2 DEF RunStep, LookAtSource, LookAtLeftover, RenameEntry, ConfirmRename, LinkEntry,
      ConfirmLink, LookAtVictim, LookAtOwn, Quarantine, Discard, WriteFile, Sync, Check,
      CheckNoForeign, CheckGone, LookAtTarget, RenameBack, ConfirmReclaim, RestoreEntry,
      RelinkEntry, AdoptScrap, RetainCopy, PreserveJournal, CloseHandle, ConfirmClose, UnlinkCopy, UnlinkEntry, PurgeScrap, At
  <2>2. Pass \/ Miss \/ (\E st, m : GoOn(st, m))
    BY <1>2 DEF RunStep, LookAtSource, LookAtLeftover, RenameEntry, ConfirmRename, LinkEntry,
      ConfirmLink, LookAtVictim, LookAtOwn, Quarantine, Discard, WriteFile, Sync, Check,
      CheckNoForeign, CheckGone, LookAtTarget, RenameBack, ConfirmReclaim, RestoreEntry,
      RelinkEntry, AdoptScrap, RetainCopy, PreserveJournal, CloseHandle, ConfirmClose, UnlinkCopy, UnlinkEntry, PurgeScrap
  <2> QED BY <2>1, <2>2 DEF Miss, GoOn
<1> QED BY <1>1, <1>2 DEF ProgramAct

(* A step looks again only at what it has just moved or linked.            *)
LEMMA Confirming ==
  ASSUME DirectoryInv, ProgramAct, stage' = "confirm"
  PROVE  /\ todo # << >> /\ todo' = todo
         /\ \/ step.op \in {"move", "settle"} /\ dir'[step.name] = None
            \/ step.op \in {"link", "reclaim", "close"}
            \/ /\ step.op \in {"drop", "retract"} /\ dir'[step.name] = None
               /\ dir'[moved'] = dir[step.name]
<1>1. todo # << >> BY Ends
<1>2. /\ step.name \in Name /\ step.name \notin Scrap /\ step.to \in Name /\ dir \in Directory
  BY <1>1, HeadFields, Apart DEF DirectoryInv
<1>3. ~Pass /\ ~Miss /\ ~FailCall /\ ~FailTwice
  BY DEF Pass, Miss, FailCall, FailTwice, GoOn, At
<1>4. \A m : ~GoOn("act", m) /\ ~GoOn("look", m) /\ ~GoOn("unlink", m)
  BY DEF GoOn
<1>5. RenameEntry \/ LinkEntry \/ Quarantine \/ RenameBack \/ CloseHandle
  BY <1>3, <1>4 DEF ProgramAct, RunStep, LookAtSource, LookAtLeftover, ConfirmRename,
      ConfirmLink, LookAtVictim, LookAtOwn, Discard, WriteFile, Sync, Check,
      CheckNoForeign, CheckGone, LookAtTarget, ConfirmReclaim, RestoreEntry,
      RelinkEntry, AdoptScrap, RetainCopy, PreserveJournal, ConfirmClose, UnlinkCopy, UnlinkEntry, PurgeScrap
<1>6. CASE RenameEntry
  <2>1. /\ dir[step.name] # None /\ dir[step.to] = None /\ dir' = Renamed(dir, step.name, step.to)
        /\ todo' = todo /\ step.op \in {"move", "settle"}
    BY <1>3, <1>6 DEF RenameEntry, GoOn, At
  <2> QED BY <1>1, <1>2, <2>1 DEF Renamed, Directory
<1>7. CASE LinkEntry \/ RenameBack
  BY <1>1, <1>3, <1>7 DEF LinkEntry, RenameBack, GoOn, At
<1>8. CASE Quarantine
  <2>1. /\ dir' = Renamed(dir, step.name, FreeScrap) /\ todo' = todo /\ moved' = FreeScrap
        /\ step.op \in {"drop", "retract"}
    BY <1>3, <1>8 DEF Quarantine, GoOn, At
  <2>2. FreeScrap \in Scrap /\ FreeScrap \in Name BY <1>8, FreeScrapFree, Apart DEF Quarantine
  <2> QED BY <1>1, <1>2, <2>1, <2>2 DEF Renamed, Directory
<1>9. CASE CloseHandle
  BY <1>1, <1>3, <1>9 DEF CloseHandle, GoOn, At
<1> QED BY <1>5, <1>6, <1>7, <1>8, <1>9

(* A step unlinks only what it has looked at again, and changes nothing     *)
(* before.                                                                 *)
LEMMA Unlinking ==
  ASSUME DirectoryInv, ProgramAct, stage' = "unlink"
  PROVE  /\ todo # << >> /\ todo' = todo /\ dir' = dir /\ moved' = moved /\ stage = "confirm"
         /\ step.op \in {"drop", "retract", "close"}
         /\ step.op \in {"drop", "retract"} => dir[moved] = step.id /\ (step.guarded => Holds(step.pair))
         /\ step.op = "close" => Holds(step.pair)
<1>1. todo # << >> BY Ends
<1>2. ~Pass /\ ~Miss /\ ~FailCall /\ ~FailTwice
  BY DEF Pass, Miss, FailCall, FailTwice, GoOn, At
<1>3. \A m : ~GoOn("act", m) /\ ~GoOn("look", m) /\ ~GoOn("confirm", m)
  BY DEF GoOn
<1>4. Discard \/ ConfirmClose
  BY <1>2, <1>3 DEF ProgramAct, RunStep, LookAtSource, LookAtLeftover, RenameEntry, ConfirmRename, LinkEntry,
      ConfirmLink, LookAtVictim, LookAtOwn, Quarantine, WriteFile, Sync, Check,
      CheckNoForeign, CheckGone, LookAtTarget, RenameBack, ConfirmReclaim, RestoreEntry,
      RelinkEntry, AdoptScrap, RetainCopy, PreserveJournal, CloseHandle, UnlinkCopy, UnlinkEntry, PurgeScrap
<1> QED BY <1>1, <1>2, <1>4 DEF Discard, ConfirmClose, GoOn, At

(* A guarded removal goes on only when the pair holds.                     *)
LEMMA Acting ==
  ASSUME DirectoryInv, ProgramAct, stage' = "act"
  PROVE  /\ todo # << >> /\ todo' = todo
         /\ step.op = "drop" => /\ step.guarded => Holds(step.pair)
                                /\ \A n \in Entry : dir'[n] = dir[n]
<1>1. todo # << >> BY Ends
<1>2. ~Pass /\ ~Miss /\ (\A m : ~GoOn("confirm", m) /\ ~GoOn("look", m) /\ ~GoOn("unlink", m))
  BY DEF Pass, Miss, GoOn
<1>3. CASE FailCall
  BY <1>1, <1>2, <1>3 DEF FailCall, GoOn, At
<1>4. LookAtSource \/ LookAtLeftover \/ LookAtVictim \/ LookAtOwn \/ LookAtTarget \/ FailCall
  BY <1>2 DEF ProgramAct, RunStep, FailTwice, RenameEntry, LinkEntry, Quarantine, RenameBack, ConfirmRename,
      ConfirmLink, Discard, WriteFile, Sync, Check,
      CheckNoForeign, CheckGone, ConfirmReclaim, RestoreEntry,
      RelinkEntry, AdoptScrap, RetainCopy, PreserveJournal, CloseHandle, ConfirmClose, UnlinkCopy, UnlinkEntry, PurgeScrap
<1>5. CASE LookAtSource \/ LookAtLeftover \/ LookAtOwn \/ LookAtTarget
  BY <1>1, <1>2, <1>5 DEF LookAtSource, LookAtLeftover, LookAtOwn, LookAtTarget, GoOn, At
<1>6. CASE LookAtVictim
  BY <1>1, <1>2, <1>6, ScrapEffect DEF LookAtVictim, GoOn
<1> QED BY <1>3, <1>4, <1>5, <1>6

(* What a step that passes has achieved.                                   *)
LEMMA Passed ==
  ASSUME DirectoryInv, Found, ProgramAct, todo' # todo,
         ok' \/ (step.strict /\ step.op # "restore" /\ todo' # << >>)
  PROVE  /\ step.op = "write" => dir'[step.name] = step.id
         /\ step.op \in {"move", "link"} => dir'[step.to] = step.id
         /\ step.op \in {"move", "drop"} => dir'[step.name] \notin Own
         /\ step.op \in {"retract", "gone"} /\ step.id # None => dir'[step.name] # step.id
         /\ step.op = "reclaim" => dir'[step.name] = step.id
<1>1. todo # << >> BY Ends
<1>2. /\ step.name \in Name /\ step.name \notin Scrap /\ step.to \in Name /\ dir \in Directory
      /\ step.id \in Own \union {None} /\ None \notin Own
  BY <1>1, HeadFields, Apart DEF DirectoryInv
<1>3. ~Miss /\ ~FailCall /\ ~FailTwice
  BY DEF Miss, FailCall, FailTwice, GoOn, At
<1>4. \A st, m : ~GoOn(st, m)
  BY DEF GoOn
<1>5. CASE ConfirmRename
  BY <1>1, <1>2, <1>3, <1>5 DEF ConfirmRename, Found, At
<1>6. CASE ConfirmLink \/ ConfirmReclaim \/ CheckGone
  BY <1>1, <1>2, <1>3, <1>6 DEF ConfirmLink, ConfirmReclaim, CheckGone, At
<1>7. CASE LookAtVictim
  BY <1>1, <1>2, <1>3, <1>4, <1>7 DEF LookAtVictim, At
<1>8. CASE LookAtOwn
  BY <1>1, <1>2, <1>3, <1>4, <1>8 DEF LookAtOwn, At
<1>9. CASE UnlinkEntry
  <2>1. /\ step.op \in {"drop", "retract"} /\ stage = "unlink" /\ moved \in Scrap /\ moved \in Name
        /\ dir' = Set(dir, moved, None)
    BY <1>9, Apart DEF UnlinkEntry, At, DirectoryInv, QuarantineApart, Unlinks
  <2>2. dir'[step.name] = dir[step.name] BY <1>2, <2>1 DEF Set, Directory
  <2> QED BY <1>1, <1>2, <2>1, <2>2 DEF Found
<1>10. CASE WriteFile
  BY <1>1, <1>2, <1>3, <1>10 DEF WriteFile, At, Set, Directory
<1>11. CASE LookAtTarget
  <2>1. step.op = "reclaim" BY <1>11 DEF LookAtTarget, At
  <2>2. CASE dir' = dir /\ dir[step.name] = step.id
    BY <2>1, <2>2
  <2>3. CASE ~(dir' = dir /\ dir[step.name] = step.id)
    <3> DEFINE c == CHOOSE x \in Sources(step.from) : TRUE
    <3>1. /\ dir[step.name] = None /\ Sources(step.from) # {} /\ dir' = Renamed(dir, c, step.name)
      BY <1>3, <1>4, <1>11, <2>3 DEF LookAtTarget
    <3>2. c \in step.from \union Scrap /\ dir[c] = step.id
      <4>1. c \in Sources(step.from) BY <3>1
      <4> QED BY <4>1 DEF Sources, RecoveryNames
    <3> HIDE DEF c
    <3>3. c \in Name BY <1>1, <3>2, EntriesApart, Apart
    <3> QED BY <1>2, <2>1, <3>1, <3>2, <3>3 DEF Renamed, Directory
  <2> QED BY <2>2, <2>3
<1>12. CASE RenameEntry \/ LinkEntry \/ Quarantine \/ RenameBack \/ LookAtSource
            \/ Discard \/ ConfirmClose \/ UnlinkCopy
  BY <1>3, <1>4, <1>12 DEF RenameEntry, LinkEntry, Quarantine, RenameBack, LookAtSource, Discard, ConfirmClose,
               UnlinkCopy
<1>13. CASE LookAtLeftover \/ Sync \/ Check \/ CheckNoForeign \/ RestoreEntry \/ RelinkEntry \/ AdoptScrap
            \/ RetainCopy \/ PreserveJournal \/ CloseHandle \/ PurgeScrap
  BY <1>13 DEF LookAtLeftover, Sync, Check, CheckNoForeign, RestoreEntry, RelinkEntry, AdoptScrap,
               RetainCopy, PreserveJournal, CloseHandle, PurgeScrap, At
<1> QED BY <1>3, <1>5, <1>6, <1>7, <1>8, <1>9, <1>10, <1>11, <1>12, <1>13 DEF ProgramAct, RunStep

-----------------------------------------------------------------------------
(***************************************************************************)
(* The steps of every script respect what the names may hold.              *)
(***************************************************************************)

(* The fields of each kind of step.                                        *)
LEMMA FillShapes ==
  /\ \A n, i : LET s == Write(n, i) IN s.op = "write" /\ s.name = n /\ s.id = i /\ s.strict
  /\ \A n, i : LET s == Heal(n, i) IN s.op = "heal" /\ s.name = n /\ s.id = i
  /\ \A n, i : LET s == Retain(n, i) IN s.op = "retain" /\ s.name = n /\ s.id = i
  /\ \A n, c, i : LET s == Restore(n, c, i) IN s.op = "restore" /\ s.name = n /\ s.id = i
  /\ \A n, cs, i : LET s == Relink(n, cs, i) IN s.op = "relink" /\ s.name = n /\ s.id = i
  /\ \A n, pair : LET s == Preserve(n, pair) IN s.op = "preserve" /\ s.name = n /\ s.id = n
BY DEF Flush, Write, Restore, Relink, Heal, Retain, Preserve

(* The same of the steps that move an entry, ...                           *)
LEMMA MoveShapes ==
  /\ \A n, t, i : LET s == Move(n, t, i) IN s.op = "move" /\ s.name = n /\ s.to = t /\ s.id = i /\ s.strict
  /\ \A n, t, i : LET s == Settle(n, t, i) IN s.op = "settle" /\ s.name = n /\ s.to = t
  /\ \A n, t, i : LET s == Link(n, t, i) IN s.op = "link" /\ s.name = n /\ s.to = t /\ s.id = i /\ s.strict
  /\ \A n, t, cs, i : LET s == Reclaim(n, t, cs, i)
                      IN s.op = "reclaim" /\ s.name = n /\ s.to = t /\ s.from = cs /\ s.id = i
BY DEF Flush, Move, Settle, Link, Reclaim

(* ... that remove one, ...                                                *)
LEMMA DropShapes ==
  /\ \A n, i : LET s == Drop(n, i)
               IN s.op = "drop" /\ s.name = n /\ s.id = i /\ s.strict /\ s.guarded = FALSE
  /\ \A n, i : LET s == Retract(n, i) IN s.op = "retract" /\ s.name = n /\ s.id = i /\ s.guarded = FALSE
  /\ \A pair, n, i : LET s == DropIf(pair, n, i)
                     IN s.op = "drop" /\ s.name = n /\ s.id = i /\ s.strict /\ s.guarded = FALSE
  /\ \A pair, n, i : LET s == Guarded(pair, n, i)
                     IN s.op = "drop" /\ s.name = n /\ s.id = i /\ s.guarded /\ s.pair = pair
BY DEF Flush, Drop, Retract, DropIf, Guarded

(* ... and that only look, or touch the anonymous copies.                  *)
LEMMA LookShapes ==
  /\ \A n, i : Expect(n, i).op = "expect"
  /\ \A i : Purge(i).op = "purge"
  /\ \A n, i : LET s == Gone(n, i) IN s.op = "gone" /\ s.name = n /\ s.id = i
  /\ \A pair : Assert(pair).op = "assert" /\ Close(pair).op = "close" /\ Adopt(pair).op = "adopt"
  /\ Flush.op = "flush" /\ Flush.strict
BY DEF Flush, Expect, Gone, Assert, Close, Adopt, Purge

(* Leniency changes nothing else.                                          *)
LEMMA LenientShape ==
  ASSUME NEW s \in Step
  PROVE  /\ Leniently(s) \in Step
         /\ Leniently(s).op = s.op /\ Leniently(s).name = s.name /\ Leniently(s).to = s.to
         /\ Leniently(s).from = s.from /\ Leniently(s).id = s.id /\ Leniently(s).pair = s.pair
         /\ Leniently(s).guarded = s.guarded
BY DEF Step, Leniently

(* The names of an item by place and part, and the files of a pair.        *)
LEMMA Places ==
  /\ None \notin Own
  /\ D # M /\ Part = {D, M} /\ Marker # Commit /\ Marker \notin Named /\ Commit \notin Named
  /\ \A place \in {"public", "source", "target", "temp", "backup", "guard", "spare"}, p \in {D, M} :
       /\ N(place, p)[1] = place /\ N(place, p)[2] = p
       /\ N(place, p) \in Named /\ N(place, p) \notin Journal
       /\ N(place, p) \in Private <=> place \in {"temp", "backup", "guard", "spare"}
       /\ N(place, p) # Marker /\ N(place, p) # Commit
  /\ Named \cap Journal = {} /\ Private \subseteq Named
  /\ \A p, q \in {D, M} : Old(p) # New(q) /\ (Old(p) = Old(q) => p = q) /\ (New(p) = New(q) => p = q)
BY Apart DEF N, D, M, Part, Named, Journal, Private, Marker, Commit, Old, New

(* What the names of each mutation may hold. *)
LEMMA MayHold ==
  /\ \A k \in Kind : Marker \in May(k, Marker) /\ Commit \in May(k, Commit)
  /\ \A place \in {"public", "source", "target", "temp", "backup", "guard", "spare"}, p \in {D, M} :
       /\ May("fresh", N(place, p)) = {None, New(p)} \union Foreign
       /\ May("delete", N(place, p)) = {None, Old(p)} \union Foreign
       /\ May("replace", N(place, p)) =
            {None, New(p)} \union Foreign \union IF place \in {"temp", "guard"} THEN {} ELSE {Old(p)}
       /\ May("rename", N(place, p)) =
            {None, IF p = D \/ place \in {"source", "backup", "spare"} THEN Old(p) ELSE New(p)}
              \union Foreign
BY Places, Names DEF May, Mine

(* Steps that fill no name and move nothing always fit.                    *)
LEMMA PlainFits ==
  ASSUME NEW k, NEW s \in Step, s.op \notin Fillers \union Movers \union {"link"}
  PROVE  s \in Fitting(k)
BY DEF Fitting, Fillers, Movers

(* So do those that fill a name with a file it may hold.                   *)
LEMMA FillFits ==
  ASSUME NEW k, NEW s \in Step, s.op \in Fillers \ Movers, s.id \in May(k, s.name) \ {None}
  PROVE  s \in Fitting(k)
BY DEF Fitting, Fillers, Movers

(* Staging. *)
LEMMA StagingFits == \A k \in Kind : Staging(k) \in Seq(StagingSteps(k))
<1> SUFFICES ASSUME NEW k \in Kind PROVE Staging(k) \in Seq(StagingSteps(k)) OBVIOUS
<1>1. Log(Marker) \in StagingSteps(k)
  <2>1. Log(Marker) \in Step BY JournalSteps, Names, PairTypes DEF Kind
  <2> QED BY <2>1, FillShapes, MayHold, FillFits, Names, Places DEF Log, StagingSteps, Fillers, Movers
<1>2. ASSUME NEW p \in {D, M}, New(p) \in May(k, N("temp", p))
      PROVE  Write(N("temp", p), New(p)) \in StagingSteps(k)
  <2>1. Write(N("temp", p), New(p)) \in Step BY PlainSteps, Names
  <2> QED BY <1>2, <2>1, FillShapes, Places, FillFits, Names DEF StagingSteps, Fillers, Movers
<1>3. CASE k \in {"fresh", "replace"}
  <2>1. New(D) \in May(k, N("temp", D)) /\ New(M) \in May(k, N("temp", M)) BY <1>3, MayHold
  <2> QED BY <1>1, <1>2, <1>3, <2>1 DEF Staging
<1>4. CASE k = "rename"
  <2>1. New(M) \in May(k, N("temp", M)) BY <1>4, MayHold, Places
  <2> QED BY <1>1, <1>2, <1>4, <2>1 DEF Staging
<1>5. CASE k = "delete" BY <1>1, <1>5 DEF Staging
<1> QED BY <1>3, <1>4, <1>5 DEF Kind

(* The removal of the temporary files.                                     *)
LEMMA LeftoversFits == \A k \in Kind : Leftovers(k) \in Seq(DiscardSteps(k))
<1> SUFFICES ASSUME NEW k \in Kind PROVE Leftovers(k) \in Seq(DiscardSteps(k)) OBVIOUS
<1>1. ASSUME NEW p \in {D, M} PROVE Leniently(Drop(N("temp", p), New(p))) \in DiscardSteps(k)
  <2>1. Drop(N("temp", p), New(p)) \in Step BY PlainSteps, Names
  <2> QED BY <2>1, LenientShape, DropShapes, Places, PlainFits
       DEF DiscardSteps, DropsPrivate, Fillers, Movers
<1> QED BY <1>1 DEF Leftovers, Kind

(* The installation: a move exchanges names that may hold the same files.  *)
LEMMA LinkFits ==
  ASSUME NEW k \in Kind, NEW n \in Named, NEW t \in Named, NEW i \in Own, t # N("target", D),
         May(k, n) \subseteq May(k, t)
  PROVE  Link(n, t, i) \in InstallSteps(k)
<1>1. Link(n, t, i) \in Step BY PlainSteps DEF Entry
<1> QED BY <1>1, MoveShapes DEF InstallSteps, Fitting, Fillers, Movers

(* So does a move between names that may hold the same files.              *)
LEMMA MoveFits ==
  ASSUME NEW k \in Kind, NEW n \in Named, NEW t \in Named, NEW i \in Own,
         t = N("target", D) => n = N("source", D), May(k, n) = May(k, t)
  PROVE  Move(n, t, i) \in InstallSteps(k)
<1>1. Move(n, t, i) \in Step BY PlainSteps DEF Entry
<1> QED BY <1>1, MoveShapes DEF InstallSteps, Fitting, Fillers, Movers

(* The installation moves and links between such names, then commits.      *)
LEMMA InstallFits == \A k \in Kind : Install(k) \in Seq(InstallSteps(k))
<1> SUFFICES ASSUME NEW k \in Kind PROVE Install(k) \in Seq(InstallSteps(k)) OBVIOUS
<1>1. Flush \in InstallSteps(k) /\ Log(Commit) \in InstallSteps(k)
  <2>1. Flush \in Step /\ Log(Commit) \in Step BY FlushType, JournalSteps, Names, PairTypes DEF Kind
  <2>2. Flush \in Fitting(k) BY <2>1, LookShapes, PlainFits DEF Fillers, Movers
  <2>3. Log(Commit) \in Fitting(k) BY <2>1, FillShapes, MayHold, FillFits, Names, Places DEF Log, Fillers, Movers
  <2> QED BY <2>2, <2>3, LookShapes, FillShapes DEF InstallSteps, Log
<1>2. CASE k = "fresh"
  <2>1. /\ Link(N("temp", D), N("guard", D), New(D)) \in InstallSteps(k)
        /\ Link(N("temp", M), N("guard", M), New(M)) \in InstallSteps(k)
    BY <1>2, LinkFits, Places, MayHold, Names
  <2>2. /\ Move(N("temp", D), N("public", D), New(D)) \in InstallSteps(k)
        /\ Move(N("temp", M), N("public", M), New(M)) \in InstallSteps(k)
    BY <1>2, MoveFits, Places, MayHold, Names
  <2> QED BY <1>1, <1>2, <2>1, <2>2 DEF Install
<1>3. CASE k = "replace"
  <2>1. /\ Move(N("public", D), N("backup", D), Old(D)) \in InstallSteps(k)
        /\ Move(N("public", M), N("backup", M), Old(M)) \in InstallSteps(k)
    BY <1>3, MoveFits, Places, MayHold, Names
  <2>2. /\ Link(N("temp", D), N("public", D), New(D)) \in InstallSteps(k)
        /\ Link(N("temp", D), N("guard", D), New(D)) \in InstallSteps(k)
        /\ Link(N("temp", M), N("public", M), New(M)) \in InstallSteps(k)
        /\ Link(N("temp", M), N("guard", M), New(M)) \in InstallSteps(k)
    BY <1>3, LinkFits, Places, MayHold, Names
  <2> QED BY <1>1, <1>3, <2>1, <2>2 DEF Install
<1>4. CASE k = "rename"
  <2>1. /\ Link(N("source", D), N("backup", D), Old(D)) \in InstallSteps(k)
        /\ Link(N("backup", D), N("guard", D), Old(D)) \in InstallSteps(k)
        /\ Link(N("source", M), N("spare", M), Old(M)) \in InstallSteps(k)
    BY <1>4, LinkFits, Places, MayHold, Names
  <2>2. /\ Link(N("temp", M), N("target", M), New(M)) \in InstallSteps(k)
        /\ Link(N("temp", M), N("guard", M), New(M)) \in InstallSteps(k)
    BY <1>4, LinkFits, Places, MayHold, Names
  <2>3. /\ Move(N("source", D), N("target", D), Old(D)) \in InstallSteps(k)
        /\ Move(N("source", M), N("backup", M), Old(M)) \in InstallSteps(k)
    BY <1>4, MoveFits, Places, MayHold, Names
  <2> QED BY <1>1, <1>4, <2>1, <2>2, <2>3 DEF Install, InstallRename
<1>5. CASE k = "delete"
  <2>1. /\ Move(N("public", D), N("backup", D), Old(D)) \in InstallSteps(k)
        /\ Move(N("public", M), N("backup", M), Old(M)) \in InstallSteps(k)
    BY <1>5, MoveFits, Places, MayHold, Names
  <2> QED BY <1>1, <1>5, <2>1 DEF Install
<1> QED BY <1>2, <1>3, <1>4, <1>5 DEF Kind

(* The pairs, entry by entry.                                              *)
LEMMA Pairing ==
  /\ Before("fresh") = {<<N("public", D), None>>, <<N("public", M), None>>}
  /\ Before("replace") = {<<N("public", D), Old(D)>>, <<N("public", M), Old(M)>>}
  /\ Before("delete") = {<<N("public", D), Old(D)>>, <<N("public", M), Old(M)>>}
  /\ Before("rename") = {<<N("source", D), Old(D)>>, <<N("source", M), Old(M)>>}
  /\ \A k \in {"fresh", "replace"} : After(k) = {<<N("public", D), New(D)>>, <<N("public", M), New(M)>>}
  /\ After("delete") = {<<N("public", D), None>>, <<N("public", M), None>>}
  /\ After("rename") = {<<N("target", D), Old(D)>>, <<N("target", M), New(M)>>,
                        <<N("source", D), None>>, <<N("source", M), None>>}
BY Places DEF Before, After

(* The entries a committed mutation brings.                                *)
LEMMA Brought ==
  /\ \A k \in {"fresh", "replace"}, p \in {D, M} : <<N("public", p), New(p)>> \in Entries(After(k))
  /\ <<N("target", D), Old(D)>> \in Entries(After("rename"))
  /\ <<N("target", M), New(M)>> \in Entries(After("rename"))
<1>1. \A p \in {D, M} : Old(p) # None /\ New(p) # None BY Names, Apart
<1> QED BY <1>1, Pairing DEF Entries

(* The cleanup of a committed pair.                                        *)
LEMMA PublishFits ==
  ASSUME NEW k \in Kind \ {"delete"}
  PROVE  /\ \A s \in Step : s.op \in {"assert", "flush", "adopt", "close"} \/ DropsPrivate(s) =>
              s \in PublishSteps(k)
         /\ \A s \in Step : /\ s.op \in {"relink", "heal"} /\ <<s.name, s.id>> \in Entries(After(k))
                            /\ s.id \in Own /\ s.id \in May(k, s.name)
                            => s \in PublishSteps(k)
         /\ \A s \in Step : s.op = "retain" /\ s.name \in Private /\ s.id \in Own \intersect May(k, s.name) =>
              s \in PublishSteps(k)
BY Places DEF PublishSteps, Fitting, Fillers, Movers, DropsPrivate

(* The retirement of a committed journal drops only the journal, ...       *)
LEMMA RetireFits == \A k \in Kind \ {"delete"} : Retire(k) \in Seq(PublishSteps(k))
<1> SUFFICES ASSUME NEW k \in Kind \ {"delete"} PROVE Retire(k) \in Seq(PublishSteps(k)) OBVIOUS
<1>1. /\ DropIf(After(k), Marker, Marker) \in Step /\ DropIf(After(k), Commit, Commit) \in Step
      /\ Assert(After(k)) \in Step /\ Flush \in Step
  BY PairSteps, PairTypes, Names, FlushType
<1>2. Assert(After(k)) \in PublishSteps(k) /\ Flush \in PublishSteps(k)
  BY <1>1, PublishFits, LookShapes
<1>3. DropIf(After(k), Marker, Marker) \in PublishSteps(k) /\ DropIf(After(k), Commit, Commit) \in PublishSteps(k)
  BY <1>1, DropShapes, Names DEF PublishSteps, Fitting, Fillers, Movers, DropsJournal
<1> QED BY <1>1, <1>2, <1>3 DEF Retire

(* ... and the cleanup only adds the committed names and drops private ones.*)
LEMMA CleanupFits == \A k \in Kind \ {"delete"} : Cleanup(k) \in Seq(PublishSteps(k))
<1>1. ASSUME NEW k \in {"fresh", "replace"} PROVE Cleanup(k) \in Seq(PublishSteps(k))
  <2>1. k \in Kind \ {"delete"} /\ After(k) \in Pairs
    BY PairTypes DEF Kind
  <2>2. ASSUME NEW p \in {D, M}, NEW cs \in SUBSET Entry
        PROVE  Relink(N("public", p), cs, New(p)) \in PublishSteps(k)
    <3>1. Relink(N("public", p), cs, New(p)) \in Step BY CopySteps, Names
    <3>2. New(p) \in May(k, N("public", p)) BY MayHold
    <3> QED BY <2>1, <3>1, <3>2, FillShapes, Brought, Names, PublishFits
  <2>3. Assert(After(k)) \in PublishSteps(k) /\ Adopt(After(k)) \in PublishSteps(k)
    <3>1. Assert(After(k)) \in Step /\ Adopt(After(k)) \in Step BY <2>1, PairSteps, Names
    <3> QED BY <2>1, <3>1, LookShapes, PublishFits
  <2>4. ASSUME NEW n \in Private, NEW i \in Own
        PROVE  DropIf(After(k), n, i) \in PublishSteps(k) /\ Guarded(After(k), n, i) \in PublishSteps(k)
    <3>1. n \in Entry BY Places DEF Entry
    <3>2. DropIf(After(k), n, i) \in Step /\ Guarded(After(k), n, i) \in Step BY <2>1, <3>1, PairSteps
    <3> QED BY <2>1, <3>2, DropShapes, PublishFits DEF DropsPrivate
  <2>5. /\ Relink(N("public", D), {N("temp", D), N("guard", D)}, New(D)) \in PublishSteps(k)
        /\ Relink(N("public", M), {N("temp", M), N("guard", M)}, New(M)) \in PublishSteps(k)
    BY <2>2, Names
  <2>6. /\ DropIf(After(k), N("backup", D), Old(D)) \in PublishSteps(k)
        /\ Guarded(After(k), N("backup", M), Old(M)) \in PublishSteps(k)
        /\ Guarded(After(k), N("temp", M), New(M)) \in PublishSteps(k)
        /\ Guarded(After(k), N("guard", M), New(M)) \in PublishSteps(k)
        /\ Guarded(After(k), N("temp", D), New(D)) \in PublishSteps(k)
        /\ Guarded(After(k), N("guard", D), New(D)) \in PublishSteps(k)
    BY <2>4, Names, Places
  <2>7. Retire(k) \in Seq(PublishSteps(k)) BY <2>1, RetireFits
  <2> QED BY <2>3, <2>5, <2>6, <2>7 DEF Cleanup
<1>2. Cleanup("rename") \in Seq(PublishSteps("rename"))
  <2> DEFINE after == After("rename")
             S == PublishSteps("rename")
  <2>1. "rename" \in Kind \ {"delete"} /\ after \in Pairs /\ Retire("rename") \in Seq(S)
    BY PairTypes, RetireFits DEF Kind
  <2>2. Relink(N("target", D), {N("backup", D), N("guard", D)}, Old(D)) \in S
    <3>1. Relink(N("target", D), {N("backup", D), N("guard", D)}, Old(D)) \in Step BY CopySteps, Names
    <3>2. Old(D) \in May("rename", N("target", D)) BY MayHold
    <3> QED BY <2>1, <3>1, <3>2, FillShapes, Brought, Names, PublishFits
  <2>3. Relink(N("target", M), {N("temp", M), N("guard", M)}, New(M)) \in S
    <3>1. Relink(N("target", M), {N("temp", M), N("guard", M)}, New(M)) \in Step BY CopySteps, Names
    <3>2. New(M) \in May("rename", N("target", M)) BY MayHold, Places
    <3> QED BY <2>1, <3>1, <3>2, FillShapes, Brought, Names, PublishFits
  <2>4. Assert(after) \in S /\ Adopt(after) \in S
    <3>1. Assert(after) \in Step /\ Adopt(after) \in Step BY <2>1, PairSteps, Names
    <3> QED BY <2>1, <3>1, LookShapes, PublishFits
  <2>5. ASSUME NEW n \in Private, NEW i \in Own PROVE DropIf(after, n, i) \in S /\ Guarded(after, n, i) \in S
    <3>1. n \in Entry BY Places DEF Entry
    <3>2. DropIf(after, n, i) \in Step /\ Guarded(after, n, i) \in Step BY <2>1, <3>1, PairSteps
    <3> QED BY <2>1, <3>2, DropShapes, PublishFits DEF DropsPrivate
  <2>6. /\ Guarded(after, N("backup", M), Old(M)) \in S /\ Guarded(after, N("temp", M), New(M)) \in S
        /\ Guarded(after, N("spare", M), Old(M)) \in S /\ DropIf(after, N("backup", D), Old(D)) \in S
        /\ Guarded(after, N("guard", M), New(M)) \in S /\ Guarded(after, N("guard", D), Old(D)) \in S
    BY <2>5, Names, Places
  <2> HIDE DEF after, S
  <2>7. Cleanup("rename") \in Seq(S)
    BY <2>1, <2>2, <2>3, <2>4, <2>6 DEF Cleanup, CleanupRename, after
  <2> QED BY <2>7 DEF S
<1> QED BY <1>1, <1>2 DEF Kind

(* The republication of a committed pair.                                  *)
LEMMA HealNewFits == \A k \in Kind \ {"delete"} : HealNew(k) \in Seq(PublishSteps(k))
<1> SUFFICES ASSUME NEW k \in Kind \ {"delete"} PROVE HealNew(k) \in Seq(PublishSteps(k)) OBVIOUS
<1>1. ASSUME NEW n \in Entry, NEW i \in Own, i \in May(k, n), <<n, i>> \in Entries(After(k))
      PROVE  Heal(n, i) \in PublishSteps(k)
  <2>1. Heal(n, i) \in Step BY PlainSteps
  <2> QED BY <1>1, <2>1, FillShapes, PublishFits
<1>2. CASE k \in {"fresh", "replace"}
  <2>1. Heal(N("public", D), New(D)) \in PublishSteps(k) /\ Heal(N("public", M), New(M)) \in PublishSteps(k)
    BY <1>1, <1>2, Brought, MayHold, Names
  <2> QED BY <1>2, <2>1 DEF HealNew
<1>3. CASE k = "rename"
  <2>1. Old(D) \in May(k, N("target", D)) /\ New(M) \in May(k, N("target", M))
    BY <1>3, MayHold, Places
  <2>2. Heal(N("target", D), Old(D)) \in PublishSteps(k) /\ Heal(N("target", M), New(M)) \in PublishSteps(k)
    BY <1>1, <1>3, <2>1, Brought, Names
  <2> QED BY <1>3, <2>2 DEF HealNew
<1> QED BY <1>2, <1>3 DEF Kind

(* The copies of a committed pair that are kept.                           *)
LEMMA KeepNewFits == \A k \in Kind \ {"delete"} : KeepNew(k) \in Seq(PublishSteps(k))
<1> SUFFICES ASSUME NEW k \in Kind \ {"delete"} PROVE KeepNew(k) \in Seq(PublishSteps(k)) OBVIOUS
<1>1. ASSUME NEW n \in Private, NEW i \in Own, i \in May(k, n) PROVE Retain(n, i) \in PublishSteps(k)
  <2>1. n \in Entry BY Places DEF Entry
  <2>2. Retain(n, i) \in Step BY <2>1, PlainSteps
  <2> QED BY <1>1, <2>2, FillShapes, PublishFits
<1>2. CASE k \in {"fresh", "replace"}
  <2>1. \A p \in {D, M} : New(p) \in May(k, N("temp", p)) /\ New(p) \in May(k, N("guard", p))
    BY <1>2, MayHold
  <2>2. \A p \in {D, M} : /\ Retain(N("temp", p), New(p)) \in PublishSteps(k)
                          /\ Retain(N("guard", p), New(p)) \in PublishSteps(k)
    BY <1>1, <2>1, Places, Names
  <2> QED BY <1>2, <2>2 DEF KeepNew
<1>3. CASE k = "rename"
  <2>1. /\ Old(D) \in May(k, N("guard", D)) /\ Old(D) \in May(k, N("backup", D))
        /\ New(M) \in May(k, N("temp", M)) /\ New(M) \in May(k, N("guard", M))
    BY <1>3, MayHold, Places
  <2>2. /\ Retain(N("guard", D), Old(D)) \in PublishSteps(k) /\ Retain(N("backup", D), Old(D)) \in PublishSteps(k)
        /\ Retain(N("temp", M), New(M)) \in PublishSteps(k) /\ Retain(N("guard", M), New(M)) \in PublishSteps(k)
    BY <1>1, <2>1, Places, Names
  <2> QED BY <1>3, <2>2 DEF KeepNew
<1> QED BY <1>2, <1>3 DEF Kind

(* The commit file, written again.                                         *)
LEMMA KeepCommitFits == \A k \in Kind : KeepCommit \in Seq(PublishSteps(k))
<1> SUFFICES ASSUME NEW k \in Kind PROVE KeepCommit \in Seq(PublishSteps(k)) OBVIOUS
<1>1. {} \in Pairs BY DEF Pairs
<1>2. Preserve(Commit, {}) \in Step BY <1>1, JournalSteps, Names
<1>3. Leniently(Preserve(Commit, {})) \in PublishSteps(k)
  BY <1>2, LenientShape, FillShapes, MayHold, Names, Places DEF PublishSteps, Fitting, Fillers, Movers
<1> QED BY <1>3 DEF KeepCommit

(* The rollback.                                                           *)
LEMMA RollbackFits == \A k \in Kind : Rollback(k) \in Seq(RollSteps(k))
<1> SUFFICES ASSUME NEW k \in Kind PROVE Rollback(k) \in Seq(RollSteps(k)) OBVIOUS
<1>1. ASSUME NEW n \in Private, NEW i \in Own PROVE Leniently(Drop(n, i)) \in RollSteps(k)
  <2>1. n \in Entry BY Places DEF Entry
  <2>2. Drop(n, i) \in Step BY <2>1, PlainSteps
  <2> QED BY <2>2, LenientShape, DropShapes DEF RollSteps, Fitting, Fillers, Movers, DropsPrivate
<1>2. ASSUME NEW n \in Entry, NEW i \in Own, <<n, i>> \in Entries(After(k))
      PROVE  Leniently(Retract(n, i)) \in RollSteps(k)
  <2>1. Retract(n, i) \in Step BY PlainSteps
  <2> QED BY <1>2, <2>1, LenientShape, DropShapes DEF RollSteps, Fitting, Fillers, Movers
<1>3. ASSUME NEW p \in {D, M}, k \in {"replace", "delete"}
      PROVE  /\ Restore(N("public", p), N("backup", p), Old(p)) \in RollSteps(k)
             /\ Leniently(Restore(N("public", p), N("backup", p), Old(p))) \in RollSteps(k)
  <2>1. Restore(N("public", p), N("backup", p), Old(p)) \in Step BY CopySteps, Names
  <2>2. Old(p) \in May(k, N("public", p)) /\ <<N("public", p), Old(p)>> \in Before(k)
    BY <1>3, MayHold, Pairing
  <2> QED BY <1>3, <2>1, <2>2, LenientShape, FillShapes, Names, Places DEF RollSteps, Fitting, Fillers, Movers
<1>4. CASE k \in {"fresh", "replace"}
  <2>1. /\ Leniently(Retract(N("public", D), New(D))) \in RollSteps(k)
        /\ Leniently(Retract(N("public", M), New(M))) \in RollSteps(k)
    BY <1>2, <1>4, Brought, Names
  <2>2. /\ Leniently(Drop(N("temp", D), New(D))) \in RollSteps(k)
        /\ Leniently(Drop(N("guard", D), New(D))) \in RollSteps(k)
        /\ Leniently(Drop(N("temp", M), New(M))) \in RollSteps(k)
        /\ Leniently(Drop(N("guard", M), New(M))) \in RollSteps(k)
    BY <1>1, Places, Names
  <2>3. CASE k = "fresh" BY <2>1, <2>2, <2>3 DEF Rollback
  <2>4. CASE k = "replace"
    <3>1. Assert(Before(k)) \in Step BY PairSteps, PairTypes, Names
    <3>2. Assert(Before(k)) \in RollSteps(k) BY <3>1, LookShapes DEF RollSteps, Fitting, Fillers, Movers
    <3> QED BY <1>3, <2>1, <2>2, <2>4, <3>2 DEF Rollback
  <2> QED BY <1>4, <2>3, <2>4
<1>5. CASE k = "rename"
  <2>1. Leniently(Reclaim(N("source", D), N("target", D), {N("backup", D), N("guard", D)}, Old(D))) \in RollSteps(k)
    <3> DEFINE s == Reclaim(N("source", D), N("target", D), {N("backup", D), N("guard", D)}, Old(D))
    <3>1. s \in Step BY CopySteps, Names
    <3>2. /\ s.op = "reclaim" /\ s.name = N("source", D) /\ s.to = N("target", D) /\ s.id = Old(D)
          /\ s.from \subseteq Private
      BY MoveShapes, Places
    <3>3. /\ May(k, N("source", D)) = May(k, N("target", D)) /\ Old(D) \in May(k, N("source", D))
          /\ <<N("source", D), Old(D)>> \in Before(k) /\ N("source", D) \in Named /\ N("target", D) \in Named
      BY <1>5, MayHold, Pairing, Places
    <3> HIDE DEF s
    <3>4. Leniently(s) \in RollSteps(k)
      BY <1>5, <3>1, <3>2, <3>3, LenientShape, Names, Places DEF RollSteps, Fitting, Fillers, Movers
    <3> QED BY <3>4 DEF s
  <2>2. Leniently(Reclaim(N("source", M), N("backup", M), {N("spare", M)}, Old(M))) \in RollSteps(k)
    <3> DEFINE s == Reclaim(N("source", M), N("backup", M), {N("spare", M)}, Old(M))
    <3>1. s \in Step BY CopySteps, Names
    <3>2. /\ s.op = "reclaim" /\ s.name = N("source", M) /\ s.to = N("backup", M) /\ s.id = Old(M)
          /\ s.from \subseteq Private
      BY MoveShapes, Places
    <3>3. /\ May(k, N("source", M)) = May(k, N("backup", M)) /\ Old(M) \in May(k, N("source", M))
          /\ <<N("source", M), Old(M)>> \in Before(k) /\ N("source", M) \in Named /\ N("backup", M) \in Private
          /\ N("source", M) # N("source", D)
      BY <1>5, MayHold, Pairing, Places
    <3> HIDE DEF s
    <3>4. Leniently(s) \in RollSteps(k)
      BY <1>5, <3>1, <3>2, <3>3, LenientShape, Places, Names DEF RollSteps, Fitting, Fillers, Movers
    <3> QED BY <3>4 DEF s
  <2>3. Leniently(Retract(N("target", M), New(M))) \in RollSteps(k)
    BY <1>2, <1>5, Brought, Names
  <2>4. \A s \in Step : s.op \in {"expect", "assert"} => Leniently(s) \in RollSteps(k)
    BY LenientShape DEF RollSteps, Fitting, Fillers, Movers
  <2>5. Expect(N("backup", M), Old(M)) \in Step /\ Expect(N("spare", M), Old(M)) \in Step
    BY PlainSteps, Names
  <2>6. Assert({<<N("source", M), Old(M)>>}) \in Step
    <3>1. {<<N("source", M), Old(M)>>} \in Pairs BY Names DEF Pairs
    <3> QED BY <3>1, PairSteps, Names
  <2>7. /\ Leniently(Expect(N("backup", M), Old(M))) \in RollSteps(k)
        /\ Leniently(Expect(N("spare", M), Old(M))) \in RollSteps(k)
        /\ Leniently(Assert({<<N("source", M), Old(M)>>})) \in RollSteps(k)
    BY <2>4, <2>5, <2>6, LookShapes
  <2>8. /\ Leniently(Drop(N("temp", M), New(M))) \in RollSteps(k)
        /\ Leniently(Drop(N("guard", M), New(M))) \in RollSteps(k)
    BY <1>1, Places, Names
  <2> QED BY <1>5, <2>1, <2>2, <2>3, <2>7, <2>8 DEF Rollback, RollbackRename
<1>6. CASE k = "delete" BY <1>3, <1>6 DEF Rollback, RollbackDelete
<1> QED BY <1>4, <1>5, <1>6 DEF Kind

(* The end of a rollback.                                                  *)
LEMMA RetiringFits ==
  ASSUME NEW k \in Kind
  PROVE  /\ \A s \in Step : s.op \in {"assert", "flush", "close", "purge"} \/ DropsPrivate(s) =>
              s \in RetireSteps(k)
         /\ \A s \in Step : s.op = "retain" /\ s.name \in Private /\ s.id \in Own \intersect May(k, s.name) =>
              s \in RetireSteps(k)
BY Places DEF RetireSteps, Fitting, Fillers, Movers, DropsPrivate

(* The retirement of a rollback drops private names and the marker.        *)
LEMMA RetireMarkerFits == \A k \in Kind : RetireMarker(k) \in Seq(RetireSteps(k))
<1> SUFFICES ASSUME NEW k \in Kind PROVE RetireMarker(k) \in Seq(RetireSteps(k)) OBVIOUS
<1>1. Drop(Marker, Marker) \in Step /\ Flush \in Step /\ Guarded(Before(k), Marker, Marker) \in Step
      /\ Assert(Before(k)) \in Step
  BY PlainSteps, Names, FlushType, PairSteps, PairTypes
<1>2. Flush \in RetireSteps(k) /\ Assert(Before(k)) \in RetireSteps(k)
  BY <1>1, RetiringFits, LookShapes
<1>3. k = "fresh" => Drop(Marker, Marker) \in RetireSteps(k)
  BY <1>1, DropShapes, Names DEF RetireSteps, Fitting, Fillers, Movers, DropsJournal
<1>4. Guarded(Before(k), Marker, Marker) \in RetireSteps(k)
  BY <1>1, DropShapes, Names DEF RetireSteps, Fitting, Fillers, Movers, DropsJournal
<1>5. ASSUME NEW n \in Private, NEW i \in Own PROVE Guarded(Before(k), n, i) \in RetireSteps(k)
  <2>1. n \in Entry BY Places DEF Entry
  <2>2. Guarded(Before(k), n, i) \in Step BY <2>1, PairSteps, PairTypes
  <2> QED BY <2>2, DropShapes, RetiringFits DEF DropsPrivate
<1>6. /\ Guarded(Before(k), N("guard", D), Old(D)) \in RetireSteps(k)
      /\ Guarded(Before(k), N("guard", M), New(M)) \in RetireSteps(k)
      /\ Guarded(Before(k), N("backup", D), Old(D)) \in RetireSteps(k)
      /\ Guarded(Before(k), N("backup", M), Old(M)) \in RetireSteps(k)
      /\ Guarded(Before(k), N("spare", M), Old(M)) \in RetireSteps(k)
  BY <1>5, Names, Places
<1> QED BY <1>2, <1>3, <1>4, <1>6 DEF RetireMarker, RetireRename, Kind

(* A rename links its old pair again.                                      *)
LEMMA HealOldFits == HealOld \in Seq(RetireSteps("rename"))
<1>1. ASSUME NEW p \in {D, M} PROVE Heal(N("source", p), Old(p)) \in RetireSteps("rename")
  <2>1. Heal(N("source", p), Old(p)) \in Step BY PlainSteps, Names
  <2>2. Old(p) \in May("rename", N("source", p)) /\ <<N("source", p), Old(p)>> \in Before("rename")
    BY MayHold, Pairing
  <2> QED BY <2>1, <2>2, FillShapes, Names, Places DEF RetireSteps, Fitting, Fillers, Movers
<1> QED BY <1>1 DEF HealOld

(* The old copies go back under private names, ...                         *)
LEMMA KeepOldFits == \A k \in Kind \ {"fresh"} : KeepOld(k) \in Seq(RetireSteps(k))
<1> SUFFICES ASSUME NEW k \in Kind \ {"fresh"} PROVE KeepOld(k) \in Seq(RetireSteps(k)) OBVIOUS
<1>1. ASSUME NEW n \in Private, NEW i \in Own, i \in May(k, n) PROVE Retain(n, i) \in RetireSteps(k)
  <2>1. n \in Entry BY Places DEF Entry
  <2>2. Retain(n, i) \in Step BY <2>1, PlainSteps
  <2> QED BY <1>1, <2>2, FillShapes, RetiringFits
<1>2. \A p \in {D, M} : Old(p) \in May(k, N("backup", p))
  BY MayHold DEF Kind
<1>3. \A p \in {D, M} : Retain(N("backup", p), Old(p)) \in RetireSteps(k)
  BY <1>1, <1>2, Places, Names
<1>4. CASE k = "rename"
  <2>1. Old(D) \in May(k, N("guard", D)) /\ Old(M) \in May(k, N("spare", M)) BY <1>4, MayHold
  <2>2. Retain(N("guard", D), Old(D)) \in RetireSteps(k) /\ Retain(N("spare", M), Old(M)) \in RetireSteps(k)
    BY <1>1, <2>1, Places, Names
  <2> QED BY <1>3, <1>4, <2>2 DEF KeepOld
<1>5. CASE k # "rename" BY <1>3, <1>5 DEF KeepOld
<1> QED BY <1>4, <1>5

(* ... and the marker under its own.                                       *)
LEMMA KeepMarkerFits == \A k \in Kind : KeepMarker(k) \in Seq(RetireSteps(k))
<1> SUFFICES ASSUME NEW k \in Kind PROVE KeepMarker(k) \in Seq(RetireSteps(k)) OBVIOUS
<1>1. OldCopies(k) \in Pairs BY Names DEF OldCopies, Pairs, Part, D, M
<1>2. Preserve(Marker, OldCopies(k)) \in Step BY <1>1, JournalSteps, Names
<1>3. Leniently(Preserve(Marker, OldCopies(k))) \in RetireSteps(k)
  BY <1>2, LenientShape, FillShapes, MayHold, Names, Places DEF RetireSteps, Fitting, Fillers, Movers
<1> QED BY <1>3 DEF KeepMarker

(* Closing and purging touch anonymous copies only.                        *)
LEMMA ClosingFits ==
  \A k \in Kind : /\ << Close(Before(k)) >> \in Seq(RetireSteps(k))
                  /\ ForgetCopies \in Seq(RetireSteps(k))
                  /\ k # "delete" => << Close(After(k)) >> \in Seq(PublishSteps(k))
<1> SUFFICES ASSUME NEW k \in Kind
             PROVE  /\ << Close(Before(k)) >> \in Seq(RetireSteps(k))
                    /\ ForgetCopies \in Seq(RetireSteps(k))
                    /\ k # "delete" => << Close(After(k)) >> \in Seq(PublishSteps(k))
  OBVIOUS
<1>1. /\ Close(Before(k)) \in Step /\ Close(After(k)) \in Step
      /\ Flush \in Step /\ Purge(Old(D)) \in Step /\ Purge(Old(M)) \in Step
  BY PairTypes, PairSteps, Names, FlushType, PlainSteps
<1>2. /\ Close(Before(k)) \in RetireSteps(k) /\ Flush \in RetireSteps(k)
      /\ Purge(Old(D)) \in RetireSteps(k) /\ Purge(Old(M)) \in RetireSteps(k)
  BY <1>1, RetiringFits, LookShapes
<1>3. k # "delete" => Close(After(k)) \in PublishSteps(k)
  BY <1>1, PublishFits, LookShapes
<1> QED BY <1>2, <1>3 DEF ForgetCopies

(* The end of a deletion.                                                  *)
LEMMA FinishFits == Finish \in Seq(FinishSteps("delete")) /\ EmptyTrash \in Seq(FinishSteps("delete"))
<1>1. \A s \in Step : s.op \in {"expect", "gone", "flush"} \/ DropsPrivate(s) => s \in FinishSteps("delete")
  BY DEF FinishSteps, Fitting, Fillers, Movers, DropsPrivate
<1>2. ASSUME NEW p \in {D, M}
      PROVE  /\ Expect(N("public", p), Old(p)) \in FinishSteps("delete")
             /\ Expect(N("backup", p), Old(p)) \in FinishSteps("delete")
             /\ Leniently(Settle(N("public", p), N("backup", p), Old(p))) \in FinishSteps("delete")
             /\ Leniently(Drop(N("backup", p), Old(p))) \in FinishSteps("delete")
             /\ Leniently(Gone(N("public", p), Old(p))) \in FinishSteps("delete")
  <2>1. /\ Expect(N("public", p), Old(p)) \in Step /\ Expect(N("backup", p), Old(p)) \in Step
        /\ Settle(N("public", p), N("backup", p), Old(p)) \in Step
        /\ Drop(N("backup", p), Old(p)) \in Step /\ Gone(N("public", p), Old(p)) \in Step
    BY PlainSteps, Names
  <2>2. /\ Expect(N("public", p), Old(p)) \in FinishSteps("delete")
        /\ Expect(N("backup", p), Old(p)) \in FinishSteps("delete")
    BY <1>1, <2>1, LookShapes
  <2>3. /\ Leniently(Drop(N("backup", p), Old(p))) \in FinishSteps("delete")
        /\ Leniently(Gone(N("public", p), Old(p))) \in FinishSteps("delete")
    BY <1>1, <2>1, LookShapes, DropShapes, LenientShape, Places DEF DropsPrivate
  <2>4. May("delete", N("public", p)) = May("delete", N("backup", p)) BY MayHold
  <2>5. Leniently(Settle(N("public", p), N("backup", p), Old(p))) \in FinishSteps("delete")
    BY <2>1, <2>4, MoveShapes, LenientShape, Places DEF FinishSteps, Fitting, Fillers, Movers
  <2> QED BY <2>2, <2>3, <2>5
<1> QED BY <1>2 DEF Finish, EmptyTrash

(* A finished deletion drops its marker.                                   *)
LEMMA UntombFits == Untomb \in Seq(UntombSteps("delete"))
<1>1. Drop(Marker, Marker) \in Step /\ Flush \in Step BY PlainSteps, Names, FlushType
<1>2. Drop(Marker, Marker) \in UntombSteps("delete") /\ Flush \in UntombSteps("delete")
  BY <1>1, DropShapes, LookShapes, Names DEF UntombSteps, Fitting, Fillers, Movers, DropsJournal
<1> QED BY <1>2 DEF Untomb

-----------------------------------------------------------------------------
(***************************************************************************)
(* File operations keep the invariant.                                     *)
(***************************************************************************)

(* The step under way is one of its part of the mutation.                  *)
LEMMA StepSort ==
  ASSUME Inv, ScriptsOK, todo # << >>
  PROVE  /\ phase \in Phase \ {"idle", "down"} /\ step \in Fitting(kind)
         /\ phase = "staging" => step \in StagingSteps(kind)
         /\ phase = "installing" => step \in InstallSteps(kind) /\ ok
         /\ phase = "discarding" => step \in DiscardSteps(kind)
         /\ phase \in PublishPhases => step \in PublishSteps(kind)
         /\ phase = "rolling" => step \in RollSteps(kind)
         /\ phase \in Retiring => step \in RetireSteps(kind)
         /\ phase \in {"finishing", "emptying"} => step \in FinishSteps(kind)
         /\ phase = "untombing" => step \in UntombSteps(kind)
<1>1. \A S : todo \in Seq(S) => step \in S BY DEF step
<1>2. phase \in Phase \ {"idle", "down"} BY DEF ScriptsOK, Inv, ControlOK
<1>3. /\ StagingSteps(kind) \subseteq Fitting(kind) /\ InstallSteps(kind) \subseteq Fitting(kind)
      /\ DiscardSteps(kind) \subseteq Fitting(kind) /\ PublishSteps(kind) \subseteq Fitting(kind)
      /\ RollSteps(kind) \subseteq Fitting(kind) /\ RetireSteps(kind) \subseteq Fitting(kind)
      /\ FinishSteps(kind) \subseteq Fitting(kind) /\ UntombSteps(kind) \subseteq Fitting(kind)
  BY DEF StagingSteps, InstallSteps, DiscardSteps, PublishSteps, RollSteps, RetireSteps, FinishSteps,
         UntombSteps
<1>4. \/ phase = "staging" \/ phase = "installing" \/ phase = "discarding" \/ phase \in PublishPhases
      \/ phase = "rolling" \/ phase \in Retiring \/ phase \in {"finishing", "emptying"}
      \/ phase = "untombing"
  BY <1>2 DEF Phase, PublishPhases, Retiring, RollbackPhases
<1> QED BY <1>1, <1>2, <1>3, <1>4 DEF ScriptsOK

(* A script keeps its kind of steps, and the rest of one stays a rest.      *)
LEMMA ScriptKept ==
  ASSUME todo' \in {todo, Tail(todo), << >>}, todo # << >>
  PROVE  \A S : todo \in Seq(S) => todo' \in Seq(S)
<1> SUFFICES ASSUME NEW S, todo \in Seq(S) PROVE todo' \in Seq(S) OBVIOUS
<1>1. Tail(todo) \in Seq(S) /\ << >> \in Seq(S) OBVIOUS
<1> QED BY <1>1

(* The rest of a script stays one as its head is done.                     *)
LEMMA RestKept ==
  ASSUME NEW S, todo \in Seq(S), NEW script \in Seq(S), Rest(todo, script), todo # << >>,
         todo' \in {todo, Tail(todo), << >>}
  PROVE  Rest(todo', script)
<1>1. CASE todo' = todo BY <1>1
<1>2. CASE todo' = << >> BY <1>2 DEF Rest
<1>3. CASE todo' = Tail(todo)
  <2>1. Len(Tail(todo)) = Len(todo) - 1 /\ \A i \in 1..(Len(todo) - 1) : Tail(todo)[i] = todo[i + 1]
    OBVIOUS
  <2> QED BY <1>3, <2>1 DEF Rest
<1> QED BY <1>1, <1>2, <1>3

(* The first part of the invariant: the scripts. *)
LEMMA FileScripts == ASSUME Inv, ScriptsOK, FileStep PROVE ScriptsOK'
<1>1. todo # << >> /\ todo' \in {todo, Tail(todo), << >>} /\ UNCHANGED <<kind, phase>>
  BY Ends DEF FileStep, ProgramAct, Pass
<1>2. \A S : todo \in Seq(S) => todo' \in Seq(S) BY <1>1, ScriptKept
<1>3. ASSUME phase = "installing" PROVE Rest(todo', Install(kind)) /\ (todo' # << >> => ok')
  <2>1. step.strict /\ step.op # "restore" /\ ok
    BY <1>1, <1>3, StepSort DEF InstallSteps
  <2>2. todo' # << >> => ok'
    BY <2>1, Ends DEF FileStep, ProgramAct, Pass
  <2>3. Install(kind) \in Seq(InstallSteps(kind)) BY KindType, InstallFits
  <2>4. Rest(todo', Install(kind))
    BY <1>1, <1>3, <2>3, RestKept DEF ScriptsOK
  <2> QED BY <2>2, <2>4
<1>4. ~(phase \in {"idle", "down"}) BY <1>1, StepSort
<1> QED BY <1>1, <1>2, <1>3, <1>4 DEF ScriptsOK

(* The names hold what they may. *)
LEMMA FileFilling == ASSUME Inv, ScriptsOK, NamesOK, FileStep PROVE Filling'
<1> SUFFICES ASSUME NEW n \in Entry PROVE dir'[n] \in May(kind, n)
  BY DEF Filling, FileStep
<1>1. dir[n] \in May(kind, n) /\ \A m \in Entry : dir[m] \in May(kind, m) BY DEF NamesOK, Filling
<1>2. CASE dir'[n] = dir[n] BY <1>1, <1>2
<1>3. CASE dir'[n] # dir[n]
  <2>1. todo # << >> /\ Effect(n) BY <1>3, Effects DEF Inv, FileStep, ProgramAct
  <2>2. step \in Fitting(kind) /\ step.name \in Entry /\ step.to \in Entry
    BY <2>1, StepSort, HeadFields DEF Inv
  <2>3. None \in May(kind, n) BY DEF May
  <2>4. CASE Fills(n) \/ Yields(n) \/ Leaves(n)
    BY <2>2, <2>3, <2>4 DEF Fills, Yields, Leaves, Fitting
  <2>5. CASE Shifts(n) \/ Returns(n) \/ Joins(n) \/ Reverts(n)
    BY <1>1, <2>2, <2>3, <2>5 DEF Shifts, Returns, Joins, Reverts, Fitting, Movers
  <2>6. CASE ComesBack(n)
    BY <2>1, <2>6 DEF ComesBack, NamesOK, Found
  <2> QED BY <2>1, <2>4, <2>5, <2>6 DEF Effect
<1> QED BY <1>2, <1>3

(* No foreign file appears by a step of the program. *)
LEMMA TameAlone ==
  ASSUME DirectoryInv, Tame, \A n \in Name : dir[n] \notin Foreign
  PROVE  \A n \in Name : dir'[n] \notin Foreign
<1>1. dir \in Directory /\ \A i \in Own \union {None} : i \notin Foreign
  BY Apart DEF DirectoryInv
<1>2. CASE Untouched BY <1>2 DEF Untouched
<1>3. CASE Renames BY <1>1, <1>3 DEF Renames, Renamed, Directory
<1>4. CASE Sets BY <1>1, <1>4 DEF Sets, Set, Directory
<1>5. CASE Doubles BY <1>1, <1>5 DEF Doubles, Set, Directory
<1> QED BY <1>2, <1>3, <1>4, <1>5 DEF Tame

(* A file operation keeps what the names may hold.                         *)
LEMMA FileNames == ASSUME Inv, ScriptsOK, NamesOK, FileStep PROVE NamesOK'
<1>1. Filling' BY FileFilling
<1>2. used' = used /\ kind' = kind /\ Tame
  BY TameProgram DEF FileStep, RunStep, FailCall, FailTwice, Inv, LookAtSource, LookAtLeftover, RenameEntry,
      ConfirmRename, LinkEntry, ConfirmLink, LookAtVictim, LookAtOwn, Quarantine, Discard, WriteFile, Sync,
      Check, CheckNoForeign, CheckGone, LookAtTarget, RenameBack, ConfirmReclaim, RestoreEntry,
      RelinkEntry, AdoptScrap, RetainCopy, PreserveJournal, CloseHandle, ConfirmClose, UnlinkCopy, UnlinkEntry, PurgeScrap
<1>3. Alone' BY <1>2, TameAlone DEF Alone, NamesOK, Inv
<1>4. Found'
  <2> SUFFICES ASSUME stage' \in {"confirm", "unlink"}, todo' # << >>
               PROVE  /\ step'.op \in {"move", "settle", "drop", "retract"} => dir'[step'.name] \notin Own
                      /\ step'.op \in {"drop", "retract"} =>
                           dir'[moved'] \in May(kind, step'.name) /\ (stage' = "unlink" => dir'[moved'] = step'.id)
    BY <1>2 DEF Found
  <2>1. CASE stage' = "confirm"
    <3>1. /\ todo # << >> /\ todo' = todo
          /\ \/ step.op \in {"move", "settle"} /\ dir'[step.name] = None
             \/ step.op \in {"link", "reclaim", "close"}
             \/ /\ step.op \in {"drop", "retract"} /\ dir'[step.name] = None
                /\ dir'[moved'] = dir[step.name]
      BY <2>1, Confirming DEF FileStep, ProgramAct, Inv
    <3>2. step' = step BY <3>1 DEF step
    <3>3. None \notin Own /\ dir[step.name] \in May(kind, step.name)
      BY <3>1, Apart, HeadFields DEF Inv, NamesOK, Filling
    <3> QED BY <2>1, <3>1, <3>2, <3>3
  <2>2. CASE stage' = "unlink"
    <3>1. todo # << >> /\ todo' = todo /\ dir' = dir /\ moved' = moved /\ stage = "confirm"
          /\ (step.op \in {"drop", "retract"} => dir[moved] = step.id)
      BY <2>2, Unlinking DEF FileStep, ProgramAct, Inv
    <3>2. step' = step BY <3>1 DEF step
    <3> QED BY <3>1, <3>2 DEF NamesOK, Found
  <2> QED BY <2>1, <2>2
<1>5. PairSeen'
  <2> SUFFICES ASSUME stage' = "act", step'.op = "drop", step'.guarded PROVE Holds(step.pair)'
    BY DEF PairSeen, At
  <2>1. todo # << >> /\ todo' = todo BY Acting DEF FileStep, ProgramAct, Inv
  <2>2. step' = step BY <2>1 DEF step
  <2>3. Holds(step.pair) /\ \A n \in Entry : dir'[n] = dir[n]
    BY <2>2, Acting DEF FileStep, ProgramAct, Inv
  <2>4. \A p \in step.pair : p[1] \in Entry BY <2>1, HeadFields DEF Inv, Pairs
  <2> QED BY <2>2, <2>3, <2>4 DEF Holds
<1> QED BY <1>1, <1>3, <1>4, <1>5 DEF NamesOK

(* Which names change in which part of a mutation, and how. *)
LEMMA Changes ==
  ASSUME Inv, ScriptsOK, NamesOK, FileStep, NEW n \in Entry, dir'[n] # dir[n]
  PROVE  /\ phase = "staging" => n \in Private \union {Marker} /\ dir'[n] # None
         /\ phase = "installing" =>
              \/ n \in Named /\ (Shifts(n) \/ Returns(n) \/ Joins(n))
              \/ step.op = "write" /\ n = Commit /\ dir'[n] # None
         /\ phase = "discarding" => n \in Private
         /\ phase \in PublishPhases =>
              \/ n \in Private
              \/ dir[n] = None /\ <<n, dir'[n]>> \in Entries(After(kind))
              \/ n = Commit /\ dir'[n] # None
              \/ n \in Journal /\ dir'[n] = None /\ Drops(step, n)
         /\ phase = "rolling" =>
              \/ n \in Private
              \/ step.op = "retract" /\ <<n, step.id>> \in Entries(After(kind)) /\ dir'[n] # step.id
              \/ step.op = "restore" /\ kind # "rename" /\ dir[n] = None /\ <<n, dir'[n]>> \in Before(kind)
              \/ step.op = "reclaim" /\ kind = "rename" /\ (Fills(n) \/ Reverts(n))
         /\ phase \in Retiring =>
              \/ n \in Private
              \/ kind = "rename" /\ dir[n] = None /\ <<n, dir'[n]>> \in Before(kind)
              \/ n = Marker /\ dir'[n] # None
              \/ /\ n = Marker /\ dir'[n] = None /\ At({"drop"}, "act")
                 /\ kind = "fresh" \/ (step.guarded /\ step.pair = Before(kind))
         /\ phase \in {"finishing", "emptying"} => n \in Named
         /\ phase = "untombing" => n = Marker
<1>1. todo # << >> /\ Effect(n) BY Effects DEF Inv, FileStep, ProgramAct
<1>2. /\ step \in Fitting(kind) /\ step.name \in Entry /\ step.to \in Entry
      /\ ComesBack(n) => dir[moved] \in May(kind, n)
  BY <1>1, StepSort, HeadFields DEF Inv, ComesBack, NamesOK, Found
<1>3. ASSUME phase = "staging" PROVE n \in Private \union {Marker} /\ dir'[n] # None
  <2>1. step \in StagingSteps(kind) BY <1>1, <1>3, StepSort
  <2>2. Fills(n) BY <1>1, <2>1 DEF Effect, StagingSteps, Yields, Shifts, Returns, Joins, Leaves, ComesBack, Reverts
  <2> QED BY <1>2, <2>1, <2>2 DEF Fills, StagingSteps, Fitting
<1>4. ASSUME phase = "installing"
      PROVE  \/ n \in Named /\ (Shifts(n) \/ Returns(n) \/ Joins(n))
             \/ step.op = "write" /\ n = Commit /\ dir'[n] # None
  <2>1. step \in InstallSteps(kind) BY <1>1, <1>4, StepSort
  <2>2. CASE Fills(n) BY <1>2, <2>1, <2>2 DEF Fills, InstallSteps, Fitting, Fillers
  <2>3. CASE ~Fills(n)
    <3>1. Shifts(n) \/ Returns(n) \/ Joins(n)
      BY <1>1, <2>1, <2>3 DEF Effect, InstallSteps, Yields, Leaves, ComesBack, Reverts
    <3> QED BY <1>2, <3>1 DEF Shifts, Returns, Joins, Fitting, Movers
  <2> QED BY <2>2, <2>3
<1>5. ASSUME phase = "discarding" PROVE n \in Private
  <2>1. step \in DiscardSteps(kind) BY <1>1, <1>5, StepSort
  <2> QED BY <1>1, <2>1 DEF Effect, DiscardSteps, DropsPrivate, Fills, Fillers, Yields, Shifts, Returns,
          Joins, Leaves, ComesBack, Reverts
<1>6. ASSUME phase \in PublishPhases
      PROVE  \/ n \in Private
             \/ dir[n] = None /\ <<n, dir'[n]>> \in Entries(After(kind))
             \/ n = Commit /\ dir'[n] # None
             \/ n \in Journal /\ dir'[n] = None /\ Drops(step, n)
  <2>1. step \in PublishSteps(kind) BY <1>1, <1>6, StepSort
  <2>2. Fills(n) \/ Leaves(n) \/ ComesBack(n)
    BY <1>1, <2>1 DEF Effect, PublishSteps, DropsPrivate, DropsJournal, Yields, Shifts, Returns, Joins, Reverts
  <2>3. CASE Fills(n)
    BY <1>2, <2>1, <2>3 DEF Fills, PublishSteps, Fitting, Fillers, DropsPrivate, DropsJournal
  <2>4. CASE Leaves(n)
    BY <2>1, <2>4 DEF Leaves, PublishSteps, DropsPrivate, DropsJournal, Drops
  <2>5. CASE ComesBack(n)
    <3>1. n \in Private \/ (n \in Journal /\ step.id = n /\ ~step.guarded)
      BY <2>1, <2>5 DEF ComesBack, PublishSteps, DropsPrivate, DropsJournal
    <3> QED BY <1>2, <2>5, <3>1 DEF ComesBack, May
  <2> QED BY <2>2, <2>3, <2>4, <2>5
<1>7. ASSUME phase = "rolling"
      PROVE  \/ n \in Private
             \/ step.op = "retract" /\ <<n, step.id>> \in Entries(After(kind)) /\ dir'[n] # step.id
             \/ step.op = "restore" /\ kind # "rename" /\ dir[n] = None /\ <<n, dir'[n]>> \in Before(kind)
             \/ step.op = "reclaim" /\ kind = "rename" /\ (Fills(n) \/ Reverts(n))
  <2>1. step \in RollSteps(kind) BY <1>1, <1>7, StepSort
  <2>2. Fills(n) \/ Yields(n) \/ Leaves(n) \/ ComesBack(n) \/ Reverts(n)
    BY <1>1, <2>1 DEF Effect, RollSteps, DropsPrivate, Shifts, Returns, Joins
  <2>3. CASE Fills(n)
    BY <1>2, <2>1, <2>3 DEF Fills, RollSteps, Fillers, DropsPrivate
  <2>4. CASE Yields(n) \/ Reverts(n)
    BY <1>2, <2>1, <2>4 DEF Yields, Reverts, RollSteps, Fitting, DropsPrivate
  <2>5. CASE Leaves(n) \/ ComesBack(n)
    BY <2>1, <2>5 DEF Leaves, ComesBack, RollSteps, DropsPrivate, Entries
  <2> QED BY <2>2, <2>3, <2>4, <2>5
<1>8. ASSUME phase \in Retiring
      PROVE  \/ n \in Private
             \/ kind = "rename" /\ dir[n] = None /\ <<n, dir'[n]>> \in Before(kind)
             \/ n = Marker /\ dir'[n] # None
             \/ /\ n = Marker /\ dir'[n] = None /\ At({"drop"}, "act")
                /\ kind = "fresh" \/ (step.guarded /\ step.pair = Before(kind))
  <2>1. step \in RetireSteps(kind) BY <1>1, <1>8, StepSort
  <2>2. Fills(n) \/ Leaves(n) \/ ComesBack(n)
    BY <1>1, <2>1 DEF Effect, RetireSteps, DropsPrivate, DropsJournal, Yields, Shifts, Returns, Joins, Reverts
  <2>3. CASE Fills(n)
    BY <1>2, <2>1, <2>3 DEF Fills, RetireSteps, Fitting, Fillers, DropsPrivate, DropsJournal
  <2>4. CASE Leaves(n)
    BY <1>1, <2>1, <2>4 DEF Leaves, RetireSteps, DropsPrivate, DropsJournal, At
  <2>5. CASE ComesBack(n)
    BY <2>1, <2>5 DEF ComesBack, RetireSteps, DropsPrivate, DropsJournal
  <2> QED BY <2>2, <2>3, <2>4, <2>5
<1>9. ASSUME phase \in {"finishing", "emptying"} PROVE n \in Named
  <2>1. step \in FinishSteps(kind) BY <1>1, <1>9, StepSort
  <2> QED BY <1>1, <1>2, <2>1, Places DEF Effect, FinishSteps, DropsPrivate, Fitting, Fills, Fillers, Movers,
          Yields, Shifts, Returns, Joins, Leaves, ComesBack, Reverts
<1>10. ASSUME phase = "untombing" PROVE n = Marker
  <2>1. step \in UntombSteps(kind) BY <1>1, <1>10, StepSort
  <2> QED BY <1>1, <2>1 DEF Effect, UntombSteps, DropsJournal, Fills, Fillers, Yields, Shifts, Returns,
          Joins, Leaves, ComesBack, Reverts
<1> QED BY <1>3, <1>4, <1>5, <1>6, <1>7, <1>8, <1>9, <1>10

(* The marker stays until its rollback or the end of the mutation. *)
LEMMA MarkerKept ==
  ASSUME Inv, ScriptsOK, NamesOK, FileStep, dir[Marker] # None,
         phase \notin PublishPhases \union Retiring \union {"untombing"}
  PROVE  dir'[Marker] # None
<1> SUFFICES ASSUME dir'[Marker] # dir[Marker], dir'[Marker] = None PROVE FALSE OBVIOUS
<1>1. todo # << >> /\ Marker \in Entry BY Ends, Names DEF FileStep, ProgramAct
<1>2. phase \in {"staging", "installing", "discarding", "rolling", "finishing", "emptying"}
  BY <1>1, StepSort DEF Phase, PublishPhases, Retiring, RollbackPhases
<1>3. Marker \notin Named /\ Marker # Commit /\ Marker \notin Private BY Places
<1>4. phase = "rolling"
  BY <1>1, <1>2, <1>3, Changes
<1>5. step \in RollSteps(kind) /\ step \in Fitting(kind) BY <1>1, <1>4, StepSort
<1>6. \/ <<Marker, step.id>> \in After(kind)
      \/ step.op = "reclaim" /\ (Fills(Marker) \/ Reverts(Marker))
  BY <1>1, <1>3, <1>4, Changes, Places DEF Entries
<1>7. <<Marker, step.id>> \notin After(kind) BY KindType, Pairing, Places DEF Kind
<1> QED BY <1>3, <1>5, <1>6, <1>7 DEF Fitting, Movers, Fills, Reverts

(* The commit file is written as the last step of the installation, ...    *)
LEMMA CommitWritten ==
  ASSUME Inv, ScriptsOK, NamesOK, PhaseOK, JournalOK, FileStep, committed' # committed
  PROVE  /\ ~committed /\ phase = "installing" /\ step.op = "write" /\ step.name = Commit
         /\ dir'[Commit] # None /\ dir[Commit] = None
<1>1. ~committed /\ dir'[Commit] # None /\ dir[Commit] = None
  BY DEF FileStep, JournalOK, CommitDecides, Inv, ControlOK
<1>2. Commit \in Entry /\ Commit \notin Named /\ Commit # Marker /\ Commit \notin Private /\ todo # << >>
  BY Names, Places, Ends DEF FileStep, ProgramAct
<1>3. phase \in {"staging", "installing", "discarding", "rolling"} \union Retiring
  BY <1>1, <1>2, StepSort DEF Phase, PublishPhases, Retiring, RollbackPhases, PhaseOK
<1>4. phase \in {"installing", "rolling"}
  <2> SUFFICES ASSUME phase \in {"staging", "discarding"} \union Retiring PROVE FALSE BY <1>3
  <2>1. phase \in Retiring BY <1>1, <1>2, Changes
  <2>2. kind = "rename" /\ <<Commit, dir'[Commit]>> \in Before(kind)
    BY <1>1, <1>2, <2>1, Changes
  <2> QED BY <1>2, <2>2, Pairing, Places
<1>5. CASE phase = "rolling"
  <2>1. step \in RollSteps(kind) /\ step \in Fitting(kind) BY <1>2, <1>5, StepSort
  <2>2. \/ <<Commit, step.id>> \in After(kind)
        \/ <<Commit, dir'[Commit]>> \in Before(kind)
        \/ step.op = "reclaim" /\ (Fills(Commit) \/ Reverts(Commit))
    BY <1>1, <1>2, <1>5, Changes DEF Entries
  <2> QED BY <1>2, <2>1, <2>2, KindType, Pairing, Places DEF Kind, Fitting, Movers, Fills, Reverts
<1>6. CASE phase = "installing"
  <2>1. step \in InstallSteps(kind) BY <1>2, <1>6, StepSort
  <2>2. step.op = "write" BY <1>1, <1>2, <1>6, Changes
  <2> QED BY <1>1, <1>6, <2>1, <2>2 DEF InstallSteps
<1> QED BY <1>4, <1>5, <1>6

(* ... which a deletion does not have.                                     *)
LEMMA InstallLast ==
  \A k \in Kind : \A i \in 1..Len(Install(k)) :
    /\ Install(k)[i].op = "write" => i = Len(Install(k)) /\ k # "delete"
    /\ i = Len(Install(k)) /\ k # "delete" => Install(k)[i].op = "write"
<1>1. Install("fresh")[6].op = "write" BY FillShapes DEF Install, Log
<1> QED BY FillShapes, MoveShapes, LookShapes DEF Install, InstallRename, Kind, Log

(* A write is over at once.                                                *)
LEMMA WritesOnce ==
  ASSUME ProgramAct, step.op = "write" PROVE todo' # todo
BY DEF ProgramAct, RunStep, FailCall, FailTwice, LookAtSource, LookAtLeftover, RenameEntry,
      ConfirmRename, LinkEntry, ConfirmLink, LookAtVictim, LookAtOwn, Quarantine, Discard, WriteFile, Sync,
      Check, CheckNoForeign, CheckGone, LookAtTarget, RenameBack, ConfirmReclaim, RestoreEntry,
      RelinkEntry, AdoptScrap, RetainCopy, PreserveJournal, CloseHandle, ConfirmClose, UnlinkCopy, UnlinkEntry, PurgeScrap, At, Pass, Miss

(* A committed mutation does not write its marker again.                   *)
LEMMA MarkerGone ==
  ASSUME Inv, ScriptsOK, NamesOK, PhaseOK, FileStep, committed, kind # "delete", dir[Marker] = None
  PROVE  dir'[Marker] = None
<1> SUFFICES ASSUME dir'[Marker] # dir[Marker] PROVE FALSE OBVIOUS
<1>1. todo # << >> /\ Marker \in Entry BY Ends, Names DEF FileStep, ProgramAct
<1>2. phase \in {"discarding"} \union PublishPhases
  BY <1>1, StepSort DEF Phase, PublishPhases, Retiring, RollbackPhases, PhaseOK
<1>3. Marker \notin Private /\ Marker # Commit BY Places
<1>4. <<Marker, dir'[Marker]>> \in After(kind) BY <1>1, <1>2, <1>3, Changes DEF Entries
<1> QED BY <1>4, KindType, Pairing, Places DEF Kind

(* The rest of a script, position by position.                             *)
LEMMA Tails ==
  ASSUME NEW S, NEW s \in Seq(S), s # << >>
  PROVE  /\ Len(s) \in Nat \ {0} /\ 1 \in 1..Len(s) /\ Head(s) = s[1]
         /\ Tail(s) \in Seq(S) /\ Len(Tail(s)) = Len(s) - 1 /\ Tail(s) # s
         /\ \A i \in 1..Len(Tail(s)) : i + 1 \in 1..Len(s) /\ Tail(s)[i] = s[i + 1]
         /\ \A i \in 1..Len(s) : i # 1 => i - 1 \in 1..Len(Tail(s)) /\ Tail(s)[i - 1] = s[i]
         /\ Len(s) = 1 => Tail(s) = << >>
<1>1. /\ Len(s) \in Nat \ {0} /\ 1 \in 1..Len(s) /\ Head(s) = s[1]
      /\ Tail(s) \in Seq(S) /\ Len(Tail(s)) = Len(s) - 1
      /\ \A i \in 1..(Len(s) - 1) : Tail(s)[i] = s[i + 1]
  OBVIOUS
<1>2. Tail(s) # s
  <2>1. \A n \in Nat : \A m : m = n - 1 => m # n OBVIOUS
  <2>2. Len(s) \in Nat /\ Len(Tail(s)) = Len(s) - 1 BY <1>1
  <2>3. Len(Tail(s)) # Len(s) BY <2>1, <2>2, Zenon
  <2> QED BY <2>3
<1>3. \A i \in 1..Len(Tail(s)) : i + 1 \in 1..Len(s) /\ Tail(s)[i] = s[i + 1] BY <1>1
<1>4. \A i \in 1..Len(s) : i # 1 => i - 1 \in 1..Len(Tail(s)) /\ Tail(s)[i - 1] = s[i]
  BY <1>1
<1>5. Len(s) = 1 => Tail(s) = << >>
  <2>1. \A t \in Seq(S) : Len(t) = 0 => t = << >> OBVIOUS
  <2>2. Len(s) = 1 => Len(Tail(s)) = 0 BY <1>1
  <2> QED BY <1>1, <2>1, <2>2
<1> QED BY <1>1, <1>2, <1>3, <1>4, <1>5

(* What the journal says of the pair.                                      *)
LEMMA FileJournal ==
  ASSUME Inv, ScriptsOK, NamesOK, JournalOK, PhaseOK, FileStep PROVE JournalOK'
<1>1. /\ todo # << >> /\ todo' \in {todo, Tail(todo), << >>} /\ UNCHANGED <<kind, phase>>
      /\ Marker \in Entry /\ Commit \in Entry
  BY Ends, Names DEF FileStep, ProgramAct, Pass
<1>2. ProgramAct /\ DirectoryInv /\ Found /\ todo \in Seq(Step)
  BY DEF FileStep, ProgramAct, Inv, NamesOK, DirectoryInv, ScriptOK
<1>3. /\ 1 \in 1..Len(todo) /\ step = todo[1] /\ Tail(todo) # todo /\ Len(Tail(todo)) \in Nat
      /\ \A i \in 1..Len(Tail(todo)) : i + 1 \in 1..Len(todo) /\ Tail(todo)[i] = todo[i + 1]
      /\ \A i \in 1..Len(todo) : i # 1 => i - 1 \in 1..Len(Tail(todo)) /\ Tail(todo)[i - 1] = todo[i]
  BY <1>1, <1>2, Tails DEF step
<1>4. CommitDecides'
  <2>1. dir'[Commit] # None => committed' BY DEF FileStep
  <2>2. ASSUME kind # "delete", committed', dir'[Commit] = None PROVE dir'[Marker] = None
    <3>1. committed BY <2>2, CommitWritten DEF JournalOK, PhaseOK, Inv, ControlOK
    <3>2. CASE dir[Marker] = None BY <2>2, <3>1, <3>2, MarkerGone
    <3>3. CASE dir[Marker] # None
      <4>1. dir[Commit] # None BY <2>2, <3>1, <3>3 DEF JournalOK, CommitDecides
      <4>2. phase \in {"discarding"} \union PublishPhases
        BY <1>1, <2>2, <3>1, StepSort DEF Phase, PublishPhases, Retiring, RollbackPhases, PhaseOK
      <4>3. phase \in PublishPhases /\ Drops(step, Commit)
        BY <1>1, <2>2, <4>1, <4>2, Changes, Places
      <4>4. Drops(todo[1], Commit) /\ 1 \in 1..Len(todo) BY <1>3, <4>3
      <4>5. \E i \in 1..(1 - 1) : Drops(todo[i], Marker)
        BY <3>3, <4>3, <4>4 DEF JournalOK, MarkerFirst
      <4> QED BY <4>5
    <3> QED BY <3>2, <3>3
  <2> QED BY <1>1, <2>1, <2>2 DEF CommitDecides
<1>5. MarkerThere'
  <2>1. dir[Marker] # None /\ phase \in {"staging", "installing", "finishing", "emptying", "rolling"} =>
          dir'[Marker] # None
    BY MarkerKept DEF PublishPhases, Retiring, RollbackPhases
  <2>2. ASSUME phase = "staging", ok', dir'[Marker] = None
        PROVE  \E j \in 1..Len(todo') : todo'[j].name = Marker
    <3>1. ok /\ (todo' = todo \/ todo' = Tail(todo)) BY <1>2, <2>2, Ends DEF Pass
    <3>2. dir[Marker] = None BY <2>1, <2>2
    <3>3. PICK j \in 1..Len(todo) : todo[j].name = Marker
      BY <2>2, <3>1, <3>2 DEF JournalOK, MarkerThere
    <3>4. CASE todo' = todo BY <3>3, <3>4
    <3>5. CASE todo' = Tail(todo)
      <4>1. step \in StagingSteps(kind) BY <1>1, <2>2, StepSort
      <4>2. step.op = "write" /\ step.id # None BY <4>1 DEF StagingSteps, Fitting, Fillers
      <4>3. dir'[step.name] = step.id BY <1>2, <1>3, <2>2, <3>5, <4>2, Passed
      <4>4. j # 1 BY <1>3, <2>2, <3>3, <4>2, <4>3
      <4>5. j - 1 \in 1..Len(todo') /\ todo'[j - 1] = todo[j] BY <1>3, <3>5, <4>4
      <4> QED BY <3>3, <4>5
    <3> QED BY <3>1, <3>4, <3>5
  <2> QED BY <1>1, <2>1, <2>2 DEF MarkerThere, JournalOK
<1>6. ASSUME phase \in PublishPhases PROVE MarkerFirst'
  <2>1. committed /\ kind # "delete" BY <1>6 DEF PhaseOK, Inv, ControlOK
  <2>2. dir[Marker] = None => dir'[Marker] = None BY <2>1, MarkerGone
  <2>3. MarkerFirst BY <1>6 DEF JournalOK
  <2> SUFFICES ASSUME NEW j \in 1..Len(todo'), Drops(todo'[j], Commit), dir'[Marker] # None
               PROVE  \E i \in 1..(j - 1) : Drops(todo'[i], Marker)
    BY DEF MarkerFirst
  <2>4. CASE todo' = todo BY <2>2, <2>3, <2>4 DEF MarkerFirst
  <2>5. CASE todo' = Tail(todo)
    <3>1. j + 1 \in 1..Len(todo) /\ todo'[j] = todo[j + 1] BY <1>3, <2>5
    <3>2. PICK i \in 1..((j + 1) - 1) : Drops(todo[i], Marker)
      BY <2>2, <2>3, <3>1 DEF MarkerFirst
    <3>3. CASE i = 1
      <4>1. step.op = "drop" /\ step.name = Marker BY <1>3, <3>2, <3>3 DEF Drops
      <4>2. step \in PublishSteps(kind) BY <1>1, <1>6, StepSort
      <4>3. step.strict BY <4>1, <4>2, Places DEF PublishSteps, DropsPrivate, DropsJournal
      <4>4. todo' # << >> /\ todo' # todo
        <5>1. todo' # << >> OBVIOUS
        <5> QED BY <1>3, <2>5, <5>1
      <4>5. dir'[Marker] \notin Own BY <1>2, <4>1, <4>3, <4>4, Passed
      <4>6. dir'[Marker] \in May(kind, Marker) BY <1>1, FileFilling DEF Filling
      <4> QED BY <4>5, <4>6, Names DEF May
    <3>4. CASE i # 1
      <4>1. i \in 1..Len(todo) /\ i - 1 \in 1..(j - 1) BY <1>3, <2>5, <3>1, <3>4
      <4>2. todo'[i - 1] = todo[i] BY <1>3, <2>5, <3>4, <4>1
      <4> QED BY <3>2, <4>1, <4>2
    <3> QED BY <3>3, <3>4
  <2>6. CASE todo' = << >> BY <2>6
  <2> QED BY <1>1, <2>4, <2>5, <2>6
<1> QED BY <1>1, <1>4, <1>5, <1>6 DEF JournalOK

(* Where a mutation has got to.                                            *)
LEMMA FilePhase ==
  ASSUME Inv, ScriptsOK, NamesOK, JournalOK, PhaseOK, FileStep PROVE PhaseOK'
<1>1. /\ todo # << >> /\ todo' \in {todo, Tail(todo), << >>} /\ UNCHANGED <<kind, phase, reply>>
      /\ committed => committed'
  BY Ends DEF FileStep, ProgramAct, Pass
<1>2. ProgramAct /\ DirectoryInv /\ Found /\ todo \in Seq(Step)
  BY DEF FileStep, ProgramAct, Inv, NamesOK, DirectoryInv, ScriptOK
<1>3. /\ Len(Tail(todo)) = Len(todo) - 1 /\ step = todo[1] /\ Len(todo) \in Nat \ {0}
  BY <1>1, <1>2 DEF step
<1>4. phase # "idle" /\ phase # "down" BY <1>1, StepSort
<1>5. phase = "installing" => ~committed BY <1>1 DEF PhaseOK
<1>6. phase = "installing" =>
        /\ Len(todo) <= Len(Install(kind)) /\ Install(kind) \in Seq(InstallSteps(kind))
        /\ step = Install(kind)[Len(Install(kind)) - Len(todo) + 1]
  <2> SUFFICES ASSUME phase = "installing"
               PROVE  /\ Len(todo) <= Len(Install(kind)) /\ Install(kind) \in Seq(InstallSteps(kind))
                      /\ step = Install(kind)[Len(Install(kind)) - Len(todo) + 1]
    OBVIOUS
  <2>1. Rest(todo, Install(kind)) BY DEF ScriptsOK
  <2>2. Install(kind) \in Seq(InstallSteps(kind)) BY KindType, InstallFits
  <2> QED BY <1>3, <2>1, <2>2 DEF Rest
<1>7. ASSUME committed', ~committed
      PROVE  phase = "installing" /\ todo' = << >> /\ dir'[Commit] # None
  <2>1. phase = "installing" /\ step.op = "write" /\ dir'[Commit] # None
    BY <1>7, CommitWritten DEF JournalOK
  <2>2. Len(todo) = 1 BY <1>3, <1>6, <2>1, InstallLast, KindType
  <2>3. todo' # todo BY <1>2, <2>1, WritesOnce
  <2>4. Tail(todo) = << >> BY <1>1, <1>2, <2>2, Tails
  <2> QED BY <1>1, <2>1, <2>3, <2>4
<1>8. ASSUME phase = "installing", ok', todo' = << >>, kind # "delete" PROVE committed'
  <2>1. todo' = Tail(todo) BY <1>1, <1>2, <1>8, Ends DEF Pass
  <2>2. Len(todo) = 1
    <3>1. todo \in Seq(Step) /\ Tail(todo) = << >> BY <1>2, <1>8, <2>1
    <3>2. Len(Tail(todo)) = Len(todo) - 1 /\ Len(todo) \in Nat BY <1>3, <3>1
    <3>3. \A s : s = << >> => Len(s) = 0 OBVIOUS
    <3>4. Len(Tail(todo)) = 0 BY <3>1, <3>3, Zenon
    <3> QED BY <3>2, <3>4
  <2>3. step.op = "write" BY <1>3, <1>6, <1>8, <2>2, InstallLast, KindType
  <2>4. step \in InstallSteps(kind) BY <1>1, <1>8, StepSort
  <2>5. step.name = Commit /\ step.id # None
    BY <2>3, <2>4 DEF InstallSteps, Fitting, Fillers
  <2>6. dir'[Commit] # None BY <1>1, <1>2, <1>8, <2>3, <2>5, Passed
  <2> QED BY <2>6 DEF FileStep
<1> QED BY <1>1, <1>4, <1>5, <1>7, <1>8 DEF PhaseOK, PublishPhases, RollbackPhases, Inv, ControlOK

(* The moves and links of an installation, by the places they go between. *)
LEMMA InstallPlaces ==
  \A k \in Kind : \A i \in 1..Len(Install(k)) :
    LET s == Install(k)[i] IN
    s.op \in {"move", "link"} =>
      /\ s.id \in Own
      /\ k = "fresh" => s.name[1] = "temp" /\ s.to[1] \in {"guard", "public"}
      /\ k = "replace" =>
           IF i <= 2 THEN s.op = "move" /\ s.name[1] = "public" /\ s.to[1] = "backup" /\ s.id[1] = "old"
                     ELSE s.op = "link" /\ s.name[1] = "temp" /\ s.to[1] \in {"guard", "public"}
      /\ k = "rename" => (s.op = "move" => s.name[1] = "source") /\ s.to[1] # "source"
      /\ k = "delete" => s.name[1] = "public" /\ s.to[1] = "backup"
<1> DEFINE Fine(k, i) ==
      LET s == Install(k)[i] IN
      s.op \in {"move", "link"} =>
        /\ s.id \in Own
        /\ k = "fresh" => s.name[1] = "temp" /\ s.to[1] \in {"guard", "public"}
        /\ k = "replace" =>
             IF i <= 2 THEN s.op = "move" /\ s.name[1] = "public" /\ s.to[1] = "backup" /\ s.id[1] = "old"
                       ELSE s.op = "link" /\ s.name[1] = "temp" /\ s.to[1] \in {"guard", "public"}
        /\ k = "rename" => (s.op = "move" => s.name[1] = "source") /\ s.to[1] # "source"
        /\ k = "delete" => s.name[1] = "public" /\ s.to[1] = "backup"
<1>1. /\ \A place \in {"public", "source", "target", "temp", "backup", "guard", "spare"}, p \in {D, M} :
           N(place, p)[1] = place
      /\ \A p \in {D, M} : Old(p) \in Own /\ New(p) \in Own /\ Old(p)[1] = "old"
  BY Places, Names DEF Old
<1>2. Len(Install("fresh")) = 6 /\ \A i \in 1..6 : Fine("fresh", i)
  BY <1>1, MoveShapes, LookShapes, FillShapes DEF Install, Log
<1>3. Len(Install("replace")) = 8 /\ \A i \in 1..8 : Fine("replace", i)
  BY <1>1, MoveShapes, LookShapes, FillShapes DEF Install, Log
<1>4. Len(Install("rename")) = 9 /\ \A i \in 1..9 : Fine("rename", i)
  BY <1>1, MoveShapes, LookShapes, FillShapes DEF Install, InstallRename, Log
<1>5. Len(Install("delete")) = 3 /\ \A i \in 1..3 : Fine("delete", i)
  BY <1>1, MoveShapes, LookShapes DEF Install
<1> HIDE DEF Fine
<1>6. \A k \in Kind : \A i \in 1..Len(Install(k)) : Fine(k, i)
  BY <1>2, <1>3, <1>4, <1>5 DEF Kind
<1> QED BY <1>6 DEF Fine

(* A step of an installation does not undo an earlier one.                 *)
LEMMA InstallOrder ==
  ASSUME NEW k \in Kind, NEW j \in 1..Len(Install(k)), NEW i \in 1..(j - 1),
         Install(k)[i].op \in {"move", "link"}, Install(k)[j].op \in {"move", "link"}
  PROVE  /\ Install(k)[i].op = "move" /\ Install(k)[j].to = Install(k)[i].name =>
              Install(k)[i].id \notin May(k, Install(k)[j].name)
         /\ Install(k)[j].op = "move" => Install(k)[j].name # Install(k)[i].to
<1> DEFINE s == Install(k)[i]
           t == Install(k)[j]
<1>1. Len(Install(k)) \in Nat
  <2>1. Install(k) \in Seq(InstallSteps(k)) BY InstallFits
  <2> QED BY <2>1
<1>2. i \in 1..Len(Install(k)) /\ i < j BY <1>1
<1>3. /\ s.id \in Own
      /\ k = "fresh" => s.name[1] = "temp" /\ s.to[1] \in {"guard", "public"}
      /\ k = "replace" =>
           IF i <= 2 THEN s.op = "move" /\ s.name[1] = "public" /\ s.to[1] = "backup" /\ s.id[1] = "old"
                     ELSE s.op = "link" /\ s.name[1] = "temp" /\ s.to[1] \in {"guard", "public"}
      /\ k = "rename" => (s.op = "move" => s.name[1] = "source") /\ s.to[1] # "source"
      /\ k = "delete" => s.name[1] = "public" /\ s.to[1] = "backup"
  BY <1>2, InstallPlaces
<1>4. /\ k = "fresh" => t.name[1] = "temp" /\ t.to[1] \in {"guard", "public"}
      /\ k = "replace" =>
           IF j <= 2 THEN t.op = "move" /\ t.name[1] = "public" /\ t.to[1] = "backup"
                     ELSE t.op = "link" /\ t.name[1] = "temp" /\ t.to[1] \in {"guard", "public"}
      /\ k = "rename" => (t.op = "move" => t.name[1] = "source") /\ t.to[1] # "source"
      /\ k = "delete" => t.name[1] = "public" /\ t.to[1] = "backup"
  BY InstallPlaces
<1>5. k = "replace" /\ s.id[1] = "old" /\ t.name[1] = "temp" => s.id \notin May(k, t.name)
  <2>1. t.name[1] = "temp" => t.name \notin Journal BY DEF Journal
  <2>2. \A p : New(p)[1] = "new" BY DEF New
  <2>3. \A f \in Foreign : f[1] = "foreign" BY DEF Foreign
  <2> QED BY <1>3, <2>1, <2>2, <2>3, Apart DEF May, Mine
<1> HIDE DEF s, t
<1>6. /\ s.op = "move" /\ t.to = s.name => s.id \notin May(k, t.name)
      /\ t.op = "move" => t.name # s.to
  <2>1. CASE k \in {"fresh", "delete"} BY <1>3, <1>4, <2>1
  <2>2. CASE k = "rename" BY <1>3, <1>4, <2>2
  <2>3. CASE k = "replace"
    <3>1. j > 2 => t.op = "link" /\ t.name[1] = "temp" BY <1>1, <1>2, <1>4, <2>3
    <3>2. i <= 2 \/ s.op = "link" BY <1>3, <2>3
    <3>3. i <= 2 => s.name[1] = "public" /\ s.to[1] = "backup" /\ s.id[1] = "old" BY <1>3, <2>3
    <3>4. j <= 2 => i <= 2 /\ t.to[1] = "backup" /\ t.name[1] = "public"
      BY <1>1, <1>2, <1>4, <2>3
    <3>5. j <= 2 \/ j > 2 BY <1>1
    <3>6. "link" # "move" /\ "backup" # "public" OBVIOUS
    <3>7. s.op = "move" => i <= 2 BY <3>2, <3>6
    <3>8. t.op = "move" => j <= 2 BY <3>1, <3>5, <3>6
    <3>9. s.op = "move" /\ t.to = s.name => s.id \notin May(k, t.name)
      BY <1>5, <2>3, <3>1, <3>3, <3>4, <3>5, <3>6, <3>7, Zenon
    <3>10. t.op = "move" => t.name # s.to BY <3>3, <3>4, <3>6, <3>8, Zenon
    <3> QED BY <3>9, <3>10
  <2> QED BY <2>1, <2>2, <2>3 DEF Kind
<1> QED BY <1>6 DEF s, t

(* The installation keeps what its earlier steps have done.                *)
LEMMA FileInstall ==
  ASSUME Inv, ScriptsOK, NamesOK, InstallOK, FileStep PROVE InstallOK'
<1> SUFFICES ASSUME phase = "installing", ok',
                    NEW i \in 1..(Len(Install(kind)) - Len(todo'))
             PROVE  Settled(Install(kind)[i])'
  BY DEF InstallOK, FileStep
<1> DEFINE all == Install(kind)
<1>1. todo # << >> /\ (todo' = todo \/ todo' = Tail(todo)) /\ used' = used
  BY Ends DEF FileStep, ProgramAct, Pass, RunStep, FailCall, FailTwice, LookAtSource, LookAtLeftover,
      RenameEntry, ConfirmRename, LinkEntry, ConfirmLink, LookAtVictim, LookAtOwn, Quarantine, Discard,
      WriteFile, Sync, Check, CheckNoForeign, CheckGone, LookAtTarget, RenameBack, ConfirmReclaim,
      RestoreEntry, RelinkEntry, AdoptScrap, RetainCopy, PreserveJournal, CloseHandle, ConfirmClose, UnlinkCopy, UnlinkEntry, PurgeScrap
<1>2. ProgramAct /\ DirectoryInv /\ Found /\ todo \in Seq(Step) /\ kind \in Kind /\ ok
  BY <1>1, KindType, StepSort DEF FileStep, ProgramAct, Inv, NamesOK, DirectoryInv, ScriptOK
<1>3. all \in Seq(InstallSteps(kind)) /\ Rest(todo, all)
  BY <1>2, InstallFits DEF ScriptsOK
<1>4. PICK l \in Nat \ {0} : l = Len(todo) BY <1>1, <1>2, Tails
<1>5. PICK n \in Nat : n = Len(all) BY <1>3
<1> DEFINE here == n - l + 1
<1>6. /\ here \in 1..n /\ step = all[here] /\ Tail(todo) # todo
      /\ i \in 1..n /\ (i < here \/ (i = here /\ todo' = Tail(todo))) /\ here - 1 = n - l
  <2>1. l <= n /\ todo[1] = all[n - l + 1] BY <1>3, <1>4, <1>5 DEF Rest
  <2>2. step = todo[1] /\ Tail(todo) # todo /\ Len(Tail(todo)) = l - 1
    BY <1>1, <1>2, <1>4, Tails DEF step
  <2>3. CASE todo' = todo
    <3>1. i \in 1..(n - l) BY <1>4, <1>5, <2>3
    <3> QED BY <2>1, <2>2, <3>1
  <2>4. CASE todo' = Tail(todo)
    <3>1. i \in 1..(n - (l - 1)) BY <1>5, <2>2, <2>4
    <3> QED BY <2>1, <2>2, <2>4, <3>1
  <2> QED BY <1>1, <2>3, <2>4
<1>9. 1..n = 1..Len(all) /\ InstallOK BY <1>5
<1> HIDE DEF all, here
<1>10. PICK s \in InstallSteps(kind) : s = Install(kind)[i]
  <2>1. i \in 1..Len(all) BY <1>6, <1>9
  <2> QED BY <1>3, <2>1 DEF all
<1>11. kind' = kind /\ (Settled(s)' => Settled(Install(kind)[i])') BY <1>10 DEF FileStep, Settled
<1>7. CASE i = here
  <2>1. todo' # todo BY <1>6, <1>7
  <2>2. step.op \in {"move", "link"} => dir'[step.to] = step.id /\ step.id \in Own
    BY <1>2, <1>6, <1>9, <2>1, Passed, InstallPlaces DEF all
  <2>3. step.op = "move" => dir'[step.name] # step.id
    BY <1>2, <2>1, <2>2, Passed
  <2>4. s = step BY <1>6, <1>7, <1>10 DEF all
  <2>5. Settled(s)' BY <2>2, <2>3, <2>4 DEF Settled
  <2> QED BY <1>11, <2>5
<1>8. CASE i < here
  <2>1. i \in 1..(here - 1) /\ i \in 1..(n - l) BY <1>4, <1>5, <1>6, <1>8 DEF here
  <2>2. Settled(s) BY <1>2, <1>4, <1>5, <1>10, <2>1 DEF InstallOK, all
  <2>3. s \in InstallSteps(kind) BY <1>10
  <2>4. ASSUME s.op = "move", dir'[s.name] = s.id PROVE FALSE
    <3>1. s.id \in Own /\ s.name \in Named /\ s.name \in Entry
      BY <1>2, <1>6, <1>9, <1>10, <2>3, <2>4, InstallPlaces DEF InstallSteps, Fitting, Movers, Entry, all
    <3>2. dir'[s.name] # dir[s.name] BY <2>2, <2>4 DEF Settled
    <3>3. Shifts(s.name) \/ Joins(s.name)
      <4>1. s.name # Commit BY <3>1, Places
      <4>2. Shifts(s.name) \/ Returns(s.name) \/ Joins(s.name)
        BY <3>1, <3>2, <4>1, Changes
      <4> QED BY <4>2 DEF Returns
    <3>4. s.name = step.to /\ dir[step.name] = s.id /\ step.op \in {"move", "link", "settle"}
      BY <2>4, <3>1, <3>3, Apart DEF Shifts, Joins
    <3>5. step \in InstallSteps(kind) /\ step.name \in Entry
      BY <1>1, StepSort, HeadFields DEF Inv
    <3>6. step.op \in {"move", "link"} BY <3>4, <3>5 DEF InstallSteps
    <3>7. s.id \notin May(kind, step.name)
      BY <1>2, <1>6, <1>9, <1>10, <2>1, <2>4, <3>4, <3>6, InstallOrder DEF all
    <3> QED BY <3>4, <3>5, <3>7 DEF NamesOK, Filling
  <2>5. ASSUME used = {}, s.op \in {"move", "link"}, dir'[s.to] # s.id PROVE FALSE
    <3>1. s.id \in Own /\ s.to \in Named /\ s.to \in Entry
      BY <1>2, <1>6, <1>9, <1>10, <2>3, <2>5, InstallPlaces DEF InstallSteps, Fitting, Movers, Entry, all
    <3>2. dir[s.to] = s.id BY <2>2, <2>5 DEF Settled
    <3>3. Shifts(s.to) \/ Joins(s.to)
      <4>1. s.to # Commit BY <3>1, Places
      <4>2. Shifts(s.to) \/ Returns(s.to) \/ Joins(s.to)
        BY <2>5, <3>1, <3>2, <4>1, Changes
      <4> QED BY <4>2 DEF Returns
    <3>4. s.to = step.name /\ step.op \in {"move", "settle"}
      BY <3>1, <3>2, <3>3, Apart DEF Shifts, Joins
    <3>5. step \in InstallSteps(kind) BY <1>1, StepSort
    <3>6. step.op = "move" BY <3>4, <3>5 DEF InstallSteps
    <3> QED BY <1>2, <1>6, <1>9, <1>10, <2>1, <2>5, <3>4, <3>6, InstallOrder DEF all
  <2>6. Settled(s)' BY <1>1, <2>4, <2>5 DEF Settled
  <2> QED BY <1>11, <2>6
<1> QED BY <1>6, <1>7, <1>8

(* What a mutation takes away and what it brings, entry by entry.          *)
LEMMA Differences ==
  /\ Entries(Before("fresh") \ After("fresh")) = {}
  /\ Entries(After("delete") \ Before("delete")) = {}
  /\ \A k \in {"replace", "delete"} :
       Entries(Before(k) \ After(k)) = {<<N("public", D), Old(D)>>, <<N("public", M), Old(M)>>}
  /\ \A k \in {"fresh", "replace"} :
       Entries(After(k) \ Before(k)) = {<<N("public", D), New(D)>>, <<N("public", M), New(M)>>}
  /\ Entries(Before("rename") \ After("rename")) = {<<N("source", D), Old(D)>>, <<N("source", M), Old(M)>>}
  /\ Entries(After("rename") \ Before("rename")) = {<<N("target", D), Old(D)>>, <<N("target", M), New(M)>>}
<1>1. /\ \A p, q \in {D, M} : Old(p) # New(q) /\ Old(p) # None /\ New(p) # None
      /\ \A p, q \in {D, M} : N("source", p) # N("target", q)
  BY Places, Names, Apart
<1> QED BY <1>1, Pairing DEF Entries

(* None of it is private, and a name has one file in a pair.               *)
LEMMA Public ==
  ASSUME NEW k \in Kind
  PROVE  /\ \A p \in Entries(Before(k) \ After(k)) \union Entries(After(k) \ Before(k)) :
              p[1] \in Named \ Private /\ p[1] \in Entry /\ p[2] \in Own
         /\ \A p \in Entries(Before(k) \ After(k)) : p \notin After(k) /\ p = <<p[1], p[2]>>
         /\ \A p \in Entries(After(k) \ Before(k)) : p \notin Before(k) /\ p = <<p[1], p[2]>>
         /\ \A p \in Entries(After(k) \ Before(k)) : \A i : <<p[1], i>> \in After(k) => i = p[2]
<1>1. /\ \A p \in {D, M} : Old(p) \in Own /\ New(p) \in Own
      /\ \A place \in {"public", "source", "target"}, p \in {D, M} :
           N(place, p) \in Named \ Private /\ N(place, p) \in Entry
      /\ \A p \in {D, M} : N("target", p)[1] = "target" /\ N("source", p)[1] = "source"
      /\ \A place \in {"public", "source", "target"} : N(place, D) # N(place, M)
  BY Places, Names
<1> DEFINE Fine(p) == p[1] \in Named \ Private /\ p[1] \in Entry /\ p[2] \in Own /\ p = <<p[1], p[2]>>
<1>2. \A place \in {"public", "source", "target"}, q \in {D, M} :
        Fine(<<N(place, q), Old(q)>>) /\ Fine(<<N(place, q), New(q)>>)
  BY <1>1
<1> HIDE DEF Fine
<1>3. CASE k \in {"fresh", "replace"}
  <2>1. \A p \in Entries(Before(k) \ After(k)) \union Entries(After(k) \ Before(k)) : Fine(p)
    BY <1>2, <1>3, Differences
  <2>2. \A p \in Entries(After(k) \ Before(k)) : \A i : <<p[1], i>> \in After(k) => i = p[2]
    <3>1. N("public", D) # N("public", M) BY <1>1
    <3>2. After(k) = {<<N("public", D), New(D)>>, <<N("public", M), New(M)>>} BY <1>3, Pairing
    <3>3. Entries(After(k) \ Before(k)) = {<<N("public", D), New(D)>>, <<N("public", M), New(M)>>}
      BY <1>3, Differences
    <3> QED BY <3>1, <3>2, <3>3
  <2> QED BY <2>1, <2>2 DEF Entries, Fine
<1>4. CASE k = "delete"
  <2>1. \A p \in Entries(Before(k) \ After(k)) \union Entries(After(k) \ Before(k)) : Fine(p)
    BY <1>2, <1>4, Differences
  <2> QED BY <1>4, <2>1, Differences DEF Entries, Fine
<1>5. CASE k = "rename"
  <2>1. \A p \in Entries(Before(k) \ After(k)) \union Entries(After(k) \ Before(k)) : Fine(p)
    BY <1>2, <1>5, Differences
  <2>2. \A p \in Entries(After(k) \ Before(k)) : \A i : <<p[1], i>> \in After(k) => i = p[2]
    BY <1>1, <1>5, Differences, Pairing
  <2> QED BY <2>1, <2>2 DEF Entries, Fine
<1> QED BY <1>3, <1>4, <1>5 DEF Kind

(* A committed mutation has moved everything it replaces out of the way.   *)
LEMMA Displaced ==
  \A k \in Kind : \A p \in Entries(Before(k) \ After(k)) :
    \E i \in 1..(Len(Install(k)) - 1) :
      Install(k)[i].op = "move" /\ Install(k)[i].name = p[1] /\ Install(k)[i].id = p[2]
<1>1. ASSUME NEW k \in {"replace", "delete"}, NEW p \in Entries(Before(k) \ After(k))
      PROVE  \E i \in 1..(Len(Install(k)) - 1) :
               Install(k)[i].op = "move" /\ Install(k)[i].name = p[1] /\ Install(k)[i].id = p[2]
  <2>1. /\ Len(Install(k)) \in {3, 8}
        /\ Install(k)[1] = Move(N("public", D), N("backup", D), Old(D))
        /\ Install(k)[2] = Move(N("public", M), N("backup", M), Old(M))
    BY DEF Install
  <2>2. 1 \in 1..(Len(Install(k)) - 1) /\ 2 \in 1..(Len(Install(k)) - 1) BY <2>1
  <2>3. p = <<N("public", D), Old(D)>> \/ p = <<N("public", M), Old(M)>> BY Differences
  <2> QED BY <2>1, <2>2, <2>3, MoveShapes
<1>2. ASSUME NEW p \in Entries(Before("rename") \ After("rename"))
      PROVE  \E i \in 1..(Len(Install("rename")) - 1) :
               /\ Install("rename")[i].op = "move" /\ Install("rename")[i].name = p[1]
               /\ Install("rename")[i].id = p[2]
  <2>1. /\ Len(Install("rename")) = 9
        /\ Install("rename")[4] = Move(N("source", D), N("target", D), Old(D))
        /\ Install("rename")[5] = Move(N("source", M), N("backup", M), Old(M))
    BY DEF Install, InstallRename
  <2>2. 4 \in 1..(Len(Install("rename")) - 1) /\ 5 \in 1..(Len(Install("rename")) - 1)
    <3>1. Len(Install("rename")) = 9 BY <2>1
    <3>2. \A n : n = 9 => 4 \in 1..(n - 1) /\ 5 \in 1..(n - 1) OBVIOUS
    <3> QED BY <3>1, <3>2, Zenon
  <2>3. p = <<N("source", D), Old(D)>> \/ p = <<N("source", M), Old(M)>> BY Differences
  <2> QED BY <2>1, <2>2, <2>3, MoveShapes
<1>3. \A p \in Entries(Before("fresh") \ After("fresh")) : FALSE BY Differences
<1> SUFFICES ASSUME NEW k \in Kind, NEW p \in Entries(Before(k) \ After(k))
             PROVE  \E i \in 1..(Len(Install(k)) - 1) :
                      Install(k)[i].op = "move" /\ Install(k)[i].name = p[1] /\ Install(k)[i].id = p[2]
  OBVIOUS
<1>4. CASE k = "fresh" BY <1>3, <1>4
<1>5. CASE k \in {"replace", "delete"} BY <1>1, <1>5
<1>6. CASE k = "rename" BY <1>2, <1>6
<1> QED BY <1>4, <1>5, <1>6 DEF Kind

-----------------------------------------------------------------------------
(* A step of the installation is one of its script.                        *)
LEMMA InstallStep ==
  ASSUME Inv, ScriptsOK, todo # << >>, phase = "installing"
  PROVE  \E i \in 1..Len(Install(kind)) : step = Install(kind)[i] /\ i = Len(Install(kind)) - Len(todo) + 1
<1>1. Rest(todo, Install(kind)) BY DEF ScriptsOK
<1>2. kind \in Kind /\ todo \in Seq(Step) BY KindType DEF Inv, DirectoryInv, ScriptOK
<1>3. Install(kind) \in Seq(InstallSteps(kind)) BY <1>2, InstallFits
<1>4. PICK l \in Nat \ {0} : l = Len(todo) /\ step = todo[1] BY <1>2, Tails DEF step
<1>5. PICK n \in Nat : n = Len(Install(kind)) BY <1>3
<1>6. l <= n /\ todo[1] = Install(kind)[n - l + 1] BY <1>1, <1>4, <1>5 DEF Rest
<1>7. n - l + 1 \in 1..n BY <1>6
<1> QED BY <1>4, <1>5, <1>6, <1>7

(* When a mutation commits, what it replaces has been moved.               *)
LEMMA CommitMoved ==
  ASSUME Inv, ScriptsOK, NamesOK, PhaseOK, JournalOK, InstallOK, FileStep, committed' # committed
  PROVE  /\ kind # "delete" /\ todo' = << >>
         /\ \A n \in Entry : n # Commit => dir'[n] = dir[n]
         /\ \A i \in 1..(Len(Install(kind)) - 1) : Settled(Install(kind)[i])
<1>1. phase = "installing" /\ step.op = "write" /\ dir'[Commit] # None BY CommitWritten
<1>2. todo # << >> BY Ends DEF FileStep, ProgramAct
<1>3. kind \in Kind /\ ok BY <1>1, <1>2, KindType, StepSort
<1>4. PICK i \in 1..Len(Install(kind)) :
        step = Install(kind)[i] /\ i = Len(Install(kind)) - Len(todo) + 1
  BY <1>1, <1>2, InstallStep
<1>5. i = Len(Install(kind)) /\ kind # "delete" BY <1>1, <1>3, <1>4, InstallLast
<1>6. Len(todo) = 1 /\ todo \in Seq(Step)
  <2>1. todo \in Seq(Step) BY DEF Inv, DirectoryInv, ScriptOK
  <2>2. PICK l \in Nat : l = Len(todo) BY <2>1
  <2>3. Install(kind) \in Seq(InstallSteps(kind)) BY <1>3, InstallFits
  <2>4. PICK n \in Nat : n = Len(Install(kind)) BY <2>3
  <2> QED BY <1>4, <1>5, <2>1, <2>2, <2>4
<1>7. todo' = << >>
  <2>1. todo' # todo BY <1>1, WritesOnce DEF FileStep, ProgramAct
  <2>2. Tail(todo) = << >> BY <1>2, <1>6, Tails
  <2> QED BY <2>1, <2>2, Ends DEF FileStep, ProgramAct, Pass
<1>8. \A n \in Entry : n # Commit => dir'[n] = dir[n]
  BY <1>1, Changes DEF Shifts, Returns, Joins
<1>9. \A j \in 1..(Len(Install(kind)) - 1) : Settled(Install(kind)[j])
  BY <1>1, <1>3, <1>6 DEF InstallOK
<1> QED BY <1>5, <1>7, <1>8, <1>9

(* What a mutation replaces is not seen again once it has committed, ...    *)
LEMMA FileOldStale ==
  ASSUME Inv, ScriptsOK, NamesOK, JournalOK, PhaseOK, InstallOK, OldStale, FileStep PROVE OldStale'
<1>1. /\ todo # << >> /\ UNCHANGED <<kind, phase>> /\ kind \in Kind /\ Marker \in Entry
  BY Ends, KindType, Names DEF FileStep, ProgramAct
<1> SUFFICES ASSUME committed', kind # "delete" \/ dir'[Marker] = None \/ phase = "untombing",
                    NEW p \in Entries(Before(kind) \ After(kind)), dir'[p[1]] = p[2]
             PROVE  FALSE
  BY <1>1 DEF OldStale, OldGone
<1>2. p[1] \in Entry /\ p[1] \in Named \ Private /\ p[2] \in Own /\ p \notin After(kind) /\ p = <<p[1], p[2]>>
  BY <1>1, Public
<1>3. p[1] # Marker /\ p[1] # Commit /\ p[2] # None BY <1>2, Places
<1>4. CASE ~committed
  <2>1. dir'[p[1]] = dir[p[1]] BY <1>2, <1>3, <1>4, CommitMoved
  <2>2. PICK i \in 1..(Len(Install(kind)) - 1) :
          Install(kind)[i].op = "move" /\ Install(kind)[i].name = p[1] /\ Install(kind)[i].id = p[2]
    BY <1>1, Displaced
  <2>3. Settled(Install(kind)[i]) BY <1>4, CommitMoved
  <2> QED BY <2>1, <2>2, <2>3 DEF Settled
<1>5. CASE committed
  <2>1. phase \in {"discarding", "finishing", "emptying", "untombing"} \union PublishPhases
    BY <1>1, <1>5, StepSort DEF Phase, PublishPhases, Retiring, RollbackPhases, PhaseOK
  <2>2. phase \notin {"finishing", "emptying"}
    BY MarkerKept DEF PhaseOK, JournalOK, MarkerThere, PublishPhases, Retiring, RollbackPhases
  <2>3. dir'[p[1]] = dir[p[1]]
    <3> SUFFICES ASSUME dir'[p[1]] # dir[p[1]] PROVE FALSE OBVIOUS
    <3>1. p[1] \notin Journal BY <1>2, Places
    <3>2. CASE phase = "discarding" BY <1>2, <3>2, Changes
    <3>3. CASE phase = "untombing" BY <1>2, <1>3, <3>3, Changes
    <3>4. CASE phase \in PublishPhases
      <4>1. <<p[1], dir'[p[1]]>> \in Entries(After(kind)) BY <1>2, <1>3, <3>1, <3>4, Changes
      <4>2. p \in After(kind) BY <1>2, <4>1 DEF Entries
      <4> QED BY <1>2, <4>2
    <3> QED BY <2>1, <2>2, <3>2, <3>3, <3>4
  <2>4. kind # "delete" \/ dir[Marker] = None \/ phase = "untombing"
    BY <1>1, <2>1, <2>2, Changes, Places DEF Inv, ControlOK
  <2> QED BY <1>5, <2>3, <2>4 DEF OldStale, OldGone
<1> QED BY <1>4, <1>5 DEF Inv, ControlOK

(* ... nor from a deletion that has passed the second look at the public    *)
(* names, ...                                                              *)
LEMMA FileTrashStale ==
  ASSUME Inv, ScriptsOK, NamesOK, PhaseOK, TrashStale, FileStep PROVE TrashStale'
<1>1. /\ todo # << >> /\ UNCHANGED <<kind, phase>> /\ kind \in Kind
      /\ ProgramAct /\ DirectoryInv /\ Found /\ todo \in Seq(Step)
  BY Ends, KindType DEF FileStep, ProgramAct, Inv, NamesOK, DirectoryInv, ScriptOK
<1> SUFFICES ASSUME phase = "emptying", ok', NEW p \in Before(kind), dir'[p[1]] = p[2]
             PROVE  \E j \in 1..Len(todo') : todo'[j].op = "gone" /\ todo'[j].name = p[1] /\ todo'[j].id = p[2]
  BY <1>1 DEF TrashStale, Pending
<1>2. kind = "delete" /\ ok /\ (todo' = todo \/ todo' = Tail(todo))
  BY <1>1, Ends DEF PhaseOK, Pass
<1>3. p[1] \in Entry /\ p[1] \notin Private /\ p[1][1] = "public" /\ p[2] \in Own /\ p[2] # None
  BY <1>2, Pairing, Places, Names
<1>4. step \in FinishSteps(kind) BY <1>1, StepSort
<1>5. dir[p[1]] = p[2]
  <2> SUFFICES ASSUME dir'[p[1]] # dir[p[1]] PROVE FALSE OBVIOUS
  <2>1. Effect(p[1]) BY <1>1, <1>3, Effects
  <2>2. Shifts(p[1])
    BY <1>3, <1>4, <2>1 DEF Effect, FinishSteps, DropsPrivate, Fills, Fillers, Yields, Returns,
          Joins, Leaves, ComesBack, Reverts
  <2> QED BY <1>3, <1>4, <2>2 DEF Shifts, FinishSteps, DropsPrivate
<1>6. PICK j \in 1..Len(todo) : todo[j].op = "gone" /\ todo[j].name = p[1] /\ todo[j].id = p[2]
  BY <1>2, <1>5 DEF TrashStale, Pending
<1>7. CASE todo' = todo BY <1>6, <1>7
<1>8. CASE todo' = Tail(todo)
  <2>1. Tail(todo) # todo /\ step = todo[1] BY <1>1, Tails DEF step
  <2>2. j # 1
    <3> SUFFICES ASSUME j = 1 PROVE FALSE OBVIOUS
    <3>1. step.op = "gone" /\ step.name = p[1] /\ step.id = p[2] BY <1>6, <2>1
    <3>2. dir'[step.name] # step.id BY <1>1, <1>3, <1>8, <2>1, <3>1, Passed
    <3> QED BY <3>1, <3>2
  <2>3. j - 1 \in 1..Len(Tail(todo)) /\ Tail(todo)[j - 1] = todo[j] BY <1>1, <2>2, Tails
  <2> QED BY <1>6, <1>8, <2>3
<1> QED BY <1>2, <1>7, <1>8

(* ... and what it brings is not seen before.                              *)
LEMMA FileNewStale ==
  ASSUME Inv, ScriptsOK, NamesOK, JournalOK, PhaseOK, NewStale, FileStep PROVE NewStale'
<1>1. /\ todo # << >> /\ UNCHANGED <<kind, phase>> /\ kind \in Kind /\ Marker \in Entry
      /\ committed => committed'
  BY Ends, KindType, Names DEF FileStep, ProgramAct
<1> SUFFICES ASSUME ~committed', dir'[Marker] = None \/ phase \in Retiring,
                    NEW p \in Entries(After(kind) \ Before(kind)), dir'[p[1]] = p[2]
             PROVE  FALSE
  BY <1>1 DEF NewStale, NewAbsent
<1>2. p[1] \in Entry /\ p[1] \in Named \ Private /\ p[2] \in Own /\ p \notin Before(kind) /\ p = <<p[1], p[2]>>
      /\ \A i : <<p[1], i>> \in After(kind) => i = p[2]
  BY <1>1, Public
<1>3. p[1] # Marker /\ p[1] # Commit /\ p[2] # None BY <1>2, Places
<1>4. ~committed BY <1>1
<1>5. phase \in {"staging", "installing", "discarding", "rolling"} \union Retiring
  BY <1>1, <1>4, StepSort DEF Phase, PublishPhases, Retiring, RollbackPhases, PhaseOK
<1>6. "rolling" \notin Retiring /\ "staging" \notin Retiring /\ "installing" \notin Retiring
      /\ "discarding" \notin Retiring
  BY DEF Retiring, RollbackPhases
<1>7. dir[Marker] = None \/ phase \in Retiring
  <2>1. phase \notin Retiring => phase \notin PublishPhases \union Retiring \union {"untombing"}
    BY <1>5, <1>6 DEF PublishPhases
  <2> QED BY <2>1, MarkerKept
<1>8. dir[p[1]] # p[2] BY <1>4, <1>7 DEF NewStale, NewAbsent
<1>9. CASE phase = "staging" BY <1>2, <1>3, <1>8, <1>9, Changes
<1>10. CASE phase = "discarding" BY <1>2, <1>8, <1>10, Changes
<1>11. CASE phase = "installing" BY <1>6, <1>7, <1>11 DEF JournalOK, MarkerThere
<1>12. CASE phase \in Retiring
  BY <1>2, <1>3, <1>8, <1>12, Changes
<1>13. CASE phase = "rolling"
  <2>1. kind = "rename" BY <1>6, <1>7, <1>13 DEF JournalOK, MarkerThere
  <2>2. step.op = "reclaim" /\ (Fills(p[1]) \/ Reverts(p[1]))
    <3>1. ~(step.op = "retract" /\ <<p[1], step.id>> \in Entries(After(kind)) /\ dir'[p[1]] # step.id)
      BY <1>2 DEF Entries
    <3> QED BY <1>2, <1>8, <1>13, <2>1, <3>1, Changes
  <2>3. step \in RollSteps(kind) BY <1>1, <1>13, StepSort
  <2>4. <<step.name, step.id>> \in Before(kind) BY <2>2, <2>3 DEF RollSteps, DropsPrivate
  <2>5. p[1] # step.name
    <3>1. step.name \in {N("source", D), N("source", M)} BY <2>1, <2>4, Pairing
    <3>2. p \in {<<N("target", D), Old(D)>>, <<N("target", M), New(M)>>} BY <2>1, Differences, Zenon
    <3>3. p[1] \in {N("target", D), N("target", M)} BY <3>2
    <3> QED BY <3>1, <3>3, Places
  <2> QED BY <1>3, <2>2, <2>5 DEF Fills, Reverts
<1> QED BY <1>5, <1>9, <1>10, <1>11, <1>12, <1>13

(* A rename moves its data file to the target.                             *)
LEMMA InstallMoves ==
  \A i \in 1..Len(Install("rename")) :
    Install("rename")[i].op = "move" /\ Install("rename")[i].name = N("source", D) =>
      Install("rename")[i].to = N("target", D)
<1>1. N("source", D) # N("source", M) BY Places
<1> QED BY <1>1, MoveShapes, LookShapes, FillShapes DEF Install, InstallRename, Log

(* The data file of a rename is never under both names.                    *)
LEMMA FileOnePlace ==
  ASSUME Inv, ScriptsOK, NamesOK, PhaseOK, StaleOK, FileStep PROVE OnePlace'
<1>1. todo # << >> /\ UNCHANGED <<kind, phase>> BY Ends DEF FileStep, ProgramAct
<1> DEFINE from == N("source", D)
           to == N("target", D)
<1> SUFFICES ASSUME kind = "rename", dir'[from] = Old(D), dir'[to] = Old(D) PROVE FALSE
  BY <1>1 DEF OnePlace
<1>2. /\ from \in Entry /\ to \in Entry /\ from # to /\ from \notin Private /\ to \notin Private
      /\ from # Marker /\ to # Marker /\ from # Commit /\ to # Commit /\ Old(D) # None
      /\ from \notin Journal /\ to \notin Journal
  BY Places, Names
<1>3. dir[from] # Old(D) \/ dir[to] # Old(D) BY DEF StaleOK, OnePlace
<1>4. /\ <<from, Old(D)>> \notin Entries(After(kind)) /\ <<to, Old(D)>> \notin Before(kind)
      /\ <<from, Old(D)>> \in Entries(Before(kind) \ After(kind))
      /\ <<to, Old(D)>> \in Entries(After(kind) \ Before(kind))
  BY <1>2, Pairing, Differences, Places DEF Entries
<1> HIDE DEF from, to
<1>5. CASE phase \in {"staging", "discarding"} BY <1>2, <1>3, <1>5, Changes
<1>6. CASE phase \in PublishPhases
  <2>1. committed BY <1>6 DEF PhaseOK
  <2>2. dir[from] # Old(D) BY <1>4, <2>1 DEF StaleOK, OldStale, OldGone
  <2> QED BY <1>2, <1>4, <1>6, <2>2, Changes
<1>7. CASE phase \in Retiring
  <2>1. ~committed BY <1>7 DEF PhaseOK, Retiring
  <2>2. dir[to] # Old(D) BY <1>4, <1>7, <2>1 DEF StaleOK, NewStale, NewAbsent
  <2> QED BY <1>2, <1>4, <1>7, <2>2, Changes
<1>8. CASE phase = "rolling"
  <2>1. step \in RollSteps(kind) BY <1>1, <1>8, StepSort
  <2>2. \A n \in {from, to} : dir'[n] # dir[n] => step.op = "reclaim" /\ (Fills(n) \/ Reverts(n))
    <3> SUFFICES ASSUME NEW n \in {from, to}, dir'[n] # dir[n]
                 PROVE  step.op = "reclaim" /\ (Fills(n) \/ Reverts(n))
      OBVIOUS
    <3>1. \/ step.op = "retract" /\ <<n, step.id>> \in Entries(After(kind)) /\ dir'[n] # step.id
          \/ step.op = "reclaim" /\ (Fills(n) \/ Reverts(n))
      BY <1>2, <1>8, Changes
    <3>2. ASSUME <<n, step.id>> \in Entries(After(kind)), dir'[n] # step.id PROVE FALSE
      <4>1. n = from => step.id = None
        BY <3>2, Pairing, Places DEF Entries, from
      <4>2. n = to => step.id = Old(D) BY <3>2, Pairing, Places DEF Entries, to
      <4> QED BY <3>2, <4>1, <4>2 DEF Entries
    <3> QED BY <3>1, <3>2
  <2>3. step.op = "reclaim" BY <1>3, <2>2
  <2>4. /\ <<step.name, step.id>> \in Before(kind)
        /\ \/ step.name = from /\ step.to = to
           \/ step.name # from /\ step.to \in Private
    BY <2>1, <2>3 DEF RollSteps, DropsPrivate, from, to
  <2>5. step.name # to BY <2>4, Pairing, Places DEF to
  <2>6. step.name = from => step.id = Old(D) BY <2>4, Pairing, Places DEF from
  <2>7. dir'[from] # dir[from] => dir'[step.to] = None \/ dir[step.to] # step.id
    BY <2>2, <2>3, <2>4 DEF Fills, Reverts
  <2>8. dir'[to] = dir[to]
    <3> SUFFICES ASSUME dir'[to] # dir[to] PROVE FALSE OBVIOUS
    <3>1. Reverts(to) BY <2>2, <2>5 DEF Fills
    <3> QED BY <1>2, <2>5, <3>1 DEF Reverts
  <2>9. dir'[from] # dir[from] BY <1>3, <2>8
  <2>10. step.name = from /\ step.to = to
    <3>1. Fills(from) \/ Reverts(from) BY <2>2, <2>9
    <3> QED BY <1>2, <2>4, <3>1 DEF Fills, Reverts
  <2> QED BY <1>2, <2>6, <2>7, <2>8, <2>9, <2>10
<1>9. CASE phase = "installing"
  <2>1. step \in InstallSteps(kind) BY <1>1, <1>9, StepSort
  <2>2. \A n \in {from, to} : dir'[n] # dir[n] => Shifts(n) \/ Returns(n) \/ Joins(n)
    BY <1>2, <1>9, Changes
  <2>3. step.op \in {"move", "link"} BY <1>3, <2>1, <2>2 DEF Shifts, Returns, Joins, InstallSteps
  <2>4. PICK i \in 1..Len(Install(kind)) : step = Install(kind)[i] BY <1>1, <1>9, InstallStep
  <2>5. (step.op = "move" => step.name[1] = "source") /\ step.to[1] # "source"
    BY <2>3, <2>4, InstallPlaces DEF Kind
  <2>6. from[1] = "source" /\ to[1] = "target" BY Places DEF from, to
  <2>7. step.op = "link" => step.to # to BY <2>1 DEF InstallSteps, to
  <2>8. step.op = "move" /\ step.to = to => step.name = from BY <2>1 DEF InstallSteps, from, to
  <2>9. dir'[to] = dir[to]
    <3> SUFFICES ASSUME dir'[to] # dir[to] PROVE FALSE OBVIOUS
    <3>1. CASE Shifts(to)
      BY <1>2, <2>3, <2>5, <2>6, <2>8, <3>1 DEF Shifts
    <3>2. CASE Returns(to)
      BY <1>2, <2>3, <2>5, <2>6, <3>2 DEF Returns
    <3>3. CASE Joins(to) BY <2>7, <3>3 DEF Joins
    <3> QED BY <2>2, <3>1, <3>2, <3>3
  <2>10. Returns(from)
    <3>1. dir'[from] # dir[from] BY <1>3, <2>9
    <3>2. ~Shifts(from) BY <1>2, <2>5, <2>6 DEF Shifts
    <3>3. ~Joins(from) BY <2>5, <2>6 DEF Joins
    <3> QED BY <2>2, <3>1, <3>2, <3>3
  <2>11. step.op = "move" /\ step.name = from
    BY <2>3, <2>5, <2>6, <2>10 DEF Returns
  <2>12. step.to = to
    BY <2>4, <2>11, InstallMoves DEF from, to
  <2> QED BY <1>2, <2>10, <2>11, <2>12 DEF Returns
<1>10. kind = "rename" => phase \notin {"finishing", "emptying", "untombing"} BY DEF PhaseOK
<1>11. phase \in Phase \ {"idle", "down"} BY <1>1, StepSort
<1> QED BY <1>5, <1>6, <1>7, <1>8, <1>9, <1>10, <1>11 DEF Phase, PublishPhases, Retiring, RollbackPhases

(* A rollback that has not failed so far has undone the publication, or     *)
(* still has to.                                                           *)
LEMMA FileUndoing ==
  ASSUME Inv, ScriptsOK, NamesOK, PhaseOK, StaleOK, FileStep PROVE Undoing'
<1>1. /\ todo # << >> /\ UNCHANGED <<kind, phase>> /\ kind \in Kind
      /\ ProgramAct /\ DirectoryInv /\ Found /\ todo \in Seq(Step)
  BY Ends, KindType DEF FileStep, ProgramAct, Inv, NamesOK, DirectoryInv, ScriptOK
<1> DEFINE Undoes(s, p) == \/ s.op = "retract" /\ s.name = p[1] /\ s.id = p[2]
                           \/ s.op = "reclaim" /\ s.to = p[1] /\ s.id = p[2]
<1> SUFFICES ASSUME phase = "rolling", ok',
                    NEW p \in Entries(After(kind) \ Before(kind)), dir'[p[1]] = p[2]
             PROVE  \E j \in 1..Len(todo') : Undoes(todo'[j], p)
  BY <1>1 DEF Undoing, ToUndo, Pending
<1>2. ok /\ (todo' = todo \/ todo' = Tail(todo)) BY <1>1, Ends DEF Pass
<1>3. p[1] \in Entry /\ p[1] \in Named \ Private /\ p[2] \in Own /\ p \notin Before(kind) /\ p = <<p[1], p[2]>>
      /\ \A i : <<p[1], i>> \in After(kind) => i = p[2]
  BY <1>1, Public
<1>4. p[2] # None BY <1>3, Places
<1>5. step \in RollSteps(kind) BY <1>1, StepSort
<1>6. step.op = "reclaim" =>
        /\ kind = "rename" /\ step.name # p[1]
        /\ step.to = p[1] => step.name = N("source", D) /\ step.to = N("target", D)
  <2> SUFFICES ASSUME step.op = "reclaim"
               PROVE  /\ kind = "rename" /\ step.name # p[1]
                      /\ step.to = p[1] => step.name = N("source", D) /\ step.to = N("target", D)
    OBVIOUS
  <2>1. kind = "rename" /\ <<step.name, step.id>> \in Before(kind) BY <1>5 DEF RollSteps, DropsPrivate
  <2>2. step.name \in {N("source", D), N("source", M)} BY <2>1, Pairing
  <2>3. p \in {<<N("target", D), Old(D)>>, <<N("target", M), New(M)>>} BY <2>1, Differences, Zenon
  <2>4. p[1] \in {N("target", D), N("target", M)} BY <2>3
  <2>5. step.name # p[1] BY <2>2, <2>4, Places
  <2> QED BY <1>3, <1>5, <2>1, <2>5 DEF RollSteps, DropsPrivate
<1>7. dir[p[1]] = p[2]
  <2> SUFFICES ASSUME dir'[p[1]] # dir[p[1]] PROVE FALSE OBVIOUS
  <2>1. ~(step.op = "retract" /\ <<p[1], step.id>> \in Entries(After(kind)) /\ dir'[p[1]] # step.id)
    BY <1>3 DEF Entries
  <2>2. <<p[1], dir'[p[1]]>> \notin Before(kind) BY <1>3
  <2>3. step.op = "reclaim" /\ (Fills(p[1]) \/ Reverts(p[1]))
    BY <1>3, <2>1, <2>2, Changes
  <2> QED BY <1>4, <1>6, <2>3 DEF Fills, Reverts
<1>8. PICK j \in 1..Len(todo) : Undoes(todo[j], p)
  <2>1. ToUndo(p) BY <1>2, <1>7 DEF StaleOK, Undoing
  <2> QED BY <2>1 DEF ToUndo, Pending
<1>9. CASE todo' = todo BY <1>8, <1>9
<1>10. CASE todo' = Tail(todo)
  <2>1. Tail(todo) # todo /\ step = todo[1] BY <1>1, Tails DEF step
  <2>2. j # 1
    <3> SUFFICES ASSUME j = 1 PROVE FALSE OBVIOUS
    <3>1. Undoes(step, p) BY <1>8, <2>1
    <3>2. CASE step.op = "retract"
      <4>1. dir'[step.name] # step.id BY <1>1, <1>4, <1>10, <2>1, <3>1, <3>2, Passed
      <4> QED BY <3>1, <3>2, <4>1
    <3>3. CASE step.op = "reclaim"
      <4>1. step.to = p[1] /\ step.id = p[2] BY <3>1, <3>3
      <4>2. dir'[step.name] = step.id BY <1>1, <1>10, <2>1, <3>3, Passed
      <4>3. kind = "rename" /\ step.name = N("source", D) /\ p[1] = N("target", D)
        BY <1>6, <3>3, <4>1
      <4>4. p[2] = Old(D)
        <5>1. <<N("target", D), Old(D)>> \in After(kind) BY <4>3, Pairing
        <5> QED BY <1>3, <4>3, <5>1
      <4>5. OnePlace' BY FileOnePlace
      <4> QED BY <1>1, <4>1, <4>2, <4>3, <4>4, <4>5 DEF OnePlace
    <3> QED BY <3>1, <3>2, <3>3
  <2>3. j - 1 \in 1..Len(Tail(todo)) /\ Tail(todo)[j - 1] = todo[j] BY <1>1, <2>2, Tails
  <2> QED BY <1>8, <1>10, <2>3
<1> QED BY <1>2, <1>9, <1>10

(* Every file of the committed pair arrives before the commit file.        *)
LEMMA Arrived ==
  \A k \in Kind \ {"delete"} : \A p \in Entries(After(k)) :
    \E i \in 1..(Len(Install(k)) - 1) :
      Install(k)[i].op \in {"move", "link"} /\ Install(k)[i].to = p[1] /\ Install(k)[i].id = p[2]
<1> DEFINE Arrives(k, p) ==
      \E i \in 1..(Len(Install(k)) - 1) :
        Install(k)[i].op \in {"move", "link"} /\ Install(k)[i].to = p[1] /\ Install(k)[i].id = p[2]
<1>1. Arrives("fresh", <<N("public", D), New(D)>>) /\ Arrives("fresh", <<N("public", M), New(M)>>)
  <2>1. /\ Len(Install("fresh")) = 6
        /\ Install("fresh")[2] = Move(N("temp", D), N("public", D), New(D))
        /\ Install("fresh")[4] = Move(N("temp", M), N("public", M), New(M))
    BY DEF Install
  <2>2. 2 \in 1..(Len(Install("fresh")) - 1) /\ 4 \in 1..(Len(Install("fresh")) - 1) BY <2>1
  <2> QED BY <2>1, <2>2, MoveShapes
<1>2. Arrives("replace", <<N("public", D), New(D)>>) /\ Arrives("replace", <<N("public", M), New(M)>>)
  <2>1. /\ Len(Install("replace")) = 8
        /\ Install("replace")[3] = Link(N("temp", D), N("public", D), New(D))
        /\ Install("replace")[5] = Link(N("temp", M), N("public", M), New(M))
    BY DEF Install
  <2>2. 3 \in 1..(Len(Install("replace")) - 1) /\ 5 \in 1..(Len(Install("replace")) - 1)
    <3>1. Len(Install("replace")) = 8 BY <2>1
    <3>2. 3 \in 1..(8 - 1) /\ 5 \in 1..(8 - 1) OBVIOUS
    <3> QED BY <3>1, <3>2, Zenon
  <2> QED BY <2>1, <2>2, MoveShapes
<1>3. Arrives("rename", <<N("target", D), Old(D)>>) /\ Arrives("rename", <<N("target", M), New(M)>>)
  <2>1. /\ Len(Install("rename")) = 9
        /\ Install("rename")[4] = Move(N("source", D), N("target", D), Old(D))
        /\ Install("rename")[6] = Link(N("temp", M), N("target", M), New(M))
    BY DEF Install, InstallRename
  <2>2. 4 \in 1..(Len(Install("rename")) - 1) /\ 6 \in 1..(Len(Install("rename")) - 1)
    <3>1. Len(Install("rename")) = 9 BY <2>1
    <3>2. \A n : n = 9 => 4 \in 1..(n - 1) /\ 6 \in 1..(n - 1) OBVIOUS
    <3> QED BY <3>1, <3>2, Zenon
  <2> QED BY <2>1, <2>2, MoveShapes
<1> HIDE DEF Arrives
<1>4. \A k \in Kind \ {"delete"} : \A p \in Entries(After(k)) : Arrives(k, p)
  BY <1>1, <1>2, <1>3, Pairing DEF Kind, Entries
<1> QED BY <1>4 DEF Arrives

(* Left alone, the item is then the one after ...                          *)
LEMMA FileAfter ==
  ASSUME Inv, ScriptsOK, NamesOK, JournalOK, PhaseOK, InstallOK, OutcomeOK, FileStep,
         used = {}, committed', kind # "delete"
  PROVE  \A p \in After(kind) : dir'[p[1]] = p[2]
<1>1. /\ todo # << >> /\ UNCHANGED <<kind, phase>> /\ kind \in Kind \ {"delete"}
      /\ Marker \in Entry /\ Commit \in Entry
  BY Ends, KindType, Names DEF FileStep, ProgramAct
<1> SUFFICES ASSUME NEW p \in After(kind) PROVE dir'[p[1]] = p[2] OBVIOUS
<1>2. /\ p[1] \in Entry /\ p[1] \in Named \ Private /\ p = <<p[1], p[2]>>
      /\ \A i : <<p[1], i>> \in Entries(After(kind)) => i = p[2]
  <2>1. CASE kind \in {"fresh", "replace"}
    <3>1. p \in {<<N("public", D), New(D)>>, <<N("public", M), New(M)>>} BY <2>1, Pairing
    <3>2. N("public", D) # N("public", M) BY Places
    <3>3. \A i : <<p[1], i>> \in After(kind) => i = p[2] BY <2>1, <3>1, <3>2, Pairing
    <3> QED BY <3>1, <3>3, Places, Names DEF Entries
  <2>2. CASE kind = "rename"
    <3>1. p \in {<<N("target", D), Old(D)>>, <<N("target", M), New(M)>>,
                 <<N("source", D), None>>, <<N("source", M), None>>}
      BY <2>2, Pairing
    <3>2. /\ N("target", D) # N("target", M) /\ N("source", D) # N("source", M)
          /\ \A q, r \in {D, M} : N("source", q) # N("target", r)
      BY Places
    <3>3. \A i : <<p[1], i>> \in After(kind) => i = p[2] BY <2>2, <3>1, <3>2, Pairing
    <3> QED BY <3>1, <3>3, Places, Names DEF Entries
  <2> QED BY <1>1, <2>1, <2>2 DEF Kind
<1>3. p[1] # Marker /\ p[1] # Commit /\ p[1] \notin Journal BY <1>2, Places
<1>4. CASE committed
  <2>1. phase \in {"discarding"} \union PublishPhases
    BY <1>1, <1>4, StepSort DEF Phase, PublishPhases, Retiring, RollbackPhases, PhaseOK
  <2>2. dir[p[1]] = p[2] BY <1>1, <1>4 DEF OutcomeOK, Holds
  <2>3. CASE phase = "discarding" BY <1>2, <2>2, <2>3, Changes
  <2>4. CASE phase \in PublishPhases BY <1>2, <1>3, <2>2, <2>4, Changes
  <2> QED BY <2>1, <2>3, <2>4
<1>5. CASE ~committed
  <2>1. dir'[p[1]] = dir[p[1]] BY <1>2, <1>3, <1>5, CommitMoved
  <2>2. \A i \in 1..(Len(Install(kind)) - 1) : Settled(Install(kind)[i]) BY <1>5, CommitMoved
  <2>3. CASE p[2] # None
    <3>1. p \in Entries(After(kind)) BY <2>3 DEF Entries
    <3>2. PICK i \in 1..(Len(Install(kind)) - 1) :
            Install(kind)[i].op \in {"move", "link"} /\ Install(kind)[i].to = p[1] /\ Install(kind)[i].id = p[2]
      BY <1>1, <3>1, Arrived
    <3> QED BY <2>1, <2>2, <3>2 DEF Settled
  <2>4. CASE p[2] = None
    <3>1. \A q \in {D, M} : New(q) # None /\ Old(q) # None BY Names, Places
    <3>2. kind = "rename"
      <4>1. kind \in {"fresh", "replace"} => FALSE BY <2>4, <3>1, Pairing
      <4> QED BY <1>1, <4>1 DEF Kind
    <3>3. PICK q \in {D, M} : p[1] = N("source", q) BY <2>4, <3>1, <3>2, Pairing
    <3>4. <<p[1], Old(q)>> \in Entries(Before(kind) \ After(kind)) BY <3>2, <3>3, Differences
    <3>5. dir[p[1]] # Old(q)
      <4>1. PICK i \in 1..(Len(Install(kind)) - 1) :
              Install(kind)[i].op = "move" /\ Install(kind)[i].name = p[1] /\ Install(kind)[i].id = Old(q)
        BY <1>1, <3>4, Displaced
      <4> QED BY <2>2, <4>1 DEF Settled
    <3>6. dir[p[1]] \in {None, Old(q)} \union Foreign
      BY <1>2, <3>2, <3>3, MayHold DEF NamesOK, Filling
    <3>7. dir[p[1]] \notin Foreign BY <1>2, Apart DEF NamesOK, Alone
    <3> QED BY <2>1, <2>4, <3>5, <3>6, <3>7
  <2> QED BY <2>3, <2>4
<1> QED BY <1>4, <1>5 DEF Inv, ControlOK

(* ... or the one before.                                                  *)
LEMMA FileBefore ==
  ASSUME Inv, ScriptsOK, NamesOK, JournalOK, PhaseOK, StaleOK, OutcomeOK, FileStep,
         used = {}, ~committed', dir'[Marker] = None
  PROVE  \A p \in Before(kind) : dir'[p[1]] = p[2]
<1>1. /\ todo # << >> /\ UNCHANGED <<kind, phase>> /\ kind \in Kind
      /\ Marker \in Entry /\ Commit \in Entry /\ ~committed
  BY Ends, KindType, Names DEF FileStep, ProgramAct
<1>2. phase \in {"staging", "installing", "discarding", "rolling"} \union Retiring
  BY <1>1, StepSort DEF Phase, PublishPhases, Retiring, RollbackPhases, PhaseOK
<1>3. "rolling" \notin Retiring /\ "staging" \notin Retiring /\ "installing" \notin Retiring
      /\ "discarding" \notin Retiring
  BY DEF Retiring, RollbackPhases
<1> SUFFICES ASSUME NEW p \in Before(kind) PROVE dir'[p[1]] = p[2] OBVIOUS
<1>4. /\ p[1] \in Entry /\ p[1] \in Named \ Private /\ p = <<p[1], p[2]>>
      /\ kind # "fresh" => p[2] # None
  <2>1. \E place \in {"public", "source"}, q \in {D, M} :
          p = <<N(place, q), None>> \/ p = <<N(place, q), Old(q)>>
    BY <1>1, Pairing DEF Kind
  <2>2. kind # "fresh" => \E place \in {"public", "source"}, q \in {D, M} : p = <<N(place, q), Old(q)>>
    BY <1>1, Pairing DEF Kind
  <2>3. \A q \in {D, M} : Old(q) # None BY Names, Places
  <2> QED BY <2>1, <2>2, <2>3, Places, Names
<1>5. p[1] # Marker /\ p[1] # Commit BY <1>4, Places
<1>6. CASE dir[Marker] = None
  <2>1. Holds(Before(kind)) BY <1>1, <1>6 DEF OutcomeOK
  <2>2. dir[p[1]] = p[2] BY <2>1 DEF Holds
  <2>3. CASE phase = "staging" BY <1>4, <1>5, <2>2, <2>3, Changes
  <2>4. CASE phase = "discarding" BY <1>4, <2>2, <2>4, Changes
  <2>5. CASE phase = "installing" BY <1>6, <2>5 DEF JournalOK, MarkerThere
  <2>6. CASE phase \in Retiring
    <3>1. kind = "rename" => p[2] # None BY <1>4
    <3> QED BY <1>4, <1>5, <2>2, <2>6, <3>1, Changes
  <2>7. CASE phase = "rolling"
    <3>1. kind = "rename" BY <1>6, <2>7 DEF JournalOK, MarkerThere
    <3> SUFFICES ASSUME dir'[p[1]] # dir[p[1]] PROVE FALSE BY <2>2
    <3>2. <<p[1], step.id>> \notin Entries(After(kind))
      <4>1. p[1] \in {N("source", D), N("source", M)} BY <3>1, Pairing
      <4>2. \A q, r \in {D, M} : N("source", q) # N("target", r) BY Places
      <4> QED BY <3>1, <4>1, <4>2, Pairing DEF Entries
    <3>3. step.op = "reclaim" /\ (Fills(p[1]) \/ Reverts(p[1]))
      BY <1>4, <2>7, <3>1, <3>2, Changes
    <3>4. step \in RollSteps(kind) BY <1>1, <2>7, StepSort
    <3>5. <<step.name, step.id>> \in Before(kind) /\ step.id # None
      BY <3>3, <3>4 DEF RollSteps, DropsPrivate, Fitting, Fillers
    <3>6. dir[step.name] = step.id BY <2>1, <3>5 DEF Holds
    <3> QED BY <3>3, <3>5, <3>6 DEF Fills, Reverts
  <2> QED BY <1>2, <2>3, <2>4, <2>5, <2>6, <2>7
<1>7. CASE dir[Marker] # None
  <2>1. phase \in Retiring BY <1>2, <1>3, <1>7, MarkerKept DEF PublishPhases
  <2>2. Marker \notin Private /\ <<Marker, None>> \notin Before(kind)
    BY <1>1, Pairing, Places DEF Kind
  <2>3. At({"drop"}, "act") /\ (kind = "fresh" \/ (step.guarded /\ step.pair = Before(kind)))
    BY <1>1, <1>7, <2>1, <2>2, Changes
  <2>4. CASE kind = "fresh"
    <3>1. PICK q \in {D, M} : p = <<N("public", q), None>> BY <2>4, Pairing
    <3>2. <<N("public", q), New(q)>> \in Entries(After(kind) \ Before(kind)) BY <2>4, Differences
    <3>3. dir[N("public", q)] # New(q) BY <1>1, <2>1, <3>2 DEF StaleOK, NewStale, NewAbsent
    <3>4. dir[p[1]] \in {None, New(q)} \union Foreign
      BY <1>4, <2>4, <3>1, MayHold DEF NamesOK, Filling
    <3>5. dir[p[1]] \notin Foreign BY <1>4, Apart DEF NamesOK, Alone
    <3>6. dir[p[1]] = p[2] BY <3>1, <3>3, <3>4, <3>5
    <3> QED BY <1>4, <1>5, <2>1, <2>4, <3>6, Changes
  <2>5. CASE kind # "fresh"
    <3>1. Holds(Before(kind)) BY <2>3, <2>5 DEF NamesOK, PairSeen
    <3>2. dir[p[1]] = p[2] /\ p[2] # None BY <1>4, <2>5, <3>1 DEF Holds
    <3> QED BY <1>4, <1>5, <2>1, <3>2, Changes
  <2> QED BY <2>4, <2>5
<1> QED BY <1>6, <1>7

(* A file operation keeps the whole invariant.                             *)
LEMMA FileOutcome == ASSUME Inv, OutcomeInv, FileStep PROVE OutcomeInv'
<1>1. kind' = kind /\ used' = used
  BY DEF FileStep, RunStep, FailCall, FailTwice, LookAtSource, LookAtLeftover, RenameEntry,
      ConfirmRename, LinkEntry, ConfirmLink, LookAtVictim, LookAtOwn, Quarantine, Discard, WriteFile, Sync,
      Check, CheckNoForeign, CheckGone, LookAtTarget, RenameBack, ConfirmReclaim, RestoreEntry,
      RelinkEntry, AdoptScrap, RetainCopy, PreserveJournal, CloseHandle, ConfirmClose, UnlinkCopy, UnlinkEntry, PurgeScrap
<1>2. ScriptsOK' /\ NamesOK' /\ JournalOK' /\ PhaseOK' /\ InstallOK'
  BY FileScripts, FileNames, FileJournal, FilePhase, FileInstall DEF OutcomeInv
<1>3. StaleOK'
  BY FileOldStale, FileTrashStale, FileNewStale, FileUndoing, FileOnePlace DEF OutcomeInv, StaleOK
<1>4. OutcomeOK'
  BY <1>1, FileAfter, FileBefore DEF OutcomeInv, OutcomeOK, Holds
<1> QED BY <1>2, <1>3, <1>4 DEF OutcomeInv

-----------------------------------------------------------------------------
(***************************************************************************)
(* A new part of the mutation keeps the invariant.                         *)
(***************************************************************************)

(* The marker goes first in a script.                                      *)
Ordered(script) ==
  \A j \in 1..Len(script) : Drops(script[j], Commit) => \E i \in 1..(j - 1) : Drops(script[i], Marker)

Harmless == {s \in Step : ~Drops(s, Commit)}

(* The elements of a concatenation.                                        *)
LEMMA Joined ==
  ASSUME NEW S, NEW a \in Seq(S), NEW b \in Seq(S)
  PROVE  /\ a \o b \in Seq(S) /\ Len(a \o b) = Len(a) + Len(b)
         /\ \A j \in 1..Len(a) : (a \o b)[j] = a[j]
         /\ \A j \in 1..Len(b) : (a \o b)[Len(a) + j] = b[j]
OBVIOUS

(* The same for a second part of four steps.                                *)
LEMMA FourMore ==
  ASSUME NEW S, NEW a \in Seq(S), NEW b \in Seq(S), NEW n \in Nat, n = Len(a) /\ Len(b) = 4
  PROVE  /\ Len(a \o b) = n + 4
         /\ \A j \in 1..n : (a \o b)[j] = a[j]
         /\ \A j \in 1..4 : (a \o b)[n + j] = b[j]
BY Joined

(* A script that leaves the commit file alone is ordered, ...              *)
LEMMA HarmlessOrdered == \A script \in Seq(Harmless) : Ordered(script)
BY DEF Harmless, Ordered

(* ... and so is one that then retires the journal.                        *)
LEMMA RetireOrdered ==
  ASSUME NEW script \in Seq(Harmless), NEW k \in Kind PROVE Ordered(script \o Retire(k))
<1> DEFINE all == script \o Retire(k)
<1>1. PICK n \in Nat : n = Len(script) OBVIOUS
<1>2. Len(Retire(k)) = 4 BY DEF Retire
<1>3. /\ Retire(k)[1] = DropIf(After(k), Marker, Marker) /\ Retire(k)[2] = DropIf(After(k), Commit, Commit)
      /\ Retire(k)[3] = Assert(After(k)) /\ Retire(k)[4] = Flush
  BY DEF Retire
<1>4. Drops(Retire(k)[1], Marker) /\ \A j \in 1..4 : Drops(Retire(k)[j], Commit) => j = 2
  BY <1>3, DropShapes, LookShapes, Places DEF Drops
<1>5. Retire(k) \in Seq(Step)
  <2>1. /\ DropIf(After(k), Marker, Marker) \in Step /\ DropIf(After(k), Commit, Commit) \in Step
        /\ Assert(After(k)) \in Step /\ Flush \in Step
    BY PairSteps, PairTypes, Names, FlushType
  <2> QED BY <2>1 DEF Retire
<1>6. script \in Seq(Step) BY DEF Harmless
<1>7. /\ Len(all) = n + 4
      /\ \A j \in 1..n : all[j] = script[j]
      /\ \A j \in 1..4 : all[n + j] = Retire(k)[j]
  <2>1. n = Len(script) /\ Len(Retire(k)) = 4 BY <1>1, <1>2
  <2> QED BY <1>5, <1>6, <2>1, FourMore
<1> HIDE DEF all
<1>8. SUFFICES ASSUME NEW j \in 1..(n + 4), Drops(all[j], Commit)
               PROVE  \E i \in 1..(j - 1) : Drops(all[i], Marker)
  BY <1>7 DEF Ordered, all
<1>9. ~(j <= n)
  <2> SUFFICES ASSUME j <= n PROVE FALSE OBVIOUS
  <2>1. j \in 1..Len(script) BY <1>1
  <2>2. script[j] \in Harmless BY <2>1
  <2>3. all[j] = script[j] BY <1>1, <1>7, <2>1
  <2> QED BY <1>8, <2>2, <2>3 DEF Harmless
<1>10. PICK i \in 1..4 : j = n + i
  <2>1. j - n \in 1..4 /\ j = n + (j - n) BY <1>9
  <2> QED BY <2>1
<1>11. all[j] = Retire(k)[i] BY <1>7, <1>10
<1>12. i = 2 BY <1>4, <1>8, <1>11
<1>13. n + 1 \in 1..(j - 1) /\ 1 \in 1..4 BY <1>10, <1>12
<1>14. all[n + 1] = Retire(k)[1] BY <1>7, <1>13
<1> QED BY <1>4, <1>13, <1>14

(* The cleanup retires the journal in that order.                          *)
LEMMA CleanupOrdered == \A k \in Kind \ {"delete"} : Ordered(Cleanup(k))
<1>1. \A s \in Step : s.op # "drop" \/ s.name \in Private => s \in Harmless
  BY Places DEF Harmless, Drops
<1>2. ASSUME NEW pair \in Pairs, NEW n \in Private, NEW i \in Own
      PROVE  DropIf(pair, n, i) \in Harmless /\ Guarded(pair, n, i) \in Harmless
  <2>1. n \in Entry BY Places DEF Entry
  <2>2. DropIf(pair, n, i) \in Step /\ Guarded(pair, n, i) \in Step BY <2>1, PairSteps
  <2> QED BY <1>1, <2>2, DropShapes
<1>3. ASSUME NEW n \in Entry, NEW cs \in SUBSET Entry, NEW i \in Own PROVE Relink(n, cs, i) \in Harmless
  BY <1>1, CopySteps, FillShapes, Names
<1>4. ASSUME NEW pair \in Pairs PROVE Assert(pair) \in Harmless /\ Adopt(pair) \in Harmless
  BY <1>1, PairSteps, LookShapes, Names
<1>5. ASSUME NEW k \in {"fresh", "replace"} PROVE Ordered(Cleanup(k))
  <2>1. k \in Kind /\ After(k) \in Pairs BY PairTypes DEF Kind
  <2>2. /\ Relink(N("public", D), {N("temp", D), N("guard", D)}, New(D)) \in Harmless
        /\ Relink(N("public", M), {N("temp", M), N("guard", M)}, New(M)) \in Harmless
    BY <1>3, Names
  <2>3. Assert(After(k)) \in Harmless /\ Adopt(After(k)) \in Harmless BY <1>4, <2>1
  <2>4. /\ DropIf(After(k), N("backup", D), Old(D)) \in Harmless
        /\ Guarded(After(k), N("backup", M), Old(M)) \in Harmless
        /\ Guarded(After(k), N("temp", M), New(M)) \in Harmless
        /\ Guarded(After(k), N("guard", M), New(M)) \in Harmless
        /\ Guarded(After(k), N("temp", D), New(D)) \in Harmless
        /\ Guarded(After(k), N("guard", D), New(D)) \in Harmless
    BY <1>2, <2>1, Names, Places
  <2> DEFINE one == << Relink(N("public", D), {N("temp", D), N("guard", D)}, New(D)),
                       Relink(N("public", M), {N("temp", M), N("guard", M)}, New(M)),
                       Assert(After(k)) >>
             two == IF k = "fresh" THEN << >>
                      ELSE << DropIf(After(k), N("backup", D), Old(D)),
                              Guarded(After(k), N("backup", M), Old(M)) >>
             three == << Guarded(After(k), N("temp", M), New(M)), Adopt(After(k)),
                         Guarded(After(k), N("guard", M), New(M)),
                         Guarded(After(k), N("temp", D), New(D)), Guarded(After(k), N("guard", D), New(D)) >>
  <2>5. one \in Seq(Harmless) /\ two \in Seq(Harmless) /\ three \in Seq(Harmless)
    BY <2>2, <2>3, <2>4
  <2>6. Cleanup(k) = one \o two \o three \o Retire(k) BY DEF Cleanup
  <2> HIDE DEF one, two, three
  <2>7. one \o two \o three \in Seq(Harmless) BY <2>5
  <2> QED BY <2>1, <2>6, <2>7, RetireOrdered
<1>6. Ordered(Cleanup("rename"))
  <2> DEFINE after == After("rename")
  <2>1. "rename" \in Kind /\ after \in Pairs BY PairTypes DEF Kind
  <2>2. /\ Relink(N("target", D), {N("backup", D), N("guard", D)}, Old(D)) \in Harmless
        /\ Relink(N("target", M), {N("temp", M), N("guard", M)}, New(M)) \in Harmless
    BY <1>3, Names
  <2>3. Assert(after) \in Harmless /\ Adopt(after) \in Harmless BY <1>4, <2>1
  <2>4. /\ Guarded(after, N("backup", M), Old(M)) \in Harmless
        /\ Guarded(after, N("temp", M), New(M)) \in Harmless
        /\ Guarded(after, N("spare", M), Old(M)) \in Harmless
        /\ DropIf(after, N("backup", D), Old(D)) \in Harmless
        /\ Guarded(after, N("guard", M), New(M)) \in Harmless
        /\ Guarded(after, N("guard", D), Old(D)) \in Harmless
    BY <1>2, <2>1, Names, Places
  <2> DEFINE one ==
        << Relink(N("target", D), {N("backup", D), N("guard", D)}, Old(D)),
           Relink(N("target", M), {N("temp", M), N("guard", M)}, New(M)),
           Assert(after),
           Guarded(after, N("backup", M), Old(M)), Guarded(after, N("temp", M), New(M)),
           Guarded(after, N("spare", M), Old(M)), DropIf(after, N("backup", D), Old(D)),
           Adopt(after),
           Guarded(after, N("guard", M), New(M)), Guarded(after, N("guard", D), Old(D)) >>
  <2>5. one \in Seq(Harmless) BY <2>2, <2>3, <2>4
  <2>6. Cleanup("rename") = one \o Retire("rename") BY DEF Cleanup, CleanupRename
  <2> HIDE DEF one
  <2> QED BY <2>1, <2>5, <2>6, RetireOrdered
<1> QED BY <1>5, <1>6 DEF Kind

(* The other scripts of a committed pair leave the commit file alone.      *)
LEMMA HealNewOrdered == \A k \in Kind \ {"delete"} : Ordered(HealNew(k))
<1> SUFFICES ASSUME NEW k \in Kind \ {"delete"} PROVE HealNew(k) \in Seq(Harmless) BY HarmlessOrdered
<1>1. \A n \in Entry, i \in Own : Heal(n, i) \in Harmless
  BY PlainSteps, FillShapes, Names DEF Harmless, Drops
<1> QED BY <1>1, Names DEF HealNew, Kind

(* Keeping the copies of the committed pair drops nothing, ...             *)
LEMMA KeepNewHarmless == \A k \in Kind \ {"delete"} : KeepNew(k) \in Seq(Harmless) /\ KeepCommit \in Seq(Harmless)
<1> SUFFICES ASSUME NEW k \in Kind \ {"delete"}
             PROVE  KeepNew(k) \in Seq(Harmless) /\ KeepCommit \in Seq(Harmless)
  OBVIOUS
<1>1. \A n \in Entry, i \in Own : Retain(n, i) \in Harmless
  BY PlainSteps, FillShapes, Names DEF Harmless, Drops
<1>2. Leniently(Preserve(Commit, {})) \in Harmless
  <2>1. Preserve(Commit, {}) \in Step BY JournalSteps, Names DEF Pairs
  <2> QED BY <2>1, LenientShape, FillShapes DEF Harmless, Drops
<1> QED BY <1>1, <1>2, Names DEF KeepNew, KeepCommit, Kind

(* ... and so does closing them.                                           *)
LEMMA CloseOrdered == \A k \in Kind \ {"delete"} : Ordered(<< Close(After(k)) >>)
<1> SUFFICES ASSUME NEW k \in Kind \ {"delete"} PROVE << Close(After(k)) >> \in Seq(Harmless) BY HarmlessOrdered
<1>1. Close(After(k)) \in Harmless BY PairTypes, PairSteps, Names, LookShapes DEF Harmless, Drops
<1> QED BY <1>1

(* The staging writes the marker, ...                                      *)
LEMMA StagingMarks == \A k \in Kind : \E j \in 1..Len(Staging(k)) : Staging(k)[j].name = Marker
<1>1. Log(Marker).name = Marker BY FillShapes DEF Log
<1>2. ASSUME NEW k \in {"fresh", "replace"} PROVE \E j \in 1..Len(Staging(k)) : Staging(k)[j].name = Marker
  <2>1. 3 \in 1..Len(Staging(k)) /\ Staging(k)[3] = Log(Marker) BY DEF Staging
  <2> QED BY <1>1, <2>1
<1>3. 2 \in 1..Len(Staging("rename")) /\ Staging("rename")[2] = Log(Marker) BY DEF Staging
<1>4. 1 \in 1..Len(Staging("delete")) /\ Staging("delete")[1] = Log(Marker) BY DEF Staging
<1> QED BY <1>1, <1>2, <1>3, <1>4 DEF Kind

(* ... a rollback undoes every publication, ...                            *)
LEMMA RollbackUndoes ==
  \A k \in Kind : \A p \in Entries(After(k) \ Before(k)) :
    \E j \in 1..Len(Rollback(k)) :
      \/ Rollback(k)[j].op = "retract" /\ Rollback(k)[j].name = p[1] /\ Rollback(k)[j].id = p[2]
      \/ Rollback(k)[j].op = "reclaim" /\ Rollback(k)[j].to = p[1] /\ Rollback(k)[j].id = p[2]
<1> DEFINE Undone(k, p) ==
      \E j \in 1..Len(Rollback(k)) :
        \/ Rollback(k)[j].op = "retract" /\ Rollback(k)[j].name = p[1] /\ Rollback(k)[j].id = p[2]
        \/ Rollback(k)[j].op = "reclaim" /\ Rollback(k)[j].to = p[1] /\ Rollback(k)[j].id = p[2]
<1>1. ASSUME NEW k \in {"fresh", "replace"}
      PROVE  Undone(k, <<N("public", D), New(D)>>) /\ Undone(k, <<N("public", M), New(M)>>)
  <2>1. /\ 1 \in 1..Len(Rollback(k)) /\ 2 \in 1..Len(Rollback(k))
        /\ Rollback(k)[1] = Leniently(Retract(N("public", D), New(D)))
        /\ Rollback(k)[2] = Leniently(Retract(N("public", M), New(M)))
    BY DEF Rollback
  <2>2. Retract(N("public", D), New(D)) \in Step /\ Retract(N("public", M), New(M)) \in Step
    BY PlainSteps, Names
  <2> QED BY <2>1, <2>2, LenientShape, DropShapes
<1>2. Undone("rename", <<N("target", D), Old(D)>>) /\ Undone("rename", <<N("target", M), New(M)>>)
  <2>1. /\ 1 \in 1..Len(Rollback("rename")) /\ 2 \in 1..Len(Rollback("rename"))
        /\ Rollback("rename")[1] =
             Leniently(Reclaim(N("source", D), N("target", D), {N("backup", D), N("guard", D)}, Old(D)))
        /\ Rollback("rename")[2] = Leniently(Retract(N("target", M), New(M)))
    BY DEF Rollback, RollbackRename
  <2>2. /\ Reclaim(N("source", D), N("target", D), {N("backup", D), N("guard", D)}, Old(D)) \in Step
        /\ Retract(N("target", M), New(M)) \in Step
    BY PlainSteps, CopySteps, Names
  <2> QED BY <2>1, <2>2, LenientShape, DropShapes, MoveShapes
<1> HIDE DEF Undone
<1>3. \A k \in Kind : \A p \in Entries(After(k) \ Before(k)) : Undone(k, p)
  <2> SUFFICES ASSUME NEW k \in Kind, NEW p \in Entries(After(k) \ Before(k)) PROVE Undone(k, p) OBVIOUS
  <2>1. CASE k \in {"fresh", "replace"} BY <1>1, <2>1, Differences
  <2>2. CASE k = "rename" BY <1>2, <2>2, Differences
  <2>3. CASE k = "delete" BY <2>3, Differences
  <2> QED BY <2>1, <2>2, <2>3 DEF Kind
<1> QED BY <1>3 DEF Undone

(* ... and a deletion looks for its files again.                           *)
LEMMA TrashLooks ==
  \A p \in Before("delete") :
    \E j \in 1..Len(EmptyTrash) : EmptyTrash[j].op = "gone" /\ EmptyTrash[j].name = p[1] /\ EmptyTrash[j].id = p[2]
<1>1. /\ 3 \in 1..Len(EmptyTrash) /\ 4 \in 1..Len(EmptyTrash)
      /\ EmptyTrash[3] = Leniently(Gone(N("public", D), Old(D)))
      /\ EmptyTrash[4] = Leniently(Gone(N("public", M), Old(M)))
  BY DEF EmptyTrash
<1>2. Gone(N("public", D), Old(D)) \in Step /\ Gone(N("public", M), Old(M)) \in Step BY PlainSteps, Names
<1> QED BY <1>1, <1>2, LenientShape, LookShapes, Pairing

(* The part of the mutation that may be taken up, with its script.         *)
Ready(ph, script) ==
  /\ ph \in {"idle", "down"} => script = << >>
  /\ ph = "staging" => script = Staging(kind) /\ ~committed
  /\ ph = "installing" => script = Install(kind) /\ ~committed /\ dir[Marker] # None
  /\ ph = "discarding" => script \in Seq(DiscardSteps(kind))
  /\ ph \in PublishPhases =>
       committed /\ kind # "delete" /\ script \in Seq(PublishSteps(kind)) /\ Ordered(script)
  /\ ph = "rolling" => script = Rollback(kind) /\ ~committed /\ (kind # "rename" => dir[Marker] # None)
  /\ ph \in Retiring =>
       /\ ~committed /\ NewAbsent /\ script \in Seq(RetireSteps(kind))
       /\ ph # "retiring" => kind # "fresh"
       /\ ph = "reviving" => kind = "rename"
  /\ ph \in {"finishing", "emptying"} =>
       kind = "delete" /\ dir[Marker] # None /\ script = IF ph = "finishing" THEN Finish ELSE EmptyTrash
  /\ ph = "untombing" => script = Untomb /\ kind = "delete" /\ OldGone

(* A deletion passes its point of no return as it is finished.             *)
Decides(ph) ==
  \/ committed' = committed /\ (ph \in {"finishing", "emptying", "untombing"} => committed)
  \/ committed' = TRUE /\ ph = "finishing"

Heard(ph) ==
  /\ reply' = "ok" => committed'
  /\ ph \in {"staging", "installing", "discarding"} => reply' = "none"
  /\ reply' = "none" /\ ph \in {"idle", "down"} => ~committed'

(* The parts of a mutation are told apart.                                 *)
LEMMA Phases ==
  /\ \A ph \in PublishPhases : ph \notin {"idle", "down", "staging", "installing", "discarding",
                                           "finishing", "emptying", "untombing"} \union RollbackPhases
  /\ Retiring \subseteq RollbackPhases /\ "rolling" \in RollbackPhases /\ "rolling" \notin Retiring
  /\ \A ph \in RollbackPhases : ph \notin {"idle", "down", "staging", "installing", "discarding",
                                           "finishing", "emptying", "untombing"}
  /\ \A ph \in RollbackPhases : ph = "rolling" \/ ph \in Retiring
BY DEF PublishPhases, RollbackPhases, Retiring

(* Taking up the next part of the mutation keeps the scripts ...           *)
LEMMA TakeScripts ==
  ASSUME Inv, OutcomeInv, NEW ph \in Phase, NEW script, Ready(ph, script), Become(ph, script),
         UNCHANGED <<dir, used, kind>>, Decides(ph), Heard(ph)
  PROVE  ScriptsOK' /\ InstallOK'
<1>1. phase' = ph /\ todo' = script /\ ok' = TRUE /\ kind' = kind BY DEF Become, Run
<1>2. kind \in Kind BY KindType
<1>3. ph = "staging" => script \in Seq(StagingSteps(kind)) BY <1>2, StagingFits DEF Ready
<1>4. ph = "installing" => script \in Seq(InstallSteps(kind)) /\ Rest(script, Install(kind))
  <2> SUFFICES ASSUME ph = "installing" PROVE script \in Seq(InstallSteps(kind)) /\ Rest(script, Install(kind))
    OBVIOUS
  <2>1. script = Install(kind) /\ script \in Seq(InstallSteps(kind)) BY <1>2, InstallFits DEF Ready
  <2>2. PICK n \in Nat : n = Len(script) BY <2>1
  <2>3. \A i \in 1..n : n - n + i = i OBVIOUS
  <2> QED BY <2>1, <2>2, <2>3 DEF Rest
<1>5. ph = "rolling" => script \in Seq(RollSteps(kind)) BY <1>2, RollbackFits DEF Ready
<1>6. ph \in {"finishing", "emptying"} => script \in Seq(FinishSteps(kind)) BY FinishFits DEF Ready
<1>7. ph = "untombing" => script \in Seq(UntombSteps(kind)) BY UntombFits DEF Ready
<1>8. ScriptsOK'
  BY <1>1, <1>3, <1>4, <1>5, <1>6, <1>7 DEF ScriptsOK, Ready
<1>9. InstallOK'
  <2> SUFFICES ASSUME ph = "installing" PROVE InstallOK' BY <1>1 DEF InstallOK
  <2>1. script = Install(kind) BY DEF Ready
  <2>2. PICK n \in Nat : n = Len(script) BY <1>4
  <2>3. \A i : i \notin 1..(n - n) OBVIOUS
  <2> QED BY <1>1, <2>1, <2>2, <2>3 DEF InstallOK
<1> QED BY <1>8, <1>9

(* ... the journal, ...                                                    *)
LEMMA TakeJournal ==
  ASSUME Inv, OutcomeInv, NEW ph \in Phase, NEW script, Ready(ph, script), Become(ph, script),
         UNCHANGED <<dir, used, kind>>, Decides(ph), Heard(ph)
  PROVE  NamesOK' /\ JournalOK' /\ PhaseOK' /\ OutcomeOK'
<1>1. phase' = ph /\ todo' = script /\ ok' = TRUE /\ stage' = "look" /\ kind' = kind /\ dir' = dir /\ used' = used
  BY DEF Become, Run
<1>2. kind \in Kind /\ committed' \in BOOLEAN /\ committed \in BOOLEAN
  BY KindType DEF Decides, Inv, ControlOK
<1>3. NamesOK'
  <2>1. Filling' /\ Alone' BY <1>1 DEF OutcomeInv, NamesOK, Filling, Alone
  <2>2. Found' BY <1>1 DEF Found
  <2>3. PairSeen' BY <1>1 DEF PairSeen, At
  <2> QED BY <2>1, <2>2, <2>3 DEF NamesOK
<1>4. JournalOK'
  <2>1. CommitDecides'
    <3>1. committed' # committed => kind = "delete" /\ committed' BY DEF Decides, Ready
    <3> QED BY <1>1, <1>2, <3>1 DEF OutcomeInv, JournalOK, CommitDecides
  <2>2. MarkerThere'
    <3>1. ph = "staging" => \E j \in 1..Len(script) : script[j].name = Marker
      BY <1>2, StagingMarks DEF Ready
    <3> QED BY <1>1, <3>1 DEF MarkerThere, Ready
  <2>3. ph \in PublishPhases => MarkerFirst'
    BY <1>1 DEF MarkerFirst, Ready, Ordered
  <2> QED BY <1>1, <2>1, <2>2, <2>3 DEF JournalOK
<1>5. PhaseOK'
  <2>1. ph = "installing" => script # << >>
    <3>1. \A k \in Kind : Install(k) # << >>
      BY DEF Install, InstallRename, Kind
    <3> QED BY <1>2, <3>1 DEF Ready
  <2>2. ph \in PublishPhases => committed' BY <1>2 DEF Ready, Decides
  <2>3. ph \in {"finishing", "emptying", "untombing"} => kind = "delete" /\ committed'
    BY <1>2 DEF Ready, Decides
  <2>4. ph \in RollbackPhases \union {"staging", "installing"} => ~committed'
    BY <1>2, Phases DEF Ready, Decides
  <2>5. /\ ph \in Retiring \ {"retiring"} => kind # "fresh"
        /\ ph = "reviving" => kind = "rename"
    BY Phases DEF Ready, Retiring, RollbackPhases
  <2>6. ph # "installing" \/ (script # << >> /\ ~committed') BY <2>1, <2>4
  <2> HIDE DEF Ready, Decides
  <2> QED BY <1>1, <2>2, <2>3, <2>4, <2>5, <2>6 DEF PhaseOK, Heard
<1>6. OutcomeOK'
  <2>1. committed' # committed => kind = "delete" /\ committed' BY DEF Decides, Ready
  <2> QED BY <1>1, <1>2, <2>1 DEF OutcomeInv, OutcomeOK, Holds
<1> QED BY <1>3, <1>4, <1>5, <1>6

(* ... and what is stale.                                                  *)
LEMMA TakeStale ==
  ASSUME Inv, OutcomeInv, NEW ph \in Phase, NEW script, Ready(ph, script), Become(ph, script),
         UNCHANGED <<dir, used, kind>>, Decides(ph), Heard(ph)
  PROVE  StaleOK'
<1>1. phase' = ph /\ todo' = script /\ ok' = TRUE /\ kind' = kind /\ dir' = dir
  BY DEF Become, Run
<1>2. kind \in Kind /\ committed' \in BOOLEAN /\ committed \in BOOLEAN
  BY KindType DEF Decides, Inv, ControlOK
<1>3. OldGone' = OldGone /\ NewAbsent' = NewAbsent BY <1>1 DEF OldGone, NewAbsent
<1>4. committed' # committed => committed' /\ kind = "delete" /\ dir[Marker] # None /\ ph = "finishing"
  BY DEF Decides, Ready
<1>5. OldStale'
  <2> SUFFICES ASSUME committed', kind # "delete" \/ dir[Marker] = None \/ ph = "untombing" PROVE OldGone
    BY <1>1, <1>3 DEF OldStale
  <2>1. CASE ph = "untombing" BY <2>1 DEF Ready
  <2>2. CASE ph # "untombing"
    <3>1. committed BY <1>2, <1>4, <2>2
    <3> QED BY <2>2, <3>1 DEF OutcomeInv, StaleOK, OldStale
  <2> QED BY <2>1, <2>2
<1>6. TrashStale'
  <2> SUFFICES ASSUME ph = "emptying" PROVE TrashStale' BY <1>1 DEF TrashStale
  <2>1. kind = "delete" /\ script = EmptyTrash BY DEF Ready
  <2> QED BY <1>1, <2>1, TrashLooks DEF TrashStale, Pending
<1>7. NewStale'
  <2> SUFFICES ASSUME ~committed', dir[Marker] = None \/ ph \in Retiring PROVE NewAbsent
    BY <1>1, <1>3 DEF NewStale
  <2>1. ~committed BY <1>2, <1>4
  <2>2. CASE dir[Marker] = None BY <2>1, <2>2 DEF OutcomeInv, StaleOK, NewStale
  <2>3. CASE ph \in Retiring BY <2>3 DEF Ready
  <2> QED BY <2>2, <2>3
<1>8. Undoing'
  <2> SUFFICES ASSUME ph = "rolling" PROVE Undoing' BY <1>1 DEF Undoing
  <2>1. script = Rollback(kind) BY DEF Ready
  <2>2. \A p \in Entries(After(kind) \ Before(kind)) : ToUndo(p)'
    BY <1>1, <1>2, <2>1, RollbackUndoes DEF ToUndo, Pending
  <2> QED BY <1>1, <2>2 DEF Undoing
<1>9. OnePlace' BY <1>1 DEF OutcomeInv, StaleOK, OnePlace
<1> QED BY <1>5, <1>6, <1>7, <1>8, <1>9 DEF StaleOK

(* Taking up the next part of the mutation keeps the invariant.            *)
LEMMA TakeUp ==
  ASSUME Inv, OutcomeInv, NEW ph \in Phase, NEW script, Ready(ph, script), Become(ph, script),
         UNCHANGED <<dir, used, kind>>, Decides(ph), Heard(ph)
  PROVE  OutcomeInv'
BY TakeScripts, TakeJournal, TakeStale DEF OutcomeInv

-----------------------------------------------------------------------------
(* The parts of a publication, one after the other.                        *)
LEMMA BeginOutcome == ASSUME Inv, OutcomeInv, Begin PROVE OutcomeInv'
<1>1. phase = "idle" /\ reply = "none" /\ ~committed BY DEF Begin, OutcomeInv, PhaseOK
<1>2. CASE Accepted
  <2>1. Become("staging", Staging(kind)) /\ UNCHANGED <<dir, used, kind, reply, committed>>
    BY <1>2 DEF Begin
  <2>2. Ready("staging", Staging(kind)) BY <1>1, Phases DEF Ready
  <2>3. Decides("staging") /\ Heard("staging") BY <1>1, <2>1 DEF Decides, Heard
  <2>4. "staging" \in Phase BY DEF Phase
  <2> QED BY <2>1, <2>2, <2>3, <2>4, TakeUp
<1>3. CASE ~Accepted
  <2>1. /\ reply' = "error" /\ UNCHANGED <<dir, todo, stage, moved, ok, handles, faults, used>>
        /\ UNCHANGED <<kind, phase, complete, crashes, committed>>
    BY <1>3 DEF Begin
  <2>2. ScriptsOK' /\ InstallOK'
    BY <2>1 DEF OutcomeInv, ScriptsOK, InstallOK, Settled
  <2>3. NamesOK'
    BY <2>1 DEF OutcomeInv, NamesOK, Filling, Alone, Found, PairSeen, At, step, Holds
  <2>4. JournalOK'
    BY <2>1 DEF OutcomeInv, JournalOK, CommitDecides, MarkerThere, MarkerFirst
  <2>5. PhaseOK'
    BY <1>1, <2>1 DEF OutcomeInv, PhaseOK, RollbackPhases, PublishPhases, Retiring
  <2>6. StaleOK'
    BY <2>1 DEF OutcomeInv, StaleOK, OldStale, TrashStale, NewStale, Undoing, OnePlace, OldGone,
                NewAbsent, Pending, ToUndo
  <2>7. OutcomeOK' BY <2>1 DEF OutcomeInv, OutcomeOK, Holds
  <2> QED BY <2>2, <2>3, <2>4, <2>5, <2>6, <2>7 DEF OutcomeInv
<1> QED BY <1>2, <1>3

(* What is left to discard fits every mutation.                            *)
LEMMA DiscardReady ==
  \A k \in Kind : Leftovers(k) \in Seq(DiscardSteps(k)) /\ << >> \in Seq(DiscardSteps(k))
BY LeftoversFits

(* The private files are written, or not.                                  *)
LEMMA StagedOutcome == ASSUME Inv, OutcomeInv, Staged PROVE OutcomeInv'
<1>1. /\ phase = "staging" /\ todo = << >> /\ UNCHANGED <<dir, used, kind, reply, committed>>
      /\ reply = "none" /\ ~committed /\ kind \in Kind
  BY KindType DEF Staged, Done, OutcomeInv, PhaseOK
<1>2. CASE ok
  <2>1. Become("installing", Install(kind)) BY <1>2 DEF Staged
  <2>2. dir[Marker] # None BY <1>1, <1>2 DEF OutcomeInv, JournalOK, MarkerThere
  <2>3. Ready("installing", Install(kind)) BY <1>1, <2>2, Phases DEF Ready
  <2>4. Decides("installing") /\ Heard("installing") BY <1>1 DEF Decides, Heard
  <2>5. "installing" \in Phase BY DEF Phase
  <2> QED BY <1>1, <2>1, <2>3, <2>4, <2>5, TakeUp
<1>3. CASE ~ok
  <2>1. Become("discarding", Leftovers(kind)) BY <1>3 DEF Staged
  <2>2. Ready("discarding", Leftovers(kind)) BY <1>1, DiscardReady, Phases DEF Ready
  <2>3. Decides("discarding") /\ Heard("discarding") BY <1>1 DEF Decides, Heard
  <2>4. "discarding" \in Phase BY DEF Phase
  <2> QED BY <1>1, <2>1, <2>2, <2>3, <2>4, TakeUp
<1> QED BY <1>2, <1>3

(* A script for a committed pair may be taken up.                          *)
LEMMA TakeCommitted ==
  ASSUME Inv, OutcomeInv, committed, kind # "delete", NEW ph \in PublishPhases,
         NEW script \in Seq(PublishSteps(kind)), Ordered(script), Become(ph, script),
         UNCHANGED <<dir, used, kind, reply, committed>>
  PROVE  OutcomeInv'
<1>1. ph \notin {"idle", "down", "staging", "installing", "discarding", "finishing", "emptying", "untombing"}
      /\ ph \notin RollbackPhases /\ ph \notin Retiring /\ ph # "rolling"
  BY Phases
<1>2. Ready(ph, script) BY <1>1 DEF Ready
<1>3. Decides(ph) /\ Heard(ph) BY <1>1 DEF Decides, Heard
<1>4. ph \in Phase BY DEF Phase, PublishPhases
<1> QED BY <1>2, <1>3, <1>4, TakeUp

(* The public names have changed, or not.                                  *)
LEMMA InstalledOutcome == ASSUME Inv, OutcomeInv, Installed PROVE OutcomeInv'
<1>1. /\ phase = "installing" /\ todo = << >> /\ UNCHANGED <<dir, used, kind, reply>>
      /\ reply = "none" /\ kind \in Kind /\ dir[Marker] # None
  BY KindType DEF Installed, Done, OutcomeInv, PhaseOK, JournalOK, MarkerThere
<1>2. CASE ok /\ kind # "delete"
  <2>1. Become("cleaning", Cleanup(kind)) BY <1>2 DEF Installed
  <2>2. committed /\ committed' = committed
    BY <1>1, <1>2 DEF Installed, OutcomeInv, PhaseOK
  <2>3. Cleanup(kind) \in Seq(PublishSteps(kind)) /\ Ordered(Cleanup(kind))
    BY <1>1, <1>2, CleanupFits, CleanupOrdered
  <2>4. "cleaning" \in PublishPhases BY DEF PublishPhases
  <2> QED BY <1>1, <1>2, <2>1, <2>2, <2>3, <2>4, TakeCommitted
<1>3. CASE ok /\ kind = "delete"
  <2>1. Become("finishing", Finish) /\ committed' = TRUE BY <1>3 DEF Installed
  <2>2. Ready("finishing", Finish) BY <1>1, <1>3, Phases DEF Ready
  <2>3. Decides("finishing") /\ Heard("finishing") BY <1>1, <2>1 DEF Decides, Heard
  <2>4. "finishing" \in Phase BY DEF Phase
  <2> QED BY <1>1, <2>1, <2>2, <2>3, <2>4, TakeUp
<1>4. CASE ~ok
  <2>1. committed' = committed BY <1>4 DEF Installed, Inv, ControlOK
  <2>2. CASE dir[Commit] # None
    <3> DEFINE script == IF kind = "rename" THEN Leftovers(kind) ELSE << >>
    <3>1. Become("discarding", script) BY <1>4, <2>2 DEF Installed
    <3>2. script \in Seq(DiscardSteps(kind)) BY <1>1, DiscardReady
    <3> HIDE DEF script
    <3>3. Ready("discarding", script) BY <3>2, Phases DEF Ready
    <3>4. Decides("discarding") /\ Heard("discarding") BY <1>1, <2>1 DEF Decides, Heard
    <3>5. "discarding" \in Phase BY DEF Phase
    <3> QED BY <1>1, <3>1, <3>3, <3>4, <3>5, TakeUp
  <2>3. CASE dir[Commit] = None
    <3>1. Become("rolling", Rollback(kind)) BY <1>4, <2>3 DEF Installed
    <3>2. ~committed BY <1>1, <2>3 DEF OutcomeInv, PhaseOK
    <3>3. Ready("rolling", Rollback(kind)) BY <1>1, <3>2, Phases DEF Ready
    <3>4. Decides("rolling") /\ Heard("rolling") BY <1>1, <2>1 DEF Decides, Heard
    <3>5. "rolling" \in Phase BY DEF Phase, RollbackPhases
    <3> QED BY <1>1, <3>1, <3>3, <3>4, <3>5, TakeUp
  <2> QED BY <2>2, <2>3
<1> QED BY <1>2, <1>3, <1>4

(* The mutation ends.                                                      *)
LEMMA TakeIdle ==
  ASSUME Inv, OutcomeInv, NEW ph \in {"idle", "down"}, Become(ph, << >>),
         UNCHANGED <<dir, used, kind, committed>>, reply' = "ok" => committed, reply' = "none" => ~committed
  PROVE  OutcomeInv'
<1>1. Ready(ph, << >>) BY Phases DEF Ready
<1>2. Decides(ph) /\ Heard(ph) BY DEF Decides, Heard
<1>3. ph \in Phase BY DEF Phase
<1> QED BY <1>1, <1>2, <1>3, TakeUp

(* The exception reaches the caller.                                       *)
LEMMA DiscardedOutcome == ASSUME Inv, OutcomeInv, Discarded PROVE OutcomeInv'
BY TakeIdle DEF Discarded

-----------------------------------------------------------------------------
(* The parts of the cleanup of a committed pair.                           *)
LEMMA CommittedPhase ==
  ASSUME Inv, OutcomeInv, phase \in PublishPhases
  PROVE  committed /\ kind # "delete" /\ kind \in Kind \ {"delete"}
BY KindType DEF OutcomeInv, PhaseOK, Inv, ControlOK

(* What is kept of a committed pair fits it and leaves the journal alone.  *)
LEMMA KeepReady ==
  ASSUME NEW k \in Kind \ {"delete"}, NEW copies \in {<< >>, KeepNew(k)}, NEW journal \in {<< >>, KeepCommit}
  PROVE  copies \o journal \in Seq(PublishSteps(k)) /\ Ordered(copies \o journal)
<1>0. << >> \in Seq(Harmless) /\ << >> \in Seq(PublishSteps(k)) OBVIOUS
<1>1. copies \in Seq(Harmless) /\ journal \in Seq(Harmless) BY <1>0, KeepNewHarmless, Zenon
<1>2. copies \in Seq(PublishSteps(k)) /\ journal \in Seq(PublishSteps(k))
  BY <1>0, KeepNewFits, KeepCommitFits, Zenon
<1>3. copies \o journal \in Seq(Harmless) /\ copies \o journal \in Seq(PublishSteps(k))
  BY <1>1, <1>2, Joined
<1> QED BY <1>3, HarmlessOrdered

(* The copies of the committed pair are kept, or closed.                   *)
LEMMA KeepOrCloseOutcome ==
  ASSUME Inv, OutcomeInv, phase \in PublishPhases, NEW finished, KeepOrClose(finished),
         UNCHANGED <<dir, used, kind, reply, committed>>
  PROVE  OutcomeInv'
<1> DEFINE copies == IF Holds(After(kind)) THEN << >> ELSE KeepNew(kind)
           journal == IF finished THEN << >> ELSE KeepCommit
<1>1. Become("keeping", copies \o journal) BY DEF KeepOrClose
<1>2. copies \in {<< >>, KeepNew(kind)} /\ journal \in {<< >>, KeepCommit} OBVIOUS
<1> HIDE DEF copies, journal
<1>3. committed /\ kind # "delete" /\ kind \in Kind \ {"delete"} BY CommittedPhase
<1>4. copies \o journal \in Seq(PublishSteps(kind)) /\ Ordered(copies \o journal)
  BY <1>2, <1>3, KeepReady
<1>5. "keeping" \in PublishPhases BY DEF PublishPhases
<1> QED BY <1>1, <1>3, <1>4, <1>5, TakeCommitted

(* The committed cleanup ends, or republishes and starts again.            *)
LEMMA CleanedOutcome == ASSUME Inv, OutcomeInv, Cleaned PROVE OutcomeInv'
<1>1. phase \in PublishPhases /\ UNCHANGED <<dir, used, kind, reply, committed>>
  BY DEF Cleaned, Done, PublishPhases
<1>2. CASE phase = "cleaning" /\ ~Holds(After(kind))
  <2>1. Become("healing", HealNew(kind)) BY <1>2 DEF Cleaned
  <2>2. "healing" \in PublishPhases BY DEF PublishPhases
  <2> QED BY <1>1, <2>1, <2>2, CommittedPhase, HealNewFits, HealNewOrdered, TakeCommitted
<1>3. CASE ~(phase = "cleaning" /\ ~Holds(After(kind)))
  <2>1. KeepOrClose(ok /\ Holds(After(kind))) BY <1>3 DEF Cleaned
  <2> QED BY <1>1, <2>1, KeepOrCloseOutcome
<1> QED BY <1>2, <1>3

(* A public name was linked again from the recovery copies, or not.        *)
LEMMA HealedOutcome == ASSUME Inv, OutcomeInv, Healed PROVE OutcomeInv'
<1>1. phase \in PublishPhases /\ UNCHANGED <<dir, used, kind, reply, committed>>
  BY DEF Healed, Done, PublishPhases
<1>2. CASE ok /\ Holds(After(kind))
  <2>1. Become("recleaning", Cleanup(kind)) BY <1>2 DEF Healed
  <2>2. "recleaning" \in PublishPhases BY DEF PublishPhases
  <2> QED BY <1>1, <2>1, <2>2, CommittedPhase, CleanupFits, CleanupOrdered, TakeCommitted
<1>3. CASE ~(ok /\ Holds(After(kind)))
  <2>1. KeepOrClose(FALSE) BY <1>3 DEF Healed
  <2> QED BY <1>1, <2>1, KeepOrCloseOutcome
<1> QED BY <1>2, <1>3

(* The copies worth keeping have their names back.                         *)
LEMMA KeptOutcome == ASSUME Inv, OutcomeInv, Kept PROVE OutcomeInv'
<1>1. phase \in PublishPhases /\ UNCHANGED <<dir, used, kind, reply, committed>>
  BY DEF Kept, Done, PublishPhases
<1>2. Become("closing", << Close(After(kind)) >>) BY DEF Kept
<1>3. "closing" \in PublishPhases BY DEF PublishPhases
<1> QED BY <1>1, <1>2, <1>3, CommittedPhase, ClosingFits, CloseOrdered, TakeCommitted

(* The caller of a committed mutation is answered.                         *)
LEMMA AnswerOutcome ==
  ASSUME Inv, OutcomeInv, committed, NEW good, Answer(good), UNCHANGED <<dir, used, kind, committed>>
  PROVE  OutcomeInv'
<1> DEFINE rest == IF kind = "rename" THEN Leftovers(kind) ELSE << >>
<1>1. CASE Become("idle", << >>) /\ reply' = IF reply = "none" THEN "ok" ELSE reply
  BY <1>1, TakeIdle
<1>2. CASE reply = "none" /\ Become("discarding", rest) /\ UNCHANGED reply
  <2>1. rest \in Seq(DiscardSteps(kind)) BY KindType, DiscardReady
  <2>2. Become("discarding", rest) BY <1>2
  <2> HIDE DEF rest
  <2>3. Ready("discarding", rest) BY <2>1, Phases DEF Ready
  <2>4. Decides("discarding") /\ Heard("discarding") BY <1>2 DEF Decides, Heard
  <2>5. "discarding" \in Phase BY DEF Phase
  <2> QED BY <2>2, <2>3, <2>4, <2>5, TakeUp
<1> QED BY <1>1, <1>2 DEF Answer

(* The recovery copies are unlinked, or one could not be.                  *)
LEMMA ClosedOutcome == ASSUME Inv, OutcomeInv, Closed PROVE OutcomeInv'
<1>1. phase \in PublishPhases /\ UNCHANGED <<dir, used, kind, committed>>
  BY DEF Closed, Done, PublishPhases
<1>2. committed /\ kind # "delete" /\ kind \in Kind \ {"delete"} BY <1>1, CommittedPhase
<1>3. CASE ok BY <1>1, <1>2, <1>3, AnswerOutcome DEF Closed
<1>4. CASE ~ok
  <2>1. Become("rekeeping", KeepNew(kind) \o KeepCommit) /\ UNCHANGED reply BY <1>4 DEF Closed
  <2>2. /\ KeepNew(kind) \o KeepCommit \in Seq(PublishSteps(kind))
        /\ Ordered(KeepNew(kind) \o KeepCommit)
    BY <1>2, KeepReady
  <2>3. "rekeeping" \in PublishPhases BY DEF PublishPhases
  <2> QED BY <1>1, <1>2, <2>1, <2>2, <2>3, TakeCommitted
<1> QED BY <1>3, <1>4

(* A cleanup that could not close its copies ends.                         *)
LEMMA RekeptOutcome == ASSUME Inv, OutcomeInv, Rekept PROVE OutcomeInv'
<1>1. phase \in PublishPhases /\ UNCHANGED <<dir, used, kind, committed>> /\ Answer(Holds(After(kind)))
  BY DEF Rekept, Done, PublishPhases
<1> QED BY <1>1, CommittedPhase, AnswerOutcome

-----------------------------------------------------------------------------
(* The parts of a rollback.                                                *)
LEMMA EndRollbackOutcome ==
  ASSUME Inv, OutcomeInv, phase \in RollbackPhases, EndRollback,
         UNCHANGED <<dir, used, kind, reply, committed>>
  PROVE  OutcomeInv'
<1>1. ~committed BY DEF OutcomeInv, PhaseOK
<1>2. CASE reply = "none"
  <2>1. Become("discarding", Leftovers(kind)) BY <1>2 DEF EndRollback
  <2>2. Ready("discarding", Leftovers(kind)) BY KindType, DiscardReady, Phases DEF Ready
  <2>3. Decides("discarding") /\ Heard("discarding") BY <1>2 DEF Decides, Heard
  <2>4. "discarding" \in Phase BY DEF Phase
  <2> QED BY <2>1, <2>2, <2>3, <2>4, TakeUp
<1>3. CASE reply # "none"
  <2>1. Become("idle", << >>) BY <1>3 DEF EndRollback
  <2>2. reply' = "ok" => committed BY DEF OutcomeInv, PhaseOK
  <2> QED BY <1>1, <1>3, <2>1, <2>2, TakeIdle
<1> QED BY <1>2, <1>3

(* A script that retires a rollback may be taken up.                       *)
LEMMA TakeRetiring ==
  ASSUME Inv, OutcomeInv, ~committed, NewAbsent, NEW ph \in Retiring,
         ph = "retiring" \/ kind # "fresh", ph = "reviving" => kind = "rename",
         NEW script \in Seq(RetireSteps(kind)), Become(ph, script),
         UNCHANGED <<dir, used, kind, reply, committed>>
  PROVE  OutcomeInv'
<1>1. ph \notin {"idle", "down", "staging", "installing", "discarding", "finishing", "emptying", "untombing"}
      /\ ph \notin PublishPhases /\ ph # "rolling" /\ ph \in RollbackPhases
  BY Phases
<1>2. Ready(ph, script) BY <1>1 DEF Ready
<1>3. reply' = "ok" => committed' BY DEF OutcomeInv, PhaseOK
<1>4. Decides(ph) /\ Heard(ph) BY <1>1, <1>3 DEF Decides, Heard
<1>5. ph \in Phase BY <1>1 DEF Phase
<1> QED BY <1>2, <1>4, <1>5, TakeUp

(* The old names are back, or the rollback stops there.                    *)
LEMMA RolledBackOutcome == ASSUME Inv, OutcomeInv, RolledBack PROVE OutcomeInv'
<1>1. /\ phase = "rolling" /\ todo = << >> /\ UNCHANGED <<dir, used, kind, reply, committed>>
      /\ phase \in RollbackPhases /\ ~committed /\ kind \in Kind
  BY Phases, KindType DEF RolledBack, Done, OutcomeInv, PhaseOK
<1>2. CASE ok
  <2>1. Become("retiring", RetireMarker(kind)) BY <1>2 DEF RolledBack
  <2>2. \A p : ~ToUndo(p) BY <1>1 DEF ToUndo, Pending
  <2>3. NewAbsent BY <1>1, <1>2, <2>2 DEF OutcomeInv, StaleOK, Undoing, NewAbsent
  <2>4. "retiring" \in Retiring BY DEF Retiring, RollbackPhases
  <2> QED BY <1>1, <2>1, <2>3, <2>4, RetireMarkerFits, TakeRetiring
<1>3. CASE ~ok BY <1>1, <1>3, EndRollbackOutcome DEF RolledBack
<1> QED BY <1>2, <1>3

(* What is retired was not brought.                                        *)
LEMMA RetiringPhase ==
  ASSUME Inv, OutcomeInv, phase \in Retiring
  PROVE  ~committed /\ NewAbsent /\ phase \in RollbackPhases /\ kind \in Kind
BY Phases, KindType DEF OutcomeInv, PhaseOK, StaleOK, NewStale

(* What is kept of an old pair fits it.                                    *)
LEMMA KeepOldReady ==
  ASSUME NEW k \in Kind \ {"fresh"}, NEW copies \in {<< >>, KeepOld(k)}, NEW journal \in {<< >>, KeepMarker(k)}
  PROVE  copies \o journal \in Seq(RetireSteps(k)) /\ journal \o copies \in Seq(RetireSteps(k))
<1>1. << >> \in Seq(RetireSteps(k)) OBVIOUS
<1>2. copies \in Seq(RetireSteps(k)) BY <1>1, KeepOldFits, Zenon
<1>3. journal \in Seq(RetireSteps(k)) BY <1>1, KeepMarkerFits, Zenon
<1> QED BY <1>2, <1>3, Joined

(* The journal and the old copies are kept, or closed.                     *)
LEMMA KeepOldOrCloseOutcome ==
  ASSUME Inv, OutcomeInv, phase \in Retiring, kind # "fresh", NEW finished, KeepOldOrClose(finished),
         UNCHANGED <<dir, used, kind, reply, committed>>
  PROVE  OutcomeInv'
<1> DEFINE journal == IF finished THEN << >> ELSE KeepMarker(kind)
           copies == IF Holds(Before(kind)) THEN << >> ELSE KeepOld(kind)
           script == IF kind = "rename" THEN journal \o copies ELSE copies \o journal
<1>1. Become("restoring", script) BY DEF KeepOldOrClose
<1>2. journal \in {<< >>, KeepMarker(kind)} /\ copies \in {<< >>, KeepOld(kind)} OBVIOUS
<1>3. ~committed /\ NewAbsent /\ kind \in Kind \ {"fresh"} BY RetiringPhase
<1>4. script \in Seq(RetireSteps(kind))
  <2> HIDE DEF journal, copies
  <2>1. journal \o copies \in Seq(RetireSteps(kind)) /\ copies \o journal \in Seq(RetireSteps(kind))
    BY <1>2, <1>3, KeepOldReady
  <2> QED BY <2>1
<1> HIDE DEF script
<1>5. "restoring" \in Retiring BY DEF Retiring, RollbackPhases
<1> QED BY <1>1, <1>3, <1>4, <1>5, TakeRetiring

(* The journal of the rollback is retired, or the pair broke meanwhile.    *)
LEMMA RetiredOutcome == ASSUME Inv, OutcomeInv, Retired PROVE OutcomeInv'
<1>1. phase \in Retiring /\ UNCHANGED <<dir, used, kind, reply, committed>>
  BY DEF Retired, Done, Retiring, RollbackPhases
<1>2. ~committed /\ NewAbsent /\ phase \in RollbackPhases /\ kind \in Kind BY <1>1, RetiringPhase
<1>3. CASE kind = "fresh" BY <1>1, <1>2, <1>3, EndRollbackOutcome DEF Retired
<1>4. CASE kind = "rename" /\ ~ok /\ ~Holds(Before(kind))
  <2>1. Become("reviving", HealOld) BY <1>4 DEF Retired
  <2>2. "reviving" \in Retiring BY DEF Retiring, RollbackPhases
  <2>3. HealOld \in Seq(RetireSteps(kind)) BY <1>4, HealOldFits
  <2> QED BY <1>1, <1>2, <1>4, <2>1, <2>2, <2>3, TakeRetiring
<1>5. CASE kind \in {"replace", "delete"} \/ (kind = "rename" /\ (ok \/ Holds(Before(kind))))
  <2>1. KeepOldOrClose(ok \/ (kind = "rename" /\ Holds(Before(kind)))) /\ kind # "fresh"
    BY <1>5 DEF Retired
  <2> QED BY <1>1, <2>1, KeepOldOrCloseOutcome
<1> QED BY <1>2, <1>3, <1>4, <1>5 DEF Kind

(* A rename whose source was linked again rolls back anew.                 *)
LEMMA RevivedOutcome == ASSUME Inv, OutcomeInv, Revived PROVE OutcomeInv'
<1>1. phase \in Retiring /\ phase = "reviving" /\ UNCHANGED <<dir, used, kind, reply, committed>>
  BY DEF Revived, Done, Retiring, RollbackPhases
<1>2. ~committed /\ kind = "rename" BY <1>1, RetiringPhase DEF OutcomeInv, PhaseOK
<1>3. CASE ok /\ Holds(Before(kind))
  <2>1. Become("rolling", Rollback(kind)) BY <1>3 DEF Revived
  <2>2. Ready("rolling", Rollback(kind)) BY <1>2, Phases DEF Ready
  <2>3. reply' = "ok" => committed' BY <1>1 DEF OutcomeInv, PhaseOK
  <2>4. Decides("rolling") /\ Heard("rolling") BY <1>1, <2>3 DEF Decides, Heard
  <2>5. "rolling" \in Phase BY DEF Phase, RollbackPhases
  <2> QED BY <1>1, <2>1, <2>2, <2>4, <2>5, TakeUp
<1>4. CASE ~(ok /\ Holds(Before(kind)))
  <2>1. KeepOldOrClose(FALSE) BY <1>4 DEF Revived
  <2> QED BY <1>1, <1>2, <2>1, KeepOldOrCloseOutcome
<1> QED BY <1>3, <1>4

(* Past the retirement of its marker, a rollback has an old pair.          *)
LEMMA OldPair ==
  ASSUME OutcomeInv, phase \in Retiring, phase # "retiring" PROVE kind # "fresh"
BY DEF OutcomeInv, PhaseOK

(* The old copies worth keeping have their names back.                     *)
LEMMA RestoredOutcome == ASSUME Inv, OutcomeInv, Restored PROVE OutcomeInv'
<1>1. /\ phase \in Retiring /\ phase # "retiring" /\ Become("unlinking", << Close(Before(kind)) >>)
      /\ UNCHANGED <<dir, used, kind, reply, committed>>
  BY DEF Restored, Done, Retiring, RollbackPhases
<1>2. kind # "fresh" BY <1>1, OldPair
<1>3. ~committed /\ NewAbsent /\ kind \in Kind BY <1>1, RetiringPhase
<1>4. "unlinking" \in Retiring BY DEF Retiring, RollbackPhases
<1> QED BY <1>1, <1>2, <1>3, <1>4, ClosingFits, TakeRetiring

(* The recovery copies of the rollback are unlinked, or one could not be.  *)
LEMMA UnlinkedOutcome == ASSUME Inv, OutcomeInv, Unlinked PROVE OutcomeInv'
<1>1. phase \in Retiring /\ phase # "retiring" /\ UNCHANGED <<dir, used, kind, reply, committed>>
  BY DEF Unlinked, Done, Retiring, RollbackPhases
<1>2. kind # "fresh" BY <1>1, OldPair
<1>3. ~committed /\ NewAbsent /\ phase \in RollbackPhases /\ kind \in Kind BY <1>1, RetiringPhase
<1>4. CASE complete /\ ok
  <2>1. Become("purging", ForgetCopies) BY <1>4 DEF Unlinked
  <2>2. "purging" \in Retiring BY DEF Retiring, RollbackPhases
  <2> QED BY <1>1, <1>2, <1>3, <2>1, <2>2, ClosingFits, TakeRetiring
<1>5. CASE ~ok
  <2>1. Become("rerestoring", KeepOld(kind) \o KeepMarker(kind)) BY <1>5 DEF Unlinked
  <2>2. KeepOld(kind) \o KeepMarker(kind) \in Seq(RetireSteps(kind)) BY <1>2, <1>3, KeepOldReady
  <2>3. "rerestoring" \in Retiring BY DEF Retiring, RollbackPhases
  <2> QED BY <1>1, <1>2, <1>3, <2>1, <2>2, <2>3, TakeRetiring
<1>6. CASE ok /\ ~complete BY <1>1, <1>3, <1>6, EndRollbackOutcome DEF Unlinked
<1> QED BY <1>4, <1>5, <1>6

(* The rollback returns to its caller, ...                                 *)
LEMMA RolledOutOutcome == ASSUME Inv, OutcomeInv, RolledOut PROVE OutcomeInv'
<1>1. phase \in RollbackPhases BY DEF RolledOut, Done, RollbackPhases
<1> QED BY <1>1, EndRollbackOutcome DEF RolledOut

(* ... or raises at any of its steps.                                      *)
LEMMA RollbackRaisesOutcome == ASSUME Inv, OutcomeInv, RollbackRaises PROVE OutcomeInv'
BY EndRollbackOutcome DEF RollbackRaises

-----------------------------------------------------------------------------
(* The end of a deletion. *)
LEMMA FinishedOutcome == ASSUME Inv, OutcomeInv, Finished PROVE OutcomeInv'
<1>1. /\ phase \in {"finishing", "emptying"} /\ todo = << >> /\ UNCHANGED <<dir, used, kind, committed>>
      /\ kind = "delete" /\ committed /\ dir[Marker] # None /\ kind \in Kind
  BY KindType DEF Finished, Done, OutcomeInv, PhaseOK, JournalOK, MarkerThere
<1>2. CASE ~ok BY <1>1, <1>2, AnswerOutcome DEF Finished
<1>3. CASE ok /\ phase = "finishing"
  <2>1. Become("emptying", EmptyTrash) /\ UNCHANGED reply BY <1>3 DEF Finished
  <2>2. Ready("emptying", EmptyTrash) BY <1>1, Phases DEF Ready
  <2>3. Decides("emptying") /\ Heard("emptying") BY <1>1, <2>1 DEF Decides, Heard
  <2>4. "emptying" \in Phase BY DEF Phase
  <2> QED BY <1>1, <2>1, <2>2, <2>3, <2>4, TakeUp
<1>4. CASE ok /\ phase = "emptying"
  <2>1. Become("untombing", Untomb) /\ UNCHANGED reply BY <1>4 DEF Finished
  <2>2. OldGone
    <3>1. \A p \in Before(kind) : dir[p[1]] # p[2]
      BY <1>1, <1>4 DEF OutcomeInv, StaleOK, TrashStale, Pending
    <3> QED BY <3>1 DEF OldGone, Entries
  <2>3. Ready("untombing", Untomb) BY <1>1, <2>2, Phases DEF Ready
  <2>4. Decides("untombing") /\ Heard("untombing") BY <1>1, <2>1 DEF Decides, Heard
  <2>5. "untombing" \in Phase BY DEF Phase
  <2> QED BY <1>1, <2>1, <2>3, <2>4, <2>5, TakeUp
<1> QED BY <1>1, <1>2, <1>3, <1>4

(* The deletion retires its marker.                                        *)
LEMMA UntombedOutcome == ASSUME Inv, OutcomeInv, Untombed PROVE OutcomeInv'
<1>1. committed BY DEF Untombed, Done, OutcomeInv, PhaseOK
<1> QED BY <1>1, AnswerOutcome DEF Untombed

(* Process death, ...                                                      *)
LEMMA CrashOutcome == ASSUME Inv, OutcomeInv, Crash PROVE OutcomeInv'
<1>1. Become("down", << >>) BY DEF Crash, Become, Run, Halt
<1>2. reply' = "ok" => committed BY DEF Crash, OutcomeInv, PhaseOK
<1>3. reply' = "none" => ~committed BY DEF Crash, OutcomeInv, PhaseOK
<1> QED BY <1>1, <1>2, <1>3, TakeIdle DEF Crash

(* ... a start that can read nothing of the journal, ...                   *)
LEMMA OverlookOutcome == ASSUME Inv, OutcomeInv, Overlook PROVE OutcomeInv'
<1>1. reply = "ok" => committed BY DEF OutcomeInv, PhaseOK
<1>2. reply = "none" => ~committed BY DEF Overlook, OutcomeInv, PhaseOK
<1> QED BY <1>1, <1>2, TakeIdle DEF Overlook

(* ... and the reconciliation by the next process.                         *)
LEMMA ReconcileOutcome == ASSUME Inv, OutcomeInv, Reconcile PROVE OutcomeInv'
<1>1. /\ phase = "down" /\ UNCHANGED <<dir, used, kind, reply>> /\ kind \in Kind
      /\ committed' = (committed \/ (dir[Marker] # None /\ kind = "delete"))
      /\ committed \in BOOLEAN /\ (reply = "ok" => committed)
  BY KindType DEF Reconcile, OutcomeInv, PhaseOK, Inv, ControlOK
<1>2. CASE RecoverCommitted
  <2>1. committed BY <1>2 DEF RecoverCommitted, OutcomeInv, JournalOK, CommitDecides
  <2>2. "cleaning" \in PublishPhases BY DEF PublishPhases
  <2>3. committed' = committed BY <1>1, <2>1
  <2> QED BY <1>1, <1>2, <2>1, <2>2, <2>3, CleanupFits, CleanupOrdered, TakeCommitted DEF RecoverCommitted
<1>3. CASE RecoverPrepared
  <2>1. ~committed BY <1>3 DEF RecoverPrepared, OutcomeInv, JournalOK, CommitDecides
  <2>2. Ready("rolling", Rollback(kind)) BY <1>3, <2>1, Phases DEF Ready, RecoverPrepared
  <2>3. committed' = committed BY <1>1, <1>3 DEF RecoverPrepared
  <2>4. Decides("rolling") /\ Heard("rolling") BY <1>1, <2>3 DEF Decides, Heard
  <2>5. "rolling" \in Phase BY DEF Phase, RollbackPhases
  <2> QED BY <1>1, <1>3, <2>2, <2>4, <2>5, TakeUp DEF RecoverPrepared
<1>4. CASE RecoverDeletions
  <2>1. kind = "delete" /\ dir[Marker] # None /\ Become("finishing", Finish) BY <1>4 DEF RecoverDeletions
  <2>2. committed' = TRUE BY <1>1, <2>1
  <2>3. Ready("finishing", Finish) BY <2>1, Phases DEF Ready
  <2>4. Decides("finishing") /\ Heard("finishing") BY <1>1, <2>2 DEF Decides, Heard
  <2>5. "finishing" \in Phase BY DEF Phase
  <2> QED BY <1>1, <2>1, <2>3, <2>4, <2>5, TakeUp
<1>5. CASE dir[Marker] = None /\ Become("idle", << >>)
  <2>1. committed' = committed BY <1>1, <1>5
  <2>2. reply = "none" => ~committed BY <1>1 DEF OutcomeInv, PhaseOK
  <2> QED BY <1>1, <1>5, <2>1, <2>2, TakeIdle
<1> QED BY <1>2, <1>3, <1>4, <1>5 DEF Reconcile

-----------------------------------------------------------------------------
(* An external writer replaces or empties one public name.                 *)
LEMMA Outside ==
  ASSUME Inv, ForeignStep
  PROVE  /\ used' # {} /\ UNCHANGED <<todo, stage, moved, ok, handles, faults>>
         /\ \A n \in Name : dir'[n] # dir[n] =>
              n[1] \in {"public", "source", "target"} /\ dir'[n] \in {None} \union Foreign
         /\ \A n \in Name, i \in Own : dir'[n] = i => dir[n] = i
<1>1. PICK m \in Name, f \in ForeignFile : ForeignPut(m, f) \/ ForeignDelete(m, f) BY DEF ForeignStep
<1>2. PICK x \in {None} \union Foreign : dir' = Set(dir, m, x) /\ IsPublic(m)
  BY <1>1 DEF ForeignPut, ForeignDelete, Foreign
<1>3. \A n \in Name : dir'[n] # dir[n] => n = m /\ dir'[n] = x
  BY <1>2 DEF Set, Inv, DirectoryInv, Directory
<1>4. /\ \A n \in Name : dir'[n] # dir[n] =>
           n[1] \in {"public", "source", "target"} /\ dir'[n] \in {None} \union Foreign
      /\ \A n \in Name, i \in Own : dir'[n] = i => dir[n] = i
  BY <1>2, <1>3, Apart, Places DEF IsPublic
<1> QED BY <1>1, <1>4 DEF ForeignPut, ForeignDelete

(* That brings back no file of the mutation, ...                           *)
LEMMA OutsideStale == ASSUME Inv, OutcomeInv, Interference PROVE StaleOK' /\ InstallOK' /\ OutcomeOK'
<1>1. /\ ForeignStep /\ UNCHANGED <<kind, phase, complete, reply, crashes, committed>> /\ kind \in Kind
      /\ used' # {} /\ UNCHANGED <<todo, stage, moved, ok, handles, faults>>
  BY Outside, KindType DEF Interference, control
<1>2. \A n \in Name, i \in Own : dir'[n] = i => dir[n] = i BY <1>1, Outside
<1>3. Marker \in Name /\ Commit \in Name /\ dir'[Marker] = dir[Marker]
  <2>1. Marker \in Entry /\ Commit \in Entry BY Names
  <2>2. Marker[1] = "journal" BY DEF Marker
  <2> QED BY <1>1, <2>1, <2>2, Outside DEF Name
<1>4. \A p \in Entries(Before(kind) \ After(kind)) \union Entries(After(kind) \ Before(kind)) :
        p[1] \in Name /\ p[2] \in Own
  BY <1>1, Public DEF Name
<1>5. (OldGone => OldGone') /\ (NewAbsent => NewAbsent')
  <2>1. kind' = kind BY <1>1
  <2>2. ASSUME NEW p, p[1] \in Name, p[2] \in Own, dir[p[1]] # p[2] PROVE dir'[p[1]] # p[2]
    BY <1>2, <2>2
  <2>3. OldGone => OldGone' BY <1>4, <2>1, <2>2 DEF OldGone
  <2>4. NewAbsent => NewAbsent' BY <1>4, <2>1, <2>2 DEF NewAbsent
  <2> QED BY <2>3, <2>4
<1>6. OldStale' BY <1>1, <1>3, <1>5 DEF OutcomeInv, StaleOK, OldStale
<1>7. NewStale' BY <1>1, <1>3, <1>5 DEF OutcomeInv, StaleOK, NewStale
<1>8. TrashStale'
  <2> SUFFICES ASSUME phase = "emptying", ok PROVE TrashStale' BY <1>1 DEF TrashStale
  <2>1. kind = "delete" BY DEF OutcomeInv, PhaseOK
  <2>2. \A p \in Before(kind) : p[1] \in Name /\ p[2] \in Own
    BY <2>1, Pairing, Places, Names DEF Name, Entry
  <2>3. \A p \in Before(kind) : dir[p[1]] # p[2] \/ Pending("gone", p[1], p[2])
    BY DEF OutcomeInv, StaleOK, TrashStale
  <2>4. \A p : Pending("gone", p[1], p[2])' = Pending("gone", p[1], p[2]) BY <1>1 DEF Pending
  <2> QED BY <1>1, <1>2, <2>2, <2>3, <2>4 DEF TrashStale
<1>9. Undoing'
  <2>1. \A p : ToUndo(p)' = ToUndo(p) BY <1>1 DEF ToUndo, Pending
  <2> QED BY <1>1, <1>2, <1>4, <2>1 DEF OutcomeInv, StaleOK, Undoing
<1>10. OnePlace'
  <2>1. N("source", D) \in Name /\ N("target", D) \in Name /\ Old(D) \in Own
    BY Places, Names DEF Name, Entry
  <2> QED BY <1>1, <1>2, <2>1 DEF OutcomeInv, StaleOK, OnePlace
<1>11. InstallOK'
  <2> SUFFICES ASSUME phase = "installing", ok, NEW i \in 1..(Len(Install(kind)) - Len(todo))
               PROVE  Settled(Install(kind)[i])'
    BY <1>1 DEF InstallOK
  <2>1. Settled(Install(kind)[i]) BY DEF OutcomeInv, InstallOK
  <2>2. i \in 1..Len(Install(kind))
    <3>1. PICK n \in Nat : n = Len(todo) BY DEF OutcomeInv, ScriptsOK
    <3>2. PICK l \in Nat : l = Len(Install(kind)) BY <1>1, InstallFits
    <3> QED BY <3>1, <3>2
  <2>3. PICK s : s = Install(kind)[i] OBVIOUS
  <2>4. s \in Step /\ (s.op = "move" => s.id \in Own)
    <3>1. Install(kind) \in Seq(InstallSteps(kind)) BY <1>1, InstallFits
    <3>2. s \in InstallSteps(kind) BY <2>2, <2>3, <3>1
    <3>3. Install(kind)[i].op = "move" => Install(kind)[i].id \in Own BY <1>1, <2>2, InstallPlaces
    <3> QED BY <2>3, <3>2, <3>3 DEF InstallSteps, Fitting
  <2>5. s.op = "move" => dir'[s.name] # s.id
    <3>1. s.name \in Name BY <2>4 DEF Step, Name
    <3> QED BY <1>2, <2>1, <2>3, <2>4, <3>1 DEF Settled
  <2>6. Settled(s)' BY <1>1, <2>5 DEF Settled
  <2>7. kind' = kind BY <1>1
  <2> QED BY <2>3, <2>6, <2>7
<1>12. OutcomeOK' BY <1>1 DEF OutcomeOK
<1> QED BY <1>6, <1>7, <1>8, <1>9, <1>10, <1>11, <1>12 DEF StaleOK

(* ... and decides nothing.                                                *)
LEMMA OutsideOutcome == ASSUME Inv, OutcomeInv, Interference PROVE OutcomeInv'
<1>1. /\ ForeignStep /\ UNCHANGED <<kind, phase, complete, reply, crashes, committed>> /\ kind \in Kind
      /\ used' # {} /\ UNCHANGED <<todo, stage, moved, ok, handles, faults>>
  BY Outside, KindType DEF Interference, control
<1>2. \A n \in Name : dir'[n] # dir[n] =>
        n[1] \in {"public", "source", "target"} /\ dir'[n] \in {None} \union Foreign
  BY <1>1, Outside
<1>3. dir'[Marker] = dir[Marker] /\ dir'[Commit] = dir[Commit]
  <2>1. Marker \in Name /\ Commit \in Name BY Names DEF Name
  <2>2. Marker[1] = "journal" /\ Commit[1] = "journal" BY DEF Marker, Commit
  <2> QED BY <1>2, <2>1, <2>2
<1>4. ScriptsOK' BY <1>1 DEF OutcomeInv, ScriptsOK
<1>5. JournalOK' BY <1>1, <1>3 DEF OutcomeInv, JournalOK, CommitDecides, MarkerThere, MarkerFirst
<1>6. PhaseOK' BY <1>1, <1>3 DEF OutcomeInv, PhaseOK
<1>7. Filling'
  <2> SUFFICES ASSUME NEW n \in Entry, dir'[n] # dir[n] PROVE dir'[n] \in May(kind, n)
    BY <1>1 DEF OutcomeInv, NamesOK, Filling
  <2>1. n \in Name BY DEF Name
  <2>2. n \notin Journal BY <1>2, <2>1 DEF Journal
  <2> QED BY <1>2, <2>1, <2>2 DEF May
<1>8. Found'
  <2> SUFFICES ASSUME todo # << >>, stage \in {"confirm", "unlink"}
               PROVE  /\ step.op \in {"move", "settle", "drop", "retract"} => dir'[step.name] \notin Own
                      /\ step.op \in {"drop", "retract"} =>
                           dir'[moved] \in May(kind, step.name) /\ (stage = "unlink" => dir'[moved] = step.id)
    BY <1>1 DEF Found, step
  <2>1. step.name \in Name BY HeadFields DEF Inv, Name
  <2>2. step.op \in {"move", "settle", "drop", "retract"} => dir'[step.name] \notin Own
    BY <1>2, <2>1, Apart, Places DEF OutcomeInv, NamesOK, Found
  <2>3. step.op \in {"drop", "retract"} =>
          dir'[moved] \in May(kind, step.name) /\ (stage = "unlink" => dir'[moved] = step.id)
    <3> SUFFICES ASSUME step.op \in {"drop", "retract"}
                 PROVE  dir'[moved] \in May(kind, step.name) /\ (stage = "unlink" => dir'[moved] = step.id)
      OBVIOUS
    <3>1. moved \in Scrap BY DEF Inv, DirectoryInv, QuarantineApart, Unlinks, At
    <3>2. moved \in Name /\ moved[1] = "trash" BY <3>1 DEF Name, Scrap
    <3>3. dir'[moved] = dir[moved] BY <1>2, <3>2
    <3> QED BY <3>3 DEF OutcomeInv, NamesOK, Found
  <2> QED BY <2>2, <2>3
<1>9. NamesOK' BY <1>1, <1>7, <1>8 DEF NamesOK, Alone, PairSeen
<1> QED BY <1>4, <1>5, <1>6, <1>9, OutsideStale DEF OutcomeInv

(* It holds of an item at rest, ...                                        *)
LEMMA InitOutcome == Init => OutcomeInv
<1> SUFFICES ASSUME Init PROVE OutcomeInv OBVIOUS
<1>1. /\ kind \in Kind /\ dir = Opening(kind) /\ todo = << >> /\ stage = "look" /\ used = {}
      /\ phase = "idle" /\ reply = "none" /\ committed = FALSE
  BY KindAssumption DEF Init
<1>2. \A n \in Name : n[1] \notin {"public", "source"} => dir[n] = None BY <1>1 DEF Opening
<1>3. Marker \in Name /\ Commit \in Name /\ dir[Marker] = None /\ dir[Commit] = None
  <2>1. Marker \in Name /\ Commit \in Name BY Names DEF Name
  <2>2. Marker[1] = "journal" /\ Commit[1] = "journal" BY DEF Marker, Commit
  <2> QED BY <1>2, <2>1, <2>2
<1>4. \A n \in Name : dir[n] = None \/ (/\ n \in Named /\ dir[n] = Old(n[2]) /\ kind # "fresh"
                                        /\ n[1] = IF kind = "rename" THEN "source" ELSE "public")
  <2>1. \A n \in Name : n[1] \in {"public", "source"} => n \in Named
    BY DEF Name, Entry, Named, Journal, Scrap
  <2> QED BY <1>1, <2>1 DEF Opening
<1>5. Filling
  <2> SUFFICES ASSUME NEW n \in Entry, dir[n] # None PROVE dir[n] \in May(kind, n)
    BY DEF Filling, May
  <2>1. n \in Name BY DEF Name
  <2>2. /\ n \in Named /\ n \notin Journal /\ dir[n] = Old(n[2]) /\ kind # "fresh"
        /\ n[1] = IF kind = "rename" THEN "source" ELSE "public"
    BY <1>4, <2>1, Places
  <2>3. Old(n[2]) \in Mine(kind, n)
    BY <1>1, <2>2 DEF Mine, Kind
  <2> QED BY <2>2, <2>3 DEF May
<1>6. Alone
  <2>1. \A n \in Named : Old(n[2]) \in Own BY Names, Places DEF Named
  <2> QED BY <1>4, <2>1, Apart, Places DEF Alone
<1>7. NamesOK BY <1>1, <1>5, <1>6 DEF NamesOK, Found, PairSeen, At
<1>8. /\ "idle" \notin PublishPhases /\ "idle" \notin RollbackPhases /\ "idle" \notin Retiring
  BY Phases
<1>9. ScriptsOK /\ InstallOK BY <1>1, <1>8 DEF ScriptsOK, InstallOK
<1>10. JournalOK BY <1>1, <1>3, <1>8 DEF JournalOK, CommitDecides, MarkerThere
<1>11. PhaseOK BY <1>1, <1>8 DEF PhaseOK
<1>12. NewAbsent
  <2> SUFFICES ASSUME NEW p \in Entries(After(kind) \ Before(kind)) PROVE dir[p[1]] # p[2] BY DEF NewAbsent
  <2>1. p[1] \in Name /\ p[2] # None BY <1>1, Public, Places DEF Name
  <2>2. CASE kind \in {"fresh", "delete"} BY <1>4, <2>1, <2>2, Differences
  <2>3. CASE kind = "replace"
    <3>1. PICK q \in {D, M} : p = <<N("public", q), New(q)>> BY <2>3, Differences
    <3> QED BY <1>4, <2>1, <3>1, Places
  <2>4. CASE kind = "rename"
    <3>1. p \in {<<N("target", D), Old(D)>>, <<N("target", M), New(M)>>} BY <2>4, Differences
    <3>2. PICK q \in {D, M} : p[1] = N("target", q) BY <3>1
    <3>3. p[1][1] = "target" BY <3>2, Places
    <3> QED BY <1>2, <2>1, <3>3
  <2> QED BY <1>1, <2>2, <2>3, <2>4 DEF Kind
<1>13. OnePlace
  <2>1. N("target", D) \in Name /\ dir[N("target", D)] = None BY <1>2, Places DEF Name, Entry
  <2>2. Old(D) # None BY Names, Places
  <2> QED BY <2>1, <2>2 DEF OnePlace
<1>14. StaleOK BY <1>1, <1>8, <1>12, <1>13 DEF StaleOK, OldStale, TrashStale, NewStale, Undoing
<1>15. Holds(Before(kind))
  <2> SUFFICES ASSUME NEW p \in Before(kind) PROVE dir[p[1]] = p[2] BY DEF Holds
  <2>1. PICK q \in {D, M} : p = IF kind = "fresh" THEN <<N("public", q), None>>
                                ELSE <<N(IF kind = "rename" THEN "source" ELSE "public", q), Old(q)>>
    BY <1>1, Pairing DEF Kind
  <2>2. p[1] \in Name /\ p[1][2] = q /\ p[1][1] = IF kind = "rename" THEN "source" ELSE "public"
    BY <2>1, Places DEF Name, Entry
  <2> QED BY <1>1, <2>1, <2>2 DEF Opening
<1>16. OutcomeOK BY <1>1, <1>15 DEF OutcomeOK
<1> QED BY <1>7, <1>9, <1>10, <1>11, <1>14, <1>16 DEF OutcomeInv

(* ... and every step keeps it.                                            *)
LEMMA WorkOutcome == Inv /\ OutcomeInv /\ [Work]_vars => OutcomeInv'
<1> SUFFICES ASSUME Inv, OutcomeInv, [Work]_vars PROVE OutcomeInv' OBVIOUS
<1>1. CASE UNCHANGED vars
  <2>1. /\ UNCHANGED <<dir, todo, stage, moved, ok, handles, faults, used>>
        /\ UNCHANGED <<kind, phase, complete, reply, crashes, committed>>
    BY <1>1 DEF vars
  <2>2. ScriptsOK' /\ InstallOK' /\ NamesOK'
    BY <2>1 DEF OutcomeInv, ScriptsOK, InstallOK, Settled, NamesOK, Filling, Alone, Found, PairSeen, At,
                step, Holds
  <2>3. JournalOK' /\ PhaseOK'
    BY <2>1 DEF OutcomeInv, JournalOK, CommitDecides, MarkerThere, MarkerFirst, PhaseOK
  <2>4. StaleOK' /\ OutcomeOK'
    BY <2>1 DEF OutcomeInv, StaleOK, OldStale, TrashStale, NewStale, Undoing, OnePlace, OldGone,
                NewAbsent, Pending, ToUndo, OutcomeOK, Holds
  <2> QED BY <2>2, <2>3, <2>4 DEF OutcomeInv
<1>2. CASE FileStep BY <1>2, FileOutcome
<1>3. CASE Begin \/ RollbackRaises \/ Crash \/ Overlook \/ Interference
  BY <1>3, BeginOutcome, RollbackRaisesOutcome, CrashOutcome, OverlookOutcome, OutsideOutcome
<1>4. CASE Progress
  BY <1>4, StagedOutcome, InstalledOutcome, DiscardedOutcome, CleanedOutcome, HealedOutcome, KeptOutcome,
     ClosedOutcome, RekeptOutcome, RolledBackOutcome, RetiredOutcome, RevivedOutcome, RestoredOutcome,
     UnlinkedOutcome, RolledOutOutcome, FinishedOutcome, UntombedOutcome, ReconcileOutcome DEF Progress
<1> QED BY <1>1, <1>2, <1>3, <1>4 DEF Work

(* A commit file taken for absent belongs to a committed mutation; that is  *)
(* all that is claimed from then on.                                       *)
Judged == (misread => committed) /\ (~misread => OutcomeInv)

LEMMA NextJudged == Inv /\ Judged /\ [Next]_<<vars, misread>> => Judged'
<1> SUFFICES ASSUME Inv, Judged, [Next]_<<vars, misread>> PROVE Judged' OBVIOUS
<1>1. CASE [Work]_vars /\ misread' = misread /\ misread BY <1>1, CommitStays DEF Judged
<1>2. CASE [Work]_vars /\ misread' = misread /\ ~misread BY <1>2, WorkOutcome DEF Judged
<1>3. CASE Misread
  <2>1. dir[Commit] # None /\ committed' = committed /\ misread' = TRUE
    BY <1>3 DEF Misread, InstalledUnread, RecoverUnread, Misreads
  <2>2. committed BY <2>1 DEF Judged, OutcomeInv, JournalOK, CommitDecides
  <2> QED BY <2>1, <2>2 DEF Judged
<1> QED BY <1>1, <1>2, <1>3, NextSplit

(* For every set of names, of foreign files, of mutations, of failures and *)
(* of process deaths: which names the script left to run may change, what  *)
(* they hold, and what the journal then says of the pair, hold as long as   *)
(* no commit file was taken for absent.                                     *)
THEOREM OutcomeKept == Spec => []Judged
<1>1. Init => Judged BY InitOutcome DEF Init, Judged
<1> QED BY <1>1, NextJudged, Invariance, PTL DEF Spec

-----------------------------------------------------------------------------
(* What a committed deletion left under its public names is not there.     *)
LEMMA Deleted ==
  ASSUME Inv, OutcomeInv, kind = "delete", NEW q \in {D, M}
  PROVE  /\ N("public", q) \in Name /\ <<N("public", q), Old(q)>> \in Entries(Before(kind) \ After(kind))
         /\ dir[N("public", q)] \in {None, Old(q)} \union Foreign
         /\ Old(q) # None
<1>1. N("public", q) \in Entry BY Places DEF Entry
<1>2. dir[N("public", q)] \in {None, Old(q)} \union Foreign
  BY <1>1, MayHold DEF OutcomeInv, NamesOK, Filling
<1>3. Old(q) # None BY Places, Names
<1> QED BY <1>1, <1>2, <1>3, Differences DEF Name

(* A reader is given the pair only if no journal is left or the commit file *)
(* is one of the files it could read and the pair is intact.                *)
LEMMA ShownWhen ==
  ASSUME NEW read \in SUBSET JournalFiles, Shows(read), Journalled => read # {}
  PROVE  ~Journalled \/ (dir[Commit] # None /\ Holds(After(kind)))
BY DEF Shows, JournalFiles

(* What readers can see between operations is never the content of a       *)
(* mutation that did not commit, nor what a committed one replaced, so     *)
(* never a data file with the sidecar of another, whatever the failures,   *)
(* crashes and external writers, as long as a reader can read one file of   *)
(* the journal and the program itself took no commit file for absent.       *)
THEOREM NothingStaleShown == Spec => [](~misread => OutcomeVisible)
<1>1. ASSUME Inv, OutcomeInv, ~Journalled \/ (dir[Commit] # None /\ Holds(After(kind))), LockFree, NEW p \in Stale
      PROVE  dir[p[1]] # p[2]
  <2>1. kind \in Kind /\ committed \in BOOLEAN BY <1>1, KindType DEF Inv, ControlOK
  <2>2. CASE ~Journalled /\ committed
    <3>1. OldGone BY <1>1, <2>2 DEF Journalled, OutcomeInv, StaleOK, OldStale
    <3> QED BY <1>1, <2>2, <3>1 DEF Stale, OldGone
  <2>3. CASE ~Journalled /\ ~committed
    <3>1. NewAbsent BY <1>1, <2>3 DEF Journalled, OutcomeInv, StaleOK, NewStale
    <3> QED BY <1>1, <2>3, <3>1 DEF Stale, NewAbsent
  <2>4. CASE dir[Commit] # None /\ Holds(After(kind))
    <3>1. committed BY <1>1, <2>4 DEF OutcomeInv, JournalOK, CommitDecides
    <3>2. p \in Entries(Before(kind) \ After(kind)) BY <1>1, <3>1 DEF Stale
    <3>3. CASE kind # "delete"
      <4>1. OldGone BY <1>1, <3>1, <3>3 DEF OutcomeInv, StaleOK, OldStale
      <4> QED BY <3>2, <4>1 DEF OldGone
    <3>4. CASE kind = "delete"
      <4>1. PICK q \in {D, M} : p = <<N("public", q), Old(q)>> BY <3>2, <3>4, Differences
      <4>2. <<N("public", q), None>> \in After(kind) BY <3>4, Pairing
      <4>3. dir[N("public", q)] = None BY <2>4, <4>2 DEF Holds
      <4> QED BY <1>1, <3>4, <4>1, <4>3, Deleted
    <3> QED BY <3>3, <3>4
  <2> QED BY <1>1, <2>1, <2>2, <2>3, <2>4
<1>2. Inv /\ Judged /\ ~misread => OutcomeVisible
  <2> SUFFICES ASSUME Inv, OutcomeInv, LockFree, NEW read \in SUBSET JournalFiles, Shows(read),
                      Journalled => read # {}, NEW p \in Stale
               PROVE  dir[p[1]] # p[2]
    BY DEF Judged, OutcomeVisible
  <2> QED BY <1>1, ShownWhen
<1> QED BY <1>2, Invariance, OutcomeKept, PTL

(* Left alone by external writers, the item is the one before or the one   *)
(* after the mutation whenever no journal is left.                         *)
LEMMA WholeItem ==
  ASSUME Inv, OutcomeInv, dir[Marker] = None, used = {}
  PROVE  Holds(IF committed THEN After(kind) ELSE Before(kind))
<1>1. CASE ~committed BY <1>1 DEF OutcomeInv, OutcomeOK
<1>2. CASE committed /\ kind # "delete" BY <1>2 DEF OutcomeInv, OutcomeOK
<1>3. CASE committed /\ kind = "delete"
  <2>1. OldGone BY <1>3 DEF OutcomeInv, StaleOK, OldStale
  <2>2. ASSUME NEW q \in {D, M} PROVE dir[N("public", q)] = None
    <3>1. dir[N("public", q)] # Old(q)
      <4>1. <<N("public", q), Old(q)>> \in Entries(Before(kind) \ After(kind)) BY <1>3, Deleted
      <4> QED BY <2>1, <4>1 DEF OldGone
    <3>2. N("public", q) \in Name /\ dir[N("public", q)] \in {None, Old(q)} \union Foreign
      BY <1>3, Deleted
    <3>3. dir[N("public", q)] \notin Foreign BY <3>2 DEF OutcomeInv, NamesOK, Alone
    <3> QED BY <3>1, <3>2, <3>3
  <2> QED BY <1>3, <2>2, Pairing DEF Holds
<1> QED BY <1>1, <1>2, <1>3

(* Left alone by external writers, the item is the one before or the one   *)
(* after the mutation whenever no journal is left, in every reachable state*)
(* between operations, unless a commit file was taken for absent.          *)
THEOREM BeforeOrAfter == Spec => [](~misread => AllOrNothing)
<1>1. Inv /\ Judged /\ ~misread => AllOrNothing BY WholeItem DEF AllOrNothing, Journalled, Judged
<1> QED BY <1>1, Invariance, OutcomeKept, PTL

(* What decides a mutation: the commit file as it is written, or the start *)
(* of the end of a deletion.                                               *)
LEMMA Decision ==
  ASSUME Inv, OutcomeInv, [Work]_vars, committed' # committed
  PROVE  /\ ~committed /\ committed' /\ UNCHANGED <<kind, reply>>
         /\ \/ phase = "installing" /\ reply = "none"
            \/ kind = "delete" /\ phase = "down"
<1>1. committed \in BOOLEAN BY DEF Inv, ControlOK
<1>2. CASE FileStep
  <2>1. ~committed /\ phase = "installing"
    BY <1>2, CommitWritten DEF OutcomeInv
  <2> QED BY <1>1, <1>2, <2>1 DEF FileStep, OutcomeInv, PhaseOK
<1>3. CASE Installed
  BY <1>1, <1>3 DEF Installed, Done, OutcomeInv, PhaseOK
<1>4. CASE Reconcile
  BY <1>1, <1>4 DEF Reconcile
<1> QED BY <1>2, <1>3, <1>4
     DEF Work, vars, Begin, Progress, RollbackRaises, Crash, Overlook, Interference, control, Staged, Discarded,
         Cleaned, Healed, Kept, Closed, Rekept, RolledBack, Retired, Revived, Restored, Unlinked, RolledOut,
         Finished, Untombed

(* A caller is told of success only once the mutation is past its point of *)
(* no return, and what a caller has been told to have failed is not        *)
(* carried out later, except a deletion the next start finishes.           *)
THEOREM RepliesFinal == Spec => ReplyFinal
<1>1. ASSUME Inv, Judged, [Next]_<<vars, misread>>
      PROVE  /\ reply' = "ok" => committed'
             /\ reply = "error" /\ committed' # committed => kind = "delete" /\ phase = "down"
  <2>1. reply' = "ok" => committed'
    <3>1. Judged' BY <1>1, NextJudged
    <3> QED BY <3>1 DEF Judged, OutcomeInv, PhaseOK
  <2>2. CASE Misread BY <2>1, <2>2 DEF Misread, InstalledUnread, RecoverUnread
  <2>3. CASE [Work]_vars /\ ~misread
    <3>1. reply = "error" /\ committed' # committed => kind = "delete" /\ phase = "down"
      BY <1>1, <2>3, Decision DEF Judged
    <3> QED BY <2>1, <3>1
  <2>4. CASE [Work]_vars /\ misread
    <3>1. committed /\ committed' BY <1>1, <2>4, CommitStays DEF Judged
    <3>2. committed \in BOOLEAN /\ committed' \in BOOLEAN BY <1>1, NextInv DEF Inv, ControlOK
    <3> QED BY <3>1, <3>2
  <2> QED BY <1>1, <2>2, <2>3, <2>4, NextSplit
<1>2. Inv /\ Judged /\ [Next]_<<vars, misread>> =>
        [/\ reply' = "ok" => committed'
         /\ reply = "error" /\ committed' # committed => kind = "delete" /\ phase = "down"]_vars
  BY <1>1
<1> QED BY <1>2, Invariance, OutcomeKept, PTL DEF Spec, ReplyFinal

-----------------------------------------------------------------------------
(* The value of the item is decided as the mutation is.                    *)
LEMMA ValueDecided ==
  ASSUME Inv, OutcomeInv, used = {} PROVE Value = IF committed THEN "after" ELSE "before"
<1>1. kind \in Kind /\ committed \in BOOLEAN BY KindType DEF Inv, ControlOK
<1>2. dir[Commit] # None => committed BY DEF OutcomeInv, JournalOK, CommitDecides
<1>3. CASE committed
  <2>1. kind # "delete" /\ dir[Commit] = None => ~Journalled /\ Holds(After(kind))
    BY <1>3 DEF OutcomeInv, JournalOK, CommitDecides, OutcomeOK, Journalled
  <2> QED BY <1>3, <2>1 DEF Value
<1>4. CASE ~committed
  <2> SUFFICES ASSUME kind # "delete", ~Journalled, Holds(After(kind)) PROVE FALSE
    BY <1>2, <1>4 DEF Value
  <2>1. Holds(Before(kind)) BY <1>4 DEF OutcomeInv, OutcomeOK, Journalled
  <2>2. \A q \in {D, M} : New(q) # None /\ Old(q) # None /\ Old(q) # New(q) BY Places, Names
  <2>3. CASE kind \in {"fresh", "replace"}
    <3>1. <<N("public", D), New(D)>> \in After(kind) BY <2>3, Pairing
    <3>2. <<N("public", D), None>> \in Before(kind) \/ <<N("public", D), Old(D)>> \in Before(kind)
      BY <2>3, Pairing
    <3> QED BY <2>1, <2>2, <3>1, <3>2 DEF Holds
  <2>4. CASE kind = "rename"
    <3>1. <<N("source", D), None>> \in After(kind) /\ <<N("source", D), Old(D)>> \in Before(kind)
      BY <2>4, Pairing
    <3> QED BY <2>1, <2>2, <3>1 DEF Holds
  <2> QED BY <1>1, <2>3, <2>4 DEF Kind
<1> QED BY <1>3, <1>4

(* And so it is after a step.                                              *)
LEMMA ValueDecidedNext ==
  (Inv /\ OutcomeInv /\ used = {} => Value = IF committed THEN "after" ELSE "before")'
<1>1. Inv /\ OutcomeInv /\ used = {} => Value = IF committed THEN "after" ELSE "before" BY ValueDecided
<1> QED BY <1>1, PTL

(* What a caller hears, and when.                                          *)
LEMMA Hearing ==
  ASSUME Inv, OutcomeInv, [Work]_vars, reply' # reply
  PROVE  reply = "none" /\ reply' \in {"ok", "error", "lost"} /\ committed' = committed /\ kind' = kind
<1>1. committed' = committed BY Decision
<1>2. CASE Begin BY <1>1, <1>2 DEF Begin
<1>3. CASE Discarded BY <1>1, <1>3 DEF Discarded, Done, OutcomeInv, PhaseOK
<1>4. CASE Closed \/ Rekept \/ Finished \/ Untombed
  <2>1. PICK good : Answer(good)
    <3>1. CASE Closed BY <3>1 DEF Closed
    <3>2. CASE Rekept BY <3>2 DEF Rekept
    <3>3. CASE Finished
      <4>1. ~ok BY <3>3 DEF Finished, Done
      <4> QED BY <3>3, <4>1 DEF Finished
    <3>4. CASE Untombed BY <3>4 DEF Untombed
    <3> QED BY <1>4, <3>1, <3>2, <3>3, <3>4
  <2>2. kind' = kind BY <1>4 DEF Closed, Rekept, Finished, Untombed
  <2> QED BY <1>1, <2>1, <2>2 DEF Answer
<1>5. CASE Crash BY <1>1, <1>5 DEF Crash
<1> QED BY <1>2, <1>3, <1>4, <1>5
     DEF Work, vars, FileStep, Progress, RollbackRaises, Overlook, Interference, control, Staged, Installed,
         Cleaned, Healed, Kept, RolledBack, Retired, Revived, Restored, Unlinked, RolledOut, Reconcile

(* A step of the transaction is one of the atomic item, or none.           *)
LEMMA AtomicStep ==
  ASSUME Inv, OutcomeInv, OutcomeInv', Inv', used = {}, used' = {}, [Work]_vars
  PROVE  [Abstract!Next]_(Abstract!vars)
<1>1. Value = IF committed THEN "after" ELSE "before" BY ValueDecided
<1>2. Value' = IF committed' THEN "after" ELSE "before" BY ValueDecidedNext
<1>3. kind' = kind
  BY DEF Work, vars, FileStep, Begin, Progress, RollbackRaises, Crash, Overlook, Interference, control, Staged,
         Installed, Discarded, Cleaned, Healed, Kept, Closed, Rekept, RolledBack, Retired, Revived,
         Restored, Unlinked, RolledOut, Finished, Untombed, Reconcile
<1>4. CASE committed' # committed
  <2>1. ~committed /\ committed' /\ reply' = reply BY <1>4, Decision
  <2>2. reply \in {"none", "lost", "error"}
    BY <2>1 DEF OutcomeInv, PhaseOK, Inv, ControlOK
  <2>3. reply = "error" => kind = "delete" BY <1>4, Decision
  <2>4. Abstract!Apply BY <1>1, <1>2, <2>1, <2>2, <2>3 DEF Abstract!Apply
  <2> QED BY <1>3, <2>4 DEF Abstract!Next
<1>5. CASE committed' = committed /\ reply' # reply
  <2>1. reply = "none" /\ reply' \in {"ok", "error", "lost"} BY <1>5, Hearing
  <2>2. Value' = Value BY <1>1, <1>2, <1>5
  <2>3. reply' = "ok" => Value = "after"
    <3>1. reply' = "ok" => committed' BY DEF OutcomeInv, PhaseOK
    <3> QED BY <1>1, <1>5, <3>1
  <2>4. Abstract!Succeed \/ Abstract!Reject \/ Abstract!Die
    BY <2>1, <2>2, <2>3 DEF Abstract!Succeed, Abstract!Reject, Abstract!Die
  <2> QED BY <1>3, <2>4 DEF Abstract!Next
<1>6. CASE committed' = committed /\ reply' = reply
  BY <1>1, <1>2, <1>3, <1>6 DEF Abstract!vars
<1> QED BY <1>4, <1>5, <1>6

(* Without external writers the transaction, with its failures, process    *)
(* deaths and recoveries, implements the atomic item: one change at most,  *)
(* success only after it, and no change after a failure (but of a deletion *)
(* whose marker the next start finds); a commit file taken for absent is    *)
(* left out.                                                               *)
THEOREM Atomicity == Spec /\ [](used = {}) /\ []~misread => Atomic
<1> DEFINE Plain == Inv /\ Judged /\ used = {} /\ ~misread
<1>1. Init /\ Plain => Abstract!Init
  <2> SUFFICES ASSUME Init, Inv, OutcomeInv, used = {} PROVE Abstract!Init BY DEF Judged
  <2>1. Value = "before" BY ValueDecided DEF Init
  <2> QED BY <2>1 DEF Abstract!Init, Init
<1>2. Plain /\ Plain' /\ [Next]_<<vars, misread>> => [Abstract!Next]_(Abstract!vars)
  <2> SUFFICES ASSUME Plain, Plain', [Next]_<<vars, misread>> PROVE [Abstract!Next]_(Abstract!vars)
    OBVIOUS
  <2>1. ~Misread BY DEF Misread, InstalledUnread, RecoverUnread, Misreads
  <2>2. [Work]_vars BY <2>1, NextSplit
  <2>3. Inv /\ OutcomeInv /\ used = {} /\ Inv' /\ OutcomeInv' /\ used' = {} BY DEF Judged
  <2> HIDE DEF Plain
  <2> QED BY <2>2, <2>3, AtomicStep
<1>3. Spec /\ [](used = {}) /\ []~misread => []Plain BY Invariance, OutcomeKept, PTL
<1> QED BY <1>1, <1>2, <1>3, PTL DEF Spec, Atomic, Abstract!Spec
-----------------------------------------------------------------------------
(***************************************************************************)
(* The last copy: a file of the pair that recovery has to publish is only  *)
(* unlinked while the public names hold the pair, except that a committed  *)
(* rename drops its backup of the data file as soon as it looked once; it  *)
(* has a second copy, the guard, as long as the backup holds the file.     *)
(***************************************************************************)

DataBackup == N("backup", D)
DataGuard == N("guard", D)
Keeping == {"keeping", "rekeeping"}
Files(pair) == {p[2] : p \in Entries(pair)}

(* The pair that a part of the mutation must leave within reach.           *)
Protected(k, ph) == IF ph \in PublishPhases THEN After(k) ELSE Before(k)

Spares(k, ph, s) ==
  /\ s.op = "purge" => ph = "purging"
  /\ s.op = "close" => s.pair = Protected(k, ph)
  /\ s.op \in {"drop", "retract"} /\ ph \notin {"finishing", "emptying", "untombing"} =>
       \/ s.id \notin Files(Protected(k, ph))
       \/ s.guarded /\ s.pair = Protected(k, ph)
       \/ ph \in PublishPhases /\ k = "rename" /\ Drops(s, DataBackup)
  /\ ph \in Keeping => s.op \in {"retain", "preserve"} /\ (s.op = "retain" => s.strict)
  /\ s.op = "retain" => ph \in Keeping \union Retiring

(* What a rename does to the two private copies of its data.               *)
Shelters(ph, s) ==
  /\ {s.name, s.to} \cap {DataBackup, DataGuard} # {} => s.op \in {"link", "drop", "retain"}
  /\ s.op = "link" /\ DataGuard \in {s.name, s.to} =>
       s.name = DataBackup /\ s.to = DataGuard /\ s.id = Old(D)
  /\ Drops(s, DataBackup) => s.strict
  /\ Drops(s, DataGuard) => ph # "discarding"

Careful(k, ph) == {s \in Step : Spares(k, ph, s) /\ (k = "rename" => Shelters(ph, s))}

Dropping(n) == todo # << >> /\ step.op = "drop" /\ stage \in {"confirm", "unlink"} /\ step.name = n
Retains(s, n) == s.op = "retain" /\ s.name = n

(* The guard is made of the backup once that was seen to be the data file. *)
LinkSeen == At({"link"}, "act") /\ step.to = DataGuard => dir[DataBackup] = Old(D)
GuardOwn == dir[DataGuard] \notin Foreign /\ (Dropping(DataGuard) => dir[moved] \notin Foreign)
InstallGuards ==
  phase = "installing" /\ ok =>
    dir[DataGuard] = Old(D) \/ \E j \in 1..Len(todo) : todo[j].op = "link" /\ todo[j].to = DataGuard

(* The cleanup drops the backup before the guard, and a cleanup that fails *)
(* gives the guard its name back before the backup.                        *)
BackupFirst ==
  \A j \in 1..Len(todo) : Drops(todo[j], DataGuard) =>
    dir[DataBackup] # Old(D) \/ \E i \in 1..(j - 1) : Drops(todo[i], DataBackup)
GuardKeptFirst ==
  \A j \in 1..Len(todo) : Retains(todo[j], DataBackup) =>
    \/ dir[DataGuard] # None
    \/ \A h \in handles : dir[h] # Old(D)
    \/ \E i \in 1..(j - 1) : Retains(todo[i], DataGuard)

DataGuarded ==
  committed /\ (dir[DataBackup] = Old(D) \/ (Dropping(DataBackup) /\ dir[moved] = Old(D))) =>
    dir[DataGuard] = Old(D)

GuardOK ==
  /\ LinkSeen /\ GuardOwn /\ InstallGuards /\ DataGuarded
  /\ phase \in PublishPhases => BackupFirst
  /\ phase \in Keeping => GuardKeptFirst

CopiesOK == todo \in Seq(Careful(kind, phase)) /\ (kind = "rename" => GuardOK)

(* The remaining fields of the steps.                                      *)
LEMMA RestShapes ==
  /\ \A n, i : LET s == Write(n, i) IN s.op = "write" /\ s.name = n /\ s.to = Marker
  /\ \A n, i : LET s == Drop(n, i) IN s.op = "drop" /\ s.name = n /\ s.to = Marker /\ s.id = i /\ s.strict
  /\ \A n, i : LET s == Retract(n, i) IN s.op = "retract" /\ s.name = n /\ s.to = Marker /\ s.id = i
  /\ \A n, i : LET s == Heal(n, i) IN s.op = "heal" /\ s.name = n /\ s.to = Marker
  /\ \A n, i : LET s == Retain(n, i) IN s.op = "retain" /\ s.name = n /\ s.to = Marker /\ s.id = i /\ s.strict
  /\ \A n, i : LET s == Expect(n, i) IN s.op = "expect" /\ s.name = n /\ s.to = Marker
  /\ \A n, cs, i : LET s == Relink(n, cs, i) IN s.op = "relink" /\ s.name = n /\ s.to = Marker
  /\ \A n, pair : LET s == Preserve(n, pair) IN s.op = "preserve" /\ s.name = n /\ s.to = Marker
  /\ \A i : LET s == Purge(i) IN s.op = "purge" /\ s.name = Marker /\ s.to = Marker
  /\ Flush.op = "flush" /\ Flush.name = Marker /\ Flush.to = Marker
BY DEF Flush, Write, Drop, Retract, Heal, Retain, Expect, Relink, Preserve, Purge

(* The same of those that depend on a pair.                                *)
LEMMA PairShapes ==
  /\ \A pair, n, i : LET s == DropIf(pair, n, i)
                     IN s.op = "drop" /\ s.name = n /\ s.to = Marker /\ s.id = i /\ s.strict
  /\ \A pair, n, i : LET s == Guarded(pair, n, i)
                     IN /\ s.op = "drop" /\ s.name = n /\ s.to = Marker /\ s.id = i /\ s.pair = pair
                        /\ s.guarded /\ s.strict
  /\ \A pair : LET s == Adopt(pair) IN s.op = "adopt" /\ s.name = Marker /\ s.to = Marker
  /\ \A pair : LET s == Assert(pair) IN s.op = "assert" /\ s.name = Marker /\ s.to = Marker
  /\ \A pair : LET s == Close(pair) IN s.op = "close" /\ s.name = Marker /\ s.to = Marker /\ s.pair = pair
BY DEF Flush, Drop, DropIf, Guarded, Adopt, Assert, Close

(* The two copies among the names of an item.                              *)
LEMMA TwoCopies ==
  /\ DataBackup # DataGuard /\ DataBackup \in Private /\ DataGuard \in Private
  /\ DataBackup \in Entry /\ DataGuard \in Entry /\ DataBackup \notin Scrap /\ DataGuard \notin Scrap
  /\ Marker \notin {DataBackup, DataGuard} /\ Commit \notin {DataBackup, DataGuard}
  /\ \A place \in {"public", "source", "target", "temp", "backup", "guard", "spare"}, p \in {D, M} :
       /\ N(place, p) = DataBackup <=> place = "backup" /\ p = D
       /\ N(place, p) = DataGuard <=> place = "guard" /\ p = D
BY Places, Names, Apart DEF DataBackup, DataGuard

(* The files of the pairs.                                                 *)
LEMMA PairFiles ==
  /\ Files(Before("fresh")) = {} /\ Files(After("delete")) = {}
  /\ \A k \in {"replace", "delete", "rename"} : Files(Before(k)) = {Old(D), Old(M)}
  /\ \A k \in {"fresh", "replace"} : Files(After(k)) = {New(D), New(M)}
  /\ Files(After("rename")) = {Old(D), New(M)}
<1>1. \A p \in {D, M} : Old(p) # None /\ New(p) # None BY Names, Apart
<1>2. Entries(Before("fresh")) = {} /\ Entries(After("delete")) = {} BY Pairing DEF Entries
<1>3. \A k \in {"replace", "delete"} :
        Entries(Before(k)) = {<<N("public", D), Old(D)>>, <<N("public", M), Old(M)>>}
  BY <1>1, Pairing DEF Entries
<1>4. Entries(Before("rename")) = {<<N("source", D), Old(D)>>, <<N("source", M), Old(M)>>}
  BY <1>1, Pairing DEF Entries
<1>5. \A k \in {"fresh", "replace"} :
        Entries(After(k)) = {<<N("public", D), New(D)>>, <<N("public", M), New(M)>>}
  BY <1>1, Pairing DEF Entries
<1>6. Entries(After("rename")) = {<<N("target", D), Old(D)>>, <<N("target", M), New(M)>>}
  BY <1>1, Pairing DEF Entries
<1>7. Files(Before("fresh")) = {} /\ Files(After("delete")) = {} BY <1>2 DEF Files
<1>8. ASSUME NEW k \in {"replace", "delete"} PROVE Files(Before(k)) = {Old(D), Old(M)}
  <2>1. PICK m, n, i, j : Entries(Before(k)) = {<<m, i>>, <<n, j>>} /\ i = Old(D) /\ j = Old(M)
    BY <1>3
  <2>2. PICK E : E = {<<m, i>>, <<n, j>>} OBVIOUS
  <2>3. {p[2] : p \in E} = {i, j} BY <2>2
  <2> QED BY <2>1, <2>2, <2>3 DEF Files
<1>9. Files(Before("rename")) = {Old(D), Old(M)}
  <2>1. PICK m, n, i, j : Entries(Before("rename")) = {<<m, i>>, <<n, j>>} /\ i = Old(D) /\ j = Old(M)
    BY <1>4
  <2>2. PICK E : E = {<<m, i>>, <<n, j>>} OBVIOUS
  <2>3. {p[2] : p \in E} = {i, j} BY <2>2
  <2> QED BY <2>1, <2>2, <2>3 DEF Files
<1>10. ASSUME NEW k \in {"fresh", "replace"} PROVE Files(After(k)) = {New(D), New(M)}
  <2>1. PICK m, n, i, j : Entries(After(k)) = {<<m, i>>, <<n, j>>} /\ i = New(D) /\ j = New(M)
    BY <1>5
  <2>2. PICK E : E = {<<m, i>>, <<n, j>>} OBVIOUS
  <2>3. {p[2] : p \in E} = {i, j} BY <2>2
  <2> QED BY <2>1, <2>2, <2>3 DEF Files
<1>11. Files(After("rename")) = {Old(D), New(M)}
  <2>1. PICK m, n, i, j : Entries(After("rename")) = {<<m, i>>, <<n, j>>} /\ i = Old(D) /\ j = New(M)
    BY <1>6
  <2>2. PICK E : E = {<<m, i>>, <<n, j>>} OBVIOUS
  <2>3. {p[2] : p \in E} = {i, j} BY <2>2
  <2> QED BY <2>1, <2>2, <2>3 DEF Files
<1> QED BY <1>7, <1>8, <1>9, <1>10, <1>11

(* A step that leaves the two copies alone, or unlinks one with care.      *)
LEMMA Sheltered ==
  ASSUME NEW ph, NEW s, s.to \notin {DataBackup, DataGuard},
         \/ s.name \notin {DataBackup, DataGuard}
         \/ s.op = "retain"
         \/ s.op = "drop" /\ s.strict /\ ph # "discarding"
  PROVE  Shelters(ph, s)
BY TwoCopies DEF Shelters, Drops

(* Steps that unlink nothing and keep no copy are careful, ...             *)
LEMMA PlainCareful ==
  ASSUME NEW k, NEW ph, ph \notin Keeping, NEW s \in Step,
         s.op \notin {"purge", "close", "drop", "retract", "retain"},
         k = "rename" => {s.name, s.to} \cap {DataBackup, DataGuard} = {}
  PROVE  s \in Careful(k, ph)
<1>1. Spares(k, ph, s) BY DEF Spares
<1>2. k = "rename" => Shelters(ph, s) BY TwoCopies DEF Shelters, Drops
<1> QED BY <1>1, <1>2 DEF Careful

(* ... and so are those that unlink no file of the pair, ...               *)
LEMMA DropCareful ==
  ASSUME NEW k, NEW ph, ph \notin Keeping, NEW s \in Step, s.op \in {"drop", "retract"},
         s.id \notin Files(Protected(k, ph)), s.to = Marker,
         k = "rename" => s.name \notin {DataBackup, DataGuard}
  PROVE  s \in Careful(k, ph)
<1>1. Spares(k, ph, s) BY DEF Spares
<1>2. k = "rename" => Shelters(ph, s) BY TwoCopies, Sheltered
<1> QED BY <1>1, <1>2 DEF Careful

(* ... or look at the pair again before they do.                           *)
LEMMA GuardedCareful ==
  ASSUME NEW k \in Kind, NEW ph, ph \notin Keeping \union {"discarding"}, NEW n \in Entry, NEW i \in Own
  PROVE  Guarded(Protected(k, ph), n, i) \in Careful(k, ph)
<1> DEFINE s == Guarded(Protected(k, ph), n, i)
<1>1. s \in Step BY PairSteps, PairTypes DEF Protected
<1>2. /\ s.op = "drop" /\ s.name = n /\ s.to = Marker /\ s.id = i /\ s.pair = Protected(k, ph)
      /\ s.guarded /\ s.strict
  BY PairShapes
<1> HIDE DEF s
<1>3. Spares(k, ph, s) BY <1>2 DEF Spares
<1>4. Shelters(ph, s) BY <1>2, TwoCopies, Sheltered
<1> QED BY <1>1, <1>3, <1>4 DEF Careful, s

(* The scripts of the four mutations are careful: before the commit, ...   *)
LEMMA StagingCareful ==
  \A k \in Kind : Staging(k) \in Seq(Careful(k, "staging")) /\ Install(k) \in Seq(Careful(k, "installing"))
<1> SUFFICES ASSUME NEW k \in Kind
             PROVE  /\ Staging(k) \in Seq(Careful(k, "staging"))
                    /\ Install(k) \in Seq(Careful(k, "installing"))
  OBVIOUS
<1>1. "staging" \notin Keeping /\ "installing" \notin Keeping BY DEF Keeping
<1>2. ASSUME NEW p \in {D, M} PROVE Write(N("temp", p), New(p)) \in Careful(k, "staging")
  <2>1. Write(N("temp", p), New(p)) \in Step BY PlainSteps, Names
  <2> QED BY <1>1, <2>1, RestShapes, TwoCopies, PlainCareful
<1>3. ASSUME NEW n \in Journal, NEW ph \in {"staging", "installing"} PROVE Log(n) \in Careful(k, ph)
  <2>1. Log(n) \in Step BY JournalSteps, PairTypes DEF Kind
  <2>2. n \notin {DataBackup, DataGuard} BY TwoCopies, Places
  <2> QED BY <1>1, <2>1, <2>2, RestShapes, TwoCopies, PlainCareful DEF Log
<1>4. Flush \in Careful(k, "installing") BY <1>1, FlushType, RestShapes, TwoCopies, PlainCareful
<1>5. ASSUME NEW n \in Entry, NEW t \in Entry, NEW i \in Own,
             k = "rename" => {n, t} \cap {DataBackup, DataGuard} = {}
      PROVE  Move(n, t, i) \in Careful(k, "installing") /\ Link(n, t, i) \in Careful(k, "installing")
  <2>1. Move(n, t, i) \in Step /\ Link(n, t, i) \in Step BY PlainSteps
  <2> QED BY <1>1, <1>5, <2>1, MoveShapes, PlainCareful
<1>6. Staging(k) \in Seq(Careful(k, "staging"))
  <2>1. Log(Marker) \in Careful(k, "staging") BY <1>3, Names
  <2> QED BY <1>2, <2>1 DEF Staging, Kind
<1>7. Log(Commit) \in Careful(k, "installing") BY <1>3, Names
<1>8. CASE k # "rename"
  <2>1. \A from, to \in {"public", "temp", "backup", "guard"}, p \in {D, M} :
          /\ Move(N(from, p), N(to, p), Old(p)) \in Careful(k, "installing")
          /\ Move(N(from, p), N(to, p), New(p)) \in Careful(k, "installing")
          /\ Link(N(from, p), N(to, p), New(p)) \in Careful(k, "installing")
    BY <1>5, <1>8, Names
  <2> QED BY <1>4, <1>6, <1>7, <1>8, <2>1 DEF Install, Kind
<1>9. CASE k = "rename"
  <2>1. ASSUME NEW s \in {Link(N("source", D), N("backup", D), Old(D)), Link(N("backup", D), N("guard", D), Old(D))}
        PROVE  s \in Careful(k, "installing")
    <3>1. s \in Step BY PlainSteps, Names
    <3>2. /\ s.op = "link" /\ s.id = Old(D)
          /\ \/ s.name = N("source", D) /\ s.to = DataBackup
             \/ s.name = DataBackup /\ s.to = DataGuard
      BY MoveShapes DEF DataBackup, DataGuard
    <3>3. N("source", D) \notin {DataBackup, DataGuard} BY TwoCopies
    <3>4. Spares(k, "installing", s) BY <1>1, <3>2 DEF Spares
    <3>5. Shelters("installing", s) BY <3>2, <3>3, TwoCopies DEF Shelters, Drops
    <3> QED BY <3>1, <3>4, <3>5 DEF Careful
  <2>2. /\ Link(N("source", M), N("spare", M), Old(M)) \in Careful(k, "installing")
        /\ Move(N("source", D), N("target", D), Old(D)) \in Careful(k, "installing")
        /\ Move(N("source", M), N("backup", M), Old(M)) \in Careful(k, "installing")
        /\ Link(N("temp", M), N("target", M), New(M)) \in Careful(k, "installing")
        /\ Link(N("temp", M), N("guard", M), New(M)) \in Careful(k, "installing")
    BY <1>5, Names, TwoCopies, Places
  <2> QED BY <1>4, <1>6, <1>7, <1>9, <2>1, <2>2 DEF Install, InstallRename
<1> QED BY <1>8, <1>9

(* ... when the temporary files go, ...                                    *)
LEMMA LeftoversCareful == \A k \in Kind : Leftovers(k) \in Seq(Careful(k, "discarding"))
<1> SUFFICES ASSUME NEW k \in Kind PROVE Leftovers(k) \in Seq(Careful(k, "discarding")) OBVIOUS
<1>1. ASSUME NEW p \in {D, M} PROVE Leniently(Drop(N("temp", p), New(p))) \in Careful(k, "discarding")
  <2>1. Drop(N("temp", p), New(p)) \in Step BY PlainSteps, Names
  <2>2. New(p) \notin Files(Protected(k, "discarding"))
    BY PairFiles, Places DEF Protected, PublishPhases, Kind
  <2>3. "discarding" \notin Keeping BY DEF Keeping
  <2> QED BY <2>1, <2>2, <2>3, LenientShape, RestShapes, TwoCopies, DropCareful
<1> QED BY <1>1 DEF Leftovers, Kind

(* ... when a committed pair is cleaned up after, ...                      *)
LEMMA CleanupCareful ==
  \A k \in Kind \ {"delete"}, ph \in {"cleaning", "recleaning"} : Cleanup(k) \in Seq(Careful(k, ph))
<1> SUFFICES ASSUME NEW k \in Kind \ {"delete"}, NEW ph \in {"cleaning", "recleaning"}
             PROVE  Cleanup(k) \in Seq(Careful(k, ph))
  OBVIOUS
<1>1. ph \notin Keeping \union {"discarding"} /\ Protected(k, ph) = After(k) /\ ph \in PublishPhases
  BY DEF Keeping, Protected, PublishPhases
<1>2. /\ Assert(After(k)) \in Careful(k, ph) /\ Adopt(After(k)) \in Careful(k, ph)
      /\ Flush \in Careful(k, ph)
  <2>1. Assert(After(k)) \in Step /\ Adopt(After(k)) \in Step /\ Flush \in Step
    BY PairSteps, PairTypes, Names, FlushType
  <2> QED BY <1>1, <2>1, RestShapes, PairShapes, TwoCopies, PlainCareful
<1>3. ASSUME NEW place \in {"public", "target"}, NEW p \in {D, M}, NEW cs \in SUBSET Entry, NEW i \in Own
      PROVE  Relink(N(place, p), cs, i) \in Careful(k, ph)
  <2>1. Relink(N(place, p), cs, i) \in Step BY CopySteps, Names
  <2>2. N(place, p) \notin {DataBackup, DataGuard} BY TwoCopies
  <2> QED BY <1>1, <2>1, <2>2, RestShapes, TwoCopies, PlainCareful
<1>4. ASSUME NEW n \in Journal PROVE DropIf(After(k), n, n) \in Careful(k, ph)
  <2>1. DropIf(After(k), n, n) \in Step BY PairSteps, PairTypes DEF Entry, Own
  <2>2. n \notin Files(After(k)) /\ n \notin {DataBackup, DataGuard}
    BY PairFiles, Apart, Places, TwoCopies DEF Kind, Own, File, Journal, Old, New
  <2> QED BY <1>1, <2>1, <2>2, PairShapes, DropCareful
<1>5. Retire(k) \in Seq(Careful(k, ph)) BY <1>2, <1>4, Names DEF Retire
<1>6. ASSUME NEW n \in Entry, NEW i \in Own PROVE Guarded(After(k), n, i) \in Careful(k, ph)
  BY <1>1, <1>6, GuardedCareful
<1>7. CASE k \in {"fresh", "replace"}
  <2> DEFINE one == << Relink(N("public", D), {N("temp", D), N("guard", D)}, New(D)),
                       Relink(N("public", M), {N("temp", M), N("guard", M)}, New(M)),
                       Assert(After(k)) >>
             two == IF k = "fresh" THEN << >>
                      ELSE << DropIf(After(k), N("backup", D), Old(D)),
                              Guarded(After(k), N("backup", M), Old(M)) >>
             three == << Guarded(After(k), N("temp", M), New(M)), Adopt(After(k)),
                         Guarded(After(k), N("guard", M), New(M)),
                         Guarded(After(k), N("temp", D), New(D)), Guarded(After(k), N("guard", D), New(D)) >>
  <2>1. one \in Seq(Careful(k, ph)) BY <1>2, <1>3, Names
  <2>2. DropIf(After(k), N("backup", D), Old(D)) \in Careful(k, ph)
    <3>1. DropIf(After(k), N("backup", D), Old(D)) \in Step BY PairSteps, PairTypes, Names
    <3>2. Old(D) \notin Files(After(k)) BY <1>7, PairFiles, Places
    <3> QED BY <1>1, <1>7, <3>1, <3>2, PairShapes, DropCareful
  <2>3. two \in Seq(Careful(k, ph)) BY <1>6, <2>2, Names
  <2>4. three \in Seq(Careful(k, ph)) BY <1>2, <1>6, Names
  <2>5. Cleanup(k) = one \o two \o three \o Retire(k) BY <1>7 DEF Cleanup
  <2> HIDE DEF one, two, three
  <2> QED BY <1>5, <2>1, <2>3, <2>4, <2>5
<1>8. CASE k = "rename"
  <2> DEFINE after == After("rename")
  <2> DEFINE one ==
        << Relink(N("target", D), {N("backup", D), N("guard", D)}, Old(D)),
           Relink(N("target", M), {N("temp", M), N("guard", M)}, New(M)),
           Assert(after),
           Guarded(after, N("backup", M), Old(M)), Guarded(after, N("temp", M), New(M)),
           Guarded(after, N("spare", M), Old(M)), DropIf(after, N("backup", D), Old(D)),
           Adopt(after),
           Guarded(after, N("guard", M), New(M)), Guarded(after, N("guard", D), Old(D)) >>
  <2>1. DropIf(after, N("backup", D), Old(D)) \in Careful(k, ph)
    <3> DEFINE s == DropIf(after, N("backup", D), Old(D))
    <3>1. s \in Step BY <1>8, PairSteps, PairTypes, Names
    <3>2. s.op = "drop" /\ s.name = DataBackup /\ s.to = Marker /\ s.strict BY PairShapes DEF DataBackup
    <3> HIDE DEF s
    <3>3. Spares(k, ph, s) BY <1>1, <1>8, <3>2 DEF Spares, Drops
    <3>4. Shelters(ph, s) BY <1>1, <3>2, TwoCopies, Sheltered
    <3> QED BY <3>1, <3>3, <3>4 DEF Careful, s
  <2>2. /\ Relink(N("target", D), {N("backup", D), N("guard", D)}, Old(D)) \in Careful(k, ph)
        /\ Relink(N("target", M), {N("temp", M), N("guard", M)}, New(M)) \in Careful(k, ph)
    BY <1>3, Names
  <2>3. one \in Seq(Careful(k, ph)) BY <1>2, <1>6, <1>8, <2>1, <2>2, Names
  <2>4. Cleanup(k) = one \o Retire(k) BY <1>8 DEF Cleanup, CleanupRename
  <2> HIDE DEF one
  <2> QED BY <1>5, <2>3, <2>4
<1> QED BY <1>7, <1>8 DEF Kind

(* ... when its copies are kept or closed, ...                             *)
LEMMA KeepNewCareful ==
  ASSUME NEW k \in Kind \ {"delete"}
  PROVE  /\ HealNew(k) \in Seq(Careful(k, "healing"))
         /\ \A ph \in Keeping : KeepNew(k) \in Seq(Careful(k, ph)) /\ KeepCommit \in Seq(Careful(k, ph))
         /\ << Close(After(k)) >> \in Seq(Careful(k, "closing"))
<1>1. HealNew(k) \in Seq(Careful(k, "healing"))
  <2>1. ASSUME NEW place \in {"public", "target"}, NEW p \in {D, M}, NEW i \in Own
        PROVE  Heal(N(place, p), i) \in Careful(k, "healing")
    <3>1. Heal(N(place, p), i) \in Step BY PlainSteps, Names
    <3>2. N(place, p) \notin {DataBackup, DataGuard} /\ "healing" \notin Keeping BY TwoCopies DEF Keeping
    <3> QED BY <3>1, <3>2, RestShapes, TwoCopies, PlainCareful
  <2> QED BY <2>1, Names DEF HealNew, Kind
<1>2. ASSUME NEW ph \in Keeping, NEW n \in Entry, NEW i \in Own PROVE Retain(n, i) \in Careful(k, ph)
  <2> DEFINE s == Retain(n, i)
  <2>1. s \in Step BY PlainSteps
  <2>2. s.op = "retain" /\ s.name = n /\ s.to = Marker /\ s.strict BY RestShapes
  <2> HIDE DEF s
  <2>3. Spares(k, ph, s) BY <2>2 DEF Spares
  <2>4. Shelters(ph, s) BY <2>2, TwoCopies, Sheltered
  <2> QED BY <2>1, <2>3, <2>4 DEF Careful, s
<1>3. ASSUME NEW ph \in Keeping PROVE Leniently(Preserve(Commit, {})) \in Careful(k, ph)
  <2> DEFINE s == Leniently(Preserve(Commit, {}))
  <2>1. Preserve(Commit, {}) \in Step BY JournalSteps, Names DEF Pairs
  <2>2. s \in Step /\ s.op = "preserve" /\ s.name = Commit /\ s.to = Marker
    BY <2>1, RestShapes, LenientShape
  <2> HIDE DEF s
  <2>3. Spares(k, ph, s) BY <2>2 DEF Spares
  <2>4. Shelters(ph, s) BY <2>2, TwoCopies, Sheltered
  <2> QED BY <2>2, <2>3, <2>4 DEF Careful, s
<1>4. Close(After(k)) \in Careful(k, "closing")
  <2> DEFINE s == Close(After(k))
  <2>1. s \in Step BY PairSteps, PairTypes, Names
  <2>2. s.op = "close" /\ s.name = Marker /\ s.to = Marker /\ s.pair = After(k) BY PairShapes
  <2> HIDE DEF s
  <2>3. Spares(k, "closing", s) BY <2>2 DEF Spares, Protected, PublishPhases, Keeping
  <2>4. Shelters("closing", s) BY <2>2, TwoCopies, Sheltered
  <2> QED BY <2>1, <2>3, <2>4 DEF Careful, s
<1> QED BY <1>1, <1>2, <1>3, <1>4, Names DEF KeepNew, KeepCommit, Kind

(* ... when a prepared one is rolled back, ...                             *)
LEMMA RollbackCareful == \A k \in Kind : Rollback(k) \in Seq(Careful(k, "rolling"))
<1> SUFFICES ASSUME NEW k \in Kind PROVE Rollback(k) \in Seq(Careful(k, "rolling")) OBVIOUS
<1>1. "rolling" \notin Keeping /\ Protected(k, "rolling") = Before(k)
  BY DEF Keeping, Protected, PublishPhases
<1>2. ASSUME NEW p \in {D, M}, NEW place \in {"public", "target", "temp", "guard"}, place = "guard" => k # "rename" \/ p = M
      PROVE  /\ Leniently(Drop(N(place, p), New(p))) \in Careful(k, "rolling")
             /\ Leniently(Retract(N(place, p), New(p))) \in Careful(k, "rolling")
  <2>1. Drop(N(place, p), New(p)) \in Step /\ Retract(N(place, p), New(p)) \in Step BY PlainSteps, Names
  <2>2. New(p) \notin Files(Before(k)) BY PairFiles, Places DEF Kind
  <2>3. k = "rename" => N(place, p) \notin {DataBackup, DataGuard} BY <1>2, TwoCopies, Places
  <2> QED BY <1>1, <2>1, <2>2, <2>3, LenientShape, RestShapes, DropCareful
<1>3. ASSUME NEW s \in Step, s.op \in {"restore", "reclaim", "expect", "assert"},
             k = "rename" => {s.name, s.to} \cap {DataBackup, DataGuard} = {}
      PROVE  s \in Careful(k, "rolling") /\ Leniently(s) \in Careful(k, "rolling")
  BY <1>1, <1>3, LenientShape, PlainCareful
<1>4. CASE k # "rename"
  <2>1. ASSUME NEW p \in {D, M}
        PROVE  /\ Restore(N("public", p), N("backup", p), Old(p)) \in Careful(k, "rolling")
               /\ Leniently(Restore(N("public", p), N("backup", p), Old(p))) \in Careful(k, "rolling")
    <3>1. Restore(N("public", p), N("backup", p), Old(p)) \in Step BY CopySteps, Names
    <3> QED BY <1>3, <1>4, <3>1, FillShapes
  <2>2. Assert(Before(k)) \in Careful(k, "rolling")
    BY <1>3, <1>4, PairSteps, PairTypes, Names, PairShapes
  <2> QED BY <1>2, <1>4, <2>1, <2>2 DEF Rollback, RollbackDelete, Kind
<1>5. CASE k = "rename"
  <2>1. /\ Leniently(Reclaim(N("source", D), N("target", D), {N("backup", D), N("guard", D)}, Old(D))) \in Careful(k, "rolling")
        /\ Leniently(Reclaim(N("source", M), N("backup", M), {N("spare", M)}, Old(M))) \in Careful(k, "rolling")
    <3>1. /\ Reclaim(N("source", D), N("target", D), {N("backup", D), N("guard", D)}, Old(D)) \in Step
          /\ Reclaim(N("source", M), N("backup", M), {N("spare", M)}, Old(M)) \in Step
      BY CopySteps, Names
    <3>2. {N("source", D), N("target", D), N("source", M), N("backup", M)} \cap {DataBackup, DataGuard} = {}
      BY TwoCopies, Places
    <3> QED BY <1>3, <3>1, <3>2, MoveShapes
  <2>2. /\ Leniently(Expect(N("backup", M), Old(M))) \in Careful(k, "rolling")
        /\ Leniently(Expect(N("spare", M), Old(M))) \in Careful(k, "rolling")
    <3>1. Expect(N("backup", M), Old(M)) \in Step /\ Expect(N("spare", M), Old(M)) \in Step
      BY PlainSteps, Names
    <3>2. {N("spare", M), N("backup", M), Marker} \cap {DataBackup, DataGuard} = {}
      BY TwoCopies, Places
    <3> QED BY <1>3, <3>1, <3>2, RestShapes
  <2>3. Leniently(Assert({<<N("source", M), Old(M)>>})) \in Careful(k, "rolling")
    <3>1. {<<N("source", M), Old(M)>>} \in Pairs BY Names DEF Pairs
    <3>2. Assert({<<N("source", M), Old(M)>>}) \in Step BY <3>1, PairSteps, Names
    <3> QED BY <1>3, <3>2, PairShapes, TwoCopies
  <2>4. /\ Leniently(Retract(N("target", M), New(M))) \in Careful(k, "rolling")
        /\ Leniently(Drop(N("temp", M), New(M))) \in Careful(k, "rolling")
        /\ Leniently(Drop(N("guard", M), New(M))) \in Careful(k, "rolling")
    BY <1>2, Places
  <2> QED BY <1>5, <2>1, <2>2, <2>3, <2>4 DEF Rollback, RollbackRename
<1> QED BY <1>4, <1>5

(* ... its marker retired, ...                                             *)
LEMMA RetireCareful ==
  ASSUME NEW k \in Kind
  PROVE  /\ RetireMarker(k) \in Seq(Careful(k, "retiring"))
         /\ k = "rename" => HealOld \in Seq(Careful(k, "reviving"))
<1>1. /\ "retiring" \notin Keeping \union {"discarding"} /\ "reviving" \notin Keeping
      /\ Protected(k, "retiring") = Before(k)
  BY DEF Keeping, Protected, PublishPhases
<1>2. Assert(Before(k)) \in Careful(k, "retiring") /\ Flush \in Careful(k, "retiring")
  <2>1. Assert(Before(k)) \in Step /\ Flush \in Step BY PairSteps, PairTypes, Names, FlushType
  <2> QED BY <1>1, <2>1, PairShapes, RestShapes, TwoCopies, PlainCareful
<1>3. Drop(Marker, Marker) \in Careful(k, "retiring")
  <2>1. Drop(Marker, Marker) \in Step BY PlainSteps, Names
  <2>2. Marker \notin Files(Before(k))
    BY PairFiles, Apart, Names DEF Kind, Own, File, Journal, Old, New, Marker
  <2> QED BY <1>1, <2>1, <2>2, RestShapes, TwoCopies, DropCareful
<1>4. ASSUME NEW n \in Entry, NEW i \in Own PROVE Guarded(Before(k), n, i) \in Careful(k, "retiring")
  BY <1>1, <1>4, GuardedCareful
<1>5. RetireMarker(k) \in Seq(Careful(k, "retiring"))
  <2>1. /\ Guarded(Before(k), N("backup", D), Old(D)) \in Careful(k, "retiring")
        /\ Guarded(Before(k), N("backup", M), Old(M)) \in Careful(k, "retiring")
        /\ Guarded(Before(k), N("guard", D), Old(D)) \in Careful(k, "retiring")
        /\ Guarded(Before(k), N("guard", M), New(M)) \in Careful(k, "retiring")
        /\ Guarded(Before(k), N("spare", M), Old(M)) \in Careful(k, "retiring")
        /\ Guarded(Before(k), Marker, Marker) \in Careful(k, "retiring")
    BY <1>4, Names
  <2> QED BY <1>2, <1>3, <2>1 DEF RetireMarker, RetireRename, Kind
<1>6. ASSUME NEW p \in {D, M} PROVE Heal(N("source", p), Old(p)) \in Careful(k, "reviving")
  <2>1. Heal(N("source", p), Old(p)) \in Step BY PlainSteps, Names
  <2> QED BY <1>1, <2>1, RestShapes, TwoCopies, PlainCareful
<1> QED BY <1>5, <1>6 DEF HealOld

(* ... and the old copies kept, closed or purged; ...                      *)
LEMMA KeepOldCareful ==
  ASSUME NEW k \in Kind, NEW ph \in {"restoring", "rerestoring"}
  PROVE  KeepOld(k) \in Seq(Careful(k, ph)) /\ KeepMarker(k) \in Seq(Careful(k, ph))
<1>1. ph \notin Keeping /\ ph \in Retiring BY DEF Keeping, Retiring, RollbackPhases
<1>2. ASSUME NEW n \in Entry, NEW i \in Own PROVE Retain(n, i) \in Careful(k, ph)
  <2> DEFINE s == Retain(n, i)
  <2>1. s \in Step BY PlainSteps
  <2>2. s.op = "retain" /\ s.name = n /\ s.to = Marker BY RestShapes
  <2> HIDE DEF s
  <2>3. Spares(k, ph, s) BY <1>1, <2>2 DEF Spares
  <2>4. Shelters(ph, s) BY <2>2, TwoCopies, Sheltered
  <2> QED BY <2>1, <2>3, <2>4 DEF Careful, s
<1>3. Leniently(Preserve(Marker, OldCopies(k))) \in Careful(k, ph)
  <2>1. OldCopies(k) \in Pairs BY Names DEF OldCopies, Pairs, Part, D, M
  <2>2. Preserve(Marker, OldCopies(k)) \in Step BY <2>1, JournalSteps, Names
  <2> QED BY <1>1, <2>2, RestShapes, LenientShape, TwoCopies, PlainCareful
<1> QED BY <1>2, <1>3, Names DEF KeepOld, KeepMarker

(* Purges and the end of a deletion have a part of their own.              *)
LEMMA EndCareful ==
  /\ \A k \in Kind : << Close(Before(k)) >> \in Seq(Careful(k, "unlinking"))
  /\ \A k \in Kind : ForgetCopies \in Seq(Careful(k, "purging"))
  /\ Finish \in Seq(Careful("delete", "finishing")) /\ EmptyTrash \in Seq(Careful("delete", "emptying"))
  /\ Untomb \in Seq(Careful("delete", "untombing"))
<1>1. ASSUME NEW k \in Kind PROVE Close(Before(k)) \in Careful(k, "unlinking")
  <2> DEFINE s == Close(Before(k))
  <2>1. s \in Step BY PairSteps, PairTypes, Names
  <2>2. s.op = "close" /\ s.name = Marker /\ s.to = Marker /\ s.pair = Before(k) BY PairShapes
  <2> HIDE DEF s
  <2>3. Spares(k, "unlinking", s) BY <2>2 DEF Spares, Protected, PublishPhases, Keeping
  <2>4. Shelters("unlinking", s) BY <2>2, TwoCopies, Sheltered
  <2> QED BY <2>1, <2>3, <2>4 DEF Careful, s
<1>2. ASSUME NEW k \in Kind
      PROVE  /\ Purge(Old(D)) \in Careful(k, "purging") /\ Purge(Old(M)) \in Careful(k, "purging")
             /\ Flush \in Careful(k, "purging")
  <2>1. ASSUME NEW s \in {Purge(Old(D)), Purge(Old(M)), Flush} PROVE s \in Careful(k, "purging")
    <3>1. s \in Step BY PlainSteps, Names, FlushType
    <3>2. s.op \in {"purge", "flush"} /\ s.name = Marker /\ s.to = Marker BY RestShapes
    <3>3. Spares(k, "purging", s) BY <3>2 DEF Spares, Keeping
    <3>4. Shelters("purging", s) BY <3>2, TwoCopies, Sheltered
    <3> QED BY <3>1, <3>3, <3>4 DEF Careful
  <2> QED BY <2>1
<1>3. ASSUME NEW s \in Step, s.op \notin {"purge", "close", "retain"}, NEW ph \in {"finishing", "emptying", "untombing"}
      PROVE  s \in Careful("delete", ph)
  BY <1>3 DEF Careful, Spares, Keeping
<1>4. ASSUME NEW p \in {D, M}
      PROVE  /\ Expect(N("public", p), Old(p)) \in Careful("delete", "finishing")
             /\ Expect(N("backup", p), Old(p)) \in Careful("delete", "finishing")
             /\ Leniently(Settle(N("public", p), N("backup", p), Old(p))) \in Careful("delete", "finishing")
             /\ Leniently(Drop(N("backup", p), Old(p))) \in Careful("delete", "emptying")
             /\ Leniently(Gone(N("public", p), Old(p))) \in Careful("delete", "emptying")
  <2>1. /\ Expect(N("public", p), Old(p)) \in Step /\ Expect(N("backup", p), Old(p)) \in Step
        /\ Settle(N("public", p), N("backup", p), Old(p)) \in Step
        /\ Drop(N("backup", p), Old(p)) \in Step /\ Gone(N("public", p), Old(p)) \in Step
    BY PlainSteps, Names
  <2> QED BY <1>3, <2>1, LenientShape, RestShapes, MoveShapes, LookShapes
<1>5. Drop(Marker, Marker) \in Careful("delete", "untombing") /\ Flush \in Careful("delete", "untombing")
  BY <1>3, PlainSteps, Names, FlushType, RestShapes
<1> QED BY <1>1, <1>2, <1>4, <1>5 DEF ForgetCopies, Finish, EmptyTrash, Untomb

-----------------------------------------------------------------------------
(* A script that may be taken up: its steps are careful, a rename makes its *)
(* guard before it moves anything, drops it after the backup and gives it   *)
(* its name back first.                                                     *)
DropsGuardLast(script) ==
  \A j \in 1..Len(script) : Drops(script[j], DataGuard) => \E i \in 1..(j - 1) : Drops(script[i], DataBackup)
KeepsGuardFirst(script) ==
  \A j \in 1..Len(script) : Retains(script[j], DataBackup) => \E i \in 1..(j - 1) : Retains(script[i], DataGuard)
MakesGuard(script) == \E j \in 1..Len(script) : script[j].op = "link" /\ script[j].to = DataGuard

Prudent(k, ph, script) ==
  /\ script \in Seq(Careful(k, ph))
  /\ k = "rename" =>
       /\ ph = "installing" => MakesGuard(script)
       /\ ph \in PublishPhases => DropsGuardLast(script)
       /\ ph \in Keeping => KeepsGuardFirst(script)

(* The two orders matter only where there is something to drop or to keep.  *)
LEMMA PlainPrudent ==
  ASSUME NEW k, NEW ph, ph \notin PublishPhases \union {"installing"}, NEW script \in Seq(Careful(k, ph))
  PROVE  Prudent(k, ph, script)
BY DEF Prudent, Keeping, PublishPhases

(* An empty script is prudent wherever it may be taken up.                  *)
LEMMA EmptyPrudent == \A k, ph : ph # "installing" => Prudent(k, ph, << >>)
BY DEF Prudent, DropsGuardLast, KeepsGuardFirst

(* Before the commit, ...                                                   *)
LEMMA InstallPrudent == \A k \in Kind : Prudent(k, "installing", Install(k))
<1>1. /\ Install("rename")[2] = Link(N("backup", D), N("guard", D), Old(D))
      /\ 2 \in 1..Len(Install("rename"))
  BY DEF Install, InstallRename
<1>2. MakesGuard(Install("rename")) BY <1>1, MoveShapes DEF MakesGuard, DataGuard
<1> QED BY <1>2, StagingCareful DEF Prudent, PublishPhases, Keeping

(* ... while it is cleaned up after, ...                                    *)
LEMMA CleanupPrudent ==
  \A k \in Kind \ {"delete"}, ph \in {"cleaning", "recleaning"} : Prudent(k, ph, Cleanup(k))
<1>1. DropsGuardLast(Cleanup("rename"))
  <2> DEFINE after == After("rename")
  <2> DEFINE one ==
        << Relink(N("target", D), {N("backup", D), N("guard", D)}, Old(D)),
           Relink(N("target", M), {N("temp", M), N("guard", M)}, New(M)),
           Assert(after),
           Guarded(after, N("backup", M), Old(M)), Guarded(after, N("temp", M), New(M)),
           Guarded(after, N("spare", M), Old(M)), DropIf(after, N("backup", D), Old(D)),
           Adopt(after),
           Guarded(after, N("guard", M), New(M)), Guarded(after, N("guard", D), Old(D)) >>
  <2>1. \A j \in 1..7 : ~Drops(one[j], DataGuard)
    <3>1. \A j \in 1..3 : ~Drops(one[j], DataGuard) BY RestShapes, PairShapes DEF Drops
    <3>2. /\ one[4].name = N("backup", M) /\ one[5].name = N("temp", M) /\ one[6].name = N("spare", M)
          /\ one[7].name = N("backup", D)
      BY PairShapes
    <3>3. \A j \in 4..7 : ~Drops(one[j], DataGuard) BY <3>2, TwoCopies, Places DEF Drops
    <3> QED BY <3>1, <3>3
  <2>2. Drops(one[7], DataBackup) BY PairShapes DEF Drops, DataBackup
  <2>3. Len(one) = 10 /\ one \in Seq({one[j] : j \in 1..10}) OBVIOUS
  <2>4. Cleanup("rename") = one \o Retire("rename") BY DEF Cleanup, CleanupRename
  <2>5. Cleanup("rename") \in Seq(Careful("rename", "cleaning")) BY CleanupCareful DEF Kind
  <2>6. \A j \in 1..7 : Cleanup("rename")[j] = one[j]
    <3>1. PICK a : a = one OBVIOUS
    <3>2. Len(a) = 10 /\ a \in Seq({a[j] : j \in 1..10}) BY <2>3, <3>1
    <3>3. PICK b : b = Retire("rename") OBVIOUS
    <3>4. b \in Seq({b[j] : j \in 1..4}) BY <3>3 DEF Retire
    <3> HIDE DEF one
    <3>5. PICK S : a \in Seq(S) /\ b \in Seq(S)
      <4> DEFINE S == {a[j] : j \in 1..10} \union {b[j] : j \in 1..4}
      <4>1. a \in Seq(S) /\ b \in Seq(S) BY <3>2, <3>4
      <4> QED BY <4>1
    <3>6. \A j \in 1..Len(a) : (a \o b)[j] = a[j] BY <3>5, Joined
    <3>7. Cleanup("rename") = a \o b BY <2>4, <3>1, <3>3
    <3>8. \A j \in 1..7 : (a \o b)[j] = a[j]
      <4>1. Len(a) = 10 BY <3>2
      <4>2. \A j \in 1..7 : j \in 1..Len(a) BY <4>1
      <4> QED BY <3>6, <4>2
    <3> QED BY <3>1, <3>7, <3>8
  <2> HIDE DEF one
  <2>7. \A j \in 1..Len(Cleanup("rename")) : Drops(Cleanup("rename")[j], DataGuard) => 7 \in 1..(j - 1)
    BY <2>1, <2>5, <2>6
  <2> QED BY <2>2, <2>6, <2>7 DEF DropsGuardLast
<1> QED BY <1>1, CleanupCareful DEF Prudent, Keeping

(* ... healed or closed, ...                                                *)
LEMMA HealPrudent ==
  \A k \in Kind \ {"delete"} : Prudent(k, "healing", HealNew(k)) /\ Prudent(k, "closing", << Close(After(k)) >>)
<1>1. DropsGuardLast(HealNew("rename"))
  <2>1. HealNew("rename") = << Heal(N("target", D), Old(D)), Heal(N("target", M), New(M)) >> BY DEF HealNew
  <2> QED BY <2>1, RestShapes DEF DropsGuardLast, Drops
<1>2. \A k : DropsGuardLast(<< Close(After(k)) >>) BY PairShapes DEF DropsGuardLast, Drops
<1> QED BY <1>1, <1>2, KeepNewCareful DEF Prudent, Keeping

(* ... and while its copies get their names back.                           *)
LEMMA KeepPrudent ==
  ASSUME NEW k \in Kind \ {"delete"}, NEW ph \in Keeping,
         NEW copies \in {<< >>, KeepNew(k)}, NEW journal \in {<< >>, KeepCommit}
  PROVE  Prudent(k, ph, copies \o journal)
<1>1. << >> \in Seq(Careful(k, ph)) OBVIOUS
<1>2. copies \in Seq(Careful(k, ph)) /\ journal \in Seq(Careful(k, ph)) BY <1>1, KeepNewCareful, Zenon
<1>3. copies \o journal \in Seq(Careful(k, ph)) BY <1>2, Joined
<1>4. \A s \in Careful(k, ph) : s.op # "drop" BY DEF Careful, Spares
<1>5. DropsGuardLast(copies \o journal) BY <1>3, <1>4 DEF DropsGuardLast, Drops
<1>6. ASSUME k = "rename" PROVE KeepsGuardFirst(copies \o journal)
  <2>1. CASE copies = << >>
    <3>1. copies \o journal = journal BY <1>2, <2>1
    <3>2. Leniently(Preserve(Commit, {})).op = "preserve"
      <4>1. Preserve(Commit, {}) \in Step BY JournalSteps, Names DEF Pairs
      <4> QED BY <4>1, LenientShape, RestShapes
    <3>3. KeepsGuardFirst(journal) BY <3>2 DEF KeepCommit, KeepsGuardFirst, Retains
    <3> QED BY <3>1, <3>3
  <2>2. CASE copies = KeepNew(k)
    <3>1. KeepNew(k)[1] = Retain(N("guard", D), Old(D)) /\ Len(KeepNew(k)) = 4 BY <1>6 DEF KeepNew
    <3>2. (copies \o journal)[1] = KeepNew(k)[1] BY <1>2, <2>2, <3>1, Joined
    <3>3. Retains((copies \o journal)[1], DataGuard) /\ ~Retains((copies \o journal)[1], DataBackup)
      BY <3>1, <3>2, RestShapes, TwoCopies DEF Retains, DataGuard
    <3>4. \A j \in 1..Len(copies \o journal) : j # 1 => 1 \in 1..(j - 1) BY <1>3
    <3> QED BY <3>3, <3>4 DEF KeepsGuardFirst
  <2> QED BY <2>1, <2>2
<1> QED BY <1>3, <1>5, <1>6 DEF Prudent, Keeping

-----------------------------------------------------------------------------
(* A part that is taken up with a prudent script keeps the copies apart.    *)
Takes(ph, script) ==
  Prudent(kind, ph, script) /\ Become(ph, script) /\ UNCHANGED <<dir, kind>> /\ (kind = "rename" => committed' = committed)

(* The invariant carries over to the part that is taken up.                 *)
LEMMA TakeCopies == ASSUME CopiesOK, NEW ph, NEW script, Takes(ph, script) PROVE CopiesOK'
<1>1. /\ phase' = ph /\ todo' = script /\ stage' = "look" /\ UNCHANGED <<dir, kind>>
      /\ Prudent(kind, ph, script) /\ (kind = "rename" => committed' = committed)
  BY DEF Takes, Become, Run
<1>2. todo' \in Seq(Careful(kind, phase)') BY <1>1 DEF Prudent
<1>3. ASSUME kind = "rename" PROVE GuardOK'
  <2>1. ~At({"link"}, "act")' /\ \A n : ~Dropping(n)' BY <1>1 DEF At, Dropping
  <2>2. LinkSeen' BY <2>1 DEF LinkSeen
  <2>3. GuardOwn' BY <1>1, <1>3, <2>1 DEF GuardOwn, CopiesOK, GuardOK
  <2>4. InstallGuards' BY <1>1, <1>3 DEF InstallGuards, Prudent, MakesGuard
  <2>5. DataGuarded' BY <1>1, <1>3, <2>1 DEF DataGuarded, CopiesOK, GuardOK
  <2>6. phase' \in PublishPhases => BackupFirst' BY <1>1, <1>3 DEF BackupFirst, Prudent, DropsGuardLast
  <2>7. phase' \in Keeping => GuardKeptFirst' BY <1>1, <1>3 DEF GuardKeptFirst, Prudent, KeepsGuardFirst
  <2> QED BY <2>2, <2>3, <2>4, <2>5, <2>6, <2>7 DEF GuardOK
<1> QED BY <1>1, <1>2, <1>3 DEF CopiesOK

(* The end of a mutation, and what the caller still removes.                *)
LEMMA LastTaken ==
  ASSUME Inv
  PROVE  /\ Prudent(kind, "idle", << >>) /\ Prudent(kind, "down", << >>)
         /\ Prudent(kind, "discarding", Leftovers(kind)) /\ Prudent(kind, "discarding", << >>)
BY KindType, EmptyPrudent, LeftoversCareful, PlainPrudent DEF PublishPhases

(* So is the answer of a publication, ...                                   *)
LEMMA AnswerTaken ==
  ASSUME Inv, NEW good, Answer(good), UNCHANGED <<dir, kind, committed>> PROVE \E ph, script : Takes(ph, script)
<1> DEFINE rest == IF kind = "rename" THEN Leftovers(kind) ELSE << >>
<1>1. Become("idle", << >>) \/ Become("discarding", rest) BY DEF Answer
<1>2. Prudent(kind, "discarding", rest) BY LastTaken
<1> HIDE DEF rest
<1> QED BY <1>1, <1>2, LastTaken DEF Takes

(* ... and the end of a rollback.                                           *)
LEMMA EndRollbackTaken ==
  ASSUME Inv, EndRollback, UNCHANGED <<dir, kind, committed>> PROVE \E ph, script : Takes(ph, script)
BY LastTaken DEF Takes, EndRollback

(* The parts of a publication ...                                           *)
LEMMA PublicationTaken ==
  ASSUME Inv, Staged \/ Installed \/ Discarded PROVE \E ph, script : Takes(ph, script)
<1>1. kind \in Kind /\ UNCHANGED <<dir, kind>> /\ (kind = "rename" => committed' = committed)
  BY KindType DEF Staged, Installed, Discarded, Inv, ControlOK
<1>2. CASE Staged
  <2>1. Become("installing", Install(kind)) \/ Become("discarding", Leftovers(kind)) BY <1>2 DEF Staged
  <2> QED BY <1>1, <2>1, InstallPrudent, LastTaken DEF Takes
<1>3. CASE Installed
  <2>1. CASE ok /\ kind # "delete"
    <3>1. Become("cleaning", Cleanup(kind)) BY <1>3, <2>1 DEF Installed
    <3> QED BY <1>1, <2>1, <3>1, CleanupPrudent DEF Takes
  <2>2. CASE ok /\ kind = "delete"
    <3>1. Become("finishing", Finish) BY <1>3, <2>2 DEF Installed
    <3>2. Prudent(kind, "finishing", Finish) BY <2>2, EndCareful, PlainPrudent DEF PublishPhases
    <3> QED BY <1>1, <3>1, <3>2 DEF Takes
  <2>3. CASE ~ok
    <3> DEFINE rest == IF kind = "rename" THEN Leftovers(kind) ELSE << >>
    <3>1. Become("discarding", rest) \/ Become("rolling", Rollback(kind)) BY <1>3, <2>3 DEF Installed
    <3>2. Prudent(kind, "discarding", rest) BY LastTaken
    <3>3. Prudent(kind, "rolling", Rollback(kind)) BY <1>1, RollbackCareful, PlainPrudent DEF PublishPhases
    <3> HIDE DEF rest
    <3> QED BY <1>1, <3>1, <3>2, <3>3 DEF Takes
  <2> QED BY <2>1, <2>2, <2>3
<1>4. CASE Discarded
  <2>1. Become("idle", << >>) BY <1>4 DEF Discarded
  <2> QED BY <1>1, <2>1, LastTaken DEF Takes
<1> QED BY <1>2, <1>3, <1>4

(* ... of its cleanup ...                                                   *)
LEMMA KeepOrCloseTaken ==
  ASSUME Inv, kind # "delete", NEW finished, KeepOrClose(finished), UNCHANGED <<dir, kind, committed>>
  PROVE  \E ph, script : Takes(ph, script)
<1> DEFINE copies == IF Holds(After(kind)) THEN << >> ELSE KeepNew(kind)
           journal == IF finished THEN << >> ELSE KeepCommit
<1>1. Become("keeping", copies \o journal) BY DEF KeepOrClose
<1>2. copies \in {<< >>, KeepNew(kind)} /\ journal \in {<< >>, KeepCommit} OBVIOUS
<1> HIDE DEF copies, journal
<1>3. Prudent(kind, "keeping", copies \o journal) BY <1>2, KindType, KeepPrudent DEF Keeping
<1> QED BY <1>1, <1>3 DEF Takes

(* ... up to its answer are taken up with prudent scripts.                  *)
LEMMA CleanupTaken ==
  ASSUME Inv, OutcomeInv, Cleaned \/ Healed \/ Kept \/ Closed \/ Rekept PROVE \E ph, script : Takes(ph, script)
<1>1. phase \in PublishPhases /\ UNCHANGED <<dir, kind, committed>>
  BY DEF Cleaned, Healed, Kept, Closed, Rekept, Done, PublishPhases
<1>2. kind # "delete" /\ kind \in Kind \ {"delete"} BY <1>1, CommittedPhase
<1>3. CASE Cleaned
  <2>1. Become("healing", HealNew(kind)) \/ KeepOrClose(ok /\ Holds(After(kind))) BY <1>3 DEF Cleaned
  <2> QED BY <1>1, <1>2, <2>1, HealPrudent, KeepOrCloseTaken DEF Takes
<1>4. CASE Healed
  <2>1. Become("recleaning", Cleanup(kind)) \/ KeepOrClose(FALSE) BY <1>4 DEF Healed
  <2> QED BY <1>1, <1>2, <2>1, CleanupPrudent, KeepOrCloseTaken DEF Takes
<1>5. CASE Kept
  <2>1. Become("closing", << Close(After(kind)) >>) BY <1>5 DEF Kept
  <2> QED BY <1>1, <1>2, <2>1, HealPrudent DEF Takes
<1>6. CASE Closed
  <2>1. Answer(complete \/ Holds(After(kind))) \/ Become("rekeeping", KeepNew(kind) \o KeepCommit)
    BY <1>6 DEF Closed
  <2>2. Prudent(kind, "rekeeping", KeepNew(kind) \o KeepCommit) BY <1>2, KeepPrudent DEF Keeping
  <2> QED BY <1>1, <2>1, <2>2, AnswerTaken DEF Takes
<1>7. CASE Rekept BY <1>1, <1>7, AnswerTaken DEF Rekept
<1> QED BY <1>3, <1>4, <1>5, <1>6, <1>7

(* ... of a rollback, ...                                                   *)
LEMMA RetirePrudent ==
  ASSUME NEW k \in Kind
  PROVE  /\ Prudent(k, "rolling", Rollback(k)) /\ Prudent(k, "retiring", RetireMarker(k))
         /\ k = "rename" => Prudent(k, "reviving", HealOld)
         /\ Prudent(k, "unlinking", << Close(Before(k)) >>) /\ Prudent(k, "purging", ForgetCopies)
         /\ \A ph \in {"restoring", "rerestoring"}, copies \in {<< >>, KeepOld(k)}, journal \in {<< >>, KeepMarker(k)} :
              Prudent(k, ph, copies \o journal) /\ Prudent(k, ph, journal \o copies)
<1>1. /\ Rollback(k) \in Seq(Careful(k, "rolling")) /\ RetireMarker(k) \in Seq(Careful(k, "retiring"))
      /\ k = "rename" => HealOld \in Seq(Careful(k, "reviving"))
      /\ << Close(Before(k)) >> \in Seq(Careful(k, "unlinking")) /\ ForgetCopies \in Seq(Careful(k, "purging"))
  BY RollbackCareful, RetireCareful, EndCareful
<1>2. ASSUME NEW ph \in {"restoring", "rerestoring"}, NEW copies \in {<< >>, KeepOld(k)}, NEW journal \in {<< >>, KeepMarker(k)}
      PROVE  Prudent(k, ph, copies \o journal) /\ Prudent(k, ph, journal \o copies)
  <2>1. << >> \in Seq(Careful(k, ph)) OBVIOUS
  <2>2. copies \in Seq(Careful(k, ph)) /\ journal \in Seq(Careful(k, ph)) BY <2>1, KeepOldCareful, Zenon
  <2>3. copies \o journal \in Seq(Careful(k, ph)) /\ journal \o copies \in Seq(Careful(k, ph)) BY <2>2, Joined
  <2>4. ph \notin PublishPhases \union {"installing"} BY DEF PublishPhases
  <2> QED BY <2>3, <2>4, PlainPrudent
<1>3. {"rolling", "retiring", "reviving", "unlinking", "purging"} \cap (PublishPhases \union {"installing"}) = {}
  BY DEF PublishPhases
<1> QED BY <1>1, <1>2, <1>3, PlainPrudent

(* What a rollback keeps, ...                                               *)
LEMMA KeepOldOrCloseTaken ==
  ASSUME Inv, NEW finished, KeepOldOrClose(finished), UNCHANGED <<dir, kind, committed>>
  PROVE  \E ph, script : Takes(ph, script)
<1> DEFINE journal == IF finished THEN << >> ELSE KeepMarker(kind)
           copies == IF Holds(Before(kind)) THEN << >> ELSE KeepOld(kind)
           script == IF kind = "rename" THEN journal \o copies ELSE copies \o journal
<1>1. Become("restoring", script) BY DEF KeepOldOrClose
<1>2. journal \in {<< >>, KeepMarker(kind)} /\ copies \in {<< >>, KeepOld(kind)} OBVIOUS
<1>3. Prudent(kind, "restoring", script)
  <2> HIDE DEF journal, copies
  <2>1. Prudent(kind, "restoring", copies \o journal) /\ Prudent(kind, "restoring", journal \o copies)
    BY <1>2, KindType, RetirePrudent
  <2> QED BY <2>1
<1> HIDE DEF script
<1> QED BY <1>1, <1>3 DEF Takes

(* ... and each part that it goes on with.                                  *)
LEMMA RollbackTaken ==
  ASSUME Inv, RolledBack \/ Retired \/ Revived \/ Restored \/ Unlinked \/ RolledOut \/ RollbackRaises
  PROVE  \E ph, script : Takes(ph, script)
<1>1. kind \in Kind /\ UNCHANGED <<dir, kind, committed>>
  BY KindType DEF RolledBack, Retired, Revived, Restored, Unlinked, RolledOut, RollbackRaises
<1>2. CASE RolledBack
  <2>1. Become("retiring", RetireMarker(kind)) \/ EndRollback BY <1>2 DEF RolledBack
  <2> QED BY <1>1, <2>1, RetirePrudent, EndRollbackTaken DEF Takes
<1>3. CASE Retired
  <2>1. \/ EndRollback
        \/ kind = "rename" /\ Become("reviving", HealOld)
        \/ KeepOldOrClose(ok \/ (kind = "rename" /\ Holds(Before(kind))))
    <3>1. \/ kind = "fresh"
          \/ kind = "rename" /\ ~ok /\ ~Holds(Before(kind))
          \/ kind \in {"replace", "delete"} \/ (kind = "rename" /\ (ok \/ Holds(Before(kind))))
      BY <1>1 DEF Kind
    <3> QED BY <1>3, <3>1 DEF Retired
  <2> QED BY <1>1, <2>1, RetirePrudent, EndRollbackTaken, KeepOldOrCloseTaken DEF Takes
<1>4. CASE Revived
  <2>1. Become("rolling", Rollback(kind)) \/ KeepOldOrClose(FALSE) BY <1>4 DEF Revived
  <2> QED BY <1>1, <2>1, RetirePrudent, KeepOldOrCloseTaken DEF Takes
<1>5. CASE Restored
  <2>1. Become("unlinking", << Close(Before(kind)) >>) BY <1>5 DEF Restored
  <2> QED BY <1>1, <2>1, RetirePrudent DEF Takes
<1>6. CASE Unlinked
  <2>1. \/ Become("purging", ForgetCopies) \/ EndRollback
        \/ Become("rerestoring", KeepOld(kind) \o KeepMarker(kind))
    BY <1>6 DEF Unlinked, Inv, DirectoryInv, ScriptOK, ControlOK
  <2>2. Prudent(kind, "rerestoring", KeepOld(kind) \o KeepMarker(kind)) BY <1>1, RetirePrudent
  <2> QED BY <1>1, <2>1, <2>2, RetirePrudent, EndRollbackTaken DEF Takes
<1>7. CASE RolledOut \/ RollbackRaises
  BY <1>1, <1>7, EndRollbackTaken DEF RolledOut, RollbackRaises
<1> QED BY <1>2, <1>3, <1>4, <1>5, <1>6, <1>7

(* ... of the end of a deletion, and of the next start.                     *)
LEMMA EndTaken ==
  ASSUME Inv, OutcomeInv, Finished \/ Untombed \/ Crash \/ Reconcile \/ Overlook
  PROVE  \E ph, script : Takes(ph, script)
<1>1. /\ Prudent("delete", "finishing", Finish) /\ Prudent("delete", "emptying", EmptyTrash)
      /\ Prudent("delete", "untombing", Untomb)
  BY EndCareful, PlainPrudent DEF PublishPhases
<1>2. kind \in Kind /\ UNCHANGED <<dir, kind>> /\ (kind = "rename" => committed' = committed)
  BY KindType DEF Finished, Untombed, Crash, Reconcile, Overlook, Inv, ControlOK
<1>3. CASE Finished
  <2>1. kind = "delete" /\ UNCHANGED committed BY <1>3 DEF Finished, Done, OutcomeInv, PhaseOK
  <2>2. Become("emptying", EmptyTrash) \/ Become("untombing", Untomb) \/ Answer(TRUE)
    BY <1>3 DEF Finished, Done
  <2> QED BY <1>1, <1>2, <2>1, <2>2, AnswerTaken DEF Takes
<1>4. CASE Untombed BY <1>2, <1>4, AnswerTaken DEF Untombed
<1>5. CASE Crash
  <2>1. Become("down", << >>) BY <1>5 DEF Crash, Become, Run, Halt
  <2> QED BY <1>2, <2>1, LastTaken DEF Takes
<1>6. CASE Reconcile
  <2>1. \/ kind # "delete" /\ Become("cleaning", Cleanup(kind))
        \/ Become("rolling", Rollback(kind))
        \/ kind = "delete" /\ Become("finishing", Finish)
        \/ Become("idle", << >>)
    BY <1>6 DEF Reconcile, RecoverCommitted, RecoverPrepared, RecoverDeletions
  <2> QED BY <1>1, <1>2, <2>1, CleanupPrudent, RetirePrudent, LastTaken DEF Takes
<1>7. CASE Overlook BY <1>2, <1>7, LastTaken DEF Overlook, Takes
<1> QED BY <1>3, <1>4, <1>5, <1>6, <1>7

(* No part of the mutation is taken up with anything else.                  *)
LEMMA ControlCopies ==
  ASSUME Inv, OutcomeInv, CopiesOK, Begin \/ Progress \/ RollbackRaises \/ Crash \/ Overlook
  PROVE  CopiesOK' /\ dir' = dir /\ stage' \in {"look", stage}
<1>1. CASE Begin
  <2>1. kind \in Kind /\ UNCHANGED <<dir, kind, committed>> BY <1>1, KindType DEF Begin
  <2>2. CASE Accepted
    <3>1. Become("staging", Staging(kind)) BY <1>1, <2>2 DEF Begin
    <3>2. Prudent(kind, "staging", Staging(kind)) BY <2>1, StagingCareful, PlainPrudent DEF PublishPhases
    <3>3. Takes("staging", Staging(kind)) BY <2>1, <3>1, <3>2 DEF Takes
    <3> QED BY <2>1, <3>1, <3>3, TakeCopies DEF Become, Run
  <2>3. CASE ~Accepted
    <3>1. UNCHANGED <<dir, todo, stage, moved, ok, handles, kind, phase, committed>> BY <1>1, <2>3 DEF Begin
    <3>2. UNCHANGED <<LinkSeen, GuardOwn, InstallGuards, BackupFirst, GuardKeptFirst, DataGuarded>>
      BY <3>1 DEF LinkSeen, GuardOwn, InstallGuards, BackupFirst, GuardKeptFirst, DataGuarded, At, Dropping, step
    <3> QED BY <3>1, <3>2 DEF CopiesOK, GuardOK, Careful, Spares
  <2> QED BY <2>2, <2>3
<1>2. CASE ~Begin
  <2>1. \E ph, script : Takes(ph, script)
    BY <1>2, PublicationTaken, CleanupTaken, RollbackTaken, EndTaken DEF Progress
  <2> QED BY <2>1, TakeCopies DEF Takes, Become, Run
<1> QED BY <1>1, <1>2

-----------------------------------------------------------------------------
(* A link is made of what was seen under its name, ...                      *)
LEMMA LinkLooks ==
  ASSUME ProgramAct, stage' = "act", step.op = "link" PROVE dir[step.name] = step.id /\ dir' = dir
<1>1. ~Pass /\ ~Miss /\ (\A m : ~GoOn("confirm", m) /\ ~GoOn("look", m) /\ ~GoOn("unlink", m))
  BY DEF Pass, Miss, GoOn
<1> QED BY <1>1 DEF ProgramAct, RunStep, FailTwice, RenameEntry, LinkEntry, Quarantine, RenameBack,
      ConfirmRename, ConfirmLink, Discard, WriteFile, Sync, Check, CheckNoForeign, CheckGone, ConfirmReclaim,
      RestoreEntry, RelinkEntry, AdoptScrap, RetainCopy, PreserveJournal, CloseHandle, ConfirmClose, UnlinkCopy, UnlinkEntry, PurgeScrap,
      LookAtSource, LookAtLeftover, LookAtVictim, LookAtOwn, LookAtTarget, FailCall, At

(* ... and changes the directory in one of its stages only.                 *)
LEMMA LinkActs ==
  ASSUME ProgramAct, step.op = "link", dir' # dir PROVE stage = "act"
BY DEF ProgramAct, RunStep, FailTwice, RenameEntry, LinkEntry, Quarantine, RenameBack,
      ConfirmRename, ConfirmLink, Discard, WriteFile, Sync, Check, CheckNoForeign, CheckGone, ConfirmReclaim,
      RestoreEntry, RelinkEntry, AdoptScrap, RetainCopy, PreserveJournal, CloseHandle, ConfirmClose, UnlinkCopy, UnlinkEntry, PurgeScrap,
      LookAtSource, LookAtLeftover, LookAtVictim, LookAtOwn, LookAtTarget, FailCall, At

(* An entry that goes back has failed its removal.                          *)
LEMMA BackFails ==
  ASSUME DirectoryInv, ProgramAct, At({"drop", "retract"}, "confirm"), NEW n \in Entry, dir'[n] # dir[n]
  PROVE  Miss
<1>1. Discard
  BY DEF ProgramAct, RunStep, FailTwice, RenameEntry, LinkEntry, Quarantine, RenameBack,
      ConfirmRename, ConfirmLink, WriteFile, Sync, Check, CheckNoForeign, CheckGone, ConfirmReclaim,
      RestoreEntry, RelinkEntry, AdoptScrap, RetainCopy, PreserveJournal, CloseHandle, ConfirmClose, UnlinkCopy, UnlinkEntry, PurgeScrap,
      LookAtSource, LookAtLeftover, LookAtVictim, LookAtOwn, LookAtTarget, FailCall, At
<1> QED BY <1>1 DEF Discard

(* A step that keeps a copy, or the journal, takes it from the handles.     *)
LEMMA Keeps ==
  ASSUME DirectoryInv, ProgramAct, step.op \in {"retain", "preserve"}
  PROVE  /\ \A h \in handles' : h \in handles /\ dir'[h] = dir[h]
         /\ step.op = "retain" => RetainCopy \/ (Miss /\ dir' = dir)
<1>1. todo # << >> BY Ends
<1>2. RetainCopy \/ PreserveJournal \/ (FailCall /\ UNCHANGED <<dir, handles>> /\ Miss)
  BY DEF ProgramAct, RunStep, FailTwice, RenameEntry, LinkEntry, Quarantine, RenameBack,
      ConfirmRename, ConfirmLink, Discard, WriteFile, Sync, Check, CheckNoForeign, CheckGone, ConfirmReclaim,
      RestoreEntry, RelinkEntry, AdoptScrap, CloseHandle, ConfirmClose, UnlinkCopy, UnlinkEntry, PurgeScrap,
      LookAtSource, LookAtLeftover, LookAtVictim, LookAtOwn, LookAtTarget, FailCall, At
<1>3. /\ step.name \in Name /\ step.name \notin Scrap /\ dir \in Directory
      /\ \A h \in handles : h \in Scrap /\ h \in Name
  BY <1>1, HeadFields, EntriesApart, Apart DEF DirectoryInv, CopiesOwn
<1>4. CASE RetainCopy
  <2> DEFINE copies == {h \in handles : dir[h] = step.id}
             c == CHOOSE h \in copies : TRUE
  <2>1. (dir' = Renamed(dir, c, step.name) /\ handles' = handles \ {c}) \/ UNCHANGED <<dir, handles>>
    BY <1>4 DEF RetainCopy
  <2> HIDE DEF c
  <2>2. \A h \in handles' : h \in handles /\ dir'[h] = dir[h]
    BY <1>3, <2>1 DEF Renamed, Directory
  <2> QED BY <1>4, <2>2
<1>5. CASE PreserveJournal
  <2>1. handles' = handles /\ step.op # "retain" BY <1>5 DEF PreserveJournal, At
  <2>2. dir' = dir \/ dir' = Set(dir, step.name, step.id) BY <1>5 DEF PreserveJournal
  <2> QED BY <1>3, <2>1, <2>2 DEF Set, Directory
<1> QED BY <1>2, <1>4, <1>5

(* It gets its name if the name is free and a handle holds it.              *)
LEMMA RetainsOne ==
  ASSUME DirectoryInv, RetainCopy, dir[step.name] = None, NEW h \in handles, dir[h] = step.id, step.id # None
  PROVE  dir'[step.name] # None
<1> DEFINE copies == {x \in handles : dir[x] = step.id}
           c == CHOOSE x \in copies : TRUE
<1>1. c \in copies /\ dir' = Renamed(dir, c, step.name) BY DEF RetainCopy
<1>2. dir[c] = step.id /\ c \in handles BY <1>1
<1> HIDE DEF c
<1>3. todo # << >> BY DEF RetainCopy, At
<1>4. step.name \in Name /\ step.name \notin Scrap /\ dir \in Directory /\ c \in Scrap /\ c \in Name
  BY <1>2, <1>3, HeadFields, EntriesApart, Apart DEF DirectoryInv, CopiesOwn
<1> QED BY <1>1, <1>2, <1>4 DEF Renamed, Directory

(* What it brings back was held by a handle.                                *)
LEMMA RetainedWas ==
  ASSUME DirectoryInv, RetainCopy, dir'[step.name] # dir[step.name]
  PROVE  \E h \in handles : dir[h] = step.id
BY DEF RetainCopy

(* The step under way is a careful one.                                     *)
LEMMA StepCareful ==
  ASSUME CopiesOK, todo # << >>
  PROVE  step \in Step /\ Spares(kind, phase, step) /\ (kind = "rename" => Shelters(phase, step))
<1>1. step \in Careful(kind, phase) BY DEF CopiesOK, step
<1> QED BY <1>1 DEF Careful

(* How the two copies of the data of a rename change.                       *)
LEMMA CopyChanges ==
  ASSUME Inv, ScriptsOK, CopiesOK, kind = "rename", FileStep, NEW n \in {DataBackup, DataGuard}, dir'[n] # dir[n]
  PROVE  /\ todo # << >>
         /\ \/ /\ Retains(step, n) /\ phase \in Keeping \union Retiring
               /\ dir[n] = None /\ step.id = Old(D) /\ dir'[n] = Old(D)
            \/ dir'[n] = None /\ step.op = "reclaim"
            \/ step.op = "link" /\ n = step.to /\ dir[n] = None /\ dir'[n] = dir[step.name]
            \/ Drops(step, n) /\ stage = "act" /\ dir'[n] = None
            \/ /\ Dropping(n) /\ dir[n] = None /\ dir'[n] = dir[moved]
               /\ step.strict => todo' = << >>
<1>1. n \in Entry /\ n \in Private BY TwoCopies
<1>2. ProgramAct /\ DirectoryInv BY DEF FileStep, ProgramAct, Inv
<1>3. todo # << >> /\ Effect(n) BY <1>1, <1>2, Effects
<1>4. Shelters(phase, step) /\ Spares(kind, phase, step) /\ step \in Step BY <1>3, StepCareful
<1>5. step \in Fitting(kind) BY <1>3, StepSort
<1>6. n \in {step.name, step.to} => step.op \in {"link", "drop", "retain"} BY <1>4 DEF Shelters
<1>7. CASE Fills(n)
  <2>1. step.op = "retain" /\ n = step.name /\ dir[n] = None /\ dir'[n] = step.id
    BY <1>6, <1>7 DEF Fills, Fillers
  <2>2. phase \in Keeping \union Retiring BY <1>4, <2>1 DEF Spares
  <2>3. step.id \in May("rename", n) \ {None} BY <1>5, <2>1 DEF Fitting, Fillers
  <2>4. May("rename", n) = {None, Old(D)} \union Foreign BY MayHold DEF DataBackup, DataGuard
  <2>5. step.id \in Own \union {None} /\ Own \cap Foreign = {} BY <1>4, Apart DEF Step
  <2> QED BY <1>3, <2>1, <2>2, <2>3, <2>4, <2>5 DEF Retains
<1>8. CASE Yields(n) BY <1>3, <1>8 DEF Yields
<1>9. CASE Shifts(n) \/ Returns(n) \/ Reverts(n) BY <1>6, <1>9 DEF Shifts, Returns, Reverts
<1>10. CASE Joins(n) BY <1>3, <1>10 DEF Joins
<1>11. CASE Leaves(n) BY <1>3, <1>6, <1>11 DEF Leaves, Drops
<1>12. CASE ComesBack(n)
  <2>1. step.op = "drop" /\ stage = "confirm" /\ n = step.name /\ dir[n] = None /\ dir'[n] = dir[moved]
    BY <1>6, <1>12 DEF ComesBack
  <2>2. Miss BY <1>1, <1>2, <1>3, <2>1, BackFails DEF At
  <2> QED BY <1>3, <2>1, <2>2 DEF Dropping, Miss
<1> QED BY <1>3, <1>7, <1>8, <1>9, <1>10, <1>11, <1>12 DEF Effect

-----------------------------------------------------------------------------
(* What a file operation of a rename leaves of its two copies.              *)
Sheltering == Inv /\ OutcomeInv /\ CopiesOK /\ kind = "rename" /\ FileStep

(* What such an operation may count on.                                     *)
LEMMA ShelteringFacts ==
  ASSUME Sheltering
  PROVE  /\ Inv /\ ScriptsOK /\ NamesOK /\ JournalOK /\ PhaseOK /\ CopiesOK /\ GuardOK /\ FileStep
         /\ ProgramAct /\ DirectoryInv /\ Found /\ todo \in Seq(Step) /\ todo # << >>
         /\ todo' \in {todo, Tail(todo), << >>} /\ kind' = kind /\ phase' = phase /\ kind = "rename"
         /\ step \in Step /\ Spares(kind, phase, step) /\ Shelters(phase, step)
         /\ step \in Fitting("rename")
         /\ DataBackup # DataGuard /\ DataBackup \in Entry /\ DataGuard \in Entry
         /\ Old(D) \in Own /\ Own \cap Foreign = {} /\ Old(D) # None /\ None \notin Own \union Foreign
<1>1. Inv /\ ScriptsOK /\ NamesOK /\ JournalOK /\ PhaseOK /\ CopiesOK /\ GuardOK /\ FileStep /\ kind = "rename"
  BY DEF Sheltering, OutcomeInv, CopiesOK
<1>2. ProgramAct /\ DirectoryInv /\ Found /\ todo \in Seq(Step)
  BY <1>1 DEF FileStep, ProgramAct, Inv, NamesOK, DirectoryInv, ScriptOK
<1>3. todo # << >> /\ todo' \in {todo, Tail(todo), << >>} /\ kind' = kind /\ phase' = phase
  BY <1>1, <1>2, Ends DEF FileStep, Pass
<1>4. step \in Step /\ Spares(kind, phase, step) /\ Shelters(phase, step) BY <1>1, <1>3, StepCareful
<1>5. step \in Fitting("rename") BY <1>1, <1>3, StepSort
<1>6. Old(D) \in Own /\ Own \cap Foreign = {} /\ Old(D) # None /\ None \notin Own \union Foreign
  BY Names, Apart DEF Inode
<1> QED BY <1>1, <1>2, <1>3, <1>4, <1>5, <1>6, TwoCopies

(* The positions of the steps left.                                         *)
LEMMA Positions ==
  ASSUME todo \in Seq(Step), todo # << >>
  PROVE  /\ 1 \in 1..Len(todo) /\ step = todo[1] /\ Tail(todo) # todo /\ Len(Tail(todo)) \in Nat
         /\ \A i \in 1..Len(Tail(todo)) : i + 1 \in 1..Len(todo) /\ Tail(todo)[i] = todo[i + 1]
         /\ \A i \in 1..Len(todo) : i # 1 => i - 1 \in 1..Len(Tail(todo)) /\ Tail(todo)[i - 1] = todo[i]
BY Tails DEF step

(* The guard is linked from what was seen to be the data file.              *)
LEMMA FileLinkSeen == ASSUME Sheltering PROVE LinkSeen'
<1> USE ShelteringFacts
<1> SUFFICES ASSUME At({"link"}, "act")', step'.to = DataGuard PROVE dir'[DataBackup] = Old(D)
  BY DEF LinkSeen
<1>1. todo' = todo /\ stage' = "act" BY Acting DEF At
<1>2. step' = step /\ step.op = "link" /\ step.to = DataGuard BY <1>1 DEF step, At
<1>3. dir[step.name] = step.id /\ dir' = dir BY <1>1, <1>2, LinkLooks
<1> QED BY <1>2, <1>3 DEF Shelters

(* It never holds a foreign file.                                           *)
LEMMA FileGuardOwn == ASSUME Sheltering PROVE GuardOwn'
<1> USE ShelteringFacts
<1>1. dir'[DataGuard] \notin Foreign
  <2>1. CASE dir'[DataGuard] = dir[DataGuard] BY <2>1 DEF GuardOK, GuardOwn
  <2>2. CASE dir'[DataGuard] # dir[DataGuard]
    <3>1. \/ dir'[DataGuard] \in {None, Old(D)}
          \/ step.op = "link" /\ DataGuard = step.to /\ dir'[DataGuard] = dir[step.name]
          \/ Dropping(DataGuard) /\ dir'[DataGuard] = dir[moved]
      BY <2>2, CopyChanges
    <3>2. CASE step.op = "link" /\ DataGuard = step.to /\ dir'[DataGuard] = dir[step.name]
      <4>1. stage = "act" BY <2>2, <3>2, LinkActs
      <4>2. dir[DataBackup] = Old(D) /\ step.name = DataBackup
        BY <3>2, <4>1 DEF GuardOK, LinkSeen, At, Shelters
      <4> QED BY <3>2, <4>2
    <3> QED BY <3>1, <3>2 DEF GuardOK, GuardOwn
  <2> QED BY <2>1, <2>2
<1>2. ASSUME Dropping(DataGuard)' PROVE dir'[moved'] \notin Foreign
  <2>1. stage' \in {"confirm", "unlink"} /\ step'.op = "drop" /\ step'.name = DataGuard BY <1>2 DEF Dropping
  <2>2. todo' = todo BY <2>1, Confirming, Unlinking
  <2>3. step.op = "drop" /\ step.name = DataGuard BY <2>1, <2>2 DEF step
  <2>4. CASE stage' = "confirm"
    <3>1. dir'[moved'] = dir[step.name] BY <2>3, <2>4, Confirming
    <3> QED BY <2>3, <3>1 DEF GuardOK, GuardOwn
  <2>5. CASE stage' = "unlink"
    <3>1. stage = "confirm" /\ dir'[moved'] = dir[moved] BY <2>5, Unlinking
    <3>2. Dropping(DataGuard) BY <2>3, <3>1 DEF Dropping
    <3> QED BY <3>1, <3>2 DEF GuardOK, GuardOwn
  <2> QED BY <2>1, <2>4, <2>5
<1> QED BY <1>1, <1>2 DEF GuardOwn

(* It is made while the pair is installed.                                  *)
LEMMA FileInstallGuards == ASSUME Sheltering PROVE InstallGuards'
<1> USE ShelteringFacts
<1> SUFFICES ASSUME phase = "installing", ok', dir'[DataGuard] # Old(D)
             PROVE  \E j \in 1..Len(todo') : todo'[j].op = "link" /\ todo'[j].to = DataGuard
  BY DEF InstallGuards
<1>1. step \in InstallSteps(kind) /\ ok BY StepSort
<1>2. dir[DataGuard] # Old(D)
  <2> SUFFICES ASSUME dir[DataGuard] = Old(D) PROVE FALSE OBVIOUS
  <2>1. Drops(step, DataGuard) \/ step.op = "reclaim" BY CopyChanges
  <2> QED BY <1>1, <2>1 DEF InstallSteps, Drops
<1>3. PICK j \in 1..Len(todo) : todo[j].op = "link" /\ todo[j].to = DataGuard
  BY <1>1, <1>2 DEF GuardOK, InstallGuards
<1>4. CASE todo' = todo BY <1>3, <1>4
<1>5. CASE todo' # todo
  <2>1. todo' = Tail(todo) BY <1>5, Ends DEF Pass
  <2>2. j # 1
    <3> SUFFICES ASSUME j = 1 PROVE FALSE OBVIOUS
    <3>1. step.op = "link" /\ step.to = DataGuard BY <1>3, Positions
    <3>2. dir'[step.to] = step.id BY <1>5, <3>1, Passed
    <3> QED BY <3>1, <3>2 DEF Shelters
  <2>3. j - 1 \in 1..Len(todo') /\ todo'[j - 1] = todo[j] BY <2>1, <2>2, Positions
  <2> QED BY <1>3, <2>3
<1> QED BY <1>4, <1>5

(* The backup is not linked again by a part that drops the guard.           *)
LEMMA BackupStays ==
  ASSUME Sheltering, phase \in PublishPhases, NEW j \in 1..Len(todo'), todo'[j].op = "drop",
         dir'[DataBackup] = Old(D)
  PROVE  dir[DataBackup] = Old(D)
<1> USE ShelteringFacts
<1> SUFFICES ASSUME dir'[DataBackup] # dir[DataBackup] PROVE FALSE OBVIOUS
<1>1. step \in PublishSteps(kind) BY StepSort
<1>2. todo' # << >> BY Positions
<1>3. \/ phase \in Keeping \union Retiring
      \/ Dropping(DataBackup) /\ (step.strict => todo' = << >>)
  BY <1>1, CopyChanges DEF PublishSteps, DropsPrivate, DropsJournal
<1>4. phase \notin Retiring BY Phases DEF Retiring
<1>5. phase \notin Keeping
  <2>1. todo' \in Seq(Careful(kind, phase)) BY ScriptKept DEF CopiesOK
  <2>2. todo'[j] \in Careful(kind, phase) BY <2>1
  <2> QED BY <2>2 DEF Careful, Spares
<1>6. Drops(step, DataBackup) BY <1>3, <1>4, <1>5 DEF Dropping, Drops, At
<1> QED BY <1>2, <1>3, <1>4, <1>5, <1>6 DEF Shelters

(* The cleanup drops the backup first.                                      *)
LEMMA FileBackupFirst == ASSUME Sheltering, phase \in PublishPhases PROVE BackupFirst'
<1> USE ShelteringFacts
<1> SUFFICES ASSUME NEW j \in 1..Len(todo'), Drops(todo'[j], DataGuard), dir'[DataBackup] = Old(D)
             PROVE  \E i \in 1..(j - 1) : Drops(todo'[i], DataBackup)
  BY DEF BackupFirst
<1>1. dir[DataBackup] = Old(D) BY BackupStays DEF Drops
<1>2. BackupFirst BY DEF GuardOK
<1>3. CASE todo' = todo BY <1>1, <1>2, <1>3 DEF BackupFirst
<1>4. CASE todo' = Tail(todo)
  <2>1. j + 1 \in 1..Len(todo) /\ todo'[j] = todo[j + 1] /\ todo' # todo /\ j \in Nat BY <1>4, Positions
  <2>2. PICK i \in 1..((j + 1) - 1) : Drops(todo[i], DataBackup) BY <1>1, <1>2, <2>1 DEF BackupFirst
  <2>3. i # 1
    <3> SUFFICES ASSUME i = 1 PROVE FALSE OBVIOUS
    <3>1. Drops(step, DataBackup) /\ step.op = "drop" /\ step.name = DataBackup
      BY <2>2, Positions DEF Drops
    <3>2. step.strict BY <3>1 DEF Shelters
    <3>3. todo' # << >> OBVIOUS
    <3>4. dir'[DataBackup] \notin Own BY <2>1, <3>1, <3>2, <3>3, Passed
    <3> QED BY <3>4
  <2>4. i \in 1..Len(todo) /\ i - 1 \in 1..(j - 1) BY <2>1, <2>3
  <2>5. todo'[i - 1] = todo[i] BY <1>4, <2>3, <2>4, Positions
  <2> QED BY <2>2, <2>4, <2>5
<1>5. CASE todo' = << >> BY <1>5
<1> QED BY <1>3, <1>4, <1>5

(* A cleanup that keeps its copies gives the guard its name back first.     *)
LEMMA FileGuardKeptFirst == ASSUME Sheltering, phase \in Keeping PROVE GuardKeptFirst'
<1> USE ShelteringFacts
<1> SUFFICES ASSUME NEW j \in 1..Len(todo'), Retains(todo'[j], DataBackup), dir'[DataGuard] = None,
                    NEW h \in handles', dir'[h] = Old(D)
             PROVE  \E i \in 1..(j - 1) : Retains(todo'[i], DataGuard)
  BY DEF GuardKeptFirst
<1>1. step.op \in {"retain", "preserve"} /\ (step.op = "retain" => step.strict) BY DEF Spares
<1>2. h \in handles /\ dir[h] = Old(D) BY <1>1, Keeps
<1>3. dir[DataGuard] = None
  <2> SUFFICES ASSUME dir[DataGuard] # None PROVE FALSE OBVIOUS
  <2>1. step.op \in {"reclaim", "drop", "link"} BY CopyChanges DEF Drops, Dropping, At
  <2> QED BY <1>1, <2>1
<1>4. GuardKeptFirst BY DEF GuardOK
<1>5. CASE todo' = todo BY <1>2, <1>3, <1>4, <1>5 DEF GuardKeptFirst
<1>6. CASE todo' = Tail(todo)
  <2>1. j + 1 \in 1..Len(todo) /\ todo'[j] = todo[j + 1] /\ todo' # todo /\ j \in Nat BY <1>6, Positions
  <2>2. PICK i \in 1..((j + 1) - 1) : Retains(todo[i], DataGuard)
    BY <1>2, <1>3, <1>4, <2>1 DEF GuardKeptFirst
  <2>3. i # 1
    <3> SUFFICES ASSUME i = 1 PROVE FALSE OBVIOUS
    <3>1. step.op = "retain" /\ step.name = DataGuard BY <2>2, Positions DEF Retains
    <3>2. todo' # << >> OBVIOUS
    <3>3. RetainCopy BY <1>1, <3>1, <3>2, Keeps DEF Miss
    <3>4. step.id \in May("rename", DataGuard) \ {None} BY <3>1 DEF Fitting, Fillers
    <3>5. step.id = Old(D)
      <4>1. May("rename", DataGuard) = {None, Old(D)} \union Foreign BY MayHold DEF DataGuard
      <4> QED BY <3>4, <4>1 DEF Step
    <3> QED BY <1>2, <1>3, <3>1, <3>3, <3>5, RetainsOne
  <2>4. i \in 1..Len(todo) /\ i - 1 \in 1..(j - 1) BY <2>1, <2>3
  <2>5. todo'[i - 1] = todo[i] BY <1>6, <2>3, <2>4, Positions
  <2> QED BY <2>2, <2>4, <2>5
<1>7. CASE todo' = << >> BY <1>7
<1> QED BY <1>5, <1>6, <1>7

(* When a rename commits, it has its guard.                                 *)
LEMMA CommitGuarded ==
  ASSUME Sheltering, InstallOK, committed' # committed PROVE dir'[DataGuard] = Old(D) /\ todo' = << >>
<1> USE ShelteringFacts
<1>1. phase = "installing" /\ step.op = "write" BY CommitWritten
<1>2. todo' = << >> /\ \A n \in Entry : n # Commit => dir'[n] = dir[n] BY CommitMoved
<1>3. ok /\ step \in InstallSteps(kind) BY <1>1, StepSort
<1>4. PICK i \in 1..Len(Install(kind)) : step = Install(kind)[i] /\ i = Len(Install(kind)) - Len(todo) + 1
  BY <1>1, InstallStep
<1>5. i = Len(Install(kind)) BY <1>1, <1>4, InstallLast DEF Kind
<1>6. Len(todo) = 1
  <2>1. PICK l \in Nat : l = Len(todo) OBVIOUS
  <2>2. Install(kind) \in Seq(InstallSteps(kind)) BY InstallFits DEF Kind
  <2>3. PICK n \in Nat : n = Len(Install(kind)) BY <2>2
  <2> QED BY <1>4, <1>5, <2>1, <2>3
<1>7. \A j \in 1..Len(todo) : todo[j].op = "write" BY <1>1, <1>6, Positions
<1>8. dir[DataGuard] = Old(D) BY <1>1, <1>3, <1>7 DEF GuardOK, InstallGuards
<1> QED BY <1>2, <1>8, TwoCopies

(* As long as the backup of a committed rename may hold the data file, or   *)
(* its removal be undone, so does the guard.                                *)
LEMMA FileDataGuarded == ASSUME Sheltering, InstallOK PROVE DataGuarded'
<1> USE ShelteringFacts
<1> SUFFICES ASSUME committed',
                    dir'[DataBackup] = Old(D) \/ (Dropping(DataBackup)' /\ dir'[moved'] = Old(D))
             PROVE  dir'[DataGuard] = Old(D)
  BY DEF DataGuarded
<1>1. CASE committed' # committed BY <1>1, CommitGuarded
<1>2. CASE committed' = committed
  <2>1. phase \in {"discarding"} \union PublishPhases
    BY <1>2, StepSort DEF Phase, PublishPhases, RollbackPhases, PhaseOK
  <2>2. step \in DiscardSteps(kind) \union PublishSteps(kind) BY <2>1, StepSort
  <2>3. step.op \notin {"reclaim", "link"}
    BY <2>2 DEF DiscardSteps, PublishSteps, DropsPrivate, DropsJournal
  <2>4. phase \notin Retiring BY <2>1, Phases DEF Retiring
  <2>5. Dropping(DataBackup)' => \/ dir'[moved'] = dir[DataBackup]
                                 \/ Dropping(DataBackup) /\ dir'[moved'] = dir[moved]
    <3> SUFFICES ASSUME Dropping(DataBackup)'
                 PROVE  \/ dir'[moved'] = dir[DataBackup]
                        \/ Dropping(DataBackup) /\ dir'[moved'] = dir[moved]
      OBVIOUS
    <3>1. stage' \in {"confirm", "unlink"} /\ step'.op = "drop" /\ step'.name = DataBackup BY DEF Dropping
    <3>2. todo' = todo BY <3>1, Confirming, Unlinking
    <3>3. step.op = "drop" /\ step.name = DataBackup BY <3>1, <3>2 DEF step
    <3>4. CASE stage' = "confirm" BY <3>3, <3>4, Confirming
    <3>5. CASE stage' = "unlink"
      <4>1. stage = "confirm" /\ dir'[moved'] = dir[moved] BY <3>5, Unlinking
      <4> QED BY <3>3, <4>1 DEF Dropping
    <3> QED BY <3>1, <3>4, <3>5
  <2>6. CASE dir[DataBackup] = Old(D) \/ (Dropping(DataBackup) /\ dir[moved] = Old(D))
    <3>1. dir[DataGuard] = Old(D) BY <1>2, <2>6 DEF GuardOK, DataGuarded
    <3> SUFFICES ASSUME dir'[DataGuard] # dir[DataGuard] PROVE FALSE BY <3>1
    <3>2. Drops(step, DataGuard) BY <2>3, <3>1, CopyChanges
    <3>3. phase \in PublishPhases BY <2>1, <3>2 DEF Shelters
    <3>4. dir[DataBackup] # Old(D) \/ \E i \in 1..(1 - 1) : Drops(todo[i], DataBackup)
      BY <3>2, <3>3, Positions DEF GuardOK, BackupFirst
    <3>5. dir[DataBackup] # Old(D) BY <3>4
    <3>6. step.name = DataBackup BY <2>6, <3>5 DEF Dropping
    <3> QED BY <3>2, <3>6 DEF Drops
  <2>7. CASE dir[DataBackup] # Old(D) /\ ~(Dropping(DataBackup) /\ dir[moved] = Old(D))
    <3>1. dir'[DataBackup] = Old(D) BY <2>5, <2>7
    <3>2. dir'[DataBackup] # dir[DataBackup] BY <2>7, <3>1
    <3>3. /\ Retains(step, DataBackup) /\ phase \in Keeping \union Retiring
          /\ dir[DataBackup] = None /\ step.id = Old(D)
      BY <2>3, <2>7, <3>1, <3>2, CopyChanges
    <3>4. phase \in Keeping BY <2>4, <3>3
    <3>5. RetainCopy
      <4>1. step.op = "retain" BY <3>3 DEF Retains
      <4> QED BY <3>2, <4>1, Keeps
    <3>6. \E h \in handles : dir[h] = Old(D) BY <3>2, <3>3, <3>5, RetainedWas DEF Retains
    <3>7. dir[DataGuard] # None
      <4>1. \/ dir[DataGuard] # None
            \/ \A h \in handles : dir[h] # Old(D)
            \/ \E i \in 1..(1 - 1) : Retains(todo[i], DataGuard)
        BY <3>3, <3>4, Positions DEF GuardOK, GuardKeptFirst
      <4> QED BY <3>6, <4>1
    <3>8. dir[DataGuard] = Old(D)
      <4>1. dir[DataGuard] \in May("rename", DataGuard) BY DEF NamesOK, Filling
      <4>2. May("rename", DataGuard) = {None, Old(D)} \union Foreign BY MayHold DEF DataGuard
      <4>3. dir[DataGuard] \notin Foreign BY DEF GuardOK, GuardOwn
      <4> QED BY <3>7, <4>1, <4>2, <4>3
    <3> SUFFICES ASSUME dir'[DataGuard] # dir[DataGuard] PROVE FALSE BY <3>8
    <3>9. Drops(step, DataGuard) BY <2>3, <3>7, CopyChanges
    <3> QED BY <3>3, <3>9 DEF Drops, Retains
  <2> QED BY <2>6, <2>7
<1> QED BY <1>1, <1>2

(* So a file operation keeps the copies apart, ...                          *)
LEMMA FileCopies == ASSUME Inv, OutcomeInv, CopiesOK, FileStep PROVE CopiesOK'
<1>1. todo # << >> /\ todo' \in {todo, Tail(todo), << >>} /\ UNCHANGED <<kind, phase>>
  BY Ends DEF FileStep, ProgramAct, Pass
<1>2. todo' \in Seq(Careful(kind, phase)) BY <1>1, ScriptKept DEF CopiesOK
<1>3. ASSUME kind = "rename" PROVE GuardOK'
  <2>1. Sheltering /\ InstallOK BY <1>3 DEF Sheltering, OutcomeInv
  <2> QED BY <1>1, <2>1, FileLinkSeen, FileGuardOwn, FileInstallGuards, FileBackupFirst, FileGuardKeptFirst,
             FileDataGuarded DEF GuardOK
<1>4. Careful(kind, phase)' = Careful(kind, phase) BY <1>1
<1> QED BY <1>1, <1>2, <1>3, <1>4 DEF CopiesOK

(* ... an external writer does not reach them, ...                          *)
LEMMA OutsideCopies == ASSUME Inv, CopiesOK, Interference PROVE CopiesOK'
<1>1. UNCHANGED <<kind, phase, committed, todo, stage, moved, ok, handles>> /\ ForeignStep
  BY Outside DEF Interference, control
<1>2. \A n \in Name : dir'[n] # dir[n] => n[1] \in {"public", "source", "target"} BY <1>1, Outside
<1>3. dir'[DataBackup] = dir[DataBackup] /\ dir'[DataGuard] = dir[DataGuard]
  <2>1. DataBackup \in Name /\ DataGuard \in Name BY TwoCopies DEF Name
  <2>2. DataBackup[1] = "backup" /\ DataGuard[1] = "guard" BY Places DEF DataBackup, DataGuard
  <2> QED BY <1>2, <2>1, <2>2
<1>4. \A n \in Scrap : dir'[n] = dir[n] BY <1>2 DEF Name, Scrap
<1>5. todo' \in Seq(Careful(kind', phase')) BY <1>1 DEF CopiesOK
<1>6. ASSUME kind = "rename" PROVE GuardOK'
  <2>1. GuardOK BY <1>6 DEF CopiesOK
  <2>2. LinkSeen' BY <1>1, <1>3, <2>1 DEF GuardOK, LinkSeen, At, step
  <2>3. GuardOwn'
    <3>1. \A n : Dropping(n) => moved \in Scrap BY DEF Dropping, At, Inv, DirectoryInv, QuarantineApart, Unlinks
    <3> QED BY <1>1, <1>3, <1>4, <2>1, <3>1 DEF GuardOK, GuardOwn, Dropping, At, step
  <2>4. InstallGuards' BY <1>1, <1>3, <2>1 DEF GuardOK, InstallGuards
  <2>5. DataGuarded'
    <3>1. \A n : Dropping(n) => moved \in Scrap BY DEF Dropping, At, Inv, DirectoryInv, QuarantineApart, Unlinks
    <3> QED BY <1>1, <1>3, <1>4, <2>1, <3>1 DEF GuardOK, DataGuarded, Dropping, At, step
  <2>6. phase' \in PublishPhases => BackupFirst' BY <1>1, <1>3, <2>1 DEF GuardOK, BackupFirst
  <2>7. phase' \in Keeping => GuardKeptFirst'
    <3>1. \A h \in handles : dir'[h] = dir[h] BY <1>4 DEF Inv, DirectoryInv, CopiesOwn
    <3> QED BY <1>1, <1>3, <2>1, <3>1 DEF GuardOK, GuardKeptFirst
  <2> QED BY <2>2, <2>3, <2>4, <2>5, <2>6, <2>7 DEF GuardOK
<1> QED BY <1>1, <1>5, <1>6 DEF CopiesOK

(* ... and a mutation starts with nothing to drop.                          *)
LEMMA InitCopies == Init => CopiesOK
<1> SUFFICES ASSUME Init PROVE CopiesOK OBVIOUS
<1>1. todo = << >> /\ phase = "idle" /\ ~committed /\ dir = Opening(kind) BY DEF Init
<1>2. ASSUME kind = "rename" PROVE GuardOK
  <2>1. dir[DataGuard] = None
    <3>1. DataGuard \in Name /\ DataGuard[1] = "guard" BY TwoCopies, Places DEF Name, DataGuard
    <3> QED BY <1>1, <1>2, <3>1 DEF Opening
  <2>2. LinkSeen /\ InstallGuards /\ DataGuarded BY <1>1 DEF LinkSeen, At, InstallGuards, DataGuarded
  <2>3. GuardOwn BY <1>1, <2>1, Apart DEF GuardOwn, Dropping, At, Inode
  <2>4. phase \notin PublishPhases /\ phase \notin Keeping BY <1>1 DEF PublishPhases, Keeping
  <2> QED BY <2>2, <2>3, <2>4 DEF GuardOK
<1> QED BY <1>1, <1>2 DEF CopiesOK

(* Every step keeps the invariant about the copies.                         *)
LEMMA NextCopies == Inv /\ OutcomeInv /\ CopiesOK /\ [Work]_vars => CopiesOK'
<1> SUFFICES ASSUME Inv, OutcomeInv, CopiesOK, [Work]_vars PROVE CopiesOK' OBVIOUS
<1>1. CASE FileStep BY <1>1, FileCopies
<1>2. CASE Begin \/ Progress \/ RollbackRaises \/ Crash \/ Overlook BY <1>2, ControlCopies
<1>3. CASE Interference BY <1>3, OutsideCopies
<1>4. CASE UNCHANGED vars
  <2>1. UNCHANGED <<dir, todo, stage, moved, ok, handles, kind, phase, committed>> BY <1>4 DEF vars
  <2>2. UNCHANGED <<LinkSeen, GuardOwn, InstallGuards, BackupFirst, GuardKeptFirst, DataGuarded>>
    BY <2>1 DEF LinkSeen, GuardOwn, InstallGuards, BackupFirst, GuardKeptFirst, DataGuarded, At, Dropping, step
  <2> QED BY <2>1, <2>2 DEF CopiesOK, GuardOK, Careful, Spares
<1> QED BY <1>1, <1>2, <1>3, <1>4 DEF Work

(* Until a commit file is misread, ...                                      *)
SafeCopies == misread \/ (OutcomeInv /\ CopiesOK)

LEMMA NextSafe == Inv /\ Judged /\ SafeCopies /\ Judged' /\ [Next]_<<vars, misread>> => SafeCopies'
<1> SUFFICES ASSUME Inv, Judged, SafeCopies, Judged', [Next]_<<vars, misread>> PROVE SafeCopies'
  OBVIOUS
<1>1. CASE Misread BY <1>1 DEF Misread, InstalledUnread, RecoverUnread, Misreads, SafeCopies
<1>2. CASE [Work]_vars /\ misread' = misread BY <1>2, NextCopies DEF SafeCopies, Judged
<1> QED BY <1>1, <1>2, NextSplit

(* ... the copies are apart.                                                *)
THEOREM CopiesApart == Spec => []SafeCopies
<1>1. Init => SafeCopies BY InitOutcome, InitCopies DEF SafeCopies
<1>2. Spec => [](Inv /\ Judged) BY Invariance, OutcomeKept, PTL
<1> QED BY <1>1, <1>2, NextSafe, PTL DEF Spec

-----------------------------------------------------------------------------
(* A change of the directory that fills a free name unlinks nothing.        *)
Gives ==
  \/ dir' = dir
  \/ \E a, b \in Name : dir[b] = None /\ dir' = Renamed(dir, a, b)
  \/ \E b \in Name, i \in Inode \union {None} : dir[b] = None /\ dir' = Set(dir, b, i)

(* So every file keeps a link.                                              *)
LEMMA GivesKeeps ==
  ASSUME dir \in Directory, Gives, NEW i, i # None, Links(dir, i) # {} PROVE Links(dir', i) # {}
<1>1. PICK n \in Name : dir[n] = i BY DEF Links
<1> SUFFICES \E m \in Name : dir'[m] = i BY DEF Links
<1>2. CASE dir' = dir BY <1>1, <1>2
<1>3. CASE \E a, b \in Name : dir[b] = None /\ dir' = Renamed(dir, a, b)
  <2>1. PICK a \in Name, b \in Name : dir[b] = None /\ dir' = Renamed(dir, a, b) BY <1>3
  <2>2. n # b BY <1>1, <2>1
  <2>3. CASE n = a
    <3>1. dir'[b] = i BY <1>1, <2>1, <2>2, <2>3 DEF Renamed, Directory
    <3> QED BY <3>1
  <2>4. CASE n # a
    <3>1. dir'[n] = i BY <1>1, <2>1, <2>2, <2>4 DEF Renamed, Directory
    <3> QED BY <3>1
  <2> QED BY <2>3, <2>4
<1>4. CASE \E b \in Name, j \in Inode \union {None} : dir[b] = None /\ dir' = Set(dir, b, j)
  BY <1>1, <1>4 DEF Set, Directory
<1> QED BY <1>2, <1>3, <1>4 DEF Gives

(* Unlinking one entry leaves the others.                                   *)
LEMMA UnlinksOne ==
  ASSUME dir \in Directory, NEW m \in Name, dir' = Set(dir, m, None), NEW n \in Name, n # m, dir[n] # None
  PROVE  Links(dir', dir[n]) # {}
BY DEF Links, Set, Directory

(* What was looked at is unlinked in a step of its own; every other step    *)
(* but a purge fills free names only.                                       *)
UnlinksMoved == At({"drop", "retract", "close"}, "unlink") /\ dir' = Set(dir, moved, None)

(* A rename to a free name is such a change, ...                            *)
LEMMA RenamingGives ==
  ASSUME NEW a \in Name, NEW b \in Name, dir[b] = None, dir' = Renamed(dir, a, b) PROVE Gives
BY DEF Gives

(* ... and so is a link, or a file, under a free name.                      *)
LEMMA SettingGives ==
  ASSUME NEW b \in Name, NEW i \in Inode \union {None}, dir[b] = None, dir' = Set(dir, b, i) PROVE Gives
BY DEF Gives

(* What one step of a script may unlink.                                    *)
LEMMA Losses ==
  ASSUME DirectoryInv, ProgramAct PROVE Gives \/ UnlinksMoved \/ PurgeScrap
<1>1. todo # << >> BY Ends
<1>2. /\ step.name \in Name /\ step.to \in Name /\ step.id \in Inode \union {None}
      /\ step.from \subseteq Name /\ dir \in Directory /\ handles \subseteq Scrap
      /\ Scrap \subseteq Name
  BY <1>1, EntriesApart, Apart DEF DirectoryInv, CopiesOwn
<1>3. CASE dir' = dir BY <1>3 DEF Gives
<1>4. CASE WriteFile \/ RestoreEntry \/ RelinkEntry \/ PreserveJournal \/ FailTwice
  <2>1. dir' = dir \/ (dir[step.name] = None /\ dir' = Set(dir, step.name, step.id))
    BY <1>4 DEF WriteFile, RestoreEntry, RelinkEntry, PreserveJournal, FailTwice
  <2> QED BY <1>2, <1>3, <2>1, SettingGives
<1>5. CASE RenameEntry \/ RenameBack
  BY <1>2, <1>3, <1>5, RenamingGives DEF RenameEntry, RenameBack
<1>6. CASE ConfirmRename
  <2>1. dir' = dir \/ (dir[step.name] = None /\ dir' = Renamed(dir, step.to, step.name))
    BY <1>6 DEF ConfirmRename
  <2> QED BY <1>2, <1>3, <2>1, RenamingGives
<1>7. CASE LinkEntry
  <2>1. dir[step.name] \in Inode \union {None} BY <1>2 DEF Directory
  <2> QED BY <1>2, <1>3, <1>7, <2>1, SettingGives DEF LinkEntry
<1>8. CASE LookAtTarget /\ dir' # dir
  <2> DEFINE c == CHOOSE x \in Sources(step.from) : TRUE
  <2>1. dir[step.name] = None /\ Sources(step.from) # {} /\ dir' = Renamed(dir, c, step.name)
    BY <1>8 DEF LookAtTarget
  <2>2. c \in Sources(step.from) BY <2>1
  <2>3. c \in Name BY <1>2, <2>2 DEF Sources, RecoveryNames
  <2> HIDE DEF c
  <2> QED BY <1>2, <2>1, <2>3, RenamingGives
<1>9. CASE LookAtVictim /\ dir' # dir
  <2>1. FreshScrap # {} /\ dir' = Set(dir, FreeScrap, step.id) BY <1>9 DEF LookAtVictim
  <2>2. FreeScrap \in Name /\ dir[FreeScrap] = None BY <1>2, <2>1, FreeScrapFree
  <2> QED BY <1>2, <2>1, <2>2, SettingGives
<1>10. CASE Quarantine /\ dir' # dir
  <2>1. FreshScrap # {} /\ dir' = Renamed(dir, step.name, FreeScrap) BY <1>10 DEF Quarantine
  <2>2. FreeScrap \in Name /\ dir[FreeScrap] = None BY <1>2, <2>1, FreeScrapFree
  <2> QED BY <1>2, <2>1, <2>2, RenamingGives
<1>11. CASE Discard /\ dir' # dir
  <2>1. moved \in Name BY <1>11, Apart DEF Discard, At, DirectoryInv, QuarantineApart
  <2>2. dir[step.name] = None /\ dir' = Renamed(dir, moved, step.name) BY <1>11 DEF Discard
  <2> QED BY <1>2, <2>1, <2>2, RenamingGives
<1>12. CASE RetainCopy /\ dir' # dir
  <2> DEFINE copies == {h \in handles : dir[h] = step.id}
             c == CHOOSE x \in copies : TRUE
  <2>1. dir[step.name] = None /\ copies # {} /\ dir' = Renamed(dir, c, step.name)
    BY <1>12 DEF RetainCopy
  <2>2. c \in copies BY <2>1
  <2>3. c \in Name BY <1>2, <2>2
  <2> HIDE DEF c, copies
  <2> QED BY <1>2, <2>1, <2>3, RenamingGives
<1>13. CASE UnlinkEntry \/ UnlinkCopy
  BY <1>13 DEF UnlinkEntry, UnlinkCopy, UnlinksMoved, At
<1>14. (FailCall \/ LookAtSource \/ LookAtLeftover \/ ConfirmLink \/ LookAtOwn \/ Sync \/ Check
         \/ CheckNoForeign \/ CheckGone \/ ConfirmReclaim \/ AdoptScrap \/ CloseHandle \/ ConfirmClose) => dir' = dir
  BY DEF FailCall, LookAtSource, LookAtLeftover, ConfirmLink, LookAtOwn, Sync, Check, CheckNoForeign,
         CheckGone, ConfirmReclaim, AdoptScrap, CloseHandle, ConfirmClose
<1> QED BY <1>3, <1>4, <1>5, <1>6, <1>7, <1>8, <1>9, <1>10, <1>11, <1>12, <1>13, <1>14
     DEF ProgramAct, RunStep

(* While a file operation runs, the pair to give back is the one that the   *)
(* part of the mutation under way protects.                                 *)
LEMMA WantedProtected ==
  ASSUME Inv, OutcomeInv, todo # << >>, ~(phase = "discarding" /\ committed)
  PROVE  /\ Wanted = IF phase \in {"finishing", "emptying", "untombing"} THEN {}
                     ELSE Entries(Protected(kind, phase))
         /\ phase \in PublishPhases => committed
<1>1. PhaseOK /\ ScriptsOK BY DEF OutcomeInv
<1>2. phase \in Phase \ {"idle", "down"} BY <1>1, StepSort
<1>3. CASE phase \in PublishPhases BY <1>1, <1>3, Phases DEF PhaseOK, Protected, Wanted
<1>4. CASE phase \in {"finishing", "emptying", "untombing"}
  <2>1. kind = "delete" /\ committed /\ phase \notin PublishPhases BY <1>1, <1>4, Phases DEF PhaseOK
  <2>2. Entries(After("delete")) = {} BY Pairing DEF Entries
  <2> QED BY <1>4, <2>1, <2>2 DEF Wanted
<1>5. CASE phase \notin PublishPhases \union {"finishing", "emptying", "untombing"}
  <2>1. ~committed BY <1>1, <1>2, <1>5 DEF PhaseOK, Phase, PublishPhases
  <2> QED BY <1>5, <2>1 DEF Protected, Wanted
<1> QED BY <1>3, <1>4, <1>5

(* A file of a pair whose names hold it keeps its link when an anonymous    *)
(* name is unlinked.                                                        *)
LEMMA NamedStays ==
  ASSUME dir \in Directory, NEW m \in Scrap, dir' = Set(dir, m, None),
         NEW n \in Entry, NEW i, dir[n] = i, i # None
  PROVE  Links(dir', i) # {}
<1>1. n \in Name /\ m \in Name /\ n # m BY Apart
<1> QED BY <1>1, UnlinksOne

(* What a file operation may count on for a file that is to be given back.  *)
LEMMA WantedFacts ==
  ASSUME Inv, OutcomeInv, CopiesOK, FileStep, ~(phase = "discarding" /\ committed), NEW p \in Wanted
  PROVE  /\ ProgramAct /\ DirectoryInv /\ dir \in Directory /\ todo # << >> /\ Spares(kind, phase, step)
         /\ phase \notin {"finishing", "emptying", "untombing"} /\ (phase \in PublishPhases => committed)
         /\ p \in Protected(kind, phase) /\ p[2] # None /\ p[2] \in Files(Protected(kind, phase))
         /\ p[1] \in Entry
<1>1. ProgramAct /\ DirectoryInv /\ dir \in Directory BY DEF FileStep, ProgramAct, Inv, DirectoryInv
<1>2. todo # << >> BY <1>1, Ends
<1>3. /\ phase \notin {"finishing", "emptying", "untombing"} /\ p \in Entries(Protected(kind, phase))
      /\ phase \in PublishPhases => committed
  BY <1>2, WantedProtected
<1>4. kind \in Kind BY KindType
<1>5. p \in Protected(kind, phase) /\ p[2] # None /\ p[2] \in Files(Protected(kind, phase))
  BY <1>3 DEF Entries, Files
<1>6. p[1] \in Entry
  <2>1. Protected(kind, phase) \in Pairs BY <1>4, PairTypes DEF Protected
  <2> QED BY <1>5, <2>1 DEF Pairs
<1>7. Spares(kind, phase, step) BY <1>2, StepCareful
<1> QED BY <1>1, <1>2, <1>3, <1>5, <1>6, <1>7

(* What a step unlinks, or decides to, has a second link under a named      *)
(* entry if it is to be given back.                                         *)
LEMMA SecondLink ==
  ASSUME Inv, OutcomeInv, CopiesOK, FileStep, ~(phase = "discarding" /\ committed), NEW p \in Wanted,
         step.op \in {"drop", "retract", "close"}, stage \in {"confirm", "unlink"},
         step.op = "close" \/ step.guarded => Holds(step.pair),
         step.op \in {"drop", "retract"} => dir[moved] = step.id, dir[moved] = p[2]
  PROVE  \E n \in Entry : dir[n] = p[2]
<1> USE WantedFacts
<1>1. CASE step.op = "close" \/ (step.guarded /\ step.pair = Protected(kind, phase))
  <2>1. step.pair = Protected(kind, phase) BY <1>1 DEF Spares
  <2>2. dir[p[1]] = p[2] BY <1>1, <2>1 DEF Holds
  <2> QED BY <2>2
<1>2. CASE phase \in PublishPhases /\ kind = "rename" /\ Drops(step, DataBackup)
  <2>1. Dropping(DataBackup) BY <1>2 DEF Dropping, Drops
  <2>2. dir[moved] \in May("rename", DataBackup)
    BY <1>2 DEF OutcomeInv, NamesOK, Found, Drops
  <2>3. May("rename", DataBackup) = {None, Old(D)} \union Foreign BY MayHold DEF DataBackup
  <2>4. step.id \in Own \union {None} /\ Own \cap Foreign = {} BY HeadFields, Apart
  <2>5. dir[moved] = Old(D) BY <1>2, <2>2, <2>3, <2>4 DEF Drops
  <2>6. dir[DataGuard] = Old(D) BY <1>2, <2>1, <2>5 DEF CopiesOK, GuardOK, DataGuarded
  <2> QED BY <2>5, <2>6, TwoCopies
<1>3. step.op # "close" => \/ step.guarded /\ step.pair = Protected(kind, phase)
                           \/ phase \in PublishPhases /\ kind = "rename" /\ Drops(step, DataBackup)
  BY DEF Spares
<1> QED BY <1>1, <1>2, <1>3

(* No file operation unlinks the last copy of a file to give back, unless   *)
(* the pair has changed since it looked, ...                                *)
LEMMA WantedStays ==
  ASSUME Inv, OutcomeInv, CopiesOK, FileStep, ~Overtaken, phase # "purging", ~(phase = "discarding" /\ committed),
         NEW p \in Wanted, Links(dir, p[2]) # {}
  PROVE  Links(dir', p[2]) # {}
<1> USE WantedFacts
<1>1. CASE Gives BY <1>1, GivesKeeps
<1>2. CASE PurgeScrap BY <1>2 DEF PurgeScrap, At, Spares
<1>3. CASE UnlinksMoved
  <2>1. /\ step.op \in {"drop", "retract", "close"} /\ stage = "unlink" /\ Holds(step.pair)
        /\ dir' = Set(dir, moved, None) /\ moved \in Scrap
    BY <1>3 DEF UnlinksMoved, At, Overtaken, DirectoryInv, QuarantineApart, Unlinks
  <2>2. CASE dir[moved] # p[2]
    <3>1. PICK n \in Name : dir[n] = p[2] BY DEF Links
    <3> QED BY <2>1, <2>2, <3>1, Apart, UnlinksOne
  <2>3. CASE dir[moved] = p[2]
    <3>1. step.op \in {"drop", "retract"} => dir[moved] = step.id
      BY <2>1 DEF OutcomeInv, NamesOK, Found
    <3>2. PICK n \in Entry : dir[n] = p[2] BY <2>1, <2>3, <3>1, SecondLink
    <3> QED BY <2>1, <3>2, NamedStays
  <2> QED BY <2>2, <2>3
<1> QED BY <1>1, <1>2, <1>3, Losses

(* ... and none decides to.                                                 *)
LEMMA DecidesWell ==
  ASSUME Inv, OutcomeInv, CopiesOK, FileStep, ~(phase = "discarding" /\ committed), stage' = "unlink",
         NEW p \in Wanted, Links(dir, p[2]) = {moved'}
  PROVE  FALSE
<1> USE WantedFacts
<1>1. /\ moved' = moved /\ stage = "confirm" /\ step.op \in {"drop", "retract", "close"}
      /\ step.op \in {"drop", "retract"} => dir[moved] = step.id /\ (step.guarded => Holds(step.pair))
      /\ step.op = "close" => Holds(step.pair)
  BY Unlinking
<1>2. moved \in Scrap BY <1>1 DEF DirectoryInv, QuarantineApart, Unlinks, At
<1>3. dir[moved] = p[2] BY <1>1 DEF Links
<1>4. PICK n \in Entry : dir[n] = p[2] BY <1>1, <1>3, SecondLink
<1>5. n \in Links(dir, p[2]) /\ n # moved BY <1>2, <1>4, Apart DEF Links
<1> QED BY <1>1, <1>5

(* Whatever fails, and wherever the process dies, no step of the program    *)
(* before the purge of a finished rollback, and but for the exception       *)
(* handler of a committed rename and a misread commit file, decides to      *)
(* unlink the last link to a file of the pair that a restart has to give    *)
(* back, nor unlinks it while the pair is what it was at the last look.     *)
THEOREM LastCopyNeverLost == Spec => LastCopyKept
<1> DEFINE Exempt == Overtaken \/ phase = "purging" \/ (phase = "discarding" /\ committed) \/ misread
<1>1. Inv /\ SafeCopies /\ [Next]_<<vars, misread>> => [DropsWanted \/ DecidesBlindly => Exempt]_vars
  <2> SUFFICES ASSUME Inv, SafeCopies, [Next]_<<vars, misread>>, DropsWanted \/ DecidesBlindly, ~Exempt
               PROVE  FALSE
    OBVIOUS
  <2>1. /\ OutcomeInv /\ CopiesOK /\ ~Overtaken /\ phase # "purging"
        /\ ~(phase = "discarding" /\ committed) /\ ~misread
    BY DEF SafeCopies
  <2>2. \/ \E p \in Wanted : used' = used /\ Links(dir, p[2]) # {} /\ Links(dir', p[2]) = {}
        \/ \E p \in Wanted : stage # "unlink" /\ stage' = "unlink" /\ Links(dir, p[2]) = {moved'}
    BY DEF DropsWanted, DecidesBlindly
  <2> HIDE DEF Exempt
  <2>3. CASE FileStep BY <2>1, <2>2, <2>3, WantedStays, DecidesWell
  <2>4. CASE dir' = dir /\ stage' \in {"look", stage} BY <2>2, <2>4
  <2>5. CASE Begin \/ Progress \/ RollbackRaises \/ Crash \/ Overlook BY <2>1, <2>4, <2>5, ControlCopies
  <2>6. CASE Interference
    <3>1. stage' = stage /\ \E f \in ForeignFile : f \notin used /\ used' = used \union {f}
      BY <2>6 DEF Interference, ForeignStep, ForeignPut, ForeignDelete
    <3> QED BY <2>2, <3>1
  <2>7. CASE UNCHANGED vars BY <2>4, <2>7 DEF vars
  <2>8. CASE Misread
    BY <2>4, <2>8 DEF Misread, InstalledUnread, RecoverUnread, Become, Run
  <2> QED BY <2>3, <2>5, <2>6, <2>7, <2>8, NextSplit DEF Work
<1>2. Spec => [](Inv /\ SafeCopies) BY Invariance, CopiesApart, PTL
<1> QED BY <1>1, <1>2, PTL DEF Spec, LastCopyKept
=============================================================================
