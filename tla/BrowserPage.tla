-------------------------------- MODULE BrowserPage --------------------------------
(***************************************************************************)
(* One page of the browser client (runtime/static/app.js): what it shows   *)
(* of a zone, the polls that bring it up to date, and what its user does   *)
(* meanwhile: uploads of one or more files, deletions, transfers and       *)
(* comments, with the questions it asks before a file is replaced.         *)
(*                                                                         *)
(* JavaScript runs from one `await` to the next without interruption: each *)
(* step here.  Zones and file names do not affect each other: one zone is  *)
(* left, as what it holds under one name, the number of the change that    *)
(* put it there, 0 for nothing.  Of the server, Requests and ZoneContents, *)
(* only the outcome of a request is left.                                  *)
(***************************************************************************)
EXTENDS Naturals, FiniteSets, Sequences

CONSTANTS
  None,
  Poll,        \* the flow of boot()
  MaxTasks,    \* bound: operations of the user, each a flow
  MaxChanges   \* bound: changes on the server

VARIABLES
  stored, version,  \* the server: what its zone holds, changes so far
  at, op,           \* each flow: where it waits, what it is for
  reply,            \* each flow: the answer to its request
  current,          \* the flow whose generation is refreshGeneration
  active,           \* the flow of activeRefreshController
  aborted,          \* flows whose request has been aborted
  shown,            \* the zone in state.zones: what it holds
  batchBusy,        \* the zone is in state.batchBusyZoneIds
  loaded,           \* accessAdminLoaded
  prompt, queue,    \* activeReplacementPrompt, replacementQueue
  returnValue,      \* of the dialog that asks; anything but "replace" declines
  asOf,             \* history: the last change of the list, or upload, that is shown
  consent           \* history: the tasks that may replace: the button, or not to be asked

server == <<stored, version>>
flows == <<at, op, reply>>
generation == <<current, active, aborted>>
questions == <<prompt, queue, returnValue>>
history == <<asOf, consent>>
vars == <<server, flows, generation, shown, batchBusy, loaded, questions, history>>

Task == 1..MaxTasks    \* in the order they begin
Flow == {Poll} \union Task

ASSUME PageAssumption ==
  /\ Poll \notin Task /\ None \notin Flow
  /\ MaxTasks \in Nat /\ MaxChanges \in Nat

(* A transfer brings the file from another zone, or takes it to one. *)
Plain(kind) ==
  [kind |-> kind, batch |-> kind \in {"clear", "bring", "take"}, replace |-> FALSE,
   tries |-> 0, then |-> "done"]

Init ==
  /\ stored \in {0, 1} /\ version = 1
  /\ at = [f \in Flow |-> "idle"] /\ op = [t \in Task |-> None] /\ reply = [f \in Flow |-> None]
  /\ current = None /\ active = None /\ aborted = {}
  /\ shown = 0 /\ batchBusy = FALSE /\ loaded = FALSE
  /\ prompt = None /\ queue = <<>> /\ returnValue = "cancel"
  /\ asOf = 0 /\ consent = {}

Goes(f, from, to) == at[f] = from /\ at' = [at EXCEPT ![f] = to]

-----------------------------------------------------------------------------
(* The server. *)

Changes == version < MaxChanges /\ version' = version + 1
Others ==
  /\ Changes /\ stored' \in {0, version + 1} \ {stored}
  /\ UNCHANGED <<flows, generation, shown, batchBusy, loaded, questions, history>>

(* An overview. *)
List(f) ==
  /\ Goes(f, "listing", "listed")
  /\ reply' = [reply EXCEPT ![f] = [items |-> stored, when |-> version]]
  /\ UNCHANGED <<server, op, generation, shown, batchBusy, loaded, questions, history>>

Answers(t, outcome, change) ==
  /\ Goes(t, "sending", "sent")
  /\ reply' = [reply EXCEPT ![t] = [is |-> outcome, change |-> change]]
  /\ UNCHANGED <<op, generation, shown, batchBusy, loaded, questions, history>>

(* What the request of a task does; an error may also be that of a request  *)
(* that has done its work, and whose answer is lost.  A batch that is done  *)
(* may list its files as failures, and a copy takes nothing away.           *)
Serve(t) ==
  LET o == op[t]
      there == stored # 0
  IN /\ at[t] = "sending"
     /\ \/ Answers(t, "error", 0) /\ UNCHANGED server
        \/ /\ o.kind \in {"upload", "bring"} /\ there /\ ~o.replace
           /\ Answers(t, "exists", 0) /\ UNCHANGED server
        \/ /\ o.kind \in {"upload", "bring"} /\ (there => o.replace) /\ Changes /\ stored' = version'
           /\ \/ Answers(t, "done", version') \/ Answers(t, "error", 0)
              \/ o.kind = "upload" /\ Answers(t, "retention", 0)
        \/ /\ o.kind \in {"delete", "clear", "take"} /\ there /\ Changes /\ stored' = 0
           /\ Answers(t, "done", 0) \/ Answers(t, "error", 0)
        \/ o.kind = "comment" /\ there /\ Answers(t, "done", stored) /\ UNCHANGED server
        \/ o.kind \in {"clear", "bring", "take"} /\ Answers(t, "done", 0) /\ UNCHANGED server

-----------------------------------------------------------------------------
(* Generations: a refresh, and every upload and deletion, puts an end to    *)
(* the refresh before it.                                                   *)

Stopped == aborted \union ({active} \ {None})
Supersede == current' = None /\ aborted' = Stopped /\ UNCHANGED active
Refreshes(f) == current' = f /\ active' = f /\ aborted' = Stopped \ {f}
Unlisted(f) ==
  /\ current' = (IF current = f THEN None ELSE current)
  /\ active' = (IF active = f THEN None ELSE active) /\ aborted' = aborted \ {f}

(* boot(): the interval, a page that becomes visible again, a retry, or the *)
(* timer of a busy zone; one at a time.                                     *)
StartPoll ==
  /\ Goes(Poll, "idle", "listing") /\ Refreshes(Poll)
  /\ UNCHANGED <<server, op, reply, shown, batchBusy, loaded, questions, history>>

(* Of a task that only waits for its last refresh, it matters no more which. *)
Remains(t) == [Plain("refresh") EXCEPT !.batch = op[t].batch]

(* A task is over; the zone a batch held is given back. *)
Ends(t) ==
  /\ at' = [at EXCEPT ![t] = "done"] /\ op' = [op EXCEPT ![t] = None] /\ consent' = consent \ {t}
  /\ batchBusy' = (batchBusy /\ ~op[t].batch)

GoesOn(t, where) ==
  IF where = "done"
    THEN Ends(t)
    ELSE at' = [at EXCEPT ![t] = where] /\ UNCHANGED <<op, batchBusy, consent>>

(* Mistake: a poll that is aborted leaves bootInFlight set. *)
ReturnQuietly(f, failed) ==
  IF f = Poll
    THEN at' = [at EXCEPT ![f] = IF failed THEN "stuck" ELSE "idle"] /\ UNCHANGED <<op, batchBusy, consent>>
    ELSE GoesOn(f, IF failed /\ op[f].kind # "upload" THEN "done" ELSE op[f].then)

(* Where refresh() was called from goes on, or is over with it. *)
Return(f, failed) ==
  IF f = Poll
    THEN at' = [at EXCEPT ![f] = "idle"] /\ UNCHANGED <<op, batchBusy, consent>>
    ELSE GoesOn(f, IF failed /\ op[f].kind # "upload" THEN "done" ELSE op[f].then)

(* Aborted by a later generation, or no answer, or that of an error. *)
LoseList(f) ==
  /\ at[f] = "listing" \/ (at[f] = "listed" /\ f \in aborted)
  /\ Return(f, TRUE) /\ Unlisted(f) /\ reply' = [reply EXCEPT ![f] = None]
  /\ UNCHANGED <<server, shown, loaded, questions, asOf>>

Apply(f, list) ==
  /\ shown' = list.items /\ asOf' = list.when
  /\ Return(f, FALSE) /\ Unlisted(f) /\ reply' = [reply EXCEPT ![f] = None]
  /\ UNCHANGED <<server, questions>>

(* A zone the overview found busy is shown as it was.  The first refresh,   *)
(* and any one while the access panel is open, asks for the tokens before   *)
(* it shows what it has.                                                    *)
Waiting == \E f \in Flow : at[f] = "tokens"
GetList(f, hidden) ==
  /\ at[f] = "listed" /\ f \notin aborted /\ current = f
  /\ LET next == IF hidden THEN [items |-> shown, when |-> asOf] ELSE reply[f]
     IN \/ /\ ~Waiting
           /\ at' = [at EXCEPT ![f] = "tokens"] /\ reply' = [reply EXCEPT ![f] = next]
           /\ UNCHANGED <<server, op, generation, shown, batchBusy, loaded, questions, history>>
        \/ (loaded \/ Waiting) /\ Apply(f, next) /\ UNCHANGED loaded

GetTokens(f) ==
  /\ at[f] = "tokens" /\ Apply(f, reply[f])
  /\ loaded' = TRUE

-----------------------------------------------------------------------------
(* The question whether a file may be replaced: one at a time. *)

(* Mistake: the dialog keeps the value it was closed with before. *)
ShowKeeping(p, q, value) ==
  /\ IF p = None /\ q # <<>> THEN prompt' = Head(q) /\ queue' = Tail(q) ELSE prompt' = p /\ queue' = q
  /\ returnValue' = value

Show(p, q, value) ==
  IF p = None /\ q # <<>>
    THEN prompt' = Head(q) /\ queue' = Tail(q) /\ returnValue' = "cancel"
    ELSE prompt' = p /\ queue' = q /\ returnValue' = value

(* The file of a task goes to a name that is taken, as the page or as the   *)
(* server says: the user is asked, unless the zone's switch, which may be   *)
(* turned at any time, says not to.                                         *)
Ask(t, o) ==
  /\ at' = [at EXCEPT ![t] = "asking"] /\ op' = [op EXCEPT ![t] = o] /\ consent' = consent \ {t}
  /\ Show(prompt, Append(queue, t), returnValue)
Unasked(t, o) ==
  /\ at' = [at EXCEPT ![t] = "sending"] /\ op' = [op EXCEPT ![t] = [o EXCEPT !.replace = TRUE]]
  /\ consent' = consent \union {t} /\ UNCHANGED questions
Send(t, o) ==
  /\ at' = [at EXCEPT ![t] = "sending"] /\ op' = [op EXCEPT ![t] = o]
  /\ consent' = (IF o.replace THEN consent ELSE consent \ {t}) /\ UNCHANGED questions

(* The upload of the file is over; uploadBatch() may have others to do. *)
FileOver(t) == GoesOn(t, op[t].then)

(* The user answers the question that is shown, or closes the dialog, which *)
(* leaves its value as it was.  An upload the server had refused is one     *)
(* more upload().                                                           *)
Answer ==
  /\ prompt # None
  /\ \E button \in {"replace", "cancel", None} :
       LET t == prompt
           value == IF button = None THEN returnValue ELSE button
       IN /\ \/ /\ value = "replace"
                /\ at' = [at EXCEPT ![t] = "sending"] /\ op' = [op EXCEPT ![t].replace = TRUE]
                /\ IF op[t].kind = "upload" /\ op[t].tries > 0 THEN Supersede ELSE UNCHANGED generation
                /\ consent' = IF button = "replace" THEN consent \union {t} ELSE consent
                /\ UNCHANGED batchBusy
             \/ value # "replace" /\ op[t].kind = "upload" /\ FileOver(t) /\ UNCHANGED generation
             \/ value # "replace" /\ op[t].kind = "bring" /\ Ends(t) /\ UNCHANGED generation
          /\ Show(None, queue, value)
  /\ UNCHANGED <<server, reply, shown, loaded, asOf>>

-----------------------------------------------------------------------------
(* What the user begins.  An open dialog keeps the rest of the page away.   *)

Begins(t) == at[t] = "idle" /\ prompt = None /\ \A u \in 1..(t - 1) : at[u] # "idle"
Begun(t, o, to) == at' = [at EXCEPT ![t] = to] /\ op' = [op EXCEPT ![t] = o]

Upload(t, batch) ==
  /\ Begins(t) /\ Supersede /\ batchBusy' = (batchBusy \/ batch)
  /\ LET o == [Plain("upload") EXCEPT !.batch = batch, !.then = IF batch THEN "last" ELSE "done"]
     IN IF shown # 0 THEN Ask(t, o) \/ Unasked(t, o) ELSE Send(t, o)
  /\ UNCHANGED <<server, reply, shown, loaded, asOf>>

DeleteItem(t) ==
  /\ Begins(t) /\ shown # 0 /\ Begun(t, Plain("delete"), "sending") /\ Supersede
  /\ UNCHANGED <<server, reply, shown, batchBusy, loaded, questions, history>>

DeleteSelected(t) ==
  /\ Begins(t) /\ shown # 0 /\ ~batchBusy /\ Begun(t, Plain("clear"), "sending") /\ batchBusy' = TRUE
  /\ UNCHANGED <<server, reply, generation, shown, loaded, questions, history>>

(* transferSelected(): one attempt. *)
Attempt(t, o) ==
  IF o.kind = "bring" /\ shown # 0 /\ ~o.replace THEN Ask(t, o) \/ Unasked(t, o) ELSE Send(t, o)

Transfer(t, kind) ==
  /\ Begins(t) /\ (kind = "take" => shown # 0) /\ ~batchBusy
  /\ Attempt(t, Plain(kind)) /\ batchBusy' = TRUE
  /\ UNCHANGED <<server, reply, generation, shown, loaded, asOf>>

AttemptAgain(t) ==
  /\ at[t] = "next" /\ Attempt(t, op[t])
  /\ UNCHANGED <<server, reply, generation, shown, batchBusy, loaded, asOf>>

SaveComment(t) ==
  /\ Begins(t) /\ shown # 0 /\ Begun(t, Plain("comment"), "sending")
  /\ UNCHANGED <<server, reply, generation, shown, batchBusy, loaded, questions, history>>

Begin(t) ==
  \/ \E batch \in BOOLEAN : Upload(t, batch)
  \/ DeleteItem(t) \/ DeleteSelected(t) \/ SaveComment(t)
  \/ \E kind \in {"bring", "take"} : Transfer(t, kind)

(* The end of uploadBatch() is a refresh. *)
LastFile(t) ==
  /\ Goes(t, "last", "listing") /\ op' = [op EXCEPT ![t] = Remains(t)] /\ Refreshes(t)
  /\ UNCHANGED <<server, reply, shown, batchBusy, loaded, questions, history>>

-----------------------------------------------------------------------------
(* What an answer does to the page. *)

Relist(t, then) ==
  /\ at' = [at EXCEPT ![t] = "listing"]
  /\ op' = [op EXCEPT ![t] =
        IF then = "done" THEN Remains(t) ELSE [op[t] EXCEPT !.then = then, !.tries = @ + 1]]
  /\ Refreshes(t) /\ UNCHANGED <<shown, asOf, batchBusy, questions, consent>>

Displays(change) == shown' = change /\ asOf' = (IF change > asOf THEN change ELSE asOf)

(* Mistake: what an upload has changed may be undone by an older refresh. *)
UploadedQuietly(t) ==
  /\ reply[t].is = "done" /\ Displays(reply[t].change)
  /\ FileOver(t) /\ UNCHANGED <<generation, questions>>

Uploaded(t) ==
  /\ reply[t].is = "done" /\ Displays(reply[t].change)
  /\ FileOver(t) /\ Supersede /\ UNCHANGED questions

Refused(t) ==
  /\ reply[t].is = "exists"
  /\ LET o == [op[t] EXCEPT !.tries = 1]
     IN \/ Ask(t, o) /\ UNCHANGED generation
        \/ Unasked(t, o) /\ Supersede
  /\ UNCHANGED <<shown, asOf, batchBusy>>

ReceiveUpload(t) ==
  /\ op[t].kind = "upload"
  /\ \/ Uploaded(t) \/ Refused(t)
     \/ reply[t].is = "retention" /\ Relist(t, op[t].then)
     \/ reply[t].is = "error" /\ FileOver(t) /\ UNCHANGED <<generation, shown, asOf, questions>>

(* deleteItem() and saveComment() change what is shown. *)
ReceiveItem(t) ==
  /\ op[t].kind \in {"delete", "comment"} /\ Ends(t)
  /\ shown' = IF reply[t].is = "done" /\ shown # 0 THEN reply[t].change ELSE shown
  /\ UNCHANGED <<generation, questions, asOf>>

(* deleteSelected() and transferSelected() ask for a list; a transfer that  *)
(* would replace what the page did not show tries again, twice.             *)
ReceiveBatch(t) ==
  /\ op[t].kind \in {"clear", "bring", "take"}
  /\ \/ reply[t].is = "done" /\ Relist(t, "done")
     \/ reply[t].is = "exists" /\ op[t].tries < 2 /\ Relist(t, "next")
     \/ /\ reply[t].is = "error" \/ (reply[t].is = "exists" /\ op[t].tries = 2)
        /\ Ends(t) /\ UNCHANGED <<generation, shown, asOf, questions>>

Receive(t) ==
  /\ at[t] = "sent" /\ (ReceiveUpload(t) \/ ReceiveItem(t) \/ ReceiveBatch(t))
  /\ reply' = [reply EXCEPT ![t] = None]
  /\ UNCHANGED <<server, loaded>>

-----------------------------------------------------------------------------
Listing(f) ==
  List(f) \/ LoseList(f) \/ (\E hidden \in BOOLEAN : GetList(f, hidden)) \/ GetTokens(f)
Working(t) == Serve(t) \/ LastFile(t) \/ AttemptAgain(t) \/ Receive(t)

Next ==
  \/ Others \/ StartPoll \/ Answer
  \/ \E f \in Flow : Listing(f)
  \/ \E t \in Task : Begin(t) \/ Working(t)

Spec == Init /\ [][Next]_vars

(* The page is visible and polls; of ever so many overviews one is received *)
(* and finds the zone free.  Of the user's operations nothing is assumed:   *)
(* one may wait for an answer, or for the user, for ever.                   *)
LiveSpec ==
  /\ Spec /\ WF_vars(StartPoll) /\ WF_vars(Listing(Poll))
  /\ SF_vars(List(Poll)) /\ SF_vars(GetList(Poll, FALSE))

-----------------------------------------------------------------------------
(* Of the lists a page asks for, none is shown that is older than what the  *)
(* page shows by a later list or by an upload of its own (refresh(),        *)
(* upload()); except for one that waited for the tokens in between.         *)
NewerKept == [][~Waiting => asOf' >= asOf]_vars

(* A request that may replace a file is sent only after the user, asked     *)
(* about that upload or transfer, has pressed the button, or has chosen not *)
(* to be asked: not on the strength of an answer to another question.       *)
ReplaceAsked ==
  \A t \in Task : at[t] = "sending" /\ op[t].replace => t \in consent

(* Once nothing changes any more, the page shows what the server holds, and *)
(* goes on showing it, whatever it has missed, aborted or been refused.     *)
Converges == <>[](shown = stored)
=============================================================================
