---------------------------- MODULE BrowserPageProofs ----------------------------
(***************************************************************************)
(* What the page of BrowserPage guarantees, for any number of operations   *)
(* of its user and of changes on the server: no file is replaced on the    *)
(* strength of an answer to another question, and no list is shown that is *)
(* older than what the page shows.                                         *)
(***************************************************************************)
EXTENDS BrowserPage, TLAPS

Point == {"idle", "listing", "listed", "tokens", "asking", "sending", "sent", "next", "last", "done"}
Kind  == {"upload", "delete", "clear", "comment", "bring", "take", "refresh"}
Work  ==    \* an upload is followed by no other attempt
  {o \in [kind : Kind, batch : BOOLEAN, replace : BOOLEAN, tries : Nat, then : {"done", "last", "next"}] :
     o.kind = "upload" => o.then # "next"}
Listed == [items : Nat, when : Nat]
Result == {"done", "error", "exists", "retention"}
Outcome == [is : Result, change : Nat]

(* A flow that is under way knows what it is for, and has the answer that   *)
(* its next step reads.                                                     *)
FlowsOK ==
  /\ at \in [Flow -> Point] /\ op \in [Task -> Work \union {None}]
  /\ reply \in [Flow -> Listed \union Outcome \union {None}]
  /\ at[Poll] \in {"idle", "listing", "listed", "tokens"}
  /\ \A t \in Task : at[t] \notin {"idle", "done"} => op[t] \in Work
  /\ \A f \in Flow : at[f] \in {"listed", "tokens"} => reply[f] \in Listed
  /\ \A t \in Task : at[t] = "sent" => reply[t] \in Outcome

(* A question is about a task that waits for its answer, no two are about   *)
(* one task, and the dialog that is open does not hold an earlier "replace".*)
QuestionsOK ==
  /\ prompt \in Task \union {None} /\ queue \in Seq(Task)
  /\ prompt # None => at[prompt] = "asking" /\ returnValue # "replace"
  /\ \A i \in 1..Len(queue) : at[queue[i]] = "asking" /\ queue[i] # prompt
  /\ \A i, j \in 1..Len(queue) : queue[i] = queue[j] => i = j

(* What a task may do it was told it may, for as long as it may do it. *)
Running == {"sending", "sent", "listing", "listed", "tokens", "next"}
ConsentOK == \A t \in Task : at[t] \in Running /\ op[t].replace => t \in consent

(* The list of the current generation is as new as all that the page shows  *)
(* and as the lists that wait for the tokens.                               *)
AgesOK ==
  /\ version \in Nat /\ stored \in 0..version /\ asOf \in 0..version /\ shown \in Nat
  /\ \A f \in Flow : at[f] \in {"listed", "tokens"} => reply[f].when <= version
  /\ \A t \in Task : at[t] = "sent" => reply[t].change <= version
  /\ current \in Flow /\ at[current] = "listed" =>
       /\ asOf <= reply[current].when
       /\ \A g \in Flow : at[g] = "tokens" => reply[g].when <= reply[current].when

Inv == FlowsOK /\ QuestionsOK /\ ConsentOK /\ AgesOK
-----------------------------------------------------------------------------
(* The page opens with nothing under way. *)
LEMMA InitInv == Init => Inv
<1> SUFFICES ASSUME Init PROVE Inv OBVIOUS
<1>1. None \notin Flow /\ Poll \in Flow /\ Task \subseteq Flow BY PageAssumption DEF Flow
<1>2. FlowsOK /\ ConsentOK BY <1>1 DEF Init, FlowsOK, ConsentOK, Running, Point
<1>3. QuestionsOK BY DEF Init, QuestionsOK
<1>4. AgesOK BY <1>1 DEF Init, AgesOK
<1> QED BY <1>2, <1>3, <1>4 DEF Inv

(* What is known of the constants. *)
LEMMA Flows ==
  /\ Poll \in Flow /\ Task \subseteq Flow /\ Poll \notin Task /\ None \notin Flow /\ None \notin Task
  /\ \A f \in Flow : f # Poll => f \in Task
BY PageAssumption DEF Flow

(* A new task, and what a task becomes that only waits for its last refresh. *)
LEMMA PlainWork ==
  /\ \A kind \in Kind : Plain(kind) \in Work /\ ~Plain(kind).replace
  /\ \A t \in Task : op[t] \in Work => Remains(t) \in Work /\ ~Remains(t).replace
<1>1. \A kind \in Kind : Plain(kind) \in Work /\ ~Plain(kind).replace BY DEF Plain, Work, Kind
<1>2. ASSUME NEW t \in Task, op[t] \in Work PROVE Remains(t) \in Work /\ ~Remains(t).replace
  BY <1>2 DEF Remains, Plain, Work, Kind
<1> QED BY <1>1, <1>2

-----------------------------------------------------------------------------
(* The flows. *)

(* A task goes where it needs no answer, with something to do or nothing.   *)
LEMMA TaskMoves ==
  ASSUME FlowsOK, NEW t \in Task, NEW p \in Point \ {"listed", "tokens", "sent"}, NEW o \in Work \union {None},
         p = "done" \/ o \in Work,
         at' = [at EXCEPT ![t] = p], op' = [op EXCEPT ![t] = o] \/ (op' = op /\ op[t] = o),
         reply' = reply \/ reply' = [reply EXCEPT ![t] = None]
  PROVE  FlowsOK'
BY Flows DEF FlowsOK

(* A task is over, or goes on with the next file or attempt.               *)
LEMMA TaskGoesOn ==
  ASSUME FlowsOK, NEW t \in Task, op[t] \in Work, NEW where \in {"done", "last", "next"}, GoesOn(t, where),
         reply' = reply \/ reply' = [reply EXCEPT ![t] = None]
  PROVE  FlowsOK'
<1>1. where \in Point \ {"listed", "tokens", "sent"} BY DEF Point
<1>2. CASE where = "done" BY <1>1, <1>2, TaskMoves DEF GoesOn, Ends
<1>3. CASE where # "done" BY <1>1, <1>3, TaskMoves DEF GoesOn
<1> QED BY <1>2, <1>3

(* A file is sent, or the user is asked about it. *)
LEMMA TaskSends ==
  ASSUME FlowsOK, NEW t \in Task, NEW o \in Work, Ask(t, o) \/ Unasked(t, o) \/ Send(t, o),
         reply' = reply \/ reply' = [reply EXCEPT ![t] = None]
  PROVE  FlowsOK'
<1>1. [o EXCEPT !.replace = TRUE] \in Work BY DEF Work
<1>2. {"asking", "sending"} \subseteq Point \ {"listed", "tokens", "sent"} BY DEF Point
<1> QED BY <1>1, <1>2, TaskMoves DEF Ask, Unasked, Send

(* A refresh returns to where it was called from. *)
LEMMA Returns ==
  ASSUME FlowsOK, NEW f \in Flow, at[f] \in {"listing", "listed", "tokens"}, NEW failed \in BOOLEAN,
         Return(f, failed), reply' = [reply EXCEPT ![f] = None]
  PROVE  FlowsOK'
<1>1. CASE f = Poll BY <1>1, Flows DEF Return, FlowsOK, Point
<1>2. CASE f # Poll
  <2>1. f \in Task /\ op[f] \in Work BY <1>2, Flows DEF FlowsOK
  <2>2. op[f].then \in {"done", "last", "next"} BY <2>1 DEF Work
  <2> QED BY <1>2, <2>1, <2>2, TaskGoesOn DEF Return
<1> QED BY <1>1, <1>2

(* Every step keeps what is known of each flow.                             *)
LEMMA FlowsKept == ASSUME Inv, [Next]_vars PROVE FlowsOK'
<1> USE Flows DEF Inv, FlowsOK
<1>1. CASE UNCHANGED <<at, op, reply>> BY <1>1
<1>2. CASE Others BY <1>1, <1>2 DEF Others, flows
<1>3. CASE StartPoll BY <1>3 DEF StartPoll, Goes, Point
<1>4. ASSUME NEW f \in Flow, List(f) PROVE FlowsOK'
  BY <1>4 DEF List, Goes, Point, Listed, AgesOK
<1>5. ASSUME NEW f \in Flow, LoseList(f) PROVE FlowsOK'
  BY <1>5, Returns DEF LoseList
<1>6. ASSUME NEW f \in Flow, NEW hidden \in BOOLEAN, GetList(f, hidden) PROVE FlowsOK'
  <2>1. reply[f] \in Listed /\ [items |-> shown, when |-> asOf] \in Listed
    BY <1>6 DEF GetList, AgesOK, Listed
  <2>2. CASE /\ at' = [at EXCEPT ![f] = "tokens"] /\ op' = op
             /\ \E l \in Listed : reply' = [reply EXCEPT ![f] = l]
    BY <1>6, <2>2 DEF GetList, Point
  <2>3. CASE Return(f, FALSE) /\ reply' = [reply EXCEPT ![f] = None]
    BY <1>6, <2>3, Returns DEF GetList
  <2> QED BY <1>6, <2>1, <2>2, <2>3 DEF GetList, Apply
<1>7. ASSUME NEW f \in Flow, GetTokens(f) PROVE FlowsOK'
  BY <1>7, Returns DEF GetTokens, Apply
<1>8. CASE Answer
  <2> DEFINE t == prompt
  <2>1. t \in Task /\ at[t] = "asking" /\ op[t] \in Work BY <1>8 DEF Answer, QuestionsOK
  <2>2. CASE at' = [at EXCEPT ![t] = "sending"] /\ op' = [op EXCEPT ![t].replace = TRUE]
    <3>1. [op[t] EXCEPT !.replace = TRUE] \in Work BY <2>1 DEF Work
    <3> QED BY <1>8, <2>1, <2>2, <3>1, TaskMoves DEF Answer, Point
  <2>3. CASE FileOver(t)
    <3>1. op[t].then \in {"done", "last", "next"} BY <2>1 DEF Work
    <3> QED BY <1>8, <2>1, <2>3, <3>1, TaskGoesOn DEF Answer, FileOver
  <2>4. CASE Ends(t)
    BY <1>8, <2>1, <2>4, TaskMoves DEF Answer, Ends, Point
  <2> QED BY <1>8, <2>2, <2>3, <2>4 DEF Answer
<1>9. ASSUME NEW t \in Task, NEW batch \in BOOLEAN, Upload(t, batch) PROVE FlowsOK'
  <2> DEFINE o == [Plain("upload") EXCEPT !.batch = batch, !.then = IF batch THEN "last" ELSE "done"]
  <2>1. o \in Work BY DEF Plain, Work, Kind
  <2>2. Ask(t, o) \/ Unasked(t, o) \/ Send(t, o) BY <1>9 DEF Upload
  <2> QED BY <1>9, <2>1, <2>2, TaskSends DEF Upload
<1>10. ASSUME NEW t \in Task, DeleteItem(t) \/ DeleteSelected(t) \/ SaveComment(t) PROVE FlowsOK'
  BY <1>10, PlainWork DEF DeleteItem, DeleteSelected, SaveComment, Begins, Begun, Point, Kind
<1>11. ASSUME NEW t \in Task, NEW kind \in {"bring", "take"}, Transfer(t, kind) PROVE FlowsOK'
  <2>1. Plain(kind) \in Work BY PlainWork DEF Kind
  <2> QED BY <1>11, <2>1, TaskSends DEF Transfer, Attempt
<1>12. ASSUME NEW t \in Task, Serve(t) PROVE FlowsOK'
  BY <1>12 DEF Serve, Answers, Changes, Goes, Point, Outcome, Result, AgesOK
<1>13. ASSUME NEW t \in Task, LastFile(t) PROVE FlowsOK'
  BY <1>13, PlainWork DEF LastFile, Goes, Point
<1>14. ASSUME NEW t \in Task, AttemptAgain(t) PROVE FlowsOK'
  BY <1>14, TaskSends DEF AttemptAgain, Attempt
<1>15. ASSUME NEW t \in Task, Receive(t) PROVE FlowsOK'
  <2>1. op[t] \in Work /\ reply' = [reply EXCEPT ![t] = None] BY <1>15 DEF Receive
  <2>2. ASSUME NEW then \in {"done", "last", "next"}, op[t].kind = "upload" => then # "next", Relist(t, then)
        PROVE  FlowsOK'
    <3>1. [op[t] EXCEPT !.then = then, !.tries = @ + 1] \in Work
      <4>1. op[t].tries + 1 \in Nat BY <2>1 DEF Work
      <4>2. \A n \in Nat : [op[t] EXCEPT !.then = then, !.tries = n] \in Work BY <2>1, <2>2 DEF Work
      <4> QED BY <4>1, <4>2
    <3>2. \E o \in Work : op' = [op EXCEPT ![t] = o]
      BY <2>1, <2>2, <3>1, PlainWork DEF Relist
    <3>3. at' = [at EXCEPT ![t] = "listing"] BY <2>2 DEF Relist
    <3> QED BY <2>1, <3>2, <3>3, TaskMoves DEF Point
  <2>3. /\ op[t].then \in {"done", "last", "next"} /\ [op[t] EXCEPT !.tries = 1] \in Work
        /\ op[t].kind = "upload" => op[t].then # "next"
    BY <2>1 DEF Work
  <2>4. CASE ReceiveUpload(t)
    BY <2>1, <2>2, <2>3, <2>4, TaskGoesOn, TaskSends DEF ReceiveUpload, Uploaded, Refused, FileOver
  <2>5. CASE Ends(t) BY <2>1, <2>5, TaskMoves DEF Ends, Point
  <2>6. CASE ReceiveBatch(t) BY <2>2, <2>5, <2>6 DEF ReceiveBatch
  <2> QED BY <1>15, <2>4, <2>5, <2>6 DEF Receive, ReceiveItem
<1> QED BY <1>1, <1>2, <1>3, <1>4, <1>5, <1>6, <1>7, <1>8, <1>9, <1>10, <1>11, <1>12, <1>13, <1>14,
     <1>15 DEF Next, Listing, Working, Begin, vars, flows
-----------------------------------------------------------------------------
(* The questions. *)

(* Showing the next question, if none is shown, keeps the questions apart.  *)
LEMMA Shows ==
  ASSUME NEW p \in Task \union {None}, NEW q \in Seq(Task), NEW value, Show(p, q, value),
         p # None => at'[p] = "asking" /\ value # "replace",
         \A i \in 1..Len(q) : at'[q[i]] = "asking" /\ q[i] # p,
         \A i, j \in 1..Len(q) : q[i] = q[j] => i = j
  PROVE  QuestionsOK'
<1>1. CASE p = None /\ q # <<>>
  <2>1. /\ prompt' = q[1] /\ queue' = Tail(q) /\ returnValue' = "cancel" /\ Len(q) \in Nat \ {0}
    BY <1>1 DEF Show
  <2>2. /\ Tail(q) \in Seq(Task) /\ Len(Tail(q)) = Len(q) - 1 /\ q[1] \in Task
        /\ \A i \in 1..Len(Tail(q)) : Tail(q)[i] = q[i + 1] /\ i + 1 \in 1..Len(q) /\ i + 1 # 1
    BY <2>1
  <2>3. 1 \in 1..Len(q) BY <2>1
  <2> QED BY <2>1, <2>2, <2>3 DEF QuestionsOK
<1>2. CASE ~(p = None /\ q # <<>>)
  BY <1>2 DEF Show, QuestionsOK
<1> QED BY <1>1, <1>2

(* Questions are left alone by a step that answers none of them.            *)
LEMMA QuestionsStay ==
  ASSUME QuestionsOK, UNCHANGED questions, \A t \in Task : at[t] = "asking" => at'[t] = "asking"
  PROVE  QuestionsOK'
<1>1. \A i \in 1..Len(queue) : queue[i] \in Task BY DEF QuestionsOK
<1> QED BY <1>1 DEF QuestionsOK, questions

(* A task that asks takes its place behind the others.                      *)
LEMMA AskKeeps ==
  ASSUME FlowsOK, QuestionsOK, NEW t \in Task, at[t] # "asking", NEW o, Ask(t, o)
  PROVE  QuestionsOK'
<1> DEFINE q == Append(queue, t)
<1>1. /\ at'[t] = "asking" /\ \A u \in Task : at[u] = "asking" => at'[u] = "asking" /\ u # t
  BY Flows DEF Ask, FlowsOK
<1>2. /\ q \in Seq(Task) /\ Len(q) = Len(queue) + 1 /\ q[Len(q)] = t /\ Len(queue) \in Nat
      /\ \A i \in 1..Len(queue) : q[i] = queue[i] /\ queue[i] \in Task
  BY DEF QuestionsOK
<1>3. \A i \in 1..Len(q) : i \in 1..Len(queue) \/ i = Len(q) BY <1>2
<1> HIDE DEF q
<1>4. \A i \in 1..Len(q) : at'[q[i]] = "asking" /\ q[i] # prompt
  BY <1>1, <1>2, <1>3, Flows DEF QuestionsOK
<1>5. \A i, j \in 1..Len(q) : q[i] = q[j] => i = j
  BY <1>1, <1>2, <1>3 DEF QuestionsOK
<1>6. Show(prompt, q, returnValue) BY DEF Ask, q
<1>7. prompt \in Task \union {None} /\ (prompt # None => at'[prompt] = "asking" /\ returnValue # "replace")
  BY <1>1 DEF QuestionsOK
<1> QED BY <1>2, <1>4, <1>5, <1>6, <1>7, Shows

(* The task that is answered is in no other question. *)
LEMMA AnswerKeeps == ASSUME FlowsOK, QuestionsOK, Answer PROVE QuestionsOK'
<1>1. \A u \in Task : u # prompt => at'[u] = at[u]
  BY Flows DEF Answer, FileOver, GoesOn, Ends, FlowsOK
<1>2. \A i \in 1..Len(queue) : queue[i] \in Task BY DEF QuestionsOK
<1>3. \A i \in 1..Len(queue) : at'[queue[i]] = "asking" /\ queue[i] # None
  BY <1>1, <1>2, Flows DEF QuestionsOK
<1>4. PICK value : Show(None, queue, value) BY DEF Answer
<1> QED BY <1>3, <1>4, Shows DEF QuestionsOK

(* Every step keeps the dialog and its queue in order.                      *)
LEMMA QuestionsKept == ASSUME Inv, [Next]_vars PROVE QuestionsOK'
<1> USE DEF Inv
<1>1. CASE UNCHANGED vars BY <1>1, QuestionsStay DEF vars, flows
<1>2. CASE Others \/ StartPoll BY <1>2, QuestionsStay, Flows DEF Others, StartPoll, Goes, flows, FlowsOK
<1>3. CASE Answer BY <1>3, AnswerKeeps
<1>4. ASSUME NEW f \in Flow, Listing(f) PROVE QuestionsOK'
  <2>1. UNCHANGED questions /\ \A t \in Task : at[t] = "asking" => at'[t] = "asking"
    BY <1>4, Flows DEF Listing, List, LoseList, GetList, GetTokens, Apply, Return, GoesOn, Ends, Goes, FlowsOK
  <2> QED BY <2>1, QuestionsStay
<1>5. ASSUME NEW t \in Task, Begin(t) PROVE QuestionsOK'
  <2>1. at[t] = "idle"
    BY <1>5 DEF Begin, Upload, DeleteItem, DeleteSelected, SaveComment, Transfer, Begins
  <2>2. (\E o : Ask(t, o)) \/ (UNCHANGED questions /\ \A u \in Task : u # t => at'[u] = at[u])
    BY <1>5, Flows DEF Begin, Upload, DeleteItem, DeleteSelected, SaveComment, Transfer, Attempt, Begun,
       Unasked, Send, FlowsOK
  <2> QED BY <2>1, <2>2, AskKeeps, QuestionsStay
<1>6. ASSUME NEW t \in Task, Working(t) PROVE QuestionsOK'
  <2>1. at[t] # "asking"
    BY <1>6 DEF Working, Serve, LastFile, AttemptAgain, Receive, Goes
  <2>2. (\E o : Ask(t, o)) \/ (UNCHANGED questions /\ \A u \in Task : u # t => at'[u] = at[u])
    <3>1. CASE Serve(t) \/ LastFile(t) \/ AttemptAgain(t)
      BY <3>1, Flows DEF Serve, Answers, LastFile, AttemptAgain, Attempt, Unasked, Send, Goes, FlowsOK
    <3>2. CASE Receive(t)
      BY <3>2, Flows DEF Receive, ReceiveUpload, ReceiveItem, ReceiveBatch, Uploaded, Refused, Relist,
         FileOver, GoesOn, Ends, Unasked, FlowsOK
    <3> QED BY <1>6, <3>1, <3>2 DEF Working
  <2> QED BY <2>1, <2>2, AskKeeps, QuestionsStay
<1> QED BY <1>1, <1>2, <1>3, <1>4, <1>5, <1>6 DEF Next
-----------------------------------------------------------------------------
(* The consent. *)

(* All but one task stay as they are. *)
LEMMA ConsentOfOne ==
  ASSUME ConsentOK, NEW t \in Task,
         \A u \in Task : u # t => at'[u] = at[u] /\ op'[u] = op[u] /\ (u \in consent => u \in consent'),
         at'[t] \in Running /\ op'[t].replace => t \in consent'
  PROVE  ConsentOK'
BY DEF ConsentOK

(* A task that goes where it may replace what it might replace before.      *)
LEMMA ConsentGoesOn ==
  ASSUME FlowsOK, ConsentOK, NEW t \in Task, at[t] \in Running, NEW where, GoesOn(t, where)
  PROVE  ConsentOK'
<1>1. CASE where = "done"
  <2>1. at'[t] = "done" BY <1>1, Flows DEF GoesOn, Ends, FlowsOK
  <2> QED BY <1>1, <2>1, ConsentOfOne, Flows DEF GoesOn, Ends, FlowsOK, Running
<1>2. CASE where # "done"
  BY <1>2, ConsentOfOne, Flows DEF GoesOn, FlowsOK, ConsentOK
<1> QED BY <1>1, <1>2

(* A file is sent, or the user is asked about it. *)
LEMMA ConsentSends ==
  ASSUME FlowsOK, ConsentOK, NEW t \in Task, NEW o \in Work, o.replace => t \in consent,
         Ask(t, o) \/ Unasked(t, o) \/ Send(t, o)
  PROVE  ConsentOK'
<1>1. \A u \in Task : u # t => at'[u] = at[u] /\ op'[u] = op[u] /\ (u \in consent => u \in consent')
  BY Flows DEF Ask, Unasked, Send, FlowsOK
<1>2. at'[t] \in Running /\ op'[t].replace => t \in consent'
  BY Flows DEF Ask, Unasked, Send, FlowsOK, Running
<1> QED BY <1>1, <1>2, ConsentOfOne

(* Only the button gives it; a question that is closed has a value that    *)
(* declines.                                                               *)
LEMMA ConsentOfAnswer == ASSUME FlowsOK, QuestionsOK, ConsentOK, Answer PROVE ConsentOK'
<1> DEFINE t == prompt
<1>1. t \in Task /\ at[t] = "asking" /\ op[t] \in Work /\ returnValue # "replace"
  BY DEF Answer, QuestionsOK, FlowsOK
<1>2. CASE t \in consent' /\ op' = [op EXCEPT ![t].replace = TRUE] /\ at' = [at EXCEPT ![t] = "sending"]
           /\ consent \subseteq consent'
  BY <1>1, <1>2, ConsentOfOne, Flows DEF FlowsOK
<1>3. CASE Ends(t)
  <2>1. at'[t] = "done" BY <1>1, <1>3, Flows DEF Ends, FlowsOK
  <2> QED BY <1>1, <1>3, <2>1, ConsentOfOne, Flows DEF Ends, FlowsOK, Running
<1>4. CASE FileOver(t) /\ op[t].kind = "upload"
  <2>1. op[t].then \in {"done", "last"} BY <1>1, <1>4 DEF Work
  <2>2. at'[t] \in {"done", "last"} BY <1>1, <1>4, <2>1, Flows DEF FileOver, GoesOn, Ends, FlowsOK
  <2> QED BY <1>1, <1>4, <2>2, ConsentOfOne, Flows DEF FileOver, GoesOn, Ends, FlowsOK, Running
<1> QED BY <1>1, <1>2, <1>3, <1>4 DEF Answer

(* Every step keeps that a replacement was consented to.                    *)
LEMMA ConsentKept == ASSUME Inv, [Next]_vars PROVE ConsentOK'
<1> USE DEF Inv
<1>1. CASE UNCHANGED <<at, op, consent>> BY <1>1 DEF ConsentOK
<1>2. CASE Others BY <1>1, <1>2 DEF Others, flows, history
<1>3. CASE StartPoll BY <1>3, Flows DEF StartPoll, Goes, history, ConsentOK, FlowsOK
<1>4. CASE Answer BY <1>4, ConsentOfAnswer
<1>5. ASSUME NEW f \in Flow, at[f] \in Running, NEW p \in Running, at' = [at EXCEPT ![f] = p],
             UNCHANGED <<op, consent>>
      PROVE  ConsentOK'
  BY <1>5, Flows DEF ConsentOK, FlowsOK
<1>6. ASSUME NEW f \in Flow, NEW failed \in BOOLEAN, at[f] \in Running, Return(f, failed) PROVE ConsentOK'
  <2>1. CASE f = Poll BY <1>6, <2>1, Flows DEF Return, ConsentOK, FlowsOK
  <2>2. CASE f # Poll BY <1>6, <2>2, ConsentGoesOn, Flows DEF Return
  <2> QED BY <2>1, <2>2
<1>7. ASSUME NEW f \in Flow, Listing(f) PROVE ConsentOK'
  <2>1. CASE List(f) BY <1>5, <2>1 DEF List, Goes, Running, history
  <2>2. CASE LoseList(f) BY <1>6, <2>2 DEF LoseList, Running
  <2>3. ASSUME NEW hidden \in BOOLEAN, GetList(f, hidden) PROVE ConsentOK'
    BY <1>5, <1>6, <2>3 DEF GetList, Apply, Running, history
  <2>4. CASE GetTokens(f) BY <1>6, <2>4 DEF GetTokens, Apply, Running
  <2> QED BY <1>7, <2>1, <2>2, <2>3, <2>4 DEF Listing
<1>8. ASSUME NEW t \in Task, NEW o \in Work, ~o.replace, at' = [at EXCEPT ![t] = "listing"] \/ Begun(t, o, "sending"),
             op' = [op EXCEPT ![t] = o], UNCHANGED consent
      PROVE  ConsentOK'
  BY <1>8, ConsentOfOne, Flows DEF Begun, FlowsOK
<1>9. ASSUME NEW t \in Task, Begin(t) PROVE ConsentOK'
  <2>1. ASSUME NEW batch \in BOOLEAN, Upload(t, batch) PROVE ConsentOK'
    <3> DEFINE o == [Plain("upload") EXCEPT !.batch = batch, !.then = IF batch THEN "last" ELSE "done"]
    <3>1. o \in Work /\ ~o.replace BY DEF Plain, Work, Kind
    <3>2. Ask(t, o) \/ Unasked(t, o) \/ Send(t, o) BY <2>1 DEF Upload
    <3> QED BY <3>1, <3>2, ConsentSends
  <2>2. CASE DeleteItem(t) \/ DeleteSelected(t) \/ SaveComment(t)
    <3>1. \E kind \in Kind : Begun(t, Plain(kind), "sending") /\ UNCHANGED consent
      BY <2>2 DEF DeleteItem, DeleteSelected, SaveComment, Kind, history
    <3> QED BY <1>8, <3>1, PlainWork DEF Begun
  <2>3. ASSUME NEW kind \in {"bring", "take"}, Transfer(t, kind) PROVE ConsentOK'
    <3>1. Plain(kind) \in Work /\ ~Plain(kind).replace BY PlainWork DEF Kind
    <3> QED BY <2>3, <3>1, ConsentSends DEF Transfer, Attempt
  <2> QED BY <1>9, <2>1, <2>2, <2>3 DEF Begin
<1>10. ASSUME NEW t \in Task, Serve(t) PROVE ConsentOK'
  BY <1>5, <1>10, Flows DEF Serve, Answers, Goes, Running, history
<1>11. ASSUME NEW t \in Task, LastFile(t) PROVE ConsentOK'
  <2>1. Remains(t) \in Work /\ ~Remains(t).replace
    BY <1>11, PlainWork DEF LastFile, Goes, FlowsOK
  <2> QED BY <1>8, <1>11, <2>1 DEF LastFile, Goes, history
<1>12. ASSUME NEW t \in Task, AttemptAgain(t) PROVE ConsentOK'
  <2>1. op[t] \in Work /\ (op[t].replace => t \in consent)
    BY <1>12 DEF AttemptAgain, FlowsOK, ConsentOK, Running
  <2> QED BY <1>12, <2>1, ConsentSends DEF AttemptAgain, Attempt
<1>13. ASSUME NEW t \in Task, Receive(t) PROVE ConsentOK'
  <2>1. at[t] \in Running /\ op[t] \in Work /\ (op[t].replace => t \in consent)
    BY <1>13 DEF Receive, FlowsOK, ConsentOK, Running
  <2>2. ASSUME NEW then, Relist(t, then) PROVE ConsentOK'
    <3>1. CASE then = "done"
      BY <1>8, <2>1, <2>2, <3>1, PlainWork DEF Relist
    <3>2. CASE then # "done"
      <4>1. op'[t] = [op[t] EXCEPT !.then = then, !.tries = @ + 1] BY <2>2, <3>2 DEF Relist, FlowsOK
      <4>2. op'[t].replace = op[t].replace BY <2>1, <4>1 DEF Work
      <4> QED BY <2>1, <2>2, <4>2, ConsentOfOne, Flows DEF Relist, FlowsOK
    <3> QED BY <3>1, <3>2
  <2>3. CASE ReceiveUpload(t)
    <3>1. CASE Refused(t)
      <4>1. [op[t] EXCEPT !.tries = 1] \in Work /\ [op[t] EXCEPT !.tries = 1].replace = op[t].replace
        BY <2>1 DEF Work
      <4> QED BY <2>1, <3>1, <4>1, ConsentSends DEF Refused
    <3>2. CASE FileOver(t) BY <2>1, <3>2, ConsentGoesOn DEF FileOver
    <3> QED BY <2>2, <2>3, <3>1, <3>2 DEF ReceiveUpload, Uploaded
  <2>4. CASE Ends(t)
    BY <2>1, <2>4, ConsentGoesOn DEF GoesOn
  <2>5. CASE ReceiveBatch(t) BY <2>2, <2>4, <2>5 DEF ReceiveBatch
  <2> QED BY <1>13, <2>3, <2>4, <2>5 DEF Receive, ReceiveItem
<1> QED BY <1>1, <1>2, <1>3, <1>4, <1>7, <1>9, <1>10, <1>11, <1>12, <1>13 DEF Next, Working, vars, flows, history
-----------------------------------------------------------------------------
(* The ages. *)

(* A step by which no flow gets an answer or begins to wait for the tokens. *)
LEMMA AgesStay ==
  ASSUME AgesOK, FlowsOK, NEW f \in Flow,
         \A g \in Flow : g # f => at'[g] = at[g] /\ reply'[g] = reply[g],
         at'[f] \notin {"listed", "tokens", "sent"} \/ (at'[f] = at[f] /\ reply'[f] = reply[f]),
         UNCHANGED <<version, stored>>, asOf' \in 0..version, shown' \in Nat,
         \/ current' \notin Flow \/ at'[current'] = "listing"
         \/ current' = current /\ (at[current] = "listed" => asOf' <= reply[current].when)
  PROVE  AgesOK'
BY Flows DEF AgesOK, FlowsOK

(* A task of which no list is asked for in the step. *)
LEMMA AgesOfTask ==
  ASSUME AgesOK, FlowsOK, NEW t \in Task, NEW p \in Point \ {"listed", "tokens", "sent"},
         at' = [at EXCEPT ![t] = p], reply' = reply \/ reply' = [reply EXCEPT ![t] = None],
         UNCHANGED <<version, stored>>, shown' \in Nat,
         asOf' \in 0..version, current' = None \/ (UNCHANGED <<current, asOf>>)
  PROVE  AgesOK'
<1>1. \A g \in Flow : g # t => at'[g] = at[g] /\ reply'[g] = reply[g] BY Flows DEF FlowsOK
<1>2. at'[t] \notin {"listed", "tokens", "sent"} BY Flows DEF FlowsOK
<1>3. \/ current' \notin Flow
      \/ current' = current /\ (at[current] = "listed" => asOf' <= reply[current].when)
  <2>1. CASE current' = None BY <2>1, Flows
  <2>2. CASE UNCHANGED <<current, asOf>> /\ current \in Flow BY <2>2 DEF AgesOK
  <2> QED BY <2>1, <2>2
<1> QED BY <1>1, <1>2, <1>3, AgesStay, Flows

(* The refresh that returns has shown its list, or nothing; a list that was *)
(* kept waiting is no newer than that of the current generation.            *)
LEMMA AgesOfReturn ==
  ASSUME AgesOK, FlowsOK, NEW f \in Flow, at[f] \in {"listing", "listed", "tokens"},
         NEW failed \in BOOLEAN, Return(f, failed), Unlisted(f), reply' = [reply EXCEPT ![f] = None],
         UNCHANGED server, shown' \in Nat, asOf' \in 0..version,
         current = f \/ asOf' = asOf \/ (at[f] = "tokens" /\ asOf' = reply[f].when)
  PROVE  AgesOK'
<1>1. /\ \A g \in Flow : g # f => at'[g] = at[g] /\ reply'[g] = reply[g]
      /\ at'[f] \notin {"listed", "tokens", "sent"}
  <2>1. CASE f = Poll BY <2>1, Flows DEF Return, FlowsOK
  <2>2. CASE f # Poll
    <3>1. f \in Task /\ op[f] \in Work BY <2>2, Flows DEF FlowsOK
    <3>2. op[f].then \in {"done", "last", "next"} BY <3>1 DEF Work
    <3> QED BY <2>2, <3>1, <3>2, Flows DEF Return, GoesOn, Ends, FlowsOK
  <2> QED BY <2>1, <2>2
<1>2. \/ current' \notin Flow
      \/ current' = current /\ (at[current] = "listed" => asOf' <= reply[current].when)
  <2>1. CASE current = f BY <2>1, Flows DEF Unlisted
  <2>2. CASE current # f BY <2>2 DEF Unlisted, AgesOK
  <2> QED BY <2>1, <2>2
<1> QED BY <1>1, <1>2, AgesStay DEF server

(* Every step keeps the ages of the lists in order.                         *)
LEMMA AgesKept == ASSUME Inv, [Next]_vars PROVE AgesOK'
<1> USE DEF Inv
<1>1. CASE UNCHANGED vars BY <1>1 DEF vars, server, flows, generation, history, AgesOK
<1>2. CASE Others
  <2>1. version \in Nat /\ version' = version + 1 /\ stored' \in {0, version + 1}
    BY <1>2 DEF Others, Changes, AgesOK
  <2>2. stored' \in 0..version' /\ version' \in Nat /\ \A n \in 0..version : n \in 0..version' BY <2>1
  <2>3. UNCHANGED <<at, reply, current, shown, asOf>> BY <1>2 DEF Others, flows, generation, history
  <2>4. \A f \in Flow : at[f] \in {"listed", "tokens"} => reply[f].when \in Nat BY DEF FlowsOK, Listed
  <2>5. \A t \in Task : at[t] = "sent" => reply[t].change \in Nat BY DEF FlowsOK, Outcome
  <2> QED BY <2>1, <2>2, <2>3, <2>4, <2>5 DEF AgesOK
<1>3. CASE StartPoll
  <2>1. \A g \in Flow : g # Poll => at'[g] = at[g] /\ reply'[g] = reply[g]
    BY <1>3 DEF StartPoll, Goes, FlowsOK
  <2>2. at'[Poll] = "listing" /\ current' = Poll
    BY <1>3, Flows DEF StartPoll, Goes, Refreshes, FlowsOK
  <2> QED BY <1>3, <2>1, <2>2, AgesStay, Flows DEF StartPoll, server, history, AgesOK
<1>4. CASE Answer
  <2>1. prompt \in Task /\ op[prompt] \in Work BY <1>4 DEF Answer, QuestionsOK, FlowsOK
  <2>2. \E p \in Point \ {"listed", "tokens", "sent"} : at' = [at EXCEPT ![prompt] = p]
    <3>1. op[prompt].then \in {"done", "last", "next"} BY <2>1 DEF Work
    <3> QED BY <1>4, <3>1 DEF Answer, FileOver, GoesOn, Ends, Point
  <2> QED BY <1>4, <2>1, <2>2, AgesOfTask DEF Answer, Supersede, generation, server, AgesOK
<1>5. ASSUME NEW f \in Flow, Listing(f) PROVE AgesOK'
  <2>1. CASE List(f)
    <3>1. \A g \in Flow : g # f => at'[g] = at[g] /\ reply'[g] = reply[g] BY <2>1 DEF List, Goes, FlowsOK
    <3>2. at'[f] = "listed" /\ reply'[f].when = version BY <2>1 DEF List, Goes, FlowsOK
    <3> QED BY <2>1, <3>1, <3>2, Flows DEF List, server, generation, history, AgesOK
  <2>2. CASE LoseList(f)
    BY <2>2, AgesOfReturn DEF LoseList, AgesOK
  <2>3. ASSUME NEW hidden \in BOOLEAN, GetList(f, hidden) PROVE AgesOK'
    <3> DEFINE next == IF hidden THEN [items |-> shown, when |-> asOf] ELSE reply[f]
    <3>1. at[f] = "listed" /\ current = f /\ reply[f] \in Listed /\ reply[f].when \in 0..version
      BY <2>3 DEF GetList, FlowsOK, AgesOK, Listed
    <3>2. next.items \in Nat /\ next.when \in 0..version
      BY <3>1 DEF Listed, AgesOK
    <3>3. CASE /\ at' = [at EXCEPT ![f] = "tokens"] /\ reply' = [reply EXCEPT ![f] = next]
               /\ UNCHANGED <<server, generation, shown, history>>
      <4>1. \A g \in Flow : g # f => at'[g] = at[g] /\ reply'[g] = reply[g] BY <3>3 DEF FlowsOK
      <4>2. at'[f] = "tokens" /\ reply'[f].when \in 0..version BY <3>2, <3>3 DEF FlowsOK
      <4> QED BY <3>1, <3>3, <4>1, <4>2, Flows DEF server, generation, history, AgesOK
    <3>4. CASE Apply(f, next)
      BY <3>1, <3>2, <3>4, AgesOfReturn DEF Apply
    <3> QED BY <2>3, <3>3, <3>4 DEF GetList
  <2>4. CASE GetTokens(f)
    <3>1. at[f] = "tokens" /\ reply[f] \in Listed /\ reply[f].when \in 0..version
      BY <2>4 DEF GetTokens, FlowsOK, AgesOK, Listed
    <3>2. reply[f].items \in Nat BY <3>1 DEF Listed
    <3> QED BY <2>4, <3>1, <3>2, AgesOfReturn DEF GetTokens, Apply
  <2> QED BY <1>5, <2>1, <2>2, <2>3, <2>4 DEF Listing
<1>6. ASSUME NEW t \in Task, Begin(t) PROVE AgesOK'
  <2>1. \E p \in Point \ {"listed", "tokens", "sent"} : at' = [at EXCEPT ![t] = p]
    BY <1>6 DEF Begin, Upload, DeleteItem, DeleteSelected, SaveComment, Transfer, Attempt, Begun,
       Ask, Unasked, Send, Point
  <2>2. /\ UNCHANGED <<version, stored, reply, shown, asOf>>
        /\ current' = None \/ UNCHANGED current
    BY <1>6 DEF Begin, Upload, DeleteItem, DeleteSelected, SaveComment, Transfer, Supersede,
       server, generation, history
  <2> QED BY <2>1, <2>2, AgesOfTask DEF AgesOK
<1>7. ASSUME NEW t \in Task, Serve(t) PROVE AgesOK'
  <2>1. PICK change \in Nat : \E outcome \in Result :
          Answers(t, outcome, change) /\ change <= version' /\ stored' \in 0..version'
          /\ version' \in Nat /\ version <= version'
    <3>1. version \in Nat /\ stored \in 0..version BY DEF AgesOK
    <3>2. \/ UNCHANGED server /\ \E change \in {0, stored}, outcome \in Result : Answers(t, outcome, change)
          \/ /\ version' = version + 1 /\ stored' \in {0, version + 1}
             /\ \E change \in {0, version + 1}, outcome \in Result : Answers(t, outcome, change)
      BY <1>7 DEF Serve, Changes, Result
    <3> QED BY <3>1, <3>2 DEF server
  <2>2. \A g \in Flow : g # t => at'[g] = at[g] /\ reply'[g] = reply[g]
    BY <2>1 DEF Answers, Goes, FlowsOK
  <2>3. at'[t] = "sent" /\ reply'[t].change = change BY <2>1, Flows DEF Answers, Goes, FlowsOK
  <2>4. UNCHANGED <<current, shown, asOf>> BY <2>1 DEF Answers, generation, history
  <2>5. \A f \in Flow : at[f] \in {"listed", "tokens"} => reply[f].when \in Nat BY DEF FlowsOK, Listed
  <2>6. \A u \in Task : at[u] = "sent" => reply[u].change \in Nat BY DEF FlowsOK, Outcome
  <2> QED BY <2>1, <2>2, <2>3, <2>4, <2>5, <2>6, Flows DEF AgesOK
<1>8. ASSUME NEW t \in Task, at' = [at EXCEPT ![t] = "listing"], Refreshes(t),
             reply' = reply \/ reply' = [reply EXCEPT ![t] = None], UNCHANGED <<server, shown, asOf>>
      PROVE  AgesOK'
  <2>1. \A g \in Flow : g # t => at'[g] = at[g] /\ reply'[g] = reply[g] BY <1>8 DEF FlowsOK
  <2>2. at'[t] = "listing" /\ current' = t BY <1>8, Flows DEF Refreshes, FlowsOK
  <2> QED BY <1>8, <2>1, <2>2, AgesStay, Flows DEF server, AgesOK
<1>9. ASSUME NEW t \in Task, LastFile(t) PROVE AgesOK'
  BY <1>8, <1>9 DEF LastFile, Goes, history
<1>10. ASSUME NEW t \in Task, AttemptAgain(t) PROVE AgesOK'
  <2>1. \E p \in Point \ {"listed", "tokens", "sent"} : at' = [at EXCEPT ![t] = p]
    BY <1>10 DEF AttemptAgain, Attempt, Ask, Unasked, Send, Point
  <2> QED BY <1>10, <2>1, AgesOfTask DEF AttemptAgain, server, generation, AgesOK
<1>11. ASSUME NEW t \in Task, Receive(t) PROVE AgesOK'
  <2>1. /\ op[t] \in Work /\ reply[t] \in Outcome /\ reply[t].change \in 0..version
        /\ reply' = [reply EXCEPT ![t] = None] /\ UNCHANGED server
    BY <1>11 DEF Receive, FlowsOK, AgesOK, Outcome
  <2>2. ASSUME NEW then, Relist(t, then) PROVE AgesOK'
    BY <1>8, <2>1, <2>2 DEF Relist
  <2>3. op[t].then \in {"done", "last", "next"} BY <2>1 DEF Work
  <2>4. CASE ReceiveUpload(t) /\ ~Relist(t, op[t].then)
    <3>1. \E p \in Point \ {"listed", "tokens", "sent"} : at' = [at EXCEPT ![t] = p]
      BY <2>3, <2>4 DEF ReceiveUpload, Uploaded, Refused, FileOver, GoesOn, Ends, Ask, Unasked, Point
    <3>2. /\ shown' \in Nat /\ asOf' \in 0..version
          /\ current' = None \/ UNCHANGED <<current, asOf>>
      BY <2>1, <2>4 DEF ReceiveUpload, Uploaded, Displays, Refused, Supersede, generation, AgesOK
    <3> QED BY <2>1, <3>1, <3>2, AgesOfTask DEF server
  <2>5. ASSUME Ends(t), shown' \in Nat, UNCHANGED <<generation, asOf>> PROVE AgesOK'
    BY <2>1, <2>5, AgesOfTask DEF Ends, Point, server, generation, AgesOK
  <2>6. CASE ReceiveItem(t)
    BY <2>1, <2>5, <2>6 DEF ReceiveItem, AgesOK
  <2>7. CASE ReceiveBatch(t) BY <2>2, <2>5, <2>7 DEF ReceiveBatch, AgesOK
  <2> QED BY <1>11, <2>2, <2>4, <2>6, <2>7 DEF Receive
<1> QED BY <1>1, <1>2, <1>3, <1>4, <1>5, <1>6, <1>7, <1>9, <1>10, <1>11 DEF Next, Working

(* The invariant is inductive. *)
LEMMA NextInv == Inv /\ [Next]_vars => Inv'
BY FlowsKept, QuestionsKept, ConsentKept, AgesKept DEF Inv

-----------------------------------------------------------------------------
(* A request that may replace a file is sent only after the user has        *)
(* pressed the button for that task, or has chosen not to be asked, however *)
(* many tasks wait for their questions meanwhile (uploadFile(),             *)
(* showNextReplacementPrompt()).                                            *)
THEOREM ReplacesOnlyAsked == Spec => []ReplaceAsked
<1>1. Inv => ReplaceAsked BY DEF Inv, ConsentOK, ReplaceAsked, Running
<1> QED BY <1>1, InitInv, NextInv, PTL DEF Spec

(* No list is shown that is older than what the page shows, whatever is     *)
(* refreshed, uploaded and aborted meanwhile, unless a list waits for the   *)
(* tokens (refresh(), upload()).                                            *)
THEOREM NeverOlder == Spec => NewerKept
<1>1. ASSUME Inv, [Next]_vars, ~Waiting PROVE asOf' >= asOf
  <2>1. asOf \in Nat BY <1>1 DEF Inv, AgesOK
  <2>2. CASE UNCHANGED asOf BY <2>1, <2>2
  <2>3. ASSUME NEW f \in Flow, NEW hidden \in BOOLEAN, GetList(f, hidden) PROVE asOf' >= asOf
    <3>1. reply[f].when >= asOf /\ reply[f].when \in Nat
      BY <2>3, <1>1 DEF GetList, Inv, AgesOK, FlowsOK, Listed
    <3>2. CASE Apply(f, IF hidden THEN [items |-> shown, when |-> asOf] ELSE reply[f])
      <4>1. asOf' = asOf \/ asOf' = reply[f].when BY <3>2 DEF Apply
      <4> QED BY <2>1, <3>1, <4>1
    <3> QED BY <2>2, <2>3, <3>2 DEF GetList, history
  <2>4. ASSUME NEW t \in Task, Receive(t) PROVE asOf' >= asOf
    <3>1. CASE Displays(reply[t].change)
      <4>1. reply[t].change \in Nat BY <1>1, <2>4 DEF Inv, FlowsOK, Receive, Outcome
      <4> QED BY <2>1, <3>1, <4>1 DEF Displays
    <3>2. CASE ~Displays(reply[t].change)
      BY <2>2, <2>4, <3>2 DEF Receive, ReceiveUpload, Uploaded, Refused, Relist, ReceiveItem, ReceiveBatch
    <3> QED BY <3>1, <3>2
  <2>5. ASSUME NEW f \in Flow, List(f) \/ LoseList(f) PROVE UNCHANGED asOf
    BY <2>5 DEF List, LoseList, history
  <2>6. ASSUME NEW t \in Task, Begin(t) \/ Serve(t) \/ LastFile(t) \/ AttemptAgain(t) PROVE UNCHANGED asOf
    BY <2>6 DEF Begin, Upload, DeleteItem, DeleteSelected, SaveComment, Transfer, Serve, Answers,
       LastFile, AttemptAgain, history
  <2>7. \A f \in Flow : ~GetTokens(f) BY <1>1 DEF GetTokens, Waiting
  <2>8. ASSUME Others \/ StartPoll \/ Answer \/ UNCHANGED vars PROVE UNCHANGED asOf
    BY <2>8 DEF Others, StartPoll, Answer, vars, history
  <2> QED BY <1>1, <2>2, <2>3, <2>4, <2>5, <2>6, <2>7, <2>8 DEF Next, Listing, Working
<1>2. Inv /\ [Next]_vars => [~Waiting => asOf' >= asOf]_vars BY <1>1
<1> QED BY <1>2, InitInv, NextInv, PTL DEF Spec, NewerKept
=============================================================================
