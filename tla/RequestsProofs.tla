---------------------------- MODULE RequestsProofs ----------------------------
(***************************************************************************)
(* What the life of a request guarantees, for any tokens, zones, grants    *)
(* and suspensions, any limits and any number of requests: it is served    *)
(* with rights of its own time, the slot of an archive is given back, and  *)
(* a timer cuts only the request it was started for, and only in time.     *)
(***************************************************************************)
EXTENDS Requests, FiniteSetTheorems, TLAPS

(* The client of a request is known from its head to its last answer.       *)
Known == Point \ {"closed", "next", "arming", "reading", "ending"}
Unknown == {"arming", "reading", "authenticating"}

ControlOK ==
  /\ at \in Known => ask \in AskType /\ lately # None
  /\ lately # None => ask \in AskType
  /\ owner = 0 <=> at \in {"closed", "next"}
  /\ at \in {"closed", "next", "arming", "reading"} => ask = None /\ lately = None
  /\ at = "opening" => ask.kind = "archive"
  /\ at \in Unknown => principal = None /\ snapshot = None /\ rules = None
  /\ at = "granting" => principal # None

(* A timer of the request under way cannot be due before its time.          *)
AlarmsOK ==
  /\ \A n \in Serial : n > serial => alarm[n] = Off
  /\ owner # 0 =>
       /\ alarm[owner].stage = "armed" => elapsed + alarm[owner].left >= Timeout
       /\ alarm[owner].stage \in {"fired", "rearming"} => elapsed >= Timeout
  /\ deadline # None =>
       /\ at \in {"streaming", "writing", "unstreaming"}
       /\ archiveAlarm[owner].stage = "armed" => deadline = archiveAlarm[owner].left
       /\ archiveAlarm[owner].stage = "fired" => deadline = 0

(* What a handler has read is what the registry has said since the head     *)
(* came; suspensions of paths are not accepted.                             *)
PathFree(s) == \A scope \in s : scope[1] # "path"
CachesOK ==
  /\ PathFree(suspended)
  /\ lately # None =>
       /\ published \in lately.maps /\ suspended \in lately.rules
       /\ \A s \in lately.rules : PathFree(s)
  /\ at = "authenticating" /\ Valid(ask) => lately.valid
  /\ at \in Known /\ principal # None =>
       /\ lately.valid /\ registry[ask.token] # None
       /\ principal.grants \subseteq registry[ask.token].grants
  /\ at \in Known /\ snapshot # None => snapshot \in lately.maps
  /\ at \in Known /\ rules # None => rules \in lately.rules
  /\ at = "ruling" => snapshot \in lately.maps
  /\ at = "judging" => snapshot \in lately.maps /\ rules \in lately.rules
  /\ at \in {"body", "mapping", "ruling", "judging"} => principal # None

(* The verdict of _zone_permissions, in terms of what it was drawn from.    *)
Judged ==
  /\ lately.valid /\ registry[ask.token] # None
  /\ \E m \in lately.maps, s \in lately.rules :
       /\ \A n \in Needed(ask) : \E g \in registry[ask.token].grants : Entitles(g, n[1], m, s) /\ n[2] \in g.may
       /\ ask.replace => \E g \in registry[ask.token].grants : Entitles(g, ask.to, m, s) /\ g.replace
Allowed == at \in {"working", "opening", "starting"} \/ (at = "body" /\ ask.kind # "transfer")
RightsOK == Allowed => Judged

Inv == TypeOK /\ ControlOK /\ SlotsKept /\ AlarmsOK /\ CachesOK /\ RightsOK

-----------------------------------------------------------------------------
(* Types *)

(* The row of a rotated token is one; so is that of a row without grants.   *)
LEMMA RowChanges ==
  ASSUME NEW row \in Row
  PROVE  /\ \A d \in Nat \union {Forever} : [row EXCEPT !.left = d] \in Row /\ [row EXCEPT !.left = d].grants = row.grants
         /\ [row EXCEPT !.secret = @ + 1] \in Row /\ [row EXCEPT !.secret = @ + 1].grants = row.grants
         /\ [row EXCEPT !.revoked = TRUE] \in Row /\ [row EXCEPT !.revoked = TRUE].grants = row.grants
         /\ \A gs \in SUBSET Grant : [row EXCEPT !.grants = gs] \in Row /\ [row EXCEPT !.grants = gs].grants = gs
<1>1. row.secret + 1 \in Nat BY DEF Row
<1> QED BY <1>1 DEF Row

(* An administrator leaves the registry well-formed, and the grants of a    *)
(* token as they are.                                                       *)
LEMMA AdministerTyped ==
  ASSUME TypeOK, Administer
  PROVE  /\ registry' \in [Token -> Row \union {None}] /\ suspended' \subseteq Scope
         /\ published' \in Snapshots /\ changes' \in 0..MaxChanges
         /\ \A t \in Token : registry[t] # None => registry'[t] # None /\ registry'[t].grants = registry[t].grants
<1>1. Duration \subseteq Nat \union {Forever} /\ None \notin Row /\ MaxChanges \in Nat BY RegistryAssumption
<1>2. changes' \in 0..MaxChanges
  BY <1>1 DEF Administer, Create, Extend, Rotate, Revoke, SetSuspension, Publish, Change, TypeOK
<1>3. ASSUME NEW t \in Token, Create(t) PROVE registry' \in [Token -> Row \union {None}]
  BY <1>1, <1>3, RegistryAssumption DEF Create, TypeOK, Row
<1>4. ASSUME NEW t \in Token, Extend(t) \/ Rotate(t) \/ Revoke(t)
      PROVE  registry[t] # None /\ \E row \in Row : row.grants = registry[t].grants /\ registry' = [registry EXCEPT ![t] = row]
  <2>1. registry[t] \in Row /\ registry[t] # None BY <1>4 DEF Extend, Rotate, Revoke, Live, TypeOK
  <2>2. CASE Extend(t)
    <3>1. PICK d \in Duration : registry' = [registry EXCEPT ![t] = [registry[t] EXCEPT !.left = d]]
      BY <2>2 DEF Extend
    <3> QED BY <1>1, <2>1, <3>1, RowChanges
  <2>3. CASE Rotate(t)
    <3>1. PICK d \in Duration : registry' = [registry EXCEPT ![t].left = d, ![t].secret = @ + 1] BY <2>3 DEF Rotate
    <3> DEFINE longer == [registry[t] EXCEPT !.left = d]
               rotated == [longer EXCEPT !.secret = @ + 1]
    <3>2. longer \in Row /\ longer.grants = registry[t].grants BY <1>1, <2>1, RowChanges
    <3>3. rotated \in Row /\ rotated.grants = longer.grants BY <3>2, RowChanges
    <3> HIDE DEF rotated
    <3>4. registry' = [registry EXCEPT ![t] = rotated]
      BY <2>1, <3>1 DEF TypeOK, Row, rotated
    <3> QED BY <2>1, <3>2, <3>3, <3>4
  <2>4. CASE Revoke(t)
    <3>1. registry' = [registry EXCEPT ![t] = [registry[t] EXCEPT !.revoked = TRUE]] BY <2>4 DEF Revoke
    <3> QED BY <2>1, <3>1, RowChanges
  <2> QED BY <1>4, <2>2, <2>3, <2>4
<1>5. ASSUME NEW t \in Token, Create(t) PROVE registry[t] = None /\ \A u \in Token \ {t} : registry'[u] = registry[u]
  BY <1>5 DEF Create, TypeOK
<1>6. \A t \in Token : Create(t) \/ Extend(t) \/ Rotate(t) \/ Revoke(t) => UNCHANGED <<suspended, published>>
  BY DEF Create, Extend, Rotate, Revoke
<1>7. ASSUME NEW s \in Scope, SetSuspension(s) PROVE UNCHANGED <<registry, published>> /\ suspended' \subseteq Scope
  BY <1>7 DEF SetSuspension, TypeOK
<1>8. ASSUME NEW s \in Snapshots, Publish(s) PROVE UNCHANGED <<registry, suspended>> /\ published' \in Snapshots
  BY <1>8 DEF Publish
<1>9. CASE \E t \in Token : Create(t) BY <1>2, <1>3, <1>5, <1>6, <1>9 DEF TypeOK
<1>10. CASE \E t \in Token : Extend(t) \/ Rotate(t) \/ Revoke(t)
  BY <1>1, <1>2, <1>4, <1>6, <1>10 DEF TypeOK
<1> QED BY <1>2, <1>7, <1>8, <1>9, <1>10 DEF Administer, TypeOK

(* Time leaves rows and alarms well-formed.                                 *)
LEMMA TimeTyped ==
  /\ \A row \in Row : Aged(row) \in Row /\ Aged(row).grants = row.grants /\ Aged(row).secret = row.secret
                       /\ (Active(Aged(row)) => Active(row))
  /\ Aged(None) = None /\ \A row \in Row : Aged(row) # None
  /\ \A a \in Alarm : Later(a) \in Alarm
  /\ \A t \in 0..ArchiveTime : Less(t) \in 0..ArchiveTime
  /\ \A t \in 0..Timeout : More(t) \in 0..Timeout
<1>1. Forever \notin Nat /\ None \notin Row /\ Timeout \in Nat /\ ArchiveTime \in Nat
  BY RegistryAssumption, TimeAssumption
<1>2. \A l \in Nat \union {Forever} : Less(l) \in Nat \union {Forever} /\ (Less(l) # 0 => l # 0)
  BY <1>1 DEF Less
<1>3. ASSUME NEW row \in Row
      PROVE  Aged(row) \in Row /\ Aged(row).grants = row.grants /\ Aged(row).secret = row.secret
             /\ (Active(Aged(row)) => Active(row))
  BY <1>1, <1>2, <1>3 DEF Aged, Row, Active
<1>4. ASSUME NEW a \in Alarm PROVE Later(a) \in Alarm
  BY <1>1, <1>4 DEF Later, Less, Alarm
<1> QED BY <1>1, <1>3, <1>4 DEF Aged, Less, More

(* authenticate() takes the row of a valid token, without its grants.       *)
LEMMA RowRead ==
  ASSUME Inv, ReadRow
  PROVE  \/ at' = "answering" /\ principal' = None
         \/ at' = "granting" /\ Valid(ask) /\ registry[ask.token] \in Row /\ principal' \in Row /\ principal'.grants = {}
<1>1. at = "authenticating" /\ principal = None /\ ask \in AskType
  BY DEF ReadRow, Inv, ControlOK, Known, Unknown, Point
<1>2. CASE Valid(ask)
  <2>1. registry[ask.token] \in Row BY <1>1, <1>2 DEF Valid, Inv, TypeOK, AskType
  <2>2. {} \in SUBSET Grant OBVIOUS
  <2>3. at' = "granting" /\ principal' = [registry[ask.token] EXCEPT !.grants = {}] BY <1>1, <1>2 DEF ReadRow
  <2> QED BY <1>2, <2>1, <2>2, <2>3, RowChanges
<1>3. CASE ~Valid(ask) BY <1>1, <1>3 DEF ReadRow
<1> QED BY <1>2, <1>3

(* Judge() takes from an upload the right to replace, and nothing else.     *)
LEMMA JudgeTyped ==
  ASSUME Inv, Judge
  PROVE  /\ ask \in AskType /\ ask' \in AskType /\ UNCHANGED <<ask.kind, ask.token, ask.zone, ask.to>>
         /\ ask'.replace => ask.replace /\ MayReplace(principal, ask.to, snapshot, rules)
<1>1. ask \in AskType BY DEF Judge, Inv, ControlOK, Known, Point
<1> QED BY <1>1 DEF Judge, AskType, MayReplace

(* The head of a request is served with what the registry says then.        *)
LEMMA HeadTyped ==
  ASSUME Inv, NEW q \in Ask, ReadHead(q)
  PROVE  lately' \in Lately
BY DEF ReadHead, Inv, TypeOK, Lately, Valid, Active

(* What an administrator changes is what the registry says next.            *)
LEMMA LatelyTyped ==
  ASSUME Inv, AdministerNow, lately # None
  PROVE  lately' \in Lately
<1>1. published' \in Snapshots /\ suspended' \subseteq Scope BY AdministerTyped DEF AdministerNow, Inv
<1> QED BY <1>1 DEF AdministerNow, Lately, Valid, Active, Inv, TypeOK

(* Every step keeps the types.                                              *)
LEMMA StepTyped ==
  ASSUME Inv, [Next]_vars
  PROVE  TypeOK'
<1>. USE DEF Inv, registryVars, client, caches, stream, socket, alarms, rest, Goes
<1>a. /\ Timeout \in Nat \ {0} /\ ArchiveTime \in Nat \ {0} /\ MaxArchives \in Nat \ {0}
      /\ MaxChunks \in Nat /\ MaxRequests \in Nat
  BY TimeAssumption
<1>b. Off \in Alarm /\ Armed(Timeout) \in Alarm /\ Armed(ArchiveTime) \in Alarm BY <1>a DEF Off, Armed, Alarm
<1>c. 0 \in 0..Timeout /\ 0 \in 0..MaxChunks /\ 0 \in 0..MaxRequests /\ ArchiveTime \in 0..ArchiveTime BY <1>a
<1>1. CASE Connect BY <1>a, <1>b, <1>1 DEF Connect, TypeOK, Point
<1>2. CASE Start
  <2>1. serial + 1 \in 0..MaxRequests BY <1>a, <1>2 DEF Start, TypeOK
  <2> QED BY <1>c, <1>2, <2>1 DEF Start, TypeOK, Point
<1>3. CASE Arm
  <2>1. alarm' \in [Serial -> Alarm] BY <1>b, <1>3 DEF Arm, TypeOK
  <2> QED BY <1>3, <2>1 DEF Arm, TypeOK, Point
<1>4. CASE Lost BY <1>a, <1>b, <1>4 DEF Lost, TypeOK, Point
<1>5. CASE Leave BY <1>a, <1>b, <1>c, <1>5 DEF Leave, TypeOK, Point
<1>6. CASE Finish BY <1>a, <1>b, <1>6 DEF Finish, TypeOK, Point
<1>7. CASE Unavailable BY <1>a, <1>b, <1>7 DEF Unavailable, TypeOK, Point
<1>8. CASE ReadRow
  <2>2. principal' \in Row \union {None} BY <1>8, RowRead DEF TypeOK
  <2>3. at' \in Point BY <1>8 DEF ReadRow, Point
  <2> QED BY <1>8, <2>2, <2>3 DEF ReadRow, TypeOK
<1>9. CASE ReadGrants
  <2>1. ask \in AskType /\ principal \in Row BY <1>9 DEF ReadGrants, ControlOK, Known, Point, TypeOK
  <2>2. registry[ask.token] \in Row
    BY <1>9, <2>1 DEF ReadGrants, CachesOK, Known, Point, TypeOK, AskType
  <2>3. principal' \in Row BY <1>9, <2>1, <2>2, RowChanges DEF ReadGrants, Row
  <2>4. at' \in Point BY <1>9 DEF ReadGrants, Point
  <2> QED BY <1>9, <2>3, <2>4 DEF ReadGrants, TypeOK
<1>10. CASE ReadSnapshot BY <1>a, <1>b, <1>10 DEF ReadSnapshot, TypeOK, Point
<1>11. CASE ReadRules BY <1>a, <1>b, <1>11 DEF ReadRules, TypeOK, Point
<1>12. CASE Judge
  <2>1. ask' \in AskType BY <1>12, JudgeTyped
  <2>2. at' \in Point BY <1>12 DEF Judge, Point
  <2> QED BY <1>12, <2>1, <2>2 DEF Judge, TypeOK
<1>13. CASE ReadBody BY <1>a, <1>b, <1>13 DEF ReadBody, TypeOK, Point
<1>14. CASE Serve BY <1>a, <1>b, <1>14 DEF Serve, TypeOK, Point
<1>15. CASE TakeSlot BY <1>a, <1>b, <1>15 DEF TakeSlot, TypeOK, Point
<1>16. CASE OpenFiles BY <1>a, <1>16 DEF OpenFiles, TypeOK, Point, SlotsKept, ControlOK, Holding
<1>17. CASE StartStream
  <2>1. archiveAlarm' \in [Serial -> Alarm] BY <1>b, <1>17 DEF StartStream, TypeOK
  <2>2. idle' \in 0..Timeout /\ sent' \in 0..MaxChunks /\ deadline' \in {None} \union 0..ArchiveTime
    BY <1>c, <1>17 DEF StartStream, TypeOK
  <2>3. at' \in Point /\ streaming' \in BOOLEAN /\ closing' \in BOOLEAN BY <1>17 DEF StartStream, TypeOK, Point
  <2>4. UNCHANGED <<registryVars, client, caches, elapsed, slots, shut, expired, alarm>> BY <1>17 DEF StartStream
  <2> QED BY <2>1, <2>2, <2>3, <2>4 DEF TypeOK
<1>18. CASE ReadChunk BY <1>a, <1>b, <1>18 DEF ReadChunk, TypeOK, Point
<1>19. CASE Written BY <1>a, <1>b, <1>19 DEF Written, TypeOK, Point
<1>20. CASE StreamDone BY <1>a, <1>b, <1>20 DEF StreamDone, TypeOK, Point
<1>21. CASE StreamFails BY <1>a, <1>b, <1>21 DEF StreamFails, TypeOK, Point
<1>22. CASE StopStream
  <2>1. archiveAlarm' \in [Serial -> Alarm] BY <1>b, <1>22 DEF StopStream, TypeOK
  <2>2. at' \in Point /\ streaming' \in BOOLEAN /\ deadline' = None BY <1>22 DEF StopStream, Point
  <2>3. UNCHANGED <<registryVars, client, caches, idle, sent, elapsed, slots, socket, alarm>> BY <1>22 DEF StopStream
  <2> QED BY <2>1, <2>2, <2>3 DEF TypeOK
<1>23. CASE ReleaseFiles BY <1>a, <1>23 DEF ReleaseFiles, TypeOK, Point, SlotsKept, Holding
<1>24. CASE Answer BY <1>a, <1>b, <1>24 DEF Answer, TypeOK, Point
<1>25. ASSUME NEW q \in Ask, ReadHead(q) PROVE TypeOK'
  <2>1. lately' \in Lately BY <1>25, HeadTyped
  <2>2. ask' \in AskType BY <1>25, AskAssumption DEF ReadHead
  <2>3. at' \in Point /\ closing' \in BOOLEAN BY <1>25 DEF ReadHead, Point
  <2>4. UNCHANGED <<registryVars, serial, owner, caches, stream, elapsed, slots, shut, expired, alarms>>
    BY <1>25 DEF ReadHead
  <2> QED BY <2>1, <2>2, <2>3, <2>4 DEF TypeOK
<1>26. ASSUME NEW n \in Serial, RequestTimer(n) PROVE TypeOK'
  <2>1. alarm[n] \in Alarm BY DEF TypeOK
  <2>2. alarm' \in [Serial -> Alarm]
    <3>1. CASE Fire(n) BY <2>1, <3>1 DEF Fire, TypeOK, Alarm
    <3>2. CASE Expire(n)
      <4>1. Timeout - idle \in 0..(Timeout + ArchiveTime) BY <1>a DEF TypeOK
      <4>2. [stage |-> "rearming", left |-> Timeout - idle] \in Alarm BY <4>1 DEF Alarm
      <4> QED BY <1>b, <3>2, <4>2 DEF Expire, Silent, Shut, TypeOK
    <3>3. CASE Rearm(n) BY <1>b, <2>1, <3>3 DEF Rearm, TypeOK, Alarm, Armed
    <3> QED BY <1>26, <3>1, <3>2, <3>3 DEF RequestTimer
  <2>3. UNCHANGED <<registryVars, at, client, caches, stream, elapsed, slots, archiveAlarm>>
    BY <1>26 DEF RequestTimer, Fire, Expire, Rearm
  <2>4. closing' \in BOOLEAN /\ shut' \in BOOLEAN /\ expired' \in BOOLEAN
    BY <1>26 DEF RequestTimer, Fire, Expire, Rearm, Silent, Shut, TypeOK
  <2> QED BY <2>2, <2>3, <2>4 DEF TypeOK
<1>27. ASSUME NEW n \in Serial, ArchiveTimer(n) PROVE TypeOK'
  <2>1. archiveAlarm[n] \in Alarm BY DEF TypeOK
  <2>2. archiveAlarm' \in [Serial -> Alarm]
    BY <1>b, <1>27, <2>1 DEF ArchiveTimer, FireArchive, ExpireArchive, TypeOK, Alarm
  <2>3. 0 \in 0..ArchiveTime BY <1>a
  <2>4. UNCHANGED <<registryVars, at, client, caches, streaming, idle, sent, elapsed, slots, expired, alarm>>
    BY <1>27 DEF ArchiveTimer, FireArchive, ExpireArchive
  <2>5. deadline' \in {None} \union 0..ArchiveTime /\ closing' \in BOOLEAN /\ shut' \in BOOLEAN
    BY <1>27, <2>3 DEF ArchiveTimer, FireArchive, ExpireArchive, TypeOK
  <2> QED BY <2>2, <2>4, <2>5 DEF TypeOK
<1>28. CASE Tick
  <2>1. registry' \in [Token -> Row \union {None}] /\ principal' \in Row \union {None}
    BY <1>28, TimeTyped DEF Tick, TypeOK
  <2>2. alarm' \in [Serial -> Alarm] /\ archiveAlarm' \in [Serial -> Alarm]
    BY <1>28, TimeTyped DEF Tick, TypeOK
  <2>3. idle' \in 0..Timeout /\ elapsed' \in 0..Timeout /\ deadline' \in {None} \union 0..ArchiveTime
    BY <1>28, TimeTyped DEF Tick, TypeOK
  <2> QED BY <1>28, <2>1, <2>2, <2>3 DEF Tick, TypeOK
<1>29. CASE AdministerNow
  <2>1. lately' \in Lately \union {None} BY <1>29, LatelyTyped DEF AdministerNow
  <2> QED BY <1>29, <2>1, AdministerTyped DEF AdministerNow, TypeOK
<1>30. CASE UNCHANGED vars BY <1>30 DEF vars, TypeOK
<1> QED BY <1>1, <1>2, <1>3, <1>4, <1>5, <1>6, <1>7, <1>8, <1>9, <1>10, <1>11, <1>12, <1>13, <1>14, <1>15,
           <1>16, <1>17, <1>18, <1>19, <1>20, <1>21, <1>22, <1>23, <1>24, <1>25, <1>26, <1>27, <1>28, <1>29,
           <1>30 DEF Next, Works, Client, Timers

-----------------------------------------------------------------------------
(* The other parts of the invariant *)

LEMMA StepControl ==
  ASSUME Inv, [Next]_vars
  PROVE  ControlOK'
<1>. USE DEF Inv, registryVars, client, caches, stream, socket, alarms, rest, Goes
<1>1. CASE Connect BY <1>1 DEF Connect, ControlOK, Known, Unknown, Point
<1>2. CASE Start
  <2>1. serial + 1 # 0 BY DEF TypeOK
  <2> QED BY <1>2, <2>1 DEF Start, ControlOK, Known, Unknown, Point
<1>3. CASE Arm BY <1>3 DEF Arm, ControlOK, Known, Unknown, Point
<1>4. CASE Lost BY <1>4 DEF Lost, ControlOK, Known, Unknown, Point
<1>5. CASE Leave BY <1>5 DEF Leave, ControlOK, Known, Unknown, Point
<1>6. CASE Finish BY <1>6 DEF Finish, ControlOK, Known, Unknown, Point
<1>7. CASE Unavailable BY <1>7 DEF Unavailable, ControlOK, Known, Unknown, Point
<1>8. CASE ReadRow
  <2>1. at' # "answering" => principal' # None BY <1>8, RowRead, RegistryAssumption
  <2> QED BY <1>8, <2>1 DEF ReadRow, ControlOK, Known, Unknown, Point
<1>9. CASE ReadGrants BY <1>9 DEF ReadGrants, ControlOK, Known, Unknown, Point
<1>10. CASE ReadSnapshot BY <1>10 DEF ReadSnapshot, ControlOK, Known, Unknown, Point
<1>11. CASE ReadRules BY <1>11 DEF ReadRules, ControlOK, Known, Unknown, Point
<1>12. CASE Judge
  <2>1. ask' \in AskType BY <1>12, JudgeTyped
  <2> QED BY <1>12, <2>1 DEF Judge, ControlOK, Known, Unknown, Point
<1>13. CASE ReadBody BY <1>13 DEF ReadBody, ControlOK, Known, Unknown, Point
<1>14. CASE Serve BY <1>14 DEF Serve, ControlOK, Known, Unknown, Point
<1>15. CASE TakeSlot BY <1>15 DEF TakeSlot, ControlOK, Known, Unknown, Point
<1>16. CASE OpenFiles BY <1>16 DEF OpenFiles, ControlOK, Known, Unknown, Point
<1>17. CASE StartStream BY <1>17 DEF StartStream, ControlOK, Known, Unknown, Point
<1>18. CASE ReadChunk BY <1>18 DEF ReadChunk, ControlOK, Known, Unknown, Point
<1>19. CASE Written BY <1>19 DEF Written, ControlOK, Known, Unknown, Point
<1>20. CASE StreamDone BY <1>20 DEF StreamDone, ControlOK, Known, Unknown, Point
<1>21. CASE StreamFails BY <1>21 DEF StreamFails, ControlOK, Known, Unknown, Point
<1>22. CASE StopStream BY <1>22 DEF StopStream, ControlOK, Known, Unknown, Point
<1>23. CASE ReleaseFiles BY <1>23 DEF ReleaseFiles, ControlOK, Known, Unknown, Point
<1>24. CASE Answer BY <1>24 DEF Answer, ControlOK, Known, Unknown, Point
<1>25. ASSUME NEW q \in Ask, ReadHead(q) PROVE ControlOK'
  <2>1. q \in AskType BY AskAssumption
  <2>2. lately' # None BY <1>25, HeadTyped, AskAssumption
  <2> QED BY <1>25, <2>1, <2>2 DEF ReadHead, ControlOK, Known, Unknown, Point
<1>26. CASE UNCHANGED <<at, client, principal, snapshot, rules>>
  BY <1>26 DEF ControlOK
<1>27. CASE Timers \/ UNCHANGED vars
  <2>1. ASSUME NEW n \in Serial, RequestTimer(n) \/ ArchiveTimer(n) PROVE UNCHANGED <<at, client, caches>>
    BY <2>1 DEF RequestTimer, ArchiveTimer, Fire, Expire, Rearm, FireArchive, ExpireArchive
  <2> QED BY <1>26, <1>27, <2>1 DEF Timers, vars
<1>28. CASE Tick
  <2>1. principal = None => principal' = None BY <1>28, TimeTyped DEF Tick
  <2>2. principal # None => principal' # None BY <1>28, TimeTyped DEF Tick, TypeOK
  <2> QED BY <1>28, <2>1, <2>2 DEF Tick, ControlOK
<1>29. CASE AdministerNow
  <2>1. lately # None => lately' # None BY <1>29, LatelyTyped, AskAssumption
  <2>2. UNCHANGED <<at, ask, serial, owner, caches>> /\ (lately = None => lately' = None)
    BY <1>29 DEF AdministerNow
  <2> QED BY <2>1, <2>2 DEF ControlOK, Known, Point
<1> QED BY <1>1, <1>2, <1>3, <1>4, <1>5, <1>6, <1>7, <1>8, <1>9, <1>10, <1>11, <1>12, <1>13, <1>14, <1>15,
           <1>16, <1>17, <1>18, <1>19, <1>20, <1>21, <1>22, <1>23, <1>24, <1>25, <1>27, <1>28, <1>29
        DEF Next, Works, Client

(* Slots: those of the handler's steps that touch the slots, or enter or    *)
(* leave the part that holds one.                                           *)
LEMMA StepSlots ==
  ASSUME Inv, [Next]_vars
  PROVE  SlotsKept'
<1>. USE DEF Inv, registryVars, client, caches, stream, socket, alarms, rest, Goes
<1>1. ASSUME UNCHANGED slots, at \notin Holding, at' \notin Holding PROVE SlotsKept'
  BY <1>1 DEF SlotsKept
<1>2. ASSUME UNCHANGED <<slots, ask>>, at \in Holding <=> at' \in Holding PROVE SlotsKept'
  BY <1>2 DEF SlotsKept
<1>3. CASE Connect \/ Start \/ Arm \/ Leave \/ Finish BY <1>1, <1>3 DEF Connect, Start, Arm, Leave, Finish, Holding
<1>4. CASE Lost \/ Answer \/ ReadBody BY <1>1, <1>4 DEF Lost, Answer, ReadBody, Holding
<1>5. CASE Unavailable \/ ReadRow \/ ReadGrants \/ ReadSnapshot \/ ReadRules
  BY <1>1, <1>5 DEF Unavailable, ReadRow, ReadGrants, ReadSnapshot, ReadRules, Holding
<1>6. CASE Judge BY <1>1, <1>6 DEF Judge, Holding
<1>7. CASE Serve BY <1>7 DEF Serve, SlotsKept, Holding
<1>8. CASE TakeSlot BY <1>8 DEF TakeSlot, SlotsKept, Holding, TypeOK
<1>9. CASE OpenFiles BY <1>9 DEF OpenFiles, SlotsKept, Holding, TypeOK, ControlOK
<1>10. CASE StartStream \/ ReadChunk \/ Written \/ StreamDone \/ StreamFails \/ StopStream
  BY <1>2, <1>10 DEF StartStream, ReadChunk, Written, StreamDone, StreamFails, StopStream, Holding
<1>11. CASE ReleaseFiles BY <1>11 DEF ReleaseFiles, SlotsKept, Holding, TypeOK
<1>12. ASSUME NEW q \in Ask, ReadHead(q) PROVE SlotsKept' BY <1>1, <1>12 DEF ReadHead, Holding
<1>13. CASE Timers
  <2>1. ASSUME NEW n \in Serial, RequestTimer(n) \/ ArchiveTimer(n) PROVE UNCHANGED <<at, slots, ask>>
    BY <2>1 DEF RequestTimer, ArchiveTimer, Fire, Expire, Rearm, FireArchive, ExpireArchive
  <2> QED BY <1>2, <1>13, <2>1 DEF Timers
<1>14. CASE Tick \/ AdministerNow \/ UNCHANGED vars BY <1>2, <1>14 DEF Tick, AdministerNow, vars
<1> QED BY <1>3, <1>4, <1>5, <1>6, <1>7, <1>8, <1>9, <1>10, <1>11, <1>12, <1>13, <1>14 DEF Next, Works, Client, Timers

(* Every step keeps the timers related to the time.                         *)
LEMMA StepAlarms ==
  ASSUME Inv, [Next]_vars
  PROVE  AlarmsOK'
<1>. USE DEF Inv, registryVars, client, caches, stream, socket, alarms, rest, Goes
<1>a. Timeout \in Nat /\ ArchiveTime \in Nat /\ MaxRequests \in Nat BY TimeAssumption
<1>b. /\ owner \in Nat /\ serial \in Nat /\ owner \in {0, serial} /\ serial <= MaxRequests
      /\ serial # 0 => serial \in Serial
  BY <1>a DEF TypeOK, Serial
<1>1. ASSUME UNCHANGED <<serial, owner, elapsed, deadline, alarm, archiveAlarm>>, deadline = None \/ at' \in {"streaming", "writing", "unstreaming"}
      PROVE  AlarmsOK'
  BY <1>1 DEF AlarmsOK
<1>2. CASE Connect \/ Unavailable \/ ReadRow \/ ReadGrants \/ ReadSnapshot \/ ReadRules \/ Lost \/ Answer \/ ReadBody
  BY <1>1, <1>2 DEF Connect, Unavailable, ReadRow, ReadGrants, ReadSnapshot, ReadRules, Lost, Answer, ReadBody, AlarmsOK
<1>3. CASE Judge BY <1>1, <1>3 DEF Judge, AlarmsOK
<1>4. CASE Serve \/ TakeSlot \/ OpenFiles \/ ReadChunk \/ Written \/ StreamDone \/ StreamFails \/ ReleaseFiles
  BY <1>1, <1>4 DEF Serve, TakeSlot, OpenFiles, ReadChunk, Written, StreamDone, StreamFails, ReleaseFiles, AlarmsOK
<1>5. CASE Start
  <2>1. serial + 1 \in Serial /\ alarm[serial + 1] = Off BY <1>a, <1>b, <1>5 DEF Start, AlarmsOK, Serial
  <2>2. deadline = None BY <1>5 DEF Start, AlarmsOK
  <2>3. \A n \in Serial : n > serial + 1 => alarm[n] = Off BY <1>b DEF AlarmsOK, Serial
  <2>4. Off.stage = "off" BY DEF Off
  <2> QED BY <1>5, <2>1, <2>2, <2>3, <2>4 DEF Start, AlarmsOK
<1>6. CASE Arm
  <2>1. owner = serial /\ serial \in Serial BY <1>b, <1>6 DEF Arm, ControlOK
  <2>2. deadline = None BY <1>6 DEF Arm, AlarmsOK
  <2>3. elapsed + Timeout >= Timeout BY <1>a DEF TypeOK
  <2> QED BY <1>b, <1>6, <2>1, <2>2, <2>3 DEF Arm, AlarmsOK, Armed, TypeOK
<1>7. CASE Leave
  <2>1. owner = 0 /\ deadline = None BY <1>7 DEF Leave, ControlOK, AlarmsOK
  <2> QED BY <1>7, <2>1 DEF Leave, AlarmsOK
<1>8. CASE Finish
  <2>1. deadline = None BY <1>8 DEF Finish, AlarmsOK
  <2> QED BY <1>b, <1>8, <2>1 DEF Finish, AlarmsOK, TypeOK
<1>9. CASE StartStream
  <2>1. owner = serial /\ serial \in Serial BY <1>b, <1>9 DEF StartStream, ControlOK
  <2>2. deadline = None BY <1>9 DEF StartStream, AlarmsOK
  <2> QED BY <1>b, <1>9, <2>1, <2>2 DEF StartStream, AlarmsOK, Armed, TypeOK
<1>10. CASE StopStream BY <1>b, <1>10 DEF StopStream, AlarmsOK
<1>11. ASSUME NEW q \in Ask, ReadHead(q) PROVE AlarmsOK' BY <1>1, <1>11 DEF ReadHead, AlarmsOK
<1>12. ASSUME NEW n \in Serial, RequestTimer(n) PROVE AlarmsOK'
  <2>1. UNCHANGED <<at, serial, owner, deadline, elapsed, archiveAlarm>>
    BY <1>12 DEF RequestTimer, Fire, Expire, Rearm
  <2>2. alarm[n] \in Alarm /\ n \in Nat BY DEF TypeOK, Serial
  <2>3. alarm[n] # Off BY <1>12 DEF RequestTimer, Fire, Expire, Rearm, Off, Due, Armed
  <2>4. n <= serial BY <1>b, <2>2, <2>3 DEF AlarmsOK
  <2>5. \A m \in Serial \ {n} : alarm'[m] = alarm[m]
    BY <1>12 DEF RequestTimer, Fire, Expire, Rearm, Silent, Shut, TypeOK
  <2>6. owner = n =>
          /\ alarm'[n].stage = "armed" => elapsed + alarm'[n].left >= Timeout
          /\ alarm'[n].stage \in {"fired", "rearming"} => elapsed >= Timeout
    <3>1. CASE Fire(n) BY <1>a, <2>2, <3>1 DEF Fire, AlarmsOK, Due, Armed, TypeOK, Alarm, Serial
    <3>2. CASE Expire(n)
      <4>1. owner = n => elapsed >= Timeout BY <2>2, <3>2 DEF Expire, AlarmsOK, Serial
      <4>2. alarm'[n].stage \in {"off", "rearming"} BY <3>2 DEF Expire, Off, Silent, Shut, TypeOK
      <4> QED BY <4>1, <4>2
    <3>3. CASE Rearm(n)
      <4>1. owner = n => elapsed >= Timeout BY <2>2, <3>3 DEF Rearm, AlarmsOK, Serial
      <4>2. owner = n => alarm'[n].stage = "armed" /\ alarm'[n].left \in Nat BY <2>2, <3>3 DEF Rearm, Armed, TypeOK, Alarm
      <4> QED BY <1>a, <4>1, <4>2 DEF TypeOK
    <3> QED BY <1>12, <3>1, <3>2, <3>3 DEF RequestTimer
  <2> QED BY <1>b, <2>1, <2>2, <2>4, <2>5, <2>6 DEF AlarmsOK
<1>13. ASSUME NEW n \in Serial, ArchiveTimer(n) PROVE AlarmsOK'
  <2>1. UNCHANGED <<at, serial, owner, elapsed, alarm>> BY <1>13 DEF ArchiveTimer, FireArchive, ExpireArchive
  <2>2. CASE FireArchive(n) BY <1>b, <2>1, <2>2 DEF FireArchive, AlarmsOK, Due, Armed, TypeOK, Alarm
  <2>3. CASE ExpireArchive(n) BY <1>b, <2>1, <2>3 DEF ExpireArchive, AlarmsOK, Off, TypeOK
  <2> QED BY <1>13, <2>2, <2>3 DEF ArchiveTimer
<1>14. CASE Tick
  <2>1. \A n \in Serial : alarm[n] \in Alarm /\ archiveAlarm[n] \in Alarm BY DEF TypeOK
  <2>2. \A n \in Serial : alarm'[n] = Later(alarm[n]) /\ archiveAlarm'[n] = Later(archiveAlarm[n]) BY <1>14 DEF Tick
  <2>3. UNCHANGED <<at, serial, owner>> BY <1>14 DEF Tick
  <2>4. \A n \in Serial : n > serial => alarm'[n] = Off 
    <3>1. Later(Off) = Off BY DEF Later, Off
    <3> QED BY <2>2, <2>3, <3>1 DEF AlarmsOK
  <2>a. \A l \in Nat : Less(l) = IF l = 0 THEN 0 ELSE l - 1 BY RegistryAssumption DEF Less
  <2>b. \A a \in Alarm : /\ Later(a).stage = a.stage /\ a.left \in Nat
                         /\ a.stage = "armed" => Later(a).left = IF a.left = 0 THEN 0 ELSE a.left - 1
    BY <1>a, <2>a DEF Later, Alarm
  <2>c. owner # 0 => owner \in Serial /\ alarm'[owner] = Later(alarm[owner]) /\ archiveAlarm'[owner] = Later(archiveAlarm[owner])
    BY <1>b, <2>2
  <2>5. owner # 0 =>
          /\ alarm'[owner].stage = "armed" => elapsed' + alarm'[owner].left >= Timeout
          /\ alarm'[owner].stage \in {"fired", "rearming"} => elapsed' >= Timeout
    <3>1. elapsed' = More(elapsed) BY <1>14 DEF Tick
    <3>2. elapsed \in Nat /\ elapsed' \in Nat /\ elapsed' >= elapsed /\ (elapsed' > elapsed \/ elapsed' = Timeout)
      BY <1>a, <3>1 DEF TypeOK, More
    <3> QED BY <1>a, <2>1, <2>b, <2>c, <3>2 DEF AlarmsOK
  <2>6. deadline' # None =>
          /\ archiveAlarm'[owner].stage = "armed" => deadline' = archiveAlarm'[owner].left
          /\ archiveAlarm'[owner].stage = "fired" => deadline' = 0
    <3>1. deadline' = IF deadline = None THEN None ELSE Less(deadline) BY <1>14 DEF Tick
    <3>2. deadline # None => deadline \in Nat /\ owner # 0
      BY <1>a DEF TypeOK, AlarmsOK, ControlOK
    <3> QED BY <2>1, <2>a, <2>b, <2>c, <3>1, <3>2 DEF AlarmsOK
  <2> QED BY <2>3, <2>4, <2>5, <2>6, <1>14 DEF AlarmsOK, Tick
<1>15. CASE AdministerNow \/ UNCHANGED vars
  <2>1. UNCHANGED <<at, serial, owner, elapsed, deadline, alarm, archiveAlarm>> BY <1>15 DEF AdministerNow, vars
  <2> QED BY <2>1 DEF AlarmsOK
<1> QED BY <1>2, <1>3, <1>4, <1>5, <1>6, <1>7, <1>8, <1>9, <1>10, <1>11, <1>12, <1>13, <1>14, <1>15
        DEF Next, Works, Client, Timers

(* The registry and what is published, against what the handler has read.   *)
LEMMA StepCaches ==
  ASSUME Inv, [Next]_vars
  PROVE  CachesOK'
<1>. USE DEF Inv, registryVars, client, caches, stream, socket, alarms, rest, Goes
<1>a. None \notin Row /\ None \notin Snapshots BY RegistryAssumption
<1>1. ASSUME UNCHANGED <<registryVars, ask, lately, principal, snapshot, rules>>,
             at' = at \/ at' \notin {"authenticating", "body", "mapping", "ruling", "judging"}, at' \in Known => at \in Known
      PROVE  CachesOK'
  BY <1>1 DEF CachesOK, Known, Valid, Active
<1>2. CASE Connect \/ Start \/ Arm \/ Leave BY <1>2 DEF Connect, Start, Arm, Leave, CachesOK, Known
<1>3. CASE Lost \/ Unavailable \/ Serve \/ TakeSlot \/ OpenFiles \/ StartStream \/ ReadChunk \/ Written \/ Answer
  BY <1>1, <1>3 DEF Lost, Unavailable, Serve, TakeSlot, OpenFiles, StartStream, ReadChunk, Written, Answer, Known, Point
<1>4. CASE StreamDone \/ StreamFails \/ StopStream \/ ReleaseFiles
  BY <1>1, <1>4 DEF StreamDone, StreamFails, StopStream, ReleaseFiles, Known, Point
<1>5. CASE Finish BY <1>5 DEF Finish, CachesOK, Known
<1>6. CASE ReadRow
  <2>1. UNCHANGED <<registryVars, ask, lately, snapshot, rules>> /\ at = "authenticating" /\ snapshot = None /\ rules = None
    BY <1>6 DEF ReadRow, ControlOK, Unknown
  <2> QED BY <1>a, <1>6, <2>1, RowRead DEF CachesOK
<1>7. CASE ReadGrants
  <2>1. /\ principal \in Row /\ at = "granting" /\ lately # None /\ lately.valid
        /\ registry[ask.token] # None /\ registry[ask.token] \in Row
    BY <1>7 DEF ReadGrants, ControlOK, CachesOK, TypeOK, Known, Point, AskType
  <2>2. principal' # None /\ principal'.grants = registry[ask.token].grants
    <3>1. registry[ask.token].grants \in SUBSET Grant BY <2>1 DEF Row
    <3> DEFINE gs == registry[ask.token].grants
    <3>2. principal' = [principal EXCEPT !.grants = gs] BY <1>7 DEF ReadGrants
    <3>3. gs \in SUBSET Grant BY <3>1
    <3> HIDE DEF gs
    <3>4. principal' \in Row /\ principal'.grants = gs BY <2>1, <3>2, <3>3, RowChanges
    <3> QED BY <1>a, <3>4 DEF gs
  <2>3. at' \in {"body", "mapping"} /\ UNCHANGED <<registryVars, ask, lately, snapshot, rules>> BY <1>7 DEF ReadGrants
  <2> QED BY <2>1, <2>2, <2>3 DEF CachesOK, Known, Point
<1>8. CASE ReadSnapshot
  <2>1. snapshot' \in lately.maps
    BY <1>a, <1>8 DEF ReadSnapshot, CachesOK, Known, Point, TypeOK, ControlOK
  <2> QED BY <1>8, <2>1 DEF ReadSnapshot, CachesOK, Known, Point
<1>9. CASE ReadRules
  <2>1. rules' \in lately.rules BY <1>9 DEF ReadRules, CachesOK, Known, Point, ControlOK
  <2> QED BY <1>9, <2>1 DEF ReadRules, CachesOK, Known, Point
<1>10. CASE Judge
  <2>1. ask'.token = ask.token BY <1>10, JudgeTyped
  <2> QED BY <1>10, <2>1 DEF Judge, CachesOK, Known, Point
<1>11. CASE ReadBody BY <1>11 DEF ReadBody, CachesOK, Known, Point
<1>12. ASSUME NEW q \in Ask, ReadHead(q) PROVE CachesOK'
  BY <1>12 DEF ReadHead, CachesOK, Known, ControlOK, Unknown, Valid
<1>13. CASE Timers \/ UNCHANGED vars
  <2>1. ASSUME NEW n \in Serial, RequestTimer(n) \/ ArchiveTimer(n) PROVE UNCHANGED <<at, client, caches, registryVars>>
    BY <2>1 DEF RequestTimer, ArchiveTimer, Fire, Expire, Rearm, FireArchive, ExpireArchive
  <2> QED BY <1>1, <1>13, <2>1 DEF Timers, vars
<1>14. CASE Tick
  <2>1. \A t \in Token : /\ registry[t] = None <=> registry'[t] = None
                         /\ registry[t] # None => registry'[t].grants = registry[t].grants
    BY <1>a, <1>14, TimeTyped DEF Tick, TypeOK
  <2>2. principal' = None <=> principal = None BY <1>a, <1>14, TimeTyped DEF Tick, TypeOK
  <2>3. principal # None => principal'.grants = principal.grants BY <1>14, TimeTyped DEF Tick, TypeOK
  <2>4. at = "authenticating" /\ Valid(ask)' => Valid(ask)
    <3>1. at = "authenticating" => ask \in AskType BY DEF ControlOK, Known, Point
    <3> QED BY <1>a, <1>14, <3>1, TimeTyped DEF Tick, TypeOK, Valid, AskType
  <2>5. UNCHANGED <<suspended, published, at, ask, lately, snapshot, rules>> BY <1>14 DEF Tick
  <2>6. at \in Known => ask.token \in Token BY DEF ControlOK, AskType
  <2>7. (at = "authenticating" /\ Valid(ask))' => lately'.valid BY <2>4, <2>5 DEF CachesOK
  <2>8. (at \in Known /\ principal # None)' =>
          /\ lately'.valid /\ registry'[ask'.token] # None
          /\ principal'.grants \subseteq registry'[ask'.token].grants
    <3> SUFFICES ASSUME at' \in Known, principal' # None
                 PROVE  /\ lately'.valid /\ registry'[ask'.token] # None
                        /\ principal'.grants \subseteq registry'[ask'.token].grants
      OBVIOUS
    <3>1. at \in Known /\ principal # None /\ ask.token \in Token BY <2>2, <2>5, <2>6
    <3>2. lately.valid /\ registry[ask.token] # None /\ principal.grants \subseteq registry[ask.token].grants
      BY <3>1 DEF CachesOK
    <3>3. registry'[ask.token] # None /\ registry'[ask.token].grants = registry[ask.token].grants
      BY <2>1, <3>1, <3>2
    <3>4. ask' = ask /\ lately' = lately BY <2>5
    <3>5. principal'.grants = principal.grants BY <2>3, <3>1
    <3> QED BY <3>2, <3>3, <3>4, <3>5
  <2> QED BY <2>2, <2>5, <2>7, <2>8 DEF CachesOK
<1>15. CASE AdministerNow
  <2>1. PathFree(suspended')
    <3>1. suspended' = suspended \/ \E s \in Scope : s[1] # "path" /\ suspended' \subseteq suspended \union {s}
      BY <1>15 DEF AdministerNow, Administer, Create, Extend, Rotate, Revoke, SetSuspension, Publish
    <3> QED BY <3>1 DEF CachesOK, PathFree
  <2>2. \A t \in Token : registry[t] # None => registry'[t] # None /\ registry'[t].grants = registry[t].grants
    BY <1>15, AdministerTyped DEF AdministerNow
  <2>3. UNCHANGED <<at, ask, principal, snapshot, rules>> BY <1>15 DEF AdministerNow
  <2>4. lately' # None =>
          /\ lately # None /\ published' \in lately'.maps /\ suspended' \in lately'.rules
          /\ lately.maps \subseteq lately'.maps /\ lately.rules \subseteq lately'.rules
          /\ \A s \in lately'.rules : s = suspended' \/ s \in lately.rules
          /\ lately.valid \/ Valid(ask)' => lately'.valid
    BY <1>15 DEF AdministerNow
  <2>5. at \in Known => ask.token \in Token /\ lately' # None
    <3>1. at \in Known => lately # None /\ ask \in AskType BY DEF ControlOK
    <3>2. lately # None => lately' # None BY <1>15, LatelyTyped, AskAssumption
    <3> QED BY <3>1, <3>2 DEF AskType
  <2>6. at = "authenticating" => at \in Known BY DEF Known, Point
  <2>7. at \in {"ruling", "judging"} => at \in Known BY DEF Known, Point
  <2> QED BY <2>1, <2>2, <2>3, <2>4, <2>5, <2>6, <2>7 DEF CachesOK
<1> QED BY <1>2, <1>3, <1>4, <1>5, <1>6, <1>7, <1>8, <1>9, <1>10, <1>11, <1>12, <1>13, <1>14, <1>15
        DEF Next, Works, Client

(* What _zone_permissions counts is what the documents say a grant gives.   *)
LEMMA ForEntitles ==
  ASSUME NEW m \in Snapshot, NEW s \in SUBSET Scope, PathFree(s), NEW zone \in Zone,
         NEW row, row.grants \subseteq Grant, NEW g \in For(row, zone, m, s)
  PROVE  g \in row.grants /\ Entitles(g, zone, m, s)
<1>1. /\ g \in row.grants /\ g \in Grant /\ zone \in Resolved(g, m) /\ zone \in Published(m) /\ ~Blocked(zone, m, s)
  BY DEF For
<1>2. m.path[zone] # None BY <1>1 DEF Published
<1>3. ASSUME NEW scope \in s PROVE ~Names(scope, zone, m)
  <2>1. scope[1] # "path" BY DEF PathFree
  <2>2. Global \notin s /\ <<"zone", zone>> \notin s /\ \A h \in Group : zone \in m.members[h] => <<"group", h>> \notin s
    BY <1>1 DEF Blocked
  <2> QED BY <2>1, <2>2 DEF Names
<1>4. Names(g.scope, zone, m)
  <2> DEFINE value == g.scope[2]
             sharing == {z \in Published(m) : m.path[z] = value}
  <2>1. CASE g.scope = Global BY <2>1 DEF Names
  <2>2. CASE g.scope # Global /\ g.scope[1] = "zone"
    <3>1. zone \in {value} \intersect Published(m) BY <1>1, <2>2 DEF Resolved
    <3>2. g.scope \in {"zone"} \X Zone BY <1>1, <2>2 DEF Grant, Scope
    <3> QED BY <3>1, <3>2 DEF Names
  <2>3. CASE g.scope # Global /\ g.scope[1] = "group"
    <3>1. zone \in m.members[value] BY <1>1, <2>3 DEF Resolved
    <3>2. g.scope \in {"group"} \X Group BY <1>1, <2>3 DEF Grant, Scope
    <3> QED BY <3>1, <3>2 DEF Names
  <2>4. CASE g.scope # Global /\ g.scope[1] = "path"
    <3>1. zone \in sharing /\ Cardinality(sharing) = 1 BY <1>1, <2>4 DEF Resolved
    <3>2. g.scope \in {"path"} \X Path BY <1>1, <2>4 DEF Grant, Scope
    <3>3. IsFiniteSet(sharing) BY RegistryAssumption, FS_Subset DEF Published
    <3>4. PICK z \in sharing : sharing = {z} BY <3>1, <3>3, FS_Singleton
    <3>5. \A y \in Zone \ {zone} : m.path[y] # m.path[zone] BY <1>2, <3>1, <3>4 DEF Published
    <3> QED BY <3>1, <3>2, <3>5 DEF Names
  <2> QED BY <1>1, <2>1, <2>2, <2>3, <2>4 DEF Grant, Scope
<1> QED BY <1>1, <1>2, <1>3, <1>4 DEF Entitles

(* What a request needs are rights in zones.                                *)
LEMMA NeededZones == \A q \in AskType : \A n \in Needed(q) : n[1] \in Zone
<1> SUFFICES ASSUME NEW q \in AskType PROVE \A n \in Needed(q) : n[1] \in Zone OBVIOUS
<1>1. q.zone \in Zone /\ q.to \in Zone /\ q.kind \in Kind BY DEF AskType
<1>2. Needed(q) \in {{<<q.zone, "list">>}, {<<q.zone, "read">>}, {<<q.zone, "write">>},
                      {<<q.zone, "read">>, <<q.zone, "write">>, <<q.to, "write">>}}
  BY <1>1 DEF Needed, Kind
<1> QED BY <1>1, <1>2

(* Every step keeps the verdict drawn from what the registry said.          *)
LEMMA StepRights ==
  ASSUME Inv, [Next]_vars
  PROVE  RightsOK'
<1>. USE DEF Inv, registryVars, client, caches, stream, socket, alarms, rest, Goes
<1>1. ASSUME ~Allowed' PROVE RightsOK' BY <1>1 DEF RightsOK
<1>2. ASSUME Allowed, UNCHANGED <<ask, lately, registry>> PROVE RightsOK'
  BY <1>2 DEF RightsOK, Judged
<1>3. CASE Connect \/ Start \/ Arm \/ Lost \/ Leave \/ Finish \/ Unavailable
  BY <1>1, <1>3 DEF Connect, Start, Arm, Lost, Leave, Finish, Unavailable, Allowed
<1>4. CASE ReadRow BY <1>1, <1>4, RowRead DEF Allowed
<1>5. CASE ReadGrants \/ ReadSnapshot \/ ReadRules BY <1>1, <1>5 DEF ReadGrants, ReadSnapshot, ReadRules, Allowed
<1>6. CASE ReadBody BY <1>1, <1>2, <1>6 DEF ReadBody, Allowed
<1>7. CASE Serve \/ TakeSlot \/ OpenFiles BY <1>1, <1>2, <1>7 DEF Serve, TakeSlot, OpenFiles, Allowed
<1>8. CASE StartStream \/ ReadChunk \/ Written \/ StreamDone \/ StreamFails \/ StopStream \/ ReleaseFiles \/ Answer
  BY <1>1, <1>8 DEF StartStream, ReadChunk, Written, StreamDone, StreamFails, StopStream, ReleaseFiles, Answer, Allowed
<1>9. ASSUME NEW q \in Ask, ReadHead(q) PROVE RightsOK' BY <1>1, <1>9 DEF ReadHead, Allowed
<1>10. CASE Judge
  <2>1. CASE at' = "answering" BY <1>1, <2>1 DEF Allowed
  <2>2. CASE at' # "answering"
    <3>1. ask \in AskType /\ at = "judging" /\ UNCHANGED <<ask.kind, ask.token, ask.zone, ask.to>>
      BY <1>10, JudgeTyped DEF Judge
    <3>2. /\ \A n \in Needed(ask) : n[2] \in Access(principal, n[1], snapshot, rules)
          /\ UNCHANGED <<lately, registry>>
      BY <1>10, <2>2 DEF Judge
    <3>3. /\ snapshot \in lately.maps /\ rules \in lately.rules /\ lately.valid /\ registry[ask.token] # None
          /\ principal.grants \subseteq registry[ask.token].grants /\ PathFree(rules)
      BY <3>1 DEF ControlOK, CachesOK, Known, Point
    <3>4. snapshot \in Snapshot /\ rules \in SUBSET Scope /\ principal.grants \subseteq Grant
      <4>1. ask.token \in Token /\ lately \in Lately BY <3>1 DEF ControlOK, Known, Point, TypeOK, AskType
      <4>2. registry[ask.token].grants \subseteq Grant BY <3>3, <4>1 DEF TypeOK, Row
      <4> QED BY <3>3, <4>1, <4>2, RegistryAssumption DEF Lately
    <3>5. ASSUME NEW zone \in Zone, NEW g \in For(principal, zone, snapshot, rules)
          PROVE  g \in registry[ask.token].grants /\ Entitles(g, zone, snapshot, rules)
      BY <3>3, <3>4, ForEntitles
    <3>6. \A n \in Needed(ask) : n[1] \in Zone BY <3>1, NeededZones
    <3>7. \A n \in Needed(ask) : \E g \in registry[ask.token].grants : Entitles(g, n[1], snapshot, rules) /\ n[2] \in g.may
      BY <3>2, <3>5, <3>6 DEF Access
    <3>8. ask'.replace => \E g \in registry[ask.token].grants : Entitles(g, ask.to, snapshot, rules) /\ g.replace
      <4>1. ask.to \in Zone BY <3>1 DEF AskType
      <4> QED BY <1>10, <3>5, <4>1, JudgeTyped DEF MayReplace
    <3>9. Needed(ask') = Needed(ask) BY <3>1 DEF Needed
    <3>10. Judged' BY <3>1, <3>2, <3>3, <3>7, <3>8, <3>9 DEF Judged
    <3> QED BY <3>10 DEF RightsOK
  <2> QED BY <2>1, <2>2
<1>11. CASE Timers \/ UNCHANGED vars
  <2>1. ASSUME NEW n \in Serial, RequestTimer(n) \/ ArchiveTimer(n) PROVE UNCHANGED <<at, client, registryVars>>
    BY <2>1 DEF RequestTimer, ArchiveTimer, Fire, Expire, Rearm, FireArchive, ExpireArchive
  <2>2. UNCHANGED <<at, client, registryVars>> BY <1>11, <2>1 DEF Timers, vars
  <2> QED BY <1>1, <1>2, <2>2 DEF Allowed
<1>12. CASE Tick \/ AdministerNow
  <2>1. \A t \in Token : registry[t] # None => registry'[t] # None /\ registry'[t].grants = registry[t].grants
    BY <1>12, AdministerTyped, TimeTyped, RegistryAssumption DEF Tick, AdministerNow, TypeOK
  <2>2. UNCHANGED <<at, ask>> BY <1>12 DEF Tick, AdministerNow
  <2>3. \/ lately' = lately
        \/ /\ lately.maps \subseteq lately'.maps /\ lately.rules \subseteq lately'.rules
           /\ lately.valid => lately'.valid
    <3>1. CASE Tick BY <3>1 DEF Tick
    <3>2. CASE AdministerNow BY <3>2 DEF AdministerNow
    <3> QED BY <1>12, <3>1, <3>2
  <2>4. CASE Allowed
    <3>1. ask.token \in Token BY <2>4 DEF Allowed, ControlOK, Known, Point, AskType
    <3>2. Judged BY <2>4 DEF RightsOK
    <3>3. registry'[ask.token] # None /\ registry'[ask.token].grants = registry[ask.token].grants
      BY <2>1, <3>1, <3>2 DEF Judged
    <3>4. lately'.valid /\ lately.maps \subseteq lately'.maps /\ lately.rules \subseteq lately'.rules
      BY <2>3, <3>2 DEF Judged
    <3>5. Judged'
      <4>1. PICK m \in lately.maps, s \in lately.rules :
              /\ \A n \in Needed(ask) : \E g \in registry[ask.token].grants : Entitles(g, n[1], m, s) /\ n[2] \in g.may
              /\ ask.replace => \E g \in registry[ask.token].grants : Entitles(g, ask.to, m, s) /\ g.replace
        BY <3>2 DEF Judged
      <4>2. m \in lately'.maps /\ s \in lately'.rules BY <3>4
      <4> QED BY <2>2, <3>3, <3>4, <4>1, <4>2 DEF Judged
    <3> QED BY <3>5 DEF RightsOK
  <2> QED BY <1>1, <2>2, <2>4 DEF Allowed
<1> QED BY <1>3, <1>4, <1>5, <1>6, <1>7, <1>8, <1>9, <1>10, <1>11, <1>12 DEF Next, Works, Client

-----------------------------------------------------------------------------
(* What holds of every behaviour *)

LEMMA InitInv == Init => Inv
<1> SUFFICES ASSUME Init PROVE Inv OBVIOUS
<1>1. TypeOK
  <2>1. registry \in [Token -> Row \union {None}]
    <3>1. [secret : {1}, grants : Grants, left : Duration, revoked : {FALSE}] \subseteq Row
      <4>1. Grants \subseteq SUBSET Grant /\ Duration \subseteq Nat \union {Forever} BY RegistryAssumption
      <4>2. ASSUME NEW row \in [secret : {1}, grants : Grants, left : Duration, revoked : {FALSE}]
            PROVE  row \in [secret : Nat, grants : SUBSET Grant, left : Nat \union {Forever}, revoked : BOOLEAN]
        <5>1. PICK gs \in Grants, d \in Duration : row = [secret |-> 1, grants |-> gs, left |-> d, revoked |-> FALSE]
          BY <4>2
        <5>2. gs \in SUBSET Grant /\ d \in Nat \union {Forever} BY <4>1
        <5> QED BY <5>1, <5>2
      <4> QED BY <4>2 DEF Row
    <3> QED BY <3>1 DEF Init, InitRegistry
  <2>2. Off \in Alarm BY TimeAssumption DEF Off, Alarm
  <2>3. 0 \in 0..Timeout /\ 0 \in 0..MaxChunks /\ 0 \in 0..MaxRequests /\ 0 \in 0..MaxChanges
        /\ MaxArchives \in 0..MaxArchives
    BY TimeAssumption, RegistryAssumption
  <2> QED BY <2>1, <2>2, <2>3 DEF Init, InitRegistry, TypeOK, Point
<1>2. ControlOK BY DEF Init, ControlOK, Known, Unknown
<1>3. SlotsKept BY TimeAssumption DEF Init, SlotsKept, Holding
<1>4. AlarmsOK BY DEF Init, AlarmsOK
<1>5. CachesOK BY DEF Init, InitRegistry, CachesOK, PathFree, Known
<1>6. RightsOK BY DEF Init, RightsOK, Allowed
<1> QED BY <1>1, <1>2, <1>3, <1>4, <1>5, <1>6 DEF Inv

(* Every step keeps the invariant.                                          *)
LEMMA NextInv == Inv /\ [Next]_vars => Inv'
BY StepTyped, StepControl, StepSlots, StepAlarms, StepCaches, StepRights DEF Inv

(* The invariant of the request lifecycle.                                  *)
LEMMA InvHolds == Spec => []Inv
BY InitInv, NextInv, PTL DEF Spec

(* The variables of a handler, of its timers and of the registry have the   *)
(* types the model gives them, whatever requests, chunks and changes come.  *)
THEOREM RequestsTyped == Spec => []TypeOK
<1>1. Inv => TypeOK BY DEF Inv
<1> QED BY <1>1, InvHolds, PTL

(* The slot of an archive is given back once, however its request ends.     *)
THEOREM SlotsGivenBack == Spec => []SlotsKept
<1>1. Inv => SlotsKept BY DEF Inv
<1> QED BY <1>1, InvHolds, PTL

(* No request is served with rights its own time has not given it.          *)
THEOREM RightsOfTheRequest == Spec => []RightsCurrent
<1>1. Inv => RightsCurrent BY DEF Inv, RightsOK, Allowed, Judged, RightsCurrent
<1> QED BY <1>1, InvHolds, PTL

(* A timer that fires late cuts no later request of its connection, and     *)
(* none cuts a request or a stream that still has time.                     *)
THEOREM TimersCutInTime == Spec => CutJust
<1>1. Inv /\ [Next]_vars =>
        [shut' /\ ~shut =>
           /\ owner # 0
           /\ \/ elapsed >= Timeout /\ (streaming => idle >= Timeout)
              \/ deadline = 0]_vars
  <2> SUFFICES ASSUME Inv, Next, shut', ~shut
               PROVE  /\ owner # 0
                      /\ \/ elapsed >= Timeout /\ (streaming => idle >= Timeout)
                         \/ deadline = 0
    OBVIOUS
  <2>1. PICK n \in Serial : Expire(n) \/ ExpireArchive(n)
    BY DEF Next, Works, Client, Timers, RequestTimer, ArchiveTimer, socket, stream, caches, client, alarms, rest,
           Connect, Start, Arm, Lost, Leave, Finish, Unavailable, ReadRow, ReadGrants, ReadSnapshot, ReadRules,
           Judge, ReadBody, Serve, TakeSlot, OpenFiles, StartStream, ReadChunk, Written, StreamDone, StreamFails,
           StopStream, ReleaseFiles, Answer, ReadHead, Fire, Rearm, FireArchive, Tick, AdministerNow
  <2>2. n # 0 /\ n \in Nat BY DEF Serial
  <2>3. CASE Expire(n)
    <3>1. n = owner /\ alarm[n].stage = "fired" /\ ~(streaming /\ idle < Timeout)
      BY <2>3 DEF Expire, Silent, socket
    <3> QED BY <2>2, <3>1, TimeAssumption DEF Inv, AlarmsOK, TypeOK
  <2>4. CASE ExpireArchive(n)
    <3>1. n = owner /\ deadline # None /\ archiveAlarm[n].stage = "fired" BY <2>4 DEF ExpireArchive
    <3> QED BY <2>2, <3>1 DEF Inv, AlarmsOK
  <2> QED BY <2>1, <2>3, <2>4
<1> QED BY <1>1, InvHolds, PTL DEF Spec, CutJust
=============================================================================
