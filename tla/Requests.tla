-------------------------------- MODULE Requests --------------------------------
(***************************************************************************)
(* The life of the requests of a connection (PasteberthHandler in          *)
(* runtime/webapp.py): who asks, with which rights on the zones, the timer *)
(* that bounds each request and moves on while a response makes progress,  *)
(* the deadline of an archive, and the next request of the same connection.*)
(* Meanwhile an administrator changes the registry of tokens, and the      *)
(* service what zones there are.                                           *)
(*                                                                         *)
(* Admission is ConnectionAdmission; what the service does to the items is *)
(* ZoneContents; an administrator's own login is Login.                    *)
(***************************************************************************)
EXTENDS TokenRegistry

CONSTANTS
  Ask,          \* what clients may ask for
  Timeout,      \* http_request_timeout_seconds, in ticks
  ArchiveTime,  \* max_archive_duration_seconds, in ticks
  MaxArchives,  \* the slots of _archive_slots
  MaxChunks,    \* bound: chunks of a preview; an archive is as long as it can be
  MaxRequests   \* bound: requests in one behaviour

VARIABLES
  at,           \* where the handler is
  ask,          \* what the client has asked for
  serial,       \* requests begun so far; their number is the identity of one
  principal,    \* _principal_value: the row of the token
  snapshot,     \* _access_snapshot_value
  rules,        \* _token_suspensions_value
  owner,        \* _request_token
  streaming, idle, elapsed, expired,
  sent,
  deadline,     \* _archive_deadline
  slots,        \* free slots of _archive_slots
  closing,      \* close_connection
  shut,         \* a timer has shut the socket down
  alarm,        \* the timer of each request
  archiveAlarm,
  lately        \* history: what the registry has said since the request came

caches == <<principal, snapshot, rules>>
client == <<ask, serial, owner, lately>>
stream == <<streaming, idle, sent, deadline>>
socket == <<closing, shut, expired>>
alarms == <<alarm, archiveAlarm>>
rest == <<registryVars, client, caches, stream, elapsed, slots, socket, alarms>>
vars == <<at, rest>>

Kind == {"list", "preview", "upload", "transfer", "archive"}
AskType == [kind : Kind, token : Token, secret : Nat, zone : Zone, to : Zone, replace : BOOLEAN]
Serial == 1..MaxRequests
Lately == [valid : BOOLEAN, maps : SUBSET Snapshots, rules : SUBSET (SUBSET Scope)]

ASSUME AskAssumption == Ask \subseteq AskType /\ None \notin Ask \union Lately
ASSUME TimeAssumption == /\ Timeout \in Nat \ {0} /\ ArchiveTime \in Nat \ {0}
                         /\ MaxArchives \in Nat \ {0} /\ MaxChunks \in Nat /\ MaxRequests \in Nat

Off == [stage |-> "off", left |-> 0]
Armed(n) == [stage |-> "armed", left |-> n]

Init ==
  /\ InitRegistry
  /\ at = "closed" /\ ask = None /\ serial = 0
  /\ principal = None /\ snapshot = None /\ rules = None
  /\ owner = 0 /\ streaming = FALSE /\ idle = 0 /\ elapsed = 0 /\ expired = FALSE
  /\ sent = 0 /\ deadline = None /\ slots = MaxArchives
  /\ closing = FALSE /\ shut = FALSE
  /\ alarm = [n \in Serial |-> Off] /\ archiveAlarm = [n \in Serial |-> Off]
  /\ lately = None

Goes(from, to) == at = from /\ at' = to

-----------------------------------------------------------------------------
(* The socket, and the beginning and end of a request. *)

(* A new handler for a new connection. *)
Connect ==
  /\ Goes("closed", "next") /\ serial < MaxRequests
  /\ UNCHANGED rest

(* Mistake: the handler of a connection keeps what it knows of its client. *)
StartKeeping ==
  /\ Goes("next", "arming") /\ serial < MaxRequests /\ ~closing
  /\ serial' = serial + 1 /\ owner' = serial + 1 /\ UNCHANGED caches
  /\ streaming' = FALSE /\ expired' = FALSE /\ idle' = 0 /\ elapsed' = 0
  /\ UNCHANGED <<registryVars, ask, lately, sent, deadline, slots, closing, shut, alarms>>

(* handle_one_request forgets the last request's client and takes a new     *)
(* token of ownership.                                                      *)
Start ==
  /\ Goes("next", "arming") /\ serial < MaxRequests /\ ~closing
  /\ serial' = serial + 1 /\ owner' = serial + 1
  /\ principal' = None /\ snapshot' = None /\ rules' = None
  /\ streaming' = FALSE /\ expired' = FALSE /\ idle' = 0 /\ elapsed' = 0
  /\ UNCHANGED <<registryVars, ask, lately, sent, deadline, slots, closing, shut, alarms>>

Arm ==
  /\ Goes("arming", "reading")
  /\ alarm' = [alarm EXCEPT ![serial] = Armed(Timeout)]
  /\ UNCHANGED <<registryVars, client, caches, stream, elapsed, slots, socket, archiveAlarm>>

Valid(q) ==
  registry[q.token] # None /\ registry[q.token].secret = q.secret /\ Active(registry[q.token])

(* Only a GET leaves the connection open for another request.  What the     *)
(* socket holds can be read although a timer has shut it down.              *)
ReadHead(q) ==
  /\ Goes("reading", "authenticating") /\ ask' = q
  /\ closing' = (q.kind \notin {"list", "preview"})
  /\ lately' = [valid |-> Valid(q), maps |-> {published}, rules |-> {suspended}]
  /\ UNCHANGED <<registryVars, serial, owner, caches, stream, elapsed, slots, shut, expired, alarms>>

(* The client is gone, a socket timeout has passed, or a timer has shut the *)
(* socket down.                                                             *)
Lost ==
  /\ at \in {"reading", "body", "answering"} /\ at' = "ending" /\ closing' = TRUE
  /\ UNCHANGED <<registryVars, client, caches, stream, elapsed, slots, shut, expired, alarms>>

(* The handler of a connection ends with it. *)
Leave ==
  /\ Goes("next", "closed")
  /\ closing' = FALSE /\ shut' = FALSE /\ expired' = FALSE
  /\ principal' = None /\ snapshot' = None /\ rules' = None
  /\ idle' = 0 /\ elapsed' = 0
  /\ UNCHANGED <<registryVars, client, streaming, sent, deadline, slots, alarms>>

(* The `finally` of handle_one_request: a timer whose function runs already *)
(* is not cancelled.                                                        *)
Finish ==
  /\ Goes("ending", "next")
  /\ owner' = 0 /\ streaming' = FALSE /\ ask' = None /\ lately' = None
  /\ alarm' = [alarm EXCEPT ![serial] = IF @.stage = "armed" THEN Off ELSE @]
  /\ UNCHANGED <<registryVars, serial, caches, idle, elapsed, sent, deadline, slots, socket, archiveAlarm>>

-----------------------------------------------------------------------------
(* Who asks, and with which rights. *)

(* The registry cannot be read: 503. *)
Unavailable ==
  /\ at \in {"authenticating", "granting", "ruling"} /\ at' = "answering"
  /\ UNCHANGED rest

(* authenticate() reads the row of the token, and with another statement    *)
(* its grants.  A refused client is answered at once.                       *)
ReadRow ==
  /\ at = "authenticating"
  /\ LET row == registry[ask.token]
         valid == Valid(ask)
     IN CASE principal = None /\ ~valid -> at' = "answering" /\ UNCHANGED principal
          [] principal = None /\ valid -> at' = "granting" /\ principal' = [row EXCEPT !.grants = {}]
          [] principal # None ->
               at' = (IF ask.kind = "transfer" THEN "body" ELSE "mapping") /\ UNCHANGED principal
  /\ UNCHANGED <<registryVars, client, snapshot, rules, stream, elapsed, slots, socket, alarms>>

ReadGrants ==
  /\ Goes("granting", IF ask.kind = "transfer" THEN "body" ELSE "mapping")
  /\ principal' = [principal EXCEPT !.grants = registry[ask.token].grants]
  /\ UNCHANGED <<registryVars, client, snapshot, rules, stream, elapsed, slots, socket, alarms>>

ReadSnapshot ==
  /\ Goes("mapping", "ruling")
  /\ snapshot' = (IF snapshot = None THEN published ELSE snapshot)
  /\ UNCHANGED <<registryVars, client, principal, rules, stream, elapsed, slots, socket, alarms>>

ReadRules ==
  /\ Goes("ruling", "judging")
  /\ rules' = (IF rules = None THEN suspended ELSE rules)
  /\ UNCHANGED <<registryVars, client, principal, snapshot, stream, elapsed, slots, socket, alarms>>

(* A move of one's own needs to read and write its source (here always      *)
(* both), and to write its target.                                          *)
Needed(q) ==
  CASE q.kind = "list" -> {<<q.zone, "list">>}
    [] q.kind \in {"preview", "archive"} -> {<<q.zone, "read">>}
    [] q.kind = "upload" -> {<<q.zone, "write">>}
    [] q.kind = "transfer" -> {<<q.zone, "read">>, <<q.zone, "write">>, <<q.to, "write">>}

(* Mistake: the rights are those of the grants, whatever is suspended. *)
JudgeGrants ==
  /\ at = "judging"
  /\ LET may == \A n \in Needed(ask) : n[2] \in Access(principal, n[1], snapshot, {})
     IN at' = (CASE ~may -> "answering"
                 [] may /\ ask.kind \in {"upload", "archive"} -> "body"
                 [] may /\ ask.kind \notin {"upload", "archive"} -> "working")
  /\ UNCHANGED rest

(* Unknown or suspended zones (404) and missing rights (403) end the        *)
(* request; an upload without the right to replace goes on without.         *)
Judge ==
  /\ at = "judging"
  /\ LET may == /\ \A n \in Needed(ask) : n[2] \in Access(principal, n[1], snapshot, rules)
                /\ ask.kind = "transfer" /\ ask.replace => MayReplace(principal, ask.to, snapshot, rules)
     IN at' = (CASE ~may -> "answering"
                 [] may /\ ask.kind \in {"upload", "archive"} -> "body"
                 [] may /\ ask.kind \notin {"upload", "archive"} -> "working")
  /\ ask' = [ask EXCEPT !.replace = @ /\ MayReplace(principal, ask.to, snapshot, rules)]
  /\ UNCHANGED <<registryVars, serial, owner, lately, caches, stream, elapsed, slots, socket, alarms>>

(* A body may also be refused. *)
ReadBody ==
  /\ at = "body" /\ at' \in {"answering", IF ask.kind = "transfer" THEN "mapping" ELSE "working"}
  /\ UNCHANGED rest

-----------------------------------------------------------------------------
(* The work, and the answer. *)

Serve ==
  /\ at = "working" /\ ask.kind # "archive"
  /\ at' \in {"answering"} \union (IF ask.kind = "preview" THEN {"starting"} ELSE {})
  /\ UNCHANGED rest

TakeSlot ==
  /\ at = "working" /\ ask.kind = "archive"
  /\ \/ at' = "answering" /\ UNCHANGED slots  \* all slots are taken, by other connections too
     \/ at' = "opening" /\ slots' = slots - 1 /\ slots > 0
  /\ UNCHANGED <<registryVars, client, caches, stream, elapsed, socket, alarms>>

(* Mistake: the slot of an archive is not given back when its stream ends   *)
(* before it starts.                                                        *)
OpenFilesLosing ==
  /\ at = "opening" /\ at' \in {"starting", "answering"}
  /\ UNCHANGED rest

(* archive_files opens the files, or gives the slot back. *)
OpenFiles ==
  /\ at = "opening"
  /\ \/ at' = "starting" /\ UNCHANGED slots
     \/ at' = "answering" /\ slots' = slots + 1
  /\ UNCHANGED <<registryVars, client, caches, stream, elapsed, socket, alarms>>

(* _check_download_active, which the socket's own end is part of. *)
StillActive ==
  /\ ~expired /\ (~streaming => elapsed < Timeout)
  /\ deadline # 0

StartStream ==
  /\ at = "starting"
  /\ \/ /\ StillActive /\ at' = "streaming"
        /\ streaming' = TRUE /\ idle' = 0 /\ sent' = 0
        /\ IF ask.kind = "archive"
             THEN deadline' = ArchiveTime /\ archiveAlarm' = [archiveAlarm EXCEPT ![serial] = Armed(ArchiveTime)]
             ELSE UNCHANGED <<deadline, archiveAlarm>>
        /\ UNCHANGED closing
     \/ /\ ~StillActive /\ at' = "releasing" /\ closing' = TRUE
        /\ UNCHANGED <<streaming, idle, sent, deadline, archiveAlarm>>
  /\ UNCHANGED <<registryVars, client, caches, elapsed, slots, shut, expired, alarm>>

(* A chunk is read and offered to the client. *)
ReadChunk ==
  /\ Goes("streaming", "writing") /\ StillActive
  /\ ask.kind = "preview" => sent < MaxChunks
  /\ sent' = IF ask.kind = "preview" THEN sent + 1 ELSE sent
  /\ UNCHANGED <<registryVars, client, caches, streaming, idle, deadline, elapsed, slots, socket, alarms>>

(* The client takes the chunk: the stream has made progress. *)
Written ==
  /\ Goes("writing", "streaming") /\ ~shut /\ idle' = 0
  /\ UNCHANGED <<registryVars, client, caches, streaming, sent, deadline, elapsed, slots, socket, alarms>>

StreamDone ==
  /\ Goes("streaming", "unstreaming") /\ (ask.kind = "preview" => sent = MaxChunks)
  /\ UNCHANGED rest

(* A failing read, a lost client, a socket that a timer has shut down, or a *)
(* deadline that is over.                                                   *)
StreamFails ==
  /\ at \in {"streaming", "writing"} /\ at' = "unstreaming" /\ closing' = TRUE
  /\ UNCHANGED <<registryVars, client, caches, stream, elapsed, slots, shut, expired, alarms>>

StopStream ==
  /\ Goes("unstreaming", "releasing") /\ streaming' = FALSE /\ deadline' = None
  /\ archiveAlarm' = [archiveAlarm EXCEPT ![serial] = IF @.stage = "armed" THEN Off ELSE @]
  /\ UNCHANGED <<registryVars, client, caches, idle, sent, elapsed, slots, socket, alarm>>

(* Mistake: the end of any stream gives a slot back. *)
ReleaseFilesAlways ==
  /\ Goes("releasing", "ending") /\ slots' = slots + 1
  /\ UNCHANGED <<registryVars, client, caches, stream, elapsed, socket, alarms>>

(* The files and the slot of an archive; a preview has its file only. *)
ReleaseFiles ==
  /\ Goes("releasing", "ending")
  /\ slots' = IF ask.kind = "archive" THEN slots + 1 ELSE slots
  /\ UNCHANGED <<registryVars, client, caches, stream, elapsed, socket, alarms>>

Answer ==
  /\ Goes("answering", "ending") /\ ~shut
  /\ UNCHANGED rest

-----------------------------------------------------------------------------
(* Timers.  One that is due starts its function, some time later, in a      *)
(* thread of its own.                                                       *)

Due(a) == a = Armed(0)

Fire(n) ==
  /\ Due(alarm[n]) /\ alarm' = [alarm EXCEPT ![n].stage = "fired"]
  /\ UNCHANGED <<registryVars, at, client, caches, stream, elapsed, slots, socket, archiveAlarm>>

FireArchive(n) ==
  /\ Due(archiveAlarm[n]) /\ archiveAlarm' = [archiveAlarm EXCEPT ![n].stage = "fired"]
  /\ UNCHANGED <<registryVars, at, client, caches, stream, elapsed, slots, socket, alarm>>

Silent(n) ==
  alarm' = [alarm EXCEPT ![n] = Off] /\ UNCHANGED socket

Shut(n) ==
  /\ alarm' = [alarm EXCEPT ![n] = Off]
  /\ closing' = TRUE /\ shut' = TRUE /\ expired' = TRUE

(* Mistake: a timer that was not cancelled in time is trusted. *)
ExpireAny(n) ==
  /\ alarm[n].stage = "fired" /\ Shut(n)
  /\ UNCHANGED <<registryVars, at, client, caches, stream, elapsed, slots, archiveAlarm>>

(* Mistake: a timer that finds a stream lets it go, once and for all. *)
ExpireOnce(n) ==
  /\ alarm[n].stage = "fired"
  /\ IF n # owner \/ streaming THEN Silent(n) ELSE Shut(n)
  /\ UNCHANGED <<registryVars, at, client, caches, stream, elapsed, slots, archiveAlarm>>

(* _expire_request, under the lock: not its request any more; a stream has  *)
(* Timeout from its last progress; otherwise the time is over.              *)
Expire(n) ==
  /\ alarm[n].stage = "fired"
  /\ CASE n # owner -> Silent(n)
       [] n = owner /\ streaming /\ idle < Timeout ->
            alarm' = [alarm EXCEPT ![n] = [stage |-> "rearming", left |-> Timeout - idle]] /\ UNCHANGED socket
       [] OTHER -> Shut(n)
  /\ UNCHANGED <<registryVars, at, client, caches, stream, elapsed, slots, archiveAlarm>>

(* The lock was free in between, so the request may be over. *)
Rearm(n) ==
  /\ alarm[n].stage = "rearming"
  /\ alarm' = [alarm EXCEPT ![n] = IF n = owner THEN Armed(@.left) ELSE Off]
  /\ UNCHANGED <<registryVars, at, client, caches, stream, elapsed, slots, socket, archiveAlarm>>

ExpireArchive(n) ==
  /\ archiveAlarm[n].stage = "fired" /\ archiveAlarm' = [archiveAlarm EXCEPT ![n] = Off]
  /\ IF n = owner /\ deadline # None
       THEN deadline' = 0 /\ closing' = TRUE /\ shut' = TRUE
       ELSE UNCHANGED <<deadline, closing, shut>>
  /\ UNCHANGED <<registryVars, at, client, caches, streaming, idle, sent, elapsed, slots, expired, alarm>>

(* Time: a thread asleep in read, write or anywhere else. *)
Later(a) == IF a.stage = "armed" THEN [a EXCEPT !.left = Less(@)] ELSE a
More(t) == IF t < Timeout THEN t + 1 ELSE t

Tick ==
  /\ alarm' = [n \in Serial |-> Later(alarm[n])] /\ archiveAlarm' = [n \in Serial |-> Later(archiveAlarm[n])]
  /\ idle' = More(idle) /\ elapsed' = More(elapsed)
  /\ deadline' = IF deadline = None THEN None ELSE Less(deadline)
  /\ registry' = [t \in Token |-> Aged(registry[t])]
  /\ principal' = Aged(principal)
  /\ UNCHANGED <<suspended, published, changes, at, client, snapshot, rules, streaming, sent, slots, socket>>

AdministerNow ==
  /\ Administer
  /\ UNCHANGED <<at, ask, serial, owner, caches, stream, elapsed, slots, socket, alarms>>
  /\ lately' = (IF lately = None THEN None
                ELSE [valid |-> lately.valid \/ Valid(ask)', maps |-> lately.maps \union {published'},
                      rules |-> lately.rules \union {suspended'}])

-----------------------------------------------------------------------------
(* The handler's own steps, and those a client may delay for ever. *)
Works ==
  \/ Start \/ Arm \/ Finish
  \/ ReadRow \/ ReadGrants \/ ReadSnapshot \/ ReadRules \/ Unavailable \/ Judge
  \/ Serve \/ TakeSlot \/ OpenFiles
  \/ StartStream \/ ReadChunk \/ StreamDone \/ StopStream \/ ReleaseFiles

Client ==
  \/ Connect \/ Leave \/ (\E q \in Ask : ReadHead(q)) \/ ReadBody \/ Answer \/ Written

RequestTimer(n) == Fire(n) \/ Expire(n) \/ Rearm(n)
ArchiveTimer(n) == FireArchive(n) \/ ExpireArchive(n)
Timers == \E n \in Serial : RequestTimer(n) \/ ArchiveTimer(n)

Next == Works \/ Lost \/ StreamFails \/ Client \/ Timers \/ Tick \/ AdministerNow

Spec == Init /\ [][Next]_vars

(* The handler runs unless it waits for its client, whom it does not trust: *)
(* only a socket that a timer has shut down fails for certain.  Time goes   *)
(* by, and timers run once they are due.                                    *)
LiveSpec ==
  /\ Spec /\ WF_vars(Works \/ (at = "streaming" /\ StreamFails)) /\ WF_vars(shut /\ (Lost \/ StreamFails))
  /\ WF_vars(Tick)
  /\ \A n \in Serial : WF_vars(RequestTimer(n)) /\ WF_vars(ArchiveTimer(n))

-----------------------------------------------------------------------------
Point == {"closed", "next", "arming", "reading", "authenticating", "granting", "mapping", "ruling",
          "judging", "body", "working", "answering", "opening", "starting", "streaming", "writing",
          "unstreaming", "releasing", "ending"}
Holding == {"opening", "starting", "streaming", "writing", "unstreaming", "releasing"}
Alarm == [stage : {"off", "armed", "fired", "rearming"}, left : 0..(Timeout + ArchiveTime)]

TypeOK ==
  /\ registry \in [Token -> Row \union {None}] /\ suspended \subseteq Scope
  /\ published \in Snapshots /\ changes \in 0..MaxChanges
  /\ at \in Point /\ ask \in AskType \union {None}
  /\ lately \in Lately \union {None} /\ serial \in 0..MaxRequests /\ owner \in {0, serial}
  /\ principal \in Row \union {None} /\ snapshot \in Snapshots \union {None}
  /\ (rules = None \/ rules \subseteq Scope)
  /\ streaming \in BOOLEAN /\ closing \in BOOLEAN /\ shut \in BOOLEAN /\ expired \in BOOLEAN
  /\ idle \in 0..Timeout /\ elapsed \in 0..Timeout /\ sent \in 0..MaxChunks
  /\ deadline \in {None} \union 0..ArchiveTime /\ slots \in 0..MaxArchives
  /\ alarm \in [Serial -> Alarm] /\ archiveAlarm \in [Serial -> Alarm]

(* service.py (archive_files): every slot of the archives is free or held,  *)
(* once, by an archive that has not ended, whatever ends it.                *)
SlotsKept ==
  slots + (IF at \in Holding /\ ask.kind = "archive" THEN 1 ELSE 0) = MaxArchives

(* What a scope names, as the documents say it: a suspended scope takes     *)
(* what a granted one gives.                                                *)
Names(scope, zone, m) ==
  \/ scope = Global
  \/ scope = <<"zone", zone>>
  \/ \E g \in Group : scope = <<"group", g>> /\ zone \in m.members[g]
  \/ scope = <<"path", m.path[zone]>> /\ \A z \in Zone \ {zone} : m.path[z] # m.path[zone]
Entitles(grant, zone, m, s) ==
  /\ m.path[zone] # None /\ Names(grant.scope, zone, m)
  /\ \A scope \in s : ~Names(scope, zone, m)

(* A request is served only with a token that was valid, and with rights    *)
(* that the zones and suspensions of some instant gave it, all of them      *)
(* after its head came: what an earlier request of the connection was       *)
(* allowed, or what was revoked, rotated, suspended or removed before it,   *)
(* counts for nothing (webapp.py, _principal() and _zone_permissions()).    *)
RightsCurrent ==
  at \in {"working", "opening", "starting"} =>
    /\ lately.valid
    /\ \E m \in lately.maps, s \in lately.rules :
         /\ \A n \in Needed(ask) : \E g \in registry[ask.token].grants : Entitles(g, n[1], m, s) /\ n[2] \in g.may
         /\ ask.replace => \E g \in registry[ask.token].grants : Entitles(g, ask.to, m, s) /\ g.replace

(* A timer shuts the connection down only during the request it was started *)
(* for, when that has lasted Timeout, or its stream has made no progress    *)
(* for so long, or the time of its archive is over.                         *)
CutJust ==
  [][shut' /\ ~shut =>
       /\ owner # 0
       /\ \/ elapsed >= Timeout /\ (streaming => idle >= Timeout)
          \/ deadline = 0]_vars

(* Every request ends, whatever its client does or leaves undone, and       *)
(* however large its archive.                                               *)
RequestsEnd == (owner # 0) ~> (owner = 0)
=============================================================================
