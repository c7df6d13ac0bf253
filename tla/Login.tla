--------------------------------- MODULE Login ---------------------------------
(***************************************************************************)
(* Password logins: LoginRateLimiter and SessionStore (runtime/auth.py) as *)
(* the login and request handlers of runtime/webapp.py use them, while the *)
(* operator replaces the password file.                                    *)
(*                                                                         *)
(* Each login runs in the thread of its request.  The limiter and the      *)
(* sessions have a lock each; what a handler does between two locked parts *)
(* (reading the clock or the file, the slow comparison, giving a slot of   *)
(* the semaphore back) is a step of its own.                               *)
(***************************************************************************)
EXTENDS Integers, FiniteSets, FiniteSetsExt

CONSTANTS
  None,
  Attempt,      \* login requests; also the token of the session each opens
  Client,       \* client addresses
  MaxChecks,    \* max_concurrent_checks
  MaxTracked,   \* max_tracked_ips
  Threshold, BaseDelay, MaxDelay, ForgetAfter,
  MaxSessions, Ttl,
  MaxTime,      \* bound: clock
  MaxVersion    \* bound: versions of the password file

VARIABLES
  now,       \* time.monotonic()
  version,   \* path_version of the password file
  entry,     \* limiter: state of each tracked client, None if untracked
  slots,     \* limiter: free slots of _expensive_slots
  at,        \* program point of each login
  peer,      \* client of each login
  seen,      \* the time a login reads before it takes the limiter's lock, then 0
  read,      \* version of the hash a login compares with
  sessions,  \* the session store: a dict from tokens, in the order of insertion (turn)
  probe,     \* a session validation that has read the file's version
  barred,    \* history: end of the delay the last failure of a client set
  revoked    \* history: sessions that were logged out

limiter == <<entry, slots>>
logins == <<at, peer, seen, read>>
history == <<barred, revoked>>
vars == <<now, version, entry, slots, at, peer, seen, read, sessions, probe, barred, revoked>>

(* [consecutive failures, locked until, last event, checks in progress]     *)
Entry == [fails : Nat, until : Int, last : Nat, checks : Nat]

ASSUME SetsAssumption == IsFiniteSet(Attempt) /\ None \notin Entry
ASSUME LimitsAssumption ==
  /\ {MaxChecks, MaxTracked, Threshold, BaseDelay, MaxDelay, ForgetAfter, MaxSessions, Ttl}
        \subseteq Nat \ {0}
  /\ MaxTime \in Nat /\ MaxVersion \in Nat

Init ==
  /\ now = 0 /\ version = 0
  /\ entry = [c \in Client |-> None] /\ slots = MaxChecks
  /\ at = [a \in Attempt |-> "new"] /\ peer \in [Attempt -> Client]
  /\ seen = [a \in Attempt |-> 0] /\ read = [a \in Attempt |-> 0]
  /\ sessions = {} /\ probe = None
  /\ barred = [c \in Client |-> 0] /\ revoked = {}

Goes(a, point) == at' = [at EXCEPT ![a] = point]

-----------------------------------------------------------------------------
(* LoginRateLimiter *)

Delay(fails) ==
  IF fails < Threshold THEN 0
  ELSE LET d == BaseDelay * 2^(fails - Threshold) IN IF d < MaxDelay THEN d ELSE MaxDelay

(* Mistake: a client that is locked out is forgotten like any other. *)
PruneLocked(table, t) ==
  [c \in Client |-> IF /\ table[c] # None /\ table[c].checks = 0
                       /\ t - table[c].last > ForgetAfter
                      THEN None ELSE table[c]]

Prune(table, t) ==
  [c \in Client |-> IF /\ table[c] # None /\ table[c].checks = 0 /\ table[c].until < t
                       /\ t - table[c].last > ForgetAfter
                      THEN None ELSE table[c]]

Tracked(table) == {c \in Client : table[c] # None}

Idle(table, t) == {c \in Tracked(table) : table[c].checks = 0 /\ table[c].until <= t}

(* The tables in which client c may be recorded: the idle client that was   *)
(* heard of longest ago makes room.                                         *)
Rooms(table, c, t) ==
  IF table[c] # None \/ Cardinality(Tracked(table)) < MaxTracked THEN {table}
  ELSE {[table EXCEPT ![v] = None] :
          v \in {i \in Idle(table, t) : \A j \in Idle(table, t) : table[i].last <= table[j].last}}

(* The clock is read before the lock is taken. *)
Arrive(a) ==
  /\ at[a] = "new" /\ Goes(a, "arrived") /\ seen' = [seen EXCEPT ![a] = now]
  /\ UNCHANGED <<now, version, limiter, peer, read, sessions, probe, history>>

Refused(table, c, t) ==
  \/ table[c] # None /\ (table[c].until > t \/ table[c].checks > 0)
  \/ slots = 0
  \/ Rooms(table, c, t) = {}

(* One comparison more for a client, which may be unknown so far. *)
Begun(e, t) ==
  IF e = None THEN [fails |-> 0, until |-> 0, last |-> t, checks |-> 1]
  ELSE [fails |-> e.fails, until |-> e.until, last |-> t, checks |-> e.checks + 1]

Acquire(a) ==
  LET c == peer[a]  t == seen[a]  kept == Prune(entry, t) IN
  /\ at[a] = "arrived"
  /\ \/ /\ Refused(kept, c, t)
        /\ entry' = kept /\ Goes(a, "done") /\ UNCHANGED slots
     \/ /\ ~Refused(kept, c, t)
        /\ \E table \in Rooms(kept, c, t) :
             entry' = [table EXCEPT ![c] = Begun(kept[c], t)]
        /\ slots' = slots - 1 /\ Goes(a, "admitted")
  /\ seen' = [seen EXCEPT ![a] = 0]
  /\ UNCHANGED <<now, version, peer, read, sessions, probe, history>>

(* A client without failures or checks is not remembered. *)
Settle(e) == IF e.checks = 0 /\ e.fails = 0 /\ e.until <= e.last THEN None ELSE e

(* complete() and release() leave a client without a check as it is, and    *)
(* its slot taken.                                                          *)
InCheck(c) == entry[c] # None /\ entry[c].checks > 0
Credit(c, e) == entry' = IF InCheck(c) THEN [entry EXCEPT ![c] = Settle(e)] ELSE entry

Complete(a, success) ==
  LET c == peer[a]
      fails == IF success THEN 0 ELSE entry[c].fails + 1
      until == IF Delay(fails) = 0 THEN 0 ELSE now + Delay(fails)
  IN
  /\ at[a] = "checking"
  /\ Credit(c, [fails |-> fails, until |-> until, last |-> now, checks |-> entry[c].checks - 1])
  /\ barred' = IF InCheck(c) THEN [barred EXCEPT ![c] = until] ELSE barred
  /\ Goes(a, IF InCheck(c) THEN (IF success THEN "passed" ELSE "failed")
             ELSE IF success THEN "opening" ELSE "done")
  /\ UNCHANGED <<now, version, slots, peer, seen, read, sessions, probe, revoked>>

(* Mistake: giving up after an exception counts as never having asked. *)
AbandonForgetting(a) ==
  /\ at[a] \in {"admitted", "checking"}
  /\ entry' = [entry EXCEPT ![peer[a]] = None] /\ Goes(a, "done")
  /\ UNCHANGED <<now, version, slots, peer, seen, read, sessions, probe, history>>

(* The password file cannot be read, or the comparison raises. *)
Abandon(a) ==
  LET c == peer[a] IN
  /\ at[a] \in {"admitted", "checking"}
  /\ Credit(c, [fails |-> entry[c].fails, until |-> entry[c].until, last |-> now,
                checks |-> entry[c].checks - 1])
  /\ Goes(a, IF InCheck(c) THEN "failed" ELSE "done")
  /\ UNCHANGED <<now, version, slots, peer, seen, read, sessions, probe, history>>

(* The slot is given back outside of the lock. *)
ReturnSlot(a) ==
  /\ at[a] \in {"passed", "failed"}
  /\ slots' = slots + 1 /\ Goes(a, IF at[a] = "passed" THEN "opening" ELSE "done")
  /\ UNCHANGED <<now, version, entry, peer, seen, read, sessions, probe, history>>

(* The hash is read from the file on every attempt. *)
ReadHash(a) ==
  /\ at[a] = "admitted" /\ Goes(a, "checking") /\ read' = [read EXCEPT ![a] = version]
  /\ UNCHANGED <<now, version, limiter, peer, seen, sessions, probe, history>>

-----------------------------------------------------------------------------
(* SessionStore *)

Unexpired(store) == {s \in store : s.expiry >= now}

After(store, s) == {other \in store : other.turn > s.turn}

(* Mistake: the newest sessions make room. *)
TrimNewest(store) ==
  {s \in store : Cardinality({other \in store : other.turn < s.turn}) < MaxSessions - 1}

(* Mistake: no room is made for the new session itself. *)
TrimLate(store) == {s \in store : Cardinality(After(store, s)) < MaxSessions}

(* The oldest sessions make room for one more. *)
Trim(store) == {s \in store : Cardinality(After(store, s)) < MaxSessions - 1}

NextTurn(store) == 1 + Max({s.turn : s \in store} \union {0})

OpenSession(a) ==
  LET kept == Trim(Unexpired(sessions)) IN
  /\ at[a] = "opening" /\ Goes(a, "done")
  /\ sessions' = kept \union
       {[token |-> a, turn |-> NextTurn(kept), expiry |-> now + Ttl, epoch |-> version]}
  /\ UNCHANGED <<now, version, limiter, peer, seen, read, probe, history>>

HasSession(token) == \E s \in sessions : s.token = token

(* validate() reads the version of the file before it takes the lock. *)
BeginValidate(token) ==
  /\ probe = None /\ HasSession(token)
  /\ probe' = [token |-> token, epoch |-> version]
  /\ UNCHANGED <<now, version, limiter, logins, sessions, history>>

EndValidate ==
  /\ probe # None /\ probe' = None
  /\ sessions' = {s \in sessions : s.token = probe.token => s.epoch = probe.epoch /\ s.expiry >= now}
  /\ UNCHANGED <<now, version, limiter, logins, history>>

Logout(token) ==
  /\ HasSession(token)
  /\ sessions' = {s \in sessions : s.token # token} /\ revoked' = revoked \union {token}
  /\ UNCHANGED <<now, version, limiter, logins, probe, barred>>

-----------------------------------------------------------------------------
(* The operator replaces the password file; time passes. *)
Rotate ==
  /\ version < MaxVersion /\ version' = version + 1
  /\ UNCHANGED <<now, limiter, logins, sessions, probe, history>>

Tick ==
  /\ now < MaxTime /\ now' = now + 1
  /\ UNCHANGED <<version, limiter, logins, sessions, probe, history>>

LoginStep(a) ==
  \/ Arrive(a) \/ Acquire(a) \/ ReadHash(a) \/ Complete(a, TRUE) \/ Complete(a, FALSE)
  \/ Abandon(a) \/ ReturnSlot(a) \/ OpenSession(a)

Next ==
  \/ \E a \in Attempt : LoginStep(a) \/ BeginValidate(a) \/ Logout(a)
  \/ EndValidate \/ Rotate \/ Tick

Spec == Init /\ [][Next]_vars

-----------------------------------------------------------------------------
Session == [token : Attempt, turn : Nat, expiry : Nat, epoch : Nat]

TypeOK ==
  /\ now \in 0..MaxTime /\ version \in 0..MaxVersion
  /\ entry \in [Client -> Entry \union {None}] /\ slots \in 0..MaxChecks
  /\ at \in [Attempt -> {"new", "arrived", "admitted", "checking", "passed", "failed", "opening", "done"}]
  /\ peer \in [Attempt -> Client] /\ seen \in [Attempt -> 0..MaxTime] /\ read \in [Attempt -> 0..MaxVersion]
  /\ sessions \subseteq Session /\ Cardinality(sessions) <= MaxSessions
  /\ probe = None \/ probe \in [token : Attempt, epoch : Nat]
  /\ barred \in [Client -> Int] /\ revoked \subseteq Attempt

(* Logins whose comparison is under way, and those that hold a slot. *)
Checks(c) == {a \in Attempt : at[a] \in {"admitted", "checking"} /\ peer[a] = c}
Holders == {a \in Attempt : at[a] \in {"admitted", "checking", "passed", "failed"}}

(* Every slot of the semaphore is free or held by one login, and the        *)
(* limiter's table knows of each comparison under way, at most one per      *)
(* client, whatever is forgotten to make room: so complete() and release()  *)
(* always find the entry they account to.                                   *)
ChecksAccounted ==
  /\ slots + Cardinality(Holders) = MaxChecks
  /\ \A c \in Client : Cardinality(Checks(c)) = (IF entry[c] = None THEN 0 ELSE entry[c].checks)
  /\ \A c \in Client : Cardinality(Checks(c)) <= 1

(* No comparison starts for a client before the delay its last failure set  *)
(* is over, even if the table was full or pruned in between.                *)
LockoutHeld ==
  [][\A a \in Attempt : at[a] = "arrived" /\ at'[a] = "admitted" => barred[peer[a]] <= now]_vars

(* A session that is neither logged out, nor expired, nor of a former       *)
(* password leaves the store only when it is full, and no session that      *)
(* stays expires earlier.                                                   *)
SessionsLast ==
  [][\A s \in sessions \ sessions' :
       \/ s.expiry < now \/ s.epoch # version \/ s.token \in revoked'
       \/ /\ Cardinality(sessions) >= MaxSessions
          /\ \A other \in sessions' : s.expiry <= other.expiry]_vars

(* operations.md: each session records the password file's version; after   *)
(* rotation, sessions created against the previous version are rejected.    *)
(* The version is read when the session is made, not with the hash.         *)
SessionPassword == \A s \in sessions : s.epoch = read[s.token]
=============================================================================
