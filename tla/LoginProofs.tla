------------------------------ MODULE LoginProofs ------------------------------
(***************************************************************************)
(* What LoginRateLimiter guarantees, for any number of logins and clients  *)
(* and any of its limits: its semaphore and its table agree with the       *)
(* comparisons under way, and a delay it has set is kept.                  *)
(***************************************************************************)
EXTENDS Login, FiniteSetTheorems, WellFoundedInduction, TLAPS

Busy(a) == at[a] \in {"admitted", "checking"}

(* The types of the limiter's part of the state. *)
LimiterTypes ==
  /\ now \in Nat
  /\ entry \in [Client -> Entry \union {None}] /\ slots \in Nat
  /\ at \in [Attempt -> {"new", "arrived", "admitted", "checking", "passed", "failed", "opening", "done"}]
  /\ peer \in [Attempt -> Client] /\ seen \in [Attempt -> Nat]
  /\ barred \in [Client -> Int]

(* The table records one comparison for a client that has one, and none for *)
(* the others.                                                              *)
TableOK ==
  /\ \A a \in Attempt : Busy(a) => entry[peer[a]] # None /\ entry[peer[a]].checks = 1
  /\ \A a, b \in Attempt : Busy(a) /\ Busy(b) /\ peer[a] = peer[b] => a = b
  /\ \A c \in Client : entry[c] # None =>
       entry[c].checks = 0 \/ \E a \in Attempt : Busy(a) /\ peer[a] = c

(* A delay is over, or the table still knows of it. *)
DelaysOK ==
  /\ \A a \in Attempt : seen[a] <= now
  /\ \A c \in Client : barred[c] <= now \/ (entry[c] # None /\ barred[c] <= entry[c].until)

Inv == LimiterTypes /\ TableOK /\ DelaysOK

-----------------------------------------------------------------------------
(* A delay is a whole number of time units. *)
LEMMA DelayType == ASSUME NEW n \in Nat PROVE Delay(n) \in Int
<1>1. CASE n < Threshold BY <1>1 DEF Delay
<1>2. CASE ~(n < Threshold)
  <2>1. n - Threshold \in Nat BY <1>2, LimitsAssumption
  <2>2. 2^(n - Threshold) \in Int BY <2>1
  <2>3. BaseDelay * 2^(n - Threshold) \in Int BY <2>2, LimitsAssumption
  <2> QED BY <1>2, <2>3, LimitsAssumption DEF Delay
<1> QED BY <1>1, <1>2

(* Pruning and making room only forget clients that are idle and no longer  *)
(* delayed.                                                                 *)
LEMMA RoomKeeps ==
  ASSUME Inv, NEW a \in Attempt, NEW table \in Rooms(Prune(entry, seen[a]), peer[a], seen[a])
  PROVE  /\ table \in [Client -> Entry \union {None}]
         /\ \A c \in Client :
              \/ table[c] = entry[c]
              \/ table[c] = None /\ entry[c] # None /\ entry[c].checks = 0 /\ entry[c].until <= now
         /\ table[peer[a]] = Prune(entry, seen[a])[peer[a]]
<1> USE DEF Inv, LimiterTypes, DelaysOK, Entry
<1> DEFINE kept == Prune(entry, seen[a])
<1>1. kept \in [Client -> Entry \union {None}] BY DEF Prune
<1>2. \A c \in Client :
        \/ kept[c] = entry[c]
        \/ kept[c] = None /\ entry[c] # None /\ entry[c].checks = 0 /\ entry[c].until <= now
  <2> SUFFICES ASSUME NEW c \in Client, entry[c] # None, entry[c].checks = 0, entry[c].until < seen[a]
               PROVE  entry[c].until <= now
    BY DEF Prune
  <2> QED BY LimitsAssumption
<1>3. CASE table = kept BY <1>1, <1>2, <1>3
<1>4. CASE table # kept
  <2> HIDE DEF kept
  <2>1. PICK v \in Idle(kept, seen[a]) : table = [kept EXCEPT ![v] = None]
    BY <1>4 DEF Rooms, kept
  <2>2. kept[peer[a]] = None BY <1>4 DEF Rooms, kept
  <2>3. v \in Client /\ kept[v] # None /\ kept[v].checks = 0 /\ kept[v].until <= seen[a]
    BY <2>1 DEF Idle, Tracked
  <2>4. kept[v] = entry[v] BY <1>2, <2>3
  <2>5. entry[v].until <= now BY <2>3, <2>4
  <2>6. v # peer[a] BY <2>2, <2>3
  <2> QED BY <1>1, <1>2, <2>1, <2>3, <2>4, <2>5, <2>6 DEF kept
<1> QED BY <1>3, <1>4

(* A client whose comparison starts is not delayed, and has no other one.   *)
LEMMA AdmissionAllowed ==
  ASSUME Inv, NEW a \in Attempt, ~Refused(Prune(entry, seen[a]), peer[a], seen[a])
  PROVE  /\ barred[peer[a]] <= now
         /\ Prune(entry, seen[a])[peer[a]] # None => Prune(entry, seen[a])[peer[a]].checks = 0
         /\ slots > 0
         /\ \A b \in Attempt : Busy(b) => peer[b] # peer[a]
<1> USE DEF Inv, LimiterTypes, DelaysOK, TableOK, Entry
<1> DEFINE c == peer[a]  kept == Prune(entry, seen[a])
<1>1. kept[c] = entry[c] \/ (kept[c] = None /\ entry[c].checks = 0 /\ entry[c].until < seen[a])
  BY DEF Prune
<1>2. kept[c] # None => kept[c].until <= seen[a] /\ kept[c].checks = 0
  BY <1>1 DEF Refused
<1>3. entry[c] = None \/ (entry[c].checks = 0 /\ entry[c].until <= now)
  BY <1>1, <1>2
<1>4. slots > 0 BY DEF Refused
<1> QED BY <1>2, <1>3, <1>4

-----------------------------------------------------------------------------
(* The invariant holds at the start. *)
LEMMA InitInv == Init => Inv
BY LimitsAssumption DEF Init, Inv, LimiterTypes, TableOK, DelaysOK, Busy

(* The admission of a login keeps it. *)
LEMMA AcquireInv == ASSUME Inv, NEW a \in Attempt, Acquire(a) PROVE Inv'
<1> USE DEF Inv, LimiterTypes, TableOK, DelaysOK, Entry, Busy, Goes
<1> DEFINE kept == Prune(entry, seen[a])
<1>1. CASE Refused(kept, peer[a], seen[a])
  <2>1. /\ entry' = kept /\ at' = [at EXCEPT ![a] = "done"] /\ seen' = [seen EXCEPT ![a] = 0]
        /\ UNCHANGED <<now, slots, peer, barred>>
    BY <1>1 DEF Acquire, history
  <2>2. kept \in [Client -> Entry \union {None}] BY DEF Prune
  <2>3. \A c \in Client : kept[c] = entry[c] \/ (kept[c] = None /\ entry[c].checks = 0 /\ entry[c].until <= now)
    BY LimitsAssumption DEF Prune
  <2> HIDE DEF kept
  <2>4. LimiterTypes' BY <2>1, <2>2
  <2>5. TableOK'
    <3>1. at[a] = "arrived" BY DEF Acquire
    <3>2. \A b \in Attempt : Busy(b)' <=> Busy(b) BY <2>1, <3>1
    <3>3. \A c \in Client : kept[c] # None => kept[c] = entry[c] BY <2>3
    <3>4. ASSUME NEW b \in Attempt, Busy(b) PROVE kept[peer[b]] = entry[peer[b]]
      BY <2>3, <3>4
    <3> QED BY <2>1, <3>2, <3>3, <3>4
  <2>6. DelaysOK' BY <2>1, <2>2, <2>3
  <2> QED BY <2>4, <2>5, <2>6
<1>2. CASE ~Refused(kept, peer[a], seen[a])
  <2>1. PICK table \in Rooms(kept, peer[a], seen[a]) :
          entry' = [table EXCEPT ![peer[a]] = Begun(kept[peer[a]], seen[a])]
    BY <1>2 DEF Acquire
  <2>2. /\ slots' = slots - 1 /\ at' = [at EXCEPT ![a] = "admitted"] /\ seen' = [seen EXCEPT ![a] = 0]
        /\ UNCHANGED <<now, peer, barred>>
    BY <1>2 DEF Acquire, history
  <2>3. kept \in [Client -> Entry \union {None}] BY DEF Prune
  <2> HIDE DEF kept
  <2>4. /\ table \in [Client -> Entry \union {None}]
        /\ \A c \in Client :
             \/ table[c] = entry[c]
             \/ table[c] = None /\ entry[c] # None /\ entry[c].checks = 0 /\ entry[c].until <= now
    BY <2>1, RoomKeeps DEF kept
  <2>5. /\ barred[peer[a]] <= now /\ (kept[peer[a]] # None => kept[peer[a]].checks = 0) /\ slots > 0
        /\ \A b \in Attempt : Busy(b) => peer[b] # peer[a]
    BY <1>2, AdmissionAllowed DEF kept
  <2>6. entry' \in [Client -> Entry \union {None}] /\ entry'[peer[a]] # None /\ entry'[peer[a]].checks = 1
    <3> DEFINE new == Begun(kept[peer[a]], seen[a])
    <3>1. new \in Entry /\ new.checks = 1 BY <2>3, <2>5 DEF Begun
    <3>2. entry' = [table EXCEPT ![peer[a]] = new] BY <2>1
    <3>3. peer[a] \in Client OBVIOUS
    <3> HIDE DEF Entry, new, Inv
    <3>4. new # None BY <3>1, SetsAssumption
    <3> QED BY <2>4, <3>1, <3>2, <3>3, <3>4
  <2>7. \A c \in Client \ {peer[a]} : entry'[c] = table[c] BY <2>1, <2>4
  <2>8. LimiterTypes' BY <2>2, <2>5, <2>6
  <2>9. TableOK' BY <2>2, <2>4, <2>5, <2>6, <2>7
  <2>10. DelaysOK' BY <2>2, <2>4, <2>5, <2>6, <2>7
  <2> QED BY <2>8, <2>9, <2>10
<1> QED BY <1>1, <1>2

(* So does the end of a comparison, which the table accounts to its client. *)
LEMMA SettledInv ==
  ASSUME Inv, NEW a \in Attempt, Busy(a), NEW e \in Entry, e.checks = 0, e.last = now,
         NEW p \in {"passed", "failed"}, NEW b \in Int, b <= now \/ b <= e.until,
         entry' = [entry EXCEPT ![peer[a]] = Settle(e)], at' = [at EXCEPT ![a] = p],
         barred' = [barred EXCEPT ![peer[a]] = b], UNCHANGED <<now, slots, peer, seen>>
  PROVE  Inv'
<1> USE DEF Inv
<1> DEFINE c == peer[a]
<1>1. c \in Client BY DEF LimiterTypes
<1>2. entry'[c] = Settle(e) /\ \A d \in Client \ {c} : entry'[d] = entry[d] BY <1>1 DEF LimiterTypes
<1>3. Settle(e) \in Entry \union {None} BY DEF Settle
<1>4. Settle(e) # None => Settle(e).checks = 0 /\ Settle(e).until = e.until BY DEF Settle
<1>5. Settle(e) = None => b <= now
  <2>1. Settle(e) = None => e.until <= now BY SetsAssumption DEF Settle
  <2> QED BY <2>1 DEF Entry, LimiterTypes
<1>6. LimiterTypes' BY <1>3 DEF LimiterTypes
<1>7. \A x \in Attempt : Busy(x)' <=> Busy(x) /\ x # a BY DEF Busy, LimiterTypes
<1>8. TableOK'
  <2>1. ASSUME NEW x \in Attempt, Busy(x)' PROVE peer[x] # c /\ peer[x] \in Client
    BY <1>7, <2>1 DEF TableOK, LimiterTypes
  <2>2. ASSUME NEW d \in Client, d # c, NEW x \in Attempt, Busy(x), peer[x] = d PROVE Busy(x)'
    BY <1>7, <2>2
  <2> QED BY <1>2, <1>4, <1>7, <2>1, <2>2 DEF TableOK
<1>9. DelaysOK'
  <2>1. \A x \in Attempt : seen'[x] <= now' BY DEF DelaysOK
  <2>2. barred'[c] <= now' \/ (entry'[c] # None /\ barred'[c] <= entry'[c].until)
    BY <1>1, <1>2, <1>4, <1>5 DEF LimiterTypes
  <2>3. \A d \in Client \ {c} : barred'[d] = barred[d] BY DEF LimiterTypes
  <2> QED BY <1>2, <2>1, <2>2, <2>3 DEF DelaysOK
<1> QED BY <1>6, <1>8, <1>9

(* The end of a comparison keeps table and delays right.                    *)
LEMMA CompleteInv == ASSUME Inv, NEW a \in Attempt, NEW success \in BOOLEAN, Complete(a, success) PROVE Inv'
<1> DEFINE c == peer[a]
           fails == IF success THEN 0 ELSE entry[c].fails + 1
           until == IF Delay(fails) = 0 THEN 0 ELSE now + Delay(fails)
           e == [fails |-> fails, until |-> until, last |-> now, checks |-> entry[c].checks - 1]
<1>1. Busy(a) BY DEF Complete, Busy
<1>2. entry[c] \in Entry /\ entry[c].checks = 1 /\ InCheck(c) /\ now \in Nat
  BY <1>1 DEF Inv, LimiterTypes, TableOK, InCheck
<1>3. fails \in Nat BY <1>2 DEF Entry
<1> HIDE DEF fails
<1>4. until \in Int BY <1>2, <1>3, DelayType
<1> HIDE DEF until
<1>5. e \in Entry /\ e.checks = 0 /\ e.last = now /\ e.until = until BY <1>2, <1>3, <1>4 DEF Entry
<1> HIDE DEF e
<1>6. /\ entry' = [entry EXCEPT ![c] = Settle(e)] /\ barred' = [barred EXCEPT ![c] = until]
      /\ UNCHANGED <<now, slots, peer, seen>>
  BY <1>2 DEF Complete, Credit, e, until, fails
<1>7. PICK p \in {"passed", "failed"} : at' = [at EXCEPT ![a] = p] BY <1>2 DEF Complete, Goes
<1>8. until <= e.until BY <1>4, <1>5
<1> QED BY <1>1, <1>4, <1>5, <1>6, <1>7, <1>8, SettledInv

(* So does giving one up.                                                   *)
LEMMA AbandonInv == ASSUME Inv, NEW a \in Attempt, Abandon(a) PROVE Inv'
<1> DEFINE c == peer[a]
           e == [fails |-> entry[c].fails, until |-> entry[c].until, last |-> now,
                 checks |-> entry[c].checks - 1]
<1>1. Busy(a) BY DEF Abandon, Busy
<1>2. entry[c] \in Entry /\ entry[c].checks = 1 /\ InCheck(c) /\ now \in Nat /\ c \in Client
  BY <1>1 DEF Inv, LimiterTypes, TableOK, InCheck
<1>3. e \in Entry /\ e.checks = 0 /\ e.last = now /\ e.until = entry[c].until BY <1>2 DEF Entry
<1>4. barred[c] \in Int /\ (barred[c] <= now \/ barred[c] <= e.until)
  BY <1>2, <1>3 DEF Inv, LimiterTypes, DelaysOK
<1> HIDE DEF e
<1>5. barred' = [barred EXCEPT ![c] = barred[c]] BY DEF Abandon, Inv, LimiterTypes, history
<1>6. entry' = [entry EXCEPT ![c] = Settle(e)] /\ UNCHANGED <<now, slots, peer, seen>>
  BY <1>2 DEF Abandon, Credit, e
<1>7. at' = [at EXCEPT ![a] = "failed"] BY <1>2 DEF Abandon, Goes
<1> QED BY <1>1, <1>3, <1>4, <1>5, <1>6, <1>7, SettledInv

-----------------------------------------------------------------------------
(* Steps that leave the limiter alone and start or end no comparison. *)
LEMMA LimiterAlone ==
  ASSUME Inv, UNCHANGED <<entry, peer, barred>>, slots' \in Nat, now' \in Nat, now' >= now,
         at' \in [Attempt -> {"new", "arrived", "admitted", "checking", "passed", "failed", "opening", "done"}],
         seen' \in [Attempt -> Nat], \A a \in Attempt : seen'[a] <= now',
         \A a \in Attempt : Busy(a)' <=> Busy(a)
  PROVE  Inv'
<1>1. LimiterTypes' BY DEF Inv, LimiterTypes
<1>2. TableOK' BY DEF Inv, TableOK
<1>3. DelaysOK'
  <2>1. ASSUME NEW c \in Client, barred[c] <= now PROVE barred[c] <= now'
    BY <2>1 DEF Inv, LimiterTypes
  <2> QED BY <2>1 DEF Inv, DelaysOK
<1> QED BY <1>1, <1>2, <1>3 DEF Inv

(* Every step keeps table and delays right.                                 *)
LEMMA NextInv == Inv /\ [Next]_vars => Inv'
<1> SUFFICES ASSUME Inv, [Next]_vars PROVE Inv' OBVIOUS
<1>1. LimiterTypes /\ \A a \in Attempt : seen[a] <= now BY DEF Inv, DelaysOK
<1>2. ASSUME NEW a \in Attempt, Acquire(a) PROVE Inv' BY <1>2, AcquireInv
<1>3. ASSUME NEW a \in Attempt, Complete(a, TRUE) \/ Complete(a, FALSE) PROVE Inv' BY <1>3, CompleteInv
<1>4. ASSUME NEW a \in Attempt, Abandon(a) PROVE Inv' BY <1>4, AbandonInv
<1>5. ASSUME NEW a \in Attempt, Arrive(a) PROVE Inv'
  BY <1>1, <1>5, LimiterAlone DEF Arrive, Goes, LimiterTypes, Busy, limiter, history
<1>6. ASSUME NEW a \in Attempt, ReadHash(a) PROVE Inv'
  BY <1>1, <1>6, LimiterAlone DEF ReadHash, Goes, LimiterTypes, Busy, limiter, history
<1>7. ASSUME NEW a \in Attempt, ReturnSlot(a) PROVE Inv'
  BY <1>1, <1>7, LimiterAlone DEF ReturnSlot, Goes, LimiterTypes, Busy, history
<1>8. ASSUME NEW a \in Attempt, OpenSession(a) PROVE Inv'
  BY <1>1, <1>8, LimiterAlone DEF OpenSession, Goes, LimiterTypes, Busy, limiter, history
<1>9. CASE Tick
  BY <1>1, <1>9, LimiterAlone DEF Tick, LimiterTypes, Busy, limiter, logins, history
<1>10. CASE UNCHANGED <<now, limiter, logins, barred>>
  BY <1>1, <1>10, LimiterAlone DEF LimiterTypes, Busy, limiter, logins
<1>11. ASSUME NEW a \in Attempt, BeginValidate(a) \/ Logout(a) PROVE Inv'
  BY <1>10, <1>11 DEF BeginValidate, Logout, history
<1>12. CASE EndValidate \/ Rotate \/ UNCHANGED vars
  BY <1>10, <1>12 DEF EndValidate, Rotate, history, vars, limiter, logins
<1> QED BY <1>2, <1>3, <1>4, <1>5, <1>6, <1>7, <1>8, <1>9, <1>11, <1>12 DEF Next, LoginStep

-----------------------------------------------------------------------------
(* No comparison starts for a client before the delay its last failure set  *)
(* is over, whatever the table has forgotten meanwhile.                     *)
THEOREM LockoutKept == Spec => LockoutHeld
<1>1. Inv /\ [Next]_vars =>
        [\A a \in Attempt : at[a] = "arrived" /\ at'[a] = "admitted" => barred[peer[a]] <= now]_vars
  <2> SUFFICES ASSUME Inv, Next, NEW a \in Attempt, at[a] = "arrived", at'[a] = "admitted"
               PROVE  barred[peer[a]] <= now
    OBVIOUS
  <2>1. at \in [Attempt -> {"new", "arrived", "admitted", "checking", "passed", "failed", "opening", "done"}]
    BY DEF Inv, LimiterTypes
  <2>2. Acquire(a)
    <3>1. at' = at => FALSE OBVIOUS
    <3>2. ASSUME NEW b \in Attempt, LoginStep(b) PROVE Acquire(a)
      <4>1. CASE Acquire(b)
        <5>1. b = a BY <2>1, <4>1 DEF Acquire, Goes
        <5> QED BY <4>1, <5>1
      <4>2. CASE ~Acquire(b)
        BY <2>1, <3>2, <4>2 DEF LoginStep, Arrive, ReadHash, Complete, Abandon, ReturnSlot, OpenSession, Goes
      <4> QED BY <4>1, <4>2
    <3>3. ASSUME NEW b \in Attempt, BeginValidate(b) \/ Logout(b) PROVE at' = at
      BY <3>3 DEF BeginValidate, Logout, logins
    <3>4. CASE EndValidate \/ Rotate \/ Tick BY <3>1, <3>4 DEF EndValidate, Rotate, Tick, logins
    <3> QED BY <3>1, <3>2, <3>3, <3>4 DEF Next
  <2>3. ~Refused(Prune(entry, seen[a]), peer[a], seen[a])
    BY <2>1, <2>2 DEF Acquire, Goes
  <2> QED BY <2>3, AdmissionAllowed
<1> QED BY <1>1, InitInv, NextInv, PTL DEF Spec, LockoutHeld

-----------------------------------------------------------------------------
(* Each login takes a slot when its comparison starts and gives it back     *)
(* once, however the comparison ends.                                       *)
Counted == slots + Cardinality(Holders) = MaxChecks

(* The holders of slots can be counted.                                     *)
LEMMA HoldersFinite == IsFiniteSet(Holders)
<1>1. Holders \subseteq Attempt BY DEF Holders
<1> QED BY <1>1, SetsAssumption, FS_Subset

(* A step leaves the slots alone, or moves one of them to or from a login. *)
Moves ==
  \/ UNCHANGED <<slots, Holders>>
  \/ \E a \in Attempt \ Holders : slots' = slots - 1 /\ Holders' = Holders \union {a}
  \/ \E a \in Holders : slots' = slots + 1 /\ Holders' = Holders \ {a}

(* Every step exchanges a slot for a holder, or leaves both alone.          *)
LEMMA SlotsExchanged == ASSUME Inv, [Next]_vars PROVE Moves
<1>1. at \in [Attempt -> {"new", "arrived", "admitted", "checking", "passed", "failed", "opening", "done"}]
  BY DEF Inv, LimiterTypes
<1>2. CASE UNCHANGED <<at, slots>> BY <1>2 DEF Moves, Holders
<1>3. ASSUME NEW a \in Attempt, UNCHANGED slots, NEW p, at' = [at EXCEPT ![a] = p],
             (at[a] \in {"admitted", "checking", "passed", "failed"})
               <=> (p \in {"admitted", "checking", "passed", "failed"})
      PROVE  Moves
  BY <1>1, <1>3 DEF Moves, Holders
<1>4. ASSUME NEW a \in Attempt, Acquire(a) PROVE Moves
  <2>1. CASE UNCHANGED slots /\ Goes(a, "done") BY <1>3, <1>4, <2>1 DEF Acquire, Goes
  <2>2. CASE slots' = slots - 1 /\ Goes(a, "admitted")
    <3>1. a \notin Holders /\ Holders' = Holders \union {a} BY <1>1, <1>4, <2>2 DEF Acquire, Goes, Holders
    <3> QED BY <2>2, <3>1 DEF Moves
  <2> QED BY <1>4, <2>1, <2>2 DEF Acquire
<1>5. ASSUME NEW a \in Attempt, ReturnSlot(a) PROVE Moves
  <2>1. a \in Holders /\ Holders' = Holders \ {a} BY <1>1, <1>5 DEF ReturnSlot, Goes, Holders
  <2> QED BY <1>5, <2>1 DEF Moves, ReturnSlot
<1>6. ASSUME NEW a \in Attempt, Complete(a, TRUE) \/ Complete(a, FALSE) \/ Abandon(a)
      PROVE  Moves
  <2>1. Busy(a) BY <1>6 DEF Complete, Abandon, Busy
  <2>2. InCheck(peer[a]) BY <2>1 DEF Inv, TableOK, InCheck, LimiterTypes
  <2>3. UNCHANGED slots /\ \E p \in {"passed", "failed"} : at' = [at EXCEPT ![a] = p]
    BY <1>6, <2>2 DEF Complete, Abandon, Goes
  <2> QED BY <1>3, <2>1, <2>3 DEF Busy
<1>7. ASSUME NEW a \in Attempt, Arrive(a) \/ OpenSession(a) PROVE Moves
  BY <1>3, <1>7 DEF Arrive, OpenSession, Goes, limiter
<1>8. ASSUME NEW a \in Attempt, ReadHash(a) PROVE Moves
  BY <1>3, <1>8 DEF ReadHash, Goes, limiter
<1>9. ASSUME NEW a \in Attempt, BeginValidate(a) \/ Logout(a) PROVE UNCHANGED <<at, slots>>
  BY <1>9 DEF BeginValidate, Logout, limiter, logins
<1>10. ASSUME EndValidate \/ Rotate \/ Tick \/ UNCHANGED vars PROVE UNCHANGED <<at, slots>>
  BY <1>10 DEF EndValidate, Rotate, Tick, vars, limiter, logins
<1> QED BY <1>2, <1>4, <1>5, <1>6, <1>7, <1>8, <1>9, <1>10 DEF Next, LoginStep

(* At first all slots are free.                                             *)
LEMMA InitCounted == Init => Counted
<1> SUFFICES ASSUME Init PROVE Counted OBVIOUS
<1>1. Holders = {} BY DEF Init, Holders
<1>2. MaxChecks \in Nat BY LimitsAssumption
<1> QED BY <1>1, <1>2, FS_EmptySet DEF Init, Counted

(* Every step keeps the slots counted.                                      *)
LEMMA NextCounted == ASSUME Inv, Inv', Counted, [Next]_vars PROVE Counted'
<1>1. slots \in Nat /\ slots' \in Nat BY DEF Inv, LimiterTypes
<1>2. Cardinality(Holders) \in Nat BY HoldersFinite, FS_CardinalityType
<1>3. slots' + Cardinality(Holders') = slots + Cardinality(Holders)
  <2>1. CASE UNCHANGED <<slots, Holders>> BY <2>1
  <2>2. ASSUME NEW a \in Attempt \ Holders, slots' = slots - 1, Holders' = Holders \union {a}
        PROVE  slots' + Cardinality(Holders') = slots + Cardinality(Holders)
    <3>1. Cardinality(Holders \union {a}) = Cardinality(Holders) + 1
      BY HoldersFinite, FS_AddElement
    <3> QED BY <1>1, <1>2, <2>2, <3>1
  <2>3. ASSUME NEW a \in Holders, slots' = slots + 1, Holders' = Holders \ {a}
        PROVE  slots' + Cardinality(Holders') = slots + Cardinality(Holders)
    <3>1. Cardinality(Holders \ {a}) = Cardinality(Holders) - 1
      BY HoldersFinite, FS_RemoveElement
    <3> QED BY <1>1, <1>2, <2>3, <3>1
  <2> QED BY <2>1, <2>2, <2>3, SlotsExchanged DEF Moves
<1> QED BY <1>3 DEF Counted

(* The table agrees with the comparisons under way. *)
LEMMA TableCounts ==
  ASSUME Inv, NEW c \in Client
  PROVE  /\ Cardinality(Checks(c)) = (IF entry[c] = None THEN 0 ELSE entry[c].checks)
         /\ Cardinality(Checks(c)) <= 1
<1>1. CASE Checks(c) = {}
  <2>1. Cardinality(Checks(c)) = 0 BY <1>1, FS_EmptySet
  <2>2. \A a \in Attempt : ~(Busy(a) /\ peer[a] = c) BY <1>1 DEF Checks, Busy
  <2> QED BY <2>1, <2>2 DEF Inv, TableOK
<1>2. CASE Checks(c) # {}
  <2>1. PICK a \in Attempt : Busy(a) /\ peer[a] = c BY <1>2 DEF Checks, Busy
  <2>2. Checks(c) = {a} BY <2>1 DEF Inv, TableOK, Checks, Busy
  <2>3. Cardinality(Checks(c)) = 1 BY <2>2, FS_Singleton
  <2> QED BY <2>1, <2>3 DEF Inv, TableOK
<1> QED BY <1>1, <1>2

(* No slot of the semaphore is lost or given back twice, and the table      *)
(* knows of each comparison under way, at most one per client.              *)
THEOREM ChecksNeverLost == Spec => []ChecksAccounted
<1>1. Inv /\ Counted => ChecksAccounted BY TableCounts DEF Counted, ChecksAccounted
<1>2. Inv /\ Counted /\ [Next]_vars => (Inv /\ Counted)' BY NextInv, NextCounted
<1> QED BY <1>1, <1>2, InitInv, InitCounted, PTL DEF Spec
-----------------------------------------------------------------------------
(* The session store.  Every session was opened by a login that is over,    *)
(* no longer than Ttl ago and with a version the file has had; the order of *)
(* insertion is total, and no session expires before one that was inserted  *)
(* earlier.                                                                 *)
SessionsOK ==
  /\ IsFiniteSet(sessions) /\ sessions \subseteq Session /\ Cardinality(sessions) <= MaxSessions
  /\ \A s \in sessions : at[s.token] = "done" /\ s.expiry <= now + Ttl /\ s.epoch <= version
  /\ \E last \in Nat : \A s \in sessions : s.turn <= last
  /\ \A s, other \in sessions : s.turn = other.turn => s = other
  /\ \A s, other \in sessions : s.turn <= other.turn => s.expiry <= other.expiry

(* What a validation has read of the file is no older than its session.     *)
ProbeOK ==
  probe = None \/
    /\ probe \in [token : Attempt, epoch : Nat] /\ probe.epoch <= version /\ at[probe.token] = "done"
    /\ \A s \in sessions : s.token = probe.token => s.epoch <= probe.epoch

Bounds ==
  /\ now <= MaxTime /\ version \in 0..MaxVersion
  /\ read \in [Attempt -> 0..MaxVersion] /\ revoked \subseteq Attempt

StoreInv == SessionsOK /\ ProbeOK /\ Bounds

(* One of some natural numbers is the least: the order is well founded.     *)
LEMMA Least ==
  ASSUME NEW S \in SUBSET Nat, S # {}
  PROVE  \E least \in S : \A n \in S : least <= n
<1> DEFINE R == OpToRel(<, Nat)
<1>1. IsWellFoundedOn(R, Nat) BY NatLessThanWellFounded
<1>2. \A m, n \in Nat : m < n => <<m, n>> \in R BY Zenon DEF OpToRel
<1> HIDE DEF R
<1>3. PICK least \in S : \A n \in S : ~(<<n, least>> \in R) BY <1>1, WFMin
<1>4. \A n \in S : ~(n < least) BY <1>2, <1>3
<1> QED BY <1>4

(* The greatest of some numbers that have a bound is one of them.           *)
LEMMA Greatest ==
  ASSUME NEW S \in SUBSET Nat, S # {}, NEW bound \in Nat, \A n \in S : n <= bound
  PROVE  Max(S) \in S /\ \A n \in S : n <= Max(S)
<1> DEFINE below == {bound - n : n \in S}
<1>1. below \in SUBSET Nat /\ below # {}
  <2>1. \A n \in S : n \in Nat /\ bound - n \in Nat OBVIOUS
  <2> QED BY <2>1
<1>2. PICK least \in below : \A m \in below : least <= m
  <2> HIDE DEF below
  <2> QED BY <1>1, Least
<1>3. PICK x \in S : least = bound - x BY <1>2
<1>4. \A n \in S : x >= n BY <1>2, <1>3
<1> QED BY <1>3, <1>4 DEF Max

(* Making room keeps the sessions inserted last, fewer than MaxSessions,    *)
(* and all of them when there is room.                                      *)
LEMMA TrimMakesRoom ==
  ASSUME NEW store \in SUBSET Session, IsFiniteSet(store),
         \A s, other \in store : s.turn = other.turn => s = other
  PROVE  /\ Trim(store) \subseteq store /\ IsFiniteSet(Trim(store))
         /\ Cardinality(Trim(store)) <= MaxSessions - 1
         /\ Cardinality(store) < MaxSessions => Trim(store) = store
         /\ \A s \in store \ Trim(store), other \in Trim(store) : s.turn < other.turn
<1> DEFINE kept == Trim(store)
<1>1. MaxSessions \in Nat \ {0} BY LimitsAssumption
<1>2. kept \subseteq store BY DEF Trim
<1>3. IsFiniteSet(kept) /\ Cardinality(kept) \in Nat BY <1>2, FS_Subset, FS_CardinalityType
<1>4. \A s \in store : s.turn \in Nat BY DEF Session
<1>5. ASSUME NEW s \in store
      PROVE  IsFiniteSet(After(store, s)) /\ Cardinality(After(store, s)) \in Nat
  BY FS_Subset, FS_CardinalityType DEF After
<1>6. ASSUME NEW s \in kept PROVE Cardinality(After(store, s)) < MaxSessions - 1 BY DEF Trim
<1>7. Cardinality(kept) <= MaxSessions - 1
  <2>1. CASE kept = {} BY <1>1, <2>1, FS_EmptySet
  <2>2. CASE kept # {}
    <3> DEFINE turns == {s.turn : s \in kept}
    <3>1. turns \in SUBSET Nat /\ turns # {} BY <1>2, <1>4, <2>2
    <3>2. PICK least \in turns : \A m \in turns : least <= m
      <4> HIDE DEF turns
      <4> QED BY <3>1, Least
    <3>3. PICK s \in kept : s.turn = least BY <3>2
    <3>4. ASSUME NEW other \in kept, other # s PROVE other \in After(store, s)
      <4>1. other.turn >= s.turn /\ other.turn # s.turn BY <1>2, <3>2, <3>3, <3>4
      <4> QED BY <1>2, <1>4, <4>1 DEF After
    <3>5. kept \ {s} \subseteq After(store, s) BY <3>4
    <3>6. Cardinality(kept \ {s}) <= Cardinality(After(store, s)) BY <1>2, <1>5, <3>5, FS_Subset
    <3>7. Cardinality(kept \ {s}) = Cardinality(kept) - 1 BY <1>3, FS_RemoveElement
    <3> QED BY <1>1, <1>2, <1>3, <1>5, <1>6, <3>6, <3>7
  <2> QED BY <2>1, <2>2
<1>8. ASSUME Cardinality(store) < MaxSessions PROVE kept = store
  <2> SUFFICES ASSUME NEW s \in store PROVE Cardinality(After(store, s)) < MaxSessions - 1
    BY <1>2 DEF Trim
  <2>1. After(store, s) \subseteq store \ {s} BY <1>4 DEF After
  <2>2. IsFiniteSet(store \ {s}) /\ Cardinality(store \ {s}) = Cardinality(store) - 1
    BY FS_RemoveElement
  <2>3. Cardinality(After(store, s)) <= Cardinality(store \ {s}) BY <2>1, <2>2, FS_Subset
  <2>4. Cardinality(store) \in Nat BY FS_CardinalityType
  <2> QED BY <1>1, <1>5, <1>8, <2>2, <2>3, <2>4
<1>9. ASSUME NEW s \in store \ kept, NEW other \in kept PROVE s.turn < other.turn
  <2> SUFFICES ASSUME other.turn <= s.turn PROVE FALSE BY <1>2, <1>4
  <2>1. After(store, s) \subseteq After(store, other) BY <1>2, <1>4 DEF After
  <2>2. Cardinality(After(store, s)) <= Cardinality(After(store, other)) BY <1>2, <1>5, <2>1, FS_Subset
  <2>3. ~(Cardinality(After(store, s)) < MaxSessions - 1) BY DEF Trim
  <2> QED BY <1>1, <1>2, <1>5, <1>6, <2>2, <2>3
<1> QED BY <1>2, <1>3, <1>7, <1>8, <1>9

(* A new session comes after all others. *)
LEMMA TurnIsLast ==
  ASSUME NEW store \in SUBSET Session, NEW last \in Nat, \A s \in store : s.turn <= last
  PROVE  NextTurn(store) \in Nat /\ \A s \in store : s.turn < NextTurn(store)
<1> DEFINE turns == {s.turn : s \in store} \union {0}
<1>1. turns \in SUBSET Nat /\ turns # {} /\ \A n \in turns : n <= last BY DEF Session
<1>2. Max(turns) \in turns /\ \A n \in turns : n <= Max(turns) BY <1>1, Greatest
<1>3. NextTurn(store) = 1 + Max(turns) BY DEF NextTurn
<1>4. \A s \in store : s.turn \in turns OBVIOUS
<1> HIDE DEF turns
<1> DEFINE top == Max(turns)
<1>5. top \in Nat /\ \A n \in turns : n \in Nat /\ n <= top BY <1>1, <1>2
<1> HIDE DEF top
<1>6. NextTurn(store) = 1 + top BY <1>3 DEF top
<1> QED BY <1>4, <1>5, <1>6

(* At first there is no session.                                            *)
LEMMA InitStore == Init => StoreInv
<1> SUFFICES ASSUME Init PROVE StoreInv OBVIOUS
<1>1. sessions = {} /\ IsFiniteSet(sessions) /\ Cardinality(sessions) = 0 BY FS_EmptySet DEF Init
<1>2. SessionsOK BY <1>1, LimitsAssumption DEF SessionsOK
<1> QED BY <1>2, LimitsAssumption DEF Init, StoreInv, ProbeOK, Bounds

(* Removing sessions keeps what holds of the store. *)
LEMMA FewerSessions ==
  ASSUME StoreInv, Inv, NEW store \in SUBSET sessions
  PROVE  /\ IsFiniteSet(store) /\ store \subseteq Session /\ Cardinality(store) <= MaxSessions
         /\ Cardinality(store) <= Cardinality(sessions) /\ Cardinality(store) \in Nat
<1>1. IsFiniteSet(store) /\ Cardinality(store) <= Cardinality(sessions)
  BY FS_Subset DEF StoreInv, SessionsOK
<1>2. Cardinality(store) \in Nat /\ Cardinality(sessions) \in Nat
  BY <1>1, FS_CardinalityType DEF StoreInv, SessionsOK
<1> QED BY <1>1, <1>2, LimitsAssumption DEF StoreInv, SessionsOK

(* Steps that open no session. *)
LEMMA NoNewSession ==
  ASSUME StoreInv, Inv, Inv', sessions' \subseteq sessions,
         now' >= now, now' <= MaxTime, version' >= version, version' \in 0..MaxVersion,
         \A a \in Attempt : at[a] = "done" => at'[a] = "done",
         read' \in [Attempt -> 0..MaxVersion], revoked' \subseteq Attempt,
         \/ probe' = probe \/ probe' = None
         \/ \E token \in Attempt : at[token] = "done" /\ probe' = [token |-> token, epoch |-> version]
  PROVE  StoreInv'
<1>1. now \in Nat /\ now' \in Nat /\ version \in Nat /\ version' \in Nat /\ Ttl \in Nat
  BY LimitsAssumption DEF Inv, LimiterTypes, StoreInv, Bounds
<1>2. SessionsOK'
  <2>1. \A s \in sessions : s \in Session /\ s.token \in Attempt /\ s.expiry \in Nat /\ s.epoch \in Nat
    BY DEF StoreInv, SessionsOK, Session
  <2>2. \A s \in sessions' : at'[s.token] = "done" /\ s.expiry <= now' + Ttl /\ s.epoch <= version'
    BY <1>1, <2>1 DEF StoreInv, SessionsOK
  <2>3. IsFiniteSet(sessions') /\ sessions' \subseteq Session /\ Cardinality(sessions') <= MaxSessions
    BY FewerSessions
  <2> QED BY <2>2, <2>3 DEF StoreInv, SessionsOK
<1>3. ProbeOK'
  <2>1. CASE probe' = None BY <2>1 DEF ProbeOK
  <2>2. CASE probe' = probe /\ probe # None
    <3>1. probe.epoch \in Nat /\ probe.token \in Attempt BY <2>2 DEF StoreInv, ProbeOK
    <3> QED BY <1>1, <2>2, <3>1 DEF StoreInv, ProbeOK
  <2>3. ASSUME NEW token \in Attempt, at[token] = "done", probe' = [token |-> token, epoch |-> version]
        PROVE  ProbeOK'
    <3>1. probe'.token = token /\ probe'.epoch = version /\ probe' \in [token : Attempt, epoch : Nat]
      BY <1>1, <2>3
    <3>2. \A s \in sessions' : s.epoch <= version BY DEF StoreInv, SessionsOK
    <3> QED BY <1>1, <2>3, <3>1, <3>2 DEF ProbeOK
  <2> QED BY <2>1, <2>2, <2>3
<1> QED BY <1>2, <1>3 DEF StoreInv, Bounds

(* A new session is inserted last and expires last.                         *)
LEMMA OpenStore == ASSUME StoreInv, Inv, Inv', NEW a \in Attempt, OpenSession(a) PROVE StoreInv'
<1> DEFINE kept == Trim(Unexpired(sessions))
           new == [token |-> a, turn |-> NextTurn(kept), expiry |-> now + Ttl, epoch |-> version]
<1>1. now \in Nat /\ version \in Nat /\ Ttl \in Nat /\ MaxSessions \in Nat \ {0}
  BY LimitsAssumption DEF Inv, LimiterTypes, StoreInv, Bounds
<1>2. /\ sessions' = kept \union {new} /\ at' = [at EXCEPT ![a] = "done"] /\ at[a] = "opening"
      /\ UNCHANGED <<now, version, read, probe, revoked>>
  BY DEF OpenSession, Goes, history
<1>3. kept \subseteq sessions /\ IsFiniteSet(kept) /\ Cardinality(kept) <= MaxSessions - 1
  <2>1. Unexpired(sessions) \subseteq sessions BY DEF Unexpired
  <2>2. IsFiniteSet(Unexpired(sessions)) /\ Unexpired(sessions) \subseteq Session BY <2>1, FewerSessions
  <2> QED BY <2>1, <2>2, TrimMakesRoom DEF StoreInv, SessionsOK
<1>4. kept \subseteq Session BY <1>3 DEF StoreInv, SessionsOK
<1>5. NextTurn(kept) \in Nat /\ \A s \in kept : s.turn < NextTurn(kept)
  <2>1. PICK last \in Nat : \A s \in sessions : s.turn <= last BY DEF StoreInv, SessionsOK
  <2> HIDE DEF kept
  <2> QED BY <1>3, <1>4, <2>1, TurnIsLast
<1>6. /\ new \in Session /\ new.turn = NextTurn(kept) /\ new.expiry = now + Ttl
      /\ new.epoch = version /\ new.token = a
  BY <1>1, <1>5 DEF Session
<1> HIDE DEF kept, new
<1>7. at \in [Attempt -> {"new", "arrived", "admitted", "checking", "passed", "failed", "opening", "done"}]
  BY DEF Inv, LimiterTypes
<1>8. \A s \in kept : /\ s.token \in Attempt /\ s.turn \in Nat /\ s.expiry \in Nat /\ s.epoch \in Nat
                     /\ at[s.token] = "done" /\ s.expiry <= now + Ttl /\ s.epoch <= version
  BY <1>3, <1>4 DEF Session, StoreInv, SessionsOK
<1>9. SessionsOK'
  <2>1. IsFiniteSet(sessions') /\ Cardinality(sessions') <= MaxSessions
    <3>1. Cardinality(kept) \in Nat BY <1>3, FS_CardinalityType
    <3> QED BY <1>1, <1>2, <1>3, <3>1, FS_AddElement
  <2>2. sessions' \subseteq Session BY <1>2, <1>4, <1>6
  <2>3. \A s \in sessions' : at'[s.token] = "done" /\ s.expiry <= now + Ttl /\ s.epoch <= version
    BY <1>1, <1>2, <1>6, <1>7, <1>8
  <2>4. \E last \in Nat : \A s \in sessions' : s.turn <= last
    <3>1. \A s \in sessions' : s.turn <= NextTurn(kept) BY <1>2, <1>5, <1>6, <1>8
    <3> QED BY <1>5, <3>1
  <2>5. \A s, other \in sessions' : s.turn = other.turn => s = other
    <3>1. \A s, other \in kept : s.turn = other.turn => s = other BY <1>3 DEF StoreInv, SessionsOK
    <3>2. \A s \in kept : s.turn # new.turn BY <1>5, <1>6, <1>8
    <3> QED BY <1>2, <3>1, <3>2
  <2>6. \A s, other \in sessions' : s.turn <= other.turn => s.expiry <= other.expiry
    <3>1. \A s, other \in kept : s.turn <= other.turn => s.expiry <= other.expiry
      BY <1>3 DEF StoreInv, SessionsOK
    <3>2. \A s \in kept : s.expiry <= new.expiry /\ ~(new.turn <= s.turn) BY <1>5, <1>6, <1>8
    <3>3. new.expiry <= new.expiry BY <1>1, <1>6
    <3> QED BY <1>2, <3>1, <3>2, <3>3
  <2> QED BY <1>2, <2>1, <2>2, <2>3, <2>4, <2>5, <2>6 DEF SessionsOK
<1>10. ProbeOK'
  <2>1. CASE probe = None BY <1>2, <2>1 DEF ProbeOK
  <2>2. CASE probe # None
    <3>1. probe.token # a /\ probe.token \in Attempt BY <1>2, <2>2 DEF StoreInv, ProbeOK
    <3>2. \A s \in sessions' : s.token = probe.token => s \in sessions BY <1>2, <1>3, <1>6, <3>1
    <3> QED BY <1>2, <1>7, <2>2, <3>1, <3>2 DEF StoreInv, ProbeOK
  <2> QED BY <2>1, <2>2
<1> QED BY <1>2, <1>9, <1>10 DEF StoreInv, Bounds

(* Every step keeps the store in order.                                     *)
LEMMA NextStore == ASSUME StoreInv, Inv, Inv', [Next]_vars PROVE StoreInv'
<1>1. /\ now \in Nat /\ now <= MaxTime /\ version \in 0..MaxVersion /\ version >= version /\ now >= now
      /\ at \in [Attempt -> {"new", "arrived", "admitted", "checking", "passed", "failed", "opening", "done"}]
      /\ read \in [Attempt -> 0..MaxVersion] /\ revoked \subseteq Attempt
      /\ MaxVersion \in Nat /\ MaxTime \in Nat
  BY LimitsAssumption DEF Inv, LimiterTypes, StoreInv, Bounds
<1>2. ASSUME NEW a \in Attempt, at[a] # "done", NEW p, at' = [at EXCEPT ![a] = p]
      PROVE  \A b \in Attempt : at[b] = "done" => at'[b] = "done"
  BY <1>1, <1>2
<1>3. ASSUME NEW a \in Attempt, OpenSession(a) PROVE StoreInv' BY <1>3, OpenStore
<1>4. ASSUME NEW a \in Attempt, Arrive(a) \/ Acquire(a) \/ Complete(a, TRUE) \/ Complete(a, FALSE) \/ Abandon(a) \/ ReturnSlot(a)
      PROVE  StoreInv'
  <2>1. /\ at[a] # "done" /\ \E p : at' = [at EXCEPT ![a] = p]
        /\ UNCHANGED <<now, version, read, sessions, probe, revoked>>
    BY <1>4 DEF Arrive, Acquire, Complete, Abandon, ReturnSlot, Goes, history
  <2> QED BY <1>1, <1>2, <2>1, NoNewSession
<1>5. ASSUME NEW a \in Attempt, ReadHash(a) PROVE StoreInv'
  <2>1. /\ at[a] # "done" /\ at' = [at EXCEPT ![a] = "checking"] /\ read' = [read EXCEPT ![a] = version]
        /\ UNCHANGED <<now, version, sessions, probe, revoked>>
    BY <1>5 DEF ReadHash, Goes, history
  <2> QED BY <1>1, <1>2, <2>1, NoNewSession
<1>6. ASSUME NEW a \in Attempt, BeginValidate(a) PROVE StoreInv'
  <2>1. at[a] = "done" BY <1>6 DEF BeginValidate, HasSession, StoreInv, SessionsOK
  <2>2. /\ probe' = [token |-> a, epoch |-> version]
        /\ UNCHANGED <<now, version, at, read, sessions, revoked>>
    BY <1>6 DEF BeginValidate, logins, history
  <2> QED BY <1>1, <2>1, <2>2, NoNewSession
<1>7. ASSUME NEW a \in Attempt, Logout(a) PROVE StoreInv'
  BY <1>1, <1>7, NoNewSession DEF Logout, logins
<1>8. CASE EndValidate BY <1>1, <1>8, NoNewSession DEF EndValidate, logins, history
<1>9. CASE Rotate
  <2>1. version' \in 0..MaxVersion /\ version' >= version BY <1>1, <1>9 DEF Rotate
  <2> QED BY <1>1, <1>9, <2>1, NoNewSession DEF Rotate, logins, history
<1>10. CASE Tick
  <2>1. now' >= now /\ now' <= MaxTime BY <1>1, <1>10 DEF Tick
  <2> QED BY <1>1, <1>10, <2>1, NoNewSession DEF Tick, logins, history
<1>11. CASE UNCHANGED vars BY <1>1, <1>11, NoNewSession DEF vars
<1> QED BY <1>3, <1>4, <1>5, <1>6, <1>7, <1>8, <1>9, <1>10, <1>11 DEF Next, LoginStep

(* The whole state has its type: above all, there are never more sessions   *)
(* than allowed, and never more free slots than the semaphore has.          *)
THEOREM TypesKept == Spec => []TypeOK
<1>1. ASSUME Inv, Counted, StoreInv PROVE TypeOK
  <2>1. now \in 0..MaxTime /\ version \in 0..MaxVersion
    BY <1>1 DEF Inv, LimiterTypes, StoreInv, Bounds
  <2>2. slots \in 0..MaxChecks
    <3>1. Cardinality(Holders) \in Nat BY HoldersFinite, FS_CardinalityType
    <3>2. MaxChecks \in Nat BY LimitsAssumption
    <3> QED BY <1>1, <3>1, <3>2 DEF Counted, Inv, LimiterTypes
  <2>3. seen \in [Attempt -> 0..MaxTime]
    <3>1. \A a \in Attempt : seen[a] \in Nat /\ seen[a] <= now BY <1>1 DEF Inv, LimiterTypes, DelaysOK
    <3>2. \A a \in Attempt : seen[a] \in 0..MaxTime BY <2>1, <3>1, LimitsAssumption
    <3> QED BY <1>1, <3>2 DEF Inv, LimiterTypes
  <2>4. sessions \subseteq Session /\ Cardinality(sessions) <= MaxSessions
        /\ (probe = None \/ probe \in [token : Attempt, epoch : Nat])
    BY <1>1 DEF StoreInv, SessionsOK, ProbeOK
  <2> QED BY <1>1, <2>1, <2>2, <2>3, <2>4 DEF TypeOK, Inv, LimiterTypes, StoreInv, Bounds
<1>2. Inv /\ Counted /\ StoreInv /\ [Next]_vars => (Inv /\ Counted /\ StoreInv)'
  BY NextInv, NextCounted, NextStore
<1> QED BY <1>1, <1>2, InitInv, InitCounted, InitStore, PTL DEF Spec

(* A session leaves the store early only to make room for a new one, and    *)
(* then none that stays expires earlier: a validation that read the file    *)
(* before it changed removes no session of the present password.            *)
THEOREM SessionsKept == Spec => SessionsLast
<1> DEFINE Early(s) ==
      \/ s.expiry < now \/ s.epoch # version \/ s.token \in revoked'
      \/ /\ Cardinality(sessions) >= MaxSessions
         /\ \A other \in sessions' : s.expiry <= other.expiry
<1>1. ASSUME StoreInv, Inv, Next, NEW s \in sessions, s \notin sessions' PROVE Early(s)
  <2>1. s.token \in Attempt /\ s.turn \in Nat /\ s.expiry \in Nat /\ s.epoch \in Nat
    BY <1>1 DEF StoreInv, SessionsOK, Session
  <2>2. now \in Nat /\ version \in Nat /\ MaxSessions \in Nat /\ Ttl \in Nat
    BY <1>1, LimitsAssumption DEF Inv, LimiterTypes, StoreInv, Bounds
  <2>3. ASSUME NEW a \in Attempt, OpenSession(a) PROVE Early(s)
    <3> SUFFICES ASSUME s.expiry >= now
                 PROVE  /\ Cardinality(sessions) >= MaxSessions
                        /\ \A other \in sessions' : s.expiry <= other.expiry
      BY <2>1, <2>2
    <3> DEFINE store == Unexpired(sessions)  kept == Trim(store)
    <3>1. store \subseteq sessions /\ s \in store BY <1>1 DEF Unexpired
    <3>2. /\ IsFiniteSet(store) /\ store \subseteq Session
          /\ Cardinality(store) <= Cardinality(sessions) /\ Cardinality(store) \in Nat
      BY <1>1, <3>1, FewerSessions
    <3>3. \A x, y \in store : x.turn = y.turn => x = y BY <1>1, <3>1 DEF StoreInv, SessionsOK
    <3> DEFINE new == [token |-> a, turn |-> NextTurn(kept), expiry |-> now + Ttl, epoch |-> version]
    <3>4. sessions' = kept \union {new} /\ new.expiry = now + Ttl BY <2>3 DEF OpenSession
    <3>5. s \notin kept BY <1>1, <3>4
    <3> HIDE DEF store, new
    <3>6. /\ kept \subseteq store /\ ~(Cardinality(store) < MaxSessions)
          /\ \A other \in kept : s.turn < other.turn
      BY <3>1, <3>2, <3>3, <3>5, TrimMakesRoom
    <3>7. \A other \in kept : s.expiry <= other.expiry
      <4>1. \A other \in kept : other \in sessions /\ other.turn \in Nat BY <3>1, <3>2, <3>6 DEF Session
      <4> QED BY <1>1, <2>1, <3>6, <4>1 DEF StoreInv, SessionsOK
    <3>8. s.expiry <= new.expiry BY <1>1, <3>4 DEF StoreInv, SessionsOK
    <3>9. Cardinality(sessions) \in Nat BY <1>1, FS_CardinalityType DEF StoreInv, SessionsOK
    <3> QED BY <2>2, <3>2, <3>4, <3>6, <3>7, <3>8, <3>9
  <2>4. CASE EndValidate
    <3>1. s.token = probe.token /\ (s.epoch # probe.epoch \/ ~(s.expiry >= now)) /\ probe # None
      BY <1>1, <2>4 DEF EndValidate
    <3>2. s.epoch <= probe.epoch /\ probe.epoch <= version /\ probe.epoch \in Nat
      BY <1>1, <3>1 DEF StoreInv, ProbeOK
    <3> QED BY <2>1, <2>2, <3>1, <3>2
  <2>5. ASSUME NEW a \in Attempt, Logout(a) PROVE Early(s) BY <1>1, <2>5 DEF Logout
  <2>6. ASSUME UNCHANGED sessions PROVE FALSE BY <1>1, <2>6
  <2>7. ASSUME NEW a \in Attempt, LoginStep(a), ~OpenSession(a) PROVE FALSE
    BY <2>6, <2>7 DEF LoginStep, Arrive, Acquire, ReadHash, Complete, Abandon, ReturnSlot
  <2>8. ASSUME NEW a \in Attempt, BeginValidate(a) PROVE FALSE BY <2>6, <2>8 DEF BeginValidate
  <2>9. CASE Rotate \/ Tick BY <2>6, <2>9 DEF Rotate, Tick
  <2> QED BY <1>1, <2>3, <2>4, <2>5, <2>7, <2>8, <2>9 DEF Next
<1>2. StoreInv /\ Inv /\ [Next]_vars => [\A s \in sessions \ sessions' : Early(s)]_vars
  BY <1>1
<1>3. Inv /\ Counted /\ StoreInv /\ [Next]_vars => (Inv /\ Counted /\ StoreInv)'
  BY NextInv, NextCounted, NextStore
<1> QED BY <1>2, <1>3, InitInv, InitCounted, InitStore, PTL DEF Spec, SessionsLast
=============================================================================
