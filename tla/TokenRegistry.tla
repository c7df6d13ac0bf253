----------------------------- MODULE TokenRegistry -----------------------------
(***************************************************************************)
(* The registry of access tokens (TokenStore in runtime/tokens.py) and the *)
(* rights its rows give on the zones the service has published.            *)
(*                                                                         *)
(* A change is one SQLite transaction (BEGIN IMMEDIATE), one step here; it *)
(* is committed or rolled back.  Time is what is left of a token's         *)
(* validity, which Aged() lets go by.                                      *)
(***************************************************************************)
EXTENDS Naturals, FiniteSets

CONSTANTS
  None,
  Forever,
  Token, Zone, Group, Path,
  Duration,    \* validities an administrator may ask for
  Grants,      \* sets of grants an administrator may give
  Snapshots,   \* what the service may publish: paths of zones, zones of groups
  MaxChanges   \* bound: changes of the registry or of what is published

VARIABLES
  registry,    \* the row of each token, with its grants
  suspended,   \* suspended scopes
  published,   \* the service's access snapshot
  changes

registryVars == <<registry, suspended, published, changes>>

Permission == {"list", "read", "write"}
Global == <<"global", None>>
Scope == {Global} \union ({"zone"} \X Zone) \union ({"group"} \X Group) \union ({"path"} \X Path)
Grant == {g \in [scope : Scope, may : SUBSET Permission, replace : BOOLEAN] : g.replace => "write" \in g.may}
Row == [secret : Nat, grants : SUBSET Grant, left : Nat \union {Forever}, revoked : BOOLEAN]
Snapshot == [path : [Zone -> Path \union {None}], members : [Group -> SUBSET Zone]]

ASSUME RegistryAssumption ==
  /\ Duration \subseteq (Nat \ {0}) \union {Forever} /\ Forever \notin Nat /\ MaxChanges \in Nat
  /\ \A gs \in Grants : gs # {} /\ gs \subseteq Grant /\ \A g, h \in gs : g.scope = h.scope => g = h
  /\ Snapshots \subseteq Snapshot
  /\ None \notin Zone \union Group \union Path \union Row \union Snapshot
  /\ IsFiniteSet(Zone)

InitRegistry ==
  /\ registry \in [Token -> {None} \union
        [secret : {1}, grants : Grants, left : Duration, revoked : {FALSE}]]
  /\ suspended = {} /\ published \in Snapshots /\ changes = 0

Live == {t \in Token : registry[t] # None}
Change == changes < MaxChanges /\ changes' = changes + 1

-----------------------------------------------------------------------------
(* The rights of a row on a zone. *)

Active(row) == ~row.revoked /\ row.left # 0

(* Zones of a snapshot a grant is for; a path that two zones share is for   *)
(* none.                                                                    *)
Published(snapshot) == {z \in Zone : snapshot.path[z] # None}
Resolved(grant, snapshot) ==
  LET value == grant.scope[2]
      there == Published(snapshot)
      sharing == {z \in there : snapshot.path[z] = value}
  IN CASE grant.scope = Global -> there
       [] grant.scope[1] = "zone" -> {value} \intersect there
       [] grant.scope[1] = "group" -> snapshot.members[value]
       [] grant.scope[1] = "path" -> IF Cardinality(sharing) = 1 THEN sharing ELSE {}

Blocked(zone, snapshot, rules) ==
  \/ Global \in rules \/ <<"zone", zone>> \in rules
  \/ \E g \in Group : zone \in snapshot.members[g] /\ <<"group", g>> \in rules

(* token_covers_zone, token_zone_access *)
For(row, zone, snapshot, rules) ==
  IF ~Active(row) \/ zone \notin Published(snapshot) \/ Blocked(zone, snapshot, rules) THEN {}
  ELSE {g \in row.grants : zone \in Resolved(g, snapshot)}
Access(row, zone, snapshot, rules) == UNION {g.may : g \in For(row, zone, snapshot, rules)}
MayReplace(row, zone, snapshot, rules) == \E g \in For(row, zone, snapshot, rules) : g.replace

-----------------------------------------------------------------------------
(* What an administrator does, one request at a time. *)

Create(t) ==
  /\ registry[t] = None /\ Change
  /\ \E gs \in Grants, d \in Duration :
       registry' = [registry EXCEPT ![t] = [secret |-> 1, grants |-> gs, left |-> d, revoked |-> FALSE]]
  /\ UNCHANGED <<suspended, published>>

(* A token that has expired can be extended, a revoked one cannot. *)
Extend(t) ==
  /\ t \in Live /\ ~registry[t].revoked /\ Change
  /\ \E d \in Duration : registry' = [registry EXCEPT ![t].left = d]
  /\ UNCHANGED <<suspended, published>>

Rotate(t) ==
  /\ t \in Live /\ ~registry[t].revoked /\ Change
  /\ \E d \in Duration : registry' = [registry EXCEPT ![t].left = d, ![t].secret = @ + 1]
  /\ UNCHANGED <<suspended, published>>

Revoke(t) ==
  /\ t \in Live /\ ~registry[t].revoked /\ Change
  /\ registry' = [registry EXCEPT ![t].revoked = TRUE]
  /\ UNCHANGED <<suspended, published>>

SetSuspension(scope) ==
  /\ scope[1] # "path" /\ Change
  /\ suspended' \in {suspended \union {scope}, suspended \ {scope}} \ {suspended}
  /\ UNCHANGED <<registry, published>>

(* A scan publishes other zones (ZoneOperations). *)
Publish(snapshot) ==
  /\ snapshot # published /\ Change /\ published' = snapshot
  /\ UNCHANGED <<registry, suspended>>

Administer ==
  \/ \E t \in Token : Create(t) \/ Extend(t) \/ Rotate(t) \/ Revoke(t)
  \/ \E s \in Scope : SetSuspension(s)
  \/ \E s \in Snapshots : Publish(s)

Less(left) == IF left \in {0, Forever} THEN left ELSE left - 1
Aged(row) == IF row = None THEN None ELSE [row EXCEPT !.left = Less(@)]
=============================================================================
