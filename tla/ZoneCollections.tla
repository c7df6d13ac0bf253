---------------------------- MODULE ZoneCollections ----------------------------
(***************************************************************************)
(* Discovery of the zones of the collections (runtime/zone_collection.py): *)
(* each rule walks the directories below its base and finds the leaves     *)
(* that match its pattern; what the rules found is merged by identity of   *)
(* the directory, then by the id the zone would have.                      *)
(*                                                                         *)
(* A directory is its canonical path, a sequence of names. What one pass   *)
(* observes, and caches for all the rules, is fs:                          *)
(*   key      the identity of each directory (two paths of a bind mount    *)
(*            share it), or the path itself without inode numbers          *)
(*   entries  the directories its entries lead to, in the order of their   *)
(*            names, None for an entry that cannot be inspected or         *)
(*            resolved; None instead, if it cannot be read                 *)
(* A rule has a base, a depth, the relative paths its pattern matches, and *)
(* the settings of its zones, as one value. Labels, colours and            *)
(* diagnostics are left out.                                               *)
(***************************************************************************)
EXTENDS Naturals, Sequences, SequencesExt, FiniteSets

CONSTANTS
  None,
  ZoneId,  \* the id that each relative path gives a zone, None if invalid
  Place    \* the place of each relative path in the order of names

Below(base, dir) == IsPrefix(base, dir) /\ dir # base

Relative(dir, base) == SubSeq(dir, Len(base) + 1, Len(dir))

Depth(dir, base) == Len(dir) - Len(base)

Leaf(fs, dir) == fs.entries[dir] = << >>

----------------------------------------------------------------------------
(* The walk of one rule: the directories to look into, a stack; the keys of *)
(* those looked into; the candidates found.                                 *)

(* A link that leads out of the base is not followed.                       *)
Children(fs, rule, dir) ==
  SelectSeq(fs.entries[dir],
    LAMBDA child : /\ child # None
                   /\ Below(rule.base, child)
                   /\ Depth(child, rule.base) <= rule.depth)

Matching(fs, rule, children) ==
  { child \in children : Relative(child, rule.base) \in rule.matches /\ Leaf(fs, child) }

(* The directories above the one looked into are among those seen, so that  *)
(* the test of the ancestors adds nothing to the one of the keys.           *)
Visit(fs, rule, walk) ==
  LET dir == Head(walk.stack)
      rest == Tail(walk.stack)
      unseen == fs.key[dir] \notin walk.seen
      readable == fs.entries[dir] # None
      children == IF unseen /\ readable THEN Children(fs, rule, dir) ELSE << >>
      deeper == SelectSeq(children, LAMBDA child : Depth(child, rule.base) < rule.depth)
  IN [stack |-> deeper \o rest,
      seen |-> walk.seen \cup {fs.key[dir]},
      found |-> walk.found \cup Matching(fs, rule, Range(children))]

(* The walk ends: a directory is entered from each entry at most once.      *)
Visits(fs) ==
  LET entries(dir) == IF fs.entries[dir] = None THEN 0 ELSE Len(fs.entries[dir])
  IN 1 + FoldFunction(+, 0, [dir \in DOMAIN fs.entries |-> entries(dir)])

Walk(fs, rule) ==
  LET walk[n \in 0..Visits(fs)] ==
        IF n = 0 THEN [stack |-> << rule.base >>, seen |-> {}, found |-> {}]
        ELSE LET before == walk[n - 1]
             IN IF before.stack = << >> THEN before ELSE Visit(fs, rule, before)
  IN walk[Visits(fs)]

(* A base that does not exist has no key.                                   *)
Found(fs, rule) ==
  IF rule.base \in DOMAIN fs.key THEN Walk(fs, rule).found ELSE {}

----------------------------------------------------------------------------
(* What the rules found, merged. The configured zones, of which a set of    *)
(* records with id and dir is given, have precedence.                       *)

Configured(fs, static, dir) ==
  \/ \E zone \in static : zone.dir = dir
  \/ \E zone \in static : zone.dir \in DOMAIN fs.key /\ fs.key[zone.dir] = fs.key[dir]

Records(fs, rules, static) ==
  { record \in UNION { [rule : {i}, dir : Found(fs, rules[i])] : i \in DOMAIN rules } :
      ~ Configured(fs, static, record.dir) }

Keys(fs, records) == { fs.key[record.dir] : record \in records }

Sharing(fs, records, key) == { record \in records : fs.key[record.dir] = key }

(* Rules that would set up the zone differently: nobody gets it.            *)
Agreed(rules, sharing) ==
  \A r1, r2 \in sharing : rules[r1.rule].settings = rules[r2.rule].settings

Rank(rules, record) == Place[Relative(record.dir, rules[record.rule].base)]

Precedes(rules, r1, r2) ==
  \/ Rank(rules, r1) < Rank(rules, r2)
  \/ Rank(rules, r1) = Rank(rules, r2) /\ r1.rule <= r2.rule

Canonical(rules, sharing) ==
  CHOOSE record \in sharing : \A other \in sharing : Precedes(rules, record, other)

Candidate(rules, sharing) ==
  LET canonical == Canonical(rules, sharing)
  IN [id |-> ZoneId[Relative(canonical.dir, rules[canonical.rule].base)],
      dir |-> canonical.dir,
      rules |-> { record.rule : record \in sharing }]

Candidates(fs, rules, records) ==
  { Candidate(rules, Sharing(fs, records, key)) :
      key \in { k \in Keys(fs, records) : Agreed(rules, Sharing(fs, records, k)) } }

(* An id that two directories would have goes to neither.                   *)
Discovered(fs, rules, static) ==
  LET candidates == Candidates(fs, rules, Records(fs, rules, static))
      named == { zone \in candidates : zone.id # None /\ \A s \in static : s.id # zone.id }
  IN { zone \in named : \A other \in named : other.id = zone.id => other = zone }

(* The active zones of each collection, in the order of all the zones.      *)
Members(rules, discovered, zones) ==
  LET of(collection, id) == \E zone \in discovered :
        zone.id = id /\ \E i \in zone.rules : rules[i].id = collection
      named == { rules[i].id : i \in UNION { zone.rules : zone \in
                   { z \in discovered : z.id \in Range(zones) } } }
  IN [collection \in named |-> SelectSeq(zones, LAMBDA id : of(collection, id))]

----------------------------------------------------------------------------
(* Two zones of a snapshot differ in their id and in their directory, even  *)
(* if it is known by two paths: ZoneOperations relies on it when it takes   *)
(* the locks of two zones for the locks of two directories.                 *)
Apart(fs, discovered) ==
  \A z1, z2 \in discovered :
    z1 # z2 => z1.id # z2.id /\ fs.key[z1.dir] # fs.key[z2.dir]

(* A configured zone keeps its id and its directory for itself.             *)
Spared(fs, static, discovered) ==
  \A zone \in discovered :
    /\ ~ Configured(fs, static, zone.dir)
    /\ \A s \in static : s.id # zone.id

(* All the collections that found the directory of a zone, by whatever path *)
(* of it, list the zone and would have set it up the same way.              *)
Settled(fs, rules, static, discovered) ==
  \A zone \in discovered :
    LET finders == { i \in DOMAIN rules : \E dir \in Found(fs, rules[i]) :
                       /\ fs.key[dir] = fs.key[zone.dir]
                       /\ ~ Configured(fs, static, dir) }
    IN /\ zone.rules = finders
       /\ \A i, j \in finders : rules[i].settings = rules[j].settings
=============================================================================
