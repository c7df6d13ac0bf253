------------------------- MODULE ZoneCollectionsProofs -------------------------
(***************************************************************************)
(* What a discovery promises, for every file system, every set of rules    *)
(* and every configuration. Nothing is assumed of the walk: whatever each  *)
(* rule finds, the merge keeps zones apart.                                *)
(***************************************************************************)
EXTENDS ZoneCollections, WellFoundedInduction, TLAPS

(* A nonempty set of numbers has a least one.                               *)
LEMMA LeastNumber ==
  ASSUME NEW T \in SUBSET Nat, T # {}
  PROVE  \E x \in T : \A y \in T : x <= y
<1>1. PICK x \in T : \A y \in T : ~ (<< y, x >> \in OpToRel(<, Nat))
  BY WFMin, NatLessThanWellFounded, Zenon
<1>2. \A y \in T : x <= y
  <2>1. \A y \in Nat : << y, x >> \in OpToRel(<, Nat) <=> y < x
    BY Zenon DEF OpToRel
  <2>2. \A y \in T : ~ (y < x)
    BY <1>1, <2>1, Zenon
  <2> QED
    BY <2>2, SMT
<1> QED
  BY <1>2

(* The records of one directory have a first one.                           *)
LEMMA CanonicalExists ==
  ASSUME NEW rules, NEW sharing, sharing # {},
         \A r \in sharing : r.rule \in Nat /\ Rank(rules, r) \in Nat
  PROVE  /\ Canonical(rules, sharing) \in sharing
         /\ \A r \in sharing : Precedes(rules, Canonical(rules, sharing), r)
<1> DEFINE ranks == { Rank(rules, r) : r \in sharing }
<1>1. PICK low \in ranks : \A y \in ranks : low <= y
  <2>1. ranks \in SUBSET Nat /\ ranks # {}
    OBVIOUS
  <2> QED
    BY <2>1, LeastNumber
<1> DEFINE first == { r \in sharing : Rank(rules, r) = low }
           indexes == { r.rule : r \in first }
<1>2. PICK i \in indexes : \A y \in indexes : i <= y
  <2>1. indexes \in SUBSET Nat /\ indexes # {}
    BY <1>1
  <2> QED
    BY <2>1, LeastNumber
<1>3. PICK record \in first : record.rule = i
  BY <1>2
<1>4. ASSUME NEW r \in sharing
      PROVE  Precedes(rules, record, r)
  <2>1. CASE Rank(rules, r) = low
    <3>1. i <= r.rule
      BY <2>1, <1>2
    <3> QED
      BY <2>1, <3>1, <1>3 DEF Precedes
  <2>2. CASE Rank(rules, r) # low
    <3>1. low <= Rank(rules, r) /\ low \in Nat /\ Rank(rules, r) \in Nat
      BY <1>1
    <3>2. low < Rank(rules, r)
      BY <2>2, <3>1, SMT
    <3> QED
      BY <3>2, <1>3 DEF Precedes
  <2> QED
    BY <2>1, <2>2
<1>5. \E r \in sharing : \A other \in sharing : Precedes(rules, r, other)
  BY <1>3, <1>4
<1> QED
  BY <1>5 DEF Canonical

(* What the proofs suppose of the arguments: rules are numbered, and every  *)
(* path found has its place among the names.                                *)
WellPlaced(fs, rules, static) ==
  \A r \in Records(fs, rules, static) : r.rule \in Nat /\ Rank(rules, r) \in Nat

(* A candidate comes from the records that share one identity.              *)
LEMMA CandidateOrigin ==
  ASSUME NEW fs, NEW rules, NEW static, WellPlaced(fs, rules, static),
         NEW zone \in Candidates(fs, rules, Records(fs, rules, static))
  PROVE  LET records == Records(fs, rules, static)
             sharing == Sharing(fs, records, fs.key[zone.dir])
         IN /\ zone = Candidate(rules, sharing)
            /\ Agreed(rules, sharing)
            /\ \E r \in sharing : zone.dir = r.dir
<1> DEFINE records == Records(fs, rules, static)
<1>1. PICK key \in Keys(fs, records) :
        Agreed(rules, Sharing(fs, records, key)) /\ zone = Candidate(rules, Sharing(fs, records, key))
  BY DEF Candidates
<1> DEFINE sharing == Sharing(fs, records, key)
<1>2. sharing # {} /\ sharing \subseteq records
  BY <1>1 DEF Keys, Sharing
<1>3. Canonical(rules, sharing) \in sharing
  BY <1>2, CanonicalExists DEF WellPlaced
<1>4. zone.dir = Canonical(rules, sharing).dir
  BY <1>1 DEF Candidate
<1>5. fs.key[zone.dir] = key
  BY <1>3, <1>4 DEF Sharing
<1> QED
  BY <1>1, <1>3, <1>4, <1>5

(* Two zones of a snapshot have different ids and different directories     *)
(* (the by_identity and by_id tables of discover_zone_collections).         *)
THEOREM DiscoveredApart ==
  ASSUME NEW fs, NEW rules, NEW static, WellPlaced(fs, rules, static)
  PROVE  Apart(fs, Discovered(fs, rules, static))
<1> DEFINE records == Records(fs, rules, static)
<1> SUFFICES ASSUME NEW z1 \in Discovered(fs, rules, static),
                    NEW z2 \in Discovered(fs, rules, static), z1 # z2
             PROVE  z1.id # z2.id /\ fs.key[z1.dir] # fs.key[z2.dir]
  BY DEF Apart
<1>1. z1.id # z2.id
  BY DEF Discovered
<1>2. z1 \in Candidates(fs, rules, records) /\ z2 \in Candidates(fs, rules, records)
  BY DEF Discovered
<1>3. /\ z1 = Candidate(rules, Sharing(fs, records, fs.key[z1.dir]))
      /\ z2 = Candidate(rules, Sharing(fs, records, fs.key[z2.dir]))
  BY <1>2, CandidateOrigin
<1> QED
  BY <1>1, <1>3

(* No zone of a collection takes the id, the path or the directory, by      *)
(* another path, of a configured zone.                                      *)
THEOREM ConfiguredSpared ==
  ASSUME NEW fs, NEW rules, NEW static, WellPlaced(fs, rules, static)
  PROVE  Spared(fs, static, Discovered(fs, rules, static))
<1> DEFINE records == Records(fs, rules, static)
<1> SUFFICES ASSUME NEW zone \in Discovered(fs, rules, static)
             PROVE  /\ ~ Configured(fs, static, zone.dir)
                    /\ \A s \in static : s.id # zone.id
  BY DEF Spared
<1>1. zone \in Candidates(fs, rules, records) /\ \A s \in static : s.id # zone.id
  BY DEF Discovered
<1>2. PICK r \in Sharing(fs, records, fs.key[zone.dir]) : zone.dir = r.dir
  BY <1>1, CandidateOrigin
<1>3. ~ Configured(fs, static, r.dir)
  BY <1>2 DEF Sharing, Records
<1> QED
  BY <1>1, <1>2, <1>3

(* A zone belongs to every collection that found its directory, and all of  *)
(* them would give it the same settings.                                    *)
THEOREM CollectionsAgree ==
  ASSUME NEW fs, NEW rules, NEW static, WellPlaced(fs, rules, static)
  PROVE  Settled(fs, rules, static, Discovered(fs, rules, static))
<1> DEFINE records == Records(fs, rules, static)
<1> SUFFICES ASSUME NEW zone \in Discovered(fs, rules, static)
             PROVE  LET finders == { i \in DOMAIN rules : \E dir \in Found(fs, rules[i]) :
                                       /\ fs.key[dir] = fs.key[zone.dir]
                                       /\ ~ Configured(fs, static, dir) }
                    IN /\ zone.rules = finders
                       /\ \A i, j \in finders : rules[i].settings = rules[j].settings
  BY DEF Settled
<1> DEFINE finders == { i \in DOMAIN rules : \E dir \in Found(fs, rules[i]) :
                          /\ fs.key[dir] = fs.key[zone.dir]
                          /\ ~ Configured(fs, static, dir) }
           sharing == Sharing(fs, records, fs.key[zone.dir])
<1>1. zone = Candidate(rules, sharing) /\ Agreed(rules, sharing)
  BY CandidateOrigin DEF Discovered
<1>2. \A r : r \in records <=> /\ \E i \in DOMAIN rules : r \in [rule : {i}, dir : Found(fs, rules[i])]
                               /\ ~ Configured(fs, static, r.dir)
  BY DEF Records
<1>3. ASSUME NEW i, i \in finders
      PROVE  \E r \in sharing : r.rule = i
  <2>1. PICK dir \in Found(fs, rules[i]) :
          fs.key[dir] = fs.key[zone.dir] /\ ~ Configured(fs, static, dir)
    BY <1>3
  <2> DEFINE r == [rule |-> i, dir |-> dir]
  <2>2. r \in records
    BY <1>2, <1>3, <2>1
  <2> QED
    BY <2>1, <2>2 DEF Sharing
<1>4. ASSUME NEW r \in sharing
      PROVE  r.rule \in finders
  <2>1. r \in records /\ fs.key[r.dir] = fs.key[zone.dir]
    BY DEF Sharing
  <2>2. PICK i \in DOMAIN rules : r \in [rule : {i}, dir : Found(fs, rules[i])]
    BY <1>2, <2>1
  <2>3. r.rule = i /\ r.dir \in Found(fs, rules[i])
    BY <2>2
  <2> QED
    BY <1>2, <2>1, <2>3
<1>5. zone.rules = { r.rule : r \in sharing }
  BY <1>1 DEF Candidate
<1>6. zone.rules = finders
  BY <1>3, <1>4, <1>5
<1>7. ASSUME NEW i \in finders, NEW j \in finders
      PROVE  rules[i].settings = rules[j].settings
  <2>1. PICK r \in sharing, q \in sharing : r.rule = i /\ q.rule = j
    BY <1>3
  <2> QED
    BY <2>1, <1>1 DEF Agreed
<1> QED
  BY <1>6, <1>7
=============================================================================
