---------------------------- MODULE MCZoneOperations ----------------------------
(* ZoneOperations, for TLC: two zones, of which a collection discovers one,   *)
(* and sets of operations that compete for the same directories.              *)
EXTENDS ZoneOperations, TLC

CONSTANTS a, b, o1, o2

Job(kind, zones, daemon, exclusive, blocking, asks) ==
  [kind |-> kind, zones |-> zones, daemon |-> daemon, exclusive |-> exclusive,
   blocking |-> blocking, refresh |-> asks]

Command(x, y) == Job("transfer", << x, y >>, FALSE, TRUE, TRUE, FALSE)
Transfer(x, y) == Job("transfer", << x, y >>, TRUE, TRUE, FALSE, TRUE)
Upload(x) == Job("upload", << x >>, TRUE, TRUE, TRUE, TRUE)
DeleteBatch(x) == Job("delete_batch", << x >>, TRUE, TRUE, FALSE, TRUE)
History(x, asks) == Job("history", << x >>, TRUE, FALSE, FALSE, asks)
Read(x) == Job("read", << x >>, TRUE, FALSE, TRUE, FALSE)

Two(x, y) == (o1 :> x) @@ (o2 :> y)

(* Directory 1 sorts before that of b and directory 3 after it.               *)
MCHome == (a :> 1) @@ (b :> 2)

(* Transfers in opposite directions, of two commands or of a command and the  *)
(* daemon; a transfer, a batch deletion or a reader and an upload; two        *)
(* readings of the history, one of them for an overview.                      *)
MCJobs == { Two(Command(a, b), Command(b, a)), Two(Transfer(a, b), Command(b, a)),
            Two(Transfer(b, a), Upload(a)), Two(DeleteBatch(a), Upload(a)),
            Two(Read(a), Upload(a)), Two(History(a, TRUE), History(a, FALSE)) }

----------------------------------------------------------------------------
(* The discovery that gives the zones their directories, on small trees: a  *)
(* base with two directories, one of which may have one of its own. Each    *)
(* may have a broken entry or a link to any of them, or be unreadable; a    *)
(* bind mount may show one of them at the place of another.                 *)

MCBase == << >>
MCLeft == << 1 >>
MCRight == << 2 >>
MCInner == << 1, 1 >>

MCNames == (MCLeft :> "1") @@ (MCRight :> "2") @@ (MCInner :> "1-1") @@ (<< 2, 1 >> :> None)
MCPlace == (MCLeft :> 1) @@ (MCInner :> 2) @@ (MCRight :> 3)

Collections == INSTANCE ZoneCollections WITH ZoneId <- MCNames, Place <- MCPlace

Outer(depth) == [base |-> MCBase, depth |-> depth, matches |-> {MCLeft, MCRight, MCInner},
                 settings |-> "plain", id |-> "outer"]
Within(settings) == [base |-> MCLeft, depth |-> 1, matches |-> {MCLeft},
                     settings |-> settings, id |-> "within"]

Trees(dirs, keys) ==
  LET more == {<< >>, << None >>} \cup { << dir >> : dir \in dirs }
      own == [dir \in dirs |-> IF dir = MCBase THEN << MCLeft, MCRight >>
                               ELSE IF dir = MCLeft /\ MCInner \in dirs THEN << MCInner >>
                               ELSE << >>]
      entries(choice) == [dir \in dirs |-> IF choice[dir] = None THEN None
                                           ELSE own[dir] \o choice[dir]]
  IN { [key |-> keys, entries |-> entries(choice)] : choice \in [dirs -> more \cup {None}] }

Plain == { [d \in {MCBase, MCLeft, MCRight, MCInner} |-> d] }
Bound == { (MCBase :> MCBase) @@ (MCLeft :> MCLeft) @@ (MCRight :> MCRight) @@ (MCInner :> MCRight),
           (MCBase :> MCBase) @@ (MCLeft :> MCLeft) @@ (MCRight :> MCLeft) @@ (MCInner :> MCInner) }
Shallow == [d \in {MCBase, MCLeft, MCRight} |-> d]

AllTrees == UNION { Trees({MCBase, MCLeft, MCRight, MCInner}, keys) : keys \in Plain \cup Bound }
              \cup Trees({MCBase, MCLeft, MCRight}, Shallow)

(* What can be reached from the base, by any way, less deep than the limit. *)
Reachable(fs, rule) ==
  LET leads(dir) == IF fs.entries[dir] = None THEN {} ELSE Collections!Range(Collections!Children(fs, rule, dir))
      closed == { S \in SUBSET DOMAIN fs.key :
                    /\ rule.base \in S
                    /\ \A dir \in S : { child \in leads(dir) :
                                          Collections!Depth(child, rule.base) < rule.depth } \subseteq S }
      entered == { dir \in DOMAIN fs.key : \A S \in closed : dir \in S }
  IN UNION { Collections!Matching(fs, rule, leads(dir)) : dir \in entered }

(* The walk ends; by paths of different directories it finds what can be    *)
(* reached, and never more: the second path of a bind mount may be missed.  *)
ASSUME
  \A fs \in AllTrees, rule \in {Outer(1), Outer(2), Within("plain")} :
    LET walk == Collections!Walk(fs, rule)
    IN /\ walk.stack = << >>
       /\ walk.found \subseteq Reachable(fs, rule)
       /\ fs.key \in Plain \cup {Shallow} => walk.found = Reachable(fs, rule)

(* Two zones of a snapshot differ in id and directory, the configured zone  *)
(* keeps its own, and collections that share a zone agree on it.            *)
ASSUME
  \A fs \in AllTrees, settings \in {"plain", "other"},
     static \in { {}, { [id |-> "1", dir |-> MCInner] }, { [id |-> "0", dir |-> MCRight] } } :
    LET rules == << Outer(2), Within(settings) >>
        zones == Collections!Discovered(fs, rules, static)
    IN /\ Collections!Apart(fs, zones)
       /\ Collections!Spared(fs, static, zones)
       /\ Collections!Settled(fs, rules, static, zones)

(* The order of the members is the one of the zones, not of the discovery.  *)
ASSUME
  LET zones == { [id |-> "x", dir |-> MCLeft, rules |-> {1, 2}],
                 [id |-> "y", dir |-> MCRight, rules |-> {2}],
                 [id |-> "z", dir |-> MCInner, rules |-> {1}] }
      members == Collections!Members(<< Outer(2), Within("plain") >>, zones, << "y", "w", "x" >>)
  IN members = ("outer" :> << "x" >>) @@ ("within" :> << "y", "x" >>)
=============================================================================
