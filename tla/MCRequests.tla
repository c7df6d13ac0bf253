------------------------------- MODULE MCRequests -------------------------------
(* Requests, for TLC: one token with a right on a zone, a group and a path.  *)
EXTENDS Requests, TLC

CONSTANTS a, b, g, pa, pb, t

Give(scope, may, replace) == [scope |-> scope, may |-> may, replace |-> replace]
MCGrants ==
  { {Give(<<"group", g>>, {"list", "read"}, FALSE), Give(<<"zone", a>>, {"write"}, FALSE),
     Give(<<"path", pb>>, {"read", "write"}, TRUE)} }

Map(atA, atB, members) == [path |-> (a :> atA) @@ (b :> atB), members |-> (g :> members)]
MCSnapshots == {Map(pa, pb, {a}), Map(pb, pb, {a, b}), Map(None, pb, {b})}

Want(kind, secret, zone, to, replace) ==
  [kind |-> kind, token |-> t, secret |-> secret, zone |-> zone, to |-> to, replace |-> replace]
MCAsk == {Want("list", 1, a, a, FALSE), Want("preview", 1, b, b, FALSE), Want("preview", 2, a, a, FALSE),
          Want("upload", 1, b, b, TRUE), Want("transfer", 1, a, b, TRUE), Want("archive", 1, a, a, FALSE)}
=============================================================================
