---------------------------- MODULE MCZoneContents ----------------------------
(* ZoneContents, for TLC: two zones of one device and pairs of requests that  *)
(* compete for items, room and retention.                                     *)
EXTENDS ZoneContents, TLC

CONSTANTS a, b, r1, r2, x, y

Order(op, zone, to, names, into, replace, data, created, drop) ==
  [op |-> op, zone |-> zone, to |-> to, names |-> names, into |-> into, replace |-> replace,
   data |-> data, created |-> created, staged |-> drop]

Paste(z, data) == Order("upload", z, z, {}, None, {}, data, 2, FALSE)
Upload(z, n, data, replace) == Order("upload", z, z, {n}, None, replace, data, 1, FALSE)
Drop(z, n, data) == Order("upload", z, z, {n}, None, {n}, data, 2, TRUE)
Deletion(z, names) == Order("delete", z, z, names, None, {}, x, 1, FALSE)
Renaming(z, n, m) == Order("rename", z, z, {n}, m, {}, x, 1, FALSE)
Transfer(op, z, to, names, replace) == Order(op, z, to, names, None, replace, x, 1, FALSE)

Registration(z, n) == Order("register", z, z, {n}, None, {}, x, 2, FALSE)

Two(p, q) == (r1 :> p) @@ (r2 :> q)

MCRetain == (a :> 2) @@ (b :> 1)
MCDevice == (a :> "d") @@ (b :> "d")
MCRoom == (a :> 5) @@ (b :> 4)

Commenting(z, n) == Order("comment", z, z, {n}, None, {}, y, 1, FALSE)

Old(data) == [data |-> data, created |-> 1, comment |-> None]
New(data) == [data |-> data, created |-> 3, comment |-> y]
Foreign(data) == [data |-> data, created |-> 0, comment |-> None]
Stock(i, j, k) == << i, j, k >>

(* Two items and an empty target; a target that has a newer item of the same *)
(* name; a zone that is full; a file that is no item beside a commented one. *)
MCStocks == { (a :> Stock(Old(x), Old(y), None)) @@ (b :> Stock(None, None, None)),
              (a :> Stock(Old(x), Old(y), None)) @@ (b :> Stock(New(y), None, None)),
              (a :> Stock(Old(x), Old(y), New(x))) @@ (b :> Stock(None, None, None)),
              (a :> Stock(New(x), Old(y), Foreign(x))) @@ (b :> Stock(None, None, None)) }

(* A move of two items, which the target does not retain, meets a deletion; *)
(* a move of one meets a direct drop into the source, an upload into the    *)
(* target and a copy back; then two pastes of the same content, a paste     *)
(* into a full zone, uploads into two zones, and files registered while     *)
(* they are replaced or commented, or retention prunes.                     *)
MCOrders ==
  LET Move == Transfer("move", a, b, {1, 2}, {1})
      MoveOne == Transfer("move", a, b, {1}, {1})
  IN { Two(Move, Deletion(a, {1, 2})), Two(MoveOne, Drop(a, 3, x)), Two(MoveOne, Upload(b, 1, x, {1})),
       Two(MoveOne, Transfer("copy", b, a, {1}, {1})),
       Two(Transfer("copy", a, b, {1}, {1}), Commenting(a, 1)),
       Two(Paste(b, x), Paste(b, x)), Two(Paste(a, y), Upload(b, 3, x, {})),
       Two(Renaming(a, 1, 3), Upload(a, 1, y, {1})),
       Two(Transfer("copy", a, b, {1, 2, 3}, {}), Paste(a, y)),
       Two(Registration(a, 3), Upload(a, 3, y, {3})), Two(Registration(a, 1), Commenting(a, 1)),
       Two(Registration(a, 3), Paste(a, y)) }
=============================================================================
