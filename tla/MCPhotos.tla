------------------------------- MODULE MCPhotos -------------------------------
(* One category and one item, one stored photo and three requests, for TLC. *)
EXTENDS Photos, TLC

CONSTANTS burgers, zinger, k0, q1, q2, q3

MCImages ==
    {(burgers :> k0) @@ (zinger :> None), (burgers :> None) @@ (zinger :> Link),
     (burgers :> Link) @@ (zinger :> k0)}

Ask(op, on) == [op |-> op, on |-> on, sound |-> TRUE]
Spoilt(on) == [op |-> "upload", on |-> on, sound |-> FALSE]

All(a, b, c) == (q1 :> a) @@ (q2 :> b) @@ (q3 :> c)

MCScenarios ==
    {All(Ask("upload", burgers), Ask("upload", burgers), Ask("remove", burgers)),
     All(Ask("upload", zinger), Ask("form", zinger), Ask("delete", zinger)),
     All(Ask("upload", burgers), Ask("upload", zinger), Spoilt(zinger)),
     All(Ask("upload", zinger), Ask("remove", zinger), Ask("form", zinger)),
     All(Ask("upload", burgers), Ask("remove", burgers), Ask("delete", burgers))}

=============================================================================
