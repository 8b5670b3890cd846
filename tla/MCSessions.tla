----------------------------- MODULE MCSessions -----------------------------
(* Three requests around one account, for TLC.                             *)
EXTENDS Sessions, TLC

CONSTANTS r1, r2, r3

\* A session that is used, exchanged twice and closed beside a second one, or
\* right and wrong passwords around the throttle.
Mixed == (r1 :> {"login", "mistype"}) @@ (r2 :> {"login", "mistype", "refresh", "logout"})
         @@ (r3 :> {"refresh", "logout", "call"})

=============================================================================
