--------------------------- MODULE MCTokenRefresh ---------------------------
(* Small instances of TokenRefresh: two calls in one session, one in another. *)
EXTENDS TokenRefresh, TLC

CONSTANTS s1, s2, c1, c2, c3

HomeOf == (c1 :> s1) @@ (c2 :> s1) @@ (c3 :> s2)

=============================================================================
