--------------------------- MODULE MCLdapAuthPool ---------------------------
(* Small instances of LdapAuthPool: two credentials, one of them valid. *)
EXTENDS LdapAuthPool, TLC

CONSTANTS r1, r2, r3, good, bad

MCCreds == {good, bad}
MCValid == {good}
MCCredOf == (r1 :> good) @@ (r2 :> bad) @@ (r3 :> good)
MCCredOf2 == (r1 :> good) @@ (r2 :> bad)
=============================================================================
