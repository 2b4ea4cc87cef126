----------------------------- MODULE MCHttpClient -----------------------------
(* Three requests, one of them with a URL that is refused. *)
EXTENDS HttpClient

CONSTANTS r1, r2, bad

MCPort == [r \in Request |-> IF r = bad THEN NoPort ELSE 80]
=============================================================================
