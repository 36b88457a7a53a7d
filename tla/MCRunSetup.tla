----------------------------- MODULE MCRunSetup ------------------------------
(* Two definitions, of one and two steps, and two prefixes that race for   *)
(* one run_id.                                                             *)
EXTENDS RunSetup, TLC

CONSTANTS short, long, x, y, s1, s2, s3, a1, r1

Steps == (short :> 1) @@ (long :> 2)
Definitions == (s1 :> short) @@ (s2 :> long) @@ (s3 :> long) @@ (a1 :> short)
Prefixes == (s1 :> x) @@ (s2 :> x) @@ (s3 :> y)
=============================================================================
