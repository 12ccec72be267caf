--------------------------- MODULE MCCheckCommand ---------------------------
(* A channel with room for one job: two workers on one proxy that a second   *)
(* pass may accept again, or one worker on two proxies and a comment.       *)
EXTENDS CheckCommand, TLC

CONSTANTS k1, k2

OneLine == <<k2>>
ThreeLines == <<k1, Junk, k2>>
MCVerdicts == (k1 :> {TRUE}) @@ (k2 :> {TRUE, FALSE})
=============================================================================
