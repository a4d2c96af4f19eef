---------------------------- MODULE TokenBuckets ----------------------------
(***************************************************************************)
(* What a rate limiter promises: for every key a bucket of Burst tokens    *)
(* that regains one token per unit of time and is never forgotten.  In any *)
(* interval of n units at most Burst + n attempts of a key pass.           *)
(***************************************************************************)
EXTENDS Naturals

CONSTANTS Keys, Burst

VARIABLE bucket

Init == bucket = [k \in Keys |-> Burst]

\* An attempt takes a token from each of some buckets, none of them empty.
Take(S) == /\ \A k \in S : bucket[k] > 0
           /\ bucket' = [k \in Keys |-> IF k \in S THEN bucket[k] - 1 ELSE bucket[k]]

Refill == bucket' = [k \in Keys |-> IF bucket[k] < Burst THEN bucket[k] + 1 ELSE Burst]

Next == Refill \/ \E S \in SUBSET Keys : Take(S)

Spec == Init /\ [][Next]_bucket
=============================================================================
