----------------------------- MODULE GpuAllocator -----------------------------
(***************************************************************************)
(* What the lease table promises about GPUs.  A GPU is free or belongs to  *)
(* one instance.  An instance takes all its GPUs in one step, only when    *)
(* all of them are free and only once in its life; whatever it holds goes  *)
(* back to free in one step, and never straight to another instance.       *)
(***************************************************************************)
CONSTANTS Gpus, Instances, Free

VARIABLES
    owner,    \* the instance that holds each GPU, or Free
    started   \* the instances that have taken their GPUs, now or earlier

vars == <<owner, started>>

Init ==
    /\ owner = [g \in Gpus |-> Free]
    /\ started = {}

Acquire(i, S) ==
    /\ i \notin started
    /\ \A g \in S : owner[g] = Free
    /\ owner' = [g \in Gpus |-> IF g \in S THEN i ELSE owner[g]]
    /\ started' = started \cup {i}

Release(I) ==
    /\ owner' = [g \in Gpus |-> IF owner[g] \in I THEN Free ELSE owner[g]]
    /\ UNCHANGED started

Next ==
    \/ \E i \in Instances, S \in SUBSET Gpus : Acquire(i, S)
    \/ \E I \in SUBSET Instances : Release(I)

Spec == Init /\ [][Next]_vars
=============================================================================
