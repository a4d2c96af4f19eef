---------------------------- MODULE LoginLimiter ----------------------------
(***************************************************************************)
(* LoginRateLimiter (internal/server/auth/ratelimit.go) and its two calls  *)
(* in HandleLogin.  Entries are made on first use, full, and removed when  *)
(* they were not used for an hour, so the table does not grow for ever.    *)
(* checkKey looks an entry up under the mutex and takes a token after it;  *)
(* that the two are not an hour apart is taken for granted, and they are   *)
(* one step.                                                               *)
(***************************************************************************)
EXTENDS Naturals, FiniteSets

CONSTANTS
    Names,     \* usernames of login attempts
    Addresses, \* client addresses
    Burst,     \* tokens of a full bucket, 5 in cmd/server/main.go
    Hour,      \* age at which an unused entry is removed
    Minute,    \* shortest time between two cleanups
    Logins,    \* login requests that run at the same time
    MaxTime    \* bound on the clock

ASSUME LimiterAssumption ==
    /\ Burst \in Nat \ {0} /\ {Hour, Minute, MaxTime} \subseteq Nat
    /\ Burst <= Hour  \* at one token a second a bucket is full long before an hour

VARIABLES limiters, lastCleanup, clock, login
vars == <<limiters, lastCleanup, clock, login>>

\* "user:" with the empty name of the first call, "user:"+name and "ip:"+address.
NoName == "user:"
Keys == {NoName} \cup Names \cup Addresses

None == [tokens |-> 0, used |-> 0, there |-> FALSE]
Waiting == [pc |-> "idle"]

Init ==
    /\ limiters = [k \in Keys |-> None]
    /\ lastCleanup = 0 /\ clock = 0
    /\ login = [l \in Logins |-> Waiting]

\* The entry of a key, made full when there is none.
Entry(k) == IF limiters[k].there THEN [limiters[k] EXCEPT !.used = clock]
            ELSE [tokens |-> Burst, used |-> clock, there |-> TRUE]

Evicted_Any(k) == limiters[k].there

\* The entries the periodic cleanup removes.
Evicted(k) == limiters[k].there /\ clock - limiters[k].used > Hour

\* The table after lookups of the keys S, each followed by a taken token in T.
Looked(S, T) ==
    [k \in Keys |->
        IF k \in S THEN [Entry(k) EXCEPT !.tokens = IF k \in T THEN @ - 1 ELSE @]
        ELSE IF clock - lastCleanup > Minute /\ Evicted(k) THEN None ELSE limiters[k]]

\* One call Allow(r, name): the bucket of the name, and only if that has a
\* token the one of the address.
Allow(l, name, next) ==
    LET a == login[l].address
        named == Entry(name).tokens > 0
        placed == Entry(a).tokens > 0 IN
    /\ limiters' = Looked(IF named THEN {name, a} ELSE {name},
                          {k \in {name, a} : named /\ (k = name \/ placed)})
    /\ lastCleanup' = IF clock - lastCleanup > Minute THEN clock ELSE lastCleanup
    /\ login' = [login EXCEPT ![l].pc = IF named /\ placed THEN next ELSE "refused"]
    /\ UNCHANGED clock

Attempt(l, n, a) ==
    /\ login[l].pc \in {"idle", "refused", "allowed"}
    /\ login' = [login EXCEPT ![l] = [pc |-> "empty", name |-> n, address |-> a]]
    /\ UNCHANGED <<limiters, lastCleanup, clock>>

\* HandleLogin asks once before it parses the request, with no name,
AllowAnybody(l) == login[l].pc = "empty" /\ Allow(l, NoName, "name")
\* and once with the name.
AllowNamed(l) == login[l].pc = "name" /\ Allow(l, login[l].name, "allowed")

\* A unit of time passes: rate.Limit(1).
Tick ==
    /\ clock < MaxTime
    /\ clock' = clock + 1
    /\ limiters' = [k \in Keys |-> IF limiters[k].there /\ limiters[k].tokens < Burst
                                   THEN [limiters[k] EXCEPT !.tokens = @ + 1] ELSE limiters[k]]
    /\ UNCHANGED <<lastCleanup, login>>

Next ==
    \/ \E l \in Logins :
         \/ \E n \in Names, a \in Addresses : Attempt(l, n, a)
         \/ AllowAnybody(l)
         \/ AllowNamed(l)
    \/ Tick

Spec == Init /\ [][Next]_vars

-----------------------------------------------------------------------------
(* Properties *)

\* The tokens a key has: a key without an entry has a full bucket.
Tokens == [k \in Keys |-> IF limiters[k].there THEN limiters[k].tokens ELSE Burst]

Promise == INSTANCE TokenBuckets WITH bucket <- Tokens

(* For every key the limiter with its lazily made and evicted entries      *)
(* implements a bucket that is never forgotten: eviction in checkKey gives *)
(* nobody tokens back.                                                     *)
NeverForgets == Promise!Spec

=============================================================================
