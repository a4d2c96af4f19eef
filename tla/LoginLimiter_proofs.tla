------------------------- MODULE LoginLimiter_proofs -------------------------
(***************************************************************************)
(* The login limiter implements buckets that are never forgotten, for any  *)
(* names, addresses, burst and number of concurrent logins.  The step that *)
(* needs an argument is eviction: an entry that was not used for an hour   *)
(* has regained every token, because a bucket holds Burst tokens or at     *)
(* least one for each unit of time since it was used.                      *)
(***************************************************************************)
EXTENDS LoginLimiter, TLAPS

(* The entries of the table.                                               *)
Entries == [tokens : 0..Burst, used : Nat, there : BOOLEAN]

(* A request of HandleLogin.                                               *)
Attempts == [pc : {"empty", "name", "refused", "allowed"}, name : Names, address : Addresses]

(* Types of the variables.                                                 *)
LimiterType ==
    /\ limiters \in [Keys -> Entries]
    /\ clock \in Nat /\ lastCleanup \in Nat
    /\ login \in [Logins -> Attempts \cup {Waiting}]

(* What rate.Limit(1) has given back since the last use.                   *)
Refilled ==
    \A k \in Keys : limiters[k].there =>
        /\ limiters[k].used <= clock
        /\ limiters[k].tokens = Burst \/ limiters[k].tokens >= clock - limiters[k].used

(* The inductive invariant.                                                *)
IndInv == LimiterType /\ Refilled

-----------------------------------------------------------------------------

(* The entry a lookup finds or makes: it holds the tokens of the key.      *)
LEMMA EntryFacts ==
    ASSUME LimiterType, NEW k \in Keys
    PROVE  /\ Entry(k) \in Entries
           /\ Entry(k).there /\ Entry(k).used = clock
           /\ Entry(k).tokens = Tokens[k]
<1>1. limiters[k] \in Entries /\ clock \in Nat
  BY DEF LimiterType
<1>2. Tokens[k] = IF limiters[k].there THEN limiters[k].tokens ELSE Burst
  BY DEF Tokens
<1>3. CASE limiters[k].there
  BY <1>1, <1>2, <1>3 DEF Entry, Entries
<1>4. CASE ~limiters[k].there
  BY <1>1, <1>2, <1>4, LimiterAssumption DEF Entry, Entries
<1> QED
  BY <1>3, <1>4

(* An evicted entry was full.                                              *)
LEMMA EvictedIsFull ==
    ASSUME IndInv, NEW k \in Keys, Evicted(k)
    PROVE  limiters[k].tokens = Burst
<1>1. limiters[k] \in Entries /\ clock \in Nat
  BY DEF IndInv, LimiterType
<1>2. /\ limiters[k].tokens \in 0..Burst /\ limiters[k].used \in Nat
      /\ Burst \in Nat /\ Hour \in Nat /\ Burst <= Hour
  BY <1>1, LimiterAssumption DEF Entries
<1>3. clock - limiters[k].used > Hour
  BY DEF Evicted
<1>4. limiters[k].tokens = Burst \/ limiters[k].tokens >= clock - limiters[k].used
  BY DEF Evicted, IndInv, Refilled
<1> QED
  BY <1>1, <1>2, <1>3, <1>4

(* Lookups of S that take a token from the keys T, none of them empty:     *)
(* the invariant is kept, and the tokens of T are the only ones that go.   *)
LEMMA LookedFacts ==
    ASSUME IndInv, NEW S, NEW T, T \subseteq S,
           \A k \in T \cap Keys : Tokens[k] > 0,
           limiters' = Looked(S, T), clock' = clock
    PROVE  /\ limiters' \in [Keys -> Entries]
           /\ Refilled'
           /\ Tokens' = [k \in Keys |-> IF k \in T THEN Tokens[k] - 1 ELSE Tokens[k]]
<1>1. ASSUME NEW k \in Keys
      PROVE  /\ limiters'[k] \in Entries
             /\ limiters'[k].there =>
                   /\ limiters'[k].used <= clock'
                   /\ limiters'[k].tokens = Burst \/ limiters'[k].tokens >= clock' - limiters'[k].used
             /\ Tokens'[k] = IF k \in T THEN Tokens[k] - 1 ELSE Tokens[k]
  <2>0. /\ limiters[k] \in Entries /\ clock \in Nat
        /\ limiters'[k] = IF k \in S THEN [Entry(k) EXCEPT !.tokens = IF k \in T THEN @ - 1 ELSE @]
                          ELSE IF clock - lastCleanup > Minute /\ Evicted(k) THEN None ELSE limiters[k]
    BY DEF IndInv, LimiterType, Looked
  <2>1. /\ Tokens[k] = IF limiters[k].there THEN limiters[k].tokens ELSE Burst
        /\ Tokens'[k] = IF limiters'[k].there THEN limiters'[k].tokens ELSE Burst
    BY DEF Tokens
  <2>2. CASE k \in S
    <3> DEFINE e == Entry(k)
    <3>1. e \in Entries /\ e.there /\ e.used = clock /\ e.tokens = Tokens[k]
      BY EntryFacts DEF IndInv
    <3> HIDE DEF e
    <3>2. limiters'[k] = [e EXCEPT !.tokens = IF k \in T THEN e.tokens - 1 ELSE e.tokens]
      BY <2>0, <2>2 DEF e
    <3>3. /\ e.tokens \in 0..Burst /\ Burst \in Nat
          /\ k \in T => e.tokens > 0
      BY <3>1, LimiterAssumption DEF Entries
    <3>4. (IF k \in T THEN e.tokens - 1 ELSE e.tokens) \in 0..Burst
      BY <3>3
    <3>5. /\ limiters'[k] \in Entries /\ limiters'[k].there /\ limiters'[k].used = clock
          /\ limiters'[k].tokens = IF k \in T THEN e.tokens - 1 ELSE e.tokens
      BY <3>1, <3>2, <3>4 DEF Entries
    <3> QED
      BY <2>0, <2>1, <3>1, <3>4, <3>5
  <2>3. CASE k \notin S /\ clock - lastCleanup > Minute /\ Evicted(k)
    <3>1. limiters[k].there /\ limiters[k].tokens = Burst
      BY <2>3, EvictedIsFull DEF Evicted
    <3>2. limiters'[k] = None /\ ~None.there /\ None \in Entries
      BY <2>0, <2>3, LimiterAssumption DEF None, Entries
    <3> QED
      BY <2>1, <2>3, <3>1, <3>2
  <2>4. CASE k \notin S /\ limiters'[k] = limiters[k]
    BY <2>0, <2>1, <2>4 DEF IndInv, Refilled
  <2> QED
    BY <2>0, <2>2, <2>3, <2>4
<1>2. limiters' = [k \in Keys |-> limiters'[k]]
  BY DEF Looked
<1>3. Tokens' = [k \in Keys |-> Tokens'[k]]
  BY DEF Tokens
<1> QED
  BY <1>1, <1>2, <1>3 DEF Refilled

(* A call of Allow takes a token from the name, and then from the address, *)
(* where there is one.                                                     *)
LEMMA AllowStep ==
    ASSUME IndInv, NEW l \in Logins, login[l] # Waiting,
           NEW name \in Keys, NEW next \in {"name", "allowed"}, Allow(l, name, next)
    PROVE  IndInv' /\ \E T \in SUBSET Keys : Promise!Take(T)
<1> DEFINE a == login[l].address
           named == Entry(name).tokens > 0
           placed == Entry(a).tokens > 0
           S == IF named THEN {name, a} ELSE {name}
           T == {k \in {name, a} : named /\ (k = name \/ placed)}
<1>1. login[l] \in Attempts /\ a \in Keys
  BY DEF IndInv, LimiterType, Attempts, Keys
<1>2. limiters' = Looked(S, T) /\ clock' = clock
  BY DEF Allow
<1>3. T \subseteq S /\ T \in SUBSET Keys
  BY <1>1
<1>4. \A k \in T \cap Keys : Tokens[k] > 0
  BY <1>1, EntryFacts DEF IndInv
<1> HIDE DEF S, T
<1>5. /\ limiters' \in [Keys -> Entries] /\ Refilled'
      /\ Tokens' = [k \in Keys |-> IF k \in T THEN Tokens[k] - 1 ELSE Tokens[k]]
  BY <1>2, <1>3, <1>4, LookedFacts
<1>6. Promise!Take(T)
  BY <1>3, <1>4, <1>5 DEF Promise!Take
<1>7. login' \in [Logins -> Attempts \cup {Waiting}]
  <2> DEFINE pc == IF named /\ placed THEN next ELSE "refused"
  <2>1. pc \in {"name", "allowed", "refused"}
    OBVIOUS
  <2>2. login' = [login EXCEPT ![l] = [login[l] EXCEPT !.pc = pc]]
    BY DEF Allow
  <2> HIDE DEF pc
  <2>3. [login[l] EXCEPT !.pc = pc] \in Attempts
    BY <1>1, <2>1 DEF Attempts
  <2> QED
    BY <2>2, <2>3 DEF IndInv, LimiterType
<1>8. lastCleanup' \in Nat
  BY DEF Allow, IndInv, LimiterType
<1> QED
  BY <1>2, <1>3, <1>5, <1>6, <1>7, <1>8 DEF IndInv, LimiterType

(* Time gives every bucket that is not full a token.                       *)
LEMMA TickStep ==
    ASSUME IndInv, Tick
    PROVE  IndInv' /\ Promise!Refill
<1>1. ASSUME NEW k \in Keys
      PROVE  /\ limiters'[k] \in Entries
             /\ limiters'[k].there =>
                   /\ limiters'[k].used <= clock'
                   /\ limiters'[k].tokens = Burst \/ limiters'[k].tokens >= clock' - limiters'[k].used
             /\ Tokens'[k] = IF Tokens[k] < Burst THEN Tokens[k] + 1 ELSE Burst
  <2> DEFINE e == limiters[k]
  <2>0. /\ e \in Entries /\ clock \in Nat /\ clock' = clock + 1
        /\ limiters'[k] = IF e.there /\ e.tokens < Burst THEN [e EXCEPT !.tokens = e.tokens + 1] ELSE e
    BY DEF IndInv, LimiterType, Tick
  <2>1. /\ Tokens[k] = IF e.there THEN e.tokens ELSE Burst
        /\ Tokens'[k] = IF limiters'[k].there THEN limiters'[k].tokens ELSE Burst
    BY DEF Tokens
  <2>2. e.there => e.used <= clock /\ (e.tokens = Burst \/ e.tokens >= clock - e.used)
    BY DEF IndInv, Refilled
  <2> HIDE DEF e
  <2>3. e.tokens \in 0..Burst /\ Burst \in Nat /\ e.used \in Nat
    BY <2>0, LimiterAssumption DEF Entries
  <2>4. CASE e.there /\ e.tokens < Burst
    <3>1. e.tokens + 1 \in 0..Burst
      BY <2>3, <2>4
    <3>2. /\ limiters'[k] \in Entries /\ limiters'[k].there /\ limiters'[k].used = e.used
          /\ limiters'[k].tokens = e.tokens + 1
      BY <2>0, <2>4, <3>1 DEF Entries
    <3> QED
      BY <2>0, <2>1, <2>2, <2>3, <2>4, <3>2
  <2>5. CASE ~(e.there /\ e.tokens < Burst)
    BY <2>0, <2>1, <2>2, <2>3, <2>5
  <2> QED
    BY <2>4, <2>5
<1>2. limiters' = [k \in Keys |-> limiters'[k]]
  BY DEF Tick
<1>3. Tokens' = [k \in Keys |-> Tokens'[k]]
  BY DEF Tokens
<1>4. LimiterType'
  BY <1>1, <1>2 DEF IndInv, LimiterType, Tick
<1>5. Refilled'
  BY <1>1 DEF Refilled
<1>6. Promise!Refill
  BY <1>1, <1>3 DEF Promise!Refill
<1> QED
  BY <1>4, <1>5, <1>6 DEF IndInv

(* The empty table is the table of full buckets.                           *)
LEMMA InitStep == Init => IndInv /\ Promise!Init
<1> SUFFICES ASSUME Init PROVE IndInv /\ Promise!Init
  OBVIOUS
<1>1. None \in Entries /\ ~None.there
  BY LimiterAssumption DEF None, Entries
<1>2. LimiterType /\ Refilled
  BY <1>1 DEF Init, LimiterType, Refilled
<1>3. Promise!Init
  BY <1>1 DEF Init, Promise!Init, Tokens
<1> QED
  BY <1>2, <1>3 DEF IndInv

(* Every step keeps the invariant and is a step of the buckets.            *)
LEMMA NextStep == IndInv /\ [Next]_vars => IndInv' /\ [Promise!Next]_Tokens
<1> SUFFICES ASSUME IndInv, [Next]_vars PROVE IndInv' /\ [Promise!Next]_Tokens
  OBVIOUS
<1>1. CASE UNCHANGED vars
  BY <1>1 DEF vars, IndInv, LimiterType, Refilled, Tokens
<1>2. ASSUME NEW l \in Logins, NEW n \in Names, NEW a \in Addresses, Attempt(l, n, a)
      PROVE  IndInv' /\ [Promise!Next]_Tokens
  <2>1. [pc |-> "empty", name |-> n, address |-> a] \in Attempts
    BY DEF Attempts
  <2> QED
    BY <1>2, <2>1 DEF Attempt, IndInv, LimiterType, Refilled, Tokens
<1>3. ASSUME NEW l \in Logins, AllowAnybody(l)
      PROVE  IndInv' /\ [Promise!Next]_Tokens
  <2>1. login[l] # Waiting /\ NoName \in Keys
    BY <1>3 DEF AllowAnybody, Waiting, Keys
  <2> QED
    BY <1>3, <2>1, AllowStep DEF AllowAnybody, Promise!Next
<1>4. ASSUME NEW l \in Logins, AllowNamed(l)
      PROVE  IndInv' /\ [Promise!Next]_Tokens
  <2>1. login[l] # Waiting
    BY <1>4 DEF AllowNamed, Waiting
  <2>2. login[l].name \in Keys
    BY <2>1 DEF IndInv, LimiterType, Attempts, Keys
  <2>3. login[l] # Waiting /\ Allow(l, login[l].name, "allowed")
    BY <1>4, <2>1 DEF AllowNamed
  <2> QED
    BY <2>2, <2>3, AllowStep DEF Promise!Next
<1>5. CASE Tick
  BY <1>5, TickStep DEF Promise!Next
<1> QED
  BY <1>1, <1>2, <1>3, <1>4, <1>5 DEF Next

(* Making entries lazily and evicting them after an hour gives no key a    *)
(* token back: the limiter implements TokenBuckets.                        *)
THEOREM EvictionForgetsNothing == Spec => NeverForgets
BY InitStep, NextStep, PTL DEF Spec, NeverForgets, Promise!Spec
=============================================================================
