------------------------------ MODULE JwksCache ------------------------------
(***************************************************************************)
(* The cache of the identity provider's signing keys (_JWKSClient of       *)
(* src/dnd_ai/api/auth.py), used by every request that brings a token.     *)
(*                                                                         *)
(* A request first looks in the cache without a lock.  A key that is not   *)
(* there is looked for under the lock: in the cache again, by fetching the *)
(* key set when there is none or it has expired, and by a forced refresh,  *)
(* at most one per cooldown, when the set lacks the key.  Failed fetches   *)
(* have a cooldown of their own.  The provider rotates its keys, goes      *)
(* down, or serves something that is no key set.                           *)
(*                                                                         *)
(* Time is kept as ages, each counted as far as anything depends on it, so *)
(* that it may pass for ever: a timestamp that is None in the code is an   *)
(* age past its cooldown, and an empty cache one past its lifespan.        *)
(***************************************************************************)
EXTENDS Naturals

CONSTANTS
  Threads, Kids,
  Lifespan,        \* _JWKS_SET_LIFESPAN_SECONDS
  ForcedCooldown,  \* _JWKS_FORCED_REFRESH_COOLDOWN_SECONDS
  RetryCooldown,   \* _JWKS_FAILURE_RETRY_COOLDOWN_SECONDS
  Timeout,         \* _JWKS_FETCH_TIMEOUT_SECONDS
  None

\* The cooldowns last, as those of the code do.
CacheAssumption ==
  /\ None \notin Threads
  /\ Lifespan \in Nat /\ Timeout \in Nat
  /\ ForcedCooldown \in Nat \ {0} /\ RetryCooldown \in Nat \ {0}

Settling == RetryCooldown + ForcedCooldown + Timeout
Memory == Lifespan + Timeout

VARIABLES
  published,    \* the keys the provider serves
  health,       \* "up", "down", or "bad" when it serves something else
  stable,       \* for how long it has been as it is
  withdrawn,    \* for how long a key has been missing from the set
  cache,        \* the document in the cache, if it is a key set, and its age
  sinceForced,  \* the forced refresh, _last_forced_refresh
  sinceFailed,  \* the failure, _last_failed_fetch
  lock,         \* the thread that holds it
  pc, kid,      \* of a thread: where it is, and the key it looks for
  due,          \* whether it asked for a key that has been there for long
  fetch,        \* the document the holder of the lock has fetched, and for how long
  strayed       \* whether a fetch has gone past the cooldown of failures

provider == <<published, health, stable, withdrawn>>
timestamps == <<sinceForced, sinceFailed>>
client == <<cache, timestamps, strayed>>
threads == <<lock, pc, kid, due, fetch>>
vars == <<provider, client, threads>>

Causes == {"cold", "forced", "assumed"}  \* why a thread fetches
Empty == [keys |-> {}, usable |-> FALSE, age |-> Lifespan + 1]
NoFetch == [is |-> "none", keys |-> {}, why |-> "cold", age |-> 0]

TypeOK ==
  /\ published \in (SUBSET Kids) \ {{}} /\ health \in {"up", "down", "bad"}
  /\ stable \in 0 .. Settling /\ withdrawn \in [Kids -> 0 .. Memory + 1]
  /\ cache \in [keys : SUBSET Kids, usable : BOOLEAN, age : 0 .. Lifespan + 1]
  /\ sinceForced \in 0 .. ForcedCooldown /\ sinceFailed \in 0 .. RetryCooldown
  /\ lock \in Threads \cup {None}
  /\ pc \in [Threads -> {"idle", "lock", "again", "miss", "fetching", "returned",
                         "accepted", "refused"}]
  /\ kid \in [Threads -> Kids \cup {None}]
  /\ due \in [Threads -> BOOLEAN]
  /\ fetch \in [is : {"set", "none", "bad"}, keys : SUBSET Kids, why : Causes, age : 0 .. Timeout]
  /\ strayed \in BOOLEAN

Init ==
  /\ published \in (SUBSET Kids) \ {{}} /\ health = "up"
  /\ stable = 0
  /\ withdrawn = [k \in Kids |-> IF k \in published THEN 0 ELSE Memory + 1]
  /\ cache = Empty
  /\ sinceForced = ForcedCooldown /\ sinceFailed = RetryCooldown
  /\ lock = None
  /\ pc = [t \in Threads |-> "idle"]
  /\ kid = [t \in Threads |-> None]
  /\ due = [t \in Threads |-> FALSE]
  /\ fetch = NoFetch
  /\ strayed = FALSE
-----------------------------------------------------------------------------
(* Time, and the provider. *)

Older(age, limit) == IF age < limit THEN age + 1 ELSE age

\* The library's cache forgets the key set when its lifespan is over.
KeptOn == [cache EXCEPT !.age = Older(@, Lifespan)]
Aged == IF cache.age < Lifespan THEN KeptOn ELSE Empty

\* A fetch ends in time, and an answer is used at once.
Underway(t) == pc[t] \in {"fetching", "returned"}
Tick ==
  /\ \A t \in Threads : pc[t] \notin {"accepted", "refused"}
  /\ (\E t \in Threads : Underway(t)) => fetch.age < Timeout
  /\ fetch' = IF \E t \in Threads : Underway(t) THEN [fetch EXCEPT !.age = @ + 1] ELSE fetch
  /\ stable' = Older(stable, Settling)
  /\ withdrawn' = [k \in Kids |->
       IF k \in published THEN 0 ELSE Older(withdrawn[k], Memory + 1)]
  /\ cache' = Aged
  /\ sinceForced' = Older(sinceForced, ForcedCooldown)
  /\ sinceFailed' = Older(sinceFailed, RetryCooldown)
  /\ UNCHANGED <<published, health, strayed, lock, pc, kid, due>>

Rotate(keys) ==
  /\ published' = keys /\ keys # published
  /\ stable' = 0
  /\ withdrawn' = [k \in Kids |-> IF k \in published \cup keys THEN 0 ELSE withdrawn[k]]
  /\ due' = [t \in Threads |-> FALSE]
  /\ UNCHANGED <<health, client, lock, pc, kid, fetch>>
TurnTo(state) ==
  /\ health' = state /\ state # health
  /\ stable' = 0
  /\ due' = [t \in Threads |-> FALSE]
  /\ UNCHANGED <<published, withdrawn, client, lock, pc, kid, fetch>>
-----------------------------------------------------------------------------
(* The cache. *)

Warm == cache.age <= Lifespan

\* _peek_signing_keys: nothing, unless a key set is there that has not expired.
Peeked == Warm /\ cache.usable
Has(k) == Peeked /\ k \in cache.keys

Goto(t, from, to) == pc[t] = from /\ pc' = [pc EXCEPT ![t] = to]
Answer(t, from, to) == Goto(t, from, to) /\ lock' = None /\ UNCHANGED fetch
Fetch(t, from, why) ==
  /\ Goto(t, from, "fetching")
  /\ fetch' = [NoFetch EXCEPT !.why = why]
  /\ UNCHANGED lock

GetSigningKey(t, k) ==
  /\ Goto(t, "idle", IF Has(k) THEN "accepted" ELSE "lock")
  /\ kid' = [kid EXCEPT ![t] = k]
  /\ due' = [due EXCEPT ![t] = health = "up" /\ k \in published /\ stable = Settling]
  /\ UNCHANGED <<provider, client, lock, fetch>>

Acquire(t) ==
  /\ lock = None
  /\ Goto(t, "lock", "again")
  /\ lock' = t
  /\ UNCHANGED <<provider, client, kid, due, fetch>>

MayRetry == sinceFailed = RetryCooldown
MayForce == sinceForced = ForcedCooldown

\* _resolve_under_lock and the choke point.  A cached document that is no key
\* set is found out without fetching.
Resolve(t) ==
  /\ pc[t] = "again"
  /\ \/ /\ Has(kid[t])
        /\ Answer(t, "again", "accepted")
        /\ UNCHANGED client
     \/ /\ Peeked /\ ~Has(kid[t])
        /\ Goto(t, "again", "miss")
        /\ UNCHANGED <<client, lock, fetch>>
     \/ /\ ~Peeked /\ ~MayRetry
        /\ Answer(t, "again", "refused")
        /\ UNCHANGED client
     \/ /\ ~Peeked /\ MayRetry /\ Warm
        /\ Answer(t, "again", "refused")
        /\ sinceFailed' = 0 /\ cache' = Empty
        /\ UNCHANGED <<sinceForced, strayed>>
     \/ /\ ~Peeked /\ MayRetry /\ ~Warm
        /\ Fetch(t, "again", "cold")
        /\ UNCHANGED client
  /\ UNCHANGED <<provider, kid, due>>

\* _forced_refresh_and_match_locked.  The time of the refresh is kept even if
\* the cooldown of failures stopped it.  Within its own cooldown the key set is
\* taken to be in the cache still; if it has expired since it was looked at, it
\* is fetched, whatever failed a moment ago.
ForceRefresh(t) ==
  /\ pc[t] = "miss"
  /\ \/ /\ MayForce /\ MayRetry
        /\ Fetch(t, "miss", "forced")
        /\ UNCHANGED client
     \/ /\ MayForce /\ ~MayRetry
        /\ Answer(t, "miss", "refused")
        /\ sinceForced' = 0
        /\ UNCHANGED <<cache, sinceFailed, strayed>>
     \/ /\ ~MayForce /\ Warm
        /\ Answer(t, "miss", "refused")
        /\ UNCHANGED client
     \/ /\ ~MayForce /\ ~Warm
        /\ Fetch(t, "miss", "assumed")
        /\ strayed' = TRUE
        /\ UNCHANGED <<cache, timestamps>>
  /\ UNCHANGED <<provider, kid, due>>

\* The provider answers, or does not, and the answer takes its time.
Respond(t) ==
  /\ Goto(t, "fetching", "returned")
  /\ fetch' = [fetch EXCEPT
       !.is = CASE health = "up" -> "set" [] health = "bad" -> "bad" [] OTHER -> "none",
       !.keys = IF health = "up" THEN published ELSE {}]
  /\ UNCHANGED <<provider, client, lock, kid, due>>

\* fetch_data puts what it got in the cache, and the choke point takes it out
\* again when it is of no use.  Nothing does after a fetch that went past it.
Guarded == fetch.why # "assumed"
Got == [keys |-> fetch.keys, usable |-> fetch.is = "set", age |-> 0]
LeftInCache == IF fetch.is = "none" THEN cache ELSE Got
Cached == IF fetch.is = "bad" /\ Guarded THEN Empty ELSE LeftInCache

Return(t) ==
  /\ pc[t] = "returned"
  /\ cache' = Cached
  /\ sinceFailed' = IF ~Guarded THEN sinceFailed
                    ELSE IF fetch.is = "set" THEN RetryCooldown ELSE 0
  /\ sinceForced' = IF fetch.why = "forced" THEN 0 ELSE sinceForced
  /\ IF fetch.is = "set" /\ kid[t] \notin fetch.keys /\ fetch.why = "cold"
     THEN pc' = [pc EXCEPT ![t] = "miss"] /\ UNCHANGED lock
     ELSE /\ pc' = [pc EXCEPT ![t] = IF kid[t] \in fetch.keys THEN "accepted" ELSE "refused"]
          /\ lock' = None
  /\ fetch' = NoFetch
  /\ UNCHANGED <<provider, strayed, kid, due>>

\* The request is over.
End(t) ==
  /\ pc[t] \in {"accepted", "refused"}
  /\ pc' = [pc EXCEPT ![t] = "idle"]
  /\ kid' = [kid EXCEPT ![t] = None]
  /\ due' = [due EXCEPT ![t] = FALSE]
  /\ UNCHANGED <<provider, client, lock, fetch>>

Next ==
  \/ Tick
  \/ \E keys \in (SUBSET Kids) \ {{}} : Rotate(keys)
  \/ \E state \in {"up", "down", "bad"} : TurnTo(state)
  \/ \E t \in Threads :
       \/ \E k \in Kids : GetSigningKey(t, k)
       \/ Acquire(t) \/ Resolve(t) \/ ForceRefresh(t) \/ Respond(t) \/ Return(t) \/ End(t)

Spec == Init /\ [][Next]_vars
-----------------------------------------------------------------------------
\* A key that the provider has withdrawn is accepted no longer than a fetch may
\* take and the cache may keep it.
WithdrawnKeyIsForgotten ==
  \A t \in Threads : pc[t] = "accepted" => withdrawn[kid[t]] <= Memory

\* Once the provider has served a key for both cooldowns and a fetch, a request
\* with it is not refused, whatever failed before and whatever other keys were
\* asked for; unless a fetch went past the choke point, which can leave an
\* unusable document in the cache.
PublishedKeyIsAccepted == \A t \in Threads : pc[t] = "refused" /\ due[t] => strayed
-----------------------------------------------------------------------------
HoldsLock(t) == pc[t] \in {"again", "miss", "fetching", "returned"}

\* One thread at a time looks at the cache to change it.
LockFits ==
  \A t \in Threads : (HoldsLock(t) <=> lock = t) /\ (pc[t] # "idle" => kid[t] \in Kids)

\* How long ago a key that is kept or fetched was published at the latest.
Forgets ==
  /\ \A k \in published : withdrawn[k] = 0
  /\ Warm => \A k \in cache.keys : withdrawn[k] <= cache.age + Timeout
  /\ \A t \in Threads : pc[t] = "returned" => \A k \in fetch.keys : withdrawn[k] <= fetch.age

\* An answer that is not what the provider serves came before it last changed.
FetchFits ==
  /\ fetch.why = "assumed" => strayed
  /\ \A t \in Threads : pc[t] = "returned" =>
       /\ fetch.is # "set" => fetch.keys = {}
       /\ health = "up" /\ stable > fetch.age => fetch.is = "set" /\ fetch.keys = published

DueFits ==
  \A t \in Threads : due[t] =>
    pc[t] # "idle" /\ health = "up" /\ kid[t] \in published /\ stable = Settling

\* A cooldown that still runs began when the provider had not been stable for
\* long, or left what it serves in the cache.
CooldownsFit ==
  /\ Warm => cache.usable
  /\ health = "up" /\ ~MayRetry => stable <= sinceFailed + Timeout
  /\ health = "up" /\ ~MayForce /\ Warm =>
       stable <= sinceForced + RetryCooldown + Timeout \/ cache.keys = published

MissFits == \A t \in Threads : pc[t] = "miss" => ~Has(kid[t])

IInv ==
  /\ TypeOK /\ LockFits /\ Forgets /\ FetchFits /\ DueFits /\ MissFits
  /\ strayed \/ CooldownsFit
  /\ WithdrawnKeyIsForgotten /\ PublishedKeyIsAccepted
=============================================================================
