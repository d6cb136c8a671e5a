------------------------------ MODULE Limiters ------------------------------
(***************************************************************************)
(* The three rate limiters of the server, over one clock:                  *)
(*   - joins of WebSocket calls, a sliding window per address in a DashMap *)
(*     (crates/signaling/src/rate_limit.rs);                               *)
(*   - registrations of partner nodes, a sliding window per address under  *)
(*     a mutex (crates/server/src/partner_registry/rate_limit.rs);         *)
(*   - the HTTP endpoints with a quota, governor's cell rate algorithm     *)
(*     (crates/server/src/rate_limit.rs; governor itself is external).     *)
(*                                                                         *)
(* A caller reads the time and then works on the map, step by step, so     *)
(* calls overtake each other.  Locks are per shard of the DashMap: its     *)
(* entries are visited one by one.                                         *)
(*                                                                         *)
(* An operator marked "mutant" is a deliberately broken variant of the     *)
(* definition below it; nothing uses it but the mutation runs.             *)
(***************************************************************************)
EXTENDS Naturals, Sequences, FiniteSets

CONSTANTS IPs,            \* addresses
          Callers,        \* tasks that call a limiter
          WINDOW,         \* length of both windows, in ticks of the clock
          MAX_JOINS_PER_WINDOW, JOIN_JANITOR_EVERY, JOIN_MAP_SIZE_CAP,
          RATE_LIMIT_MAX, JANITOR_EVERY, MAP_SIZE_CAP,
          Endpoints,      \* the routes with a quota
          PerMinute,      \* PerMinute[e]: the argument of make_limiter
          MINUTE,         \* ticks in a minute
          NoIP,           \* a header that is missing or no address
          MaxClock        \* bound: the clock

ASSUME WindowAssumption ==
    /\ WINDOW \in Nat /\ MaxClock \in Nat
    /\ {MAX_JOINS_PER_WINDOW, JOIN_JANITOR_EVERY, JOIN_MAP_SIZE_CAP,
        RATE_LIMIT_MAX, JANITOR_EVERY, MAP_SIZE_CAP} \subseteq Nat \ {0}
ASSUME CallerAssumption == IsFiniteSet(Callers) /\ Callers # {}
ASSUME AddressAssumption == NoIP \notin IPs
\* 60 / N is a whole number of seconds for the quotas in use, 30 and 60.
ASSUME QuotaAssumption ==
    /\ MINUTE \in Nat \ {0} /\ PerMinute \in [Endpoints -> 1 .. MINUTE]
    /\ \A e \in Endpoints : MINUTE % PerMinute[e] = 0

VARIABLES
    clock,
    joinHits,   \* buckets: the recorded joins of the addresses in the map
    joinCalls,  \* calls, modulo JOIN_JANITOR_EVERY
    regHits,    \* RATE_LIMITER
    regCalls,   \* JANITOR_COUNTER, modulo JANITOR_EVERY
    call,       \* what each caller is at
    tat,        \* governor: when the bucket of an address is full again
    log,        \* history: the hits admitted in the last window, unless a map was cleared
    newest,     \* history: the latest time a limiter has worked with
    late,       \* history: a limiter worked with an earlier time after it
    since       \* history: the first refusal after the last admission, or Never

joinVars == <<joinHits, joinCalls>>
regVars == <<regHits, regCalls>>
history == <<log, newest, late>>
limitVars == <<clock, joinVars, regVars, call, tat, history, since>>

Never == MaxClock + 1
Idle == [pc |-> "idle", ip |-> NoIP, now |-> 0, left |-> {}]
EmptyMap == [i \in {} |-> <<>>]

LimitInit ==
    /\ clock = 0
    /\ joinHits = EmptyMap /\ joinCalls = 0
    /\ regHits = EmptyMap /\ regCalls = 0
    /\ call = [c \in Callers |-> Idle]
    /\ tat = [e \in Endpoints |-> [i \in IPs |-> 0]]
    /\ log = [i \in IPs |-> <<>>] /\ newest = 0 /\ late = FALSE
    /\ since = [e \in Endpoints |-> [i \in IPs |-> Never]]

\* A process that ends forgets the maps.
NewProcess ==
    /\ joinHits' = EmptyMap /\ joinCalls' = 0
    /\ regHits' = EmptyMap /\ regCalls' = 0
    /\ call' = [c \in Callers |-> Idle]
    /\ tat' = [e \in Endpoints |-> [i \in IPs |-> 0]]
    /\ log' = [i \in IPs |-> <<>>] /\ newest' = 0 /\ late' = FALSE
    /\ since' = [e \in Endpoints |-> [i \in IPs |-> Never]]

-----------------------------------------------------------------------------
(* Windows                                                                 *)

Expired(t, now) == t + WINDOW < now

\* while front < cutoff { pop_front }
DropExpired(hits, now) ==
    LET kept == {i \in DOMAIN hits : ~Expired(hits[i], now)}
        first == CHOOSE i \in kept : \A j \in kept : i <= j
    IN IF kept = {} THEN <<>> ELSE SubSeq(hits, first, Len(hits))

\* entry(ip).or_default()
Entry(map, ip) == IF ip \in DOMAIN map THEN map[ip] ELSE <<>>
With(map, ip, hits) == [i \in DOMAIN map \cup {ip} |-> IF i = ip THEN hits ELSE map[i]]
Without(map, ip) == [i \in DOMAIN map \ {ip} |-> map[i]]

Place(c, pc) == call' = [call EXCEPT ![c].pc = pc]

\* The limiter works with the time of caller c, which then gets its answer.
Works(c) ==
    /\ newest' = IF call[c].now > newest THEN call[c].now ELSE newest
    /\ late' = (late \/ call[c].now < newest)
\* What is late or expired is not compared with anything any more.
Noted(hits, now) == SelectSeq(Append(hits, now), LAMBDA t : ~late /\ ~Expired(t, now))
Admitted(c) == log' = [log EXCEPT ![call[c].ip] = Noted(@, call[c].now)]

Return(c) ==
    /\ call[c].pc \in {"admitted", "refused"}
    /\ call' = [call EXCEPT ![c] = Idle]
    /\ UNCHANGED <<clock, joinVars, regVars, tat, history, since>>

-----------------------------------------------------------------------------
(* Joins                                                                   *)

\* X-Real-IP, the first hop of X-Forwarded-For, the peer.
JoinIP(real, xff, peer) == IF real # NoIP THEN real ELSE IF xff # NoIP THEN xff ELSE peer

\* check: Instant::now()
JoinCall(c, real, xff, peer) ==
    /\ call[c].pc = "idle"
    /\ call' = [call EXCEPT ![c].pc = "timed", ![c].now = clock,
                            ![c].ip = JoinIP(real, xff, peer)]
    /\ UNCHANGED <<clock, joinVars, regVars, tat, history, since>>

\* calls.fetch_add: one call in JOIN_JANITOR_EVERY runs the janitor.
JoinCount(c) ==
    /\ call[c].pc = "timed"
    /\ joinCalls' = (joinCalls + 1) % JOIN_JANITOR_EVERY
    /\ Place(c, IF joinCalls = 0 THEN "janitor" ELSE "decide")
    /\ UNCHANGED <<clock, joinHits, regVars, tat, history, since>>

\* A map at its cap is cleared, any other one is swept, shard by shard; from:
\* the addresses that call.  (Its size is read at once here; DashMap::len sums the
\* shards one after the other, so that beside another caller's sweep it may be off
\* by what moved between two of them.)
Janitor_NoCap(c, from) ==                                                \* mutant
    /\ call[c].pc = "janitor"
    /\ call' = [call EXCEPT ![c].left = from, ![c].pc = "retain"]
    /\ UNCHANGED <<clock, joinVars, regVars, tat, history, since>>
Janitor(c, from) ==
    /\ call[c].pc = "janitor"
    /\ call' = [call EXCEPT
                  ![c].left = from,
                  ![c].pc = IF Cardinality(DOMAIN joinHits) >= JOIN_MAP_SIZE_CAP
                            THEN "clear" ELSE "retain"]
    /\ UNCHANGED <<clock, joinVars, regVars, tat, history, since>>

Swept(c, ip) == call' = [call EXCEPT ![c].left = @ \ {ip}]

ClearOne(c, ip) ==
    /\ call[c].pc = "clear" /\ ip \in call[c].left
    /\ joinHits' = Without(joinHits, ip)
    /\ log' = [log EXCEPT ![ip] = <<>>]
    /\ Swept(c, ip)
    /\ UNCHANGED <<clock, joinCalls, regVars, tat, newest, late, since>>

\* retain: expired heads are dropped, then empty buckets.
RetainOne_Any(c, ip) ==                                              \* mutant
    /\ call[c].pc = "retain" /\ ip \in call[c].left
    /\ LET hits == DropExpired(Entry(joinHits, ip), call[c].now + 1) IN
         joinHits' = IF hits = <<>> THEN Without(joinHits, ip) ELSE With(joinHits, ip, hits)
    /\ Swept(c, ip) /\ Works(c)
    /\ UNCHANGED <<clock, joinCalls, regVars, tat, log, since>>
RetainOne(c, ip) ==
    /\ call[c].pc = "retain" /\ ip \in call[c].left
    /\ LET hits == DropExpired(Entry(joinHits, ip), call[c].now) IN
         joinHits' = IF hits = <<>> THEN Without(joinHits, ip) ELSE With(joinHits, ip, hits)
    /\ Swept(c, ip) /\ Works(c)
    /\ UNCHANGED <<clock, joinCalls, regVars, tat, log, since>>

JanitorDone(c) ==
    /\ call[c].pc \in {"clear", "retain"} /\ call[c].left = {}
    /\ Place(c, "decide")
    /\ UNCHANGED <<clock, joinVars, regVars, tat, history, since>>

\* The entry is locked from the expiry to the push.
JoinDecide(c) ==
    /\ call[c].pc = "decide"
    /\ LET ip == call[c].ip
           now == call[c].now
           hits == DropExpired(Entry(joinHits, ip), now)
       IN IF Len(hits) >= MAX_JOINS_PER_WINDOW
          THEN joinHits' = With(joinHits, ip, hits) /\ Place(c, "refused") /\ UNCHANGED log
          ELSE /\ joinHits' = With(joinHits, ip, Append(hits, now))
               /\ Place(c, "admitted") /\ Admitted(c)
    /\ Works(c)
    /\ UNCHANGED <<clock, joinCalls, regVars, tat, since>>

JoinStep(c, from) ==
    \/ \E real, xff \in from \cup {NoIP}, peer \in from : JoinCall(c, real, xff, peer)
    \/ JoinCount(c) \/ Janitor(c, from) \/ JanitorDone(c) \/ JoinDecide(c)
    \/ \E ip \in IPs : ClearOne(c, ip) \/ RetainOne(c, ip)
    \/ Return(c)

-----------------------------------------------------------------------------
(* Registrations                                                           *)

\* X-Forwarded-For where a proxy is trusted, else the address in the body,
\* else the loopback address.
RegisterIP(trusted, xff, body, localhost) ==
    IF trusted /\ xff # NoIP THEN xff ELSE IF body # NoIP THEN body ELSE localhost

RegisterCall(c, trusted, xff, body, localhost) ==
    /\ call[c].pc = "idle"
    /\ call' = [call EXCEPT ![c].pc = "timed", ![c].now = clock,
                            ![c].ip = RegisterIP(trusted, xff, body, localhost)]
    /\ UNCHANGED <<clock, joinVars, regVars, tat, history, since>>

\* Everything else happens under the mutex.  The janitor removes the entries
\* without hits; it expires nothing, and an entry always has a hit.
NonEmpty(map) == [i \in {j \in DOMAIN map : map[j] # <<>>} |-> map[i]]
Janitored == IF regCalls = 0 THEN NonEmpty(regHits) ELSE regHits
Full == Cardinality(DOMAIN Janitored) >= MAP_SIZE_CAP

RegisterDecide(c) ==
    /\ call[c].pc = "timed"
    /\ regCalls' = (regCalls + 1) % JANITOR_EVERY
    /\ LET ip == call[c].ip
           now == call[c].now
           map == IF Full THEN EmptyMap ELSE Janitored
           hits == SelectSeq(Entry(map, ip), LAMBDA t : ~Expired(t, now))
           kept == IF Full THEN [i \in IPs |-> <<>>] ELSE log
       IN IF Len(hits) >= RATE_LIMIT_MAX
          THEN regHits' = With(map, ip, hits) /\ Place(c, "refused") /\ log' = kept
          ELSE /\ regHits' = With(map, ip, Append(hits, now)) /\ Place(c, "admitted")
               /\ log' = [kept EXCEPT ![ip] = Noted(@, now)]
    /\ Works(c)
    /\ UNCHANGED <<clock, joinVars, tat, since>>

RegisterStep(c, from) ==
    \/ \E trusted \in BOOLEAN, xff, body \in from \cup {NoIP}, localhost \in from :
         RegisterCall(c, trusted, xff, body, localhost)
    \/ RegisterDecide(c) \/ Return(c)

-----------------------------------------------------------------------------
(* Endpoints                                                               *)

\* make_limiter
Interval(e) == MINUTE \div PerMinute[e]
Burst(e) == (PerMinute[e] + 1) \div 2
Tolerance(e) == (Burst(e) - 1) * Interval(e)

\* X-Forwarded-For, then the peer; a request with neither passes.
EndpointIP(xff, peer) == IF xff # NoIP THEN xff ELSE peer

\* check_key
Conforms(e, ip) == tat[e][ip] <= clock + Tolerance(e)

RetryAfter(e) == IF Interval(e) > 1 THEN Interval(e) ELSE 1

Pass(e, ip) ==
    /\ Conforms(e, ip)
    /\ tat' = [tat EXCEPT ![e][ip] = (IF @ > clock THEN @ ELSE clock) + Interval(e)]
    /\ since' = [since EXCEPT ![e][ip] = Never]
    /\ UNCHANGED <<clock, joinVars, regVars, call, history>>

\* 429 with Retry-After.
TooManyRequests_Charged(e, ip) ==                                    \* mutant
    /\ ~Conforms(e, ip)
    /\ tat' = [tat EXCEPT ![e][ip] = @ + 1]
    /\ since' = [since EXCEPT ![e][ip] = IF @ = Never THEN clock ELSE @]
    /\ UNCHANGED <<clock, joinVars, regVars, call, history>>
TooManyRequests(e, ip) ==
    /\ ~Conforms(e, ip)
    /\ since' = [since EXCEPT ![e][ip] = IF @ = Never THEN clock ELSE @]
    /\ UNCHANGED <<clock, joinVars, regVars, call, tat, history>>

EndpointStep(e, from) ==
    \E xff, peer \in from \cup {NoIP} :
        LET ip == EndpointIP(xff, peer)
        IN ip # NoIP /\ (Pass(e, ip) \/ TooManyRequests(e, ip))

-----------------------------------------------------------------------------
Tick ==
    /\ clock < MaxClock
    /\ clock' = clock + 1
    /\ UNCHANGED <<joinVars, regVars, call, tat, history, since>>

-----------------------------------------------------------------------------
(* Properties                                                              *)

LimitTypeOK ==
    /\ clock \in 0 .. MaxClock
    /\ DOMAIN joinHits \subseteq IPs /\ DOMAIN regHits \subseteq IPs
    /\ joinCalls \in 0 .. JOIN_JANITOR_EVERY - 1 /\ regCalls \in 0 .. JANITOR_EVERY - 1
    /\ \A c \in Callers : call[c].ip \in IPs \cup {NoIP} /\ call[c].now \in 0 .. MaxClock
    /\ tat \in [Endpoints -> [IPs -> Nat]]
    /\ since \in [Endpoints -> [IPs -> 0 .. Never]]

\* How many admissions count against a call.
Recent(ip, now) == Len(SelectSeq(log[ip], LAMBDA t : ~Expired(t, now)))

\* Whatever the janitors remove and however calls interleave, a call is
\* admitted exactly when the address had fewer admissions than the limit in the
\* window before it: none too many pass, and none is refused for hits that have
\* expired.  It is not promised when a limiter works with times out of order,
\* or after a map at its cap was cleared, which also clears log.
WindowKept ==
    [][\A c \in Callers :
         LET limit == IF call[c].pc = "decide" THEN MAX_JOINS_PER_WINDOW ELSE RATE_LIMIT_MAX
             few == Recent(call[c].ip, call[c].now) < limit
         IN ~late' /\ call[c].pc \in {"timed", "decide"} =>
              /\ call'[c].pc = "admitted" => few \/ Full
              /\ call'[c].pc = "refused" => ~few]_limitVars

\* The maps do not grow with the number of addresses that call.  The janitor of
\* the join limiter sees the cap only every so many calls, and each caller may be
\* held up between the count and the look, while so many others go past.
MapBounded ==
    /\ Cardinality(DOMAIN regHits) <= MAP_SIZE_CAP
    /\ Cardinality(DOMAIN joinHits)
         <= JOIN_MAP_SIZE_CAP - 1 + Cardinality(Callers) * JOIN_JANITOR_EVERY

\* A client that was refused and comes back after the seconds of Retry-After,
\* without another request of its address having passed, is let through
\* (rate_limit.rs: "the minimum wait before at least one token is restored").
RetryHelps ==
    \A e \in Endpoints, ip \in IPs :
        since[e][ip] # Never /\ clock >= since[e][ip] + RetryAfter(e) => Conforms(e, ip)

=============================================================================
