------------------------------ MODULE TurnPool ------------------------------
(***************************************************************************)
(* The TURN server pool (crates/server/src/turn_pool.rs), the task that    *)
(* probes its servers (turn_probe_loop.rs) and the SIGHUP task of main.rs  *)
(* that replaces its list.                                                 *)
(*                                                                         *)
(* A list is a vector of server objects with atomic health fields; it is   *)
(* never changed, but replaced by another one.  The prober works through   *)
(* the list it loaded when its tick began, one await per server; a reload  *)
(* copies the fields of the old objects into new ones, field by field, and *)
(* then stores the new list.  last_rtt_ms is reported, never read by a     *)
(* decision, and is left out.  An entry is its URL.                        *)
(*                                                                         *)
(* An operator marked "mutant" is a deliberately broken variant of the     *)
(* definition below it; nothing uses it but the mutation runs.             *)
(***************************************************************************)
EXTENDS Naturals, FiniteSets

CONSTANTS Urls,             \* URLs of TURN servers
          Configs,          \* lists a reload may be called with, as sets of URLs
          UNHEALTHY_AFTER,  \* config.rs:42: turn_unhealthy_after_fails
          MaxReloads        \* bound: reloads

ASSUME ConfigAssumption == Configs \subseteq SUBSET Urls /\ Configs # {}
ASSUME CounterAssumption == UNHEALTHY_AFTER \in Nat \ {0} /\ MaxReloads \in Nat

Nobody == "nobody"
ASSUME UrlsAssumption == IsFiniteSet(Urls) /\ Nobody \notin Urls

\* Bound: failures are counted up to here, one past the only comparison.
FailCap == UNHEALTHY_AFTER + 1
Counts == 0 .. FailCap
Inc(n) == IF n < FailCap THEN n + 1 ELSE n

\* The lists, in the order they are installed; 0 is no list.
Generations == 0 .. MaxReloads + 1

VARIABLES
    lists,      \* lists[g][u]: the server object of u in the g-th list
    cur,        \* the list in the ArcSwap
    up,         \* the servers that answer, DNS and network included
    snap,       \* the list the prober works through
    todo,       \* the servers of this tick it has not come to
    at,         \* the server it is probing, or Nobody
    step,       \* where it is between two atomic accesses
    gauge,      \* turn_servers_healthy
    rstep,      \* the SIGHUP task: "idle", "copy", or "half" through an object
    target,     \* the configuration it is building a list for
    fresh,      \* the objects of that list built so far
    half,       \* the url whose healthy flag has been copied, and the flag
    streak,     \* history: failed probes in a row since the server was added
    overlapped  \* history: a reload and a tick have overlapped

probeVars == <<snap, todo, at, step, gauge>>
reloadVars == <<rstep, target, fresh, half>>
vars == <<lists, cur, up, probeVars, reloadVars, streak, overlapped>>

Server == [healthy : BOOLEAN, fails : Counts]
NewServer == [healthy |-> TRUE, fails |-> 0]
NoObjects == [u \in {} |-> NewServer]
NoHalf == [url |-> Nobody, healthy |-> TRUE]
Pool == lists[cur]
Listed == DOMAIN Pool
Healthy(list) == {u \in DOMAIN list : list[u].healthy}

Ticking == step # "idle"

-----------------------------------------------------------------------------
Init ==
    /\ \E cfg \in Configs : lists = [g \in Generations |->
                                       IF g = 1 THEN [u \in cfg |-> NewServer] ELSE NoObjects]
    /\ cur = 1
    /\ up \in SUBSET Urls
    /\ snap = 0 /\ todo = {} /\ at = Nobody /\ step = "idle" /\ gauge = 0
    /\ rstep = "idle" /\ target = {} /\ fresh = NoObjects /\ half = NoHalf
    /\ streak = [u \in Urls |-> 0]
    /\ overlapped = FALSE

-----------------------------------------------------------------------------
(* The probe task                                                          *)

\* The interval fires: load_full().
Tick ==
    /\ step = "idle"
    /\ snap' = cur /\ todo' = Listed /\ step' = "next"
    /\ overlapped' = (overlapped \/ rstep # "idle")
    /\ UNCHANGED <<lists, cur, up, at, gauge, reloadVars, streak>>

\* The next server of the list; its order says nothing here.
Probe(u) ==
    /\ step = "next" /\ u \in todo
    /\ todo' = todo \ {u} /\ at' = u /\ step' = "await"
    /\ UNCHANGED <<lists, cur, up, snap, gauge, reloadVars, streak, overlapped>>

SetFails(n) == lists' = [lists EXCEPT ![snap][at].fails = n]
SetHealthy(flag) == lists' = [lists EXCEPT ![snap][at].healthy = flag]
Probed == lists[snap][at]
Remember(n) == streak' = IF at \in Listed THEN [streak EXCEPT ![at] = n] ELSE streak

\* Resolution fails, or no matching response in 3 seconds: fetch_add.
Fails ==
    /\ step = "await" /\ at \notin up
    /\ SetFails(Inc(Probed.fails))
    /\ Remember(Inc(streak[at]))
    /\ step' = "failed"
    /\ UNCHANGED <<cur, up, snap, todo, at, gauge, reloadVars, overlapped>>

TooMany_Exactly(n) == n = UNHEALTHY_AFTER                            \* mutant
TooMany(n) == n >= UNHEALTHY_AFTER

\* fails >= unhealthy_after && healthy.swap(false).  Only this task writes to
\* the objects of a list that is in use, so fails is what it just stored.
FlipDown ==
    /\ step = "failed"
    /\ IF TooMany(Probed.fails) THEN SetHealthy(FALSE) ELSE UNCHANGED lists
    /\ at' = Nobody /\ step' = "next"
    /\ UNCHANGED <<cur, up, snap, todo, gauge, reloadVars, streak, overlapped>>

\* A response: consecutive_failures.store(0) ...
Answers ==
    /\ step = "await" /\ at \in up
    /\ SetFails(0)
    /\ step' = "answered"
    /\ UNCHANGED <<cur, up, snap, todo, at, gauge, reloadVars, streak, overlapped>>

\* ... and healthy.swap(true).
FlipUp_OnlyBelow ==                                                  \* mutant
    /\ step = "answered"
    /\ lists' = lists
    /\ Remember(0)
    /\ at' = Nobody /\ step' = "next"
    /\ UNCHANGED <<cur, up, snap, todo, gauge, reloadVars, overlapped>>
FlipUp ==
    /\ step = "answered"
    /\ SetHealthy(TRUE)
    /\ Remember(0)
    /\ at' = Nobody /\ step' = "next"
    /\ UNCHANGED <<cur, up, snap, todo, gauge, reloadVars, overlapped>>

\* The end of the tick: the gauge is set from the list just probed.
Gauge_BeforeProbing ==                                               \* mutant
    /\ step = "next"
    /\ gauge' = IF at = Nobody /\ todo = DOMAIN lists[snap]
                THEN Cardinality(Healthy(lists[snap])) ELSE gauge
    /\ step' = IF todo = {} THEN "idle" ELSE "next"
    /\ UNCHANGED <<lists, cur, up, snap, todo, at, reloadVars, streak, overlapped>>
Gauge ==
    /\ step = "next" /\ todo = {}
    /\ gauge' = Cardinality(Healthy(lists[snap]))
    /\ step' = "idle"
    /\ UNCHANGED <<lists, cur, up, snap, todo, at, reloadVars, streak, overlapped>>

Prober == \/ Tick \/ (\E u \in Urls : Probe(u)) \/ Fails \/ FlipDown
          \/ Answers \/ FlipUp \/ Gauge

-----------------------------------------------------------------------------
(* reload.  There is one SIGHUP task, so reloads do not overlap each other *)
(* and the list it loads at the start is in place until it stores its own. *)

ReloadBegin(cfg) ==
    /\ rstep = "idle" /\ cur <= MaxReloads
    /\ rstep' = "copy" /\ target' = cfg
    /\ overlapped' = (overlapped \/ Ticking)
    /\ UNCHANGED <<lists, cur, up, probeVars, fresh, half, streak>>

Missing == target \ DOMAIN fresh
Extend(u, server) == fresh' = [v \in DOMAIN fresh \cup {u} |-> IF v = u THEN server ELSE fresh[v]]

\* A URL the old list has: its fields are loaded one after the other.
CopyHealthy(u) ==
    /\ rstep = "copy" /\ u \in Missing \cap Listed
    /\ rstep' = "half" /\ half' = [url |-> u, healthy |-> Pool[u].healthy]
    /\ UNCHANGED <<lists, cur, up, probeVars, target, fresh, streak, overlapped>>

CopyFails_Reset ==                                                   \* mutant
    /\ rstep = "half"
    /\ Extend(half.url, [healthy |-> half.healthy, fails |-> 0])
    /\ rstep' = "copy" /\ half' = NoHalf
    /\ UNCHANGED <<lists, cur, up, probeVars, target, streak, overlapped>>
CopyFails ==
    /\ rstep = "half"
    /\ Extend(half.url, [healthy |-> half.healthy, fails |-> Pool[half.url].fails])
    /\ rstep' = "copy" /\ half' = NoHalf
    /\ UNCHANGED <<lists, cur, up, probeVars, target, streak, overlapped>>

\* A URL it has not.
AddNew_Untried(u) ==                                                 \* mutant
    /\ rstep = "copy" /\ u \in Missing \ Listed
    /\ Extend(u, [healthy |-> FALSE, fails |-> 0])
    /\ UNCHANGED <<lists, cur, up, probeVars, rstep, target, half, streak, overlapped>>
AddNew(u) ==
    /\ rstep = "copy" /\ u \in Missing \ Listed
    /\ Extend(u, NewServer)
    /\ UNCHANGED <<lists, cur, up, probeVars, rstep, target, half, streak, overlapped>>

\* servers.store()
Store ==
    /\ rstep = "copy" /\ Missing = {}
    /\ lists' = [lists EXCEPT ![cur + 1] = fresh]
    /\ cur' = cur + 1
    /\ rstep' = "idle" /\ target' = {} /\ fresh' = NoObjects
    /\ streak' = [u \in Urls |-> IF u \in Listed \cap target THEN streak[u] ELSE 0]
    /\ UNCHANGED <<up, probeVars, half, overlapped>>

Reload == \/ (\E u \in Urls : CopyHealthy(u) \/ AddNew(u)) \/ CopyFails \/ Store

-----------------------------------------------------------------------------
\* A TURN server, its DNS name or the path to it goes down or comes back.
Weather(u) ==
    /\ up' = IF u \in up THEN up \ {u} ELSE up \cup {u}
    /\ UNCHANGED <<lists, cur, probeVars, reloadVars, streak, overlapped>>

Next == \/ Prober \/ Reload
        \/ \E cfg \in Configs : ReloadBegin(cfg)
        \/ \E u \in Urls : Weather(u)

Spec == Init /\ [][Next]_vars

\* The runtime polls both tasks; the interval keeps firing.
FairSpec == Spec /\ WF_vars(Prober) /\ WF_vars(Reload)

-----------------------------------------------------------------------------
(* Properties                                                              *)

Partial(S, T) == UNION {[D -> T] : D \in SUBSET S}

TypeOK ==
    /\ lists \in [Generations -> Partial(Urls, Server)]
    /\ cur \in Generations /\ snap \in 0 .. cur
    /\ up \subseteq Urls /\ todo \subseteq DOMAIN lists[snap]
    /\ at \in Urls \cup {Nobody}
    /\ step \in {"idle", "next", "await", "failed", "answered"}
    /\ step \in {"await", "failed", "answered"} <=> at # Nobody
    /\ at # Nobody => at \in DOMAIN lists[snap]
    /\ gauge \in 0 .. Cardinality(Urls)
    /\ rstep \in {"idle", "copy", "half"} /\ target \subseteq Urls
    /\ fresh \in Partial(target, Server)
    /\ half \in [url : Urls \cup {Nobody}, healthy : BOOLEAN]
    /\ rstep = "half" => half.url \in Missing
    /\ streak \in [Urls -> Counts]
    /\ overlapped \in BOOLEAN

\* As long as no reload overlapped a tick, what the pool believes of a server
\* is exactly its probe history, across any number of reloads: the counter is
\* the number of failures in a row, and the server is offered to clients until
\* they reach the threshold, not one probe more or less.
HealthIsHistory ==
    ~overlapped => \A u \in Listed \ {at} :
        /\ Pool[u].fails = streak[u]
        /\ Pool[u].healthy <=> streak[u] < UNHEALTHY_AFTER

\* Between ticks the gauge is the number of servers offered to clients, unless
\* the list has been replaced since the tick began.
GaugeIsPool ==
    step = "idle" /\ snap = cur => gauge = Cardinality(Healthy(Pool))

\* To its readers the pool is a list whose flags change one at a time and which
\* is replaced as a whole, new servers being healthy: a reload under way, its
\* half copied objects and a probe on an old list are not to be seen.
Abstract == INSTANCE HealthPool
              WITH flags <- [g \in Generations |->
                               [u \in DOMAIN lists[g] |-> lists[g][u].healthy]]
ImplementsPool == Abstract!PoolSpec

\* Whatever reloads did to the counters, a server that stays unreachable is
\* offered no longer in the end ...
DeadIsDropped ==
    \A u \in Urls : <>[](u \notin up) => <>[](u \in Listed => ~Pool[u].healthy)

\* ... and one that stays reachable is offered again, although a reload may have
\* built its object from a healthy flag and a counter of different moments.
LiveIsOffered ==
    \A u \in Urls : <>[](u \in up) => <>[](u \in Listed => Pool[u].healthy)

=============================================================================
