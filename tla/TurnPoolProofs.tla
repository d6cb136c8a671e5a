--------------------------- MODULE TurnPoolProofs ---------------------------
(***************************************************************************)
(* Theorems about the TURN pool, for any servers, any lists to reload, any *)
(* threshold and any weather.                                              *)
(***************************************************************************)
EXTENDS TurnPool, FiniteSetTheorems, TLAPS

Lists == Partial(Urls, Server)

\* A list is an object for each of some servers.
LEMMA ListIs ==
    \A list : list \in Lists <=> DOMAIN list \subseteq Urls /\ list \in [DOMAIN list -> Server]
BY DEF Lists, Partial

\* Where the two tasks are.
Phases ==
    /\ cur >= 1
    /\ step # "idle" => snap \in 1 .. cur
    /\ rstep # "idle" => target \in Configs /\ cur <= MaxReloads
    /\ rstep = "idle" => DOMAIN fresh = {}
    /\ rstep = "half" => half.url \in Listed
    /\ \A u \in DOMAIN fresh \ Listed : fresh[u] = NewServer

\* Until a reload has overlapped a tick, the tasks run one after the other, and
\* what is copied is what is there.
InTurn ==
    ~overlapped =>
        /\ step # "idle" => rstep = "idle" /\ snap = cur
        /\ \A u \in DOMAIN fresh \cap Listed : fresh[u] = Pool[u]
        /\ rstep = "half" => half.healthy = Pool[half.url].healthy

\* The history of the server being probed is ahead of one of its fields.
Remembered ==
    ~overlapped =>
        /\ \A u \in Listed : u # at \/ step = "await" =>
             /\ Pool[u].fails = streak[u]
             /\ Pool[u].healthy <=> streak[u] < UNHEALTHY_AFTER
        /\ step = "failed" =>
             /\ Pool[at].fails = streak[at]
             /\ streak[at] < UNHEALTHY_AFTER => Pool[at].healthy
        /\ step = "answered" => Pool[at].fails = 0

PoolInv == TypeOK /\ Phases /\ InTurn /\ Remembered /\ GaugeIsPool


LEMMA Constants ==
    /\ NewServer \in Server /\ NoObjects \in Lists /\ DOMAIN NoObjects = {}
    /\ 0 \in Counts /\ \A n \in Counts : Inc(n) \in Counts /\ n \in Nat
    /\ \A n \in Counts : n < UNHEALTHY_AFTER => Inc(n) = n + 1
    /\ \A n \in Counts : Inc(n) < UNHEALTHY_AFTER => n < UNHEALTHY_AFTER
    /\ 0 < UNHEALTHY_AFTER
<1> USE CounterAssumption DEF Counts, FailCap, Inc
<1>1. NewServer \in Server
  BY DEF NewServer, Server
<1>2. NoObjects \in Lists /\ DOMAIN NoObjects = {}
  BY ListIs DEF NoObjects
<1> QED
  BY <1>1, <1>2

LEMMA HealthyIsFinite ==
    ASSUME NEW list \in Lists
    PROVE  Cardinality(Healthy(list)) \in 0 .. Cardinality(Urls)
<1>1. Healthy(list) \subseteq Urls
  BY ListIs DEF Healthy
<1>2. IsFiniteSet(Urls)
  BY UrlsAssumption
<1>3. /\ IsFiniteSet(Healthy(list)) /\ Cardinality(Healthy(list)) <= Cardinality(Urls)
      /\ Cardinality(Healthy(list)) \in Nat /\ Cardinality(Urls) \in Nat
  BY <1>1, <1>2, FS_Subset, FS_CardinalityType
<1> QED
  BY <1>3

\* A store to one field of the server being probed.
LEMMA StoreIsLocal ==
    ASSUME TypeOK, step # "idle", at # Nobody, NEW server \in Server,
           lists' = [lists EXCEPT ![snap] = [@ EXCEPT ![at] = server]]
    PROVE  /\ lists' \in [Generations -> Lists]
           /\ \A g \in Generations : DOMAIN lists'[g] = DOMAIN lists[g]
           /\ \A g \in Generations : \A u \in DOMAIN lists[g] :
                lists'[g][u] = IF g = snap /\ u = at THEN server ELSE lists[g][u]
<1>1. lists \in [Generations -> Lists] /\ at \in DOMAIN lists[snap]
  BY DEF TypeOK, Lists
<1>2. CASE snap \in Generations
  <2> DEFINE new == [lists[snap] EXCEPT ![at] = server]
  <2>1. lists[snap] \in Lists
    BY <1>1, <1>2
  <2>2. /\ new \in Lists /\ DOMAIN new = DOMAIN lists[snap]
        /\ \A u \in DOMAIN lists[snap] : new[u] = IF u = at THEN server ELSE lists[snap][u]
    BY <1>1, <2>1, ListIs
  <2>3. lists' = [lists EXCEPT ![snap] = new]
    BY <1>1, <1>2
  <2> HIDE DEF new
  <2> QED
    BY <1>1, <1>2, <2>2, <2>3
<1>3. snap \in Generations
  BY CounterAssumption DEF TypeOK, Generations
<1> QED
  BY <1>2, <1>3

\* The three stores of the prober.
LEMMA FieldStores ==
    ASSUME TypeOK, step # "idle", at # Nobody, NEW n \in Counts, NEW b \in BOOLEAN
    PROVE  /\ Probed \in Server
           /\ SetFails(n) <=>
                lists' = [lists EXCEPT ![snap] =
                            [@ EXCEPT ![at] = [healthy |-> Probed.healthy, fails |-> n]]]
           /\ SetHealthy(b) <=>
                lists' = [lists EXCEPT ![snap] =
                            [@ EXCEPT ![at] = [healthy |-> b, fails |-> Probed.fails]]]
<1>1. lists \in [Generations -> Lists] /\ at \in DOMAIN lists[snap] /\ snap \in Generations
  BY CounterAssumption DEF TypeOK, Lists, Generations
<1>2. lists[snap] \in Lists
  BY <1>1
<1>3. Probed \in Server
  BY <1>1, <1>2, ListIs DEF Probed
<1>4. /\ [Probed EXCEPT !.fails = n] = [healthy |-> Probed.healthy, fails |-> n]
      /\ [Probed EXCEPT !.healthy = b] = [healthy |-> b, fails |-> Probed.fails]
  BY <1>3 DEF Server
<1>5. SetFails(n) <=>
          lists' = [lists EXCEPT ![snap] = [@ EXCEPT ![at] = [Probed EXCEPT !.fails = n]]]
  BY <1>1, <1>2, ListIs DEF SetFails, Probed
<1>6. SetHealthy(b) <=>
          lists' = [lists EXCEPT ![snap] = [@ EXCEPT ![at] = [Probed EXCEPT !.healthy = b]]]
  BY <1>1, <1>2, ListIs DEF SetHealthy, Probed
<1> QED
  BY <1>3, <1>4, <1>5, <1>6

-----------------------------------------------------------------------------
(* The invariant                                                           *)

LEMMA PoolInvInit == Init => PoolInv
<1> SUFFICES ASSUME Init PROVE PoolInv
  OBVIOUS
<1> USE CounterAssumption, UrlsAssumption, Constants
<1> PICK cfg \in Configs : lists = [g \in Generations |->
                                      IF g = 1 THEN [u \in cfg |-> NewServer] ELSE NoObjects]
  BY DEF Init
<1>1. 0 \in Generations /\ 1 \in Generations /\ cfg \subseteq Urls /\ cur = 1
  BY ConfigAssumption DEF Generations, Init
<1>2. [u \in cfg |-> NewServer] \in Lists
  BY <1>1, ListIs
<1>3. lists \in [Generations -> Lists] /\ Pool = [u \in cfg |-> NewServer] /\ lists[0] = NoObjects
  BY <1>1, <1>2 DEF Pool
<1>4. /\ step = "idle" /\ rstep = "idle" /\ at = Nobody /\ snap = 0 /\ todo = {} /\ target = {}
      /\ fresh = NoObjects /\ half = NoHalf /\ streak = [u \in Urls |-> 0] /\ ~overlapped
      /\ up \subseteq Urls /\ gauge = 0
  BY DEF Init
<1>5. TypeOK
  <2>1. fresh \in Partial(target, Server)
    <3>1. fresh \in [{} -> Server] /\ {} \in SUBSET target
      BY <1>4 DEF NoObjects
    <3> QED
      BY <3>1 DEF Partial
  <2>2. half \in [url : Urls \cup {Nobody}, healthy : BOOLEAN]
    BY <1>4 DEF NoHalf
  <2>3. gauge \in 0 .. Cardinality(Urls)
    BY <1>4, FS_CardinalityType
  <2>4. streak \in [Urls -> Counts]
    BY <1>4
  <2>5. cur \in Generations /\ snap \in 0 .. cur
    BY <1>1, <1>4
  <2>6. /\ step \in {"idle", "next", "await", "failed", "answered"}
        /\ step \notin {"await", "failed", "answered"}
        /\ rstep \in {"idle", "copy", "half"} /\ rstep # "half"
    BY <1>4
  <2>7. overlapped \in BOOLEAN
    BY DEF Init
  <2>8. target \subseteq Urls /\ at \in Urls \cup {Nobody} /\ todo \subseteq DOMAIN lists[snap]
    BY <1>4
  <2>9. lists \in [Generations -> Partial(Urls, Server)]
    BY <1>3 DEF Lists
  <2> QED
    BY <1>4, <2>1, <2>2, <2>3, <2>4, <2>5, <2>6, <2>7, <2>8, <2>9 DEF TypeOK
<1>6. Phases
  BY <1>1, <1>4 DEF Phases
<1>7. InTurn
  BY <1>4 DEF InTurn
<1>8. Remembered
  <2>1. \A u \in cfg : Pool[u] = NewServer /\ streak[u] = 0
    BY <1>1, <1>3, <1>4
  <2> QED
    BY <1>3, <1>4, <2>1 DEF Remembered, NewServer, Listed
<1>9. GaugeIsPool
  BY <1>1, <1>4 DEF GaugeIsPool
<1> QED
  BY <1>5, <1>6, <1>7, <1>8, <1>9 DEF PoolInv

\* A store of the prober disturbs nothing but the object it is on.
LEMMA StoreKeeps ==
    ASSUME PoolInv, step \in {"await", "failed", "answered"}, NEW server \in Server,
           lists' = [lists EXCEPT ![snap] = [@ EXCEPT ![at] = server]],
           UNCHANGED <<cur, up, snap, todo, gauge, reloadVars, overlapped>>,
           streak' \in [Urls -> Counts],
           \/ at' = at /\ step' \in {"failed", "answered"}
           \/ at' = Nobody /\ step' = "next"
    PROVE  /\ TypeOK' /\ Phases' /\ InTurn' /\ GaugeIsPool'
           /\ at # Nobody /\ at \in Urls
           /\ ~overlapped => at \in Listed /\ snap = cur
           /\ Listed' = Listed
           /\ \A u \in Listed : Pool'[u] = IF snap = cur /\ u = at THEN server ELSE Pool[u]
<1>1. at # Nobody /\ at \in DOMAIN lists[snap] /\ snap \in 0 .. cur /\ cur \in Generations
  BY DEF PoolInv, TypeOK
<1>2. snap \in Generations
  BY <1>1, CounterAssumption DEF Generations
<1>3. /\ lists' \in [Generations -> Lists]
      /\ \A g \in Generations : DOMAIN lists'[g] = DOMAIN lists[g]
      /\ \A g \in Generations : \A u \in DOMAIN lists[g] :
           lists'[g][u] = IF g = snap /\ u = at THEN server ELSE lists[g][u]
  BY <1>1, StoreIsLocal DEF PoolInv
<1>4. /\ Listed' = Listed
      /\ \A u \in Listed : Pool'[u] = IF snap = cur /\ u = at THEN server ELSE Pool[u]
  BY <1>1, <1>3 DEF Listed, Pool
<1>5. at \in Urls
  BY <1>1 DEF PoolInv, TypeOK
<1>6. ~overlapped => at \in Listed /\ snap = cur /\ rstep = "idle" /\ DOMAIN fresh = {}
  BY <1>1 DEF PoolInv, InTurn, Phases, Listed, Pool
<1>7. DOMAIN lists'[snap] = DOMAIN lists[snap]
  BY <1>2, <1>3
<1>8. TypeOK'
  BY <1>1, <1>3, <1>5, <1>7 DEF PoolInv, TypeOK, Lists, reloadVars, Missing
<1>9. Phases'
  BY <1>1, <1>4 DEF PoolInv, Phases, reloadVars
<1>10. InTurn'
  BY <1>6 DEF InTurn, reloadVars
<1>11. GaugeIsPool'
  BY DEF GaugeIsPool
<1> QED
  BY <1>1, <1>4, <1>5, <1>6, <1>8, <1>9, <1>10, <1>11

\* A store and the history it writes keep the invariant.
LEMMA ProberStoresKeep ==
    ASSUME PoolInv, Fails \/ FlipDown \/ Answers \/ FlipUp PROVE PoolInv'
<1> USE Constants
<1>1. /\ at # Nobody /\ at \in Urls /\ streak \in [Urls -> Counts] /\ step # "idle"
      /\ Probed \in Server
  BY FieldStores DEF PoolInv, TypeOK, Fails, FlipDown, Answers, FlipUp
<1>2. streak[at] \in Counts
  BY <1>1
<1>3. CASE Fails
  <2> DEFINE n == Inc(Probed.fails)
             server == [healthy |-> Probed.healthy, fails |-> n]
  <2>1. n \in Counts /\ server \in Server
    BY <1>1 DEF Server
  <2>2. lists' = [lists EXCEPT ![snap] = [@ EXCEPT ![at] = server]]
    BY <1>1, <1>3, <2>1, FieldStores DEF Fails, PoolInv
  <2>3. streak' = IF at \in Listed THEN [streak EXCEPT ![at] = Inc(streak[at])] ELSE streak
    BY <1>3 DEF Fails, Remember
  <2>4. streak' \in [Urls -> Counts]
    BY <1>1, <1>2, <2>3
  <2> HIDE DEF n, server
  <2>5. /\ TypeOK' /\ Phases' /\ InTurn' /\ GaugeIsPool' /\ Listed' = Listed
        /\ ~overlapped => at \in Listed /\ snap = cur
        /\ \A u \in Listed : Pool'[u] = IF snap = cur /\ u = at THEN server ELSE Pool[u]
    BY <1>3, <2>1, <2>2, <2>4, StoreKeeps DEF Fails
  <2>6. Remembered'
    <3> SUFFICES ASSUME ~overlapped PROVE Remembered'
      BY <1>3 DEF Remembered, Fails
    <3>1. \A u \in Listed \ {at} : Pool'[u] = Pool[u] /\ streak'[u] = streak[u]
      BY <1>1, <2>3, <2>5, ListIs DEF PoolInv, TypeOK, Lists
    <3>2. Pool'[at] = server /\ streak'[at] = Inc(streak[at]) /\ Pool[at] = Probed
      BY <1>1, <2>3, <2>5 DEF Pool, Probed
    <3>3. Pool[at].fails = streak[at] /\ (Pool[at].healthy <=> streak[at] < UNHEALTHY_AFTER)
      BY <1>3, <2>5 DEF PoolInv, Remembered, Fails
    <3>4. Pool'[at].fails = Inc(streak[at]) /\ Pool'[at].healthy = Pool[at].healthy
      BY <3>2, <3>3 DEF server, n
    <3>5. step' = "failed" /\ at' = at /\ Listed' = Listed
      BY <1>3, <2>5 DEF Fails
    <3>6. \A u \in Listed \ {at} : Pool[u].fails = streak[u]
                                   /\ (Pool[u].healthy <=> streak[u] < UNHEALTHY_AFTER)
      BY DEF PoolInv, Remembered
    <3> QED
      BY <1>2, <3>1, <3>2, <3>3, <3>4, <3>5, <3>6 DEF Remembered
  <2> QED
    BY <2>5, <2>6 DEF PoolInv
<1>4. CASE FlipDown
  <2> DEFINE server == IF TooMany(Probed.fails)
                          THEN [healthy |-> FALSE, fails |-> Probed.fails] ELSE Probed
  <2>1. server \in Server
    BY <1>1 DEF Server
  <2>2. lists' = [lists EXCEPT ![snap] = [@ EXCEPT ![at] = server]]
    <3>1. CASE TooMany(Probed.fails)
      BY <1>1, <1>4, <3>1, FieldStores DEF FlipDown, PoolInv
    <3>2. CASE ~TooMany(Probed.fails)
      <4>1. lists' = lists /\ lists \in [Generations -> Lists] /\ snap \in Generations
        BY <1>4, <3>2, CounterAssumption DEF FlipDown, PoolInv, TypeOK, Lists, Generations
      <4>2. [lists[snap] EXCEPT ![at] = Probed] = lists[snap]
        BY <4>1, ListIs DEF Probed
      <4> QED
        BY <3>2, <4>1, <4>2
    <3> QED
      BY <3>1, <3>2
  <2>3. streak' = streak
    BY <1>4 DEF FlipDown
  <2> HIDE DEF server
  <2>5. /\ TypeOK' /\ Phases' /\ InTurn' /\ GaugeIsPool' /\ Listed' = Listed
        /\ ~overlapped => at \in Listed /\ snap = cur
        /\ \A u \in Listed : Pool'[u] = IF snap = cur /\ u = at THEN server ELSE Pool[u]
    BY <1>1, <1>4, <2>1, <2>2, <2>3, StoreKeeps DEF FlipDown
  <2>6. Remembered'
    <3> SUFFICES ASSUME ~overlapped PROVE Remembered'
      BY <1>4 DEF Remembered, FlipDown
    <3>1. \A u \in Listed \ {at} : Pool'[u] = Pool[u]
      BY <2>5
    <3>2. Pool'[at] = server /\ Pool[at] = Probed
      BY <2>5 DEF Pool, Probed
    <3>3. Pool[at].fails = streak[at] /\ (streak[at] < UNHEALTHY_AFTER => Pool[at].healthy)
      BY <1>4, <2>5 DEF PoolInv, Remembered, FlipDown
    <3>4. Pool'[at].fails = streak[at] /\ (Pool'[at].healthy <=> streak[at] < UNHEALTHY_AFTER)
      <4>1. CASE TooMany(Probed.fails)
        BY <1>2, <3>2, <3>3, <4>1, CounterAssumption DEF server, TooMany
      <4>2. CASE ~TooMany(Probed.fails)
        BY <1>2, <3>2, <3>3, <4>2, CounterAssumption DEF server, TooMany
      <4> QED
        BY <4>1, <4>2
    <3>5. step' = "next" /\ Listed' = Listed
      BY <1>4, <2>5 DEF FlipDown
    <3>6. \A u \in Listed \ {at} : Pool[u].fails = streak[u]
                                   /\ (Pool[u].healthy <=> streak[u] < UNHEALTHY_AFTER)
      BY DEF PoolInv, Remembered
    <3> QED
      BY <2>3, <3>1, <3>4, <3>5, <3>6 DEF Remembered
  <2> QED
    BY <2>5, <2>6 DEF PoolInv
<1>5. CASE Answers
  <2> DEFINE server == [healthy |-> Probed.healthy, fails |-> 0]
  <2>1. server \in Server
    BY <1>1 DEF Server
  <2>2. lists' = [lists EXCEPT ![snap] = [@ EXCEPT ![at] = server]]
    BY <1>1, <1>5, FieldStores DEF Answers, PoolInv
  <2>3. streak' = streak
    BY <1>5 DEF Answers
  <2> HIDE DEF server
  <2>5. /\ TypeOK' /\ Phases' /\ InTurn' /\ GaugeIsPool' /\ Listed' = Listed
        /\ ~overlapped => at \in Listed /\ snap = cur
        /\ \A u \in Listed : Pool'[u] = IF snap = cur /\ u = at THEN server ELSE Pool[u]
    BY <1>1, <1>5, <2>1, <2>2, <2>3, StoreKeeps DEF Answers
  <2>6. Remembered'
    <3> SUFFICES ASSUME ~overlapped PROVE Remembered'
      BY <1>5 DEF Remembered, Answers
    <3>1. \A u \in Listed \ {at} : Pool'[u] = Pool[u]
      BY <2>5
    <3>2. Pool'[at].fails = 0
      BY <2>5 DEF server
    <3>5. step' = "answered" /\ at' = at /\ Listed' = Listed
      BY <1>5, <2>5 DEF Answers
    <3>6. \A u \in Listed \ {at} : Pool[u].fails = streak[u]
                                   /\ (Pool[u].healthy <=> streak[u] < UNHEALTHY_AFTER)
      BY DEF PoolInv, Remembered
    <3> QED
      BY <2>3, <3>1, <3>2, <3>5, <3>6 DEF Remembered
  <2> QED
    BY <2>5, <2>6 DEF PoolInv
<1>6. CASE FlipUp
  <2> DEFINE server == [healthy |-> TRUE, fails |-> Probed.fails]
  <2>1. server \in Server
    BY <1>1 DEF Server
  <2>2. lists' = [lists EXCEPT ![snap] = [@ EXCEPT ![at] = server]]
    BY <1>1, <1>6, FieldStores DEF FlipUp, PoolInv
  <2>3. streak' = IF at \in Listed THEN [streak EXCEPT ![at] = 0] ELSE streak
    BY <1>6 DEF FlipUp, Remember
  <2>4. streak' \in [Urls -> Counts]
    BY <1>1, <2>3
  <2> HIDE DEF server
  <2>5. /\ TypeOK' /\ Phases' /\ InTurn' /\ GaugeIsPool' /\ Listed' = Listed
        /\ ~overlapped => at \in Listed /\ snap = cur
        /\ \A u \in Listed : Pool'[u] = IF snap = cur /\ u = at THEN server ELSE Pool[u]
    BY <1>6, <2>1, <2>2, <2>4, StoreKeeps DEF FlipUp
  <2>6. Remembered'
    <3> SUFFICES ASSUME ~overlapped PROVE Remembered'
      BY <1>6 DEF Remembered, FlipUp
    <3>1. \A u \in Listed \ {at} : Pool'[u] = Pool[u] /\ streak'[u] = streak[u]
      BY <1>1, <2>3, <2>5, ListIs DEF PoolInv, TypeOK, Lists
    <3>2. Pool'[at] = server /\ streak'[at] = 0 /\ Pool[at] = Probed
      BY <1>1, <2>3, <2>5 DEF Pool, Probed
    <3>3. Pool'[at].fails = 0 /\ Pool'[at].healthy
      BY <1>6, <2>5, <3>2 DEF PoolInv, Remembered, FlipUp, server
    <3>5. step' = "next" /\ Listed' = Listed
      BY <1>6, <2>5 DEF FlipUp
    <3>6. \A u \in Listed \ {at} : Pool[u].fails = streak[u]
                                   /\ (Pool[u].healthy <=> streak[u] < UNHEALTHY_AFTER)
      BY DEF PoolInv, Remembered
    <3> QED
      BY <3>1, <3>2, <3>3, <3>5, <3>6 DEF Remembered
  <2> QED
    BY <2>5, <2>6 DEF PoolInv
<1> QED
  BY <1>3, <1>4, <1>5, <1>6

\* The other steps of the prober store nothing.
LEMMA ProberMovesKeep ==
    ASSUME PoolInv, Tick \/ (\E u \in Urls : Probe(u)) \/ Gauge PROVE PoolInv'
<1> USE DEF PoolInv
<1>1. cur \in Generations /\ cur >= 1 /\ snap \in 0 .. cur /\ lists \in [Generations -> Lists]
  BY DEF TypeOK, Phases, Lists
<1>2. CASE Tick
  <2>1. /\ lists' = lists /\ cur' = cur /\ up' = up /\ at' = at /\ gauge' = gauge
        /\ UNCHANGED reloadVars /\ streak' = streak
        /\ step = "idle" /\ step' = "next" /\ snap' = cur /\ todo' = Listed
        /\ overlapped' = (overlapped \/ rstep # "idle")
    BY <1>2 DEF Tick
  <2>2. at = Nobody /\ Pool' = Pool /\ Listed' = Listed /\ Missing' = Missing
    BY <2>1 DEF TypeOK, Pool, Listed, Missing, reloadVars
  <2>3. cur \in 0 .. cur /\ cur \in 1 .. cur
    BY <1>1 DEF Generations
  <2>4. TypeOK'
    <3>1. overlapped' \in BOOLEAN
      BY <2>1 DEF TypeOK
    <3>2. todo' \subseteq DOMAIN lists'[snap']
      BY <2>1 DEF Listed, Pool
    <3> QED
      BY <2>1, <2>2, <2>3, <3>1, <3>2 DEF TypeOK, reloadVars
  <2>5. Phases'
    BY <2>1, <2>2, <2>3 DEF Phases, reloadVars
  <2>6. InTurn'
    BY <2>1, <2>2 DEF InTurn, reloadVars
  <2>7. Remembered'
    BY <2>1, <2>2 DEF Remembered
  <2>8. GaugeIsPool'
    BY <2>1 DEF GaugeIsPool
  <2> QED
    BY <2>4, <2>5, <2>6, <2>7, <2>8
<1>3. ASSUME NEW u \in Urls, Probe(u) PROVE PoolInv'
  <2>1. /\ lists' = lists /\ cur' = cur /\ up' = up /\ snap' = snap /\ gauge' = gauge
        /\ UNCHANGED reloadVars /\ streak' = streak /\ overlapped' = overlapped
        /\ step = "next" /\ step' = "await" /\ u \in todo /\ todo' = todo \ {u} /\ at' = u
    BY <1>3 DEF Probe
  <2>2. at = Nobody /\ Pool' = Pool /\ Listed' = Listed /\ Missing' = Missing
    BY <2>1 DEF TypeOK, Pool, Listed, Missing, reloadVars
  <2>3. u # Nobody /\ u \in DOMAIN lists[snap]
    BY <2>1, UrlsAssumption DEF TypeOK
  <2>4. TypeOK'
    BY <2>1, <2>2, <2>3 DEF TypeOK, reloadVars
  <2>5. Phases'
    BY <2>1, <2>2 DEF Phases, reloadVars
  <2>6. InTurn'
    BY <2>1, <2>2 DEF InTurn, reloadVars
  <2>7. Remembered'
    <3>1. ~overlapped => \A v \in Listed : /\ Pool[v].fails = streak[v]
                                           /\ Pool[v].healthy <=> streak[v] < UNHEALTHY_AFTER
      <4>1. \A v \in Listed : v # at
        BY <1>1, <2>2, ListIs, UrlsAssumption DEF Listed, Pool
      <4> QED
        BY <4>1 DEF Remembered
    <3> QED
      BY <2>1, <2>2, <3>1 DEF Remembered
  <2>8. GaugeIsPool'
    BY <2>1 DEF GaugeIsPool
  <2> QED
    BY <2>4, <2>5, <2>6, <2>7, <2>8
<1>4. CASE Gauge
  <2>1. /\ lists' = lists /\ cur' = cur /\ up' = up /\ snap' = snap /\ todo' = todo /\ at' = at
        /\ UNCHANGED reloadVars /\ streak' = streak /\ overlapped' = overlapped
        /\ step = "next" /\ step' = "idle" /\ gauge' = Cardinality(Healthy(lists[snap]))
    BY <1>4 DEF Gauge
  <2>2. at = Nobody /\ Pool' = Pool /\ Listed' = Listed /\ Missing' = Missing
    BY <2>1 DEF TypeOK, Pool, Listed, Missing, reloadVars
  <2>3. gauge' \in 0 .. Cardinality(Urls)
    <3>1. snap \in Generations
      BY <1>1, CounterAssumption DEF Generations
    <3> QED
      BY <1>1, <2>1, <3>1, HealthyIsFinite
  <2>4. TypeOK'
    BY <2>1, <2>2, <2>3 DEF TypeOK, reloadVars
  <2>5. Phases'
    BY <2>1, <2>2 DEF Phases, reloadVars
  <2>6. InTurn'
    BY <2>1, <2>2 DEF InTurn, reloadVars
  <2>7. Remembered'
    BY <2>1, <2>2 DEF Remembered
  <2>8. GaugeIsPool'
    BY <2>1 DEF GaugeIsPool, Pool
  <2> QED
    BY <2>4, <2>5, <2>6, <2>7, <2>8
<1> QED
  BY <1>2, <1>3, <1>4

\* A step of a reload before its store changes no list.
LEMMA CopyingKeeps ==
    ASSUME PoolInv,
           \/ \E cfg \in Configs : ReloadBegin(cfg)
           \/ \E u \in Urls : CopyHealthy(u) \/ AddNew(u)
           \/ CopyFails
    PROVE  PoolInv'
<1> USE DEF PoolInv
<1>1. /\ lists' = lists /\ cur' = cur /\ up' = up /\ UNCHANGED probeVars /\ streak' = streak
  BY DEF ReloadBegin, CopyHealthy, AddNew, CopyFails
<1>2. Pool' = Pool /\ Listed' = Listed /\ GaugeIsPool'
  BY <1>1 DEF Pool, Listed, GaugeIsPool, probeVars
<1>3. (~overlapped' => ~overlapped) => Remembered'
  BY <1>1, <1>2 DEF Remembered, probeVars
<1>4. /\ lists \in [Generations -> Lists] /\ cur \in Generations
      /\ fresh \in Lists /\ DOMAIN fresh \subseteq target /\ fresh \in [DOMAIN fresh -> Server]
  <2>1. fresh \in Partial(target, Server) /\ target \subseteq Urls
    BY DEF TypeOK
  <2>2. DOMAIN fresh \subseteq target /\ fresh \in [DOMAIN fresh -> Server]
    BY <2>1 DEF Partial
  <2> QED
    BY <2>1, <2>2, ListIs DEF TypeOK, Lists
<1>5. \A u \in Listed : Pool[u] \in Server /\ u # Nobody
  BY <1>4, ListIs, UrlsAssumption DEF Listed, Pool
<1>6. ASSUME NEW cfg \in Configs, ReloadBegin(cfg) PROVE PoolInv'
  <2>1. /\ rstep = "idle" /\ rstep' = "copy" /\ target' = cfg /\ fresh' = fresh /\ half' = half
        /\ overlapped' = (overlapped \/ step # "idle") /\ cur <= MaxReloads /\ DOMAIN fresh = {}
    BY <1>6 DEF ReloadBegin, Ticking, Phases
  <2>2. cfg \subseteq Urls
    BY ConfigAssumption
  <2>3. TypeOK'
    <3>1. fresh' \in Partial(target', Server)
      BY <1>4, <2>1 DEF Partial
    <3>2. overlapped' \in BOOLEAN
      BY <2>1 DEF TypeOK
    <3> QED
      BY <1>1, <2>1, <2>2, <3>1, <3>2 DEF TypeOK, probeVars
  <2>4. Phases'
    BY <1>1, <1>2, <2>1 DEF Phases, probeVars
  <2>5. InTurn'
    BY <1>1, <2>1 DEF InTurn, probeVars
  <2> QED
    BY <1>2, <1>3, <2>1, <2>3, <2>4, <2>5
<1>7. ASSUME NEW u \in Urls, CopyHealthy(u) PROVE PoolInv'
  <2>1. /\ rstep = "copy" /\ rstep' = "half" /\ half' = [url |-> u, healthy |-> Pool[u].healthy]
        /\ u \in Missing /\ u \in Listed /\ target' = target /\ fresh' = fresh
        /\ overlapped' = overlapped
    BY <1>7 DEF CopyHealthy
  <2>2. half'.url = u /\ half'.healthy = Pool[u].healthy /\ Missing' = Missing
    BY <2>1 DEF Missing
  <2>3. TypeOK'
    <3>1. half' \in [url : Urls \cup {Nobody}, healthy : BOOLEAN]
      BY <1>5, <2>1 DEF Server
    <3> QED
      BY <1>1, <2>1, <2>2, <3>1 DEF TypeOK, probeVars
  <2>4. Phases'
    BY <1>1, <1>2, <2>1, <2>2 DEF Phases, probeVars
  <2>5. InTurn'
    BY <1>1, <1>2, <2>1, <2>2 DEF InTurn, probeVars
  <2> QED
    BY <1>2, <1>3, <2>1, <2>3, <2>4, <2>5
<1>8. ASSUME NEW u \in Urls, NEW server \in Server, Extend(u, server), u \in Missing,
             rstep # "idle", rstep' = "copy", target' = target, overlapped' = overlapped,
             half' \in [url : Urls \cup {Nobody}, healthy : BOOLEAN],
             u \in Listed /\ ~overlapped => server = Pool[u],
             u \notin Listed => server = NewServer
      PROVE  PoolInv'
  <2>1. /\ DOMAIN fresh' = DOMAIN fresh \cup {u} /\ fresh'[u] = server
        /\ \A v \in DOMAIN fresh : v # u => fresh'[v] = fresh[v]
        /\ u \notin DOMAIN fresh /\ u \in target
    BY <1>8 DEF Extend, Missing
  <2>2. fresh' \in Partial(target', Server)
    <3>1. fresh' = [v \in DOMAIN fresh \cup {u} |-> IF v = u THEN server ELSE fresh[v]]
      BY <1>8 DEF Extend
    <3>2. fresh' \in [DOMAIN fresh' -> Server]
      BY <1>4, <1>8, <2>1, <3>1
    <3>3. DOMAIN fresh' \in SUBSET target'
      BY <1>4, <1>8, <2>1
    <3> QED
      BY <3>2, <3>3 DEF Partial
  <2>3. TypeOK'
    BY <1>1, <1>8, <2>2 DEF TypeOK, probeVars
  <2>4. Phases'
    BY <1>1, <1>2, <1>8, <2>1 DEF Phases, probeVars
  <2>5. InTurn'
    BY <1>1, <1>2, <1>8, <2>1 DEF InTurn, probeVars
  <2> QED
    BY <1>2, <1>3, <1>8, <2>3, <2>4, <2>5
<1>9. ASSUME NEW u \in Urls, AddNew(u) PROVE PoolInv'
  <2>1. /\ Extend(u, NewServer) /\ u \in Missing /\ u \notin Listed
        /\ rstep = "copy" /\ rstep' = rstep /\ target' = target /\ overlapped' = overlapped
        /\ half' = half
    BY <1>9 DEF AddNew
  <2> QED
    BY <1>8, <2>1, Constants DEF TypeOK
<1>10. CASE CopyFails
  <2> DEFINE server == [healthy |-> half.healthy, fails |-> Pool[half.url].fails]
  <2>1. /\ rstep = "half" /\ Extend(half.url, server) /\ rstep' = "copy" /\ half' = NoHalf
        /\ target' = target /\ overlapped' = overlapped
    BY <1>10 DEF CopyFails
  <2>2. half.url \in Missing /\ half.url \in Listed /\ half.healthy \in BOOLEAN
    BY <2>1 DEF TypeOK, Phases
  <2>3. half.url \in Urls /\ server \in Server
    <3>1. half.url \in Urls
      BY <2>2 DEF TypeOK, Missing
    <3>2. Pool[half.url].fails \in Counts
      BY <1>5, <2>2 DEF Server
    <3> QED
      BY <2>2, <3>1, <3>2 DEF Server
  <2>4. ~overlapped => server = Pool[half.url]
    <3>1. Pool[half.url] \in Server
      BY <1>5, <2>2
    <3> QED
      BY <2>1, <3>1 DEF InTurn, Server
  <2>5. half' \in [url : Urls \cup {Nobody}, healthy : BOOLEAN]
    BY <2>1 DEF NoHalf
  <2> HIDE DEF server
  <2> QED
    BY <1>8, <2>1, <2>2, <2>3, <2>4, <2>5
<1> QED
  BY <1>6, <1>7, <1>9, <1>10

\* What a reload puts in place.
LEMMA Stored ==
    ASSUME PoolInv, Store
    PROVE  /\ cur + 1 \in Generations /\ fresh \in [target -> Server] /\ target \subseteq Urls
           /\ lists' \in [Generations -> Lists] /\ Pool' = fresh /\ Listed' = target
           /\ \A g \in 0 .. cur : lists'[g] = lists[g]
           /\ target \in Configs
<1> USE DEF PoolInv
<1>1. /\ rstep = "copy" /\ Missing = {} /\ cur' = cur + 1
      /\ lists' = [lists EXCEPT ![cur + 1] = fresh]
  BY DEF Store
<1>2. /\ cur \in Nat /\ cur + 1 \in Generations
      /\ lists \in [Generations -> Lists] /\ target \in Configs
  BY <1>1, CounterAssumption DEF TypeOK, Phases, Generations, Lists
<1>3. target \subseteq Urls
  BY <1>2, ConfigAssumption
<1>4. fresh \in [target -> Server]
  <2>1. DOMAIN fresh \subseteq target /\ fresh \in [DOMAIN fresh -> Server]
    BY DEF TypeOK, Partial
  <2>2. DOMAIN fresh = target
    BY <1>1, <2>1 DEF Missing
  <2> QED
    BY <2>1, <2>2
<1>5. fresh \in Lists
  BY <1>3, <1>4, ListIs
<1>6. lists' \in [Generations -> Lists] /\ Pool' = fresh
  BY <1>1, <1>2, <1>5 DEF Pool
<1>7. \A g \in 0 .. cur : lists'[g] = lists[g]
  BY <1>1, <1>2 DEF Generations
<1> QED
  BY <1>2, <1>3, <1>4, <1>6, <1>7 DEF Listed

LEMMA StoreOfReloadKeeps == ASSUME PoolInv, Store PROVE PoolInv'
<1> USE DEF PoolInv
<1>1. /\ rstep = "copy" /\ rstep' = "idle" /\ cur' = cur + 1 /\ target' = {} /\ fresh' = NoObjects
      /\ streak' = [u \in Urls |-> IF u \in Listed \cap target THEN streak[u] ELSE 0]
      /\ up' = up /\ UNCHANGED probeVars /\ half' = half /\ overlapped' = overlapped
  BY DEF Store
<1>2. cur \in Nat /\ cur >= 1 /\ snap \in 0 .. cur /\ streak \in [Urls -> Counts]
  BY DEF TypeOK, Phases, Generations
<1>3. lists'[snap] = lists[snap] /\ snap \in 0 .. cur + 1 /\ snap # cur + 1
  BY <1>2, Stored
<1>4. TypeOK'
  <2>1. fresh' \in Partial(target', Server)
    <3>1. fresh' \in [{} -> Server] /\ {} \in SUBSET target'
      BY <1>1 DEF NoObjects
    <3> QED
      BY <3>1 DEF Partial
  <2>2. streak' \in [Urls -> Counts]
    BY <1>1, <1>2, Constants
  <2>3. lists' \in [Generations -> Partial(Urls, Server)] /\ cur' \in Generations
    BY <1>1, Stored DEF Lists
  <2> QED
    BY <1>1, <1>3, <2>1, <2>2, <2>3 DEF TypeOK, probeVars
<1>5. Phases'
  BY <1>1, <1>2, Constants DEF Phases, probeVars
<1>6. ~overlapped => step = "idle" /\ at = Nobody
  BY <1>1 DEF InTurn, TypeOK
<1>7. InTurn'
  BY <1>1, <1>6, Constants DEF InTurn, probeVars
<1>8. Remembered'
  <2> SUFFICES ASSUME ~overlapped, NEW u \in target
               PROVE  /\ fresh[u].fails = streak'[u]
                      /\ fresh[u].healthy <=> streak'[u] < UNHEALTHY_AFTER
    BY <1>1, <1>6, Stored DEF Remembered, probeVars
  <2>1. u \in Urls /\ u # at /\ u \in DOMAIN fresh
    BY <1>6, Stored, UrlsAssumption
  <2>2. CASE u \in Listed
    BY <1>1, <2>1, <2>2 DEF Remembered, InTurn
  <2>3. CASE u \notin Listed
    <3>1. streak'[u] = 0 /\ fresh[u] = NewServer
      BY <1>1, <2>1, <2>3 DEF Phases
    <3> QED
      BY <3>1, Constants DEF NewServer
  <2> QED
    BY <2>2, <2>3
<1>9. GaugeIsPool'
  BY <1>1, <1>3 DEF GaugeIsPool, probeVars
<1> QED
  BY <1>4, <1>5, <1>7, <1>8, <1>9

LEMMA PoolInvNext == PoolInv /\ [Next]_vars => PoolInv'
<1> SUFFICES ASSUME PoolInv, [Next]_vars PROVE PoolInv'
  OBVIOUS
<1>1. CASE UNCHANGED vars
  BY <1>1 DEF vars, probeVars, reloadVars, PoolInv, TypeOK, Phases, InTurn, Remembered, GaugeIsPool,
              Missing, Listed, Pool
<1>2. ASSUME NEW u \in Urls, Weather(u) PROVE PoolInv'
  <2>1. /\ lists' = lists /\ cur' = cur /\ UNCHANGED <<probeVars, reloadVars>>
        /\ streak' = streak /\ overlapped' = overlapped
    BY <1>2 DEF Weather
  <2>2. up' \subseteq Urls
    BY <1>2 DEF Weather, PoolInv, TypeOK
  <2>3. TypeOK'
    BY <2>1, <2>2 DEF PoolInv, TypeOK, probeVars, reloadVars, Missing
  <2>4. Phases' /\ InTurn'
    BY <2>1 DEF PoolInv, Phases, InTurn, probeVars, reloadVars, Listed, Pool
  <2>5. Remembered' /\ GaugeIsPool'
    BY <2>1 DEF PoolInv, Remembered, GaugeIsPool, probeVars, Listed, Pool
  <2> QED
    BY <2>3, <2>4, <2>5 DEF PoolInv
<1> QED
  BY <1>1, <1>2, ProberStoresKeep, ProberMovesKeep, CopyingKeeps, StoreOfReloadKeeps
     DEF Next, Prober, Reload

LEMMA PoolInvariant == Spec => []PoolInv
BY PoolInvInit, PoolInvNext, PTL DEF Spec

-----------------------------------------------------------------------------
(* What follows                                                            *)

\* turn_probe_loop.rs: until a reload has overlapped a tick, the counter of a
\* server is the failures its probes saw in a row, and its flag the threshold.
THEOREM HealthIsHistoryAlways == Spec => []HealthIsHistory
<1>1. PoolInv => HealthIsHistory
  BY DEF PoolInv, Remembered, HealthIsHistory
<1> QED
  BY <1>1, PoolInvariant, PTL

\* turn_probe_loop.rs: a tick ends with a gauge that counts the healthy servers
\* of its list, and nothing disturbs either before the next tick or reload.
THEOREM GaugeIsPoolAlways == Spec => []GaugeIsPool
<1>1. PoolInv => GaugeIsPool
  BY DEF PoolInv
<1> QED
  BY <1>1, PoolInvariant, PTL

\* The flags that readers of the pool see.
Shown == [g \in Generations |-> [u \in DOMAIN lists[g] |-> lists[g][u].healthy]]

LEMMA ShownInit == Init => Abstract!PoolInit
<1> SUFFICES ASSUME Init PROVE Abstract!PoolInit
  OBVIOUS
<1> PICK cfg \in Configs : lists = [g \in Generations |->
                                      IF g = 1 THEN [u \in cfg |-> NewServer] ELSE NoObjects]
  BY DEF Init
<1>1. Abstract!Generations = Generations
  BY DEF Generations, Abstract!Generations
<1>2. \A g \in Generations : [u \in DOMAIN lists[g] |-> lists[g][u].healthy]
                               = IF g = 1 THEN [u \in cfg |-> TRUE] ELSE Abstract!NoFlags
  BY DEF NewServer, NoObjects, Abstract!NoFlags
<1>3. Shown = [g \in Generations |-> IF g = 1 THEN [u \in cfg |-> TRUE] ELSE Abstract!NoFlags]
  BY <1>2 DEF Shown
<1> QED
  BY <1>1, <1>3 DEF Init, Shown, Abstract!PoolInit

\* A store of the prober flips a flag, or does not show.
LEMMA StoreShown ==
    ASSUME PoolInv, step \in {"await", "failed", "answered"}, NEW server \in Server,
           lists' = [lists EXCEPT ![snap] = [@ EXCEPT ![at] = server]], cur' = cur
    PROVE  Shown' = Shown \/ Abstract!PoolNext
<1>1. /\ at # Nobody /\ at \in Urls /\ at \in DOMAIN lists[snap] /\ snap \in 1 .. cur
      /\ snap \in Generations
  BY CounterAssumption DEF PoolInv, TypeOK, Phases, Generations
<1>2. /\ \A g \in Generations : DOMAIN lists'[g] = DOMAIN lists[g]
      /\ \A g \in Generations : \A u \in DOMAIN lists[g] :
           lists'[g][u] = IF g = snap /\ u = at THEN server ELSE lists[g][u]
  BY <1>1, StoreIsLocal DEF PoolInv
<1>3. Probed \in Server
  BY <1>1, FieldStores, Constants DEF PoolInv
<1> DEFINE row(g) == [u \in DOMAIN lists[g] |-> lists[g][u].healthy]
           row2(g) == [u \in DOMAIN lists'[g] |-> lists'[g][u].healthy]
<1>4. \A g \in Generations : row2(g) = IF g = snap THEN [row(g) EXCEPT ![at] = server.healthy]
                                                   ELSE row(g)
  <2> SUFFICES ASSUME NEW g \in Generations
               PROVE  row2(g) = IF g = snap THEN [row(g) EXCEPT ![at] = server.healthy] ELSE row(g)
    OBVIOUS
  <2>1. DOMAIN lists'[g] = DOMAIN lists[g]
    BY <1>2
  <2>2. CASE g = snap
    <3>1. \A u \in DOMAIN lists[g] :
            lists'[g][u].healthy = IF u = at THEN server.healthy ELSE lists[g][u].healthy
      BY <1>2, <2>2
    <3> QED
      BY <2>1, <2>2, <3>1
  <2>3. CASE g # snap
    <3>1. \A u \in DOMAIN lists[g] : lists'[g][u].healthy = lists[g][u].healthy
      BY <1>2, <2>3
    <3> QED
      BY <2>1, <2>3, <3>1
  <2> QED
    BY <2>2, <2>3
<1>5. Shown = [g \in Generations |-> row(g)] /\ Shown' = [g \in Generations |-> row2(g)]
  BY DEF Shown
<1>6. row(snap)[at] = Probed.healthy
  BY <1>1 DEF Probed
<1>7. CASE server.healthy = Probed.healthy
  <2>1. \A g \in Generations : row2(g) = row(g)
    BY <1>4, <1>6, <1>7
  <2> QED
    BY <1>5, <2>1
<1>8. CASE server.healthy # Probed.healthy
  <2>1. server.healthy = ~Probed.healthy
    BY <1>3, <1>8 DEF Server
  <2>2. row2(snap) = [row(snap) EXCEPT ![at] = ~@] /\ at \in DOMAIN row(snap)
    BY <1>1, <1>4, <1>6, <2>1
  <2>3. \A g \in Generations : g # snap => row2(g) = row(g)
    BY <1>4
  <2> HIDE DEF row, row2
  <2>4. Shown' = [Shown EXCEPT ![snap][at] = ~@] /\ at \in DOMAIN Shown[snap]
    BY <1>1, <1>5, <2>2, <2>3
  <2>5. Abstract!Flip(snap, at)
    BY <2>4 DEF Abstract!Flip, Shown
  <2>6. \E g \in 1 .. cur, u \in Urls : Abstract!Flip(g, u)
    BY <1>1, <2>5 DEF Abstract!Flip
  <2> QED
    BY <2>6 DEF Abstract!PoolNext
<1> QED
  BY <1>3, <1>7, <1>8

\* The store of a reload installs a list of what is configured.
LEMMA InstallShown == ASSUME PoolInv, Store PROVE Abstract!PoolNext
<1> DEFINE new == [u \in target |-> fresh[u].healthy]
<1>1. /\ cur' = cur + 1 /\ lists' = [lists EXCEPT ![cur + 1] = fresh]
      /\ cur <= MaxReloads /\ lists \in [Generations -> Lists] /\ cur \in Generations
  BY DEF Store, PoolInv, TypeOK, Phases, Lists
<1>2. new \in [target -> BOOLEAN]
  BY Stored DEF Server
<1>3. \A u \in target \ DOMAIN Shown[cur] : new[u]
  <2>1. DOMAIN Shown[cur] = Listed
    BY <1>1 DEF Shown, Listed, Pool
  <2>2. \A u \in target \ Listed : fresh[u] = NewServer
    BY Stored DEF PoolInv, Phases
  <2> QED
    BY <2>1, <2>2 DEF NewServer
<1>4. Shown' = [Shown EXCEPT ![cur + 1] = new]
  <2>1. lists'[cur + 1] = fresh /\ DOMAIN fresh = target
    BY <1>1, Stored
  <2>2. \A g \in Generations : [u \in DOMAIN lists'[g] |-> lists'[g][u].healthy]
                                 = IF g = cur + 1 THEN new
                                   ELSE [u \in DOMAIN lists[g] |-> lists[g][u].healthy]
    <3>1. \A g \in Generations : g # cur + 1 => lists'[g] = lists[g]
      BY <1>1
    <3> QED
      BY <2>1, <3>1
  <2> HIDE DEF new
  <2> QED
    BY <2>2, Stored DEF Shown
<1>5. Abstract!Install(target)
  <2> HIDE DEF new
  <2> QED
    BY <1>1, <1>2, <1>3, <1>4 DEF Abstract!Install, Shown
<1>6. \E cfg \in Configs : Abstract!Install(cfg)
  BY <1>5, Stored DEF Abstract!Install
<1> QED
  BY <1>6 DEF Abstract!PoolNext

LEMMA ShownNext == PoolInv /\ [Next]_vars => [Abstract!PoolNext]_(Abstract!poolVars)
<1> SUFFICES ASSUME PoolInv, [Next]_vars
             PROVE  Abstract!PoolNext \/ (Shown' = Shown /\ cur' = cur)
  BY DEF Shown, Abstract!poolVars
<1>1. CASE lists' = lists /\ cur' = cur
  BY <1>1 DEF Shown
<1>2. CASE Fails \/ FlipDown \/ Answers \/ FlipUp
  <2>1. /\ step \in {"await", "failed", "answered"} /\ cur' = cur /\ at # Nobody
        /\ Probed \in Server
    BY <1>2, FieldStores, Constants DEF Fails, FlipDown, Answers, FlipUp, PoolInv, TypeOK
  <2>2. \A n \in Counts, b \in BOOLEAN : [healthy |-> b, fails |-> n] \in Server
    BY DEF Server
  <2>3. Probed.healthy \in BOOLEAN /\ Probed.fails \in Counts
    BY <2>1 DEF Server
  <2>4. CASE \E n \in Counts : SetFails(n)
    BY <2>1, <2>2, <2>3, <2>4, FieldStores, StoreShown DEF PoolInv
  <2>5. CASE \E b \in BOOLEAN : SetHealthy(b)
    BY <2>1, <2>2, <2>3, <2>5, FieldStores, StoreShown DEF PoolInv
  <2>6. (\E n \in Counts : SetFails(n)) \/ (\E b \in BOOLEAN : SetHealthy(b)) \/ lists' = lists
    BY <1>2, <2>3, Constants DEF Fails, FlipDown, Answers, FlipUp
  <2> QED
    BY <1>1, <2>1, <2>4, <2>5, <2>6
<1>3. CASE Store
  BY <1>3, InstallShown
<1> QED
  BY <1>1, <1>2, <1>3 DEF Next, Prober, Reload, Tick, Probe, Gauge, ReloadBegin, CopyHealthy,
                          CopyFails, AddNew, Weather, vars

\* turn_pool.rs:45: a reader never sees a torn mix of old and new entries.  All
\* the atomics of probes and reloads amount to flags that flip one at a time and
\* lists that are replaced as a whole.
THEOREM PoolImplementsHealthPool == Spec => ImplementsPool
<1>1. Init => Abstract!PoolInit
  BY ShownInit
<1>2. PoolInv /\ [Next]_vars => [Abstract!PoolNext]_(Abstract!poolVars)
  BY ShownNext
<1> QED
  BY <1>1, <1>2, PoolInvariant, PTL DEF Spec, ImplementsPool, Abstract!PoolSpec

=============================================================================
