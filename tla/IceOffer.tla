------------------------------ MODULE IceOffer ------------------------------
(***************************************************************************)
(* POST /api/turn-credentials: which relays a caller is offered and whether *)
(* it must use one (crates/server/src/router.rs, crates/turn/src/lib.rs).  *)
(*                                                                         *)
(* The handler loads the list of the pool and reads the health flags one   *)
(* by one, while probes flip them and a reload may replace the list.       *)
(* Names, expiry and HMAC of the credentials are left out.                 *)
(*                                                                         *)
(* An operator marked "mutant" is a deliberately broken variant of the     *)
(* definition below it; nothing uses it but the mutation runs.             *)
(***************************************************************************)
EXTENDS HealthPool, Sequences, Config

CONSTANTS ServerCfg,            \* ServerCfg[u]: region, priority, place in its list
          TURN_URLS,            \* the lists of static relays, one of which is configured
          STUN_URLS,
          FORCE_RELAY_REGIONS,  \* as CsvLower makes them
          HeaderValues,         \* values of X-Client-Region and CF-IPCountry
          NoHeader              \* a header that is missing

\* The servers of a list have their places in it.
ASSUME ListsAssumption ==
    /\ IsFiniteSet(Urls) /\ Configs \subseteq SUBSET Urls /\ MaxReloads \in Nat
    /\ \A u \in Urls : {ServerCfg[u].priority, ServerCfg[u].place} \subseteq Nat
                        /\ ServerCfg[u].region \in Seq(STRING)
    /\ \A u, v \in Urls : ServerCfg[u].place = ServerCfg[v].place => u = v
    /\ TURN_URLS \subseteq Seq(Seq(STRING))

VARIABLES
    env,       \* what differs between environments: TURN_SECRET, TURN_URLS
    offerReq,  \* the request: where it is, its list, what it has read
    offer,     \* its answer
    steady,    \* history: servers of its list that have been healthy all along
    seen       \* history: servers of its list that have been healthy some time

offerVars == <<poolVars, env, offerReq, offer, steady, seen>>

NoRequest == [pc |-> "idle", list |-> 0, unread |-> {}, healthy |-> {}, hint |-> <<>>]
NoOffer == [status |-> 0, ice |-> <<>>, policy |-> "all"]

OfferInit ==
    /\ PoolInit /\ env \in [secret : BOOLEAN, turn : TURN_URLS]
    /\ offerReq = NoRequest /\ offer = NoOffer
    /\ steady = {} /\ seen = {}

\* A new process finds the list of its environment, all healthy.
NewPool ==
    /\ flags' = [g \in Generations |->
                   IF g = 1 THEN [u \in DOMAIN flags[cur] |-> TRUE] ELSE NoFlags]
    /\ cur' = 1
    /\ env' = env
    /\ offerReq' = NoRequest /\ offer' = NoOffer
    /\ steady' = {} /\ seen' = {}

Up(list) == {u \in DOMAIN list : list[u]}

-----------------------------------------------------------------------------
\* geo_hint: the first header hides the second even when it is empty, or
\* unreadable, which is as good as empty.
GeoHint(region, country) ==
    LET value == IF region # NoHeader THEN region ELSE country
    IN IF value = NoHeader THEN <<>> ELSE Lower(value)

StartsWith(s, prefix) == Len(prefix) <= Len(s) /\ SubSeq(s, 1, Len(prefix)) = prefix

\* turn_pool.healthy() is the call that loads the list.
Ask(region, country) ==
    /\ offerReq.pc # "reading"
    /\ IF env.secret
       THEN /\ offerReq' = [pc |-> "reading", list |-> cur, unread |-> DOMAIN flags[cur],
                            healthy |-> {}, hint |-> GeoHint(region, country)]
            /\ offer' = NoOffer
            /\ steady' = Up(flags[cur]) /\ seen' = Up(flags[cur])
       ELSE /\ offerReq' = [NoRequest EXCEPT !.pc = "answered"]
            /\ offer' = [NoOffer EXCEPT !.status = 503]
            /\ UNCHANGED <<steady, seen>>
    /\ UNCHANGED <<poolVars, env>>

\* The filter looks at the servers in the order of the list.
ReadFlag(u) ==
    /\ offerReq.pc = "reading" /\ u \in offerReq.unread
    /\ \A v \in offerReq.unread : ServerCfg[u].place <= ServerCfg[v].place
    /\ offerReq' = [offerReq EXCEPT
                      !.unread = @ \ {u},
                      !.healthy = IF flags[offerReq.list][u] THEN @ \cup {u} ELSE @]
    /\ UNCHANGED <<poolVars, env, offer, steady, seen>>

\* sort_by_key is stable, and partition keeps its order.
Ahead(v, u) == \/ ServerCfg[v].priority < ServerCfg[u].priority
               \/ /\ ServerCfg[v].priority = ServerCfg[u].priority
                  /\ ServerCfg[v].place < ServerCfg[u].place
SortByPriority(servers) ==
    LET rank(u) == 1 + Cardinality({v \in servers : Ahead(v, u)})
    IN [n \in 1 .. Cardinality(servers) |-> CHOOSE u \in servers : rank(u) = n]

Near(u, hint) == StartsWith(Lower(ServerCfg[u].region), hint)

OrderByGeo_Priority(servers, hint) == SortByPriority(servers)        \* mutant
OrderByGeo(servers, hint) ==
    LET matched == {u \in servers : Near(u, hint)}
    IN IF hint = <<>> THEN SortByPriority(servers)
       ELSE SortByPriority(matched) \o SortByPriority(servers \ matched)

\* The pool while one of its servers is healthy, else the static list.
TurnUrls ==
    IF offerReq.healthy # {} THEN OrderByGeo(offerReq.healthy, offerReq.hint) ELSE env.turn

DecideIceTransportPolicy(noRelay, hint) ==
    IF /\ ~noRelay /\ hint # <<>>
       /\ \E i \in DOMAIN FORCE_RELAY_REGIONS : StartsWith(hint, FORCE_RELAY_REGIONS[i])
    THEN "relay" ELSE "all"

\* generate_credentials: an entry per kind that has URLs; only relays need the
\* credentials.
IceServers(turnUrls, stunUrls) ==
    (IF stunUrls # <<>> THEN <<[urls |-> stunUrls, credential |-> FALSE]>> ELSE <<>>)
      \o (IF turnUrls # <<>> THEN <<[urls |-> turnUrls, credential |-> TRUE]>> ELSE <<>>)

Answer200 ==
    /\ offerReq.pc = "reading" /\ offerReq.unread = {}
    /\ offer' = [status |-> 200, ice |-> IceServers(TurnUrls, STUN_URLS),
                 policy |-> DecideIceTransportPolicy(TurnUrls = <<>>, offerReq.hint)]
    /\ offerReq' = [offerReq EXCEPT !.pc = "answered"]
    /\ UNCHANGED <<poolVars, env, steady, seen>>

\* The pool changes; what it does after the answer does not matter.
PoolStep ==
    /\ PoolNext
    /\ LET up == Up(flags'[offerReq.list]) IN
         IF offerReq.pc = "reading"
         THEN steady' = steady \cap up /\ seen' = seen \cup up
         ELSE UNCHANGED <<steady, seen>>
    /\ UNCHANGED <<env, offerReq, offer>>

OfferStep == \/ \E region, country \in HeaderValues \cup {NoHeader} : Ask(region, country)
             \/ \E u \in Urls : ReadFlag(u)
             \/ Answer200

-----------------------------------------------------------------------------
(* Properties                                                              *)

Relays == {i \in DOMAIN offer.ice : offer.ice[i].credential}
Offered == IF Relays = {} THEN <<>> ELSE offer.ice[CHOOSE i \in Relays : TRUE].urls

\* Whatever the probes and a reload do while the flags are read, a caller is
\* offered every server that was healthy all along and none that was not for a
\* moment, those of its region first, or the static relays when none was; and
\* it is never told to use a relay it has not been offered (router.rs: "we
\* always degrade open rather than break").
OfferSound ==
    offer.status = 200 =>
        LET urls == {Offered[i] : i \in DOMAIN Offered} IN
        /\ \/ /\ urls # {} /\ steady \subseteq urls /\ urls \subseteq seen
              /\ \A i, j \in DOMAIN Offered :
                   Near(Offered[j], offerReq.hint) /\ ~Near(Offered[i], offerReq.hint) => j < i
           \/ steady = {} /\ Offered = env.turn
        /\ offer.policy = "relay" => urls # {}

=============================================================================
