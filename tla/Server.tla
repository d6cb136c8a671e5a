------------------------------- MODULE Server -------------------------------
(***************************************************************************)
(* The server from its start to its end (crates/server/src/main.rs): it    *)
(* migrates its database, and then answers requests of clients.  What a    *)
(* request is checked against - the maps of the rate limiters, the batch   *)
(* being stored, the pool of TURN servers - lives in the process and ends  *)
(* with it; the database and the browsers' cookies stay.                   *)
(*                                                                         *)
(* Requests of different kinds share nothing but the process and the       *)
(* database, so a behaviour has requests of one kind, traffic: the kinds   *)
(* add to the states instead of multiplying them.  A kind has its own      *)
(* addresses and its own bounds on time and on faults.                     *)
(***************************************************************************)
EXTENDS Migrations, Limiters, Visitors, IceOffer

CONSTANTS Traffics,   \* what clients send and the bounds it is checked with
          Front,      \* the process they send it to
          CallEvents  \* the objects the INSERT of an event names

Kinds == {"none", "join", "register", "pages", "offers"} \cup Endpoints

ASSUME TrafficAssumption ==
    Traffics \subseteq [kind : Kinds, from : SUBSET IPs, until : 0 .. MaxClock,
                        faults : 0 .. MaxFails]
ASSUME FrontAssumption == Front \in Servers /\ CallEvents \subseteq Objects

VARIABLES
    traffic    \* the kind of requests of this behaviour

memory == <<limitVars, visitVars, offerVars>>
vars == <<migrateVars, memory, traffic>>

\* Other processes and other texts of the migrations matter to start-up alone.
Init ==
    /\ traffic \in Traffics
    /\ MigrateInit /\ LimitInit /\ VisitInit /\ OfferInit
    /\ traffic.kind # "none" => sql = CHOOSE release \in Releases : TRUE
    /\ traffic.kind # "offers" => /\ env = CHOOSE e \in [secret : BOOLEAN, turn : TURN_URLS] : TRUE
                                /\ DOMAIN flags[cur] = CHOOSE cfg \in Configs : TRUE

Runs(s) == s = Front \/ traffic.kind = "none"

Boot(s) == /\ Runs(s) /\ BootStep(s)
           /\ UNCHANGED <<memory, traffic>>

\* A query of the start-up fails, or the process is killed: what it holds in
\* memory is gone.  An answer that is on its way to a browser still arrives.
Kill(s) ==
    /\ Runs(s) /\ fails < traffic.faults /\ Killed(s)
    /\ IF s = Front THEN NewProcess /\ Abandon /\ NewPool
                    ELSE UNCHANGED <<limitVars, batch, events, offerVars>>
    /\ UNCHANGED <<clock, pageVars, batches, rows, traffic>>

Time == /\ boot[Front] = "serving" /\ clock < traffic.until
        /\ Tick
        /\ UNCHANGED <<migrateVars, visitVars, offerVars, traffic>>

-----------------------------------------------------------------------------
(* Requests                                                                *)

Limited ==
    /\ boot[Front] = "serving"
    /\ \/ traffic.kind = "join" /\ \E c \in Callers : JoinStep(c, traffic.from)
       \/ traffic.kind = "register" /\ \E c \in Callers : RegisterStep(c, traffic.from)
       \/ traffic.kind \in Endpoints /\ EndpointStep(traffic.kind, traffic.from)
    /\ UNCHANGED <<migrateVars, visitVars, offerVars, traffic>>

Page ==
    /\ traffic.kind = "pages" /\ boot[Front] = "serving" /\ PageStep
    /\ UNCHANGED <<migrateVars, limitVars, offerVars, traffic>>

Events ==
    /\ traffic.kind = "pages" /\ boot[Front] = "serving"
    /\ \E deviceOk \in BOOLEAN, size \in 0 .. BatchSize + 1 : Ingest(deviceOk, size)
    /\ UNCHANGED <<migrateVars, limitVars, offerVars, traffic>>

Store == /\ boot[Front] = "serving"
         /\ \E fits \in BOOLEAN : Insert(fits, CallEvents \subseteq schema)
         /\ UNCHANGED <<migrateVars, limitVars, offerVars, traffic>>

\* The database is out of reach: the event may be lost, the process lives.
Outage == /\ boot[Front] = "serving" /\ fails < traffic.faults
          /\ \E in \in BOOLEAN : InsertCut(in)
          /\ fails' = fails + 1
          /\ UNCHANGED <<sql, dbVars, bootVars, limitVars, offerVars, traffic>>

\* The client closes the connection, and its handler is dropped where it waits.
HangUp == /\ boot[Front] = "serving" /\ batch.left > 0 /\ Abandon
          /\ UNCHANGED <<migrateVars, limitVars, pageVars, batches, rows, offerVars, traffic>>

\* Probes and reloads run beside the requests for credentials; what they do to
\* the pool after an answer, they can as well do before the first request.
Offers == /\ traffic.kind = "offers" /\ boot[Front] = "serving"
          /\ OfferStep \/ (offerReq.pc # "answered" /\ PoolStep)
          /\ UNCHANGED <<migrateVars, limitVars, visitVars, traffic>>

Next == \/ \E s \in Servers : Boot(s) \/ Kill(s)
        \/ Time \/ Limited \/ Page \/ Events \/ Store \/ Outage \/ HangUp \/ Offers

Spec == Init /\ [][Next]_vars

-----------------------------------------------------------------------------
(* Properties                                                              *)

\* Some migration is there for each object that the INSERT of an event names.
EventsMigrated == CallEvents \subseteq UNION {Purpose[m] : m \in Names}

\* Each event of a batch that ingest takes is stored, whatever becomes of its
\* neighbours, unless PostgreSQL refuses its data, the database is out of reach,
\* the process dies or the client hangs up.  None is lost for want of a table or
\* a column: a migration recorded but not applied would lose them all, silently,
\* for ingest answers 204 all the same
\* (docs/postmortems/2026-04-03-analytics-bind-drop.md).
EventsLand == events.sent = events.stored + events.unfit + events.lost + batch.left

=============================================================================
