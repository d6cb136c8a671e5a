------------------------------ MODULE Visitors ------------------------------
(***************************************************************************)
(* A browser and the server's two uses of its identity: the middleware     *)
(* that gives a page its ox_vid cookie (crates/server/src/visitor.rs) and  *)
(* the endpoint that stores batches of events under it (analytics.rs).     *)
(*                                                                         *)
(* A response travels after its handler is done, so page loads of one      *)
(* browser overlap.  The Cookie header is the list of the browser's        *)
(* cookies for the site: ox_vid, and what other scripts have set, which    *)
(* may be a part without "=" or an empty ox_vid.                           *)
(*                                                                         *)
(* An operator marked "mutant" is a deliberately broken variant of the     *)
(* definition below it; nothing uses it but the mutation runs.             *)
(***************************************************************************)
EXTENDS Naturals, Sequences, FiniteSets

CONSTANTS Loads,      \* requests of the browser that may be under way at once
          BatchSize,  \* events of a batch the endpoint accepts (20 in the code)
          MaxIds,     \* bound: ids that are generated
          MaxBatches  \* bound: batches of events

ASSUME VisitorAssumption == {BatchSize, MaxIds, MaxBatches} \subseteq Nat

VARIABLES
    jar,        \* the id in the browser's ox_vid, or NULL
    bare,       \* another script has set a cookie without "="
    load,       \* each request, until its response has arrived
    nextId,     \* what Uuid::new_v4 returns next
    lives,      \* history: cookies that have expired
    overlapped, \* history: two pages without a cookie were under way at once
    batch,      \* the batch being stored: events left, visitor, and the cookie
    batches,    \* batches so far
    rows,       \* call_events, and the cookie each row was sent with
    events      \* history: the events of the last batch, and what became of them

pageVars == <<jar, bare, load, nextId, lives, overlapped>>
eventVars == <<batch, batches, rows, events>>
visitVars == <<pageVars, eventVars>>

NULL == 0
Ids == 1 .. MaxIds
NoLoad == [pc |-> "idle", spa |-> FALSE, hasCookie |-> FALSE, setCookie |-> NULL]
Sending(size) == [sent |-> size, stored |-> 0, unfit |-> 0, lost |-> 0]
NoBatch == [left |-> 0, visitor |-> NULL, cookie |-> NULL, life |-> 0]

VisitInit ==
    /\ jar = NULL /\ bare \in BOOLEAN
    /\ load = [l \in Loads |-> NoLoad]
    /\ nextId = 1 /\ lives = 0 /\ overlapped = FALSE
    /\ batch = NoBatch /\ batches = 0 /\ rows = {}
    /\ events = Sending(0)

-----------------------------------------------------------------------------
(* The Cookie header, in the browser's order: the older cookie first.      *)

Part(name, value) == [name |-> name, value |-> value]
Header == (IF bare THEN <<Part("", NULL)>> ELSE <<>>)
            \o (IF jar # NULL THEN <<Part("ox_vid", jar)>> ELSE <<>>)
HasName(part) == part.name # ""

\* cookie_has_name passes over a part without "=" ...
RequestHasVid ==
    \E i \in DOMAIN Header : Header[i].name = "ox_vid" /\ Header[i].value # NULL

\* ... and extract_visitor_cookie gives up at one (find('=')?).
ExtractVisitorCookie ==
    IF \E i \in DOMAIN Header :
         /\ Header[i].name = "ox_vid" /\ Header[i].value # NULL
         /\ \A j \in 1 .. i : HasName(Header[j])
    THEN jar ELSE NULL

-----------------------------------------------------------------------------
(* ensure_visitor_cookie                                                   *)

PathKinds == {"page", "post", "api", "ws", "metrics", "_app", "fonts"}
Spa(kind) == kind = "page"

Bare(l) == load[l].pc # "idle" /\ load[l].spa /\ ~load[l].hasCookie

Request(l, kind) ==
    /\ load[l].pc = "idle"
    /\ load' = [load EXCEPT ![l] = [pc |-> "sent", spa |-> Spa(kind),
                                    hasCookie |-> Spa(kind) /\ RequestHasVid, setCookie |-> NULL]]
    /\ overlapped' = (overlapped \/ (Spa(kind) /\ ~RequestHasVid /\ \E k \in Loads : Bare(k)))
    /\ UNCHANGED <<jar, bare, nextId, lives, eventVars>>

\* The handler has answered; only a page that did not fail gets a cookie.
Answer_Fresh(l, success) ==                                          \* mutant
    /\ load[l].pc = "sent" /\ nextId \in Ids
    /\ load' = [load EXCEPT ![l].pc = "answered",
                            ![l].setCookie = IF load[l].spa THEN nextId ELSE NULL]
    /\ nextId' = nextId + 1
    /\ UNCHANGED <<jar, bare, lives, overlapped, eventVars>>
Answer(l, success) ==
    /\ load[l].pc = "sent"
    /\ IF load[l].spa /\ success /\ ~load[l].hasCookie
       THEN /\ nextId \in Ids
            /\ load' = [load EXCEPT ![l].pc = "answered", ![l].setCookie = nextId]
            /\ nextId' = nextId + 1
       ELSE load' = [load EXCEPT ![l].pc = "answered"] /\ UNCHANGED nextId
    /\ UNCHANGED <<jar, bare, lives, overlapped, eventVars>>

\* The browser takes the cookie.
Response(l) ==
    /\ load[l].pc = "answered"
    /\ jar' = IF load[l].setCookie # NULL THEN load[l].setCookie ELSE jar
    /\ load' = [load EXCEPT ![l] = NoLoad]
    /\ UNCHANGED <<bare, nextId, lives, overlapped, eventVars>>

\* Max-Age has passed since the cookie was set, however often its browser came.
Expire ==
    /\ jar # NULL /\ \A l \in Loads : load[l].pc = "idle"
    /\ lives + 1 < MaxIds
    /\ jar' = NULL /\ lives' = lives + 1
    /\ UNCHANGED <<bare, load, nextId, overlapped, eventVars>>

PageStep == \/ \E l \in Loads, kind \in PathKinds : Request(l, kind)
            \/ \E l \in Loads, success \in BOOLEAN : Answer(l, success)
            \/ \E l \in Loads : Response(l)
            \/ Expire

-----------------------------------------------------------------------------
(* ingest                                                                  *)

\* A batch that passes the checks; any other one, and every batch of a server
\* without a database, is answered at once.
Ingest(deviceOk, size) ==
    /\ batch.left = 0 /\ batches < MaxBatches
    /\ batches' = batches + 1
    /\ IF deviceOk /\ size \in 1 .. BatchSize
       THEN /\ batch' = [left |-> size, visitor |-> ExtractVisitorCookie,
                         cookie |-> jar, life |-> lives]
            /\ events' = Sending(size)
       ELSE UNCHANGED <<batch, events>>
    /\ UNCHANGED <<pageVars, rows>>

Row == [batch EXCEPT !.left = 0]
Stored == rows' = rows \cup {Row} /\ events' = [events EXCEPT !.stored = @ + 1]

\* One INSERT per event, which needs the table and its columns (shape), and data
\* that PostgreSQL takes (fits): of that, only the length of did is checked before.
\* An error is counted, and the next event is tried.
Refuses(fits) == rows' = rows /\ events' = IF fits THEN events ELSE [events EXCEPT !.unfit = @ + 1]
Insert_GivesUp(fits, shape) ==                                       \* mutant
    /\ batch.left > 0
    /\ batch' = [batch EXCEPT !.left = IF fits /\ shape THEN @ - 1 ELSE 0]
    /\ IF fits /\ shape THEN Stored ELSE Refuses(fits)
    /\ UNCHANGED <<pageVars, batches>>
Insert(fits, shape) ==
    /\ batch.left > 0
    /\ batch' = [batch EXCEPT !.left = @ - 1]
    /\ IF fits /\ shape THEN Stored ELSE Refuses(fits)
    /\ UNCHANGED <<pageVars, batches>>

\* The connection breaks, or the pool has none free in time: an error too, though
\* the row may be in.
InsertCut(in) ==
    /\ batch.left > 0
    /\ batch' = [batch EXCEPT !.left = @ - 1]
    /\ IF in THEN Stored ELSE rows' = rows /\ events' = [events EXCEPT !.lost = @ + 1]
    /\ UNCHANGED <<pageVars, batches>>

\* The handler ends between two INSERTs.
Abandon == batch' = NoBatch /\ events' = [events EXCEPT !.lost = @ + batch.left]

-----------------------------------------------------------------------------
(* Properties                                                              *)

\* A stable id is never overwritten with a fresh one (visitor.rs:32): the rows
\* of a browser name one visitor for as long as its cookie lives, unless pages
\* that had no cookie yet were loaded side by side.  A row carries the id of the
\* browser that sent it; a cookie without "=" may hide it, but not change it.
OneIdPerBrowser ==
    ~overlapped =>
        /\ \A r, s \in rows : r.life = s.life /\ NULL \notin {r.visitor, s.visitor}
                                => r.visitor = s.visitor
        /\ \A r \in rows : r.visitor = r.cookie \/ (bare /\ r.visitor = NULL)

=============================================================================
