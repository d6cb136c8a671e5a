------------------------------- MODULE Rooms -------------------------------
(***************************************************************************)
(* The room registry of the signaling server (crates/signaling/src/rooms.rs*)
(* and room_cleanup.rs) as the connection handlers of handler.rs use it.   *)
(*                                                                         *)
(* The registry is a concurrent map from room ids to reference-counted     *)
(* Room objects.  Every step below is ONE atomic access of the code: a map *)
(* operation under its shard lock, or an operation on one atomic field.    *)
(* Handlers and the cleanup task interleave between any two of them.       *)
(*                                                                         *)
(* `evicted' is a history variable: it becomes TRUE when the cleanup task  *)
(* unmaps a Room object that a handler is using.  The code does not rule   *)
(* that out (see NeverEvicted); the guarantees the registry gives in its   *)
(* absence are stated under ~evicted.                                      *)
(***************************************************************************)
EXTENDS Integers, FiniteSets

CONSTANTS Conns,              \* connection handlers (one per WebSocket)
          RoomIds,            \* room ids that pass validate_room_id
          None,               \* no room id
          MAX_PARTICIPANTS,   \* rooms.rs:10
          GRACE,              \* ROOM_GRACE_PERIOD_SECS, in ticks of the clock
          CountMod,           \* 2^8: the width of Room::count
          MaxRooms,           \* bound: Room objects ever allocated
          MaxPeerId           \* bound: peer ids a Room object hands out

ASSUME ConnsAssumption   == IsFiniteSet(Conns)
ASSUME NoneAssumption    == None \notin RoomIds
ASSUME LimitsAssumption  == /\ MAX_PARTICIPANTS \in Nat \ {0}
                            /\ GRACE \in Nat
                            /\ MaxRooms \in Nat
                            /\ MaxPeerId \in Nat
\* Only handlers running between fetch_add and fetch_sub exceed
\* MAX_PARTICIPANTS, so far fewer connections than 2^8 are ever counted.
ASSUME CounterAssumption == /\ CountMod \in Nat
                            /\ Cardinality(Conns) < CountMod
                            /\ MAX_PARTICIPANTS < CountMod

NoRoom == 0
Objects == 1 .. MaxRooms

VARIABLES
    inner,        \* inner[id]: the Room object the map holds for id, or NoRoom
    created,      \* Room objects allocated so far: 1 .. created
    count,        \* Room::count, one per object
    nextPeerId,   \* Room::next_peer_id
    emptySince,   \* Room::empty_since: 0, or 1 + its age in ticks
    connectedAt,  \* Room::connected_at > 0
    ended,        \* Room::ended
    gauge,        \* on_room_opened calls minus on_room_closed calls
    pc,           \* where a handler is
    at,           \* the room id in its path
    arc,          \* the Room object its join cloned (and whose tx it keeps)
    opener,       \* its `opened' flag
    polite,       \* the role join returned
    peerId,       \* the peer id join returned
    sawCall,      \* connected_at > 0, as read before leave
    expired,      \* cleanup: keys still to be checked (to_remove)
    victim,       \* cleanup: key that passed the double-check, or None
    closing,      \* cleanup: a room was removed, on_room_closed is next
    evicted       \* history: the cleanup task unmapped an object in use

roomVars  == <<inner, created, count, nextPeerId, emptySince, connectedAt, ended>>
connVars  == <<pc, at, arc, opener, polite, peerId, sawCall>>
sweepVars == <<expired, victim, closing>>
vars      == <<roomVars, gauge, connVars, sweepVars, evicted>>

(* An operator marked "mutant" is a deliberately broken variant of the     *)
(* definition below it; nothing uses it but the mutation runs.             *)

-----------------------------------------------------------------------------
(* Where a handler is between its atomic steps.                            *)

Joining  == {"admit"}                          \* holds the Arc, not counted yet
Placed   == {"clear", "report", "draw", "ack", "connect", "in_call", "leave"}
Counted  == Placed \cup {"refuse"}             \* included in Room::count
Engaged  == Counted \cup Joining \cup {"mark_empty"}
Pcs      == Engaged \cup {"idle", "drain"}

\* leave() keeps the map's read guard while it stores empty_since: until
\* then no entry() or remove() of that key can take the write lock.
ReadLocked_Dropped(id) == FALSE                                     \* mutant
ReadLocked(id) == \E c \in Conns : pc[c] = "mark_empty" /\ at[c] = id

\* Bound: the object of this id has handed out its last peer id.
Undrawn(o) == {c \in Conns : arc[c] = o /\ pc[c] \in {"admit", "clear", "report", "draw"}}
Worn(o) == nextPeerId[o] + Cardinality(Undrawn(o)) > MaxPeerId

AgeCap == GRACE + 2
IsExpired_Swapped(o) == emptySince[o] > 0 /\ 1 - emptySince[o] > GRACE \* mutant
IsExpired(o) == emptySince[o] > 0 /\ emptySince[o] - 1 > GRACE

Goto(c, label) == pc' = [pc EXCEPT ![c] = label]

\* The handler returns; its locals die with it.
Finish(c) ==
    /\ Goto(c, "idle")
    /\ at' = [at EXCEPT ![c] = None]
    /\ arc' = [arc EXCEPT ![c] = NoRoom]
    /\ opener' = [opener EXCEPT ![c] = FALSE]
    /\ polite' = [polite EXCEPT ![c] = FALSE]
    /\ peerId' = [peerId EXCEPT ![c] = 0]
    /\ sawCall' = [sawCall EXCEPT ![c] = FALSE]

-----------------------------------------------------------------------------
Init ==
    /\ inner = [id \in RoomIds |-> NoRoom]
    /\ created = 0
    /\ count = [o \in Objects |-> 0]
    /\ nextPeerId = [o \in Objects |-> 1]
    /\ emptySince = [o \in Objects |-> 0]
    /\ connectedAt = [o \in Objects |-> FALSE]
    /\ ended = [o \in Objects |-> FALSE]
    /\ gauge = 0
    /\ pc = [c \in Conns |-> "idle"]
    /\ at = [c \in Conns |-> None]
    /\ arc = [c \in Conns |-> NoRoom]
    /\ opener = [c \in Conns |-> FALSE]
    /\ polite = [c \in Conns |-> FALSE]
    /\ peerId = [c \in Conns |-> 0]
    /\ sawCall = [c \in Conns |-> FALSE]
    /\ expired = {}
    /\ victim = None
    /\ closing = FALSE
    /\ evicted = FALSE

-----------------------------------------------------------------------------
(* Rooms::join                                                             *)

\* entry(id).or_insert_with(..).clone() when the map has the id.
EnterExisting(c, id) ==
    /\ inner[id] # NoRoom
    /\ ~Worn(inner[id])
    /\ arc' = [arc EXCEPT ![c] = inner[id]]
    /\ UNCHANGED <<inner, created, opener>>

\* The same call when it has not: a fresh Room goes into the map.
EnterFresh(c, id) ==
    /\ inner[id] = NoRoom
    /\ created < MaxRooms
    /\ created' = created + 1
    /\ inner' = [inner EXCEPT ![id] = created + 1]
    /\ arc' = [arc EXCEPT ![c] = created + 1]
    /\ opener' = [opener EXCEPT ![c] = TRUE]

Entry(c, id) ==
    /\ pc[c] = "idle"
    /\ ~ReadLocked(id)
    /\ EnterExisting(c, id) \/ EnterFresh(c, id)
    /\ at' = [at EXCEPT ![c] = id]
    /\ Goto(c, "admit")
    /\ UNCHANGED <<count, nextPeerId, emptySince, connectedAt, ended, gauge,
                   polite, peerId, sawCall, sweepVars, evicted>>

\* prev >= MAX_PARTICIPANTS, and the role: polite = prev > 0.
Full(o) == count[o] >= MAX_PARTICIPANTS
RoleOf_OffByOne(o) == count[o] > 1                                   \* mutant
RoleOf(o) == count[o] > 0

\* let prev = count.fetch_add(1): at or above the limit the caller is turned
\* away, below it the caller has a place and a role.
Admit(c) ==
    /\ pc[c] = "admit"
    /\ count' = [count EXCEPT ![arc[c]] = (@ + 1) % CountMod]
    /\ \/ /\ Full(arc[c])
          /\ Goto(c, "refuse")
          /\ UNCHANGED polite
       \/ /\ ~Full(arc[c])
          /\ Goto(c, "clear")
          /\ polite' = [polite EXCEPT ![c] = RoleOf(arc[c])]
    /\ UNCHANGED <<inner, created, nextPeerId, emptySince, connectedAt, ended, gauge,
                   at, arc, opener, peerId, sawCall, sweepVars, evicted>>

\* fetch_sub(1) and None: the handler answers "Room is full" and returns.
Refuse(c) ==
    /\ pc[c] = "refuse"
    /\ count' = [count EXCEPT ![arc[c]] = (@ + CountMod - 1) % CountMod]
    /\ Finish(c)
    /\ UNCHANGED <<inner, created, nextPeerId, emptySince, connectedAt, ended, gauge,
                   sweepVars, evicted>>

\* empty_since.store(0).
Clear(c) ==
    /\ pc[c] = "clear"
    /\ emptySince' = [emptySince EXCEPT ![arc[c]] = 0]
    /\ Goto(c, "report")
    /\ UNCHANGED <<inner, created, count, nextPeerId, connectedAt, ended, gauge, at, arc,
                   opener, polite, peerId, sawCall, sweepVars, evicted>>

\* if opened { on_room_opened() }: only the caller that inserted the room.
Reports_Always(c) == TRUE                                            \* mutant
Reports(c) == opener[c]

ReportOpened(c) ==
    /\ pc[c] = "report"
    /\ gauge' = IF Reports(c) THEN gauge + 1 ELSE gauge
    /\ Goto(c, "draw")
    /\ UNCHANGED <<roomVars, at, arc, opener, polite, peerId, sawCall, sweepVars, evicted>>

\* next_peer_id.fetch_add(1).
DrawnId_FromCount(c) == count[arc[c]]                                \* mutant
DrawnId(c) == nextPeerId[arc[c]]

DrawPeerId(c) ==
    /\ pc[c] = "draw"
    /\ peerId' = [peerId EXCEPT ![c] = DrawnId(c)]
    /\ nextPeerId' = [nextPeerId EXCEPT ![arc[c]] = @ + 1]
    /\ Goto(c, "ack")
    /\ UNCHANGED <<inner, created, count, emptySince, connectedAt, ended, gauge, at, arc,
                   opener, polite, sawCall, sweepVars, evicted>>

-----------------------------------------------------------------------------
(* handle_call_ws after join                                               *)

\* The `Joined' message is written to the socket.
AckOk(c) ==
    /\ pc[c] = "ack"
    /\ Goto(c, IF polite[c] THEN "connect" ELSE "in_call")
    /\ UNCHANGED <<roomVars, gauge, at, arc, opener, polite, peerId, sawCall,
                   sweepVars, evicted>>

AckFail_NoLeave(c) ==                                                \* mutant
    /\ pc[c] = "ack"
    /\ Goto(c, "drain")
    /\ UNCHANGED <<roomVars, gauge, at, arc, opener, polite, peerId, sawCall,
                   sweepVars, evicted>>

\* The socket is gone: the handler leaves the room at once.
AckFail(c) ==
    /\ pc[c] = "ack"
    /\ Goto(c, "leave")
    /\ UNCHANGED <<roomVars, gauge, at, arc, opener, polite, peerId, sawCall,
                   sweepVars, evicted>>

\* mark_connected(room_id): get by ID, then compare_exchange(0, now).
MarkConnected(c) ==
    /\ pc[c] = "connect"
    /\ connectedAt' = IF inner[at[c]] = NoRoom THEN connectedAt
                      ELSE [connectedAt EXCEPT ![inner[at[c]]] = TRUE]
    /\ Goto(c, "in_call")
    /\ UNCHANGED <<inner, created, count, nextPeerId, emptySince, ended, gauge,
                   at, arc, opener, polite, peerId, sawCall, sweepVars, evicted>>

\* connected_at(room_id) > 0
SeesCall_ImpoliteOnly(c) == ~polite[c] /\ inner[at[c]] # NoRoom      \* mutant
                            /\ connectedAt[inner[at[c]]]
SeesCall(c) == inner[at[c]] # NoRoom /\ connectedAt[inner[at[c]]]

\* process_messages returned; connected_at(room_id) is read before leaving.
Hangup(c) ==
    /\ pc[c] = "in_call"
    /\ sawCall' = [sawCall EXCEPT ![c] = SeesCall(c)]
    /\ Goto(c, "leave")
    /\ UNCHANGED <<roomVars, gauge, at, arc, opener, polite, peerId, sweepVars, evicted>>

\* leave(room_id): get by ID and count.fetch_sub(1); prev <= 1 goes on to the
\* store of empty_since with the read guard held.
LeaveDec(c) ==
    /\ pc[c] = "leave"
    /\ \/ /\ inner[at[c]] = NoRoom
          /\ Goto(c, "drain")
          /\ UNCHANGED count
       \/ /\ inner[at[c]] # NoRoom
          /\ count' = [count EXCEPT ![inner[at[c]]] = (@ + CountMod - 1) % CountMod]
          /\ Goto(c, IF count[inner[at[c]]] <= 1 THEN "mark_empty" ELSE "drain")
    /\ UNCHANGED <<inner, created, nextPeerId, emptySince, connectedAt, ended, gauge,
                   at, arc, opener, polite, peerId, sawCall, sweepVars, evicted>>

LeaveMark(c) ==
    /\ pc[c] = "mark_empty"
    /\ emptySince' = [emptySince EXCEPT ![inner[at[c]]] = 1]
    /\ Goto(c, "drain")
    /\ UNCHANGED <<inner, created, count, nextPeerId, connectedAt, ended, gauge,
                   at, arc, opener, polite, peerId, sawCall, sweepVars, evicted>>

\* After send_task.await, which lasts as long as the socket takes the queued
\* messages: try_mark_ended(room_id) if a call had been connected.
TryMarkEnded(c) ==
    /\ pc[c] = "drain"
    /\ ended' = IF sawCall[c] /\ inner[at[c]] # NoRoom
                THEN [ended EXCEPT ![inner[at[c]]] = TRUE] ELSE ended
    /\ Finish(c)
    /\ UNCHANGED <<inner, created, count, nextPeerId, emptySince, connectedAt, gauge,
                   sweepVars, evicted>>

-----------------------------------------------------------------------------
(* Time and the cleanup task (room_cleanup.rs)                             *)

\* The wall clock advances: every mark ages by one, up to AgeCap.
Tick ==
    /\ emptySince' = [o \in Objects |->
                        IF emptySince[o] \in 1 .. AgeCap - 1 THEN emptySince[o] + 1
                                                             ELSE emptySince[o]]
    /\ UNCHANGED <<inner, created, count, nextPeerId, connectedAt, ended, gauge,
                   connVars, sweepVars, evicted>>

\* interval.tick(), then one pass over the map collects the expired keys.
Scan ==
    /\ expired = {} /\ victim = None /\ ~closing
    /\ expired' = {id \in RoomIds : inner[id] # NoRoom /\ IsExpired(inner[id])}
    /\ UNCHANGED <<roomVars, gauge, connVars, victim, closing, evicted>>

\* The double-check of one collected key; its guard is dropped afterwards.
CheckKey(id) ==
    /\ id \in expired /\ victim = None /\ ~closing
    /\ expired' = expired \ {id}
    /\ victim' = IF inner[id] # NoRoom /\ count[inner[id]] = 0 THEN id ELSE None
    /\ UNCHANGED <<roomVars, gauge, connVars, closing, evicted>>

\* inner.remove(key), which does not look at the object again.
RemoveKey ==
    /\ victim # None
    /\ ~ReadLocked(victim)
    /\ inner' = [inner EXCEPT ![victim] = NoRoom]
    /\ victim' = None
    /\ closing' = (inner[victim] # NoRoom)
    /\ evicted' = (evicted \/ \E c \in Conns :
                      /\ at[c] = victim /\ arc[c] = inner[victim]
                      /\ pc[c] \in Joining \cup Counted)
    /\ UNCHANGED <<created, count, nextPeerId, emptySince, connectedAt, ended, gauge,
                   connVars, expired>>

\* if remove returned the room { on_room_closed() }.
ReportClosed ==
    /\ closing
    /\ closing' = FALSE
    /\ gauge' = gauge - 1
    /\ UNCHANGED <<roomVars, connVars, expired, victim, evicted>>

-----------------------------------------------------------------------------
Handler(c) ==
    \/ Admit(c) \/ Refuse(c) \/ Clear(c) \/ ReportOpened(c) \/ DrawPeerId(c)
    \/ AckOk(c) \/ AckFail(c) \/ MarkConnected(c) \/ Hangup(c)
    \/ LeaveDec(c) \/ LeaveMark(c) \/ TryMarkEnded(c)

Cleaner == Scan \/ (\E id \in RoomIds : CheckKey(id)) \/ RemoveKey \/ ReportClosed

Next ==
    \/ \E c \in Conns, id \in RoomIds : Entry(c, id)
    \/ \E c \in Conns : Handler(c)
    \/ Tick
    \/ Cleaner

Spec == Init /\ [][Next]_vars

\* Handlers run to their next await; a client need never hang up, and
\* send_task.await (before TryMarkEnded) and the Joined write end because the
\* kernel gives up on a dead connection.  The clock runs and the cleanup task
\* is spawned once at start-up and loops forever.
HandlerStep(c) ==
    \/ Admit(c) \/ Refuse(c) \/ Clear(c) \/ ReportOpened(c) \/ DrawPeerId(c)
    \/ AckOk(c) \/ AckFail(c) \/ MarkConnected(c) \/ LeaveDec(c) \/ LeaveMark(c) \/ TryMarkEnded(c)

Fairness ==
    /\ \A c \in Conns : WF_vars(HandlerStep(c))
    /\ WF_vars(Tick)
    /\ WF_vars(Cleaner)

FairSpec == Spec /\ Fairness

\* The behaviours in which the cleanup task never unmaps an object in use.
SpecNoEvict == Init /\ [][Next /\ ~evicted']_vars

-----------------------------------------------------------------------------
(* Properties                                                              *)

TypeOK ==
    /\ inner \in [RoomIds -> Objects \cup {NoRoom}]
    /\ created \in 0 .. MaxRooms
    /\ count \in [Objects -> 0 .. CountMod - 1]
    /\ nextPeerId \in [Objects -> Nat \ {0}]
    /\ emptySince \in [Objects -> 0 .. AgeCap]
    /\ connectedAt \in [Objects -> BOOLEAN]
    /\ ended \in [Objects -> BOOLEAN]
    /\ gauge \in Int
    /\ pc \in [Conns -> Pcs]
    /\ at \in [Conns -> RoomIds \cup {None}]
    /\ arc \in [Conns -> Objects \cup {NoRoom}]
    /\ opener \in [Conns -> BOOLEAN]
    /\ polite \in [Conns -> BOOLEAN]
    /\ peerId \in [Conns -> Nat]
    /\ sawCall \in [Conns -> BOOLEAN]
    /\ expired \subseteq RoomIds
    /\ victim \in RoomIds \cup {None}
    /\ closing \in BOOLEAN
    /\ evicted \in BOOLEAN
    /\ \A c \in Conns : pc[c] # "idle" => at[c] \in RoomIds /\ arc[c] \in Objects
    /\ \A c \in Conns : pc[c] = "mark_empty" => inner[at[c]] \in Objects

Holders(o) == {c \in Conns : arc[c] = o /\ pc[c] \in Counted}
Members(id) == {c \in Conns : at[c] = id /\ pc[c] \in Placed}

\* Room::count is the number of handlers counted in the object: no join or
\* leave, refused, failed or interrupted anywhere, loses or doubles a count.
\* leave() looks the room up again by id, so this rests on the object still
\* being the mapped one.
CountExact == ~evicted => \A o \in Objects : count[o] = Cardinality(Holders(o))

\* Never more than MAX_PARTICIPANTS handlers hold a place under one room id,
\* although fetch_add admits first and corrects afterwards.
CapacityRespected ==
    ~evicted => \A id \in RoomIds : Cardinality(Members(id)) <= MAX_PARTICIPANTS

\* No two handlers in one room are both told polite = FALSE, so two offers
\* that collide always find a side that yields.
AtMostOneImpolite ==
    ~evicted => \A c, d \in Conns :
        /\ pc[c] \in Placed /\ pc[d] \in Placed
        /\ at[c] = at[d] /\ ~polite[c] /\ ~polite[d]
        => c = d

\* Handlers that share a broadcast channel have different peer ids, across
\* rejoins too: the echo filter of recv_bcast drops nothing of the peer's.
PeerIdsDistinct ==
    \A c, d \in Conns :
        /\ peerId[c] # 0 /\ peerId[d] # 0 /\ arc[c] = arc[d] /\ peerId[c] = peerId[d]
        => c = d

\* The gauge of active rooms, with the openings still to be reported, exceeds
\* the rooms in the map by at most the one room that the cleanup task has
\* removed and not yet reported closed, whatever the task races with.
PendingOpeners == {c \in Conns : opener[c] /\ pc[c] \in {"admit", "clear", "report"}}
MappedIds == {id \in RoomIds : inner[id] # NoRoom}
GaugeNeverAhead ==
    gauge + Cardinality(PendingOpeners)
        <= Cardinality(MappedIds) + (IF closing THEN 1 ELSE 0)

\* A room in the map whose call had connected and whose handlers have all
\* returned is marked ended: of the handlers that leave, one saw the call.
CallEndRecorded ==
    \A id \in RoomIds :
        /\ inner[id] # NoRoom /\ connectedAt[inner[id]]
        /\ \A c \in Conns : at[c] # id
        => ended[inner[id]]

\* A room marked empty that nobody uses does not stay: the cleanup task
\* removes it or somebody joins it again (rooms.rs:103, deferred cleanup).
\* (Not so after an eviction: the handlers of the unmapped object count down
\* its successor when they leave, below zero if it is empty.)
Abandoned(id) ==
    /\ inner[id] # NoRoom /\ emptySince[inner[id]] > 0
    /\ \A c \in Conns : at[c] = id => pc[c] = "drain"
AbandonedReclaimed ==
    \A id \in RoomIds : Abandoned(id) ~> (~Abandoned(id) \/ evicted)

\* The registry implements the abstract room of RoomSlots as long as no
\* object in use is unmapped.
SlotMembers == [id \in RoomIds |-> Members(id)]
SlotImpolite == {c \in Conns : pc[c] \in Placed /\ ~polite[c]}
Slots == INSTANCE RoomSlots WITH members <- SlotMembers, impolite <- SlotImpolite
ImplementsSlots == Slots!SlotsSpec

-----------------------------------------------------------------------------
(* What the repository's comments say and the code does not ensure.        *)

\* room_cleanup.rs:48: "Double-check: only remove if still empty (no one
\* rejoined)".  The check and the removal are two map operations.
NeverEvicted == ~evicted

=============================================================================
