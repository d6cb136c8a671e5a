----------------------------- MODULE RoomSlots -----------------------------
(***************************************************************************)
(* What the room registry of the signaling server promises its callers:    *)
(* every room has a fixed number of places, a connection that is given a   *)
(* place learns its perfect-negotiation role, and it may be given the      *)
(* "impolite" role only when it finds the room empty.  There is no map, no *)
(* counter, no cleaner here: module Rooms implements this interface.       *)
(***************************************************************************)
EXTENDS Naturals, FiniteSets

CONSTANTS Conns,              \* WebSocket connections
          RoomIds,            \* names of rooms
          MAX_PARTICIPANTS    \* places in a room

VARIABLES members,            \* members[id]: the connections that hold a place
          impolite            \* the connections told polite = FALSE

slotVars == <<members, impolite>>

SlotsInit ==
    /\ members = [id \in RoomIds |-> {}]
    /\ impolite = {}

\* A connection is given a place in a room that has one free.
SlotsJoin(c, id, polite) ==
    /\ \A other \in RoomIds : c \notin members[other]
    /\ Cardinality(members[id]) < MAX_PARTICIPANTS
    /\ polite \/ members[id] = {}
    /\ members' = [members EXCEPT ![id] = @ \cup {c}]
    /\ impolite' = IF polite THEN impolite ELSE impolite \cup {c}

\* A connection gives its place back.
SlotsLeave(c, id) ==
    /\ c \in members[id]
    /\ members' = [members EXCEPT ![id] = @ \ {c}]
    /\ impolite' = impolite \ {c}

SlotsNext == \E c \in Conns, id \in RoomIds :
    \/ \E polite \in BOOLEAN : SlotsJoin(c, id, polite)
    \/ SlotsLeave(c, id)

SlotsSpec == SlotsInit /\ [][SlotsNext]_slotVars
=============================================================================
