---------------------------- MODULE CallHandler ----------------------------
(***************************************************************************)
(* The life of a signaling connection (crates/signaling/src/handler.rs):   *)
(* the handshake, the three concurrent tasks of a joined connection        *)
(* (process_messages, recv_bcast, send_task), the room's broadcast channel *)
(* between the connections and the bounded queue inside each of them.      *)
(*                                                                         *)
(* One room.  The registry is the abstract room of RoomSlots, which Rooms  *)
(* is shown to implement.  A connection is one WebSocket: a client that    *)
(* comes back is another element of Conns, so a connection stands for its  *)
(* peer id too.                                                            *)
(*                                                                         *)
(* An operator marked "mutant" is a deliberately broken variant of the     *)
(* definition below it; nothing uses it but the mutation runs.             *)
(***************************************************************************)
EXTENDS Naturals, Sequences, FiniteSetsExt

CONSTANTS Conns,              \* WebSocket connections
          Room,               \* the room id in their path
          MAX_PARTICIPANTS,   \* rooms.rs:10
          CHANNEL_CAPACITY,   \* rooms.rs:11: slots of the broadcast ring
          FORWARD_CAPACITY,   \* handler.rs:156: slots of the mpsc queue
          MaxSignals,         \* bound: signals the clients send in all
          MaxQueries,         \* bound: pings and malformed messages in all
          MaxBreaks           \* bound: connections that break

ASSUME ConnsAssumption == IsFiniteSet(Conns)
ASSUME CapacityAssumption == /\ CHANNEL_CAPACITY \in Nat \ {0}
                             /\ FORWARD_CAPACITY \in Nat \ {0}
                             /\ MAX_PARTICIPANTS \in Nat \ {0}
                             /\ MaxSignals \in Nat /\ MaxQueries \in Nat
                             /\ MaxBreaks \in Nat

RoomIds == {Room}

VARIABLES
    members, impolite,   \* the registry (RoomSlots)
    pc,         \* where handle_call_ws is
    sock,       \* "up", or "down": reads end, writes fail
    queries,    \* pings and malformed messages read so far (bounded)
    counts,     \* the counters of the server's Metrics for connections
    inbox,      \* what recv_bcast can still receive of the broadcast channel
    lost,       \* it missed a message: the ring's slot was taken again
    relay,      \* recv_bcast: "off", "run", "hold" (a message to forward),
                \* "lagged" (recv returned an error) or "stopped"
    held,       \* the message recv_bcast is forwarding
    fwd,        \* the mpsc queue into send_task
    writer,     \* send_task: "off", "run" or "stopped"
    said,       \* history: signals each connection broadcast
    heard,      \* history: heard[c][p], the last signal of p written to c or
                \* broadcast before c subscribed
    byes        \* history: byes[c], whose peer_left was written to c

slotVars == <<members, impolite>>
chanVars == <<inbox, lost, said>>
wireVars == <<heard, byes>>
taskVars == <<relay, held, fwd, writer, wireVars>>
vars == <<slotVars, pc, sock, queries, counts, chanVars, taskVars>>

Slots == INSTANCE RoomSlots

Msg(kind, from, n) == [kind |-> kind, from |-> from, n |-> n]
IsSignal(m) == m.kind = "signal"
NoMsg == Msg("none", "none", 0)
Polite(c) == c \notin impolite

Goto(c, label) == pc' = [pc EXCEPT ![c] = label]

-----------------------------------------------------------------------------
Init ==
    /\ Slots!SlotsInit
    /\ pc = [c \in Conns |-> "idle"]
    /\ sock = [c \in Conns |-> "up"]
    /\ queries = 0
    /\ counts = [connects |-> 0, disconnects |-> 0, ok |-> 0, err |-> 0, handshakeFailed |-> 0]
    /\ inbox = [c \in Conns |-> <<>>]
    /\ lost = [c \in Conns |-> FALSE]
    /\ said = [c \in Conns |-> 0]
    /\ relay = [c \in Conns |-> "off"]
    /\ held = [c \in Conns |-> NoMsg]
    /\ fwd = [c \in Conns |-> <<>>]
    /\ writer = [c \in Conns |-> "off"]
    /\ heard = [c \in Conns |-> [p \in Conns |-> 0]]
    /\ byes = [c \in Conns |-> {}]

-----------------------------------------------------------------------------
(* The broadcast channel, one ring of CHANNEL_CAPACITY slots, as each of    *)
(* its receivers sees it: the messages it has not received that are still  *)
(* in their slots, and whether one has been overwritten before.            *)

Receivers == {d \in Conns : relay[d] \in {"run", "hold"}}

Latest(s) == IF Len(s) > CHANNEL_CAPACITY THEN Tail(s) ELSE s

Broadcast(m) ==
    /\ inbox' = [d \in Conns |->
                    IF d \in Receivers THEN Latest(Append(inbox[d], m)) ELSE inbox[d]]
    /\ lost' = [d \in Conns |->
                    lost[d] \/ (d \in Receivers /\ Len(inbox[d]) = CHANNEL_CAPACITY)]

\* The receiver of c is dropped.
Unsubscribe(c) ==
    /\ inbox' = [inbox EXCEPT ![c] = <<>>]
    /\ lost' = [lost EXCEPT ![c] = FALSE]

-----------------------------------------------------------------------------
(* The handshake                                                           *)

\* on_upgrade: the handler starts.
Connect(c) ==
    /\ pc[c] = "idle"
    /\ Goto(c, "open")
    /\ counts' = [counts EXCEPT !.connects = @ + 1]
    /\ UNCHANGED <<slotVars, sock, queries, chanVars, taskVars>>

\* The handler returns, and DisconnectGuard is dropped.
Ends(c, update) ==
    /\ Goto(c, "closed")
    /\ counts' = [update EXCEPT !.disconnects = @ + 1]
JoinFailed == [counts EXCEPT !.err = @ + 1, !.handshakeFailed = @ + 1]

\* The room id is invalid, or the join limiter says no: only the guard counts.
Refuse(c) ==
    /\ pc[c] = "open"
    /\ Ends(c, counts)
    /\ UNCHANGED <<slotVars, sock, queries, chanVars, taskVars>>

\* wait_for_join fails (timeout, close, another first message), or the room is
\* full; the registry also turns callers away that race with others, so no
\* condition on members is put here.
Reject(c) ==
    /\ pc[c] = "open"
    /\ Ends(c, JoinFailed)
    /\ UNCHANGED <<slotVars, sock, queries, chanVars, taskVars>>

\* rooms.join: a place and a role.
Join(c, polite) ==
    /\ pc[c] = "open"
    /\ Slots!SlotsJoin(c, Room, polite)
    /\ Goto(c, "joined")
    /\ UNCHANGED <<sock, queries, counts, chanVars, taskVars>>

\* The Joined message goes straight to the sink.
AckOk(c) ==
    /\ pc[c] = "joined" /\ sock[c] = "up"
    /\ Goto(c, "acked")
    /\ counts' = [counts EXCEPT !.ok = @ + 1]
    /\ UNCHANGED <<slotVars, sock, queries, chanVars, taskVars>>

AckFail_KeepsPlace(c) ==                                             \* mutant
    /\ pc[c] = "joined" /\ sock[c] = "down"
    /\ Ends(c, JoinFailed)
    /\ UNCHANGED <<slotVars, sock, queries, chanVars, taskVars>>
AckFail(c) ==
    /\ pc[c] = "joined" /\ sock[c] = "down"
    /\ Slots!SlotsLeave(c, Room)
    /\ Ends(c, JoinFailed)
    /\ UNCHANGED <<sock, queries, chanVars, taskVars>>

\* tx.subscribe(), then the two tasks are spawned.
Subscribe(c) ==
    /\ pc[c] = "acked"
    /\ relay' = [relay EXCEPT ![c] = "run"]
    /\ writer' = [writer EXCEPT ![c] = "run"]
    /\ Goto(c, IF Polite(c) THEN "announce" ELSE "in_call")
    /\ heard' = [heard EXCEPT ![c] = said]
    /\ UNCHANGED <<slotVars, sock, queries, counts, chanVars, held, fwd, byes>>

Announce_Early(c) ==                                                 \* mutant
    /\ pc[c] \in {"acked", "announce"} /\ Polite(c)
    /\ Broadcast(Msg("peer_joined", c, 0))
    /\ Goto(c, IF pc[c] = "acked" THEN "acked" ELSE "in_call")
    /\ UNCHANGED <<slotVars, sock, queries, counts, said, taskVars>>

\* The polite peer broadcasts PeerJoined.
Announce(c) ==
    /\ pc[c] = "announce"
    /\ Broadcast(Msg("peer_joined", c, 0))
    /\ Goto(c, "in_call")
    /\ UNCHANGED <<slotVars, sock, queries, counts, said, taskVars>>

-----------------------------------------------------------------------------
(* process_messages.  A broken stream ends; what was buffered in it counts *)
(* as read before the break.                                               *)

\* A signal of the client is numbered by its sender to tell gaps apart.
Signal(c) ==
    /\ pc[c] = "in_call" /\ sock[c] = "up"
    /\ MapThenSumSet(LAMBDA d : said[d], Conns) < MaxSignals
    /\ said' = [said EXCEPT ![c] = @ + 1]
    /\ Broadcast(Msg("signal", c, said[c] + 1))
    /\ UNCHANGED <<slotVars, pc, sock, queries, counts, taskVars>>

\* A ping, or a message that does not parse: the answer goes into the mpsc
\* queue, and the loop waits for room in it.
Query(c) ==
    /\ pc[c] = "in_call" /\ sock[c] = "up" /\ queries < MaxQueries
    /\ queries' = queries + 1
    /\ Goto(c, "answer")
    /\ UNCHANGED <<slotVars, sock, counts, chanVars, taskVars>>

Answer(c) ==
    /\ pc[c] = "answer"
    /\ writer[c] = "run" /\ Len(fwd[c]) < FORWARD_CAPACITY
    /\ fwd' = [fwd EXCEPT ![c] = Append(@, Msg("answer", c, 0))]
    /\ Goto(c, "in_call")
    /\ UNCHANGED <<slotVars, sock, queries, counts, chanVars, relay, held, writer, wireVars>>

\* send_task is gone: a pong is dropped and the loop goes on, a failed error
\* message ends it.
AnswerFail_KeepsWaiting(c) == FALSE /\ UNCHANGED vars                \* mutant
AnswerFail(c) ==
    /\ pc[c] = "answer"
    /\ writer[c] = "stopped"
    /\ Goto(c, "in_call") \/ Goto(c, "leaving")
    /\ UNCHANGED <<slotVars, sock, queries, counts, chanVars, taskVars>>

\* Leave, Close, or the stream ends.
EndLoop(c) ==
    /\ pc[c] = "in_call"
    /\ Goto(c, "leaving")
    /\ UNCHANGED <<slotVars, sock, queries, counts, chanVars, taskVars>>

-----------------------------------------------------------------------------
(* The way out                                                             *)

Leave_QuietIfRelayGone(c) ==                                         \* mutant
    /\ pc[c] = "leaving"
    /\ Slots!SlotsLeave(c, Room)
    /\ Goto(c, IF relay[c] = "run" THEN "farewell" ELSE "drain")
    /\ UNCHANGED <<sock, queries, counts, chanVars, taskVars>>
Leave(c) ==
    /\ pc[c] = "leaving"
    /\ Slots!SlotsLeave(c, Room)
    /\ Goto(c, "farewell")
    /\ UNCHANGED <<sock, queries, counts, chanVars, taskVars>>

Farewell_BeforeLeave(c) ==                                           \* mutant
    /\ pc[c] \in {"in_call", "farewell"}
    /\ Broadcast(Msg("peer_left", c, 0))
    /\ Goto(c, IF pc[c] = "in_call" THEN "in_call" ELSE "drain")
    /\ UNCHANGED <<slotVars, sock, queries, counts, said, taskVars>>

\* PeerLeft is broadcast; then recv_bcast.abort() and drop(fwd_tx).
Farewell(c) ==
    /\ pc[c] = "farewell"
    /\ Broadcast(Msg("peer_left", c, 0))
    /\ Goto(c, "drain")
    /\ UNCHANGED <<slotVars, sock, queries, counts, said, taskVars>>

\* The abort takes effect at an await of recv_bcast, which may first finish
\* what it is doing.
RelayAborted(c) ==
    /\ pc[c] = "drain" /\ relay[c] \in {"run", "hold"}
    /\ relay' = [relay EXCEPT ![c] = "stopped"]
    /\ held' = [held EXCEPT ![c] = NoMsg]
    /\ Unsubscribe(c)
    /\ UNCHANGED <<slotVars, pc, sock, queries, counts, said, fwd, writer, wireVars>>

\* send_task.await returns; the handler and its channel ends are gone.
Finish(c) ==
    /\ pc[c] = "drain" /\ writer[c] = "stopped"
    /\ Ends(c, counts)
    /\ relay' = [relay EXCEPT ![c] = "off"]
    /\ writer' = [writer EXCEPT ![c] = "off"]
    /\ held' = [held EXCEPT ![c] = NoMsg]
    /\ Unsubscribe(c)
    /\ heard' = [heard EXCEPT ![c] = [p \in Conns |-> 0]]
    /\ byes' = [byes EXCEPT ![c] = {}]
    /\ UNCHANGED <<slotVars, sock, queries, said, fwd>>

-----------------------------------------------------------------------------
(* recv_bcast                                                              *)

\* rx.recv() yields a message: the connection's own is skipped.
Echo(c, m) == m.from = c
RelayRecv(c) ==
    /\ relay[c] = "run" /\ inbox[c] # <<>> /\ ~lost[c]
    /\ inbox' = [inbox EXCEPT ![c] = Tail(@)]
    /\ LET m == Head(inbox[c]) IN
         \/ Echo(c, m) /\ UNCHANGED <<relay, held>>
         \/ /\ ~Echo(c, m)
            /\ relay' = [relay EXCEPT ![c] = "hold"]
            /\ held' = [held EXCEPT ![c] = m]
    /\ UNCHANGED <<slotVars, pc, sock, queries, counts, lost, said, fwd, writer, wireVars>>

\* rx.recv() yields Lagged: "while let Ok" ends the task.
RelayLag_Skip(c) ==                                                  \* mutant
    /\ relay[c] = "run" /\ lost[c]
    /\ lost' = [lost EXCEPT ![c] = FALSE]
    /\ UNCHANGED <<slotVars, pc, sock, queries, counts, inbox, said, taskVars>>
RelayLag(c) ==
    /\ relay[c] = "run" /\ lost[c]
    /\ relay' = [relay EXCEPT ![c] = "lagged"]
    /\ Unsubscribe(c)
    /\ UNCHANGED <<slotVars, pc, sock, queries, counts, said, held, fwd, writer, wireVars>>

\* The message goes into the mpsc queue as soon as it has room.
RelayForward(c) ==
    /\ relay[c] = "hold" /\ writer[c] = "run" /\ Len(fwd[c]) < FORWARD_CAPACITY
    /\ fwd' = [fwd EXCEPT ![c] = Append(@, held[c])]
    /\ held' = [held EXCEPT ![c] = NoMsg]
    /\ relay' = [relay EXCEPT ![c] = "run"]
    /\ UNCHANGED <<slotVars, pc, sock, queries, counts, chanVars, writer, wireVars>>

\* send_task is gone: the send fails and the task ends.
RelayBroken(c) ==
    /\ relay[c] = "hold" /\ writer[c] = "stopped"
    /\ relay' = [relay EXCEPT ![c] = "stopped"]
    /\ held' = [held EXCEPT ![c] = NoMsg]
    /\ Unsubscribe(c)
    /\ UNCHANGED <<slotVars, pc, sock, queries, counts, said, fwd, writer, wireVars>>

-----------------------------------------------------------------------------
(* send_task                                                               *)

Write(c) ==
    /\ writer[c] = "run" /\ fwd[c] # <<>> /\ sock[c] = "up"
    /\ LET m == Head(fwd[c]) IN
         /\ heard' = IF m.kind = "signal" THEN [heard EXCEPT ![c][m.from] = m.n] ELSE heard
         /\ byes' = IF m.kind = "peer_left" THEN [byes EXCEPT ![c] = @ \cup {m.from}] ELSE byes
    /\ fwd' = [fwd EXCEPT ![c] = Tail(@)]
    /\ UNCHANGED <<slotVars, pc, sock, queries, counts, chanVars, relay, held, writer>>

\* sink.send fails: the task breaks and drops the queue.
WriteFail(c) ==
    /\ writer[c] = "run" /\ fwd[c] # <<>> /\ sock[c] = "down"
    /\ fwd' = [fwd EXCEPT ![c] = <<>>]
    /\ writer' = [writer EXCEPT ![c] = "stopped"]
    /\ UNCHANGED <<slotVars, pc, sock, queries, counts, chanVars, relay, held, wireVars>>

\* Both senders of the queue are dropped and it is empty.
WriterDone(c) ==
    /\ writer[c] = "run" /\ fwd[c] = <<>>
    /\ pc[c] = "drain" /\ relay[c] \in {"lagged", "stopped"}
    /\ writer' = [writer EXCEPT ![c] = "stopped"]
    /\ UNCHANGED <<slotVars, pc, sock, queries, counts, chanVars, relay, held, fwd, wireVars>>

\* The connection breaks, or the kernel gives up on it.
SockDown(c) ==
    /\ sock[c] = "up" /\ pc[c] \notin {"idle", "closed"}
    /\ Cardinality({d \in Conns : sock[d] = "down"}) < MaxBreaks
    /\ sock' = [sock EXCEPT ![c] = "down"]
    /\ UNCHANGED <<slotVars, pc, queries, counts, chanVars, taskVars>>

-----------------------------------------------------------------------------
Handshake(c) ==
    \/ Refuse(c) \/ Reject(c) \/ (\E polite \in BOOLEAN : Join(c, polite))
    \/ AckOk(c) \/ AckFail(c) \/ Subscribe(c) \/ Announce(c)
Loop(c) == Signal(c) \/ Query(c)
WayOut(c) == Leave(c) \/ Farewell(c) \/ RelayAborted(c) \/ Finish(c)
Relay(c) == RelayRecv(c) \/ RelayLag(c) \/ RelayForward(c) \/ RelayBroken(c)
Writer(c) == Write(c) \/ WriteFail(c) \/ WriterDone(c)

Next == \E c \in Conns :
    \/ Connect(c) \/ Handshake(c) \/ Loop(c) \/ Answer(c) \/ AnswerFail(c) \/ EndLoop(c)
    \/ WayOut(c) \/ Relay(c) \/ Writer(c) \/ SockDown(c)

Spec == Init /\ [][Next]_vars

\* The runtime polls every task that can go on.  A client need never speak or
\* leave, so EndLoop is fair only once its socket is gone; a client reads what
\* is written as long as its socket is up.
HandlerTask(c) ==
    \/ Handshake(c) \/ Answer(c) \/ AnswerFail(c)
    \/ (sock[c] = "down" /\ EndLoop(c))
    \/ Leave(c) \/ Farewell(c) \/ Finish(c)

Fairness == \A c \in Conns :
    /\ WF_vars(HandlerTask(c)) /\ WF_vars(RelayAborted(c))
    /\ WF_vars(Relay(c)) /\ WF_vars(Writer(c))

FairSpec == Spec /\ Fairness

-----------------------------------------------------------------------------
(* Properties                                                              *)

\* What a client receives of one peer's signals has no gap and no repetition,
\* however far its relay falls behind: a lagging relay stops, it never skips.
\* (A lost offer followed by its candidates would corrupt the negotiation.)
GapFree ==
    [][\A c \in Conns : Write(c) /\ Head(fwd[c]).kind = "signal" =>
         LET m == Head(fwd[c]) IN heard[c][m.from] = m.n - 1]_vars

\* peer_left is the last thing a client hears of a peer: no signal of a
\* connection that has left reaches the call that follows it.
FarewellIsLast ==
    [][\A c \in Conns : Write(c) => Head(fwd[c]).from \notin byes[c]]_vars

\* A peer that hears of another one can already answer it: whoever announced
\* itself is subscribed, so the offer that peer_joined provokes is not lost
\* (handler.rs:154).
AnnouncedListens ==
    [][\A c \in Conns : Write(c) /\ Head(fwd[c]).kind = "peer_joined" =>
         LET p == Head(fwd[c]).from IN relay[p] # "off" \/ pc[p] = "closed"]_vars

\* The place a connection holds is given back, once, whichever way its handler
\* takes out, and the counters tell the same story: connections under way are
\* connects less disconnects, every place but those of handlers that still
\* write their answer was counted as a join, and no attempt is counted twice.
PlacesCounted ==
    LET At(labels) == {c \in Conns : pc[c] \in labels}
        inRoom == {"acked", "announce", "in_call", "answer", "leaving"}
        goingOut == {"farewell", "drain"}
        done == counts.ok + counts.err
    IN /\ members[Room] = At(inRoom \cup {"joined"})
       /\ counts.connects - counts.disconnects
            = Cardinality(At(inRoom \cup goingOut \cup {"open", "joined"}))
       /\ Cardinality(At(inRoom \cup goingOut)) <= counts.ok
       /\ counts.err = counts.handshakeFailed
       /\ done + Cardinality(At({"open", "joined"})) <= counts.connects

\* However full its queues are, the handler of a dead connection ends: the
\* three tasks never wait for each other in a circle.
HandlerEnds == \A c \in Conns : sock[c] = "down" ~> pc[c] = "closed"

\* A peer that has left is announced to whoever is subscribed, unless that
\* connection is going too or has lagged.
FarewellHeard ==
    \A c, p \in Conns :
        p # c /\ pc[p] = "leaving" /\ pc[c] \in {"in_call", "answer"}
        ~> \/ p \in byes[c] \/ relay[c] \in {"lagged", "stopped"}
           \/ pc[c] \in {"leaving", "farewell", "drain", "closed"}

=============================================================================
