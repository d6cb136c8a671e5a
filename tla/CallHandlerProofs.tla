------------------------- MODULE CallHandlerProofs -------------------------
(***************************************************************************)
(* Theorems about the connection handlers, for any number of connections,  *)
(* queues of any capacity and any number of signals, queries and breaks.   *)
(***************************************************************************)
EXTENDS CallHandler, FiniteSetTheorems, TLAPS

-----------------------------------------------------------------------------
(* Types, and where the three tasks of a connection are                    *)

Early == {"idle", "open", "joined", "acked"}
Serving == {"announce", "in_call", "answer", "leaving", "farewell", "drain"}
Labels == Early \cup Serving \cup {"closed"}
Message == [kind : {"signal", "peer_joined", "peer_left", "answer"}, from : Conns, n : Nat]

PlaceTypes ==
    /\ members \in [RoomIds -> SUBSET Conns] /\ impolite \subseteq Conns
    /\ sock \in [Conns -> {"up", "down"}] /\ queries \in Nat
    /\ counts \in [connects : Nat, disconnects : Nat, ok : Nat, err : Nat, handshakeFailed : Nat]

TaskTypes ==
    /\ pc \in [Conns -> Labels]
    /\ inbox \in [Conns -> Seq(Message)] /\ lost \in [Conns -> BOOLEAN]
    /\ said \in [Conns -> Nat] /\ heard \in [Conns -> [Conns -> Nat]]
    /\ relay \in [Conns -> {"off", "run", "hold", "lagged", "stopped"}]
    /\ held \in [Conns -> Message \cup {NoMsg}]
    /\ fwd \in [Conns -> Seq(Message)] /\ writer \in [Conns -> {"off", "run", "stopped"}]
    /\ byes \in [Conns -> SUBSET Conns]

\* The two tasks run from Subscribe to Finish, and a task that has ended has
\* dropped its queue.
Phases == \A c \in Conns :
    /\ pc[c] \in Early => writer[c] = "off"
    /\ pc[c] \in Serving => writer[c] # "off"
    /\ writer[c] = "off" <=> relay[c] = "off"
    /\ writer[c] = "off" => byes[c] = {}
    /\ writer[c] # "run" => fwd[c] = <<>>
    /\ c \notin Receivers => inbox[c] = <<>> /\ ~lost[c]
    /\ IF relay[c] = "hold" THEN held[c] \in Message ELSE held[c] = NoMsg
    /\ Len(inbox[c]) <= CHANNEL_CAPACITY

\* recv_bcast skips what the connection itself has said.
OthersOnly == \A c \in Conns :
    /\ \A i \in DOMAIN inbox[c] : inbox[c][i].kind # "answer"
    /\ \A i \in DOMAIN fwd[c] : fwd[c][i].kind = "answer" \/ fwd[c][i].from # c
    /\ relay[c] = "hold" => held[c].kind # "answer" /\ held[c].from # c
    /\ c \notin byes[c]

TaskInv == TaskTypes /\ Phases /\ OthersOnly

LEMMA Queues ==
    ASSUME NEW S, NEW s \in Seq(S), NEW m \in S
    PROVE  /\ Append(s, m) \in Seq(S) /\ Len(Append(s, m)) = Len(s) + 1
           /\ DOMAIN Append(s, m) = 1 .. Len(s) + 1 /\ DOMAIN s = 1 .. Len(s)
           /\ Append(s, m)[Len(s) + 1] = m
           /\ \A i \in 1 .. Len(s) : Append(s, m)[i] = s[i]
           /\ s # <<>> => /\ Tail(s) \in Seq(S) /\ Len(Tail(s)) = Len(s) - 1
                          /\ DOMAIN Tail(s) = 1 .. Len(s) - 1
                          /\ \A i \in 1 .. Len(s) - 1 : Tail(s)[i] = s[i + 1]
                          /\ Head(s) = s[1] /\ 1 \in DOMAIN s /\ Len(s) > 0
                          /\ Head(s) \in S
OBVIOUS

LEMMA TailIs ==
    ASSUME NEW S, NEW s \in Seq(S), s # <<>>
    PROVE  /\ Head(s) \in S /\ Tail(s) \in Seq(S) /\ Len(Tail(s)) < Len(s) /\ Len(s) \in Nat
           /\ Head(s) = s[1] /\ 1 \in DOMAIN s /\ Len(Tail(s)) \in Nat
           /\ \A i \in DOMAIN Tail(s) :
                i + 1 \in DOMAIN s /\ i \in Nat \ {0} /\ Tail(s)[i] = s[i + 1]
OBVIOUS

LEMMA NoneWaits == Len(<<>>) <= CHANNEL_CAPACITY
BY CapacityAssumption

\* What a broadcast does to the ring as one receiver sees it.
LEMMA BroadcastIs ==
    ASSUME TaskTypes, Phases, NEW m \in Message, Broadcast(m), NEW d \in Conns
    PROVE  /\ d \notin Receivers => inbox'[d] = inbox[d] /\ ~lost'[d]
           /\ lost[d] => lost'[d]
           /\ d \in Receivers =>
                IF Len(inbox[d]) = CHANNEL_CAPACITY
                THEN lost'[d] /\ inbox'[d] = Tail(Append(inbox[d], m))
                ELSE /\ inbox'[d] = Append(inbox[d], m)
                     /\ lost'[d] = lost[d]
<1>1. inbox[d] \in Seq(Message) /\ Len(inbox[d]) \in Nat /\ lost[d] \in BOOLEAN
  BY DEF TaskTypes
<1>2. Len(inbox[d]) <= CHANNEL_CAPACITY /\ (d \notin Receivers => ~lost[d])
  BY DEF Phases
<1>3. Latest(Append(inbox[d], m)) = IF Len(inbox[d]) = CHANNEL_CAPACITY
                                   THEN Tail(Append(inbox[d], m)) ELSE Append(inbox[d], m)
  <2>1. Len(Append(inbox[d], m)) = Len(inbox[d]) + 1
    BY <1>1
  <2> QED
    BY <2>1, <1>1, <1>2, CapacityAssumption DEF Latest
<1>4. /\ inbox'[d] = IF d \in Receivers THEN Latest(Append(inbox[d], m)) ELSE inbox[d]
      /\ lost'[d] = (lost[d] \/ (d \in Receivers /\ Len(inbox[d]) = CHANNEL_CAPACITY))
  BY DEF Broadcast
<1> QED
  BY <1>1, <1>2, <1>3, <1>4

\* What every broadcast keeps of the types and phases.
LEMMA BroadcastTypes ==
    ASSUME TaskTypes, Phases, NEW m \in Message, Broadcast(m)
    PROVE  /\ inbox' \in [Conns -> Seq(Message)] /\ lost' \in [Conns -> BOOLEAN]
           /\ \A d \in Conns : Len(inbox'[d]) <= CHANNEL_CAPACITY
           /\ \A d \in Conns : \A i \in DOMAIN inbox'[d] :
                inbox'[d][i] = m \/ \E j \in DOMAIN inbox[d] : inbox'[d][i] = inbox[d][j]
<1>1. lost' \in [Conns -> BOOLEAN] /\ DOMAIN inbox' = Conns
  BY DEF Broadcast, TaskTypes
<1>2. ASSUME NEW d \in Conns
      PROVE  /\ inbox'[d] \in Seq(Message) /\ Len(inbox'[d]) <= CHANNEL_CAPACITY
             /\ \A i \in DOMAIN inbox'[d] :
                  inbox'[d][i] = m \/ \E j \in DOMAIN inbox[d] : inbox'[d][i] = inbox[d][j]
  <2> DEFINE s == inbox[d]
             t == Append(s, m)
  <2>1. s \in Seq(Message) /\ Len(s) <= CHANNEL_CAPACITY /\ Len(s) \in Nat
    BY DEF TaskTypes, Phases
  <2>2. /\ t \in Seq(Message) /\ Len(t) = Len(s) + 1 /\ DOMAIN t = 1 .. Len(s) + 1
        /\ DOMAIN s = 1 .. Len(s) /\ t[Len(s) + 1] = m
        /\ \A i \in 1 .. Len(s) : t[i] = s[i]
    BY <2>1, Queues
  <2>3. /\ Tail(t) \in Seq(Message) /\ Len(Tail(t)) = Len(s)
        /\ DOMAIN Tail(t) = 1 .. Len(s)
        /\ \A i \in 1 .. Len(s) : Tail(t)[i] = t[i + 1]
    <3>1. t # <<>>
      BY <2>1, <2>2
    <3> HIDE DEF t
    <3> QED
      BY <3>1, <2>1, <2>2
  <2> HIDE DEF t
  <2>4. CASE inbox'[d] = s
    BY <2>1, <2>4
  <2>5. CASE inbox'[d] = t /\ Len(s) < CHANNEL_CAPACITY
    <3>1. Len(inbox'[d]) <= CHANNEL_CAPACITY
      BY <2>1, <2>2, <2>5, CapacityAssumption
    <3> QED
      BY <2>1, <2>2, <2>5, <3>1
  <2>6. CASE inbox'[d] = Tail(t)
    <3>1. ASSUME NEW i \in 1 .. Len(s)
          PROVE  Tail(t)[i] = m \/ \E j \in DOMAIN s : Tail(t)[i] = s[j]
      <4>1. CASE i = Len(s)
        BY <2>1, <2>2, <2>3, <4>1
      <4>2. CASE i # Len(s)
        <5>1. i + 1 \in 1 .. Len(s)
          BY <2>1, <4>2
        <5> QED
          BY <2>2, <2>3, <5>1
      <4> QED
        BY <4>1, <4>2
    <3> QED
      BY <2>1, <2>3, <2>6, <3>1
  <2>7. inbox'[d] \in {s, t, Tail(t)} /\ (inbox'[d] = t => inbox'[d] = s \/ inbox'[d] = Tail(t)
                                         \/ Len(s) < CHANNEL_CAPACITY)
    BY SMTT(30), BroadcastIs, <2>1, CapacityAssumption DEF t
  <2> QED
    BY <2>4, <2>5, <2>6, <2>7
<1> QED
  <2> DEFINE box == inbox'
  <2>1. DOMAIN box = Conns /\ (\A d \in Conns : box[d] \in Seq(Message))
    BY <1>1, <1>2
  <2>2. box = [d \in Conns |-> box[d]]
    BY <1>1 DEF Broadcast
  <2>3. box \in [Conns -> Seq(Message)]
    <3> HIDE DEF box
    <3> QED
      BY <2>1, <2>2
  <2> QED
    BY <1>1, <1>2, <2>3

-----------------------------------------------------------------------------
(* The steps, by what they do to the tasks and to the channel               *)

\* A handler goes on, but not past Subscribe and not out of drain.
GoesOn ==
    /\ pc' \in [Conns -> Labels]
    /\ \A d \in Conns : \/ pc'[d] = pc[d]
                        \/ pc[d] \in Early /\ pc'[d] \in Early \cup {"closed"}
                        \/ pc[d] \in Serving \ {"drain"} /\ pc'[d] \in Serving

Quiet == GoesOn /\ UNCHANGED <<chanVars, taskVars>>

Says(c, m) ==
    /\ m \in Message /\ m.kind # "answer" /\ m.from = c /\ Broadcast(m)
    /\ pc[c] \in Serving \ {"drain"} /\ GoesOn
    /\ m.kind = "peer_left" => pc'[c] = "drain"
    /\ IF m.kind = "signal" THEN m.n = said[c] + 1 /\ said' = [said EXCEPT ![c] = m.n]
                            ELSE said' = said
    /\ UNCHANGED taskVars

\* The steps that stay as they are.
TaskStep(c) ==
    \/ Subscribe(c) \/ Answer(c) \/ RelayAborted(c) \/ Finish(c) \/ RelayRecv(c) \/ RelayLag(c)
    \/ RelayForward(c) \/ RelayBroken(c) \/ Write(c) \/ WriteFail(c) \/ WriterDone(c)

LEMMA GotoIs ==
    ASSUME TaskTypes, NEW c \in Conns, NEW label \in Labels, Goto(c, label),
           \/ pc[c] \in Early /\ label \in Early \cup {"closed"}
           \/ pc[c] \in Serving \ {"drain"} /\ label \in Serving
    PROVE  GoesOn /\ pc'[c] = label
BY DEF TaskTypes, Goto, GoesOn

LEMMA StepKinds ==
    ASSUME TaskTypes, Next
    PROVE  \/ Quiet
           \/ \E c \in Conns, m \in Message : Says(c, m)
           \/ \E c \in Conns : TaskStep(c)
<1>1. PICK c \in Conns : \/ Connect(c) \/ Handshake(c) \/ Loop(c) \/ Answer(c) \/ AnswerFail(c)
                        \/ EndLoop(c) \/ WayOut(c) \/ Relay(c) \/ Writer(c) \/ SockDown(c)
  BY DEF Next
<1> USE DEF Early, Serving, Labels
<1>2. CASE Connect(c)
  BY <1>2, GotoIs DEF Connect, Quiet
<1>3. CASE Refuse(c)
  BY <1>3, GotoIs DEF Refuse, Ends, Quiet
<1>4. CASE Reject(c)
  BY <1>4, GotoIs DEF Reject, Ends, Quiet
<1>5. CASE \E polite \in BOOLEAN : Join(c, polite)
  BY <1>5, GotoIs DEF Join, Quiet
<1>6. CASE AckOk(c)
  BY <1>6, GotoIs DEF AckOk, Quiet
<1>7. CASE AckFail(c)
  BY <1>7, GotoIs DEF AckFail, Ends, Quiet
<1>8. CASE Query(c)
  BY <1>8, GotoIs DEF Query, Quiet
<1>9. CASE AnswerFail(c)
  BY <1>9, GotoIs DEF AnswerFail, Quiet
<1>10. CASE EndLoop(c)
  BY <1>10, GotoIs DEF EndLoop, Quiet
<1>11. CASE Leave(c)
  BY <1>11, GotoIs DEF Leave, Quiet
<1>12. CASE SockDown(c)
  BY <1>12 DEF SockDown, Quiet, GoesOn, TaskTypes
<1>13. CASE Announce(c)
  <2>1. Msg("peer_joined", c, 0) \in Message
    BY DEF Msg, Message
  <2>2. Says(c, Msg("peer_joined", c, 0))
    BY <1>13, <2>1, GotoIs DEF Announce, Says, Msg
  <2> QED
    BY <2>1, <2>2
<1>14. CASE Signal(c)
  <2> DEFINE m == Msg("signal", c, said[c] + 1)
  <2>1. m \in Message /\ said[c] \in Nat
    BY DEF Msg, Message, TaskTypes
  <2>2. /\ pc[c] = "in_call" /\ said' = [said EXCEPT ![c] = said[c] + 1] /\ Broadcast(m)
        /\ pc' = pc /\ UNCHANGED taskVars
    BY <1>14 DEF Signal
  <2>3. GoesOn
    BY <2>2 DEF GoesOn, TaskTypes
  <2>4. Says(c, m)
    BY <2>1, <2>2, <2>3 DEF Says, Msg
  <2> QED
    BY <2>1, <2>4
<1>15. CASE Farewell(c)
  <2>1. Msg("peer_left", c, 0) \in Message
    BY DEF Msg, Message
  <2>2. Says(c, Msg("peer_left", c, 0))
    BY <1>15, <2>1, GotoIs DEF Farewell, Says, Msg
  <2> QED
    BY <2>1, <2>2
<1> QED
  BY <1>1, <1>2, <1>3, <1>4, <1>5, <1>6, <1>7, <1>8, <1>9, <1>10, <1>11, <1>12, <1>13, <1>14, <1>15
  DEF Handshake, Loop, WayOut, Relay, Writer, TaskStep

\* A connection's tasks touch nothing of another connection.
LEMMA TaskElsewhere ==
    ASSUME TaskTypes, NEW d \in Conns, TaskStep(d), NEW c \in Conns \ {d}
    PROVE  /\ writer'[c] = writer[c] /\ fwd'[c] = fwd[c] /\ heard'[c] = heard[c]
           /\ relay'[c] = relay[c] /\ held'[c] = held[c] /\ inbox'[c] = inbox[c]
           /\ lost'[c] = lost[c] /\ byes'[c] = byes[c] /\ said' = said
<1> USE DEF TaskTypes
<1>1. CASE Subscribe(d)
  BY <1>1 DEF Subscribe, Goto, chanVars
<1>2. CASE Answer(d)
  BY <1>2 DEF Answer, Goto, chanVars, wireVars
<1>3. CASE RelayAborted(d)
  BY <1>3 DEF RelayAborted, Unsubscribe, wireVars
<1>4. CASE Finish(d)
  BY <1>4 DEF Finish, Unsubscribe, Ends, Goto
<1>5. CASE RelayRecv(d)
  BY <1>5 DEF RelayRecv, wireVars
<1>6. CASE RelayLag(d)
  BY <1>6 DEF RelayLag, Unsubscribe, wireVars
<1>7. CASE RelayForward(d)
  BY <1>7 DEF RelayForward, chanVars, wireVars
<1>8. CASE RelayBroken(d)
  BY <1>8 DEF RelayBroken, Unsubscribe, wireVars
<1>9. CASE Write(d)
  BY <1>9 DEF Write, chanVars
<1>10. CASE WriteFail(d)
  BY <1>10 DEF WriteFail, chanVars, wireVars
<1>11. CASE WriterDone(d)
  BY <1>11 DEF WriterDone, chanVars, wireVars
<1> QED
  BY <1>1, <1>2, <1>3, <1>4, <1>5, <1>6, <1>7, <1>8, <1>9, <1>10, <1>11 DEF TaskStep

\* They change where its handler stands at three places only, and its relay is
\* off again only when the handler ends.
LEMMA TaskPcs ==
    ASSUME TaskTypes, NEW d \in Conns, TaskStep(d), NEW c \in Conns
    PROVE  /\ pc'[c] = pc[c] \/ pc[c] \in {"acked", "answer"} \/ pc'[c] = "closed"
           /\ relay[c] # "off" => relay'[c] # "off" \/ pc'[c] = "closed"
<1> USE DEF TaskTypes
<1>1. CASE Subscribe(d)
  BY <1>1 DEF Subscribe, Goto
<1>2. CASE Answer(d)
  BY <1>2 DEF Answer, Goto
<1>3. CASE RelayAborted(d)
  BY <1>3 DEF RelayAborted
<1>4. CASE Finish(d)
  BY <1>4 DEF Finish, Ends, Goto
<1>5. CASE RelayRecv(d)
  BY <1>5 DEF RelayRecv
<1>6. CASE RelayLag(d)
  BY <1>6 DEF RelayLag
<1>7. CASE RelayForward(d)
  BY <1>7 DEF RelayForward
<1>8. CASE RelayBroken(d)
  BY <1>8 DEF RelayBroken
<1>9. CASE Write(d)
  BY <1>9 DEF Write
<1>10. CASE WriteFail(d)
  BY <1>10 DEF WriteFail
<1>11. CASE WriterDone(d)
  BY <1>11 DEF WriterDone
<1> QED
  BY <1>1, <1>2, <1>3, <1>4, <1>5, <1>6, <1>7, <1>8, <1>9, <1>10, <1>11 DEF TaskStep

-----------------------------------------------------------------------------
\* Types and phases are kept by what a handler does and says.
LEMMA QuietTaskInv ==
    ASSUME TaskInv, Quiet
    PROVE  TaskInv'
<1> USE DEF Early, Serving, Labels
<1>1. TaskTypes'
  BY DEF TaskInv, TaskTypes, Quiet, GoesOn, chanVars, taskVars, wireVars
<1>2. Phases'
  BY DEF TaskInv, TaskTypes, Phases, Quiet, GoesOn, chanVars, taskVars, wireVars, Receivers
<1>3. OthersOnly'
  BY DEF TaskInv, OthersOnly, Quiet, GoesOn, chanVars, taskVars, wireVars
<1> QED
  BY <1>1, <1>2, <1>3 DEF TaskInv

LEMMA SaysTaskInv ==
    ASSUME TaskInv, NEW c \in Conns, NEW m \in Message, Says(c, m)
    PROVE  TaskInv'
<1> USE DEF Early, Serving, Labels
<1>1. /\ Broadcast(m) /\ TaskTypes /\ Phases /\ OthersOnly /\ GoesOn /\ UNCHANGED taskVars
      /\ m.kind # "answer"
  BY DEF Says, TaskInv
<1>2. /\ inbox' \in [Conns -> Seq(Message)] /\ lost' \in [Conns -> BOOLEAN]
      /\ \A d \in Conns : Len(inbox'[d]) <= CHANNEL_CAPACITY
      /\ \A d \in Conns : \A i \in DOMAIN inbox'[d] :
            inbox'[d][i] = m \/ \E j \in DOMAIN inbox[d] : inbox'[d][i] = inbox[d][j]
  BY <1>1, BroadcastTypes
<1>3. said' \in [Conns -> Nat]
  BY <1>1 DEF Says, Message, TaskTypes
<1>4. TaskTypes'
  BY <1>1, <1>2, <1>3 DEF TaskTypes, GoesOn, taskVars, wireVars
<1>5. Phases'
  <2>1. \A d \in Conns : d \notin Receivers => inbox'[d] = inbox[d] /\ ~lost'[d]
    BY <1>1, BroadcastIs
  <2> QED
    BY <1>1, <1>2, <2>1 DEF TaskTypes, Phases, GoesOn, taskVars, wireVars, Receivers
<1>6. OthersOnly'
  BY <1>1, <1>2 DEF OthersOnly, taskVars, wireVars
<1> QED
  BY <1>4, <1>5, <1>6 DEF TaskInv

LEMMA StepTaskInv ==
    ASSUME TaskInv, NEW c \in Conns, TaskStep(c)
    PROVE  TaskInv'
<1> USE DEF TaskInv, TaskTypes, Early, Serving, Labels
<1>1. CASE Subscribe(c)
  BY <1>1 DEF Phases, OthersOnly, Receivers, Subscribe, Goto, slotVars, chanVars
<1>2. CASE Answer(c)
  <2> DEFINE m == Msg("answer", c, 0)
  <2>1. m \in Message /\ m.kind = "answer"
    BY DEF Msg, Message
  <2>2. /\ fwd' = [fwd EXCEPT ![c] = Append(fwd[c], m)] /\ pc[c] = "answer"
        /\ pc' = [pc EXCEPT ![c] = "in_call"] /\ writer[c] = "run"
        /\ UNCHANGED <<chanVars, relay, held, writer, wireVars>>
    BY <1>2 DEF Answer, Goto
  <2> HIDE DEF m
  <2>3. TaskTypes'
    BY <2>1, <2>2, Queues DEF chanVars, wireVars
  <2>4. Phases'
    BY <2>2 DEF Phases, Receivers, chanVars, wireVars
  <2>5. OthersOnly'
    BY <2>1, <2>2, Queues DEF OthersOnly, chanVars, wireVars
  <2> QED
    BY <2>3, <2>4, <2>5
<1>3. CASE RelayAborted(c)
  <2>1. TaskTypes'
    BY <1>3 DEF Phases, RelayAborted, Unsubscribe, wireVars
  <2>2. Phases'
    BY <1>3, NoneWaits DEF Phases, Receivers, RelayAborted, Unsubscribe, wireVars
  <2>3. OthersOnly'
    BY <1>3 DEF OthersOnly, Phases, RelayAborted, Unsubscribe, wireVars
  <2> QED
    BY <2>1, <2>2, <2>3
<1>4. CASE Finish(c)
  <2>1. TaskTypes'
    BY <1>4 DEF Phases, Finish, Ends, Goto, Unsubscribe
  <2>2. Phases'
    BY <1>4, NoneWaits DEF Phases, Receivers, Finish, Ends, Goto, Unsubscribe
  <2>3. OthersOnly'
    BY <1>4 DEF OthersOnly, Phases, Finish, Ends, Goto, Unsubscribe
  <2> QED
    BY <2>1, <2>2, <2>3
<1>5. CASE RelayRecv(c)
  <2> DEFINE m == Head(inbox[c])
             rest == Tail(inbox[c])
  <2>1. /\ m \in Message /\ rest \in Seq(Message) /\ Len(rest) <= CHANNEL_CAPACITY
        /\ m.kind # "answer" /\ \A i \in DOMAIN rest : rest[i].kind # "answer"
    <3>1. inbox[c] \in Seq(Message) /\ inbox[c] # <<>> /\ Len(inbox[c]) <= CHANNEL_CAPACITY
      BY <1>5 DEF RelayRecv, Phases
    <3>2. \A i \in DOMAIN inbox[c] : inbox[c][i].kind # "answer"
      BY DEF OthersOnly
    <3> QED
      BY <3>1, <3>2, TailIs, CapacityAssumption
  <2>2. /\ inbox' = [inbox EXCEPT ![c] = rest] /\ relay[c] = "run"
        /\ \/ m.from = c /\ UNCHANGED <<relay, held>>
           \/ /\ m.from # c
              /\ relay' = [relay EXCEPT ![c] = "hold"]
              /\ held' = [held EXCEPT ![c] = m]
        /\ UNCHANGED <<pc, lost, said, fwd, writer, wireVars>>
    BY <1>5 DEF RelayRecv, Echo
  <2> HIDE DEF m, rest
  <2>3. TaskTypes'
    <3>1. inbox' \in [Conns -> Seq(Message)]
      BY <2>1, <2>2
    <3>3. relay' \in [Conns -> {"off", "run", "hold", "lagged", "stopped"}]
      <4>1. relay' = relay \/ relay' = [relay EXCEPT ![c] = "hold"]
        BY <2>2
      <4> QED
        BY <4>1
    <3>2. held' \in [Conns -> Message \cup {NoMsg}]
      <4>1. held \in [Conns -> Message \cup {NoMsg}] /\ m \in Message \cup {NoMsg}
        BY <2>1
      <4>2. held' = held \/ held' = [held EXCEPT ![c] = m]
        BY <2>2
      <4> QED
        BY <4>1, <4>2
    <3> QED
      BY <2>2, <3>1, <3>2, <3>3 DEF wireVars
  <2>4. Phases'
    BY <2>1, <2>2 DEF Phases, Receivers, wireVars
  <2>5. OthersOnly'
    BY <2>1, <2>2 DEF OthersOnly, wireVars
  <2> QED
    BY <2>3, <2>4, <2>5
<1>6. CASE RelayLag(c)
  <2>1. TaskTypes'
    BY <1>6 DEF Phases, RelayLag, Unsubscribe, wireVars
  <2>2. Phases'
    BY <1>6, NoneWaits DEF Phases, Receivers, RelayLag, Unsubscribe, wireVars
  <2>3. OthersOnly'
    BY <1>6 DEF OthersOnly, Phases, RelayLag, Unsubscribe, wireVars
  <2> QED
    BY <2>1, <2>2, <2>3
<1>7. CASE RelayForward(c)
  <2>1. TaskTypes'
    BY Queues, <1>7 DEF Phases, RelayForward, chanVars, wireVars
  <2>2. Phases'
    BY Queues, <1>7 DEF Phases, Receivers, RelayForward, chanVars, wireVars
  <2>3. OthersOnly'
    BY Queues, <1>7 DEF OthersOnly, Phases, RelayForward, chanVars, wireVars
  <2> QED
    BY <2>1, <2>2, <2>3
<1>8. CASE RelayBroken(c)
  <2>1. TaskTypes'
    BY <1>8 DEF Phases, RelayBroken, Unsubscribe, wireVars
  <2>2. Phases'
    BY <1>8, NoneWaits DEF Phases, Receivers, RelayBroken, Unsubscribe, wireVars
  <2>3. OthersOnly'
    BY <1>8 DEF OthersOnly, Phases, RelayBroken, Unsubscribe, wireVars
  <2> QED
    BY <2>1, <2>2, <2>3
<1>9. CASE Write(c)
  <2> DEFINE m == Head(fwd[c])
             rest == Tail(fwd[c])
  <2>1. /\ m \in Message /\ rest \in Seq(Message) /\ (m.kind = "answer" \/ m.from # c)
        /\ \A i \in DOMAIN rest : rest[i].kind = "answer" \/ rest[i].from # c
    <3>1. fwd[c] \in Seq(Message) /\ fwd[c] # <<>>
      BY <1>9 DEF Write
    <3>2. \A i \in DOMAIN fwd[c] : fwd[c][i].kind = "answer" \/ fwd[c][i].from # c
      BY DEF OthersOnly
    <3> QED
      BY <3>1, <3>2, TailIs
  <2>2. /\ fwd' = [fwd EXCEPT ![c] = rest] /\ writer[c] = "run"
        /\ heard' = IF m.kind = "signal" THEN [heard EXCEPT ![c][m.from] = m.n] ELSE heard
        /\ byes' = IF m.kind = "peer_left" THEN [byes EXCEPT ![c] = @ \cup {m.from}] ELSE byes
        /\ UNCHANGED <<pc, chanVars, relay, held, writer>>
    BY <1>9 DEF Write
  <2>3. m.from \in Conns /\ m.n \in Nat
    BY <2>1 DEF Message
  <2> HIDE DEF m, rest
  <2>4. TaskTypes'
    <3>1. heard' \in [Conns -> [Conns -> Nat]]
      BY <2>2, <2>3
    <3>2. byes' \in [Conns -> SUBSET Conns]
      BY <2>2, <2>3
    <3> QED
      BY <2>1, <2>2, <3>1, <3>2 DEF chanVars
  <2>5. Phases'
    BY <2>2 DEF Phases, Receivers, chanVars
  <2>6. OthersOnly'
    BY <2>1, <2>2 DEF OthersOnly, chanVars
  <2> QED
    BY <2>4, <2>5, <2>6
<1>10. CASE WriteFail(c)
  <2>1. TaskTypes'
    BY <1>10 DEF Phases, WriteFail, chanVars, wireVars
  <2>2. Phases'
    BY <1>10 DEF Phases, Receivers, WriteFail, chanVars, wireVars
  <2>3. OthersOnly'
    BY <1>10 DEF OthersOnly, Phases, WriteFail, chanVars, wireVars
  <2> QED
    BY <2>1, <2>2, <2>3
<1>11. CASE WriterDone(c)
  BY <1>11 DEF Phases, OthersOnly, Receivers, WriterDone, chanVars, wireVars
<1> QED
  BY <1>1, <1>2, <1>3, <1>4, <1>5, <1>6, <1>7, <1>8, <1>9, <1>10, <1>11 DEF TaskStep

-----------------------------------------------------------------------------
(* No gaps                                                                 *)

SignalOf(m, p) == m.kind = "signal" /\ m.from = p

\* The signals of p in s are numbered after + 1, ..., upto, in this order.
Run(s, p, after, upto) ==
    /\ after <= upto
    /\ \A i \in DOMAIN s : SignalOf(s[i], p) => s[i].n \in after + 1 .. upto
    /\ \A n \in after + 1 .. upto : \E i \in DOMAIN s : SignalOf(s[i], p) /\ s[i].n = n
    /\ \A i, j \in DOMAIN s : i < j /\ SignalOf(s[i], p) /\ SignalOf(s[j], p) => s[i].n < s[j].n

\* What c is still to hear of p, in the queue, in the hands of the relay and in
\* the channel, goes on from what it has heard, up to what p has said unless
\* the relay is to lag or has ended.
Continues(c, p, a, b) ==
    /\ Run(fwd[c], p, heard[c][p], a)
    /\ IF relay[c] = "hold" /\ SignalOf(held[c], p) THEN b = a + 1 /\ held[c].n = b ELSE b = a
    /\ c \in Receivers /\ ~lost[c] => Run(inbox[c], p, b, said[p])

InOrder == \A c, p \in Conns :
    c # p /\ writer[c] = "run" => \E a, b \in Nat : Continues(c, p, a, b)

LEMMA RunEmpty ==
    ASSUME NEW p, NEW n \in Nat
    PROVE  Run(<<>>, p, n, n)
BY DEF Run

LEMMA RunAppend ==
    ASSUME NEW s \in Seq(Message), NEW m \in Message, NEW p, NEW a \in Nat, NEW b \in Nat,
           Run(s, p, a, b)
    PROVE  /\ ~SignalOf(m, p) => Run(Append(s, m), p, a, b)
           /\ SignalOf(m, p) /\ m.n = b + 1 => Run(Append(s, m), p, a, b + 1)
<1> DEFINE t == Append(s, m)
<1>1. /\ DOMAIN t = 1 .. Len(s) + 1 /\ DOMAIN s = 1 .. Len(s) /\ Len(s) \in Nat
      /\ t[Len(s) + 1] = m /\ \A i \in 1 .. Len(s) : t[i] = s[i]
  BY Queues
<1> HIDE DEF t
<1>2. ASSUME ~SignalOf(m, p) PROVE Run(t, p, a, b)
  <2>1. \A i \in DOMAIN t : SignalOf(t[i], p) => i \in DOMAIN s /\ t[i] = s[i]
    BY <1>1, <1>2
  <2>2. \A i \in DOMAIN s : i \in DOMAIN t /\ t[i] = s[i]
    BY <1>1
  <2> QED
    BY <2>1, <2>2 DEF Run
<1>3. ASSUME SignalOf(m, p), m.n = b + 1 PROVE Run(t, p, a, b + 1)
  <2>1. \A i \in DOMAIN t : \/ i \in DOMAIN s /\ t[i] = s[i] /\ i < Len(s) + 1
                            \/ i = Len(s) + 1 /\ t[i] = m
    BY <1>1
  <2>2. \A i \in DOMAIN s : i \in DOMAIN t /\ t[i] = s[i] /\ i \in Nat
    BY <1>1
  <2>3. Len(s) + 1 \in DOMAIN t /\ t[Len(s) + 1] = m
    BY <1>1
  <2>4. a <= b + 1
    BY DEF Run
  <2>5. \A i \in DOMAIN t : SignalOf(t[i], p) => t[i].n \in a + 1 .. b + 1
    BY <2>1, <1>3 DEF Run
  <2>6. \A n \in a + 1 .. b + 1 : \E i \in DOMAIN t : SignalOf(t[i], p) /\ t[i].n = n
    <3> TAKE n \in a + 1 .. b + 1
    <3>1. n \in a + 1 .. b \/ n = b + 1
      OBVIOUS
    <3> QED
      BY <3>1, <2>2, <2>3, <1>3 DEF Run
  <2>7. \A i, j \in DOMAIN t : i < j /\ SignalOf(t[i], p) /\ SignalOf(t[j], p) => t[i].n < t[j].n
    <3> SUFFICES ASSUME NEW i \in DOMAIN t, NEW j \in DOMAIN t, i < j,
                        SignalOf(t[i], p), SignalOf(t[j], p)
                 PROVE  t[i].n < t[j].n
      OBVIOUS
    <3>1. i \in DOMAIN s /\ t[i] = s[i]
      BY <2>1, <1>1
    <3>2. t[i].n \in a + 1 .. b
      BY <3>1 DEF Run
    <3> QED
      BY <2>1, <3>1, <3>2, <1>3 DEF Run
  <2> QED
    BY <2>4, <2>5, <2>6, <2>7 DEF Run
<1> QED
  BY <1>2, <1>3 DEF t

LEMMA RunTail ==
    ASSUME NEW s \in Seq(Message), NEW p, NEW a \in Nat, NEW b \in Nat, Run(s, p, a, b), s # <<>>
    PROVE  /\ ~SignalOf(Head(s), p) => Run(Tail(s), p, a, b)
           /\ SignalOf(Head(s), p) => Head(s).n = a + 1 /\ Run(Tail(s), p, a + 1, b)
<1> DEFINE t == Tail(s)
           m == Head(s)
<1>1. /\ m = s[1] /\ 1 \in DOMAIN s
      /\ \A i \in DOMAIN s : i \in Nat /\ (i = 1 \/ i - 1 \in DOMAIN t)
      /\ \A i \in DOMAIN t : i + 1 \in DOMAIN s /\ t[i] = s[i + 1] /\ i \in Nat \ {0}
  <2>1. DOMAIN s = 1 .. Len(s) /\ DOMAIN t = 1 .. Len(s) - 1 /\ Len(s) \in Nat
    OBVIOUS
  <2>2. \A i \in DOMAIN s : i \in Nat /\ (i = 1 \/ i - 1 \in DOMAIN t)
    BY <2>1
  <2> QED
    BY TailIs, <2>2
<1>2. \A i \in DOMAIN s : i = 1 \/ t[i - 1] = s[i]
  BY <1>1
<1>3. \A i \in DOMAIN s : s[i].n \in Nat
  <2>1. \A i \in DOMAIN s : s[i] \in Message
    OBVIOUS
  <2> QED
    BY <2>1 DEF Message
<1> HIDE DEF t, m
<1>4. ASSUME ~SignalOf(m, p) PROVE Run(t, p, a, b)
  <2>1. \A n \in a + 1 .. b : \E i \in DOMAIN t : SignalOf(t[i], p) /\ t[i].n = n
    <3> TAKE n \in a + 1 .. b
    <3>1. PICK i \in DOMAIN s : SignalOf(s[i], p) /\ s[i].n = n
      BY DEF Run
    <3>2. i # 1
      BY <1>1, <1>4, <3>1
    <3> QED
      BY <1>1, <1>2, <3>1, <3>2
  <2>2. \A i, j \in DOMAIN t : i < j => i + 1 < j + 1
    BY <1>1
  <2>3. \A i \in DOMAIN t : SignalOf(t[i], p) => t[i].n \in a + 1 .. b
    BY <1>1 DEF Run
  <2>4. \A i, j \in DOMAIN t : i < j /\ SignalOf(t[i], p) /\ SignalOf(t[j], p) => t[i].n < t[j].n
    BY <1>1, <2>2 DEF Run
  <2> QED
    BY <2>1, <2>3, <2>4 DEF Run
<1>5. ASSUME SignalOf(m, p) PROVE m.n = a + 1 /\ Run(t, p, a + 1, b)
  <2>1. s[1].n \in a + 1 .. b /\ a + 1 <= b
    BY <1>1, <1>5 DEF Run
  <2>2. \A i \in DOMAIN s : i # 1 /\ SignalOf(s[i], p) => s[1].n < s[i].n
    <3> SUFFICES ASSUME NEW i \in DOMAIN s, i # 1, SignalOf(s[i], p)
                 PROVE  s[1].n < s[i].n
      OBVIOUS
    <3>1. 1 < i
      BY <1>1
    <3> QED
      BY <3>1, <1>1, <1>5 DEF Run
  <2>3. s[1].n = a + 1
    <3>1. PICK i \in DOMAIN s : SignalOf(s[i], p) /\ s[i].n = a + 1
      BY <2>1 DEF Run
    <3> QED
      BY <3>1, <2>1, <2>2, <1>3
  <2>4. \A n \in a + 2 .. b : \E i \in DOMAIN t : SignalOf(t[i], p) /\ t[i].n = n
    <3> TAKE n \in a + 2 .. b
    <3>1. PICK i \in DOMAIN s : SignalOf(s[i], p) /\ s[i].n = n
      BY DEF Run
    <3>2. i # 1
      BY <2>3, <3>1
    <3> QED
      BY <1>1, <1>2, <3>1, <3>2
  <2>5. \A i \in DOMAIN t : SignalOf(t[i], p) => t[i].n \in a + 2 .. b
    <3> SUFFICES ASSUME NEW i \in DOMAIN t, SignalOf(t[i], p) PROVE t[i].n \in a + 2 .. b
      OBVIOUS
    <3>1. i + 1 \in DOMAIN s /\ i + 1 # 1 /\ t[i] = s[i + 1]
      BY <1>1
    <3>2. s[i + 1].n \in a + 1 .. b /\ s[1].n < s[i + 1].n
      BY <3>1, <2>2 DEF Run
    <3> QED
      BY <3>1, <3>2, <2>3
  <2>6. \A i, j \in DOMAIN t : i < j /\ SignalOf(t[i], p) /\ SignalOf(t[j], p) => t[i].n < t[j].n
    <3>1. \A i, j \in DOMAIN t : i < j => i + 1 < j + 1
      BY <1>1
    <3> QED
      BY <1>1, <3>1 DEF Run
  <2>7. (a + 1) + 1 = a + 2
    OBVIOUS
  <2> QED
    BY <1>1, <2>1, <2>3, <2>4, <2>5, <2>6, <2>7 DEF Run
<1> QED
  BY <1>4, <1>5 DEF t, m

\* A step that leaves what there is between p and c as it is.
LEMMA SameInOrder ==
    ASSUME NEW c \in Conns, NEW p \in Conns,
           writer[c] = "run" => \E a, b \in Nat : Continues(c, p, a, b),
           writer'[c] = writer[c], fwd'[c] = fwd[c], heard'[c][p] = heard[c][p],
           relay'[c] = relay[c], held'[c] = held[c], inbox'[c] = inbox[c], lost'[c] = lost[c],
           said'[p] = said[p]
    PROVE  writer'[c] = "run" => \E a, b \in Nat : Continues(c, p, a, b)'
BY DEF Continues, Receivers

LEMMA QuietInOrder ==
    ASSUME InOrder, Quiet
    PROVE  InOrder'
<1> SUFFICES ASSUME NEW c \in Conns, NEW p \in Conns, c # p
             PROVE  writer'[c] = "run" => \E a, b \in Nat : Continues(c, p, a, b)'
  BY DEF InOrder
<1>1. writer[c] = "run" => \E a, b \in Nat : Continues(c, p, a, b)
  BY DEF InOrder
<1>2. /\ writer'[c] = writer[c] /\ fwd'[c] = fwd[c] /\ heard'[c][p] = heard[c][p]
      /\ relay'[c] = relay[c] /\ held'[c] = held[c] /\ inbox'[c] = inbox[c]
      /\ lost'[c] = lost[c] /\ said'[p] = said[p]
  BY DEF Quiet, chanVars, taskVars, wireVars
<1> QED
  BY <1>1, <1>2, SameInOrder

LEMMA SaysInOrder ==
    ASSUME TaskInv, InOrder, NEW s \in Conns, NEW m \in Message, Says(s, m)
    PROVE  InOrder'
<1>1. /\ Broadcast(m) /\ TaskTypes /\ Phases /\ UNCHANGED taskVars /\ m.from = s
      /\ said' = IF m.kind = "signal" THEN [said EXCEPT ![s] = m.n] ELSE said
      /\ m.kind = "signal" => m.n = said[s] + 1
  BY DEF Says, TaskInv
<1> SUFFICES ASSUME NEW c \in Conns, NEW p \in Conns, c # p, writer'[c] = "run"
             PROVE  \E a, b \in Nat : Continues(c, p, a, b)'
  BY DEF InOrder
<1>2. writer[c] = "run"
  BY <1>1 DEF taskVars
<1>3. PICK a \in Nat, b \in Nat : Continues(c, p, a, b)
  BY <1>2 DEF InOrder
<1>4. said'[p] = IF SignalOf(m, p) THEN m.n ELSE said[p]
  BY <1>1 DEF SignalOf, TaskTypes
<1>5. SignalOf(m, p) => m.n = said[p] + 1
  BY <1>1 DEF SignalOf
<1>6. /\ Run(fwd'[c], p, heard'[c][p], a)
      /\ IF relay'[c] = "hold" /\ SignalOf(held'[c], p) THEN b = a + 1 /\ held'[c].n = b ELSE b = a
      /\ c \in Receivers' <=> c \in Receivers
  BY <1>1, <1>3 DEF Continues, Receivers, taskVars, wireVars
<1>7. ASSUME c \in Receivers, ~lost'[c]
      PROVE  Run(inbox'[c], p, b, said'[p])
  <2>1. ~lost[c] /\ inbox'[c] = Append(inbox[c], m)
    BY <1>1, <1>7, BroadcastIs
  <2>2. Run(inbox[c], p, b, said[p]) /\ inbox[c] \in Seq(Message) /\ said[p] \in Nat
    BY <1>1, <1>3, <1>7, <2>1 DEF Continues, TaskTypes
  <2> QED
    BY <1>4, <1>5, <2>1, <2>2, RunAppend
<1>8. Continues(c, p, a, b)'
  BY <1>6, <1>7 DEF Continues
<1> QED
  BY <1>8

LEMMA StepInOrder ==
    ASSUME TaskInv, TaskInv', InOrder, NEW d \in Conns, TaskStep(d)
    PROVE  InOrder'
<1> SUFFICES ASSUME NEW c \in Conns, NEW p \in Conns, c # p, writer'[c] = "run"
             PROVE  \E a, b \in Nat : Continues(c, p, a, b)'
  BY DEF InOrder
<1>1. TaskTypes /\ Phases /\ OthersOnly
  BY DEF TaskInv
<1>2. writer[c] = "run" => \E a, b \in Nat : Continues(c, p, a, b)
  BY DEF InOrder
<1>3. CASE c # d
  <2>1. /\ writer'[c] = writer[c] /\ fwd'[c] = fwd[c] /\ heard'[c] = heard[c]
        /\ relay'[c] = relay[c] /\ held'[c] = held[c] /\ inbox'[c] = inbox[c]
        /\ lost'[c] = lost[c] /\ said' = said
    BY <1>1, <1>3, TaskElsewhere
  <2> QED
    BY <1>2, <2>1, SameInOrder
<1>4. CASE c = d
  <2>0. /\ inbox[c] \in Seq(Message) /\ fwd[c] \in Seq(Message)
        /\ said[p] \in Nat /\ heard[c][p] \in Nat
    BY <1>1 DEF TaskTypes
  <2>1. CASE Subscribe(c)
    <3>1. /\ writer[c] = "off" /\ heard' = [heard EXCEPT ![c] = said] /\ pc[c] = "acked"
          /\ relay' = [relay EXCEPT ![c] = "run"]
          /\ UNCHANGED <<fwd, inbox, lost, said>>
      BY <1>1, <2>1 DEF Subscribe, Phases, Early, chanVars
    <3>2. fwd'[c] = <<>> /\ inbox'[c] = <<>> /\ heard'[c][p] = said[p] /\ relay'[c] = "run"
      BY <1>1, <3>1 DEF Phases, TaskTypes, Receivers
    <3>3. PICK n \in Nat : n = said[p]
      BY <2>0
    <3>4. Run(<<>>, p, n, n) /\ said'[p] = n
      BY <3>1, <3>3, RunEmpty
    <3>5. Continues(c, p, n, n)'
      BY <3>2, <3>3, <3>4 DEF Continues
    <3> QED
      BY <3>5
  <2>2. CASE Finish(c) \/ WriteFail(c) \/ WriterDone(c)
    <3>1. writer'[c] # "run"
      BY <1>1, <2>2 DEF TaskTypes, Finish, WriteFail, WriterDone
    <3> QED
      BY <3>1
  <2>3. \/ writer[c] = "run" \/ Subscribe(c) \/ Finish(c) \/ WriteFail(c) \/ WriterDone(c)
    BY <1>4 DEF TaskStep, Answer, RelayAborted, RelayRecv, RelayLag, RelayForward, RelayBroken,
       Write
  <2>4. ASSUME NEW a \in Nat, NEW b \in Nat, Continues(c, p, a, b), writer[c] = "run"
        PROVE  \/ \E a1, b1 \in Nat : Continues(c, p, a1, b1)'
               \/ Subscribe(c) \/ Finish(c) \/ WriteFail(c) \/ WriterDone(c)
    <3>1. CASE Answer(c)
      <4> DEFINE m == Msg("answer", c, 0)
      <4>1. fwd'[c] = Append(fwd[c], m) /\ UNCHANGED <<chanVars, relay, held, wireVars>>
        BY <1>1, <3>1 DEF Answer, TaskTypes
      <4>2. m \in Message /\ ~SignalOf(m, p)
        BY DEF Msg, Message, SignalOf
      <4>3. Run(fwd'[c], p, heard'[c][p], a)
        BY <2>0, <2>4, <4>1, <4>2, RunAppend DEF Continues, wireVars
      <4>4. Continues(c, p, a, b)'
        BY <2>4, <4>1, <4>3 DEF Continues, Receivers, chanVars
      <4> QED
        BY <4>4
    <3>2. CASE RelayAborted(c) \/ RelayLag(c)
      <4>1. /\ relay'[c] \in {"stopped", "lagged"} /\ UNCHANGED <<fwd, wireVars>>
        BY <1>1, <3>2 DEF RelayAborted, RelayLag, TaskTypes
      <4>2. Continues(c, p, a, a)'
        BY <2>4, <4>1 DEF Continues, Receivers, wireVars
      <4> QED
        BY <4>2
    <3>3. CASE RelayRecv(c)
      <4> DEFINE m == Head(inbox[c])
      <4>1. /\ relay[c] = "run" /\ inbox[c] # <<>> /\ ~lost[c] /\ inbox'[c] = Tail(inbox[c])
            /\ \/ m.from = c /\ UNCHANGED <<relay, held>>
               \/ relay'[c] = "hold" /\ held'[c] = m
            /\ UNCHANGED <<lost, said, fwd, wireVars>>
        BY <1>1, <3>3 DEF RelayRecv, Echo, TaskTypes
      <4>2. b = a /\ Run(inbox[c], p, b, said[p]) /\ Run(fwd[c], p, heard[c][p], a)
        BY <2>4, <4>1 DEF Continues, Receivers
      <4>3. /\ ~SignalOf(m, p) => Run(inbox'[c], p, b, said[p])
            /\ SignalOf(m, p) => m.n = b + 1 /\ Run(inbox'[c], p, b + 1, said[p])
        BY <2>0, <4>1, <4>2, RunTail
      <4>4. SignalOf(m, p) => m.from # c
        BY DEF SignalOf
      <4> HIDE DEF m
      <4>5. CASE SignalOf(m, p)
        <5>1. Continues(c, p, a, b + 1)'
          BY <4>1, <4>2, <4>3, <4>4, <4>5 DEF Continues, wireVars
        <5> QED
          BY <5>1
      <4>6. CASE ~SignalOf(m, p)
        <5>1. Continues(c, p, a, b)'
          BY <4>1, <4>2, <4>3, <4>6 DEF Continues, wireVars
        <5> QED
          BY <5>1
      <4> QED
        BY <4>5, <4>6
    <3>4. CASE RelayForward(c)
      <4>1. /\ relay[c] = "hold" /\ relay'[c] = "run" /\ fwd'[c] = Append(fwd[c], held[c])
            /\ UNCHANGED <<chanVars, wireVars>>
        BY <1>1, <3>4 DEF RelayForward, TaskTypes
      <4>2. held[c] \in Message
        BY <1>1, <4>1 DEF Phases
      <4>3. Run(fwd'[c], p, heard'[c][p], b)
        BY <2>0, <2>4, <4>1, <4>2, RunAppend DEF Continues, wireVars
      <4>4. Continues(c, p, b, b)'
        BY <2>4, <4>1, <4>3 DEF Continues, Receivers, chanVars
      <4> QED
        BY <4>4
    <3>5. CASE RelayBroken(c)
      BY <2>4, <3>5 DEF RelayBroken
    <3>6. CASE Write(c)
      <4> DEFINE m == Head(fwd[c])
      <4>1. /\ fwd[c] # <<>> /\ fwd'[c] = Tail(fwd[c]) /\ UNCHANGED <<chanVars, relay, held>>
            /\ heard' = IF m.kind = "signal" THEN [heard EXCEPT ![c][m.from] = m.n] ELSE heard
        BY <1>1, <3>6 DEF Write, TaskTypes
      <4>2. /\ ~SignalOf(m, p) => Run(fwd'[c], p, heard[c][p], a)
            /\ SignalOf(m, p) => m.n = heard[c][p] + 1 /\ Run(fwd'[c], p, heard[c][p] + 1, a)
        BY <2>0, <2>4, <4>1, RunTail DEF Continues
      <4>3. heard'[c][p] = IF SignalOf(m, p) THEN m.n ELSE heard[c][p]
        <5> HIDE DEF m
        <5> QED
          BY <1>1, <4>1 DEF SignalOf, TaskTypes
      <4>4. Continues(c, p, a, b)'
        BY <2>4, <4>1, <4>2, <4>3 DEF Continues, Receivers, chanVars
      <4> QED
        BY <4>4
    <3> QED
      BY <1>4, <3>1, <3>2, <3>3, <3>4, <3>5, <3>6 DEF TaskStep
  <2> QED
    BY <1>2, <2>1, <2>2, <2>3, <2>4
<1> QED
  BY <1>3, <1>4

\* Where InOrder holds, what is written next has the number that is due.
LEMMA NextInOrder ==
    ASSUME TaskInv, InOrder, NEW c \in Conns, Write(c), Head(fwd[c]).kind = "signal"
    PROVE  heard[c][Head(fwd[c]).from] = Head(fwd[c]).n - 1
<1> DEFINE m == Head(fwd[c])
           p == m.from
<1>1. writer[c] = "run" /\ fwd[c] # <<>> /\ fwd[c] \in Seq(Message)
  BY DEF Write, TaskInv, TaskTypes
<1>2. m \in Message /\ p # c
  BY <1>1, TailIs DEF TaskInv, OthersOnly
<1>3. p \in Conns /\ SignalOf(m, p) /\ heard[c][p] \in Nat
  BY <1>2 DEF Message, SignalOf, TaskInv, TaskTypes
<1>4. PICK a \in Nat, b \in Nat : Continues(c, p, a, b)
  BY <1>1, <1>2, <1>3 DEF InOrder
<1>5. m.n = heard[c][p] + 1
  BY <1>1, <1>3, <1>4, RunTail DEF Continues
<1> QED
  BY <1>3, <1>5

-----------------------------------------------------------------------------
(* The farewell                                                            *)

Bye(m, p) == m.kind = "peer_left" /\ m.from = p
Silent(s, p) == \A i \in DOMAIN s : s[i].from # p
Parts(s, p) == \E i \in DOMAIN s : Bye(s[i], p)
LastWord(s, p) == \A i, j \in DOMAIN s : i < j /\ Bye(s[i], p) => s[j].from # p

\* In what c is still to hear nothing of p comes after a farewell of p, and p has
\* said it before its handler went into drain.
QuietAfter(c, p) ==
    LET heardBye == p \in byes[c]
        inQueue == heardBye \/ Parts(fwd[c], p)
        inHand == inQueue \/ (relay[c] = "hold" /\ Bye(held[c], p))
    IN /\ LastWord(fwd[c], p) /\ LastWord(inbox[c], p)
       /\ heardBye => Silent(fwd[c], p)
       /\ inQueue => ~(relay[c] = "hold" /\ held[c].from = p)
       /\ inHand => Silent(inbox[c], p)
       /\ inHand \/ Parts(inbox[c], p) => pc[p] \in {"drain", "closed"}

Farewells == \A c, p \in Conns : c # p => QuietAfter(c, p)

LEMMA WordsEmpty ==
    ASSUME NEW p
    PROVE  Silent(<<>>, p) /\ ~Parts(<<>>, p) /\ LastWord(<<>>, p)
BY DEF Silent, Parts, LastWord

LEMMA WordsAppend ==
    ASSUME NEW s \in Seq(Message), NEW m \in Message, NEW p
    PROVE  /\ Silent(Append(s, m), p) <=> Silent(s, p) /\ m.from # p
           /\ Parts(Append(s, m), p) <=> Parts(s, p) \/ Bye(m, p)
           /\ LastWord(s, p) /\ (Parts(s, p) => m.from # p) => LastWord(Append(s, m), p)
<1> DEFINE t == Append(s, m)
<1>1. /\ \A i \in DOMAIN t : \/ i \in DOMAIN s /\ t[i] = s[i] /\ i < Len(s) + 1
                             \/ i = Len(s) + 1 /\ t[i] = m
      /\ \A i \in DOMAIN s : i \in DOMAIN t /\ t[i] = s[i] /\ i \in Nat /\ i < Len(s) + 1
      /\ Len(s) + 1 \in DOMAIN t /\ t[Len(s) + 1] = m
  <2>1. /\ DOMAIN t = 1 .. Len(s) + 1 /\ DOMAIN s = 1 .. Len(s) /\ Len(s) \in Nat
        /\ t[Len(s) + 1] = m /\ \A i \in 1 .. Len(s) : t[i] = s[i]
    BY Queues
  <2> HIDE DEF t
  <2> QED
    BY <2>1
<1> HIDE DEF t
<1>2. Silent(t, p) <=> Silent(s, p) /\ m.from # p
  BY <1>1 DEF Silent
<1>3. Parts(t, p) <=> Parts(s, p) \/ Bye(m, p)
  BY <1>1 DEF Parts
<1>4. ASSUME LastWord(s, p), Parts(s, p) => m.from # p
      PROVE  LastWord(t, p)
  <2> SUFFICES ASSUME NEW i \in DOMAIN t, NEW j \in DOMAIN t, i < j, Bye(t[i], p)
               PROVE  t[j].from # p
    BY DEF LastWord
  <2>1. i \in DOMAIN s /\ t[i] = s[i]
    <3>1. DOMAIN t = 1 .. Len(s) + 1 /\ Len(s) \in Nat
      BY Queues DEF t
    <3> QED
      BY <1>1, <3>1
  <2> QED
    BY <1>1, <1>4, <2>1 DEF LastWord, Parts
<1> QED
  BY <1>2, <1>3, <1>4 DEF t

LEMMA WordsTail ==
    ASSUME NEW s \in Seq(Message), NEW p, s # <<>>
    PROVE  /\ Silent(s, p) => Silent(Tail(s), p) /\ Head(s).from # p
           /\ Parts(Tail(s), p) => Parts(s, p)
           /\ Bye(Head(s), p) => Parts(s, p)
           /\ LastWord(s, p) => /\ LastWord(Tail(s), p)
                                /\ Bye(Head(s), p) => Silent(Tail(s), p)
<1> DEFINE t == Tail(s)
           m == Head(s)
<1>1. /\ m = s[1] /\ 1 \in DOMAIN s
      /\ \A i \in DOMAIN t : i + 1 \in DOMAIN s /\ t[i] = s[i + 1] /\ i \in Nat \ {0}
  BY TailIs
<1> HIDE DEF t, m
<1>2. \A i \in DOMAIN t : 1 < i + 1
  BY <1>1
<1>3. \A i, j \in DOMAIN t : i < j => i + 1 < j + 1
  BY <1>1
<1>4. Silent(s, p) => Silent(t, p) /\ m.from # p
  BY <1>1 DEF Silent
<1>5. (Parts(t, p) => Parts(s, p)) /\ (Bye(m, p) => Parts(s, p))
  BY <1>1 DEF Parts
<1>6. LastWord(s, p) => LastWord(t, p)
  BY <1>1, <1>3 DEF LastWord
<1>7. LastWord(s, p) /\ Bye(m, p) => Silent(t, p)
  BY <1>1, <1>2 DEF LastWord, Silent
<1> QED
  BY <1>4, <1>5, <1>6, <1>7 DEF t, m

\* A broadcast leaves one more message at the end of the ring, or drops one.
LEMMA WordsLatest ==
    ASSUME NEW s \in Seq(Message), NEW m \in Message, NEW p,
           NEW t \in {s, Append(s, m), Tail(Append(s, m))}
    PROVE  /\ Silent(s, p) /\ m.from # p => Silent(t, p)
           /\ Parts(t, p) => Parts(s, p) \/ Bye(m, p)
           /\ LastWord(s, p) /\ (Parts(s, p) => m.from # p) => LastWord(t, p)
<1>1. Append(s, m) \in Seq(Message) /\ Append(s, m) # <<>>
  BY Queues
<1>2. CASE t = Tail(Append(s, m))
  BY <1>1, <1>2, WordsAppend, WordsTail
<1>3. CASE t = Append(s, m)
  BY <1>3, WordsAppend
<1>4. CASE t = s
  BY <1>4
<1> QED
  BY <1>2, <1>3, <1>4

LEMMA LeavingIsFinal ==
    ASSUME TaskInv, NEW p \in Conns, pc[p] \in {"drain", "closed"},
           \/ Quiet
           \/ \E c \in Conns, m \in Message : Says(c, m)
           \/ \E c \in Conns : TaskStep(c)
    PROVE  pc'[p] \in {"drain", "closed"}
<1> USE DEF TaskInv, TaskTypes, Early, Serving
<1>1. CASE GoesOn
  BY <1>1 DEF GoesOn
<1>2. ASSUME NEW c \in Conns, TaskStep(c)
      PROVE  pc'[p] \in {"drain", "closed"}
  BY <1>2, TaskPcs
<1> QED
  BY <1>1, <1>2 DEF Quiet, Says

LEMMA QuietFarewells ==
    ASSUME TaskInv, Farewells, Quiet
    PROVE  Farewells'
<1> SUFFICES ASSUME NEW c \in Conns, NEW p \in Conns, c # p PROVE QuietAfter(c, p)'
  BY DEF Farewells
<1>1. QuietAfter(c, p) /\ (pc[p] \in {"drain", "closed"} => pc'[p] \in {"drain", "closed"})
  BY LeavingIsFinal DEF Farewells
<1>2. /\ fwd'[c] = fwd[c] /\ relay'[c] = relay[c] /\ held'[c] = held[c] /\ byes'[c] = byes[c]
      /\ inbox'[c] = inbox[c]
  BY DEF Quiet, chanVars, taskVars, wireVars
<1> QED
  BY <1>1, <1>2 DEF QuietAfter

LEMMA SaysFarewells ==
    ASSUME TaskInv, Farewells, NEW s \in Conns, NEW m \in Message, Says(s, m)
    PROVE  Farewells'
<1>1. /\ Broadcast(m) /\ TaskTypes /\ Phases /\ UNCHANGED taskVars /\ m.from = s
      /\ pc[s] \in Serving \ {"drain"} /\ (m.kind = "peer_left" => pc'[s] = "drain")
  BY DEF Says, TaskInv
<1> SUFFICES ASSUME NEW c \in Conns, NEW p \in Conns, c # p PROVE QuietAfter(c, p)'
  BY DEF Farewells
<1>2. QuietAfter(c, p) /\ (pc[p] \in {"drain", "closed"} => pc'[p] \in {"drain", "closed"})
  BY LeavingIsFinal DEF Farewells
<1>3. pc[p] \in {"drain", "closed"} => m.from # p
  BY <1>1 DEF Serving
<1>4. Bye(m, p) => pc'[p] \in {"drain", "closed"}
  BY <1>1 DEF Bye
<1>5. inbox[c] \in Seq(Message)
  BY <1>1 DEF TaskTypes
<1>6. inbox'[c] \in {inbox[c], Append(inbox[c], m), Tail(Append(inbox[c], m))}
  BY <1>1, BroadcastIs
<1>7. /\ Silent(inbox[c], p) /\ m.from # p => Silent(inbox'[c], p)
      /\ Parts(inbox'[c], p) => Parts(inbox[c], p) \/ Bye(m, p)
      /\ LastWord(inbox[c], p) /\ (Parts(inbox[c], p) => m.from # p) => LastWord(inbox'[c], p)
  <2>1. \A t \in {inbox[c], Append(inbox[c], m), Tail(Append(inbox[c], m))} :
          /\ Silent(inbox[c], p) /\ m.from # p => Silent(t, p)
          /\ Parts(t, p) => Parts(inbox[c], p) \/ Bye(m, p)
          /\ LastWord(inbox[c], p) /\ (Parts(inbox[c], p) => m.from # p) => LastWord(t, p)
    BY <1>5, WordsLatest
  <2> QED
    BY <1>6, <2>1
<1>8. fwd' = fwd /\ relay' = relay /\ held' = held /\ byes' = byes
  BY <1>1 DEF taskVars, wireVars
<1> QED
  BY <1>2, <1>3, <1>4, <1>7, <1>8 DEF QuietAfter

LEMMA StepFarewells ==
    ASSUME TaskInv, Farewells, NEW d \in Conns, TaskStep(d)
    PROVE  Farewells'
<1> SUFFICES ASSUME NEW c \in Conns, NEW p \in Conns, c # p PROVE QuietAfter(c, p)'
  BY DEF Farewells
<1>1. TaskTypes /\ Phases /\ OthersOnly
  BY DEF TaskInv
<1>2. QuietAfter(c, p) /\ (pc[p] \in {"drain", "closed"} => pc'[p] \in {"drain", "closed"})
  BY LeavingIsFinal DEF Farewells
<1>3. inbox[c] \in Seq(Message) /\ fwd[c] \in Seq(Message)
  BY <1>1 DEF TaskTypes
<1>4. CASE c # d
  <2>1. /\ fwd'[c] = fwd[c] /\ byes'[c] = byes[c] /\ relay'[c] = relay[c] /\ held'[c] = held[c]
        /\ inbox'[c] = inbox[c]
    BY <1>1, <1>4, TaskElsewhere
  <2> QED
    BY <1>2, <2>1 DEF QuietAfter
<1>5. CASE c = d
  <2>1. CASE Subscribe(c) \/ Finish(c)
    <3>1. CASE Subscribe(c)
      <4>1. writer[c] = "off" /\ relay'[c] = "run" /\ UNCHANGED <<fwd, inbox, byes>>
        BY <1>1, <3>1 DEF Subscribe, Phases, TaskTypes, Early, chanVars
      <4>2. fwd[c] = <<>> /\ inbox[c] = <<>> /\ byes[c] = {}
        BY <1>1, <4>1 DEF Phases, Receivers
      <4> QED
        BY <4>1, <4>2, WordsEmpty DEF QuietAfter
    <3>2. CASE Finish(c)
      <4>1. /\ writer[c] = "stopped" /\ relay'[c] = "off" /\ fwd' = fwd
            /\ inbox'[c] = <<>> /\ byes'[c] = {}
        BY <1>1, <3>2 DEF Finish, Unsubscribe, TaskTypes
      <4>2. fwd[c] = <<>>
        BY <1>1, <4>1 DEF Phases
      <4> QED
        BY <4>1, <4>2, WordsEmpty DEF QuietAfter
    <3> QED
      BY <2>1, <3>1, <3>2
  <2>2. CASE Answer(c)
    <3> DEFINE m == Msg("answer", c, 0)
    <3>1. fwd'[c] = Append(fwd[c], m) /\ UNCHANGED <<inbox, relay, held, byes>>
      BY <1>1, <2>2 DEF Answer, TaskTypes, chanVars, wireVars
    <3>2. m \in Message /\ m.from # p /\ ~Bye(m, p)
      BY <1>5 DEF Msg, Message, Bye
    <3> HIDE DEF m
    <3>3. /\ Silent(fwd'[c], p) <=> Silent(fwd[c], p)
          /\ Parts(fwd'[c], p) <=> Parts(fwd[c], p)
          /\ LastWord(fwd[c], p) => LastWord(fwd'[c], p)
      BY <1>3, <3>1, <3>2, WordsAppend
    <3> QED
      BY <1>2, <3>1, <3>3 DEF QuietAfter
  <2>3. CASE RelayAborted(c) \/ RelayLag(c) \/ RelayBroken(c)
    <3>1. inbox'[c] = <<>> /\ relay'[c] # "hold" /\ UNCHANGED <<fwd, byes>>
      BY <1>1, <2>3 DEF RelayAborted, RelayLag, RelayBroken, Unsubscribe, TaskTypes, wireVars
    <3> QED
      BY <1>2, <3>1, WordsEmpty DEF QuietAfter
  <2>4. CASE RelayRecv(c)
    <3> DEFINE m == Head(inbox[c])
    <3>1. /\ relay[c] = "run" /\ inbox[c] # <<>> /\ inbox'[c] = Tail(inbox[c])
          /\ \/ relay'[c] = "run"
             \/ relay'[c] = "hold" /\ held'[c] = m
          /\ UNCHANGED <<fwd, byes>>
      BY <1>1, <2>4 DEF RelayRecv, TaskTypes, wireVars
    <3>2. /\ Silent(inbox[c], p) => Silent(inbox'[c], p) /\ m.from # p
          /\ Parts(inbox'[c], p) => Parts(inbox[c], p)
          /\ Bye(m, p) => Parts(inbox[c], p)
          /\ LastWord(inbox[c], p) => LastWord(inbox'[c], p) /\ (Bye(m, p) => Silent(inbox'[c], p))
      BY <1>3, <3>1, WordsTail
    <3> HIDE DEF m
    <3> QED
      BY <1>2, <3>1, <3>2 DEF QuietAfter
  <2>5. CASE RelayForward(c)
    <3>1. /\ relay[c] = "hold" /\ relay'[c] = "run" /\ fwd'[c] = Append(fwd[c], held[c])
          /\ UNCHANGED <<inbox, byes>>
      BY <1>1, <2>5 DEF RelayForward, TaskTypes, chanVars, wireVars
    <3>2. held[c] \in Message
      BY <1>1, <3>1 DEF Phases
    <3>3. /\ Silent(fwd'[c], p) <=> Silent(fwd[c], p) /\ held[c].from # p
          /\ Parts(fwd'[c], p) <=> Parts(fwd[c], p) \/ Bye(held[c], p)
          /\ LastWord(fwd[c], p) /\ (Parts(fwd[c], p) => held[c].from # p) => LastWord(fwd'[c], p)
      BY <1>3, <3>1, <3>2, WordsAppend
    <3> QED
      BY <1>2, <3>1, <3>3 DEF QuietAfter
  <2>6. CASE Write(c)
    <3> DEFINE m == Head(fwd[c])
    <3>1. /\ fwd[c] # <<>> /\ fwd'[c] = Tail(fwd[c]) /\ UNCHANGED <<inbox, relay, held>>
          /\ byes' = IF m.kind = "peer_left" THEN [byes EXCEPT ![c] = @ \cup {m.from}] ELSE byes
      BY <1>1, <2>6 DEF Write, TaskTypes, chanVars
    <3>2. /\ Silent(fwd[c], p) => Silent(fwd'[c], p) /\ m.from # p
          /\ Parts(fwd'[c], p) => Parts(fwd[c], p)
          /\ Bye(m, p) => Parts(fwd[c], p)
          /\ LastWord(fwd[c], p) => LastWord(fwd'[c], p) /\ (Bye(m, p) => Silent(fwd'[c], p))
      BY <1>3, <3>1, WordsTail
    <3> HIDE DEF m
    <3>3. p \in byes'[c] <=> p \in byes[c] \/ Bye(m, p)
      BY <1>1, <3>1 DEF Bye, TaskTypes
    <3> QED
      BY <1>2, <3>1, <3>2, <3>3 DEF QuietAfter
  <2>7. CASE WriteFail(c) \/ WriterDone(c)
    <3>1. fwd'[c] = <<>> /\ UNCHANGED <<inbox, relay, held, byes>>
      BY <1>1, <2>7 DEF WriteFail, WriterDone, TaskTypes, chanVars, wireVars
    <3> QED
      BY <1>2, <3>1, WordsEmpty DEF QuietAfter
  <2> QED
    BY <1>5, <2>1, <2>2, <2>3, <2>4, <2>5, <2>6, <2>7 DEF TaskStep
<1> QED
  BY <1>4, <1>5

-----------------------------------------------------------------------------
(* Whoever has said something listens                                      *)

Listens(p) == relay[p] # "off" \/ pc[p] = "closed"

SendersListen == \A c \in Conns :
    /\ \A i \in DOMAIN inbox[c] : Listens(inbox[c][i].from)
    /\ \A i \in DOMAIN fwd[c] : Listens(fwd[c][i].from)
    /\ relay[c] = "hold" => Listens(held[c].from)

LEMMA ListensOn ==
    ASSUME TaskInv, NEW p \in Conns, Listens(p),
           \/ Quiet
           \/ \E c \in Conns, m \in Message : Says(c, m)
           \/ \E c \in Conns : TaskStep(c)
    PROVE  Listens(p)'
<1> USE DEF TaskInv, TaskTypes, Early, Serving, Listens
<1>1. CASE GoesOn /\ UNCHANGED relay
  BY <1>1 DEF GoesOn
<1>2. ASSUME NEW c \in Conns, TaskStep(c)
      PROVE  Listens(p)'
  BY <1>2, TaskPcs
<1> QED
  BY <1>1, <1>2 DEF Quiet, Says, taskVars

LEMMA SendersNext ==
    ASSUME TaskInv, TaskInv', SendersListen,
           \/ Quiet
           \/ \E c \in Conns, m \in Message : Says(c, m)
           \/ \E c \in Conns : TaskStep(c)
    PROVE  SendersListen'
<1>1. TaskTypes /\ Phases
  BY DEF TaskInv
<1>2. \A p \in Conns : Listens(p) => Listens(p)'
  BY ListensOn
<1>3. /\ \A c \in Conns : \A i \in DOMAIN inbox[c] : inbox[c][i].from \in Conns
      /\ \A c \in Conns : \A i \in DOMAIN fwd[c] : fwd[c][i].from \in Conns
      /\ \A c \in Conns : relay[c] = "hold" => held[c].from \in Conns
  <2>1. \A s \in Seq(Message) : \A i \in DOMAIN s : s[i].from \in Conns
    <3>1. \A s \in Seq(Message) : \A i \in DOMAIN s : s[i] \in Message
      OBVIOUS
    <3> QED
      BY <3>1 DEF Message
  <2> QED
    BY <1>1, <2>1 DEF TaskTypes, Phases, Message
<1>4. CASE Quiet
  <2>1. fwd' = fwd /\ relay' = relay /\ held' = held /\ inbox' = inbox
    BY <1>4 DEF Quiet, chanVars, taskVars, wireVars
  <2> QED
    BY <1>2, <1>3, <2>1 DEF SendersListen
<1>5. ASSUME NEW s \in Conns, NEW m \in Message, Says(s, m)
      PROVE  SendersListen'
  <2>1. fwd' = fwd /\ relay' = relay /\ held' = held
    BY <1>5 DEF Says, taskVars, wireVars
  <2>2. \A c \in Conns : \A i \in DOMAIN inbox'[c] :
            inbox'[c][i] = m \/ \E j \in DOMAIN inbox[c] : inbox'[c][i] = inbox[c][j]
    BY <1>1, <1>5, BroadcastTypes DEF Says
  <2>3. m.from \in Conns /\ Listens(m.from)
    BY <1>1, <1>5 DEF Says, Phases, Listens
  <2> QED
    BY <1>2, <1>3, <2>1, <2>2, <2>3 DEF SendersListen
<1>6. ASSUME NEW c \in Conns, TaskStep(c)
      PROVE  SendersListen'
  <2>1. ASSUME NEW d \in Conns, d # c
        PROVE  /\ fwd'[d] = fwd[d] /\ relay'[d] = relay[d] /\ held'[d] = held[d]
               /\ inbox'[d] = inbox[d]
    BY <1>1, <1>6, <2>1, TaskElsewhere
  <2>2. /\ \A i \in DOMAIN inbox'[c] : \E j \in DOMAIN inbox[c] : inbox'[c][i] = inbox[c][j]
        /\ relay'[c] = "hold" => \/ relay[c] = "hold" /\ held'[c] = held[c]
                                 \/ 1 \in DOMAIN inbox[c] /\ held'[c] = inbox[c][1]
    <3>1. CASE RelayRecv(c)
      <4>1. inbox[c] \in Seq(Message) /\ inbox[c] # <<>> /\ inbox'[c] = Tail(inbox[c])
        BY <1>1, <3>1 DEF RelayRecv, TaskTypes
      <4>2. /\ Head(inbox[c]) = inbox[c][1] /\ 1 \in DOMAIN inbox[c]
            /\ \A i \in DOMAIN inbox'[c] :
                  i + 1 \in DOMAIN inbox[c] /\ inbox'[c][i] = inbox[c][i + 1]
        BY <4>1, TailIs
      <4>3. relay'[c] = "hold" => held'[c] = Head(inbox[c])
        BY <1>1, <3>1 DEF RelayRecv, TaskTypes
      <4> QED
        BY <4>2, <4>3
    <3>2. CASE ~RelayRecv(c)
      <4>1. /\ inbox'[c] \in {inbox[c], <<>>}
            /\ relay'[c] = "hold" => relay[c] = "hold" /\ held'[c] = held[c]
        BY <1>1, <1>6, <3>2 DEF TaskStep, TaskTypes, Subscribe, Answer, RelayAborted, Finish,
           RelayLag, RelayForward, RelayBroken, Write, WriteFail, WriterDone, Unsubscribe,
           chanVars, wireVars
      <4> QED
        BY <4>1
    <3> QED
      BY <3>1, <3>2
  <2> DEFINE Known(m) == \/ \E j \in DOMAIN fwd[c] : m = fwd[c][j]
                         \/ relay[c] = "hold" /\ m = held[c]
                         \/ m.from = c /\ Listens(c)
  <2>3. \A i \in DOMAIN fwd'[c] : Known(fwd'[c][i])
    <3>0. fwd[c] \in Seq(Message)
      BY <1>1 DEF TaskTypes
    <3>1. ASSUME NEW m \in Message, fwd'[c] = Append(fwd[c], m),
                 \/ relay[c] = "hold" /\ m = held[c]
                 \/ m.from = c /\ Listens(c)
          PROVE  \A i \in DOMAIN fwd'[c] : Known(fwd'[c][i])
      BY <3>0, <3>1, Queues
    <3>2. CASE Answer(c)
      <4>1. /\ Msg("answer", c, 0) \in Message /\ Msg("answer", c, 0).from = c
            /\ fwd'[c] = Append(fwd[c], Msg("answer", c, 0)) /\ Listens(c)
        BY <1>1, <3>2 DEF Answer, Msg, Message, TaskTypes, Phases, Serving, Listens
      <4> QED
        BY <3>1, <4>1
    <3>3. CASE RelayForward(c)
      <4>1. relay[c] = "hold" /\ held[c] \in Message /\ fwd'[c] = Append(fwd[c], held[c])
        BY <1>1, <3>3 DEF RelayForward, TaskTypes, Phases
      <4> QED
        BY <3>1, <4>1
    <3>4. CASE Write(c)
      <4>1. fwd[c] # <<>> /\ fwd'[c] = Tail(fwd[c])
        BY <1>1, <3>4 DEF Write, TaskTypes
      <4> QED
        BY <3>0, <4>1, TailIs
    <3>5. CASE ~(Answer(c) \/ RelayForward(c) \/ Write(c))
      <4>1. fwd'[c] \in {fwd[c], <<>>}
        BY <1>1, <1>6, <3>5 DEF TaskStep, TaskTypes, Subscribe, RelayAborted, Finish, RelayRecv,
           RelayLag, RelayBroken, WriteFail, WriterDone, chanVars, wireVars
      <4> QED
        BY <4>1
    <3> QED
      BY <3>2, <3>3, <3>4, <3>5
  <2>4. /\ \A i \in DOMAIN inbox'[c] : Listens(inbox[c][i].from)'
        /\ relay'[c] = "hold" => Listens(held[c].from)'
    BY <1>2, <1>3, <2>2 DEF SendersListen
  <2>5. \A i \in DOMAIN fwd'[c] : Listens(fwd[c][i].from)'
    BY <1>2, <1>3, <2>3 DEF SendersListen
  <2> QED
    BY <1>2, <1>3, <2>1, <2>4, <2>5 DEF SendersListen
<1> QED
  BY <1>4, <1>5, <1>6

-----------------------------------------------------------------------------
(* Places and counters                                                     *)

InPhase(labels) == {c \in Conns : pc[c] \in labels}
Present == {"acked", "announce", "in_call", "answer", "leaving", "farewell", "drain"}
Coming == {"open", "joined"}
UnderWay == Present \cup Coming
HasPlace == UnderWay \ {"open", "farewell", "drain"}
CountTypes == [connects : Nat, disconnects : Nat, ok : Nat, err : Nat, handshakeFailed : Nat]

Places ==
    /\ members[Room] = InPhase(HasPlace)
    /\ counts.connects - counts.disconnects = Cardinality(InPhase(UnderWay))
    /\ Cardinality(InPhase(Present)) <= counts.ok
    /\ counts.err = counts.handshakeFailed
    /\ counts.ok + counts.err + Cardinality(InPhase(Coming)) <= counts.connects

\* What a step counts, and what it has to when it goes from one label to another.
Counted(in, out, ok, err) ==
    /\ counts'.connects = counts.connects + in /\ counts'.disconnects = counts.disconnects + out
    /\ counts'.ok = counts.ok + ok /\ counts'.err = counts.err + err
    /\ counts'.handshakeFailed = counts.handshakeFailed + err

One(label, labels) == IF label \in labels THEN 1 ELSE 0
Balanced(from, to, in, out, ok, err) ==
    /\ in - out = One(to, UnderWay) - One(from, UnderWay)
    /\ to \in Present => from \in Present \/ ok = 1
    /\ ok + err + One(to, Coming) <= in + One(from, Coming)
Placed(c, to) ==
    members'[Room] = IF to \in HasPlace THEN members[Room] \cup {c} ELSE members[Room] \ {c}

LEMMA PlacesIsPlacesCounted == Places <=> PlacesCounted
<1>1. /\ UnderWay = {"acked", "announce", "in_call", "answer", "leaving"}
                      \cup {"farewell", "drain"} \cup {"open", "joined"}
      /\ HasPlace = {"acked", "announce", "in_call", "answer", "leaving"} \cup {"joined"}
      /\ Present = {"acked", "announce", "in_call", "answer", "leaving"} \cup {"farewell", "drain"}
  BY DEF Present, Coming, UnderWay, HasPlace
<1> QED
  BY <1>1 DEF Places, PlacesCounted, InPhase, Coming

\* A connection that goes to another label changes the sets it enters or leaves.
LEMMA Moves ==
    ASSUME TaskTypes, NEW c \in Conns, NEW label, Goto(c, label), NEW L
    PROVE  /\ InPhase(L)' = IF label \in L THEN InPhase(L) \cup {c} ELSE InPhase(L) \ {c}
           /\ Cardinality(InPhase(L)) \in Nat
           /\ Cardinality(InPhase(L)') = Cardinality(InPhase(L))
                + One(label, L) - One(pc[c], L)
<1>1. InPhase(L)' = IF label \in L THEN InPhase(L) \cup {c} ELSE InPhase(L) \ {c}
  BY DEF InPhase, Goto, TaskTypes
<1>2. c \in InPhase(L) <=> pc[c] \in L
  BY DEF InPhase
<1>3. IsFiniteSet(InPhase(L))
  BY ConnsAssumption, FS_Subset DEF InPhase
<1>4. Cardinality(InPhase(L)) \in Nat
  BY <1>3, FS_CardinalityType
<1>5. /\ Cardinality(InPhase(L) \cup {c})
           = IF c \in InPhase(L) THEN Cardinality(InPhase(L)) ELSE Cardinality(InPhase(L)) + 1
      /\ Cardinality(InPhase(L) \ {c})
           = IF c \in InPhase(L) THEN Cardinality(InPhase(L)) - 1 ELSE Cardinality(InPhase(L))
  BY <1>3, FS_AddElement, FS_RemoveElement
<1> QED
  BY <1>1, <1>2, <1>4, <1>5 DEF One

\* A step of one connection whose counters follow its label.
LEMMA GotoPlaces ==
    ASSUME TaskTypes, counts \in CountTypes, Places, NEW c \in Conns, NEW label, Goto(c, label),
           Placed(c, label), NEW in \in Nat, NEW out \in Nat, NEW ok \in Nat, NEW err \in Nat,
           Counted(in, out, ok, err), Balanced(pc[c], label, in, out, ok, err)
    PROVE  Places'
<1>1. /\ counts.connects \in Nat /\ counts.disconnects \in Nat /\ counts.ok \in Nat
      /\ counts.err \in Nat
  BY DEF CountTypes
<1>2. Counted(in, out, ok, err) /\ Balanced(pc[c], label, in, out, ok, err)
  OBVIOUS
<1>3. members'[Room] = InPhase(HasPlace)'
  BY Moves DEF Places, Placed
<1>4. counts'.connects - counts'.disconnects = Cardinality(InPhase(UnderWay)')
  <2>1. /\ Cardinality(InPhase(UnderWay)) \in Nat
        /\ Cardinality(InPhase(UnderWay)') = Cardinality(InPhase(UnderWay))
             + One(label, UnderWay) - One(pc[c], UnderWay)
    BY Moves
  <2>2. One(label, UnderWay) \in {0, 1} /\ One(pc[c], UnderWay) \in {0, 1}
    BY DEF One
  <2>3. counts.connects - counts.disconnects = Cardinality(InPhase(UnderWay))
    BY DEF Places
  <2>4. in - out = One(label, UnderWay) - One(pc[c], UnderWay)
    BY <1>2 DEF Balanced
  <2>5. counts'.connects - counts'.disconnects = (counts.connects + in) - (counts.disconnects + out)
    BY <1>2 DEF Counted
  <2> QED
    BY <1>1, <2>1, <2>2, <2>3, <2>4, <2>5
<1>5. Cardinality(InPhase(Present)') <= counts'.ok
  <2>1. /\ Cardinality(InPhase(Present)) \in Nat
        /\ Cardinality(InPhase(Present)') = Cardinality(InPhase(Present))
             + One(label, Present) - One(pc[c], Present)
    BY Moves
  <2> QED
    BY <1>1, <1>2, <2>1 DEF Places, Counted, Balanced, One
<1>6. counts'.ok + counts'.err + Cardinality(InPhase(Coming)') <= counts'.connects
  <2>1. /\ Cardinality(InPhase(Coming)) \in Nat
        /\ Cardinality(InPhase(Coming)') = Cardinality(InPhase(Coming))
             + One(label, Coming) - One(pc[c], Coming)
    BY Moves
  <2> QED
    BY <1>1, <1>2, <2>1 DEF Places, Counted, Balanced, One
<1>7. counts'.err = counts'.handshakeFailed
  BY <1>2 DEF Places, Counted
<1> QED
  BY <1>3, <1>4, <1>5, <1>6, <1>7 DEF Places

LEMMA SamePlaces ==
    ASSUME PlaceTypes, Places, UNCHANGED <<slotVars, sock, queries, counts>>, pc' = pc
    PROVE  PlaceTypes' /\ Places'
<1>1. \A L : InPhase(L)' = InPhase(L)
  BY DEF InPhase
<1> QED
  BY <1>1 DEF Places, PlaceTypes, slotVars

LEMMA PlacesNext ==
    ASSUME TaskInv, PlaceTypes, Places, Next
    PROVE  PlaceTypes' /\ Places'
<1>1. PICK c \in Conns : \/ Connect(c) \/ Handshake(c) \/ Loop(c) \/ Answer(c) \/ AnswerFail(c)
                        \/ EndLoop(c) \/ WayOut(c) \/ Relay(c) \/ Writer(c) \/ SockDown(c)
  BY DEF Next
<1>2. /\ counts \in CountTypes /\ members \in [RoomIds -> SUBSET Conns] /\ RoomIds = {Room}
      /\ members[Room] = InPhase(HasPlace) /\ TaskTypes
      /\ impolite \subseteq Conns /\ sock \in [Conns -> {"up", "down"}] /\ queries \in Nat
  BY DEF PlaceTypes, CountTypes, Places, RoomIds, TaskInv
<1>3. members[Room] \subseteq Conns /\ (c \in members[Room] <=> pc[c] \in HasPlace)
  BY <1>2 DEF InPhase
<1>4. counts' = counts => Counted(0, 0, 0, 0)
  BY <1>2 DEF CountTypes, Counted
<1>5. /\ JoinFailed \in CountTypes /\ JoinFailed.connects = counts.connects
      /\ JoinFailed.disconnects = counts.disconnects /\ JoinFailed.ok = counts.ok
      /\ JoinFailed.err = counts.err + 1 /\ JoinFailed.handshakeFailed = counts.handshakeFailed + 1
  <2>1. /\ counts.err + 1 \in Nat /\ counts.handshakeFailed + 1 \in Nat
        /\ counts = [connects |-> counts.connects, disconnects |-> counts.disconnects,
                     ok |-> counts.ok, err |-> counts.err,
                     handshakeFailed |-> counts.handshakeFailed]
    BY <1>2 DEF CountTypes
  <2>2. JoinFailed \in CountTypes
    BY <1>2, <2>1 DEF CountTypes, JoinFailed
  <2> QED
    BY <1>2, <2>2 DEF CountTypes, JoinFailed
<1> USE DEF HasPlace, Present, Coming, UnderWay
<1>6. CASE Connect(c)
  <2>1. /\ Goto(c, "open") /\ pc[c] = "idle" /\ members'[Room] = members[Room]
        /\ members' \in [RoomIds -> SUBSET Conns] /\ impolite' \subseteq Conns
        /\ sock' = sock /\ queries' \in Nat
    BY <1>2, <1>6 DEF Connect, slotVars
  <2>2. Counted(1, 0, 0, 0) /\ counts' \in CountTypes
    BY <1>2, <1>6 DEF Connect, Counted, CountTypes
  <2>3. Placed(c, "open") /\ Balanced(pc[c], "open", 1, 0, 0, 0)
    <3>1. Placed(c, "open")
      BY <1>3, <2>1 DEF Placed
    <3>2. Balanced(pc[c], "open", 1, 0, 0, 0)
      BY <2>1 DEF Balanced, One
    <3> QED
      BY <3>1, <3>2
  <2>4. Places'
    BY <1>2, <2>1, <2>2, <2>3, GotoPlaces
  <2> QED
    BY <1>2, <2>1, <2>2, <2>4 DEF PlaceTypes, CountTypes
<1>7. CASE Refuse(c)
  <2>1. /\ Goto(c, "closed") /\ pc[c] = "open" /\ members'[Room] = members[Room]
        /\ members' \in [RoomIds -> SUBSET Conns] /\ impolite' \subseteq Conns
        /\ sock' = sock /\ queries' \in Nat
    BY <1>2, <1>7 DEF Refuse, Ends, slotVars
  <2>2. Counted(0, 1, 0, 0) /\ counts' \in CountTypes
    BY <1>2, <1>7 DEF Refuse, Ends, Counted, CountTypes
  <2>3. Placed(c, "closed") /\ Balanced(pc[c], "closed", 0, 1, 0, 0)
    <3>1. Placed(c, "closed")
      BY <1>3, <2>1 DEF Placed
    <3>2. Balanced(pc[c], "closed", 0, 1, 0, 0)
      BY <2>1 DEF Balanced, One
    <3> QED
      BY <3>1, <3>2
  <2>4. Places'
    BY <1>2, <2>1, <2>2, <2>3, GotoPlaces
  <2> QED
    BY <1>2, <2>1, <2>2, <2>4 DEF PlaceTypes, CountTypes
<1>8. CASE Reject(c)
  <2>1. /\ Goto(c, "closed") /\ pc[c] = "open" /\ members'[Room] = members[Room]
        /\ members' \in [RoomIds -> SUBSET Conns] /\ impolite' \subseteq Conns
        /\ sock' = sock /\ queries' \in Nat
    BY <1>2, <1>8 DEF Reject, Ends, JoinFailed, slotVars
  <2>2. Counted(0, 1, 0, 1) /\ counts' \in CountTypes
    BY <1>5, <1>2, <1>8 DEF Reject, Ends, Counted, CountTypes
  <2>3. Placed(c, "closed") /\ Balanced(pc[c], "closed", 0, 1, 0, 1)
    <3>1. Placed(c, "closed")
      BY <1>3, <2>1 DEF Placed
    <3>2. Balanced(pc[c], "closed", 0, 1, 0, 1)
      BY <2>1 DEF Balanced, One
    <3> QED
      BY <3>1, <3>2
  <2>4. Places'
    BY <1>2, <2>1, <2>2, <2>3, GotoPlaces
  <2> QED
    BY <1>2, <2>1, <2>2, <2>4 DEF PlaceTypes, CountTypes
<1>9. CASE AckOk(c)
  <2>1. /\ Goto(c, "acked") /\ pc[c] = "joined" /\ members'[Room] = members[Room]
        /\ members' \in [RoomIds -> SUBSET Conns] /\ impolite' \subseteq Conns
        /\ sock' = sock /\ queries' \in Nat
    BY <1>2, <1>9 DEF AckOk, slotVars
  <2>2. Counted(0, 0, 1, 0) /\ counts' \in CountTypes
    BY <1>2, <1>9 DEF AckOk, Counted, CountTypes
  <2>3. Placed(c, "acked") /\ Balanced(pc[c], "acked", 0, 0, 1, 0)
    <3>1. Placed(c, "acked")
      BY <1>3, <2>1 DEF Placed
    <3>2. Balanced(pc[c], "acked", 0, 0, 1, 0)
      BY <2>1 DEF Balanced, One
    <3> QED
      BY <3>1, <3>2
  <2>4. Places'
    BY <1>2, <2>1, <2>2, <2>3, GotoPlaces
  <2> QED
    BY <1>2, <2>1, <2>2, <2>4 DEF PlaceTypes, CountTypes
<1>10. CASE Subscribe(c)
  <2>0. PICK label \in {"announce", "in_call"} : Goto(c, label)
    BY <1>10 DEF Subscribe
  <2>1. /\ Goto(c, label) /\ pc[c] = "acked" /\ members'[Room] = members[Room]
        /\ members' \in [RoomIds -> SUBSET Conns] /\ impolite' \subseteq Conns
        /\ sock' = sock /\ queries' \in Nat
    BY <2>0, <1>2, <1>10 DEF Subscribe, slotVars
  <2>2. Counted(0, 0, 0, 0) /\ counts' \in CountTypes
    BY <1>4, <1>2, <1>10 DEF Subscribe
  <2>3. Placed(c, label) /\ Balanced(pc[c], label, 0, 0, 0, 0)
    <3>1. Placed(c, label)
      BY <2>0, <1>3, <2>1 DEF Placed
    <3>2. Balanced(pc[c], label, 0, 0, 0, 0)
      BY <2>0, <2>1 DEF Balanced, One
    <3> QED
      BY <3>1, <3>2
  <2>4. Places'
    BY <2>0, <1>2, <2>1, <2>2, <2>3, GotoPlaces
  <2> QED
    BY <1>2, <2>1, <2>2, <2>4 DEF PlaceTypes, CountTypes
<1>11. CASE Announce(c)
  <2>1. /\ Goto(c, "in_call") /\ pc[c] = "announce" /\ members'[Room] = members[Room]
        /\ members' \in [RoomIds -> SUBSET Conns] /\ impolite' \subseteq Conns
        /\ sock' = sock /\ queries' \in Nat
    BY <1>2, <1>11 DEF Announce, slotVars
  <2>2. Counted(0, 0, 0, 0) /\ counts' \in CountTypes
    BY <1>4, <1>2, <1>11 DEF Announce
  <2>3. Placed(c, "in_call") /\ Balanced(pc[c], "in_call", 0, 0, 0, 0)
    <3>1. Placed(c, "in_call")
      BY <1>3, <2>1 DEF Placed
    <3>2. Balanced(pc[c], "in_call", 0, 0, 0, 0)
      BY <2>1 DEF Balanced, One
    <3> QED
      BY <3>1, <3>2
  <2>4. Places'
    BY <1>2, <2>1, <2>2, <2>3, GotoPlaces
  <2> QED
    BY <1>2, <2>1, <2>2, <2>4 DEF PlaceTypes, CountTypes
<1>12. CASE Query(c)
  <2>1. /\ Goto(c, "answer") /\ pc[c] = "in_call" /\ members'[Room] = members[Room]
        /\ members' \in [RoomIds -> SUBSET Conns] /\ impolite' \subseteq Conns
        /\ sock' = sock /\ queries' \in Nat
    BY <1>2, <1>12 DEF Query, slotVars
  <2>2. Counted(0, 0, 0, 0) /\ counts' \in CountTypes
    BY <1>4, <1>2, <1>12 DEF Query
  <2>3. Placed(c, "answer") /\ Balanced(pc[c], "answer", 0, 0, 0, 0)
    <3>1. Placed(c, "answer")
      BY <1>3, <2>1 DEF Placed
    <3>2. Balanced(pc[c], "answer", 0, 0, 0, 0)
      BY <2>1 DEF Balanced, One
    <3> QED
      BY <3>1, <3>2
  <2>4. Places'
    BY <1>2, <2>1, <2>2, <2>3, GotoPlaces
  <2> QED
    BY <1>2, <2>1, <2>2, <2>4 DEF PlaceTypes, CountTypes
<1>13. CASE Answer(c)
  <2>1. /\ Goto(c, "in_call") /\ pc[c] = "answer" /\ members'[Room] = members[Room]
        /\ members' \in [RoomIds -> SUBSET Conns] /\ impolite' \subseteq Conns
        /\ sock' = sock /\ queries' \in Nat
    BY <1>2, <1>13 DEF Answer, slotVars
  <2>2. Counted(0, 0, 0, 0) /\ counts' \in CountTypes
    BY <1>4, <1>2, <1>13 DEF Answer
  <2>3. Placed(c, "in_call") /\ Balanced(pc[c], "in_call", 0, 0, 0, 0)
    <3>1. Placed(c, "in_call")
      BY <1>3, <2>1 DEF Placed
    <3>2. Balanced(pc[c], "in_call", 0, 0, 0, 0)
      BY <2>1 DEF Balanced, One
    <3> QED
      BY <3>1, <3>2
  <2>4. Places'
    BY <1>2, <2>1, <2>2, <2>3, GotoPlaces
  <2> QED
    BY <1>2, <2>1, <2>2, <2>4 DEF PlaceTypes, CountTypes
<1>14. CASE AnswerFail(c)
  <2>0. PICK label \in {"in_call", "leaving"} : Goto(c, label)
    BY <1>14 DEF AnswerFail
  <2>1. /\ Goto(c, label) /\ pc[c] = "answer" /\ members'[Room] = members[Room]
        /\ members' \in [RoomIds -> SUBSET Conns] /\ impolite' \subseteq Conns
        /\ sock' = sock /\ queries' \in Nat
    BY <2>0, <1>2, <1>14 DEF AnswerFail, slotVars
  <2>2. Counted(0, 0, 0, 0) /\ counts' \in CountTypes
    BY <1>4, <1>2, <1>14 DEF AnswerFail
  <2>3. Placed(c, label) /\ Balanced(pc[c], label, 0, 0, 0, 0)
    <3>1. Placed(c, label)
      BY <2>0, <1>3, <2>1 DEF Placed
    <3>2. Balanced(pc[c], label, 0, 0, 0, 0)
      BY <2>0, <2>1 DEF Balanced, One
    <3> QED
      BY <3>1, <3>2
  <2>4. Places'
    BY <2>0, <1>2, <2>1, <2>2, <2>3, GotoPlaces
  <2> QED
    BY <1>2, <2>1, <2>2, <2>4 DEF PlaceTypes, CountTypes
<1>15. CASE EndLoop(c)
  <2>1. /\ Goto(c, "leaving") /\ pc[c] = "in_call" /\ members'[Room] = members[Room]
        /\ members' \in [RoomIds -> SUBSET Conns] /\ impolite' \subseteq Conns
        /\ sock' = sock /\ queries' \in Nat
    BY <1>2, <1>15 DEF EndLoop, slotVars
  <2>2. Counted(0, 0, 0, 0) /\ counts' \in CountTypes
    BY <1>4, <1>2, <1>15 DEF EndLoop
  <2>3. Placed(c, "leaving") /\ Balanced(pc[c], "leaving", 0, 0, 0, 0)
    <3>1. Placed(c, "leaving")
      BY <1>3, <2>1 DEF Placed
    <3>2. Balanced(pc[c], "leaving", 0, 0, 0, 0)
      BY <2>1 DEF Balanced, One
    <3> QED
      BY <3>1, <3>2
  <2>4. Places'
    BY <1>2, <2>1, <2>2, <2>3, GotoPlaces
  <2> QED
    BY <1>2, <2>1, <2>2, <2>4 DEF PlaceTypes, CountTypes
<1>16. CASE Farewell(c)
  <2>1. /\ Goto(c, "drain") /\ pc[c] = "farewell" /\ members'[Room] = members[Room]
        /\ members' \in [RoomIds -> SUBSET Conns] /\ impolite' \subseteq Conns
        /\ sock' = sock /\ queries' \in Nat
    BY <1>2, <1>16 DEF Farewell, slotVars
  <2>2. Counted(0, 0, 0, 0) /\ counts' \in CountTypes
    BY <1>4, <1>2, <1>16 DEF Farewell
  <2>3. Placed(c, "drain") /\ Balanced(pc[c], "drain", 0, 0, 0, 0)
    <3>1. Placed(c, "drain")
      BY <1>3, <2>1 DEF Placed
    <3>2. Balanced(pc[c], "drain", 0, 0, 0, 0)
      BY <2>1 DEF Balanced, One
    <3> QED
      BY <3>1, <3>2
  <2>4. Places'
    BY <1>2, <2>1, <2>2, <2>3, GotoPlaces
  <2> QED
    BY <1>2, <2>1, <2>2, <2>4 DEF PlaceTypes, CountTypes
<1>17. CASE Finish(c)
  <2>1. /\ Goto(c, "closed") /\ pc[c] = "drain" /\ members'[Room] = members[Room]
        /\ members' \in [RoomIds -> SUBSET Conns] /\ impolite' \subseteq Conns
        /\ sock' = sock /\ queries' \in Nat
    BY <1>2, <1>17 DEF Finish, Ends, slotVars
  <2>2. Counted(0, 1, 0, 0) /\ counts' \in CountTypes
    BY <1>2, <1>17 DEF Finish, Ends, Counted, CountTypes
  <2>3. Placed(c, "closed") /\ Balanced(pc[c], "closed", 0, 1, 0, 0)
    <3>1. Placed(c, "closed")
      BY <1>3, <2>1 DEF Placed
    <3>2. Balanced(pc[c], "closed", 0, 1, 0, 0)
      BY <2>1 DEF Balanced, One
    <3> QED
      BY <3>1, <3>2
  <2>4. Places'
    BY <1>2, <2>1, <2>2, <2>3, GotoPlaces
  <2> QED
    BY <1>2, <2>1, <2>2, <2>4 DEF PlaceTypes, CountTypes
<1>18. CASE \E polite \in BOOLEAN : Join(c, polite)
  <2>1. /\ Goto(c, "joined") /\ pc[c] = "open" /\ members'[Room] = members[Room] \cup {c}
        /\ members' \in [RoomIds -> SUBSET Conns] /\ impolite' \subseteq Conns
        /\ sock' = sock /\ queries' \in Nat
    BY <1>2, <1>18 DEF Join, Slots!SlotsJoin
  <2>2. Counted(0, 0, 0, 0) /\ counts' \in CountTypes
    BY <1>4, <1>2, <1>18 DEF Join
  <2>3. Placed(c, "joined") /\ Balanced(pc[c], "joined", 0, 0, 0, 0)
    <3>1. Placed(c, "joined")
      BY <1>3, <2>1 DEF Placed
    <3>2. Balanced(pc[c], "joined", 0, 0, 0, 0)
      BY <2>1 DEF Balanced, One
    <3> QED
      BY <3>1, <3>2
  <2>4. Places'
    BY <1>2, <2>1, <2>2, <2>3, GotoPlaces
  <2> QED
    BY <1>2, <2>1, <2>2, <2>4 DEF PlaceTypes, CountTypes
<1>19. CASE AckFail(c)
  <2>1. /\ Goto(c, "closed") /\ pc[c] = "joined" /\ members'[Room] = members[Room] \ {c}
        /\ members' \in [RoomIds -> SUBSET Conns] /\ impolite' \subseteq Conns
        /\ sock' = sock /\ queries' \in Nat
    BY <1>2, <1>19 DEF AckFail, Ends, JoinFailed, Slots!SlotsLeave
  <2>2. Counted(0, 1, 0, 1) /\ counts' \in CountTypes
    BY <1>5, <1>2, <1>19 DEF AckFail, Ends, Counted, CountTypes
  <2>3. Placed(c, "closed") /\ Balanced(pc[c], "closed", 0, 1, 0, 1)
    <3>1. Placed(c, "closed")
      BY <1>3, <2>1 DEF Placed
    <3>2. Balanced(pc[c], "closed", 0, 1, 0, 1)
      BY <2>1 DEF Balanced, One
    <3> QED
      BY <3>1, <3>2
  <2>4. Places'
    BY <1>2, <2>1, <2>2, <2>3, GotoPlaces
  <2> QED
    BY <1>2, <2>1, <2>2, <2>4 DEF PlaceTypes, CountTypes
<1>20. CASE Leave(c)
  <2>1. /\ Goto(c, "farewell") /\ pc[c] = "leaving" /\ members'[Room] = members[Room] \ {c}
        /\ members' \in [RoomIds -> SUBSET Conns] /\ impolite' \subseteq Conns
        /\ sock' = sock /\ queries' \in Nat
    BY <1>2, <1>20 DEF Leave, Slots!SlotsLeave
  <2>2. Counted(0, 0, 0, 0) /\ counts' \in CountTypes
    BY <1>4, <1>2, <1>20 DEF Leave
  <2>3. Placed(c, "farewell") /\ Balanced(pc[c], "farewell", 0, 0, 0, 0)
    <3>1. Placed(c, "farewell")
      BY <1>3, <2>1 DEF Placed
    <3>2. Balanced(pc[c], "farewell", 0, 0, 0, 0)
      BY <2>1 DEF Balanced, One
    <3> QED
      BY <3>1, <3>2
  <2>4. Places'
    BY <1>2, <2>1, <2>2, <2>3, GotoPlaces
  <2> QED
    BY <1>2, <2>1, <2>2, <2>4 DEF PlaceTypes, CountTypes
<1>21. CASE Signal(c) \/ RelayAborted(c) \/ Relay(c) \/ Writer(c)
  <2>1. UNCHANGED <<slotVars, sock, queries, counts>> /\ pc' = pc
    BY <1>21 DEF Signal, RelayAborted, Relay, RelayRecv, RelayLag, RelayForward, RelayBroken,
       Writer, Write, WriteFail, WriterDone
  <2> QED
    BY <2>1, SamePlaces
<1>22. CASE SockDown(c)
  <2>1. UNCHANGED <<slotVars, queries, counts>> /\ pc' = pc /\ sock' \in [Conns -> {"up", "down"}]
    BY <1>2, <1>22 DEF SockDown
  <2>2. \A L : InPhase(L)' = InPhase(L)
    BY <2>1 DEF InPhase
  <2> QED
    BY <2>1, <2>2 DEF Places, PlaceTypes, slotVars
<1> QED
  BY <1>1, <1>6, <1>7, <1>8, <1>9, <1>10, <1>11, <1>12, <1>13, <1>14, <1>15, <1>16, <1>17,
     <1>18, <1>19, <1>20, <1>21, <1>22 DEF Handshake, Loop, WayOut

-----------------------------------------------------------------------------
(* The invariant                                                           *)

HandlerInv == TaskInv /\ PlaceTypes /\ InOrder /\ Farewells /\ SendersListen /\ Places

LEMMA HandlerInvInit ==
    ASSUME Init
    PROVE  HandlerInv
<1> USE DEF Init
<1>1. TaskInv
  <2>1. TaskTypes
    BY DEF TaskTypes, Labels, Early
  <2>2. Phases
    BY NoneWaits DEF Phases, Early, Serving, Receivers
  <2>3. OthersOnly
    BY DEF OthersOnly
  <2> QED
    BY <2>1, <2>2, <2>3 DEF TaskInv
<1>2. PlaceTypes
  BY DEF PlaceTypes, Slots!SlotsInit
<1>3. InOrder
  BY DEF InOrder
<1>4. Farewells
  <2> SUFFICES ASSUME NEW c \in Conns, NEW p \in Conns PROVE QuietAfter(c, p)
    BY DEF Farewells
  <2>1. fwd[c] = <<>> /\ inbox[c] = <<>> /\ byes[c] = {} /\ relay[c] # "hold"
    OBVIOUS
  <2> QED
    BY <2>1, WordsEmpty DEF QuietAfter
<1>5. SendersListen
  BY DEF SendersListen
<1>6. Places
  <2>1. /\ InPhase(HasPlace) = {} /\ InPhase(UnderWay) = {}
        /\ InPhase(Present) = {} /\ InPhase(Coming) = {}
    BY DEF InPhase, HasPlace, UnderWay, Present, Coming
  <2>2. members[Room] = {}
    BY DEF Slots!SlotsInit, RoomIds
  <2> QED
    BY <2>1, <2>2, FS_EmptySet DEF Places
<1> QED
  BY <1>1, <1>2, <1>3, <1>4, <1>5, <1>6 DEF HandlerInv

LEMMA HandlerInvNext ==
    ASSUME HandlerInv, [Next]_vars
    PROVE  HandlerInv'
<1>1. CASE Next
  <2>1. \/ Quiet
        \/ \E c \in Conns, m \in Message : Says(c, m)
        \/ \E c \in Conns : TaskStep(c)
    BY <1>1, StepKinds DEF HandlerInv, TaskInv
  <2>2. TaskInv'
    BY <2>1, QuietTaskInv, SaysTaskInv, StepTaskInv DEF HandlerInv
  <2>3. InOrder'
    BY <2>1, <2>2, QuietInOrder, SaysInOrder, StepInOrder DEF HandlerInv
  <2>4. Farewells'
    BY <2>1, QuietFarewells, SaysFarewells, StepFarewells DEF HandlerInv
  <2>5. SendersListen'
    BY <2>1, <2>2, SendersNext DEF HandlerInv
  <2>6. PlaceTypes' /\ Places'
    BY <1>1, PlacesNext DEF HandlerInv
  <2> QED
    BY <2>2, <2>3, <2>4, <2>5, <2>6 DEF HandlerInv
<1>2. CASE UNCHANGED vars
  <2>1. GoesOn
    BY <1>2 DEF vars, GoesOn, HandlerInv, TaskInv, TaskTypes
  <2>2. Quiet /\ UNCHANGED <<slotVars, sock, queries, counts>> /\ pc' = pc
    BY <1>2, <2>1 DEF vars, Quiet
  <2> QED
    BY <2>2, QuietTaskInv, QuietInOrder, QuietFarewells, SendersNext, SamePlaces DEF HandlerInv
<1> QED
  BY <1>1, <1>2

LEMMA HandlerInvariant == Spec => []HandlerInv
<1>1. Init => HandlerInv
  BY HandlerInvInit
<1>2. HandlerInv /\ [Next]_vars => HandlerInv'
  BY HandlerInvNext
<1> QED
  BY <1>1, <1>2, PTL DEF Spec

-----------------------------------------------------------------------------
(* Theorems                                                                *)

\* The variables have their types, and the tasks are where their handler is: they
\* run from Subscribe to Finish, and a queue ends with its task (handler.rs:154).
THEOREM HandlerTypes == Spec => [](PlaceTypes /\ TaskTypes /\ Phases)
<1>1. HandlerInv => PlaceTypes /\ TaskTypes /\ Phases
  BY DEF HandlerInv, TaskInv
<1> QED
  BY <1>1, HandlerInvariant, PTL

\* Places and counters tell the same story, whichever way the handlers take out
\* (handler.rs:90 to 210).
THEOREM PlacesAreCounted == Spec => []PlacesCounted
<1>1. HandlerInv => PlacesCounted
  BY PlacesIsPlacesCounted DEF HandlerInv
<1> QED
  BY <1>1, HandlerInvariant, PTL

\* What is written to a client of one peer's signals has no gap and no
\* repetition, for rings and queues of any capacity.
THEOREM SignalsAreGapFree == Spec => GapFree
<1> DEFINE Step == \A c \in Conns : Write(c) /\ Head(fwd[c]).kind = "signal" =>
                     LET m == Head(fwd[c]) IN heard[c][m.from] = m.n - 1
<1>1. HandlerInv /\ [Next]_vars => [Step]_vars
  BY NextInOrder DEF HandlerInv
<1> QED
  BY <1>1, HandlerInvariant, PTL DEF Spec, GapFree

\* Nothing of a peer is written to a client after that peer's farewell.
THEOREM FarewellsAreLast == Spec => FarewellIsLast
<1> DEFINE Step == \A c \in Conns : Write(c) => Head(fwd[c]).from \notin byes[c]
<1>1. ASSUME HandlerInv, NEW c \in Conns, Write(c)
      PROVE  Head(fwd[c]).from \notin byes[c]
  <2>1. fwd[c] \in Seq(Message) /\ fwd[c] # <<>> /\ byes[c] \subseteq Conns /\ c \notin byes[c]
    BY <1>1 DEF HandlerInv, TaskInv, TaskTypes, OthersOnly, Write
  <2>2. \A p \in byes[c] : Silent(fwd[c], p)
    BY <1>1, <2>1 DEF HandlerInv, Farewells, QuietAfter
  <2> QED
    BY <2>1, <2>2, WordsTail
<1>2. HandlerInv /\ [Next]_vars => [Step]_vars
  BY <1>1
<1> QED
  BY <1>2, HandlerInvariant, PTL DEF Spec, FarewellIsLast

\* A peer that a client hears of is subscribed already, or gone.
THEOREM AnnouncedPeersListen == Spec => AnnouncedListens
<1> DEFINE Step == \A c \in Conns : Write(c) /\ Head(fwd[c]).kind = "peer_joined" =>
                     LET p == Head(fwd[c]).from IN relay[p] # "off" \/ pc[p] = "closed"
<1>1. ASSUME HandlerInv, NEW c \in Conns, Write(c)
      PROVE  Listens(Head(fwd[c]).from)
  <2>1. fwd[c] \in Seq(Message) /\ fwd[c] # <<>>
    BY <1>1 DEF HandlerInv, TaskInv, TaskTypes, Write
  <2> QED
    BY <1>1, <2>1, TailIs DEF HandlerInv, SendersListen
<1>2. HandlerInv /\ [Next]_vars => [Step]_vars
  BY <1>1 DEF Listens
<1> QED
  BY <1>2, HandlerInvariant, PTL DEF Spec, AnnouncedListens

=============================================================================
