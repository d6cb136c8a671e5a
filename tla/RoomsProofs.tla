---------------------------- MODULE RoomsProofs ----------------------------
(***************************************************************************)
(* Theorems about Rooms, for every set of connections and room ids and     *)
(* every value of the limits: type correctness, and the guarantees of the  *)
(* registry, some of which last only until an eviction.                    *)
(***************************************************************************)
EXTENDS Rooms, FiniteSetTheorems, TLAPS

(* Adding to and subtracting from a counter of CountMod values.            *)
LEMMA CounterType ==
    ASSUME NEW n \in 0 .. CountMod - 1
    PROVE  /\ (n + 1) % CountMod \in 0 .. CountMod - 1
           /\ (n + CountMod - 1) % CountMod \in 0 .. CountMod - 1
  BY CounterAssumption, SMT

LEMMA CounterExact ==
    ASSUME NEW n \in 0 .. CountMod - 1
    PROVE  /\ n + 1 < CountMod => (n + 1) % CountMod = n + 1
           /\ n > 0 => (n + CountMod - 1) % CountMod = n - 1
  BY CounterAssumption, SMT

-----------------------------------------------------------------------------
(* Type correctness                                                        *)

LEMMA TypeInit == Init => TypeOK
<1> SUFFICES ASSUME Init PROVE TypeOK
  OBVIOUS
<1>1. 0 \in 0 .. CountMod - 1 /\ 0 \in 0 .. AgeCap /\ 0 \in 0 .. MaxRooms /\ 1 \in Nat \ {0}
  BY LimitsAssumption, CounterAssumption DEF AgeCap
<1>2. "idle" \in Pcs
  BY DEF Pcs
<1>3. /\ inner \in [RoomIds -> Objects \cup {NoRoom}]
      /\ created \in 0 .. MaxRooms
      /\ count \in [Objects -> 0 .. CountMod - 1]
      /\ nextPeerId \in [Objects -> Nat \ {0}]
      /\ emptySince \in [Objects -> 0 .. AgeCap]
      /\ gauge \in Int
      /\ peerId \in [Conns -> Nat]
  BY <1>1 DEF Init
<1>4. QED BY <1>2, <1>3 DEF Init, TypeOK

LEMMA TypeNext == TypeOK /\ [Next]_vars => TypeOK'
<1> SUFFICES ASSUME TypeOK, [Next]_vars PROVE TypeOK'
  OBVIOUS
<1> USE LimitsAssumption, NoneAssumption DEF TypeOK, Objects, NoRoom, Goto
<1>pcs. Pcs = {"idle", "admit", "refuse", "clear", "report", "draw", "ack", "connect",
               "in_call", "leave", "mark_empty", "drain"}
  BY DEF Pcs, Engaged, Counted, Placed, Joining
<1>1. ASSUME NEW c \in Conns, NEW id \in RoomIds, Entry(c, id) PROVE TypeOK'
  <2>1. CASE EnterExisting(c, id)
    BY <1>pcs, <1>1, <2>1 DEF Entry, EnterExisting, sweepVars
  <2>2. CASE EnterFresh(c, id)
    <3>1. created + 1 \in Objects /\ created + 1 \in 0 .. MaxRooms
      BY <2>2 DEF EnterFresh
    <3>2. inner' \in [RoomIds -> Objects \cup {NoRoom}]
      BY <2>2, <3>1 DEF EnterFresh
    <3>3. \A d \in Conns : pc'[d] = "mark_empty" => inner'[at'[d]] \in Objects
      BY <1>1, <2>2, <3>1 DEF Entry, EnterFresh
    <3>4. /\ at' \in [Conns -> RoomIds \cup {None}]
          /\ arc' \in [Conns -> Objects \cup {NoRoom}]
          /\ opener' \in [Conns -> BOOLEAN]
          /\ pc' \in [Conns -> Pcs]
      BY <1>pcs, <1>1, <2>2, <3>1 DEF Entry, EnterFresh
    <3>5. \A d \in Conns : pc'[d] # "idle" => at'[d] \in RoomIds /\ arc'[d] \in Objects
      BY <1>1, <2>2, <3>1 DEF Entry, EnterFresh
    <3>6. QED BY <1>1, <2>2, <3>1, <3>2, <3>3, <3>4, <3>5 DEF Entry, EnterFresh, sweepVars
  <2>3. QED BY <1>1, <2>1, <2>2 DEF Entry
<1>2. ASSUME NEW c \in Conns, Admit(c) PROVE TypeOK'
  <2>1. (count[arc[c]] + 1) % CountMod \in 0 .. CountMod - 1
    BY <1>2, CounterType DEF Admit
  <2> DEFINE more == (count[arc[c]] + 1) % CountMod
  <2>a. count' = [count EXCEPT ![arc[c]] = more]
    BY <1>2 DEF Admit
  <2>b. more \in 0 .. CountMod - 1
    BY <2>1
  <2> HIDE DEF more
  <2>2. count' \in [Objects -> 0 .. CountMod - 1]
    BY <2>a, <2>b
  <2>3. polite' \in [Conns -> BOOLEAN] /\ pc' \in [Conns -> Pcs]
    <3>1. CASE Full(arc[c])
      BY <1>pcs, <1>2, <3>1 DEF Admit
    <3>2. CASE ~Full(arc[c])
      <4>1. pc' = [pc EXCEPT ![c] = "clear"] /\ polite' = [polite EXCEPT ![c] = RoleOf(arc[c])]
        BY <1>2, <3>2 DEF Admit
      <4>2. RoleOf(arc[c]) \in BOOLEAN
        BY DEF RoleOf
      <4>3. QED BY <1>pcs, <4>1, <4>2
    <3>3. QED BY <3>1, <3>2
  <2>4. \A d \in Conns : pc'[d] # "idle" => at[d] \in RoomIds /\ arc[d] \in Objects
    BY <1>2 DEF Admit
  <2>5. \A d \in Conns : pc'[d] = "mark_empty" => inner[at[d]] \in Objects
    BY <1>2 DEF Admit
  <2>6. QED BY <1>2, <2>2, <2>3, <2>4, <2>5 DEF Admit, sweepVars
<1>3. ASSUME NEW c \in Conns, Refuse(c) PROVE TypeOK'
  <2>1. (count[arc[c]] + CountMod - 1) % CountMod \in 0 .. CountMod - 1
    BY <1>3, CounterType DEF Refuse
  <2>2. QED BY <1>pcs, <1>3, <2>1 DEF Refuse, Finish, sweepVars
<1>4. ASSUME NEW c \in Conns, Clear(c) PROVE TypeOK'
  <2>1. emptySince' \in [Objects -> 0 .. AgeCap]
    BY <1>4 DEF Clear, AgeCap
  <2>2. pc' \in [Conns -> Pcs]
    BY <1>pcs, <1>4 DEF Clear
  <2>3. QED BY SMTT(30), <1>4, <2>1, <2>2 DEF Clear, sweepVars
<1>18. ASSUME NEW c \in Conns, ReportOpened(c) PROVE TypeOK'
  <2>1. gauge' \in Int
    BY <1>18 DEF ReportOpened
  <2>2. pc' \in [Conns -> Pcs]
    BY <1>pcs, <1>18 DEF ReportOpened
  <2>3. QED BY SMTT(30), <1>18, <2>1, <2>2 DEF ReportOpened, roomVars, sweepVars
<1>16. ASSUME NEW c \in Conns, DrawPeerId(c) PROVE TypeOK'
  <2>1. arc[c] \in Objects
    BY <1>16 DEF DrawPeerId
  <2>2. nextPeerId' \in [Objects -> Nat \ {0}] /\ peerId' \in [Conns -> Nat]
    <3>1. nextPeerId[arc[c]] \in Nat \ {0}
      BY <2>1
    <3>2. /\ nextPeerId' = [nextPeerId EXCEPT ![arc[c]] = nextPeerId[arc[c]] + 1]
          /\ peerId' = [peerId EXCEPT ![c] = nextPeerId[arc[c]]]
      BY <1>16 DEF DrawPeerId, DrawnId
    <3> QED
      BY <2>1, <3>1, <3>2
  <2>3. pc' \in [Conns -> Pcs]
    BY <1>pcs, <1>16 DEF DrawPeerId
  <2>4. \A d \in Conns : pc'[d] # "idle" => at[d] \in RoomIds /\ arc[d] \in Objects
    BY <1>16 DEF DrawPeerId
  <2>5. \A d \in Conns : pc'[d] = "mark_empty" => inner[at[d]] \in Objects
    BY <1>16 DEF DrawPeerId
  <2>6. QED BY SMTT(30), <1>16, <2>2, <2>3, <2>4, <2>5 DEF DrawPeerId, sweepVars
<1>5. ASSUME NEW c \in Conns, AckOk(c) \/ AckFail(c) PROVE TypeOK'
  BY ZenonT(40), <1>pcs, <1>5 DEF AckOk, AckFail, roomVars, sweepVars
<1>6. ASSUME NEW c \in Conns, MarkConnected(c) PROVE TypeOK'
  BY <1>pcs, <1>6 DEF MarkConnected, sweepVars
<1>7. ASSUME NEW c \in Conns, Hangup(c) PROVE TypeOK'
  BY <1>pcs, <1>7 DEF Hangup, SeesCall, roomVars, sweepVars
<1>8. ASSUME NEW c \in Conns, LeaveDec(c) PROVE TypeOK'
  <2>1. CASE inner[at[c]] = NoRoom
    BY ZenonT(40), <1>pcs, <1>8, <2>1 DEF LeaveDec, sweepVars
  <2>2. CASE inner[at[c]] # NoRoom
    <3>1. inner[at[c]] \in Objects
      BY <1>8, <2>2 DEF LeaveDec
    <3>2. (count[inner[at[c]]] + CountMod - 1) % CountMod \in 0 .. CountMod - 1
      BY <3>1, CounterType
    <3> DEFINE less == (count[inner[at[c]]] + CountMod - 1) % CountMod
    <3>a. count' = [count EXCEPT ![inner[at[c]]] = less]
      BY <1>8, <2>2 DEF LeaveDec
    <3>b. less \in 0 .. CountMod - 1
      BY <3>2
    <3> HIDE DEF less
    <3>3. count' \in [Objects -> 0 .. CountMod - 1]
      BY <3>a, <3>b
    <3>4. pc' \in [Conns -> Pcs]
      <4>1. \/ pc' = [pc EXCEPT ![c] = "mark_empty"]
            \/ pc' = [pc EXCEPT ![c] = "drain"]
        BY <1>8, <2>2 DEF LeaveDec
      <4>2. QED BY <1>pcs, <4>1
    <3>5. \A d \in Conns : pc'[d] = "mark_empty" => inner[at[d]] \in Objects
      BY <1>8, <3>1 DEF LeaveDec
    <3>6. \A d \in Conns : pc'[d] # "idle" => at[d] \in RoomIds /\ arc[d] \in Objects
      BY <1>8 DEF LeaveDec
    <3>7. QED BY <1>8, <3>3, <3>4, <3>5, <3>6 DEF LeaveDec, sweepVars
  <2>3. QED BY <2>1, <2>2
<1>9. ASSUME NEW c \in Conns, LeaveMark(c) PROVE TypeOK'
  <2>1. emptySince' \in [Objects -> 0 .. AgeCap]
    BY <1>9 DEF LeaveMark, AgeCap
  <2>2. pc' \in [Conns -> Pcs]
    BY <1>pcs, <1>9 DEF LeaveMark
  <2>3. QED BY <1>9, <2>1, <2>2 DEF LeaveMark, sweepVars
<1>10. ASSUME NEW c \in Conns, TryMarkEnded(c) PROVE TypeOK'
  BY <1>pcs, <1>10 DEF TryMarkEnded, Finish, sweepVars
<1>11. CASE Tick
  <2>1. emptySince' \in [Objects -> 0 .. AgeCap]
    BY <1>11 DEF Tick, AgeCap
  <2>2. QED BY <1>11, <2>1 DEF Tick, connVars, sweepVars
<1>12. CASE Scan
  BY <1>12 DEF Scan, roomVars, connVars
<1>13. ASSUME NEW id \in RoomIds, CheckKey(id) PROVE TypeOK'
  BY <1>13 DEF CheckKey, roomVars, connVars
<1>14. CASE RemoveKey
  <2>1. closing' \in BOOLEAN /\ evicted' \in BOOLEAN /\ victim' \in RoomIds \cup {None}
    BY <1>14 DEF RemoveKey
  <2>2. inner' \in [RoomIds -> Objects \cup {NoRoom}]
    BY <1>14 DEF RemoveKey
  <2>3. \A c \in Conns : pc[c] = "mark_empty" => inner'[at[c]] \in Objects
    BY <1>14 DEF RemoveKey, ReadLocked
  <2>4. QED BY <1>14, <2>1, <2>2, <2>3 DEF RemoveKey, connVars
<1>15. CASE UNCHANGED vars
  BY <1>15 DEF vars, roomVars, connVars, sweepVars
<1>17. CASE ReportClosed
  <2>1. gauge' \in Int
    BY <1>17 DEF ReportClosed
  <2>2. closing' \in BOOLEAN
    BY <1>17, Zenon DEF ReportClosed
  <2>3. QED BY SMTT(30), <1>17, <2>1, <2>2 DEF ReportClosed, roomVars, connVars
<1> QED
  BY <1>1, <1>2, <1>3, <1>4, <1>5, <1>6, <1>7, <1>8, <1>9, <1>10, <1>11, <1>12, <1>13,
     <1>14, <1>15, <1>16, <1>17, <1>18 DEF Next, Handler, Cleaner

(* Every reachable state has its type: no counter leaves its width, and a  *)
(* leave that is about to store empty_since still finds its room.          *)
THEOREM TypeCorrect == Spec => []TypeOK
<1>1. Init => TypeOK BY TypeInit
<1>2. TypeOK /\ [Next]_vars => TypeOK' BY TypeNext
<1>3. QED BY <1>1, <1>2, PTL DEF Spec

-----------------------------------------------------------------------------
(* The inductive invariant.  Whatever the cleanup task does, ids are bound *)
(* to objects already allocated; until it unmaps an object in use, every   *)
(* handler with a place finds its own object under its room id, and that   *)
(* is what makes the count exact although leave looks the room up by id.   *)

Allocated ==
    /\ \A id \in RoomIds : inner[id] <= created
    /\ \A c \in Conns : arc[c] <= created

Linked == \A c \in Conns : pc[c] \in Joining \cup Placed => inner[at[c]] = arc[c]

Counts == \A o \in Objects : count[o] = Cardinality(Holders(o))

Capacity == \A id \in RoomIds : Cardinality(Members(id)) <= MAX_PARTICIPANTS

OneImpolite ==
    \A c, d \in Conns :
        /\ pc[c] \in Placed /\ pc[d] \in Placed
        /\ at[c] = at[d] /\ ~polite[c] /\ ~polite[d]
        => c = d

Core == Linked /\ Counts /\ Capacity /\ OneImpolite

IInv == TypeOK /\ Allocated /\ (~evicted => Core)

LEMMA PcSets ==
    /\ Joining \cup Placed = {"admit", "clear", "report", "draw", "ack", "connect", "in_call",
                             "leave"}
    /\ Placed = {"clear", "report", "draw", "ack", "connect", "in_call", "leave"}
    /\ Counted = {"clear", "report", "draw", "ack", "connect", "in_call", "leave", "refuse"}
    /\ Joining = {"admit"}
  BY DEF Joining, Placed, Counted

LEMMA HoldersFinite ==
    \A o \in Objects : IsFiniteSet(Holders(o)) /\ Cardinality(Holders(o)) \in Nat
                     /\ Cardinality(Holders(o)) <= Cardinality(Conns)
<1> SUFFICES ASSUME NEW o \in Objects
             PROVE  IsFiniteSet(Holders(o)) /\ Cardinality(Holders(o)) \in Nat
                    /\ Cardinality(Holders(o)) <= Cardinality(Conns)
  OBVIOUS
<1>1. Holders(o) \subseteq Conns BY DEF Holders
<1>2. QED BY <1>1, ConnsAssumption, FS_Subset, FS_CardinalityType

LEMMA MembersFinite ==
    \A id \in RoomIds : IsFiniteSet(Members(id)) /\ Cardinality(Members(id)) \in Nat
<1> SUFFICES ASSUME NEW id \in RoomIds
             PROVE  IsFiniteSet(Members(id)) /\ Cardinality(Members(id)) \in Nat
  OBVIOUS
<1>1. Members(id) \subseteq Conns BY DEF Members
<1>2. QED BY <1>1, ConnsAssumption, FS_Subset, FS_CardinalityType

-----------------------------------------------------------------------------
LEMMA AllocatedNext == TypeOK /\ Allocated /\ [Next]_vars => Allocated'
<1> SUFFICES ASSUME TypeOK, Allocated, [Next]_vars PROVE Allocated'
  OBVIOUS
<1> USE DEF Allocated
<1>0. created \in Nat /\ inner \in [RoomIds -> 0 .. MaxRooms] /\ arc \in [Conns -> 0 .. MaxRooms]
  BY LimitsAssumption DEF TypeOK, Objects, NoRoom
<1>1. ASSUME NEW c \in Conns, NEW id \in RoomIds, Entry(c, id) PROVE Allocated'
  <2>1. CASE EnterExisting(c, id)
    BY <1>0, <1>1, <2>1 DEF Entry, EnterExisting
  <2>2. CASE EnterFresh(c, id)
    BY <1>0, <1>1, <2>2 DEF Entry, EnterFresh
  <2>3. QED BY <1>1, <2>1, <2>2 DEF Entry
<1>2. ASSUME NEW c \in Conns, Refuse(c) \/ TryMarkEnded(c) PROVE Allocated'
  BY <1>0, <1>2 DEF Refuse, TryMarkEnded, Finish, NoRoom
<1>3. CASE RemoveKey
  BY <1>0, <1>3 DEF RemoveKey, NoRoom, connVars
<1>4. ASSUME UNCHANGED <<inner, created, arc>> PROVE Allocated'
  BY <1>4
<1>5. QED
  BY <1>1, <1>2, <1>3, <1>4
  DEF Next, Handler, Cleaner, Admit, Clear, ReportOpened, DrawPeerId, ReportClosed, AckOk,
      AckFail, MarkConnected, Hangup, LeaveDec, LeaveMark, Tick, Scan, CheckKey, vars, roomVars,
      connVars

\* A step that is not an eviction keeps every placed handler linked.
LEMMA LinkedNext == TypeOK /\ Linked /\ [Next]_vars /\ ~evicted' => Linked'
<1> SUFFICES ASSUME TypeOK, Linked, [Next]_vars, ~evicted' PROVE Linked'
  OBVIOUS
<1> USE PcSets DEF Linked
<1>0. /\ inner \in [RoomIds -> 0 .. MaxRooms] /\ arc \in [Conns -> 0 .. MaxRooms]
      /\ \A c \in Conns : pc[c] # "idle" => at[c] \in RoomIds /\ arc[c] \in 1 .. MaxRooms
      /\ pc \in [Conns -> Pcs] /\ at \in [Conns -> RoomIds \cup {None}]
  BY LimitsAssumption DEF TypeOK, Objects, NoRoom
<1>1. ASSUME NEW c \in Conns, NEW id \in RoomIds, Entry(c, id) PROVE Linked'
  <2> SUFFICES ASSUME NEW d \in Conns, (pc[d] \in Joining \cup Placed)'
               PROVE  (inner[at[d]] = arc[d])'
    OBVIOUS
  <2>1. CASE EnterExisting(c, id)
    BY <1>0, <1>1, <2>1 DEF Entry, EnterExisting, Goto
  <2>2. CASE EnterFresh(c, id) /\ d = c
    BY <1>0, <1>1, <2>2 DEF Entry, EnterFresh, Goto
  <2>3. CASE EnterFresh(c, id) /\ d # c
    <3>1. pc[d] \in Joining \cup Placed /\ at'[d] = at[d] /\ arc'[d] = arc[d]
      BY <1>0, <1>1, <2>3 DEF Entry, EnterFresh, Goto
    <3>2. inner[at[d]] = arc[d] /\ arc[d] # NoRoom /\ at[d] \in RoomIds
      BY <1>0, <3>1 DEF NoRoom
    <3>3. at[d] # id
      BY <2>3, <3>2 DEF EnterFresh
    <3>4. QED BY <1>0, <2>3, <3>1, <3>2, <3>3 DEF EnterFresh
  <2>4. QED BY <1>1, <2>1, <2>2, <2>3 DEF Entry
<1>2. ASSUME NEW c \in Conns, Handler(c) PROVE Linked'
  <2>1. CASE Refuse(c) \/ TryMarkEnded(c)
    BY <1>0, <2>1 DEF Refuse, TryMarkEnded, Finish, Goto
  <2>2. CASE Admit(c)
    BY <1>0, <2>2 DEF Admit, Goto
  <2>3. CASE \/ Clear(c) \/ ReportOpened(c) \/ DrawPeerId(c) \/ AckOk(c) \/ AckFail(c)
             \/ MarkConnected(c) \/ Hangup(c)
    BY <1>0, <2>3 DEF Clear, ReportOpened, DrawPeerId, AckOk, AckFail, MarkConnected, Hangup, Goto,
                      roomVars
  <2>4. CASE LeaveDec(c) \/ LeaveMark(c)
    BY <1>0, <2>4 DEF LeaveDec, LeaveMark, Goto
  <2>5. QED BY <1>2, <2>1, <2>2, <2>3, <2>4 DEF Handler
<1>3. CASE RemoveKey
  <2> SUFFICES ASSUME NEW c \in Conns, pc[c] \in Joining \cup Placed
               PROVE  inner'[at[c]] = arc[c]
    BY <1>3 DEF RemoveKey, connVars
  <2>1. at[c] \in RoomIds /\ inner[at[c]] = arc[c]
    BY <1>0
  <2>2. at[c] # victim
    BY <1>3, <2>1 DEF RemoveKey, Counted
  <2>3. QED BY <1>0, <1>3, <2>1, <2>2 DEF RemoveKey
<1>4. CASE Tick \/ Scan \/ (\E id \in RoomIds : CheckKey(id)) \/ ReportClosed \/ UNCHANGED vars
  BY <1>4 DEF Tick, Scan, CheckKey, ReportClosed, vars, roomVars, connVars
<1>5. QED BY <1>1, <1>2, <1>3, <1>4 DEF Next, Cleaner

-----------------------------------------------------------------------------
\* The three ways a step changes the handlers counted in an object.
LEMMA CountKept ==
    ASSUME Counts, count' = count,
           \A d \in Conns, o \in Objects :
               (arc[d] = o /\ pc[d] \in Counted)' <=> (arc[d] = o /\ pc[d] \in Counted)
    PROVE  Counts'
<1> SUFFICES ASSUME NEW o \in Objects PROVE count'[o] = Cardinality(Holders(o)')
  BY DEF Counts
<1>1. Holders(o)' = Holders(o) BY DEF Holders
<1>2. QED BY <1>1 DEF Counts

LEMMA CountUp ==
    ASSUME TypeOK, Counts, NEW c \in Conns, arc[c] \in Objects, arc' = arc,
           pc[c] \notin Counted, pc'[c] \in Counted,
           \A d \in Conns : d # c => pc'[d] = pc[d],
           count' = [count EXCEPT ![arc[c]] = (count[arc[c]] + 1) % CountMod]
    PROVE  Counts'
<1> SUFFICES ASSUME NEW o \in Objects PROVE count'[o] = Cardinality(Holders(o)')
  BY DEF Counts
<1>1. CASE o # arc[c]
  <2>1. Holders(o)' = Holders(o) BY <1>1 DEF Holders
  <2>2. count'[o] = count[o] BY <1>1 DEF TypeOK
  <2>3. QED BY <2>1, <2>2 DEF Counts
<1>2. CASE o = arc[c]
  <2>1. Holders(o)' = Holders(o) \cup {c} /\ c \notin Holders(o)
    BY <1>2 DEF Holders
  <2>2. Cardinality(Holders(o)') = Cardinality(Holders(o)) + 1
    BY <2>1, HoldersFinite, FS_AddElement
  <2>3. Holders(o)' \subseteq Conns
    BY <2>1 DEF Holders
  <2>4. Cardinality(Holders(o)) + 1 < CountMod
    <3>1. Cardinality(Holders(o)') <= Cardinality(Conns) /\ Cardinality(Conns) \in Nat
      BY <2>3, ConnsAssumption, FS_Subset, FS_CardinalityType
    <3>2. QED BY <2>2, <3>1, HoldersFinite, CounterAssumption
  <2>5. count[o] = Cardinality(Holders(o)) /\ count[o] \in 0 .. CountMod - 1
    BY DEF Counts, TypeOK
  <2>6. (count[o] + 1) % CountMod = count[o] + 1
    BY <2>4, <2>5, CounterExact
  <2> DEFINE more == (count[arc[c]] + 1) % CountMod
  <2>7. count' = [count EXCEPT ![o] = more] /\ more = Cardinality(Holders(o)')
    BY <1>2, <2>2, <2>5, <2>6
  <2> HIDE DEF more
  <2>8. QED BY <2>7 DEF TypeOK
<1>3. QED BY <1>1, <1>2

LEMMA CountDown ==
    ASSUME TypeOK, Counts, NEW c \in Conns, arc[c] \in Objects,
           pc[c] \in Counted, pc'[c] \notin Counted,
           \A d \in Conns : d # c => pc'[d] = pc[d] /\ arc'[d] = arc[d],
           count' = [count EXCEPT ![arc[c]] = (count[arc[c]] + CountMod - 1) % CountMod]
    PROVE  Counts'
<1> SUFFICES ASSUME NEW o \in Objects PROVE count'[o] = Cardinality(Holders(o)')
  BY DEF Counts
<1>1. CASE o # arc[c]
  <2>1. Holders(o)' = Holders(o) BY <1>1 DEF Holders
  <2>2. count'[o] = count[o] BY <1>1 DEF TypeOK
  <2>3. QED BY <2>1, <2>2 DEF Counts
<1>2. CASE o = arc[c]
  <2>1. Holders(o)' = Holders(o) \ {c} /\ c \in Holders(o)
    BY <1>2 DEF Holders
  <2>2. Cardinality(Holders(o)') = Cardinality(Holders(o)) - 1
    BY <2>1, HoldersFinite, FS_RemoveElement
  <2>3. Cardinality(Holders(o)) # 0
    BY <2>1, HoldersFinite, FS_EmptySet
  <2>4. count[o] = Cardinality(Holders(o)) /\ count[o] \in 0 .. CountMod - 1
    BY DEF Counts, TypeOK
  <2>5. (count[o] + CountMod - 1) % CountMod = count[o] - 1
    BY <2>3, <2>4, CounterExact
  <2> DEFINE less == (count[arc[c]] + CountMod - 1) % CountMod
  <2>6. count' = [count EXCEPT ![o] = less] /\ less = Cardinality(Holders(o)')
    BY <1>2, <2>2, <2>4, <2>5
  <2> HIDE DEF less
  <2>7. QED BY <2>6 DEF TypeOK
<1>3. QED BY <1>1, <1>2

LEMMA CountsNext == TypeOK /\ Linked /\ Counts /\ [Next]_vars => Counts'
<1> SUFFICES ASSUME TypeOK, Linked, Counts, [Next]_vars PROVE Counts'
  OBVIOUS
<1> USE PcSets
<1>0. /\ \A c \in Conns : pc[c] # "idle" => at[c] \in RoomIds /\ arc[c] \in Objects
      /\ pc \in [Conns -> Pcs] /\ arc \in [Conns -> Objects \cup {NoRoom}]
  BY DEF TypeOK
<1>1. ASSUME NEW c \in Conns, NEW id \in RoomIds, Entry(c, id) PROVE Counts'
  <2>1. /\ pc[c] = "idle" /\ pc'[c] = "admit" /\ count' = count
        /\ \A d \in Conns : d # c => pc'[d] = pc[d] /\ arc'[d] = arc[d]
    BY <1>0, <1>1 DEF Entry, EnterExisting, EnterFresh, Goto
  <2>2. \A d \in Conns, o \in Objects :
            (arc[d] = o /\ pc[d] \in Counted)' <=> (arc[d] = o /\ pc[d] \in Counted)
    BY <2>1
  <2>3. QED BY <2>1, <2>2, CountKept
<1>2. ASSUME NEW c \in Conns, Admit(c) PROVE Counts'
  <2>1. pc[c] = "admit" /\ arc[c] \in Objects /\ arc' = arc
    BY <1>0, <1>2 DEF Admit
  <2>2. pc'[c] \in Counted /\ \A d \in Conns : d # c => pc'[d] = pc[d]
    BY <1>0, <1>2 DEF Admit, Goto
  <2>3. count' = [count EXCEPT ![arc[c]] = (count[arc[c]] + 1) % CountMod]
    BY <1>2 DEF Admit
  <2>4. QED BY <2>1, <2>2, <2>3, CountUp
<1>3. ASSUME NEW c \in Conns, Refuse(c) PROVE Counts'
  <2>1. /\ pc[c] \in Counted /\ pc'[c] \notin Counted /\ arc[c] \in Objects
        /\ \A d \in Conns : d # c => pc'[d] = pc[d] /\ arc'[d] = arc[d]
    BY <1>0, <1>3 DEF Refuse, Finish, Goto
  <2>2. count' = [count EXCEPT ![arc[c]] = (count[arc[c]] + CountMod - 1) % CountMod]
    BY <1>3 DEF Refuse
  <2>3. QED BY <2>1, <2>2, CountDown
<1>4. ASSUME NEW c \in Conns, LeaveDec(c) PROVE Counts'
  <2>1. pc[c] \in Counted /\ arc[c] \in Objects /\ inner[at[c]] = arc[c] /\ arc' = arc
    BY <1>0, <1>4 DEF LeaveDec, Linked
  <2>2. pc'[c] \notin Counted /\ \A d \in Conns : d # c => pc'[d] = pc[d]
    BY <1>0, <1>4 DEF LeaveDec, Goto
  <2>3. count' = [count EXCEPT ![arc[c]] = (count[arc[c]] + CountMod - 1) % CountMod]
    BY <1>4, <2>1 DEF LeaveDec, Objects, NoRoom
  <2>4. QED BY <2>1, <2>2, <2>3, CountDown
<1>5. ASSUME NEW c \in Conns,
             \/ Clear(c) \/ ReportOpened(c) \/ DrawPeerId(c) \/ AckOk(c) \/ AckFail(c)
             \/ MarkConnected(c) \/ Hangup(c) \/ LeaveMark(c) \/ TryMarkEnded(c)
      PROVE  Counts'
  <2>1. /\ count' = count
        /\ pc'[c] \in Counted <=> pc[c] \in Counted
        /\ arc'[c] = arc[c] \/ (pc[c] \notin Counted /\ pc'[c] \notin Counted)
        /\ \A d \in Conns : d # c => pc'[d] = pc[d] /\ arc'[d] = arc[d]
    BY <1>0, <1>5 DEF Clear, ReportOpened, DrawPeerId, AckOk, AckFail, MarkConnected, Hangup,
                      LeaveMark, TryMarkEnded, Finish, Goto, roomVars
  <2>2. \A d \in Conns, o \in Objects :
            (arc[d] = o /\ pc[d] \in Counted)' <=> (arc[d] = o /\ pc[d] \in Counted)
    BY <2>1
  <2>3. QED BY <2>1, <2>2, CountKept
<1>6. CASE Tick \/ Cleaner \/ UNCHANGED vars
  <2>1. count' = count /\ pc' = pc /\ arc' = arc
    BY <1>6 DEF Tick, Cleaner, Scan, CheckKey, RemoveKey, ReportClosed, vars, roomVars, connVars
  <2>2. QED BY <2>1, CountKept
<1>7. QED BY <1>1, <1>2, <1>3, <1>4, <1>5, <1>6 DEF Next, Handler

-----------------------------------------------------------------------------
\* A handler is given a place only when the room has one free, and the
\* impolite role only when no place is taken.
LEMMA PlacesNext ==
    TypeOK /\ Linked /\ Counts /\ Capacity /\ OneImpolite /\ [Next]_vars
        => Capacity' /\ OneImpolite'
<1> SUFFICES ASSUME TypeOK, Linked, Counts, Capacity, OneImpolite, [Next]_vars
             PROVE  Capacity' /\ OneImpolite'
  OBVIOUS
<1> USE PcSets
<1>0. /\ \A c \in Conns : pc[c] # "idle" => at[c] \in RoomIds /\ arc[c] \in Objects
      /\ pc \in [Conns -> Pcs] /\ at \in [Conns -> RoomIds \cup {None}]
      /\ polite \in [Conns -> BOOLEAN]
  BY DEF TypeOK
<1>1. ASSUME NEW c \in Conns, Admit(c), ~Full(arc[c]) PROVE Capacity' /\ OneImpolite'
  <2>1. /\ pc[c] = "admit" /\ pc' = [pc EXCEPT ![c] = "clear"] /\ at' = at
        /\ polite' = [polite EXCEPT ![c] = RoleOf(arc[c])]
        /\ arc[c] \in Objects /\ at[c] \in RoomIds /\ inner[at[c]] = arc[c]
    BY <1>0, <1>1 DEF Admit, Goto, Linked
  <2>2. Members(at[c]) \subseteq Holders(arc[c])
    BY <2>1 DEF Members, Holders, Linked
  <2>3. /\ count[arc[c]] = Cardinality(Holders(arc[c]))
        /\ Cardinality(Members(at[c])) <= Cardinality(Holders(arc[c]))
    BY <2>1, <2>2, HoldersFinite, FS_Subset DEF Counts
  <2>4. Capacity'
    <3> SUFFICES ASSUME NEW id \in RoomIds
                 PROVE  Cardinality(Members(id)') <= MAX_PARTICIPANTS
      BY DEF Capacity
    <3>1. CASE id # at[c]
      <4>1. Members(id)' = Members(id) BY <2>1, <3>1, <1>0 DEF Members
      <4>2. QED BY <4>1 DEF Capacity
    <3>2. CASE id = at[c]
      <4>1. Members(id)' = Members(id) \cup {c} /\ c \notin Members(id)
        BY <2>1, <3>2, <1>0 DEF Members
      <4>2. Cardinality(Members(id)') = Cardinality(Members(id)) + 1
        BY <4>1, MembersFinite, FS_AddElement
      <4>3. Cardinality(Holders(arc[c])) < MAX_PARTICIPANTS
        BY <1>1, <2>1, <2>3, HoldersFinite, LimitsAssumption DEF Full
      <4>4. QED BY <2>1, <2>3, <3>2, <4>2, <4>3, HoldersFinite, MembersFinite, LimitsAssumption
    <3>3. QED BY <3>1, <3>2
  <2>5. OneImpolite'
    <3>1. \/ polite'[c]
          \/ \A d \in Conns : pc[d] \in Placed => at[d] # at[c]
      <4>1. CASE RoleOf(arc[c])
        BY <1>0, <2>1, <4>1
      <4>2. CASE ~RoleOf(arc[c])
        <5>1. Cardinality(Holders(arc[c])) = 0
          BY <2>1, <2>3, <4>2, HoldersFinite DEF RoleOf
        <5>2. Holders(arc[c]) = {}
          BY <2>1, <5>1, HoldersFinite, FS_EmptySet
        <5>3. QED BY <2>2, <5>2 DEF Members
      <4>3. QED BY <4>1, <4>2
    <3>2. \A d \in Conns : d # c => pc'[d] = pc[d] /\ polite'[d] = polite[d]
      BY <1>0, <2>1
    <3>3. QED BY <2>1, <3>1, <3>2 DEF OneImpolite
  <2>6. QED BY <2>4, <2>5
<1>2. ASSUME \A d \in Conns : pc'[d] \in Placed =>
                 pc[d] \in Placed /\ at'[d] = at[d] /\ polite'[d] = polite[d]
      PROVE  Capacity' /\ OneImpolite'
  <2>1. Capacity'
    <3> SUFFICES ASSUME NEW id \in RoomIds
                 PROVE  Cardinality(Members(id)') <= MAX_PARTICIPANTS
      BY DEF Capacity
    <3>1. Members(id)' \subseteq Members(id) BY <1>2 DEF Members
    <3>2. Cardinality(Members(id)') <= Cardinality(Members(id)) /\ Cardinality(Members(id)') \in Nat
      BY <3>1, MembersFinite, FS_Subset, FS_CardinalityType
    <3>3. QED BY <3>2, MembersFinite, LimitsAssumption DEF Capacity
  <2>2. OneImpolite' BY <1>2 DEF OneImpolite
  <2>3. QED BY <2>1, <2>2
<1>3. ASSUME NEW c \in Conns, Handler(c), ~(Admit(c) /\ ~Full(arc[c]))
      PROVE  Capacity' /\ OneImpolite'
  <2>1. \A d \in Conns : pc'[d] \in Placed =>
            pc[d] \in Placed /\ at'[d] = at[d] /\ polite'[d] = polite[d]
    BY <1>0, <1>3 DEF Handler, Admit, Refuse, Clear, ReportOpened, DrawPeerId, AckOk, AckFail,
                      MarkConnected, Hangup,
                      LeaveDec, LeaveMark, TryMarkEnded, Finish, Goto
  <2>2. QED BY <1>2, <2>1
<1>4. ASSUME NEW c \in Conns, NEW id \in RoomIds, Entry(c, id) PROVE Capacity' /\ OneImpolite'
  <2>1. \A d \in Conns : pc'[d] \in Placed =>
            pc[d] \in Placed /\ at'[d] = at[d] /\ polite'[d] = polite[d]
    BY <1>0, <1>4 DEF Entry, Goto
  <2>2. QED BY <1>2, <2>1
<1>5. CASE Tick \/ Cleaner \/ UNCHANGED vars
  <2>1. pc' = pc /\ at' = at /\ polite' = polite
    BY <1>5 DEF Tick, Cleaner, Scan, CheckKey, RemoveKey, ReportClosed, vars, connVars
  <2>2. QED BY <1>2, <2>1
<1>6. QED BY <1>1, <1>3, <1>4, <1>5 DEF Next

-----------------------------------------------------------------------------
LEMMA IInvInit == Init => IInv
<1> SUFFICES ASSUME Init PROVE IInv
  OBVIOUS
<1> USE PcSets
<1>1. TypeOK BY TypeInit
<1>2. Allocated BY LimitsAssumption DEF Init, Allocated, NoRoom
<1>3. Linked /\ OneImpolite BY DEF Init, Linked, OneImpolite
<1>4. Counts
  <2> SUFFICES ASSUME NEW o \in Objects PROVE count[o] = Cardinality(Holders(o))
    BY DEF Counts
  <2>1. Holders(o) = {} BY DEF Init, Holders
  <2>2. QED BY <2>1, FS_EmptySet DEF Init
<1>5. Capacity
  <2> SUFFICES ASSUME NEW id \in RoomIds PROVE Cardinality(Members(id)) <= MAX_PARTICIPANTS
    BY DEF Capacity
  <2>1. Members(id) = {} BY DEF Init, Members
  <2>2. QED BY <2>1, FS_EmptySet, LimitsAssumption
<1>6. QED BY <1>1, <1>2, <1>3, <1>4, <1>5 DEF IInv, Core

LEMMA IInvNext == IInv /\ [Next]_vars => IInv'
<1> SUFFICES ASSUME IInv, [Next]_vars PROVE IInv'
  OBVIOUS
<1>1. TypeOK' /\ Allocated' BY TypeNext, AllocatedNext DEF IInv
<1>2. ASSUME ~evicted' PROVE Core'
  <2>1. ~evicted
    BY <1>2 DEF Next, Entry, Handler, Admit, Refuse, Clear, ReportOpened, DrawPeerId, AckOk,
       AckFail, MarkConnected, Hangup, LeaveDec, LeaveMark, TryMarkEnded, Tick, Cleaner, Scan,
       CheckKey, RemoveKey, ReportClosed, vars
  <2>2. TypeOK /\ Core BY <2>1 DEF IInv
  <2>3. QED BY <1>2, <2>2, LinkedNext, CountsNext, PlacesNext DEF Core
<1>3. QED BY <1>1, <1>2 DEF IInv

LEMMA IInvAlways == Spec => []IInv
<1>1. Init => IInv BY IInvInit
<1>2. IInv /\ [Next]_vars => IInv' BY IInvNext
<1>3. QED BY <1>1, <1>2, PTL DEF Spec

(* Until the cleanup task unmaps an object in use, Room::count is exactly  *)
(* the number of handlers counted in it, for any number of handlers that   *)
(* fits the counter and whatever joins, refusals and leaves interleave.    *)
THEOREM CountIsExact == Spec => []CountExact
<1>1. IInv => CountExact BY DEF IInv, Core, Counts, CountExact
<1>2. QED BY <1>1, IInvAlways, PTL

(* Under the same condition a room never has more than MAX_PARTICIPANTS    *)
(* handlers with a place.                                                  *)
THEOREM CapacityIsRespected == Spec => []CapacityRespected
<1>1. IInv => CapacityRespected BY DEF IInv, Core, Capacity, CapacityRespected
<1>2. QED BY <1>1, IInvAlways, PTL

(* Under the same condition no two handlers with a place in one room are   *)
(* both impolite.                                                          *)
THEOREM ImpoliteIsUnique == Spec => []AtMostOneImpolite
<1>1. IInv => AtMostOneImpolite BY DEF IInv, Core, OneImpolite, AtMostOneImpolite
<1>2. QED BY <1>1, IInvAlways, PTL

-----------------------------------------------------------------------------
(* Refinement of RoomSlots.  The step that takes a place is the fetch_add  *)
(* of Admit, the one that gives it back the fetch_sub of LeaveDec; every   *)
(* other step stutters.                                                    *)

LEMMA SlotsInitRefined == Init => Slots!SlotsInit
  BY PcSets DEF Init, Slots!SlotsInit, SlotMembers, SlotImpolite, Members

\* The instance counts with the Cardinality of this module.
LEMMA SameCardinality == \A S : Slots!Cardinality(S) = Cardinality(S)
  BY Zenon DEF Cardinality, Slots!Cardinality, IsFiniteSet, Slots!IsFiniteSet

LEMMA JoinIsStep ==
    ASSUME NEW c \in Conns, NEW id \in RoomIds, NEW role \in BOOLEAN,
           Slots!SlotsJoin(c, id, role)
    PROVE  Slots!SlotsNext
  BY DEF Slots!SlotsNext

LEMMA LeaveIsStep ==
    ASSUME NEW c \in Conns, NEW id \in RoomIds, Slots!SlotsLeave(c, id)
    PROVE  Slots!SlotsNext
  BY DEF Slots!SlotsNext

LEMMA SlotsStutter ==
    ASSUME \A d \in Conns : (pc[d] \in Placed)' <=> pc[d] \in Placed,
           \A d \in Conns : pc[d] \in Placed => at'[d] = at[d] /\ polite'[d] = polite[d]
    PROVE  UNCHANGED Slots!slotVars
<1>1. SlotMembers' = SlotMembers
  <2>1. \A id \in RoomIds : Members(id)' = Members(id) BY DEF Members
  <2>2. QED BY <2>1 DEF SlotMembers
<1>2. SlotImpolite' = SlotImpolite BY DEF SlotImpolite
<1>3. QED BY <1>1, <1>2 DEF Slots!slotVars

LEMMA SlotsNextRefined ==
    TypeOK /\ Core /\ [Next]_vars => [Slots!SlotsNext]_(Slots!slotVars)
<1> SUFFICES ASSUME TypeOK, Core, [Next]_vars
             PROVE  Slots!SlotsNext \/ UNCHANGED Slots!slotVars
  OBVIOUS
<1> USE PcSets
<1>0. /\ \A c \in Conns : pc[c] # "idle" => at[c] \in RoomIds /\ arc[c] \in Objects
      /\ pc \in [Conns -> Pcs] /\ at \in [Conns -> RoomIds \cup {None}]
      /\ polite \in [Conns -> BOOLEAN]
  BY DEF TypeOK
<1>1. ASSUME NEW c \in Conns, Admit(c), ~Full(arc[c]) PROVE Slots!SlotsNext
  <2>1. /\ pc[c] = "admit" /\ pc' = [pc EXCEPT ![c] = "clear"] /\ at' = at
        /\ polite' = [polite EXCEPT ![c] = RoleOf(arc[c])]
        /\ arc[c] \in Objects /\ at[c] \in RoomIds /\ inner[at[c]] = arc[c]
    BY <1>0, <1>1 DEF Admit, Goto, Core, Linked
  <2>2. Members(at[c]) \subseteq Holders(arc[c])
    BY <2>1 DEF Members, Holders, Core, Linked
  <2>3. /\ count[arc[c]] = Cardinality(Holders(arc[c]))
        /\ Cardinality(Members(at[c])) <= Cardinality(Holders(arc[c]))
    BY <2>1, <2>2, HoldersFinite, FS_Subset DEF Core, Counts
  <2>4. Cardinality(SlotMembers[at[c]]) < MAX_PARTICIPANTS
    BY <1>1, <2>1, <2>3, HoldersFinite, MembersFinite, LimitsAssumption DEF Full, SlotMembers
  <2>5. \A other \in RoomIds : c \notin SlotMembers[other]
    BY <2>1 DEF SlotMembers, Members
  <2>6. RoleOf(arc[c]) \/ SlotMembers[at[c]] = {}
    <3>1. CASE RoleOf(arc[c]) BY <3>1
    <3>2. CASE ~RoleOf(arc[c])
      <4>1. Cardinality(Holders(arc[c])) = 0
        BY <2>1, <2>3, <3>2, HoldersFinite DEF RoleOf
      <4>2. Holders(arc[c]) = {} BY <2>1, <4>1, HoldersFinite, FS_EmptySet
      <4>3. QED BY <2>1, <2>2, <4>2 DEF SlotMembers
    <3>3. QED BY <3>1, <3>2
  <2>7. SlotMembers' = [SlotMembers EXCEPT ![at[c]] = SlotMembers[at[c]] \cup {c}]
    <3>1. \A id \in RoomIds :
            Members(id)' = IF id = at[c] THEN Members(id) \cup {c} ELSE Members(id)
      BY <1>0, <2>1 DEF Members
    <3>2. QED BY <3>1, <2>1 DEF SlotMembers
  <2>8. SlotImpolite' = IF RoleOf(arc[c]) THEN SlotImpolite ELSE SlotImpolite \cup {c}
    BY <1>0, <2>1 DEF SlotImpolite
  <2>9. CASE RoleOf(arc[c])
    <3>1. SlotImpolite' = SlotImpolite BY <2>8, <2>9
    <3>2. Slots!SlotsJoin(c, at[c], TRUE)
      BY <2>4, <2>5, <2>7, <3>1, SameCardinality DEF Slots!SlotsJoin
    <3>3. QED BY <2>1, <3>2, JoinIsStep
  <2>10. CASE ~RoleOf(arc[c])
    <3>1. SlotImpolite' = SlotImpolite \cup {c} /\ SlotMembers[at[c]] = {}
      BY <2>6, <2>8, <2>10
    <3>2. Slots!SlotsJoin(c, at[c], FALSE)
      BY <2>4, <2>5, <2>7, <3>1, SameCardinality DEF Slots!SlotsJoin
    <3>3. QED BY <2>1, <3>2, JoinIsStep
  <2>11. QED BY <2>9, <2>10
<1>2. ASSUME NEW c \in Conns, LeaveDec(c) PROVE Slots!SlotsNext
  <2>1. /\ pc[c] = "leave" /\ pc'[c] \notin Placed /\ at' = at /\ polite' = polite
        /\ at[c] \in RoomIds /\ \A d \in Conns : d # c => pc'[d] = pc[d]
    BY <1>0, <1>2 DEF LeaveDec, Goto
  <2>2. c \in SlotMembers[at[c]] BY <2>1 DEF SlotMembers, Members
  <2>3. SlotMembers' = [SlotMembers EXCEPT ![at[c]] = SlotMembers[at[c]] \ {c}]
    <3>1. \A id \in RoomIds :
            Members(id)' = IF id = at[c] THEN Members(id) \ {c} ELSE Members(id)
      BY <2>1 DEF Members
    <3>2. QED BY <3>1, <2>1 DEF SlotMembers
  <2>4. SlotImpolite' = SlotImpolite \ {c} BY <2>1 DEF SlotImpolite
  <2>5. Slots!SlotsLeave(c, at[c])
    BY <2>2, <2>3, <2>4 DEF Slots!SlotsLeave
  <2>6. QED BY <2>1, <2>5, LeaveIsStep
<1>3. ASSUME NEW c \in Conns, Handler(c), ~(Admit(c) /\ ~Full(arc[c])), ~LeaveDec(c)
      PROVE  UNCHANGED Slots!slotVars
  <2>1. /\ \A d \in Conns : pc'[d] \in Placed <=> pc[d] \in Placed
        /\ \A d \in Conns : pc[d] \in Placed => at'[d] = at[d] /\ polite'[d] = polite[d]
    BY <1>0, <1>3 DEF Handler, Admit, Refuse, Clear, ReportOpened, DrawPeerId, AckOk, AckFail,
                      MarkConnected, Hangup,
                      LeaveMark, TryMarkEnded, Finish, Goto, roomVars
  <2>2. QED BY <2>1, SlotsStutter
<1>4. ASSUME NEW c \in Conns, NEW id \in RoomIds, Entry(c, id) PROVE UNCHANGED Slots!slotVars
  <2>1. /\ \A d \in Conns : pc'[d] \in Placed <=> pc[d] \in Placed
        /\ \A d \in Conns : pc[d] \in Placed => at'[d] = at[d] /\ polite'[d] = polite[d]
    BY <1>0, <1>4 DEF Entry, Goto
  <2>2. QED BY <2>1, SlotsStutter
<1>5. CASE Tick \/ Cleaner \/ UNCHANGED vars
  <2>1. pc' = pc /\ at' = at /\ polite' = polite
    BY <1>5 DEF Tick, Cleaner, Scan, CheckKey, RemoveKey, ReportClosed, vars, connVars
  <2>2. QED BY <2>1, SlotsStutter
<1>6. QED BY <1>1, <1>2, <1>3, <1>4, <1>5 DEF Next

(* While the cleanup task unmaps no object in use, the registry, with all  *)
(* its atomics, implements the abstract room with MAX_PARTICIPANTS places. *)
THEOREM RoomsImplementSlots == SpecNoEvict => ImplementsSlots
<1>1. Init => Slots!SlotsInit BY SlotsInitRefined
<1>2. Init => IInv /\ ~evicted BY IInvInit DEF Init
<1>3. IInv /\ ~evicted /\ [Next /\ ~evicted']_vars => (IInv /\ ~evicted)'
  <2> SUFFICES ASSUME IInv, ~evicted, [Next /\ ~evicted']_vars PROVE (IInv /\ ~evicted)'
    OBVIOUS
  <2>1. [Next]_vars BY DEF vars
  <2>2. ~evicted' BY DEF vars
  <2>3. QED BY <2>1, <2>2, IInvNext
<1>4. IInv /\ ~evicted /\ [Next /\ ~evicted']_vars => [Slots!SlotsNext]_(Slots!slotVars)
  <2> SUFFICES ASSUME IInv, ~evicted, [Next /\ ~evicted']_vars
               PROVE  [Slots!SlotsNext]_(Slots!slotVars)
    OBVIOUS
  <2>1. [Next]_vars BY DEF vars
  <2>2. QED BY <2>1, SlotsNextRefined DEF IInv
<1>5. QED BY <1>1, <1>2, <1>3, <1>4, PTL DEF SpecNoEvict, ImplementsSlots, Slots!SlotsSpec

-----------------------------------------------------------------------------
(* What survives evictions: peer ids, the gauge, the end of a call.        *)

Drawn == {"ack", "connect", "in_call", "leave", "mark_empty", "drain"}

\* An idle handler has left nothing behind, a peer id has been drawn from the
\* handler's object, an object not yet allocated has no call, and no object is
\* under two ids.
Clean ==
    /\ \A c \in Conns : pc[c] = "idle" => at[c] = None /\ ~opener[c]
    /\ \A c \in Conns : peerId[c] # 0 => pc[c] \in Drawn /\ peerId[c] < nextPeerId[arc[c]]
    /\ \A o \in Objects : connectedAt[o] => o <= created
    /\ \A id, r \in RoomIds : inner[id] # NoRoom /\ inner[id] = inner[r] => id = r

\* A handler that will mark the call of its room ended: it is in the call, or
\* it has seen it.
Witness(c, id) ==
    /\ at[c] = id
    /\ pc[c] = "in_call" \/ (pc[c] \in {"leave", "mark_empty", "drain"} /\ sawCall[c])
EndWitnessed ==
    \A id \in RoomIds :
        inner[id] # NoRoom /\ connectedAt[inner[id]]
            => ended[inner[id]] \/ \E c \in Conns : Witness(c, id)

\* The task reports the room it removed before it picks the next one.
ClosingLast == victim # None => ~closing

GaugeInv == IsFiniteSet(MappedIds) /\ GaugeNeverAhead

RoomInv ==
    /\ TypeOK /\ Allocated /\ Clean /\ PeerIdsDistinct /\ EndWitnessed
    /\ ClosingLast /\ GaugeInv

\* What the proofs below need of the types.
LEMMA RoomTypes ==
    TypeOK => /\ inner \in [RoomIds -> 0 .. MaxRooms] /\ arc \in [Conns -> 0 .. MaxRooms]
              /\ created \in Nat /\ nextPeerId \in [Objects -> Nat \ {0}]
              /\ peerId \in [Conns -> Nat] /\ at \in [Conns -> RoomIds \cup {None}]
              /\ pc \in [Conns -> Pcs]
              /\ opener \in [Conns -> BOOLEAN] /\ sawCall \in [Conns -> BOOLEAN]
              /\ connectedAt \in [Objects -> BOOLEAN] /\ ended \in [Objects -> BOOLEAN]
              /\ \A c \in Conns : pc[c] # "idle" => at[c] \in RoomIds /\ arc[c] \in Objects
  BY LimitsAssumption DEF TypeOK, Objects, NoRoom

LEMMA CleanNext == TypeOK /\ Allocated /\ Clean /\ [Next]_vars => Clean'
<1> SUFFICES ASSUME TypeOK, Allocated, Clean, [Next]_vars PROVE Clean'
  OBVIOUS
<1> USE RoomTypes DEF Clean, Drawn, Goto
<1>1. ASSUME NEW c \in Conns, NEW id \in RoomIds, Entry(c, id) PROVE Clean'
  <2>1. pc[c] = "idle" /\ peerId[c] = 0
    BY <1>1 DEF Entry
  <2>2. \/ arc' = [arc EXCEPT ![c] = inner[id]] /\ created' = created /\ opener' = opener
        \/ arc' = [arc EXCEPT ![c] = created + 1] /\ created' = created + 1
           /\ opener' = [opener EXCEPT ![c] = TRUE]
    BY <1>1 DEF Entry, EnterExisting, EnterFresh
  <2>3. UNCHANGED <<peerId, nextPeerId, connectedAt>>
    BY <1>1 DEF Entry
  <2>4. pc' = [pc EXCEPT ![c] = "admit"] /\ at' = [at EXCEPT ![c] = id]
    BY <1>1 DEF Entry
  <2>8. \A i, r \in RoomIds : inner'[i] # NoRoom /\ inner'[i] = inner'[r] => i = r
    BY <1>1 DEF Entry, EnterExisting, EnterFresh, Allocated
  <2>5. \A d \in Conns : pc'[d] = "idle" => at'[d] = None /\ ~opener'[d]
    BY <2>2, <2>4
  <2>6. \A d \in Conns : peerId'[d] # 0 => pc'[d] \in Drawn /\ peerId'[d] < nextPeerId'[arc'[d]]
    BY <2>1, <2>2, <2>3, <2>4
  <2>7. \A o \in Objects : connectedAt'[o] => o <= created'
    BY <2>2, <2>3 DEF Objects
  <2> QED
    BY <2>5, <2>6, <2>7, <2>8
<1>2. ASSUME NEW c \in Conns, DrawPeerId(c) PROVE Clean'
  <2>1. arc[c] \in Objects /\ nextPeerId[arc[c]] \in Nat
    BY <1>2 DEF DrawPeerId
  <2>2. /\ nextPeerId' = [nextPeerId EXCEPT ![arc[c]] = nextPeerId[arc[c]] + 1]
        /\ peerId' = [peerId EXCEPT ![c] = nextPeerId[arc[c]]] /\ arc' = arc
    BY <1>2 DEF DrawPeerId, DrawnId
  <2>3. \A d \in Conns : arc[d] \in Objects => nextPeerId[arc[d]] <= nextPeerId'[arc[d]]
    BY <2>1, <2>2
  <2>4. \A d \in Conns : peerId'[d] # 0 => pc'[d] \in Drawn /\ peerId'[d] < nextPeerId'[arc'[d]]
    <3> SUFFICES ASSUME NEW d \in Conns, peerId'[d] # 0
                 PROVE  pc'[d] \in Drawn /\ peerId'[d] < nextPeerId'[arc'[d]]
      OBVIOUS
    <3>1. CASE d = c
      BY <1>2, <2>1, <2>2, <3>1 DEF DrawPeerId
    <3>2. CASE d # c
      <4>1. peerId[d] # 0 /\ peerId'[d] = peerId[d] /\ pc'[d] = pc[d]
        BY <1>2, <2>2, <3>2 DEF DrawPeerId
      <4>2. arc[d] \in Objects
        BY <4>1
      <4> QED
        BY <2>2, <2>3, <4>1, <4>2
    <3> QED
      BY <3>1, <3>2
  <2> QED
    BY <1>2, <2>4 DEF DrawPeerId
<1>3. ASSUME NEW c \in Conns, Refuse(c) \/ TryMarkEnded(c) PROVE Clean'
  BY <1>3 DEF Refuse, TryMarkEnded, Finish
<1>4. ASSUME NEW c \in Conns, MarkConnected(c) PROVE Clean'
  <2>1. \A o \in Objects : connectedAt'[o] => o <= created
    BY <1>4 DEF MarkConnected, Allocated, Objects, NoRoom
  <2> QED
    BY <1>4, <2>1 DEF MarkConnected
<1>5. ASSUME NEW c \in Conns,
             \/ Admit(c) \/ Clear(c) \/ ReportOpened(c) \/ AckOk(c) \/ AckFail(c)
             \/ Hangup(c) \/ LeaveDec(c) \/ LeaveMark(c)
      PROVE  Clean'
  <2>1. /\ UNCHANGED <<inner, peerId, nextPeerId, arc, at, opener, connectedAt, created>>
        /\ \A d \in Conns : d # c => pc'[d] = pc[d]
        /\ pc'[c] # "idle" /\ (pc[c] \in Drawn => pc'[c] \in Drawn)
    BY <1>5 DEF Admit, Clear, ReportOpened, AckOk, AckFail, Hangup, LeaveDec, LeaveMark, roomVars
  <2> QED
    BY <2>1
<1>6. CASE RemoveKey
  BY <1>6 DEF RemoveKey, connVars
<1>7. CASE Tick \/ Scan \/ (\E id \in RoomIds : CheckKey(id)) \/ ReportClosed \/ UNCHANGED vars
  BY <1>7 DEF Tick, Scan, CheckKey, ReportClosed, vars, roomVars, connVars
<1> QED
  BY <1>1, <1>2, <1>3, <1>4, <1>5, <1>6, <1>7 DEF Next, Cleaner, Handler

LEMMA PeerIdsNext ==
    TypeOK /\ Clean /\ PeerIdsDistinct /\ [Next]_vars => PeerIdsDistinct'
<1> SUFFICES ASSUME TypeOK, Clean, PeerIdsDistinct, [Next]_vars PROVE PeerIdsDistinct'
  OBVIOUS
<1> USE RoomTypes DEF PeerIdsDistinct
<1>1. ASSUME NEW c \in Conns, DrawPeerId(c) PROVE PeerIdsDistinct'
  <2>1. /\ peerId' = [peerId EXCEPT ![c] = nextPeerId[arc[c]]] /\ arc' = arc
        /\ arc[c] \in Objects
    BY <1>1 DEF DrawPeerId, DrawnId
  <2>2. \A d \in Conns : d # c /\ peerId[d] # 0 /\ arc[d] = arc[c] => peerId[d] # peerId'[c]
    BY <2>1 DEF Clean
  <2> QED
    BY <2>1, <2>2
<1>2. ASSUME \A c \in Conns : \/ peerId'[c] = 0
                              \/ peerId'[c] = peerId[c] /\ arc'[c] = arc[c]
      PROVE  PeerIdsDistinct'
  BY <1>2
<1>3. ASSUME NEW c \in Conns, NEW id \in RoomIds, Entry(c, id) PROVE PeerIdsDistinct'
  <2>1. pc[c] = "idle" /\ peerId[c] = 0
    BY <1>3 DEF Entry, Clean, Drawn
  <2>2. peerId' = peerId /\ \A d \in Conns : d # c => arc'[d] = arc[d]
    BY <1>3 DEF Entry, EnterExisting, EnterFresh
  <2> QED
    BY <1>2, <2>1, <2>2
<1>4. ASSUME NEW c \in Conns, Refuse(c) \/ TryMarkEnded(c) PROVE PeerIdsDistinct'
  BY <1>2, <1>4 DEF Refuse, TryMarkEnded, Finish
<1>5. ASSUME NEW c \in Conns,
             \/ Admit(c) \/ Clear(c) \/ ReportOpened(c) \/ AckOk(c) \/ AckFail(c)
             \/ MarkConnected(c) \/ Hangup(c) \/ LeaveDec(c) \/ LeaveMark(c)
      PROVE  PeerIdsDistinct'
  BY <1>2, <1>5
  DEF Admit, Clear, ReportOpened, AckOk, AckFail, MarkConnected, Hangup, LeaveDec, LeaveMark,
      roomVars
<1>6. CASE Tick \/ Cleaner \/ UNCHANGED vars
  BY <1>2, <1>6 DEF Tick, Cleaner, Scan, CheckKey, RemoveKey, ReportClosed, vars, connVars
<1> QED
  BY <1>1, <1>3, <1>4, <1>5, <1>6 DEF Next, Handler

\* The end of a call.
LEMMA EndWitnessedNext ==
    TypeOK /\ Allocated /\ Clean /\ EndWitnessed /\ [Next]_vars => EndWitnessed'
<1> SUFFICES ASSUME TypeOK, Allocated, Clean, EndWitnessed, [Next]_vars,
                    NEW id \in RoomIds, inner'[id] # NoRoom, connectedAt'[inner'[id]]
             PROVE  ended'[inner'[id]] \/ \E c \in Conns : Witness(c, id)'
  BY DEF EndWitnessed
<1> USE RoomTypes DEF NoRoom
<1>0. inner[id] # NoRoom => inner[id] \in Objects
  BY LimitsAssumption DEF Objects
\* Who was a witness still is, and the object of the id is the same.
<1>1. ASSUME inner'[id] = inner[id], connectedAt[inner[id]],
             \A o \in Objects : ended[o] => ended'[o],
             \A d \in Conns : Witness(d, id) => Witness(d, id)'
      PROVE  ended'[inner'[id]] \/ \E c \in Conns : Witness(c, id)'
  BY <1>0, <1>1 DEF EndWitnessed
<1>2. ASSUME NEW c \in Conns, NEW r \in RoomIds, Entry(c, r)
      PROVE  ended'[inner'[id]] \/ \E d \in Conns : Witness(d, id)'
  <2>1. \A d \in Conns : Witness(d, id) => Witness(d, id)'
    BY <1>2 DEF Entry, Goto, Witness
  <2>2. CASE EnterExisting(c, r)
    BY <1>1, <1>2, <2>1, <2>2 DEF Entry, EnterExisting
  <2>3. CASE EnterFresh(c, r)
    <3>1. inner' = [inner EXCEPT ![r] = created + 1] /\ created + 1 \in Objects
      BY <2>3, LimitsAssumption DEF EnterFresh, Objects
    <3>2. connectedAt' = connectedAt /\ ended' = ended
      BY <1>2 DEF Entry
    <3>3. ~connectedAt[created + 1]
      BY <3>1 DEF Clean
    <3>4. id # r /\ inner'[id] = inner[id]
      BY <3>1, <3>2, <3>3
    <3> QED
      BY <1>1, <2>1, <3>2, <3>4
  <2> QED
    BY <1>2, <2>2, <2>3 DEF Entry
<1>3. ASSUME NEW c \in Conns, MarkConnected(c)
      PROVE  ended'[inner'[id]] \/ \E d \in Conns : Witness(d, id)'
  <2>1. inner' = inner /\ ended' = ended
    BY <1>3 DEF MarkConnected
  <2>2. CASE at[c] = id
    <3>1. Witness(c, id)'
      BY <1>3, <2>2 DEF MarkConnected, Goto, Witness
    <3> QED
      BY <3>1
  <2>3. CASE at[c] # id /\ connectedAt[inner[id]]
    BY <1>1, <1>3, <2>1, <2>3 DEF MarkConnected, Goto, Witness
  <2>4. CASE at[c] # id /\ ~connectedAt[inner[id]]
    <3>1. pc[c] = "connect" /\ at[c] \in RoomIds
      BY <1>3 DEF MarkConnected
    <3>2. inner[at[c]] = inner[id] /\ inner[id] # NoRoom
      BY <1>0, <1>3, <2>1, <2>4 DEF MarkConnected
    <3> QED
      BY <2>4, <3>1, <3>2 DEF Clean
  <2> QED
    BY <2>2, <2>3, <2>4
<1>4. ASSUME NEW c \in Conns, Hangup(c)
      PROVE  ended'[inner'[id]] \/ \E d \in Conns : Witness(d, id)'
  <2>1. inner' = inner /\ ended' = ended /\ connectedAt' = connectedAt
    BY <1>4 DEF Hangup, roomVars
  <2>2. \A d \in Conns : Witness(d, id) => Witness(d, id)'
    BY <1>4, <2>1 DEF Hangup, SeesCall, Goto, Witness
  <2> QED
    BY <1>1, <2>1, <2>2
<1>5. ASSUME NEW c \in Conns, TryMarkEnded(c)
      PROVE  ended'[inner'[id]] \/ \E d \in Conns : Witness(d, id)'
  <2>1. inner' = inner /\ connectedAt' = connectedAt
    BY <1>5 DEF TryMarkEnded
  <2>2. \A o \in Objects : ended[o] => ended'[o]
    BY <1>5 DEF TryMarkEnded
  <2>3. CASE at[c] = id /\ sawCall[c]
    BY <1>0, <1>5, <2>1, <2>3 DEF TryMarkEnded
  <2>4. CASE at[c] # id \/ ~sawCall[c]
    <3>1. \A d \in Conns : Witness(d, id) => Witness(d, id)'
      BY <1>5, <2>4 DEF TryMarkEnded, Finish, Goto, Witness
    <3> QED
      BY <1>1, <2>1, <2>2, <3>1
  <2> QED
    BY <2>3, <2>4
<1>6. CASE RemoveKey
  <2>1. inner'[id] = inner[id]
    BY <1>6 DEF RemoveKey
  <2> QED
    BY <1>1, <1>6, <2>1 DEF RemoveKey, connVars, Witness
<1>7. ASSUME NEW c \in Conns,
             \/ Admit(c) \/ Refuse(c) \/ Clear(c) \/ ReportOpened(c) \/ DrawPeerId(c)
             \/ AckOk(c) \/ AckFail(c) \/ LeaveDec(c) \/ LeaveMark(c)
      PROVE  ended'[inner'[id]] \/ \E d \in Conns : Witness(d, id)'
  <2>1. inner' = inner /\ connectedAt' = connectedAt /\ ended' = ended
    BY <1>7 DEF Admit, Refuse, Clear, ReportOpened, DrawPeerId, AckOk, AckFail, LeaveDec,
                LeaveMark, roomVars
  <2>2. \A d \in Conns : Witness(d, id) => Witness(d, id)'
    BY <1>7 DEF Admit, Refuse, Clear, ReportOpened, DrawPeerId, AckOk, AckFail, LeaveDec,
                LeaveMark, Finish, Goto, Witness
  <2> QED
    BY <1>1, <2>1, <2>2
<1>8. CASE Tick \/ Scan \/ (\E r \in RoomIds : CheckKey(r)) \/ ReportClosed \/ UNCHANGED vars
  BY <1>1, <1>8 DEF Tick, Scan, CheckKey, ReportClosed, vars, roomVars, connVars, Witness
<1> QED
  BY <1>2, <1>3, <1>4, <1>5, <1>6, <1>7, <1>8 DEF Next, Handler, Cleaner

-----------------------------------------------------------------------------
(* The gauge.                                                              *)

LEMMA PendingFinite == IsFiniteSet(PendingOpeners) /\ Cardinality(PendingOpeners) \in Nat
<1>1. PendingOpeners \subseteq Conns
  BY DEF PendingOpeners
<1> QED
  BY <1>1, ConnsAssumption, FS_Subset, FS_CardinalityType

LEMMA ClosingNext == ClosingLast /\ [Next]_vars => ClosingLast'
<1> SUFFICES ASSUME ClosingLast, [Next]_vars PROVE ClosingLast'
  OBVIOUS
<1> USE DEF ClosingLast
<1>1. CASE Scan \/ RemoveKey \/ ReportClosed \/ \E id \in RoomIds : CheckKey(id)
  BY <1>1 DEF Scan, RemoveKey, ReportClosed, CheckKey
<1>2. CASE UNCHANGED sweepVars
  BY <1>2 DEF sweepVars
<1>3. QED
  BY <1>1, <1>2
  DEF Next, Entry, Handler, Admit, Refuse, Clear, ReportOpened, DrawPeerId, AckOk, AckFail,
      MarkConnected, Hangup, LeaveDec, LeaveMark, TryMarkEnded, Tick, Cleaner, vars

LEMMA GaugeNext ==
    TypeOK /\ Clean /\ ClosingLast /\ GaugeInv /\ [Next]_vars => GaugeInv'
<1> SUFFICES ASSUME TypeOK, Clean, ClosingLast, GaugeInv, [Next]_vars PROVE GaugeInv'
  OBVIOUS
<1> USE RoomTypes, PendingFinite DEF GaugeInv, GaugeNeverAhead
<1>0. gauge \in Int /\ Cardinality(MappedIds) \in Nat
  BY FS_CardinalityType DEF TypeOK
\* A step that opens nothing and closes nothing.
<1>1. ASSUME gauge' = gauge, MappedIds' = MappedIds, closing => closing',
             PendingOpeners' \subseteq PendingOpeners
      PROVE  GaugeInv'
  <2>1. /\ Cardinality(PendingOpeners') <= Cardinality(PendingOpeners)
        /\ Cardinality(PendingOpeners') \in Nat
    BY <1>1, FS_Subset, FS_CardinalityType
  <2> QED
    BY <1>0, <1>1, <2>1
<1>2. ASSUME NEW c \in Conns, NEW id \in RoomIds, Entry(c, id) PROVE GaugeInv'
  <2>1. gauge' = gauge /\ closing' = closing /\ c \notin PendingOpeners
    BY <1>2 DEF Entry, Clean, PendingOpeners, sweepVars
  <2>2. CASE EnterExisting(c, id)
    <3>1. MappedIds' = MappedIds
      BY <2>2 DEF EnterExisting, MappedIds
    <3>2. PendingOpeners' \subseteq PendingOpeners
      BY <1>2, <2>2 DEF Entry, EnterExisting, PendingOpeners, Goto, Clean
    <3> QED
      BY <1>1, <2>1, <3>1, <3>2
  <2>3. CASE EnterFresh(c, id)
    <3>1. MappedIds' = MappedIds \cup {id} /\ id \notin MappedIds
      BY <2>3 DEF EnterFresh, MappedIds, NoRoom
    <3>2. PendingOpeners' = PendingOpeners \cup {c}
      BY <1>2, <2>3 DEF Entry, EnterFresh, PendingOpeners, Goto
    <3>3. /\ IsFiniteSet(MappedIds') /\ Cardinality(MappedIds') = Cardinality(MappedIds) + 1
          /\ Cardinality(PendingOpeners') = Cardinality(PendingOpeners) + 1
      BY <2>1, <3>1, <3>2, FS_AddElement
    <3> QED
      BY <1>0, <2>1, <3>3
  <2> QED
    BY <1>2, <2>2, <2>3 DEF Entry
<1>3. ASSUME NEW c \in Conns, ReportOpened(c) PROVE GaugeInv'
  <2>1. closing' = closing /\ MappedIds' = MappedIds /\ PendingOpeners' = PendingOpeners \ {c}
    BY <1>3 DEF ReportOpened, MappedIds, PendingOpeners, Goto, roomVars, sweepVars
  <2>2. CASE opener[c]
    <3>1. gauge' = gauge + 1 /\ c \in PendingOpeners
      BY <1>3, <2>2 DEF ReportOpened, Reports, PendingOpeners
    <3>2. Cardinality(PendingOpeners') = Cardinality(PendingOpeners) - 1
      BY <2>1, <3>1, FS_RemoveElement
    <3> QED
      BY <1>0, <2>1, <3>1, <3>2
  <2>3. CASE ~opener[c]
    BY <1>1, <1>3, <2>1, <2>3 DEF ReportOpened, Reports
  <2> QED
    BY <2>2, <2>3
<1>4. CASE RemoveKey
  <2>1. PendingOpeners' = PendingOpeners /\ gauge' = gauge /\ ~closing
    BY <1>4 DEF RemoveKey, connVars, PendingOpeners, ClosingLast
  <2>2. CASE victim \in MappedIds
    <3>1. closing' /\ MappedIds' = MappedIds \ {victim}
      BY <1>4, <2>2 DEF RemoveKey, MappedIds
    <3>2. /\ IsFiniteSet(MappedIds')
          /\ Cardinality(MappedIds') = Cardinality(MappedIds) - 1
      BY <2>2, <3>1, FS_RemoveElement
    <3> QED
      BY <1>0, <2>1, <3>1, <3>2
  <2>3. CASE victim \notin MappedIds
    <3>1. victim \in RoomIds
      BY <1>4 DEF RemoveKey, TypeOK
    <3>2. MappedIds' = MappedIds
      BY <1>4, <2>3, <3>1 DEF RemoveKey, MappedIds
    <3> QED
      BY <1>1, <2>1, <3>2
  <2> QED
    BY <2>2, <2>3
<1>7. CASE ReportClosed
  <2>1. gauge' = gauge - 1 /\ PendingOpeners' = PendingOpeners /\ MappedIds' = MappedIds
    BY <1>7 DEF ReportClosed, roomVars, connVars, PendingOpeners, MappedIds
  <2> QED
    BY <1>0, <1>7, <2>1 DEF ReportClosed
<1>5. ASSUME NEW c \in Conns,
             \/ Admit(c) \/ Refuse(c) \/ Clear(c) \/ DrawPeerId(c) \/ AckOk(c)
             \/ AckFail(c) \/ MarkConnected(c) \/ Hangup(c) \/ LeaveDec(c) \/ LeaveMark(c)
             \/ TryMarkEnded(c)
      PROVE  GaugeInv'
  <2>1. gauge' = gauge /\ inner' = inner /\ closing' = closing
    BY <1>5 DEF Admit, Refuse, Clear, DrawPeerId, AckOk, AckFail, MarkConnected, Hangup,
                LeaveDec, LeaveMark, TryMarkEnded, roomVars, sweepVars
  <2>2. PendingOpeners' \subseteq PendingOpeners
    BY <1>5 DEF Admit, Refuse, Clear, DrawPeerId, AckOk, AckFail, MarkConnected, Hangup,
                LeaveDec, LeaveMark, TryMarkEnded, Finish, Goto, PendingOpeners
  <2> QED
    BY <1>1, <2>1, <2>2 DEF MappedIds
<1>6. CASE Tick \/ Scan \/ (\E id \in RoomIds : CheckKey(id)) \/ UNCHANGED vars
  BY <1>1, <1>6
  DEF Tick, Scan, CheckKey, vars, roomVars, connVars, sweepVars, MappedIds, PendingOpeners
<1> QED
  BY <1>2, <1>3, <1>4, <1>5, <1>6, <1>7 DEF Next, Handler, Cleaner

-----------------------------------------------------------------------------
LEMMA RoomInvInit == Init => RoomInv
<1> SUFFICES ASSUME Init PROVE RoomInv
  OBVIOUS
<1>1. TypeOK /\ Allocated
  BY IInvInit DEF IInv
<1>2. Clean /\ PeerIdsDistinct /\ EndWitnessed /\ ClosingLast
  BY DEF Init, Clean, PeerIdsDistinct, EndWitnessed, ClosingLast
<1>3. MappedIds = {} /\ PendingOpeners = {}
  BY DEF Init, MappedIds, PendingOpeners
<1>4. GaugeInv
  BY <1>3, FS_EmptySet DEF Init, GaugeInv, GaugeNeverAhead
<1> QED
  BY <1>1, <1>2, <1>4 DEF RoomInv

LEMMA RoomInvariant == Spec => []RoomInv
<1>1. RoomInv /\ [Next]_vars => RoomInv'
  BY TypeNext, AllocatedNext, CleanNext, PeerIdsNext, EndWitnessedNext, ClosingNext, GaugeNext
  DEF RoomInv
<1> QED
  BY <1>1, RoomInvInit, PTL DEF Spec

(* rooms.rs:98: peer ids that share a Room object are different, for any    *)
(* number of handlers, rejoins and evictions.                              *)
THEOREM PeerIdsAreDistinct == Spec => []PeerIdsDistinct
<1>1. RoomInv => PeerIdsDistinct
  BY DEF RoomInv
<1> QED
  BY <1>1, RoomInvariant, PTL

(* rooms.rs:95, room_cleanup.rs:52-53: the rooms reported open never exceed *)
(* those in the map, but for the one that has been removed and is about to *)
(* be reported closed.                                                     *)
THEOREM GaugeIsNeverAhead == Spec => []GaugeNeverAhead
<1>1. RoomInv => GaugeNeverAhead
  BY DEF RoomInv, GaugeInv
<1> QED
  BY <1>1, RoomInvariant, PTL

(* handler.rs:195: whoever connected a call reads connected_at before it    *)
(* leaves, so a room whose handlers have returned has its end recorded.    *)
THEOREM CallEndIsRecorded == Spec => []CallEndRecorded
<1>1. RoomInv => CallEndRecorded
  BY RoomTypes DEF RoomInv, EndWitnessed, Witness, CallEndRecorded
<1> QED
  BY <1>1, RoomInvariant, PTL
=============================================================================
