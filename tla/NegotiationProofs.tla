-------------------------- MODULE NegotiationProofs --------------------------
(***************************************************************************)
(* Theorems about Negotiation: two pages that have come to rest have one   *)
(* session and know each other's candidates, for any number of ICE         *)
(* restarts.                                                               *)
(*                                                                         *)
(* Both properties speak of pages at rest, so their invariants say, for    *)
(* every order of the signals, what is still under way that will settle    *)
(* the matter.  They are put together as follows.                          *)
(*                                                                         *)
(*  - A queue is described by which kinds of elements it has, and in which *)
(*    order; an action is written out by what it appends and takes away    *)
(*    (StepsWritten), and no invariant looks at an index again.            *)
(*  - PageInv says of each page by itself how its flags go with the        *)
(*    operations it has chained.                                           *)
(*  - WaitInv says where the candidate of a page is, until the other one   *)
(*    has it.                                                              *)
(*  - RolesInv says whose offer stands while no offer that was out has     *)
(*    been replaced, restarts or not.                                      *)
(*  - CallInv says the same without restarts, also when the first offer    *)
(*    was replaced because the second page subscribed late.                *)
(***************************************************************************)
EXTENDS Negotiation, TLAPS

-----------------------------------------------------------------------------
(* The order of the elements of some kinds in a queue                      *)

Has(s, S) == \E i \in DOMAIN s : s[i] \in S
Once(s, S) == \A i, j \in DOMAIN s : s[i] \in S /\ s[j] \in S => i = j
Twice(s, S) == \A i, j, k \in DOMAIN s :
                   s[i] \in S /\ s[j] \in S /\ s[k] \in S => i = j \/ j = k \/ i = k
Leads(s, S) == \A i \in DOMAIN s : s[i] \in S => i = 1

\* Every T stands behind an S; two Ts have an S between them; some T has no S
\* behind it; some T has an S before it.
Behind(s, S, T) == \A j \in DOMAIN s : s[j] \in T => \E i \in DOMAIN s : i < j /\ s[i] \in S
Apart(s, S, T) == \A i, k \in DOMAIN s : i < k /\ s[i] \in T /\ s[k] \in T =>
                      \E j \in DOMAIN s : i < j /\ j < k /\ s[j] \in S
Open(s, S, T) == \E i \in DOMAIN s : s[i] \in T /\ \A j \in DOMAIN s : i < j => s[j] \notin S
Crossed(s, S, T) == \E i, j \in DOMAIN s : i < j /\ s[i] \in S /\ s[j] \in T

LEMMA Queues ==
    ASSUME NEW V, NEW s \in Seq(V), NEW m \in V
    PROVE  /\ Append(s, m) \in Seq(V) /\ DOMAIN Append(s, m) = 1 .. Len(s) + 1
           /\ DOMAIN s = 1 .. Len(s) /\ Len(s) \in Nat
           /\ Append(s, m)[Len(s) + 1] = m
           /\ \A i \in 1 .. Len(s) : Append(s, m)[i] = s[i]
  OBVIOUS

LEMMA Tails ==
    ASSUME NEW V, NEW s \in Seq(V), s # <<>>
    PROVE  /\ Tail(s) \in Seq(V) /\ DOMAIN Tail(s) = 1 .. Len(s) - 1
           /\ DOMAIN s = 1 .. Len(s) /\ Len(s) \in Nat /\ Len(s) > 0
           /\ \A i \in 1 .. Len(s) - 1 : Tail(s)[i] = s[i + 1]
           /\ Head(s) = s[1] /\ Head(s) \in V
  OBVIOUS

LEMMA EmptyFacts ==
    ASSUME NEW S, NEW T
    PROVE  /\ ~Has(<<>>, S) /\ Once(<<>>, S) /\ Twice(<<>>, S) /\ Leads(<<>>, S)
           /\ Behind(<<>>, S, T) /\ Apart(<<>>, S, T) /\ ~Open(<<>>, S, T) /\ ~Crossed(<<>>, S, T)
  BY DEF Has, Once, Twice, Leads, Behind, Apart, Open, Crossed

LEMMA AppendHas ==
    ASSUME NEW V, NEW s \in Seq(V), NEW m \in V, NEW S
    PROVE  /\ Has(Append(s, m), S) <=> Has(s, S) \/ m \in S
           /\ Once(Append(s, m), S) <=> Once(s, S) /\ (m \in S => ~Has(s, S))
           /\ Leads(s, S) /\ (m \in S => s = <<>>) => Leads(Append(s, m), S)
  <1>1. Has(Append(s, m), S) <=> Has(s, S) \/ m \in S  BY Queues DEF Has
  <1>2. Once(Append(s, m), S) => Once(s, S) /\ (m \in S => ~Has(s, S))
    BY Queues DEF Has, Once
  <1>3. Once(s, S) /\ (m \in S => ~Has(s, S)) => Once(Append(s, m), S)
    BY Queues DEF Has, Once
  <1>4. Leads(s, S) /\ (m \in S => s = <<>>) => Leads(Append(s, m), S)
    BY Queues DEF Leads
  <1> QED BY <1>1, <1>2, <1>3, <1>4

LEMMA AppendTwice ==
    ASSUME NEW V, NEW s \in Seq(V), NEW m \in V, NEW S
    PROVE  /\ Twice(s, S) /\ (m \in S => Once(s, S)) => Twice(Append(s, m), S)
           /\ ~Has(s, S) => Once(s, S) /\ Leads(s, S)
           /\ Once(s, S) => Twice(s, S)
  <1>1. ASSUME Twice(s, S), m \in S => Once(s, S)  PROVE Twice(Append(s, m), S)
    BY <1>1, Queues DEF Once, Twice
  <1>2. ~Has(s, S) => Once(s, S) /\ Leads(s, S)  BY DEF Has, Once, Leads
  <1>3. Once(s, S) => Twice(s, S)  BY DEF Once, Twice
  <1> QED BY <1>1, <1>2, <1>3

LEMMA AppendOrder ==
    ASSUME NEW V, NEW s \in Seq(V), NEW m \in V, NEW S, NEW T
    PROVE  /\ Behind(Append(s, m), S, T) <=> Behind(s, S, T) /\ (m \in T => Has(s, S))
           /\ Apart(s, S, T) /\ (m \in T => ~Open(s, S, T)) => Apart(Append(s, m), S, T)
           /\ m \notin S \cap T =>
                (Open(Append(s, m), S, T) <=> m \in T \/ (Open(s, S, T) /\ m \notin S))
           /\ Crossed(Append(s, m), S, T) <=> Crossed(s, S, T) \/ (m \in T /\ Has(s, S))
  <1>1. Behind(Append(s, m), S, T) => Behind(s, S, T) /\ (m \in T => Has(s, S))
    BY Queues DEF Has, Behind
  <1>2. Behind(s, S, T) /\ (m \in T => Has(s, S)) => Behind(Append(s, m), S, T)
    BY Queues DEF Has, Behind
  <1>3. ASSUME Apart(s, S, T), m \in T => ~Open(s, S, T)  PROVE Apart(Append(s, m), S, T)
    <2> SUFFICES ASSUME NEW i \in 1 .. Len(s) + 1, NEW k \in 1 .. Len(s) + 1, i < k,
                        Append(s, m)[i] \in T, Append(s, m)[k] \in T
                 PROVE  \E j \in 1 .. Len(s) + 1 : i < j /\ j < k /\ Append(s, m)[j] \in S
      BY Queues DEF Apart
    <2>1. CASE k \in 1 .. Len(s)  BY <1>3, <2>1, Queues DEF Apart
    <2>2. CASE k = Len(s) + 1
      <3>1. i \in 1 .. Len(s) /\ s[i] \in T /\ m \in T  BY <2>2, Queues
      <3>2. PICK j \in DOMAIN s : i < j /\ s[j] \in S  BY <1>3, <3>1, Queues DEF Open
      <3> QED BY <2>2, <3>2, Queues
    <2> QED BY <2>1, <2>2, Queues
  <1>4. ASSUME m \notin S \cap T, Open(Append(s, m), S, T)
        PROVE  m \in T \/ (Open(s, S, T) /\ m \notin S)
    BY <1>4, Queues DEF Open
  <1>5. ASSUME m \notin S \cap T, m \in T \/ (Open(s, S, T) /\ m \notin S)
        PROVE  Open(Append(s, m), S, T)
    <2>1. CASE m \in T
      <3>1. \A j \in 1 .. Len(s) + 1 : ~(Len(s) + 1 < j)  BY Queues
      <3> QED BY <2>1, <3>1, Queues DEF Open
    <2>2. CASE Open(s, S, T) /\ m \notin S
      <3>1. PICK i \in DOMAIN s : s[i] \in T /\ \A j \in DOMAIN s : i < j => s[j] \notin S
        BY <2>2 DEF Open
      <3>2. \A j \in 1 .. Len(s) + 1 : i < j => Append(s, m)[j] \notin S  BY <2>2, <3>1, Queues
      <3> QED BY <3>1, <3>2, Queues DEF Open
    <2> QED BY <1>5, <2>1, <2>2
  <1>6. Crossed(Append(s, m), S, T) => Crossed(s, S, T) \/ (m \in T /\ Has(s, S))
    BY Queues DEF Has, Crossed
  <1>7. Crossed(s, S, T) \/ (m \in T /\ Has(s, S)) => Crossed(Append(s, m), S, T)
    BY Queues DEF Has, Crossed
  <1> QED BY <1>1, <1>2, <1>3, <1>4, <1>5, <1>6, <1>7

LEMMA TailHas ==
    ASSUME NEW V, NEW s \in Seq(V), s # <<>>, NEW S
    PROVE  /\ Has(s, S) <=> Head(s) \in S \/ Has(Tail(s), S)
           /\ Once(s, S) <=> Once(Tail(s), S) /\ (Head(s) \in S => ~Has(Tail(s), S))
           /\ Leads(s, S) => ~Has(Tail(s), S) /\ Leads(Tail(s), S)
           /\ Twice(s, S) => Twice(Tail(s), S) /\ (Head(s) \in S => Once(Tail(s), S))
  <1> DEFINE t == Tail(s)
  <1>0. /\ DOMAIN s = 1 .. Len(s) /\ DOMAIN t = 1 .. Len(s) - 1 /\ Len(s) \in Nat /\ Len(s) > 0
        /\ \A i \in DOMAIN t : t[i] = s[i + 1] /\ i + 1 \in DOMAIN s /\ i \in Nat /\ i # 0
        /\ \A i \in DOMAIN s :
             i \in Nat /\ (i # 1 => i - 1 \in DOMAIN t /\ s[i] = t[i - 1] /\ i > 1)
        /\ Head(s) = s[1] /\ 1 \in DOMAIN s
    BY Tails
  <1> HIDE DEF t
  <1>1. Has(s, S) <=> Head(s) \in S \/ Has(t, S)  BY <1>0 DEF Has
  <1>2. Once(s, S) => Once(t, S) /\ (Head(s) \in S => ~Has(t, S))
    BY <1>0 DEF Once, Has
  <1>3. Once(t, S) /\ (Head(s) \in S => ~Has(t, S)) => Once(s, S)
    BY <1>0 DEF Once, Has
  <1>4. Leads(s, S) => ~Has(t, S)  BY <1>0 DEF Leads, Has
  <1>5. ~Has(t, S) => Leads(t, S)  BY DEF Leads, Has
  <1>6. ASSUME Twice(s, S)  PROVE Twice(t, S)
    <2> SUFFICES ASSUME NEW i \in DOMAIN t, NEW j \in DOMAIN t, NEW k \in DOMAIN t,
                        t[i] \in S, t[j] \in S, t[k] \in S
                 PROVE  i = j \/ j = k \/ i = k
      BY DEF Twice
    <2>1. s[i + 1] \in S /\ s[j + 1] \in S /\ s[k + 1] \in S  BY <1>0
    <2>2. i + 1 = j + 1 \/ j + 1 = k + 1 \/ i + 1 = k + 1  BY <1>0, <1>6, <2>1 DEF Twice
    <2> QED BY <1>0, <2>2
  <1>7. ASSUME Twice(s, S), Head(s) \in S  PROVE Once(t, S)
    <2> SUFFICES ASSUME NEW i \in DOMAIN t, NEW j \in DOMAIN t, t[i] \in S, t[j] \in S
                 PROVE  i = j
      BY DEF Once
    <2>1. s[i + 1] \in S /\ s[j + 1] \in S /\ s[1] \in S  BY <1>0, <1>7
    <2>2. i + 1 = j + 1 \/ j + 1 = 1 \/ i + 1 = 1  BY <1>0, <1>7, <2>1 DEF Twice
    <2> QED BY <1>0, <2>2
  <1> QED BY <1>1, <1>2, <1>3, <1>4, <1>5, <1>6, <1>7 DEF t

LEMMA TailOrder ==
    ASSUME NEW V, NEW s \in Seq(V), s # <<>>, NEW S, NEW T
    PROVE  /\ Behind(s, S, T) /\ Head(s) \notin S => Behind(Tail(s), S, T)
           /\ Behind(Tail(s), S, T) /\ Head(s) \notin T => Behind(s, S, T)
           /\ Behind(s, S, T) => Head(s) \notin T
           /\ Apart(s, S, T) => Apart(Tail(s), S, T)
           /\ Apart(s, S, T) /\ Head(s) \in T /\ ~Has(s, S) => ~Has(Tail(s), T)
           /\ Open(s, S, T) <=> Open(Tail(s), S, T) \/ (Head(s) \in T /\ ~Has(Tail(s), S))
           /\ Crossed(s, S, T) <=> Crossed(Tail(s), S, T) \/ (Head(s) \in S /\ Has(Tail(s), T))
  <1> DEFINE t == Tail(s)
  <1>0. /\ DOMAIN s = 1 .. Len(s) /\ DOMAIN t = 1 .. Len(s) - 1 /\ Len(s) \in Nat /\ Len(s) > 0
        /\ \A i \in DOMAIN t : t[i] = s[i + 1] /\ i + 1 \in DOMAIN s /\ i \in Nat /\ i # 0
        /\ \A i \in DOMAIN s :
             i \in Nat /\ (i # 1 => i - 1 \in DOMAIN t /\ s[i] = t[i - 1] /\ i > 1)
        /\ Head(s) = s[1] /\ 1 \in DOMAIN s
    BY Tails
  <1> HIDE DEF t
  <1>1. ASSUME Behind(s, S, T), Head(s) \notin S  PROVE Behind(t, S, T)
    <2> SUFFICES ASSUME NEW j \in DOMAIN t, t[j] \in T
                 PROVE  \E i \in DOMAIN t : i < j /\ t[i] \in S
      BY DEF Behind
    <2>1. PICK i \in DOMAIN s : i < j + 1 /\ s[i] \in S  BY <1>0, <1>1 DEF Behind
    <2>2. i # 1  BY <1>0, <1>1, <2>1
    <2> QED BY <1>0, <2>1, <2>2
  <1>2. ASSUME Behind(t, S, T), Head(s) \notin T  PROVE Behind(s, S, T)
    <2> SUFFICES ASSUME NEW j \in DOMAIN s, s[j] \in T
                 PROVE  \E i \in DOMAIN s : i < j /\ s[i] \in S
      BY DEF Behind
    <2>1. j # 1  BY <1>0, <1>2
    <2>2. PICK i \in DOMAIN t : i < j - 1 /\ t[i] \in S  BY <1>0, <1>2, <2>1 DEF Behind
    <2>3. i + 1 \in DOMAIN s /\ i + 1 < j /\ s[i + 1] \in S  BY <1>0, <2>1, <2>2
    <2> QED BY <2>3
  <1>3. Behind(s, S, T) => Head(s) \notin T  BY <1>0 DEF Behind
  <1>4. ASSUME Apart(s, S, T)  PROVE Apart(t, S, T)
    <2> SUFFICES ASSUME NEW i \in DOMAIN t, NEW k \in DOMAIN t, i < k, t[i] \in T, t[k] \in T
                 PROVE  \E j \in DOMAIN t : i < j /\ j < k /\ t[j] \in S
      BY DEF Apart
    <2>1. PICK j \in DOMAIN s : i + 1 < j /\ j < k + 1 /\ s[j] \in S
      BY <1>0, <1>4 DEF Apart
    <2>2. j - 1 \in DOMAIN t /\ i < j - 1 /\ j - 1 < k /\ t[j - 1] \in S  BY <1>0, <2>1
    <2> QED BY <2>2
  <1>5. ASSUME Apart(s, S, T), Head(s) \in T, ~Has(s, S)  PROVE ~Has(t, T)
    <2> SUFFICES ASSUME NEW k \in DOMAIN t, t[k] \in T  PROVE FALSE
      BY DEF Has
    <2>1. 1 < k + 1 /\ s[1] \in T /\ s[k + 1] \in T /\ k + 1 \in DOMAIN s  BY <1>0, <1>5
    <2> QED BY <1>0, <1>5, <2>1 DEF Apart, Has
  <1>6. ASSUME Open(s, S, T)  PROVE Open(t, S, T) \/ (Head(s) \in T /\ ~Has(t, S))
    <2>1. PICK i \in DOMAIN s : s[i] \in T /\ \A j \in DOMAIN s : i < j => s[j] \notin S
      BY <1>6 DEF Open
    <2>2. CASE i = 1  BY <1>0, <2>1, <2>2 DEF Has
    <2>3. CASE i # 1
      <3>1. i - 1 \in DOMAIN t /\ t[i - 1] \in T  BY <1>0, <2>1, <2>3
      <3>2. \A j \in DOMAIN t : i - 1 < j => t[j] \notin S
        <4> SUFFICES ASSUME NEW j \in DOMAIN t, i - 1 < j  PROVE t[j] \notin S
          OBVIOUS
        <4>1. j + 1 \in DOMAIN s /\ i < j + 1 /\ t[j] = s[j + 1]  BY <1>0
        <4> QED BY <2>1, <4>1
      <3> QED BY <3>1, <3>2 DEF Open
    <2> QED BY <2>2, <2>3
  <1>7. ASSUME Open(t, S, T)  PROVE Open(s, S, T)
    <2>1. PICK i \in DOMAIN t : t[i] \in T /\ \A j \in DOMAIN t : i < j => t[j] \notin S
      BY <1>7 DEF Open
    <2>2. i + 1 \in DOMAIN s /\ s[i + 1] \in T  BY <1>0, <2>1
    <2>3. \A j \in DOMAIN s : i + 1 < j => s[j] \notin S
      <3> SUFFICES ASSUME NEW j \in DOMAIN s, i + 1 < j  PROVE s[j] \notin S
        OBVIOUS
      <3>1. j - 1 \in DOMAIN t /\ i < j - 1 /\ s[j] = t[j - 1]  BY <1>0
      <3> QED BY <2>1, <3>1
    <2> QED BY <2>2, <2>3 DEF Open
  <1>8. Head(s) \in T /\ ~Has(t, S) => Open(s, S, T)  BY <1>0 DEF Open, Has
  <1>9. Crossed(s, S, T) => Crossed(t, S, T) \/ (Head(s) \in S /\ Has(t, T))
    <2> SUFFICES ASSUME NEW i \in DOMAIN s, NEW j \in DOMAIN s, i < j, s[i] \in S, s[j] \in T
                 PROVE  Crossed(t, S, T) \/ (Head(s) \in S /\ Has(t, T))
      BY DEF Crossed
    <2>1. j - 1 \in DOMAIN t /\ t[j - 1] \in T  BY <1>0
    <2>2. CASE i = 1  BY <1>0, <2>1, <2>2 DEF Has
    <2>3. CASE i # 1
      <3>1. i - 1 \in DOMAIN t /\ t[i - 1] \in S /\ i - 1 < j - 1  BY <1>0, <2>3
      <3> QED BY <2>1, <3>1 DEF Crossed
    <2> QED BY <2>2, <2>3
  <1>10. Crossed(t, S, T) => Crossed(s, S, T)
    <2> SUFFICES ASSUME NEW i \in DOMAIN t, NEW j \in DOMAIN t, i < j, t[i] \in S, t[j] \in T
                 PROVE  Crossed(s, S, T)
      BY DEF Crossed
    <2>1. /\ i + 1 \in DOMAIN s /\ j + 1 \in DOMAIN s /\ i + 1 < j + 1
          /\ s[i + 1] \in S /\ s[j + 1] \in T
      BY <1>0
    <2> QED BY <2>1 DEF Crossed
  <1>11. Head(s) \in S /\ Has(t, T) => Crossed(s, S, T)
    <2> SUFFICES ASSUME Head(s) \in S, NEW j \in DOMAIN t, t[j] \in T  PROVE Crossed(s, S, T)
      BY DEF Has
    <2>1. j + 1 \in DOMAIN s /\ 1 < j + 1 /\ s[1] \in S /\ s[j + 1] \in T /\ 1 \in DOMAIN s  BY <1>0
    <2> QED BY <2>1 DEF Crossed
  <1> QED
    BY <1>1, <1>2, <1>3, <1>4, <1>5, <1>6, <1>7, <1>8, <1>9, <1>10, <1>11 DEF t

\* What the order of the elements says of their being there.
LEMMA OrderHas ==
    ASSUME NEW V, NEW s \in Seq(V), NEW S, NEW T
    PROVE  /\ ~Has(s, T) => Behind(s, S, T) /\ Apart(s, S, T) /\ ~Open(s, S, T) /\ ~Crossed(s, S, T)
           /\ Behind(s, S, T) /\ Has(s, T) => Has(s, S)
           /\ Has(s, T) /\ ~Has(s, S) => Open(s, S, T)
           /\ ~Has(s, S) => ~Crossed(s, S, T)
  BY DEF Has, Behind, Apart, Open, Crossed
-----------------------------------------------------------------------------
(* Signals, operations and types                                           *)

Second == Other(First)

Signals(kinds) == [kind : kinds, lists : BOOLEAN]
Descriptions(ops) == [op : ops, by : {"handleSignal"}, lists : BOOLEAN]

Joined == Signals({"peer_joined"})
Offer == Signals({"offer"})
Answer == Signals({"answer"})
Candidates == Signals({"candidate"})
Unlisted == [kind : {"offer", "answer"}, lists : {FALSE}]
AnySignal == Signals({"peer_joined", "offer", "answer", "candidate"})

OpOffer == Descriptions({"offer"})
OpAnswer == Descriptions({"answer"})
OpUnlisted == [op : {"offer", "answer"}, by : {"handleSignal"}, lists : {FALSE}]
Made == [op : {"local"}, by : {"makeOffer"}]
Locals == [op : {"local"}, by : {"makeOffer", "handleSignal"}]
Adds == [op : {"add"}, by : {"handleSignal", "offer", "answer"}]
Flushing == [op : {"add"}, by : {"offer", "answer"}]
\* What is left of handleSignal once it has set a remote offer.
Answering == [op : {"local"}, by : {"handleSignal"}] \cup [op : {"add"}, by : {"offer"}]
AnyOperation == Descriptions({"offer", "answer"}) \cup Locals \cup Adds

TypeOK ==
    /\ page \in [Peers -> {"away", "joined", "listens", "calls"}]
    /\ wire \in [Peers -> Seq(AnySignal)] /\ chain \in [Peers -> Seq(AnyOperation)]
    /\ makingOffer \in [Peers -> BOOLEAN] /\ isSettingRemoteAnswerPending \in [Peers -> BOOLEAN]
    /\ pendingCandidates \in [Peers -> Nat]
    /\ state \in [Peers -> {"stable", "local", "remote"}]
    /\ remote \in [Peers -> BOOLEAN] /\ needed \in [Peers -> BOOLEAN]
    /\ offerer \in [Peers -> Peers \cup {Nobody}]
    /\ gathered \in [Peers -> BOOLEAN] /\ known \in [Peers -> BOOLEAN]
    /\ restarts \in Nat /\ offered \in [Peers -> BOOLEAN] /\ superseded \in BOOLEAN

LEMMA TwoPeers ==
    /\ First \in Peers /\ Second \in Peers /\ Second # First /\ Peers = {First, Second}
    /\ Other(First) = Second /\ Other(Second) = First
    /\ Polite[First] = FALSE /\ Polite[Second] = TRUE
  <1>1. PICK r \in Peers : r # First /\ Peers = {First, r}  BY PeersAssumption
  <1>2. Other(First) = r /\ Other(r) = First  BY <1>1 DEF Other
  <1> QED BY <1>1, <1>2, PoliteAssumption DEF Second

LEMMA OtherPeer ==
    ASSUME NEW p \in Peers
    PROVE  Other(p) \in Peers /\ Other(p) # p /\ Other(Other(p)) = p /\ Peers = {p, Other(p)}
  BY TwoPeers

Signal(kind, l) == [kind |-> kind, lists |-> l]
DescOp(op, l) == [op |-> op, by |-> "handleSignal", lists |-> l]
Op(op, by) == [op |-> op, by |-> by]
\* Which kind an element is of, written out.
SignalKinds(m) ==
    /\ m \in AnySignal
    /\ m \in Joined => m \notin Offer \cup Answer \cup Candidates \cup Unlisted
    /\ m \in Offer => m \notin Joined \cup Answer \cup Candidates
    /\ m \in Answer => m \notin Joined \cup Offer \cup Candidates
    /\ m \in Candidates => m \notin Joined \cup Offer \cup Answer \cup Unlisted
    /\ m \in Joined \cup Offer \cup Answer \cup Candidates

LEMMA SignalFacts == \A m \in AnySignal : SignalKinds(m)
  BY DEF AnySignal, Joined, Offer, Answer, Candidates, Unlisted, Signals, SignalKinds

LEMMA SignalMembers ==
    ASSUME NEW l \in BOOLEAN
    PROVE  /\ Signal("peer_joined", l) \in Joined /\ Signal("offer", l) \in Offer
           /\ Signal("answer", l) \in Answer /\ Signal("candidate", l) \in Candidates
           /\ l => Signal("offer", l) \notin Unlisted /\ Signal("answer", l) \notin Unlisted
  BY DEF Joined, Offer, Answer, Candidates, Unlisted, Signals, Signal

LEMMA KindMembers ==
    ASSUME NEW m \in AnySignal
    PROVE  /\ m.kind = "peer_joined" <=> m \in Joined
           /\ m.kind = "offer" <=> m \in Offer
           /\ m.kind = "answer" <=> m \in Answer
           /\ m.kind = "candidate" <=> m \in Candidates
           /\ m \notin Unlisted /\ m \in Offer \cup Answer => m.lists
           /\ m.lists \in BOOLEAN /\ m.kind \in {"peer_joined", "offer", "answer", "candidate"}
  BY DEF AnySignal, Joined, Offer, Answer, Candidates, Unlisted, Signals

OperationKinds(o) ==
    /\ o \in AnyOperation
    /\ o \in OpOffer => o \notin OpAnswer \cup Locals \cup Adds
    /\ o \in OpAnswer => o \notin OpOffer \cup Locals \cup Adds
    /\ o \in Locals => o \notin OpOffer \cup OpAnswer \cup OpUnlisted \cup Adds
                       /\ (o \in Made <=> o \notin Answering)
    /\ o \in Adds => o \notin OpOffer \cup OpAnswer \cup OpUnlisted \cup Locals
    /\ o \in Made => o \in Locals
    /\ o \in Flushing => o \in Adds
    /\ o \in Answering => o \in Locals \/ o \in Flushing
    /\ o \in OpOffer \cup OpAnswer \cup Locals \cup Adds

LEMMA OperationFacts == \A o \in AnyOperation : OperationKinds(o)
  BY DEF AnyOperation, OpOffer, OpAnswer, OpUnlisted, Made, Locals, Adds, Flushing, Answering,
         Descriptions, OperationKinds

LEMMA OperationMembers ==
    /\ \A l \in BOOLEAN : /\ DescOp("offer", l) \in OpOffer /\ DescOp("answer", l) \in OpAnswer
                          /\ l => /\ DescOp("offer", l) \notin OpUnlisted
                                  /\ DescOp("answer", l) \notin OpUnlisted
    /\ Op("local", "makeOffer") \in Made
    /\ Op("local", "handleSignal") \in Locals \cap Answering
    /\ Op("add", "handleSignal") \in Adds /\ Op("add", "handleSignal") \notin Flushing
    /\ Op("add", "offer") \in Flushing \cap Answering
    /\ Op("add", "answer") \in Flushing /\ Op("add", "answer") \notin Answering
  BY DEF OpOffer, OpAnswer, OpUnlisted, Made, Locals, Adds, Flushing, Answering, Descriptions,
         DescOp, Op

LEMMA OpMembers ==
    ASSUME NEW o \in AnyOperation
    PROVE  /\ o.op = "offer" <=> o \in OpOffer
           /\ o.op = "answer" <=> o \in OpAnswer
           /\ o.op = "local" <=> o \in Locals
           /\ o.op = "add" <=> o \in Adds
           /\ o \in Locals => (o.by = "makeOffer" <=> o \in Made)
           /\ o \in Adds => /\ o.by \in {"handleSignal", "offer", "answer"}
                            /\ o.by = "handleSignal" <=> o \notin Flushing
                            /\ o.by = "offer" <=> o \in Answering
           /\ o \in OpOffer \cup OpAnswer => o.lists \in BOOLEAN /\ (~o.lists <=> o \in OpUnlisted)
  <1>1. CASE o \in Descriptions({"offer", "answer"})
    BY <1>1 DEF OpOffer, OpAnswer, OpUnlisted, Locals, Adds, Descriptions
  <1>2. CASE o \in Locals
    BY <1>2 DEF OpOffer, OpAnswer, Made, Locals, Adds, Descriptions
  <1>3. CASE o \in Adds
    BY <1>3 DEF OpOffer, OpAnswer, Locals, Adds, Flushing, Answering, Descriptions
  <1> QED BY <1>1, <1>2, <1>3 DEF AnyOperation
LEMMA Quiet == ASSUME TypeOK, UNCHANGED vars PROVE TypeOK'
  BY DEF TypeOK, vars, flagVars, pcVars, history

LEMMA Elements ==
    /\ \A l \in BOOLEAN :
         /\ \A k \in {"peer_joined", "offer", "answer", "candidate"} : Signal(k, l) \in AnySignal
         /\ \A k \in {"offer", "answer"} : DescOp(k, l) \in AnyOperation
    /\ \A b \in {"makeOffer", "handleSignal"} : Op("local", b) \in AnyOperation
    /\ \A b \in {"handleSignal", "offer", "answer"} : Op("add", b) \in AnyOperation
  BY DEF AnySignal, AnyOperation, Signals, Signal, Descriptions, DescOp, Locals, Adds, Op

LEMMA SentTypes ==
    ASSUME TypeOK, NEW p \in Peers, NEW k \in {"peer_joined", "offer", "answer", "candidate"},
           Sent(p, k)
    PROVE  wire' \in [Peers -> Seq(AnySignal)]
  <1>1. Signal(k, gathered[p]) \in AnySignal  BY Elements DEF TypeOK
  <1>2. Append(wire[Other(p)], Signal(k, gathered[p])) \in Seq(AnySignal)
    BY <1>1, OtherPeer, Queues DEF TypeOK
  <1> QED BY <1>2, OtherPeer DEF Sent, Signal, TypeOK

LEMMA MakeOfferTypes ==
    ASSUME TypeOK, NEW p \in Peers, MakeOffer(p)
    PROVE  /\ chain' \in [Peers -> Seq(AnyOperation)] /\ makingOffer' \in [Peers -> BOOLEAN]
           /\ isSettingRemoteAnswerPending' \in [Peers -> BOOLEAN]
           /\ pendingCandidates' \in [Peers -> Nat]
  <1>1. Append(chain[p], Op("local", "makeOffer")) \in Seq(AnyOperation)
    BY Elements, Queues DEF TypeOK
  <1> QED BY <1>1 DEF MakeOffer, Op, TypeOK

LEMMA FlushTypes ==
    ASSUME TypeOK, NEW p \in Peers, NEW k \in {"offer", "answer"},
           NEW rest \in Seq(AnyOperation), Flush(p, k, rest)
    PROVE  /\ chain' \in [Peers -> Seq(AnyOperation)] /\ pendingCandidates' \in [Peers -> Nat]
  <1>1. /\ Append(rest, Op("add", k)) \in Seq(AnyOperation)
        /\ Append(rest, Op("local", "handleSignal")) \in Seq(AnyOperation)
    BY Elements, Queues
  <1>0. chain \in [Peers -> Seq(AnyOperation)] /\ pendingCandidates \in [Peers -> Nat]
    BY DEF TypeOK
  <1>2. CASE pendingCandidates[p] > 0
    <2>1. pendingCandidates[p] - 1 \in Nat  BY <1>0, <1>2
    <2>2. /\ chain' = [chain EXCEPT ![p] = Append(rest, Op("add", k))]
          /\ pendingCandidates' = [pendingCandidates EXCEPT ![p] = pendingCandidates[p] - 1]
      BY <1>2 DEF Flush, Op
    <2> QED BY <1>0, <1>1, <2>1, <2>2
  <1>3. CASE ~(pendingCandidates[p] > 0)
    <2>1. /\ chain' = [chain EXCEPT ![p] = IF k = "offer"
                                            THEN Append(rest, Op("local", "handleSignal"))
                                            ELSE rest]
          /\ pendingCandidates' = pendingCandidates
      BY <1>3 DEF Flush, Op
    <2> QED BY <1>0, <1>1, <2>1
  <1> QED BY <1>2, <1>3

LEMMA JoinTypes == ASSUME TypeOK, NEW p \in Peers, Join(p) PROVE TypeOK'
  BY DEF Join, TypeOK, flagVars, pcVars, history

LEMMA SubscribeTypes == ASSUME TypeOK, NEW p \in Peers, Subscribe(p) PROVE TypeOK'
  <1>1. wire' \in [Peers -> Seq(AnySignal)]  BY SentTypes DEF Subscribe, TypeOK
  <1> QED BY <1>1 DEF Subscribe, TypeOK, flagVars, pcVars, history

LEMMA CreateTypes == ASSUME TypeOK, NEW p \in Peers, CreateCall(p) PROVE TypeOK'
  BY DEF CreateCall, TypeOK, flagVars, history

LEMMA NeededTypes == ASSUME TypeOK, NEW p \in Peers, OnNegotiationNeeded(p) PROVE TypeOK'
  BY MakeOfferTypes DEF OnNegotiationNeeded, TypeOK, history

LEMMA RestartTypes == ASSUME TypeOK, NEW p \in Peers, OnIceDisconnected(p) PROVE TypeOK'
  BY MakeOfferTypes DEF OnIceDisconnected, TypeOK, pcVars, history

LEMMA GatherTypes == ASSUME TypeOK, NEW p \in Peers, OnIceCandidate(p) PROVE TypeOK'
  <1>1. wire' \in [Peers -> Seq(AnySignal)]  BY SentTypes DEF OnIceCandidate
  <1> QED BY <1>1 DEF OnIceCandidate, TypeOK, flagVars, history

LEMMA ReceiveTypes == ASSUME TypeOK, NEW p \in Peers, Receive(p) PROVE TypeOK'
  <1> DEFINE msg == Head(wire[p])
  <1>1. msg \in AnySignal /\ Tail(wire[p]) \in Seq(AnySignal)
    <2>1. wire[p] \in Seq(AnySignal) /\ wire[p] # <<>>  BY DEF TypeOK, Receive
    <2> QED BY <2>1, Tails
  <1>2. wire' \in [Peers -> Seq(AnySignal)]  BY <1>1 DEF Receive, TypeOK
  <1>3. UNCHANGED <<page, pcVars, restarts, history>>  BY DEF Receive
  <1>4. /\ chain' \in [Peers -> Seq(AnyOperation)] /\ makingOffer' \in [Peers -> BOOLEAN]
        /\ isSettingRemoteAnswerPending' \in [Peers -> BOOLEAN]
        /\ pendingCandidates' \in [Peers -> Nat]
    <2>1. CASE msg.kind = "peer_joined" /\ MakeOffer(p)  BY <2>1, MakeOfferTypes
    <2>2. CASE msg.kind \in {"offer", "answer"} /\ Description(p, msg)
      <3>1. msg.lists \in BOOLEAN  BY <1>1, KindMembers
      <3>2. Append(chain[p], DescOp(msg.kind, msg.lists)) \in Seq(AnyOperation)
        BY <2>2, <3>1, Elements, Queues DEF TypeOK
      <3>3. (msg.kind = "answer") \in BOOLEAN  OBVIOUS
      <3> HIDE DEF msg
      <3> QED BY <2>2, <3>2, <3>3 DEF Description, DescOp, TypeOK, flagVars
    <2>3. CASE msg.kind = "candidate" /\ Candidate(p)
      <3>1. Append(chain[p], Op("add", "handleSignal")) \in Seq(AnyOperation)
        BY Elements, Queues DEF TypeOK
      <3>2. /\ chain \in [Peers -> Seq(AnyOperation)] /\ pendingCandidates \in [Peers -> Nat]
            /\ makingOffer \in [Peers -> BOOLEAN]
            /\ isSettingRemoteAnswerPending \in [Peers -> BOOLEAN]
        BY DEF TypeOK
      <3>3. CASE remote[p]
        <4>1. chain' = [chain EXCEPT ![p] = Append(chain[p], Op("add", "handleSignal"))]
              /\ UNCHANGED flagVars
          BY <2>3, <3>3 DEF Candidate, Op
        <4> QED BY <3>1, <3>2, <4>1 DEF flagVars
      <3>4. CASE ~remote[p]
        <4>1. /\ pendingCandidates' = [pendingCandidates EXCEPT ![p] = pendingCandidates[p] + 1]
              /\ UNCHANGED <<chain, makingOffer, isSettingRemoteAnswerPending>>
          BY <2>3, <3>4 DEF Candidate
        <4> QED BY <3>2, <4>1
      <3> QED BY <3>3, <3>4
    <2> QED BY <2>1, <2>2, <2>3 DEF Receive
  <1> QED BY <1>2, <1>3, <1>4 DEF TypeOK, pcVars, history

LEMMA HeadOfChain ==
    ASSUME TypeOK, NEW p \in Peers, chain[p] # <<>>
    PROVE  Head(chain[p]) \in AnyOperation /\ Tail(chain[p]) \in Seq(AnyOperation)
  <1>1. chain[p] \in Seq(AnyOperation)  BY DEF TypeOK
  <1> QED BY <1>1, Tails

LEMMA SetLocalTypes == ASSUME TypeOK, NEW p \in Peers, SetLocal(p) PROVE TypeOK'
  <1>1. chain' \in [Peers -> Seq(AnyOperation)]
    BY HeadOfChain DEF SetLocal, Operation, TypeOK
  <1>2. wire' \in [Peers -> Seq(AnySignal)]  BY SentTypes DEF SetLocal
  <1>3. makingOffer' \in [Peers -> BOOLEAN]  BY DEF SetLocal, TypeOK
  <1>4. CASE state[p] = "remote"
    <2>1. /\ state' = [state EXCEPT ![p] = "stable"] /\ offerer' = [offerer EXCEPT ![p] = Other(p)]
          /\ needed' = [needed EXCEPT ![p] = FALSE] /\ UNCHANGED history
      BY <1>4 DEF SetLocal
    <2>2. UNCHANGED <<page, isSettingRemoteAnswerPending, pendingCandidates, remote, gathered,
                   known,
                      restarts>>
      BY DEF SetLocal
    <2> QED BY <1>1, <1>2, <1>3, <2>1, <2>2, OtherPeer DEF TypeOK, history
  <1>5. CASE state[p] # "remote"
    <2>1. /\ state' = [state EXCEPT ![p] = "local"]
          /\ offered' = [offered EXCEPT ![p] = Listens(Other(p))]
          /\ superseded' = (superseded \/ (state[p] = "local" /\ offered[p]))
          /\ UNCHANGED <<offerer, needed>>
      BY <1>5 DEF SetLocal
    <2>2. UNCHANGED <<page, isSettingRemoteAnswerPending, pendingCandidates, remote, gathered,
                   known,
                      restarts>>
      BY DEF SetLocal
    <2>3. Listens(Other(p)) \in BOOLEAN  BY DEF Listens
    <2>4. superseded' \in BOOLEAN  BY <2>1, Zenon
    <2>5. offered' \in [Peers -> BOOLEAN]  BY <2>1, <2>3 DEF TypeOK
    <2> QED BY <1>1, <1>2, <1>3, <2>1, <2>2, <2>4, <2>5 DEF TypeOK
  <1> QED BY <1>4, <1>5

LEMMA SetRemoteTypes == ASSUME TypeOK, NEW p \in Peers, SetRemote(p) PROVE TypeOK'
  <1> DEFINE done == Head(chain[p])
  <1>1. done \in AnyOperation /\ Tail(chain[p]) \in Seq(AnyOperation)
        /\ done.op \in {"offer", "answer"}
    BY HeadOfChain DEF SetRemote, Operation
  <1>2. Flush(p, done.op, Tail(chain[p]))  BY DEF SetRemote
  <1> HIDE DEF done
  <1>3. chain' \in [Peers -> Seq(AnyOperation)] /\ pendingCandidates' \in [Peers -> Nat]
    BY <1>1, <1>2, FlushTypes
  <1>4. /\ state' \in [Peers -> {"stable", "local", "remote"}]
        /\ offerer' \in [Peers -> Peers \cup {Nobody}] /\ needed' \in [Peers -> BOOLEAN]
    BY DEF SetRemote, TypeOK
  <1>5. known' \in [Peers -> BOOLEAN]
    <2>1. (known[p] \/ done.lists) \in BOOLEAN  OBVIOUS
    <2>2. known' = [known EXCEPT ![p] = known[p] \/ done.lists]  BY DEF SetRemote, done
    <2> QED BY <2>1, <2>2 DEF TypeOK
  <1>6. /\ superseded' \in BOOLEAN
        /\ remote' \in [Peers -> BOOLEAN] /\ isSettingRemoteAnswerPending' \in [Peers -> BOOLEAN]
        /\ UNCHANGED <<page, wire, makingOffer, gathered, restarts, offered>>
    <2>1. (superseded \/ (Operation(p, "offer") /\ ~Polite[p] /\ state[p] = "local" /\ offered[p]))
            \in BOOLEAN
      OBVIOUS
    <2> QED BY <2>1 DEF SetRemote, TypeOK
  <1> QED BY <1>3, <1>4, <1>5, <1>6 DEF TypeOK

LEMMA RefusedTypes == ASSUME TypeOK, NEW p \in Peers, AnswerRefused(p) PROVE TypeOK'
  <1>1. chain' \in [Peers -> Seq(AnyOperation)]
    BY HeadOfChain DEF AnswerRefused, Operation, TypeOK
  <1> QED BY <1>1 DEF AnswerRefused, TypeOK, flagVars, pcVars, history

LEMMA AddedTypes == ASSUME TypeOK, NEW p \in Peers, Added(p) PROVE TypeOK'
  <1> DEFINE done == Head(chain[p])
  <1>1. done \in AnyOperation /\ Tail(chain[p]) \in Seq(AnyOperation) /\ done.op = "add"
    BY HeadOfChain DEF Added, Operation
  <1>2. done.by \in {"handleSignal", "offer", "answer"}  BY <1>1, OpMembers
  <1>3. chain' \in [Peers -> Seq(AnyOperation)] /\ pendingCandidates' \in [Peers -> Nat]
    <2>1. CASE done.by = "handleSignal"  BY <1>1, <2>1 DEF Added, TypeOK
    <2>2. CASE done.by # "handleSignal"
      <3>1. Flush(p, done.by, Tail(chain[p]))  BY <2>2 DEF Added
      <3> QED BY <1>1, <1>2, <2>2, <3>1, FlushTypes
    <2> QED BY <2>1, <2>2
  <1>4. known' \in [Peers -> BOOLEAN]  BY DEF Added, TypeOK
  <1>5. UNCHANGED <<page, wire, makingOffer, isSettingRemoteAnswerPending, state, remote, needed,
                    offerer, gathered, restarts, history>>
    BY DEF Added
  <1> QED BY <1>3, <1>4, <1>5 DEF TypeOK, history

\* The variables hold what they are said to hold: the operations of a chain are
\* those of makeOffer, handleSignal and flushPendingCandidates.
THEOREM TypeCorrect == Spec => []TypeOK
  <1>1. Init => TypeOK
    <2> SUFFICES ASSUME Init PROVE TypeOK
      OBVIOUS
    <2>1. <<>> \in Seq(AnySignal) /\ <<>> \in Seq(AnyOperation)  OBVIOUS
    <2> QED BY <2>1 DEF Init, TypeOK
  <1>2. TypeOK /\ [Next]_vars => TypeOK'
    BY Quiet, JoinTypes, SubscribeTypes, CreateTypes, NeededTypes, RestartTypes, GatherTypes,
       ReceiveTypes, SetLocalTypes, SetRemoteTypes, RefusedTypes, AddedTypes DEF Next, Step
  <1> QED BY <1>1, <1>2, PTL DEF Spec
-----------------------------------------------------------------------------
(* What one element more, or one less, changes of what the invariants say  *)
(* of a queue of signals s and of a chain of operations s.                 *)

WirePush(s, t, m) ==
    /\ SignalKinds(m)
    /\ Has(t, Joined) <=> Has(s, Joined) \/ m \in Joined
    /\ Has(t, Offer) <=> Has(s, Offer) \/ m \in Offer
    /\ Has(t, Answer) <=> Has(s, Answer) \/ m \in Answer
    /\ Has(t, Candidates) <=> Has(s, Candidates) \/ m \in Candidates
    /\ Has(t, Unlisted) <=> Has(s, Unlisted) \/ m \in Unlisted
    /\ Leads(s, Joined) /\ (m \in Joined => s = <<>>) => Leads(t, Joined)
    /\ Once(t, Offer) <=> Once(s, Offer) /\ (m \in Offer => ~Has(s, Offer))
    /\ Once(t, Answer) <=> Once(s, Answer) /\ (m \in Answer => ~Has(s, Answer))
    /\ Twice(s, Offer) /\ (m \in Offer => Once(s, Offer)) => Twice(t, Offer)
    /\ Behind(t, Answer, Offer) <=> Behind(s, Answer, Offer) /\ (m \in Offer => Has(s, Answer))
    /\ Apart(s, Answer, Offer) /\ (m \in Offer => ~Open(s, Answer, Offer))
         => Apart(t, Answer, Offer)
    /\ Open(t, Answer, Offer) <=> m \in Offer \/ (Open(s, Answer, Offer) /\ m \notin Answer)
    /\ Crossed(t, Answer, Offer) <=> Crossed(s, Answer, Offer) \/ (m \in Offer /\ Has(s, Answer))

\* The first element is gone.
WirePop(s, t) ==
    /\ s # <<>> /\ SignalKinds(Head(s))
    /\ Has(s, Joined) <=> Head(s) \in Joined \/ Has(t, Joined)
    /\ Has(s, Offer) <=> Head(s) \in Offer \/ Has(t, Offer)
    /\ Has(s, Answer) <=> Head(s) \in Answer \/ Has(t, Answer)
    /\ Has(s, Candidates) <=> Head(s) \in Candidates \/ Has(t, Candidates)
    /\ Has(s, Unlisted) <=> Head(s) \in Unlisted \/ Has(t, Unlisted)
    /\ Leads(s, Joined) => ~Has(t, Joined) /\ Leads(t, Joined)
    /\ Once(s, Offer) <=> Once(t, Offer) /\ (Head(s) \in Offer => ~Has(t, Offer))
    /\ Once(s, Answer) <=> Once(t, Answer) /\ (Head(s) \in Answer => ~Has(t, Answer))
    /\ Twice(s, Offer) => Twice(t, Offer) /\ (Head(s) \in Offer => Once(t, Offer))
    /\ Behind(s, Answer, Offer) /\ Head(s) \notin Answer => Behind(t, Answer, Offer)
    /\ Behind(s, Answer, Offer) => Head(s) \notin Offer
    /\ Apart(s, Answer, Offer) => Apart(t, Answer, Offer)
    /\ Apart(s, Answer, Offer) /\ Head(s) \in Offer /\ ~Has(s, Answer) => ~Has(t, Offer)
    /\ Open(s, Answer, Offer) <=> Open(t, Answer, Offer) \/ (Head(s) \in Offer /\ ~Has(t, Answer))
    /\ Crossed(s, Answer, Offer) <=> \/ Crossed(t, Answer, Offer)
                                     \/ Head(s) \in Answer /\ Has(t, Offer)

\* What holds of the wire as it is.
WireFacts(s) ==
    /\ ~Has(s, Offer) => /\ Once(s, Offer) /\ Behind(s, Answer, Offer) /\ Apart(s, Answer, Offer)
                         /\ ~Open(s, Answer, Offer) /\ ~Crossed(s, Answer, Offer)
    /\ ~Has(s, Answer) => Once(s, Answer) /\ ~Crossed(s, Answer, Offer)
    /\ ~Has(s, Joined) => Leads(s, Joined)
    /\ Once(s, Offer) => Twice(s, Offer)
    /\ Has(s, Offer) /\ ~Has(s, Answer) => Open(s, Answer, Offer)
    /\ Has(s, Offer) /\ Behind(s, Answer, Offer) => Has(s, Answer)
    /\ s = <<>> => /\ ~Has(s, Joined) /\ ~Has(s, Offer) /\ ~Has(s, Answer)
                   /\ ~Has(s, Candidates) /\ ~Has(s, Unlisted)

ChainPush(s, t, o) ==
    /\ OperationKinds(o)
    /\ t # <<>>
    /\ Has(t, OpOffer) <=> Has(s, OpOffer) \/ o \in OpOffer
    /\ Has(t, OpAnswer) <=> Has(s, OpAnswer) \/ o \in OpAnswer
    /\ Has(t, OpUnlisted) <=> Has(s, OpUnlisted) \/ o \in OpUnlisted
    /\ Has(t, Made) <=> Has(s, Made) \/ o \in Made
    /\ Has(t, Locals) <=> Has(s, Locals) \/ o \in Locals
    /\ Has(t, Adds) <=> Has(s, Adds) \/ o \in Adds
    /\ Has(t, Flushing) <=> Has(s, Flushing) \/ o \in Flushing
    /\ Has(t, Answering) <=> Has(s, Answering) \/ o \in Answering
    /\ Once(t, OpOffer) <=> Once(s, OpOffer) /\ (o \in OpOffer => ~Has(s, OpOffer))
    /\ Once(t, OpAnswer) <=> Once(s, OpAnswer) /\ (o \in OpAnswer => ~Has(s, OpAnswer))
    /\ Once(t, Made) <=> Once(s, Made) /\ (o \in Made => ~Has(s, Made))
    /\ Once(t, Answering) <=> Once(s, Answering) /\ (o \in Answering => ~Has(s, Answering))
    /\ Leads(s, Made) /\ (o \in Made => s = <<>>) => Leads(t, Made)
    /\ Twice(s, OpOffer) /\ (o \in OpOffer => Once(s, OpOffer)) => Twice(t, OpOffer)
    /\ Twice(s, Made) /\ (o \in Made => Once(s, Made)) => Twice(t, Made)
    /\ Twice(s, Answering) /\ (o \in Answering => Once(s, Answering)) => Twice(t, Answering)
    /\ Behind(t, OpAnswer, OpOffer)
         <=> Behind(s, OpAnswer, OpOffer) /\ (o \in OpOffer => Has(s, OpAnswer))
    /\ Crossed(t, OpAnswer, Made) <=> Crossed(s, OpAnswer, Made) \/ (o \in Made /\ Has(s, OpAnswer))

ChainPop(s, t) ==
    /\ s # <<>> /\ OperationKinds(Head(s))
    /\ Has(s, OpOffer) <=> Head(s) \in OpOffer \/ Has(t, OpOffer)
    /\ Has(s, OpAnswer) <=> Head(s) \in OpAnswer \/ Has(t, OpAnswer)
    /\ Has(s, OpUnlisted) <=> Head(s) \in OpUnlisted \/ Has(t, OpUnlisted)
    /\ Has(s, Made) <=> Head(s) \in Made \/ Has(t, Made)
    /\ Has(s, Locals) <=> Head(s) \in Locals \/ Has(t, Locals)
    /\ Has(s, Adds) <=> Head(s) \in Adds \/ Has(t, Adds)
    /\ Has(s, Flushing) <=> Head(s) \in Flushing \/ Has(t, Flushing)
    /\ Has(s, Answering) <=> Head(s) \in Answering \/ Has(t, Answering)
    /\ Once(s, OpOffer) <=> Once(t, OpOffer) /\ (Head(s) \in OpOffer => ~Has(t, OpOffer))
    /\ Once(s, OpAnswer) <=> Once(t, OpAnswer) /\ (Head(s) \in OpAnswer => ~Has(t, OpAnswer))
    /\ Once(s, Made) <=> Once(t, Made) /\ (Head(s) \in Made => ~Has(t, Made))
    /\ Once(s, Answering) <=> Once(t, Answering) /\ (Head(s) \in Answering => ~Has(t, Answering))
    /\ Leads(s, Made) => ~Has(t, Made) /\ Leads(t, Made)
    /\ Twice(s, OpOffer) => Twice(t, OpOffer) /\ (Head(s) \in OpOffer => Once(t, OpOffer))
    /\ Twice(s, Made) => Twice(t, Made) /\ (Head(s) \in Made => Once(t, Made))
    /\ Twice(s, Answering) => Twice(t, Answering) /\ (Head(s) \in Answering => Once(t, Answering))
    /\ Behind(s, OpAnswer, OpOffer) /\ Head(s) \notin OpAnswer => Behind(t, OpAnswer, OpOffer)
    /\ Behind(t, OpAnswer, OpOffer) /\ Head(s) \notin OpOffer => Behind(s, OpAnswer, OpOffer)
    /\ Behind(s, OpAnswer, OpOffer) => Head(s) \notin OpOffer
    /\ Crossed(s, OpAnswer, Made) <=> \/ Crossed(t, OpAnswer, Made)
                                      \/ Head(s) \in OpAnswer /\ Has(t, Made)

ChainFacts(s) ==
    /\ ~Has(s, OpOffer) => Once(s, OpOffer) /\ Behind(s, OpAnswer, OpOffer)
    /\ ~Has(s, OpAnswer) => Once(s, OpAnswer) /\ ~Crossed(s, OpAnswer, Made)
    /\ ~Has(s, Made) => Once(s, Made) /\ Leads(s, Made) /\ ~Crossed(s, OpAnswer, Made)
    /\ ~Has(s, Answering) => Once(s, Answering)
    /\ Once(s, OpOffer) => Twice(s, OpOffer)
    /\ Once(s, Made) => Twice(s, Made)
    /\ Once(s, Answering) => Twice(s, Answering)
    /\ Has(s, OpOffer) /\ Behind(s, OpAnswer, OpOffer) => Has(s, OpAnswer)
    /\ s = <<>> => /\ ~Has(s, OpOffer) /\ ~Has(s, OpAnswer) /\ ~Has(s, OpUnlisted) /\ ~Has(s, Made)
                   /\ ~Has(s, Locals) /\ ~Has(s, Adds) /\ ~Has(s, Flushing) /\ ~Has(s, Answering)

LEMMA WirePushed ==
    ASSUME NEW s \in Seq(AnySignal), NEW m \in AnySignal
    PROVE  WirePush(s, Append(s, m), m)
  <1>1. SignalKinds(m)  BY SignalFacts
  <1>2. m \notin Answer \cap Offer  BY <1>1 DEF SignalKinds
  <1> QED BY <1>1, <1>2, AppendHas, AppendTwice, AppendOrder DEF WirePush

LEMMA WirePopped ==
    ASSUME NEW s \in Seq(AnySignal), s # <<>>
    PROVE  WirePop(s, Tail(s))
  <1>1. SignalKinds(Head(s))  BY Tails, SignalFacts
  <1> QED BY <1>1, TailHas, TailOrder DEF WirePop

LEMMA WireIs == ASSUME NEW s \in Seq(AnySignal) PROVE WireFacts(s)
  <1> DEFINE m == Signal("offer", TRUE)
  <1>1. m \in AnySignal  BY Elements
  <1>2. /\ ~Has(s, Offer) => Once(s, Offer) /\ Leads(s, Offer)
        /\ ~Has(s, Answer) => Once(s, Answer) /\ Leads(s, Answer)
        /\ ~Has(s, Joined) => Once(s, Joined) /\ Leads(s, Joined)
        /\ Once(s, Offer) => Twice(s, Offer)
    BY <1>1, AppendTwice
  <1>3. s = <<>> => /\ ~Has(s, Joined) /\ ~Has(s, Offer) /\ ~Has(s, Answer)
                    /\ ~Has(s, Candidates) /\ ~Has(s, Unlisted)
    BY EmptyFacts
  <1> QED BY <1>2, <1>3, OrderHas DEF WireFacts

LEMMA ChainPushed ==
    ASSUME NEW s \in Seq(AnyOperation), NEW o \in AnyOperation
    PROVE  ChainPush(s, Append(s, o), o)
  <1>1. OperationKinds(o)  BY OperationFacts
  <1>2. Append(s, o) # <<>>
    <2>1. Len(s) + 1 \in DOMAIN Append(s, o)  BY Queues
    <2> QED BY <2>1
  <1> QED BY <1>1, <1>2, AppendHas, AppendTwice, AppendOrder DEF ChainPush

LEMMA ChainPopped ==
    ASSUME NEW s \in Seq(AnyOperation), s # <<>>
    PROVE  ChainPop(s, Tail(s))
  <1>1. OperationKinds(Head(s))  BY Tails, OperationFacts
  <1> QED BY <1>1, TailHas, TailOrder DEF ChainPop

LEMMA ChainIs == ASSUME NEW s \in Seq(AnyOperation) PROVE ChainFacts(s)
  <1> DEFINE m == Op("local", "makeOffer")
  <1>1. m \in AnyOperation  BY Elements
  <1>2. /\ ~Has(s, OpOffer) => Once(s, OpOffer)
        /\ ~Has(s, OpAnswer) => Once(s, OpAnswer)
        /\ ~Has(s, Made) => Once(s, Made) /\ Leads(s, Made)
        /\ ~Has(s, Answering) => Once(s, Answering)
        /\ Once(s, OpOffer) => Twice(s, OpOffer)
        /\ Once(s, Made) => Twice(s, Made)
        /\ Once(s, Answering) => Twice(s, Answering)
    BY <1>1, AppendTwice
  <1>3. s = <<>> => /\ ~Has(s, OpOffer) /\ ~Has(s, OpAnswer) /\ ~Has(s, OpUnlisted) /\ ~Has(s, Made)
                    /\ ~Has(s, Locals) /\ ~Has(s, Adds) /\ ~Has(s, Flushing) /\ ~Has(s, Answering)
    BY EmptyFacts
  <1> QED BY <1>2, <1>3, OrderHas DEF ChainFacts
-----------------------------------------------------------------------------
(* The steps, written out: what each function returns to, at the page that *)
(* takes the step and at the other one.                                    *)

At(f, g, p, v) == g[p] = v /\ g[Other(p)] = f[Other(p)]

flags == <<makingOffer, isSettingRemoteAnswerPending>>
session == <<state, offerer, needed>>
candidates == <<pendingCandidates, gathered, known>>

\* The other page has one signal of the kind S more, if it listens.
Posted(p, S) ==
    /\ wire'[p] = wire[p]
    /\ Listens(Other(p)) => \E m \in S : /\ WirePush(wire[Other(p)], wire'[Other(p)], m)
                                         /\ gathered[p] => m \notin Unlisted
    /\ ~Listens(Other(p)) => wire'[Other(p)] = wire[Other(p)]
\* A signal has been received, an operation has been queued, one has ended, and
\* one has ended for another to be queued.
Got(p) == WirePop(wire[p], wire'[p]) /\ wire'[Other(p)] = wire[Other(p)]
Queue(p, o) == ChainPush(chain[p], chain'[p], o) /\ chain'[Other(p)] = chain[Other(p)]
Done(p) == ChainPop(chain[p], chain'[p]) /\ chain'[Other(p)] = chain[Other(p)]
DoneThen(p, o) == /\ ChainPop(chain[p], Tail(chain[p])) /\ ChainFacts(Tail(chain[p]))
                  /\ ChainPush(Tail(chain[p]), chain'[p], o) /\ chain'[Other(p)] = chain[Other(p)]

Arrives(p) ==
    /\ page[p] = "away" /\ At(page, page', p, "joined")
    /\ UNCHANGED <<wire, chain, flags, session, candidates, remote, restarts, history>>

Listening(p) ==
    /\ page[p] = "joined" /\ At(page, page', p, "listens")
    /\ IF p = Second THEN Posted(p, Joined) ELSE UNCHANGED wire
    /\ UNCHANGED <<chain, flags, session, candidates, remote, restarts, history>>

Calls(p) ==
    /\ page[p] = "listens" /\ At(page, page', p, "calls") /\ At(needed, needed', p, TRUE)
    /\ UNCHANGED <<wire, chain, flags, state, offerer, candidates, remote, restarts, history>>

\* makeOffer is called.
Makes(p) ==
    /\ At(makingOffer, makingOffer', p, TRUE) /\ \E o \in Made : Queue(p, o)
    /\ UNCHANGED <<page, isSettingRemoteAnswerPending, state, offerer, candidates, remote, history>>
Needs(p) ==
    /\ needed[p] /\ state[p] = "stable" /\ chain[p] = <<>> /\ At(needed, needed', p, FALSE)
    /\ Makes(p) /\ UNCHANGED <<wire, restarts>>
Restarts(p) ==
    /\ offerer[p] # Nobody /\ restarts' = restarts + 1 /\ Makes(p) /\ UNCHANGED <<wire, needed>>
Greeted(p) ==
    /\ page[p] = "calls" /\ Got(p) /\ Head(wire[p]) \in Joined /\ Makes(p)
    /\ UNCHANGED <<restarts, needed>>

Gathers(p) ==
    /\ state[p] # "stable" \/ offerer[p] # Nobody
    /\ At(gathered, gathered', p, TRUE) /\ Posted(p, Candidates)
    /\ UNCHANGED <<page, chain, flags, session, pendingCandidates,
                   known, remote, restarts, history>>

\* A signal is handled, up to the first await.
Handles(p, S) ==
    /\ page[p] = "calls" /\ Got(p) /\ Head(wire[p]) \in S
    /\ UNCHANGED <<page, makingOffer, session, gathered, known, remote, restarts, history>>
Ignores(p) ==
    /\ Handles(p, Offer) /\ p = First
    /\ makingOffer[p] \/ (state[p] # "stable" /\ ~isSettingRemoteAnswerPending[p])
    /\ UNCHANGED <<chain, isSettingRemoteAnswerPending, pendingCandidates>>
Accepts(p) ==
    /\ Handles(p, Offer)
    /\ p = First => ~makingOffer[p] /\ (state[p] = "stable" \/ isSettingRemoteAnswerPending[p])
    /\ At(isSettingRemoteAnswerPending, isSettingRemoteAnswerPending', p, FALSE)
    /\ \E o \in OpOffer : Queue(p, o) /\ (o \in OpUnlisted => Head(wire[p]) \in Unlisted)
    /\ UNCHANGED pendingCandidates
Answered(p) ==
    /\ Handles(p, Answer)
    /\ At(isSettingRemoteAnswerPending, isSettingRemoteAnswerPending', p, TRUE)
    /\ \E o \in OpAnswer : Queue(p, o) /\ (o \in OpUnlisted => Head(wire[p]) \in Unlisted)
    /\ UNCHANGED pendingCandidates
Trickles(p) ==
    /\ Handles(p, Candidates) /\ remote[p] /\ \E o \in Adds : o \notin Flushing /\ Queue(p, o)
    /\ UNCHANGED <<isSettingRemoteAnswerPending, pendingCandidates>>
Keeps(p) ==
    /\ Handles(p, Candidates) /\ ~remote[p]
    /\ At(pendingCandidates, pendingCandidates', p, pendingCandidates[p] + 1)
    /\ UNCHANGED <<isSettingRemoteAnswerPending, chain>>

\* setLocalDescription has ended: an answer, or an offer.
SetsLocal(p) ==
    /\ Done(p) /\ Head(chain[p]) \in Locals
    /\ makingOffer'[Other(p)] = makingOffer[Other(p)]
    /\ Head(chain[p]) \in Made => ~makingOffer'[p]
    /\ Head(chain[p]) \notin Made => makingOffer'[p] = makingOffer[p]
    /\ UNCHANGED <<page, isSettingRemoteAnswerPending, candidates, remote, restarts>>
Replies(p) ==
    /\ SetsLocal(p) /\ state[p] = "remote" /\ At(state, state', p, "stable")
    /\ At(offerer, offerer', p, Other(p)) /\ At(needed, needed', p, FALSE)
    /\ Posted(p, Answer) /\ UNCHANGED history
Proposes(p) ==
    /\ SetsLocal(p) /\ state[p] # "remote" /\ At(state, state', p, "local")
    /\ Posted(p, Offer) /\ (offered'[p] <=> Listens(Other(p)))
    /\ offered'[Other(p)] = offered[Other(p)]
    /\ superseded' <=> superseded \/ (state[p] = "local" /\ offered[p])
    /\ UNCHANGED <<offerer, needed>>

\* setRemoteDescription has ended.
SetsRemote(p) ==
    /\ At(remote, remote', p, TRUE)
    /\ At(isSettingRemoteAnswerPending, isSettingRemoteAnswerPending', p, FALSE)
    /\ known'[Other(p)] = known[Other(p)]
    /\ known'[p] <=> known[p] \/ Head(chain[p]) \notin OpUnlisted
    /\ UNCHANGED <<page, wire, makingOffer, gathered, restarts, offered>>
\* The next candidate kept is added, or there is none left.
Flushes(p) == /\ pendingCandidates[p] > 0
              /\ At(pendingCandidates, pendingCandidates', p, pendingCandidates[p] - 1)
Flushed(p) == ~(pendingCandidates[p] > 0) /\ UNCHANGED pendingCandidates
FlushesOffer(p) ==
    \E o \in Answering : /\ DoneThen(p, o)
                         /\ \/ Flushes(p) /\ o \in Flushing
                            \/ Flushed(p) /\ o \in Locals
FlushesAnswer(p) ==
    \/ Flushes(p) /\ \E o \in Flushing : o \notin Answering /\ DoneThen(p, o)
    \/ Flushed(p) /\ Done(p)
TakesOffer(p) ==
    /\ Head(chain[p]) \in OpOffer /\ SetsRemote(p) /\ FlushesOffer(p)
    /\ At(state, state', p, "remote") /\ UNCHANGED <<offerer, needed>>
    /\ superseded' <=> superseded \/ (p = First /\ state[p] = "local" /\ offered[p])
TakesAnswer(p) ==
    /\ Head(chain[p]) \in OpAnswer /\ SetsRemote(p) /\ FlushesAnswer(p)
    /\ state[p] = "local" /\ At(state, state', p, "stable")
    /\ At(offerer, offerer', p, p) /\ At(needed, needed', p, FALSE) /\ UNCHANGED superseded
Refuses(p) ==
    /\ Done(p) /\ Head(chain[p]) \in OpAnswer /\ state[p] # "local"
    /\ UNCHANGED <<page, wire, flags, session, candidates, remote, restarts, history>>

Adding(p) ==
    /\ Head(chain[p]) \in Adds /\ At(known, known', p, TRUE)
    /\ UNCHANGED <<page, wire, flags, session, gathered, remote, restarts, history>>
AddsTrickled(p) ==
    /\ Adding(p) /\ Head(chain[p]) \notin Flushing /\ Done(p) /\ UNCHANGED pendingCandidates
AddsAtOffer(p) == Adding(p) /\ Head(chain[p]) \in Flushing \cap Answering /\ FlushesOffer(p)
AddsAtAnswer(p) ==
    /\ Adding(p) /\ Head(chain[p]) \in Flushing /\ Head(chain[p]) \notin Answering
    /\ FlushesAnswer(p)

Written(p) ==
    \/ Arrives(p) \/ Listening(p) \/ Calls(p) \/ Needs(p) \/ Restarts(p) \/ Greeted(p) \/ Gathers(p)
    \/ Ignores(p) \/ Accepts(p) \/ Answered(p) \/ Trickles(p) \/ Keeps(p) \/ Replies(p)
    \/ Proposes(p) \/ TakesOffer(p) \/ TakesAnswer(p) \/ Refuses(p)
    \/ AddsTrickled(p) \/ AddsAtOffer(p) \/ AddsAtAnswer(p)

LEMMA AllIs ==
    ASSUME TypeOK, NEW p \in Peers PROVE WireFacts(wire[p]) /\ ChainFacts(chain[p])
  BY WireIs, ChainIs DEF TypeOK

LEMMA PostedWhenSent ==
    ASSUME TypeOK, NEW p \in Peers, NEW k \in {"peer_joined", "offer", "answer", "candidate"},
           Sent(p, k)
    PROVE  Posted(p, IF k = "peer_joined" THEN Joined
                     ELSE IF k = "offer" THEN Offer
                     ELSE IF k = "answer" THEN Answer ELSE Candidates)
  <1> DEFINE q == Other(p)
             m == Signal(k, gathered[p])
             S == IF k = "peer_joined" THEN Joined
                  ELSE IF k = "offer" THEN Offer ELSE IF k = "answer" THEN Answer ELSE Candidates
  <1>1. m \in AnySignal /\ wire[q] \in Seq(AnySignal) /\ gathered[p] \in BOOLEAN
    BY Elements, OtherPeer DEF TypeOK
  <1>2. m \in S /\ SignalKinds(m)  BY <1>1, SignalMembers, SignalFacts
  <1>3. gathered[p] => m \notin Unlisted  BY <1>1, <1>2, SignalMembers DEF SignalKinds
  <1>4. WirePush(wire[q], Append(wire[q], m), m)  BY <1>1, WirePushed
  <1>5. /\ wire'[p] = wire[p]
        /\ Listens(q) => wire'[q] = Append(wire[q], m)
        /\ ~Listens(q) => wire'[q] = wire[q]
    <2>1. wire \in [Peers -> Seq(AnySignal)]  BY DEF TypeOK
    <2> QED BY <2>1, OtherPeer DEF Sent, Signal
  <1> HIDE DEF m, S
  <1>6. Posted(p, S)  BY <1>2, <1>3, <1>4, <1>5 DEF Posted
  <1> QED BY <1>6 DEF S

LEMMA GotWhen ==
    ASSUME TypeOK, NEW p \in Peers, wire[p] # <<>>, wire' = [wire EXCEPT ![p] = Tail(wire[p])]
    PROVE  Got(p)
  <1>1. wire \in [Peers -> Seq(AnySignal)] /\ wire[p] \in Seq(AnySignal)  BY DEF TypeOK
  <1>2. WirePop(wire[p], Tail(wire[p]))  BY <1>1, WirePopped
  <1> QED BY <1>1, <1>2, OtherPeer DEF Got

LEMMA QueueWhen ==
    ASSUME TypeOK, NEW p \in Peers, NEW o \in AnyOperation,
           chain' = [chain EXCEPT ![p] = Append(chain[p], o)]
    PROVE  Queue(p, o)
  <1>1. chain \in [Peers -> Seq(AnyOperation)] /\ chain[p] \in Seq(AnyOperation)  BY DEF TypeOK
  <1>2. ChainPush(chain[p], Append(chain[p], o), o)  BY <1>1, ChainPushed
  <1> QED BY <1>1, <1>2, OtherPeer DEF Queue

LEMMA DoneWhen ==
    ASSUME TypeOK, NEW p \in Peers, chain[p] # <<>>, chain' = [chain EXCEPT ![p] = Tail(chain[p])]
    PROVE  Done(p)
  <1>1. chain \in [Peers -> Seq(AnyOperation)] /\ chain[p] \in Seq(AnyOperation)  BY DEF TypeOK
  <1>2. ChainPop(chain[p], Tail(chain[p]))  BY <1>1, ChainPopped
  <1> QED BY <1>1, <1>2, OtherPeer DEF Done

LEMMA DoneThenWhen ==
    ASSUME TypeOK, NEW p \in Peers, NEW o \in AnyOperation, chain[p] # <<>>,
           chain' = [chain EXCEPT ![p] = Append(Tail(chain[p]), o)]
    PROVE  DoneThen(p, o)
  <1>1. chain \in [Peers -> Seq(AnyOperation)] /\ chain[p] \in Seq(AnyOperation)  BY DEF TypeOK
  <1>2. Tail(chain[p]) \in Seq(AnyOperation)  BY <1>1, Tails
  <1>3. /\ ChainPop(chain[p], Tail(chain[p])) /\ ChainFacts(Tail(chain[p]))
        /\ ChainPush(Tail(chain[p]), Append(Tail(chain[p]), o), o)
    BY <1>1, <1>2, ChainPopped, ChainPushed, ChainIs
  <1> QED BY <1>1, <1>3, OtherPeer DEF DoneThen

LEMMA MakesWhenMade ==
    ASSUME TypeOK, NEW p \in Peers, MakeOffer(p),
           UNCHANGED <<page, state, offerer, gathered, known, remote, history>>
    PROVE  Makes(p)
  <1>1. Op("local", "makeOffer") \in AnyOperation /\ Op("local", "makeOffer") \in Made
    BY Elements, OperationMembers
  <1>2. Queue(p, Op("local", "makeOffer"))  BY <1>1, QueueWhen DEF MakeOffer, Op
  <1>3. At(makingOffer, makingOffer', p, TRUE)  BY OtherPeer DEF TypeOK, MakeOffer, At
  <1> QED BY <1>1, <1>2, <1>3 DEF MakeOffer, Makes, candidates

LEMMA JoinWritten == ASSUME TypeOK, NEW p \in Peers, Join(p) PROVE Arrives(p)
  BY OtherPeer DEF TypeOK, Join, Arrives, At, flagVars, pcVars, flags, session, candidates

LEMMA SubscribeWritten == ASSUME TypeOK, NEW p \in Peers, Subscribe(p) PROVE Listening(p)
  <1>1. Polite[p] <=> p = Second  BY TwoPeers
  <1>2. At(page, page', p, "listens")  BY OtherPeer DEF TypeOK, Subscribe, At
  <1>3. CASE Polite[p]
    <2>1. Posted(p, Joined)  BY <1>3, PostedWhenSent DEF Subscribe
    <2> QED BY <1>1, <1>2, <1>3, <2>1
            DEF Subscribe, Listening, flagVars, pcVars, flags, session, candidates
  <1>4. CASE ~Polite[p]
    BY <1>1, <1>2, <1>4 DEF Subscribe, Listening, flagVars, pcVars, flags, session, candidates
  <1> QED BY <1>3, <1>4

LEMMA CreateWritten == ASSUME TypeOK, NEW p \in Peers, CreateCall(p) PROVE Calls(p)
  BY OtherPeer DEF TypeOK, CreateCall, Calls, At, flagVars, flags, candidates

LEMMA NeededWritten == ASSUME TypeOK, NEW p \in Peers, OnNegotiationNeeded(p) PROVE Needs(p)
  <1>1. Makes(p)  BY MakesWhenMade DEF OnNegotiationNeeded
  <1> QED BY <1>1, OtherPeer DEF TypeOK, OnNegotiationNeeded, Needs, At

LEMMA RestartWritten == ASSUME TypeOK, NEW p \in Peers, OnIceDisconnected(p) PROVE Restarts(p)
  <1>1. Makes(p)  BY MakesWhenMade DEF OnIceDisconnected, pcVars
  <1> QED BY <1>1 DEF OnIceDisconnected, Restarts, pcVars

LEMMA GatherWritten == ASSUME TypeOK, NEW p \in Peers, OnIceCandidate(p) PROVE Gathers(p)
  <1>1. Posted(p, Candidates)  BY PostedWhenSent DEF OnIceCandidate
  <1> QED BY <1>1, OtherPeer DEF TypeOK, OnIceCandidate, Gathers, At, flagVars, flags, session

LEMMA ReceiveWritten ==
    ASSUME TypeOK, NEW p \in Peers, Receive(p)
    PROVE  Greeted(p) \/ Ignores(p) \/ Accepts(p) \/ Answered(p) \/ Trickles(p) \/ Keeps(p)
  <1> DEFINE msg == Head(wire[p])
  <1> USE OtherPeer
  <1>1. /\ wire \in [Peers -> Seq(AnySignal)] /\ chain \in [Peers -> Seq(AnyOperation)]
        /\ makingOffer \in [Peers -> BOOLEAN] /\ isSettingRemoteAnswerPending \in [Peers -> BOOLEAN]
        /\ pendingCandidates \in [Peers -> Nat]
    BY DEF TypeOK
  <1>2. /\ page[p] = "calls" /\ wire[p] # <<>> /\ wire' = [wire EXCEPT ![p] = Tail(wire[p])]
        /\ UNCHANGED <<page, session, gathered, known, remote, restarts, history>>
    BY DEF Receive, pcVars, session
  <1>3. Got(p)  BY <1>2, GotWhen
  <1>4. msg \in AnySignal /\ SignalKinds(msg)
    <2>1. wire[p] \in Seq(AnySignal)  BY <1>1
    <2> QED BY <1>2, <2>1, Tails, SignalFacts
  <1>5. CASE msg.kind = "peer_joined" /\ MakeOffer(p)
    <2>1. Makes(p)  BY <1>2, <1>5, MakesWhenMade DEF session
    <2> QED BY <1>2, <1>3, <1>4, <1>5, <2>1, KindMembers DEF Greeted, session
  <1>6. CASE msg.kind \in {"offer", "answer"} /\ Description(p, msg)
    <2>1. CASE IgnoreOffer(p, msg.kind)
      <3>1. p = First /\ msg \in Offer  BY <1>4, <2>1, TwoPeers, KindMembers DEF IgnoreOffer
      <3>2. makingOffer[p] \/ (state[p] # "stable" /\ ~isSettingRemoteAnswerPending[p])
        BY <2>1 DEF IgnoreOffer, ReadyForOffer
      <3> QED BY <1>2, <1>3, <1>6, <2>1, <3>1, <3>2 DEF Description, Ignores, Handles, flagVars
    <2>2. CASE ~IgnoreOffer(p, msg.kind)
      <3>1. /\ isSettingRemoteAnswerPending' =
                 [isSettingRemoteAnswerPending EXCEPT ![p] = (msg.kind = "answer")]
            /\ chain' = [chain EXCEPT ![p] = Append(chain[p], DescOp(msg.kind, msg.lists))]
            /\ UNCHANGED <<makingOffer, pendingCandidates>>
        BY <1>6, <2>2 DEF Description, DescOp
      <3>2. Queue(p, DescOp(msg.kind, msg.lists))
        <4>1. DescOp(msg.kind, msg.lists) \in AnyOperation  BY <1>4, <1>6, KindMembers, Elements
        <4> QED BY <3>1, <4>1, QueueWhen
      <3>3. CASE msg.kind = "answer"
        <4>0. \E o \in OpAnswer : Queue(p, o) /\ (o \in OpUnlisted => msg \in Unlisted)
          <5>1. msg.lists \in BOOLEAN /\ (msg.lists \/ msg \in Unlisted)
            BY <1>4, <3>3, KindMembers
          <5> QED BY <3>2, <3>3, <5>1, OperationMembers
        <4>1. msg \in Answer  BY <1>4, <3>3, KindMembers
        <4>2. (msg.kind = "answer") = TRUE  BY <3>3
        <4>3. At(isSettingRemoteAnswerPending, isSettingRemoteAnswerPending', p, TRUE)
          BY <1>1, <3>1, <4>2 DEF At
        <4> QED BY <1>2, <1>3, <3>1, <3>2, <4>0, <4>1, <4>3 DEF Answered, Handles
      <3>4. CASE msg.kind = "offer"
        <4>0. \E o \in OpOffer : Queue(p, o) /\ (o \in OpUnlisted => msg \in Unlisted)
          <5>1. msg.lists \in BOOLEAN /\ (msg.lists \/ msg \in Unlisted)
            BY <1>4, <3>4, KindMembers
          <5> QED BY <3>2, <3>4, <5>1, OperationMembers
        <4>1. msg \in Offer  BY <1>4, <3>4, KindMembers
        <4>2. (msg.kind = "answer") = FALSE  BY <3>4
        <4>3. At(isSettingRemoteAnswerPending, isSettingRemoteAnswerPending', p, FALSE)
          BY <1>1, <3>1, <4>2 DEF At
        <4>4. p = First =>
               ~makingOffer[p]
               /\ (state[p] = "stable" \/ isSettingRemoteAnswerPending[p])
          BY <2>2, <3>4, TwoPeers DEF IgnoreOffer, ReadyForOffer
        <4> QED BY <1>2, <1>3, <3>1, <3>2, <4>0, <4>1, <4>3, <4>4 DEF Accepts, Handles
      <3> QED BY <1>6, <3>3, <3>4
    <2> QED BY <2>1, <2>2
  <1>7. CASE msg.kind = "candidate" /\ Candidate(p)
    <2>1. msg \in Candidates  BY <1>4, <1>7, KindMembers
    <2>2. CASE remote[p]
      <3>1. chain' = [chain EXCEPT ![p] = Append(chain[p], Op("add", "handleSignal"))]
            /\ UNCHANGED flagVars
        BY <1>7, <2>2 DEF Candidate, Op
      <3>2. \E o \in Adds : o \notin Flushing /\ Queue(p, o)
        <4>1. Op("add", "handleSignal") \in AnyOperation  BY Elements
        <4> QED BY <3>1, <4>1, QueueWhen, OperationMembers
      <3> QED BY <1>2, <1>3, <2>1, <2>2, <3>1, <3>2 DEF Trickles, Handles, flagVars
    <2>3. CASE ~remote[p]
      <3>1. /\ pendingCandidates' = [pendingCandidates EXCEPT ![p] = pendingCandidates[p] + 1]
            /\ UNCHANGED <<chain, makingOffer, isSettingRemoteAnswerPending>>
        BY <1>7, <2>3 DEF Candidate
      <3>2. At(pendingCandidates, pendingCandidates', p, pendingCandidates[p] + 1)
        BY <1>1, <3>1 DEF At
      <3> QED BY <1>2, <1>3, <2>1, <2>3, <3>1, <3>2 DEF Keeps, Handles
    <2> QED BY <2>2, <2>3
  <1> QED BY <1>5, <1>6, <1>7 DEF Receive

LEMMA SetLocalWritten ==
    ASSUME TypeOK, NEW p \in Peers, SetLocal(p)
    PROVE  Replies(p) \/ Proposes(p)
  <1> USE OtherPeer
  <1>1. chain[p] # <<>> /\ Head(chain[p]) \in AnyOperation /\ Head(chain[p]).op = "local"
    BY HeadOfChain DEF SetLocal, Operation
  <1>2. Head(chain[p]) \in Locals /\ (Head(chain[p]).by = "makeOffer" <=> Head(chain[p]) \in Made)
    BY <1>1, OpMembers
  <1>3. Done(p)  BY <1>1, DoneWhen DEF SetLocal
  <1>4. /\ makingOffer'[Other(p)] = makingOffer[Other(p)]
        /\ Head(chain[p]) \in Made => ~makingOffer'[p]
        /\ Head(chain[p]) \notin Made => makingOffer'[p] = makingOffer[p]
    BY <1>2 DEF SetLocal, TypeOK
  <1>5. SetsLocal(p)  BY <1>2, <1>3, <1>4 DEF SetLocal, SetsLocal, candidates
  <1>6. CASE state[p] = "remote"
    <2>1. /\ state' = [state EXCEPT ![p] = "stable"] /\ offerer' = [offerer EXCEPT ![p] = Other(p)]
          /\ needed' = [needed EXCEPT ![p] = FALSE] /\ UNCHANGED history /\ Sent(p, "answer")
      BY <1>6 DEF SetLocal
    <2>2. Posted(p, Answer)  BY <2>1, PostedWhenSent
    <2> QED BY <1>5, <1>6, <2>1, <2>2 DEF Replies, At, TypeOK
  <1>7. CASE state[p] # "remote"
    <2>1. /\ state' = [state EXCEPT ![p] = "local"]
          /\ offered' = [offered EXCEPT ![p] = Listens(Other(p))]
          /\ superseded' = (superseded \/ (state[p] = "local" /\ offered[p]))
          /\ UNCHANGED <<offerer, needed>> /\ Sent(p, "offer")
      BY <1>7 DEF SetLocal
    <2>2. Posted(p, Offer)  BY <2>1, PostedWhenSent
    <2>3. offered'[p] = Listens(Other(p)) /\ offered'[Other(p)] = offered[Other(p)]
      BY <2>1 DEF TypeOK
    <2>4. (offered'[p] <=> Listens(Other(p)))
      <3>1. CASE Listens(Other(p))  BY <2>3, <3>1
      <3>2. CASE ~Listens(Other(p))
        <4>1. Listens(Other(p)) = FALSE  BY <3>2 DEF Listens
        <4> QED BY <2>3, <4>1
      <3> QED BY <3>1, <3>2
    <2>5. superseded' <=> superseded \/ (state[p] = "local" /\ offered[p])  BY <2>1, Zenon
    <2>6. At(state, state', p, "local")  BY <2>1 DEF At, TypeOK
    <2> QED BY <1>5, <1>7, <2>1, <2>2, <2>3, <2>4, <2>5, <2>6 DEF Proposes
  <1> QED BY <1>6, <1>7

LEMMA FlushWritten ==
    ASSUME TypeOK, NEW p \in Peers, NEW k \in {"offer", "answer"}, chain[p] # <<>>,
           Flush(p, k, Tail(chain[p]))
    PROVE  IF k = "offer" THEN FlushesOffer(p) ELSE FlushesAnswer(p)
  <1>1. pendingCandidates \in [Peers -> Nat]  BY DEF TypeOK
  <1>2. CASE pendingCandidates[p] > 0
    <2>1. /\ chain' = [chain EXCEPT ![p] = Append(Tail(chain[p]), Op("add", k))]
          /\ pendingCandidates' = [pendingCandidates EXCEPT ![p] = pendingCandidates[p] - 1]
      BY <1>2 DEF Flush, Op
    <2>2. Flushes(p)  BY <1>1, <1>2, <2>1, OtherPeer DEF Flushes, At
    <2>3. DoneThen(p, Op("add", k))
      <3>1. Op("add", k) \in AnyOperation  BY Elements
      <3> QED BY <2>1, <3>1, DoneThenWhen
    <2> QED BY <2>2, <2>3, OperationMembers DEF FlushesOffer, FlushesAnswer
  <1>3. CASE ~(pendingCandidates[p] > 0)
    <2>1. /\ k = "offer" =>
               chain' = [chain EXCEPT ![p] = Append(Tail(chain[p]), Op("local", "handleSignal"))]
          /\ k # "offer" => chain' = [chain EXCEPT ![p] = Tail(chain[p])]
          /\ pendingCandidates' = pendingCandidates
      BY <1>3 DEF Flush, Op
    <2>2. Flushed(p)  BY <1>3, <2>1 DEF Flushed
    <2>3. k = "offer" => DoneThen(p, Op("local", "handleSignal"))
      <3>1. Op("local", "handleSignal") \in AnyOperation  BY Elements
      <3> QED BY <2>1, <3>1, DoneThenWhen
    <2>4. k # "offer" => Done(p)  BY <2>1, DoneWhen
    <2> QED BY <2>2, <2>3, <2>4, OperationMembers DEF FlushesOffer, FlushesAnswer
  <1> QED BY <1>2, <1>3

LEMMA SetRemoteWritten ==
    ASSUME TypeOK, NEW p \in Peers, SetRemote(p)
    PROVE  TakesOffer(p) \/ TakesAnswer(p)
  <1> DEFINE done == Head(chain[p])
  <1> USE OtherPeer
  <1>1. chain[p] # <<>> /\ done \in AnyOperation /\ done.op \in {"offer", "answer"}
    BY HeadOfChain DEF SetRemote, Operation
  <1>2. SetsRemote(p)
    <2>1. /\ At(remote, remote', p, TRUE)
          /\ At(isSettingRemoteAnswerPending, isSettingRemoteAnswerPending', p, FALSE)
      BY DEF SetRemote, At, TypeOK
    <2>2. known' = [known EXCEPT ![p] = known[p] \/ done.lists]  BY DEF SetRemote
    <2>3. known'[p] = (known[p] \/ done.lists) /\ known'[Other(p)] = known[Other(p)]
      BY <2>2 DEF TypeOK
    <2>4. known'[p] <=> known[p] \/ done.lists  BY <2>3, Zenon
    <2>5. ~done.lists <=> done \in OpUnlisted  BY <1>1, OpMembers
    <2> QED BY <2>1, <2>3, <2>4, <2>5 DEF SetRemote, SetsRemote
  <1>3. Flush(p, done.op, Tail(chain[p]))  BY DEF SetRemote
  <1>4. superseded' <=> superseded \/ (Operation(p, "offer") /\ ~Polite[p]
                                         /\ state[p] = "local" /\ offered[p])
    <2>1. superseded' = (superseded \/ (Operation(p, "offer") /\ ~Polite[p]
                                         /\ state[p] = "local" /\ offered[p]))
      BY DEF SetRemote
    <2> QED BY <2>1, Zenon
  <1>5. CASE done.op = "offer"
    <2>1. done \in OpOffer  BY <1>1, <1>5, OpMembers
    <2>2. state' = [state EXCEPT ![p] = "remote"] /\ UNCHANGED <<offerer, needed>>
      BY <1>5 DEF SetRemote
    <2>3. At(state, state', p, "remote")  BY <2>2 DEF At, TypeOK
    <2>4. FlushesOffer(p)  BY <1>1, <1>3, <1>5, FlushWritten
    <2>5. superseded' <=> superseded \/ (p = First /\ state[p] = "local" /\ offered[p])
      BY <1>1, <1>4, <1>5, TwoPeers DEF Operation
    <2> QED BY <1>1, <1>2, <2>1, <2>2, <2>3, <2>4, <2>5 DEF TakesOffer
  <1>6. CASE done.op = "answer"
    <2>1. done \in OpAnswer /\ state[p] = "local"
      BY <1>1, <1>6, OpMembers DEF SetRemote, Operation
    <2>2. /\ state' = [state EXCEPT ![p] = "stable"] /\ offerer' = [offerer EXCEPT ![p] = p]
          /\ needed' = [needed EXCEPT ![p] = FALSE]
      BY <1>6 DEF SetRemote
    <2>3. /\ At(state, state', p, "stable") /\ At(offerer, offerer', p, p)
          /\ At(needed, needed', p, FALSE)
      BY <2>2 DEF At, TypeOK
    <2>4. FlushesAnswer(p)  BY <1>1, <1>3, <1>6, FlushWritten
    <2>5. superseded' = superseded
      <3>1. ~Operation(p, "offer")  BY <1>6 DEF Operation
      <3>2. superseded' \in BOOLEAN /\ superseded \in BOOLEAN  BY SetRemoteTypes DEF TypeOK
      <3> QED BY <1>4, <3>1, <3>2
    <2> QED BY <1>1, <1>2, <2>1, <2>3, <2>4, <2>5 DEF TakesAnswer
  <1> QED BY <1>1, <1>5, <1>6

LEMMA RefusedWritten == ASSUME TypeOK, NEW p \in Peers, AnswerRefused(p) PROVE Refuses(p)
  <1> USE OtherPeer
  <1>1. chain[p] # <<>> /\ Head(chain[p]) \in OpAnswer
    BY HeadOfChain, OpMembers DEF AnswerRefused, Operation
  <1>2. Done(p)  BY <1>1, DoneWhen DEF AnswerRefused
  <1> QED BY <1>1, <1>2
          DEF AnswerRefused, Refuses, flagVars, pcVars, flags, session, candidates

LEMMA AddedWritten ==
    ASSUME TypeOK, NEW p \in Peers, Added(p)
    PROVE  AddsTrickled(p) \/ AddsAtOffer(p) \/ AddsAtAnswer(p)
  <1> DEFINE done == Head(chain[p])
  <1> USE OtherPeer
  <1>1. chain[p] # <<>> /\ done \in AnyOperation /\ done \in Adds
    BY HeadOfChain, OpMembers DEF Added, Operation
  <1>2. /\ done.by \in {"handleSignal", "offer", "answer"}
        /\ done.by = "handleSignal" <=> done \notin Flushing
        /\ done.by = "offer" <=> done \in Answering
    BY <1>1, OpMembers
  <1>3. Adding(p)
    <2>1. At(known, known', p, TRUE)  BY DEF Added, At, TypeOK
    <2> QED BY <1>1, <2>1 DEF Added, Adding, flags, session
  <1>4. CASE done.by = "handleSignal"
    <2>1. chain' = [chain EXCEPT ![p] = Tail(chain[p])] /\ UNCHANGED pendingCandidates
      BY <1>4 DEF Added
    <2>2. Done(p)  BY <1>1, <2>1, DoneWhen
    <2> QED BY <1>2, <1>3, <1>4, <2>1, <2>2 DEF AddsTrickled
  <1>5. CASE done.by # "handleSignal"
    <2>1. Flush(p, done.by, Tail(chain[p]))  BY <1>5 DEF Added
    <2>2. IF done.by = "offer" THEN FlushesOffer(p) ELSE FlushesAnswer(p)
      BY <1>1, <1>2, <1>5, <2>1, FlushWritten
    <2> QED BY <1>2, <1>3, <1>5, <2>2 DEF AddsAtOffer, AddsAtAnswer
  <1> QED BY <1>4, <1>5

LEMMA StepsWritten ==
    ASSUME TypeOK, NEW p \in Peers, Step(p) \/ OnIceDisconnected(p)
    PROVE  Written(p)
  BY JoinWritten, SubscribeWritten, CreateWritten, NeededWritten, RestartWritten, GatherWritten,
     ReceiveWritten, SetLocalWritten, SetRemoteWritten, RefusedWritten, AddedWritten
     DEF Step, Written
-----------------------------------------------------------------------------
(* What the steps change in the queues                                     *)

\* Steps that matter to the candidates only: nothing the roles depend on has
\* changed in the queues.
SameWire(s, t) ==
    /\ Has(t, Joined) <=> Has(s, Joined)
    /\ Has(t, Offer) <=> Has(s, Offer)
    /\ Has(t, Answer) <=> Has(s, Answer)
    /\ Once(t, Offer) <=> Once(s, Offer)
    /\ Once(t, Answer) <=> Once(s, Answer)
    /\ Twice(s, Offer) => Twice(t, Offer)
    /\ Behind(s, Answer, Offer) => Behind(t, Answer, Offer)
    /\ Apart(s, Answer, Offer) => Apart(t, Answer, Offer)
    /\ Open(t, Answer, Offer) <=> Open(s, Answer, Offer)
    /\ Crossed(t, Answer, Offer) <=> Crossed(s, Answer, Offer)
SameChain(s, t) ==
    /\ Has(t, OpOffer) <=> Has(s, OpOffer)
    /\ Has(t, OpAnswer) <=> Has(s, OpAnswer)
    /\ Has(t, Made) <=> Has(s, Made)
    /\ Has(t, Answering) <=> Has(s, Answering)
    /\ Has(s, Locals) => Has(t, Locals)
    /\ Once(t, OpOffer) <=> Once(s, OpOffer)
    /\ Once(t, OpAnswer) <=> Once(s, OpAnswer)
    /\ Once(t, Made) <=> Once(s, Made)
    /\ Once(t, Answering) <=> Once(s, Answering)
    /\ Twice(s, OpOffer) => Twice(t, OpOffer)
    /\ Twice(s, Made) => Twice(t, Made)
    /\ Twice(s, Answering) => Twice(t, Answering)
    /\ Leads(s, Made) => Leads(t, Made)
    /\ Behind(t, OpAnswer, OpOffer) <=> Behind(s, OpAnswer, OpOffer)
    /\ Crossed(t, OpAnswer, Made) => Crossed(s, OpAnswer, Made)
Aside ==
    /\ \A r \in Peers : SameWire(wire[r], wire'[r]) /\ SameChain(chain[r], chain'[r])
    /\ UNCHANGED <<page, flags, session, remote, restarts, history>>

\* An answer has been taken: it is gone from the chain, and a candidate that was
\* kept may be the only thing new.
TookAnswer(s, t) ==
    /\ Has(s, OpAnswer) /\ Behind(s, OpAnswer, OpOffer)
    /\ Head(s) \in OpUnlisted => Has(s, OpUnlisted)
    /\ Has(t, OpAnswer) => ~Once(s, OpAnswer)
    /\ Once(s, OpAnswer) => Once(t, OpAnswer)
    /\ Has(t, OpOffer) <=> Has(s, OpOffer)
    /\ Has(t, Made) <=> Has(s, Made)
    /\ Has(t, Locals) <=> Has(s, Locals)
    /\ Has(t, Answering) <=> Has(s, Answering)
    /\ Has(s, Adds) => Has(t, Adds)
    /\ Once(t, OpOffer) <=> Once(s, OpOffer)
    /\ Once(t, Made) <=> Once(s, Made)
    /\ Once(t, Answering) <=> Once(s, Answering)
    /\ Twice(s, OpOffer) => Twice(t, OpOffer)
    /\ Twice(s, Made) => Twice(t, Made)
    /\ Twice(s, Answering) => Twice(t, Answering)
    /\ Leads(s, Made) => ~Has(t, Made) /\ Leads(t, Made)
    /\ ~Crossed(s, OpAnswer, Made) => ~Has(t, Made) /\ ~Crossed(t, OpAnswer, Made)

\* An offer has been taken, and is about to be answered.
TookOffer(s, t) ==
    /\ Has(s, OpOffer) /\ ~Behind(s, OpAnswer, OpOffer)
    /\ Head(s) \in OpUnlisted => Has(s, OpUnlisted)
    /\ Once(s, OpOffer) => ~Has(t, OpOffer) /\ Once(t, OpOffer)
    /\ Twice(s, OpOffer) => Once(t, OpOffer) /\ Twice(t, OpOffer)
    /\ Has(t, OpAnswer) <=> Has(s, OpAnswer)
    /\ Has(t, Made) <=> Has(s, Made)
    /\ Has(s, Locals) => Has(t, Locals)
    /\ Has(t, Answering)
    /\ Has(s, Adds) => Has(t, Adds)
    /\ Once(t, OpAnswer) <=> Once(s, OpAnswer)
    /\ Once(t, Made) <=> Once(s, Made)
    /\ Once(t, Answering) <=> ~Has(s, Answering)
    /\ Twice(s, Made) => Twice(t, Made)
    /\ Once(s, Answering) => Twice(t, Answering)
    /\ Leads(s, Made) => ~Has(t, Made) /\ Leads(t, Made)
    /\ ~Crossed(s, OpAnswer, Made) => ~Crossed(t, OpAnswer, Made)

\* The next candidate that was kept is being added, if there is one.
KeptAdded(p) ==
    /\ chain[p] # <<>>
    /\ Head(chain[p]) \in Adds => Has(chain[p], Adds)
    /\ chain'[Other(p)] = chain[Other(p)]
    /\ pendingCandidates[p] > 0 => Has(chain'[p], Flushing) /\ Has(chain'[p], Adds)
    /\ ~(pendingCandidates[p] > 0) => ~(pendingCandidates'[p] > 0)
    /\ pendingCandidates'[Other(p)] = pendingCandidates[Other(p)]

LEMMA MadeIsLocal == ASSUME NEW s, Has(s, Made) PROVE Has(s, Locals)
  BY DEF Has, Made, Locals

LEMMA AnswerFirst ==
    ASSUME NEW s \in Seq(AnyOperation), s # <<>>, Head(s) \in OpAnswer
    PROVE  Behind(s, OpAnswer, OpOffer)
  <1>1. s[1] \in OpAnswer /\ 1 \in DOMAIN s /\ \A j \in DOMAIN s : j = 1 \/ 1 < j  OBVIOUS
  <1>2. s[1] \notin OpOffer  BY <1>1 DEF OpAnswer, OpOffer, Descriptions
  <1> QED BY <1>1, <1>2 DEF Behind

\* The two ways a chain goes on once an answer, or a candidate kept for one, is
\* done: the next candidate kept, or nothing.
LEMMA AnswerFlushed ==
    ASSUME TypeOK, NEW p \in Peers, FlushesAnswer(p)
    PROVE  /\ KeptAdded(p)
           /\ Head(chain[p]) \in OpAnswer => TookAnswer(chain[p], chain'[p])
           /\ Head(chain[p]) \in Flushing /\ Head(chain[p]) \notin Answering
                => SameChain(chain[p], chain'[p])
  <1>1. ChainFacts(chain[p]) /\ pendingCandidates[p] \in Nat  BY AllIs DEF TypeOK
  <1>2. Head(chain[p]) \in OpAnswer => Behind(chain[p], OpAnswer, OpOffer)
    BY AnswerFirst DEF TypeOK, FlushesAnswer, Done, DoneThen, ChainPop
  <1>3. CASE Flushes(p) /\ \E o \in Flushing : o \notin Answering /\ DoneThen(p, o)
    <2>1. PICK o \in Flushing : o \notin Answering /\ DoneThen(p, o)  BY <1>3
    <2> DEFINE m == Tail(chain[p])
    <2>2. /\ ChainPop(chain[p], m) /\ ChainFacts(m) /\ ChainPush(m, chain'[p], o)
          /\ chain'[Other(p)] = chain[Other(p)]
      BY <2>1 DEF DoneThen
    <2> HIDE DEF m
    <2>3. KeptAdded(p)
      BY <1>3, <2>1, <2>2 DEF KeptAdded, Flushes, At, ChainPop, ChainPush, OperationKinds
    <2>4. Head(chain[p]) \in OpAnswer => TookAnswer(chain[p], chain'[p])
      BY <1>1, <1>2, <2>1, <2>2 DEF ChainPop, ChainPush, OperationKinds, TookAnswer, ChainFacts
    <2>5. Head(chain[p]) \in Flushing /\ Head(chain[p]) \notin Answering
            => SameChain(chain[p], chain'[p])
      BY <1>1, <2>1, <2>2 DEF ChainPop, ChainPush, OperationKinds, SameChain, ChainFacts
    <2> QED BY <2>3, <2>4, <2>5
  <1>4. CASE Flushed(p) /\ Done(p)
    <2>1. KeptAdded(p)  BY <1>4 DEF KeptAdded, Flushed, Done, ChainPop
    <2>2. Head(chain[p]) \in OpAnswer => TookAnswer(chain[p], chain'[p])
      BY <1>1, <1>2, <1>4 DEF Done, ChainPop, OperationKinds, TookAnswer, ChainFacts
    <2>3. Head(chain[p]) \in Flushing /\ Head(chain[p]) \notin Answering
            => SameChain(chain[p], chain'[p])
      BY <1>1, <1>4 DEF Done, ChainPop, OperationKinds, SameChain, ChainFacts
    <2> QED BY <2>1, <2>2, <2>3
  <1> QED BY <1>3, <1>4 DEF FlushesAnswer

\* The same for an offer: the next candidate kept, or the answer.
LEMMA OfferFlushed ==
    ASSUME TypeOK, NEW p \in Peers, FlushesOffer(p)
    PROVE  /\ KeptAdded(p)
           /\ Head(chain[p]) \in OpOffer => TookOffer(chain[p], chain'[p])
           /\ Head(chain[p]) \in Flushing \cap Answering => SameChain(chain[p], chain'[p])
  <1>1. ChainFacts(chain[p]) /\ pendingCandidates[p] \in Nat  BY AllIs DEF TypeOK
  <1>2. PICK o \in Answering : /\ DoneThen(p, o)
                               /\ \/ Flushes(p) /\ o \in Flushing
                                  \/ Flushed(p) /\ o \in Locals
    BY DEF FlushesOffer
  <1> DEFINE m == Tail(chain[p])
  <1>3. /\ ChainPop(chain[p], m) /\ ChainFacts(m) /\ ChainPush(m, chain'[p], o)
        /\ chain'[Other(p)] = chain[Other(p)]
    BY <1>2 DEF DoneThen
  <1> HIDE DEF m
  <1>4. KeptAdded(p)
    BY <1>2, <1>3 DEF KeptAdded, Flushes, Flushed, At, ChainPop, ChainPush, OperationKinds
  <1>5. Head(chain[p]) \in OpOffer => TookOffer(chain[p], chain'[p])
    BY <1>1, <1>2, <1>3 DEF ChainPop, ChainPush, OperationKinds, TookOffer, ChainFacts
  <1>6. Head(chain[p]) \in Flushing \cap Answering => SameChain(chain[p], chain'[p])
    BY <1>1, <1>2, <1>3 DEF ChainPop, ChainPush, OperationKinds, SameChain, ChainFacts
  <1> QED BY <1>4, <1>5, <1>6

LEMMA GathersAside == ASSUME TypeOK, NEW p \in Peers, Gathers(p) PROVE Aside
  <1>1. Other(p) \in Peers /\ Other(p) # p /\ Peers = {p, Other(p)}  BY OtherPeer
  <1>2. WireFacts(wire[p]) /\ WireFacts(wire[Other(p)]) /\ ChainFacts(chain[p])
    BY <1>1, AllIs
  <1>3. SameChain(chain[p], chain'[p])
    BY <1>2
       DEF SameChain, Gathers, ChainFacts
  <1>5. SameWire(wire[p], wire'[p]) /\ SameWire(wire[Other(p)], wire'[Other(p)])
    BY <1>2
       DEF SameWire, Gathers, Posted, WirePush, SignalKinds, WireFacts
  <1>6. SameChain(chain[Other(p)], chain'[Other(p)])
    BY DEF SameChain, Gathers
  <1> QED BY <1>1, <1>3, <1>5, <1>6 DEF Aside, Gathers, flags, session

LEMMA TricklesAside == ASSUME TypeOK, NEW p \in Peers, Trickles(p) PROVE Aside
  <1>1. Other(p) \in Peers /\ Other(p) # p /\ Peers = {p, Other(p)}  BY OtherPeer
  <1>2. WireFacts(wire[p]) /\ WireFacts(wire[Other(p)]) /\ ChainFacts(chain[p])
    BY <1>1, AllIs
  <1>3. SameChain(chain[p], chain'[p])
    BY <1>2
       DEF SameChain, Trickles, Handles, Queue, ChainPush, OperationKinds, ChainFacts
  <1>5. SameWire(wire[p], wire'[p]) /\ SameWire(wire[Other(p)], wire'[Other(p)])
    BY <1>2
       DEF SameWire, Trickles, Handles, Got, WirePop, SignalKinds, WireFacts
  <1>6. SameChain(chain[Other(p)], chain'[Other(p)])
    BY DEF SameChain, Trickles, Handles, Queue
  <1> QED BY <1>1, <1>3, <1>5, <1>6 DEF Aside, Trickles, Handles, flags, session

LEMMA KeepsAside == ASSUME TypeOK, NEW p \in Peers, Keeps(p) PROVE Aside
  <1>1. Other(p) \in Peers /\ Other(p) # p /\ Peers = {p, Other(p)}  BY OtherPeer
  <1>2. WireFacts(wire[p]) /\ WireFacts(wire[Other(p)]) /\ ChainFacts(chain[p])
    BY <1>1, AllIs
  <1>3. SameChain(chain[p], chain'[p])
    BY <1>2
       DEF SameChain, Keeps, Handles, ChainFacts
  <1>5. SameWire(wire[p], wire'[p]) /\ SameWire(wire[Other(p)], wire'[Other(p)])
    BY <1>2
       DEF SameWire, Keeps, Handles, Got, WirePop, SignalKinds, WireFacts
  <1>6. SameChain(chain[Other(p)], chain'[Other(p)])
    BY DEF SameChain, Keeps, Handles
  <1> QED BY <1>1, <1>3, <1>5, <1>6 DEF Aside, Keeps, Handles, flags, session

LEMMA AddsTrickledAside == ASSUME TypeOK, NEW p \in Peers, AddsTrickled(p) PROVE Aside
  <1>1. Other(p) \in Peers /\ Other(p) # p /\ Peers = {p, Other(p)}  BY OtherPeer
  <1>2. WireFacts(wire[p]) /\ WireFacts(wire[Other(p)]) /\ ChainFacts(chain[p])
    BY <1>1, AllIs
  <1>3. SameChain(chain[p], chain'[p])
    BY <1>2
       DEF SameChain, AddsTrickled, Adding, Done, ChainPop, OperationKinds, ChainFacts
  <1>5. SameWire(wire[p], wire'[p]) /\ SameWire(wire[Other(p)], wire'[Other(p)])
    BY <1>2
       DEF SameWire, AddsTrickled, Adding, WireFacts
  <1>6. SameChain(chain[Other(p)], chain'[Other(p)])
    BY DEF SameChain, AddsTrickled, Adding, Done
  <1> QED BY <1>1, <1>3, <1>5, <1>6 DEF Aside, AddsTrickled, Adding, flags, session

LEMMA AddsAtOfferAside == ASSUME TypeOK, NEW p \in Peers, AddsAtOffer(p) PROVE Aside
  <1>1. Other(p) \in Peers /\ Other(p) # p /\ Peers = {p, Other(p)}  BY OtherPeer
  <1>2. WireFacts(wire[p]) /\ WireFacts(wire[Other(p)]) /\ ChainFacts(chain[p])
    BY <1>1, AllIs
  <1>3. SameChain(chain[p], chain'[p]) /\ chain'[Other(p)] = chain[Other(p)]
    BY OfferFlushed DEF AddsAtOffer, KeptAdded
  <1>5. SameWire(wire[p], wire'[p]) /\ SameWire(wire[Other(p)], wire'[Other(p)])
    BY DEF AddsAtOffer, Adding, SameWire
  <1>6. SameChain(chain[Other(p)], chain'[Other(p)])  BY <1>3 DEF SameChain
  <1> QED BY <1>1, <1>3, <1>5, <1>6 DEF Aside, AddsAtOffer, Adding, flags, session

LEMMA AddsAtAnswerAside == ASSUME TypeOK, NEW p \in Peers, AddsAtAnswer(p) PROVE Aside
  <1>1. Other(p) \in Peers /\ Other(p) # p /\ Peers = {p, Other(p)}  BY OtherPeer
  <1>2. WireFacts(wire[p]) /\ WireFacts(wire[Other(p)]) /\ ChainFacts(chain[p])
    BY <1>1, AllIs
  <1>3. SameChain(chain[p], chain'[p]) /\ chain'[Other(p)] = chain[Other(p)]
    BY AnswerFlushed DEF AddsAtAnswer, KeptAdded
  <1>5. SameWire(wire[p], wire'[p]) /\ SameWire(wire[Other(p)], wire'[Other(p)])
    BY DEF AddsAtAnswer, Adding, SameWire
  <1>6. SameChain(chain[Other(p)], chain'[Other(p)])  BY <1>3 DEF SameChain
  <1> QED BY <1>1, <1>3, <1>5, <1>6 DEF Aside, AddsAtAnswer, Adding, flags, session

-----------------------------------------------------------------------------
(* The pages, each by itself                                               *)

\* A page that is not in the call has done nothing, and nobody has heard of it.
Arrival(r) ==
    /\ page[r] # "calls" =>
         /\ chain[r] = <<>> /\ state[r] = "stable" /\ ~remote[r] /\ ~needed[r] /\ ~gathered[r]
         /\ pendingCandidates[r] = 0 /\ ~isSettingRemoteAnswerPending[r] /\ ~makingOffer[r]
         /\ offerer[r] = Nobody /\ ~remote[Other(r)]
         /\ ~Has(wire[Other(r)], Offer) /\ ~Has(wire[Other(r)], Answer)
         /\ ~Has(wire[Other(r)], Candidates)
         /\ ~Has(chain[Other(r)], OpOffer) /\ ~Has(chain[Other(r)], OpAnswer)
    /\ ~Listens(r) => wire[r] = <<>> /\ wire[Other(r)] = <<>>

\* The flags and the connection of a page go with the operations under way.
Progress(r) ==
    /\ state[r] = "stable" => (remote[r] <=> offerer[r] # Nobody)
    /\ state[r] = "remote" => remote[r] /\ Has(chain[r], Answering)
    /\ offerer[r] # Nobody => remote[r]
    /\ needed[r] => offerer[r] = Nobody
    /\ Has(chain[r], Adds) \/ Has(chain[r], Answering) => remote[r]
    /\ makingOffer[r] => Has(chain[r], Made)
    /\ pendingCandidates[r] > 0 /\ remote[r] => Has(chain[r], Flushing)
    /\ ~remote[Other(r)] => /\ ~Has(wire[r], Answer) /\ ~Has(chain[r], OpAnswer)
                            /\ ~isSettingRemoteAnswerPending[r]

\* peer_joined is the first thing the first page hears, and the other hears none.
Greeting == ~Has(wire[Second], Joined) /\ Leads(wire[First], Joined)

PageInv == Greeting /\ \A r \in Peers : Arrival(r) /\ Progress(r)

LEMMA ArrivesPage ==
    ASSUME TypeOK, TypeOK', PageInv, NEW p \in Peers, Arrives(p)
    PROVE  PageInv'
  <1>0. /\ Other(p) \in Peers /\ Other(p) # p /\ Other(Other(p)) = p /\ Peers = {p, Other(p)}
        /\ Arrival(p) /\ Progress(p) /\ Arrival(Other(p)) /\ Progress(Other(p)) /\ Greeting
    BY OtherPeer DEF PageInv
  <1>1. /\ WireFacts(wire[p]) /\ WireFacts(wire[Other(p)])
        /\ ChainFacts(chain[p]) /\ ChainFacts(chain[Other(p)])
    BY <1>0, AllIs
  <1>2. Arrival(p)' /\ Arrival(Other(p))'
    BY <1>0, <1>1 DEF Arrival, Arrives, At, Listens, flags, session, candidates
  <1>3. Progress(p)' /\ Progress(Other(p))'
    BY <1>0, <1>1, NobodyAssumption DEF Progress, Arrives, flags, session, candidates
  <1>4. Greeting'
    BY <1>0, <1>1, TwoPeers DEF Greeting, Arrives
  <1> QED BY <1>0, <1>2, <1>3, <1>4 DEF PageInv

LEMMA ListeningPage ==
    ASSUME TypeOK, TypeOK', PageInv, NEW p \in Peers, Listening(p)
    PROVE  PageInv'
  <1>0. /\ Other(p) \in Peers /\ Other(p) # p /\ Other(Other(p)) = p /\ Peers = {p, Other(p)}
        /\ Arrival(p) /\ Progress(p) /\ Arrival(Other(p)) /\ Progress(Other(p)) /\ Greeting
    BY OtherPeer DEF PageInv
  <1>1. /\ WireFacts(wire[p]) /\ WireFacts(wire[Other(p)])
        /\ ChainFacts(chain[p]) /\ ChainFacts(chain[Other(p)])
    BY <1>0, AllIs
  <1>2. Arrival(p)' /\ Arrival(Other(p))'
    BY <1>0, <1>1
       DEF Arrival, Listening, Posted, WirePush, SignalKinds, At, Listens, flags, session,
           candidates
  <1>3. Progress(p)' /\ Progress(Other(p))'
    BY <1>0, <1>1, NobodyAssumption
       DEF Progress, Listening, Posted, WirePush, SignalKinds, flags, session, candidates
  <1>4. Greeting'
    BY <1>0, <1>1, TwoPeers DEF Greeting, Arrival, Listening, Posted, WirePush, Listens
  <1> QED BY <1>0, <1>2, <1>3, <1>4 DEF PageInv

LEMMA CallsPage ==
    ASSUME TypeOK, TypeOK', PageInv, NEW p \in Peers, Calls(p)
    PROVE  PageInv'
  <1>0. /\ Other(p) \in Peers /\ Other(p) # p /\ Other(Other(p)) = p /\ Peers = {p, Other(p)}
        /\ Arrival(p) /\ Progress(p) /\ Arrival(Other(p)) /\ Progress(Other(p)) /\ Greeting
    BY OtherPeer DEF PageInv
  <1>1. /\ WireFacts(wire[p]) /\ WireFacts(wire[Other(p)])
        /\ ChainFacts(chain[p]) /\ ChainFacts(chain[Other(p)])
    BY <1>0, AllIs
  <1>2. Arrival(p)' /\ Arrival(Other(p))'
    BY <1>0, <1>1 DEF Arrival, Calls, At, Listens, flags, candidates
  <1>3. Progress(p)' /\ Progress(Other(p))'
    BY <1>0, <1>1, NobodyAssumption DEF Arrival, Progress, Calls, flags
  <1>4. Greeting'
    BY <1>0, <1>1, TwoPeers DEF Greeting, Calls
  <1> QED BY <1>0, <1>2, <1>3, <1>4 DEF PageInv

LEMMA NeedsPage ==
    ASSUME TypeOK, TypeOK', PageInv, NEW p \in Peers, Needs(p)
    PROVE  PageInv'
  <1>0. /\ Other(p) \in Peers /\ Other(p) # p /\ Other(Other(p)) = p /\ Peers = {p, Other(p)}
        /\ Arrival(p) /\ Progress(p) /\ Arrival(Other(p)) /\ Progress(Other(p)) /\ Greeting
    BY OtherPeer DEF PageInv
  <1>1. /\ WireFacts(wire[p]) /\ WireFacts(wire[Other(p)])
        /\ ChainFacts(chain[p]) /\ ChainFacts(chain[Other(p)])
    BY <1>0, AllIs
  <1>2. Arrival(p)' /\ Arrival(Other(p))'
    BY <1>0, <1>1
       DEF Arrival, Needs, Makes, Queue, ChainPush, OperationKinds, At, Listens, candidates
  <1>3. Progress(p)' /\ Progress(Other(p))'
    BY <1>0, <1>1, NobodyAssumption
       DEF Progress, Needs, Makes, Queue, ChainPush, OperationKinds, At, candidates
  <1>4. Greeting'
    BY <1>0, <1>1, TwoPeers DEF Greeting, Needs
  <1> QED BY <1>0, <1>2, <1>3, <1>4 DEF PageInv

LEMMA RestartsPage ==
    ASSUME TypeOK, TypeOK', PageInv, NEW p \in Peers, Restarts(p)
    PROVE  PageInv'
  <1>0. /\ Other(p) \in Peers /\ Other(p) # p /\ Other(Other(p)) = p /\ Peers = {p, Other(p)}
        /\ Arrival(p) /\ Progress(p) /\ Arrival(Other(p)) /\ Progress(Other(p)) /\ Greeting
    BY OtherPeer DEF PageInv
  <1>1. /\ WireFacts(wire[p]) /\ WireFacts(wire[Other(p)])
        /\ ChainFacts(chain[p]) /\ ChainFacts(chain[Other(p)])
    BY <1>0, AllIs
  <1>2. Arrival(p)' /\ Arrival(Other(p))'
    BY <1>0, <1>1 DEF Arrival, Progress, Restarts, Makes, Listens
  <1>3. Progress(p)' /\ Progress(Other(p))'
    BY <1>0, <1>1, NobodyAssumption
       DEF Progress, Restarts, Makes, Queue, ChainPush, OperationKinds, At, candidates
  <1>4. Greeting'
    BY <1>0, <1>1, TwoPeers DEF Greeting, Restarts
  <1> QED BY <1>0, <1>2, <1>3, <1>4 DEF PageInv

LEMMA GreetedPage ==
    ASSUME TypeOK, TypeOK', PageInv, NEW p \in Peers, Greeted(p)
    PROVE  PageInv'
  <1>0. /\ Other(p) \in Peers /\ Other(p) # p /\ Other(Other(p)) = p /\ Peers = {p, Other(p)}
        /\ Arrival(p) /\ Progress(p) /\ Arrival(Other(p)) /\ Progress(Other(p)) /\ Greeting
    BY OtherPeer DEF PageInv
  <1>1. /\ WireFacts(wire[p]) /\ WireFacts(wire[Other(p)])
        /\ ChainFacts(chain[p]) /\ ChainFacts(chain[Other(p)])
    BY <1>0, AllIs
  <1>2. Arrival(p)' /\ Arrival(Other(p))'
    BY <1>0, <1>1
       DEF Arrival, Greeted, Makes, Queue, Got, ChainPush, OperationKinds, WirePop, At, Listens,
           candidates
  <1>3. Progress(p)' /\ Progress(Other(p))'
    BY <1>0, <1>1, NobodyAssumption
       DEF Progress, Greeted, Makes, Queue, Got, ChainPush, OperationKinds, WirePop, At,
           candidates
  <1>4. Greeting'
    BY <1>0, <1>1, TwoPeers DEF Greeting, Greeted, Got, WirePop
  <1> QED BY <1>0, <1>2, <1>3, <1>4 DEF PageInv

LEMMA GathersPage ==
    ASSUME TypeOK, TypeOK', PageInv, NEW p \in Peers, Gathers(p)
    PROVE  PageInv'
  <1>0. /\ Other(p) \in Peers /\ Other(p) # p /\ Other(Other(p)) = p /\ Peers = {p, Other(p)}
        /\ Arrival(p) /\ Progress(p) /\ Arrival(Other(p)) /\ Progress(Other(p)) /\ Greeting
    BY OtherPeer DEF PageInv
  <1>1. /\ WireFacts(wire[p]) /\ WireFacts(wire[Other(p)])
        /\ ChainFacts(chain[p]) /\ ChainFacts(chain[Other(p)])
    BY <1>0, AllIs
  <1>2. Arrival(p)' /\ Arrival(Other(p))'
    BY <1>0, <1>1 DEF Arrival, Gathers, Posted, At, Listens, flags, session
  <1>3. Progress(p)' /\ Progress(Other(p))'
    BY <1>0, <1>1, NobodyAssumption
       DEF Progress, Gathers, Posted, WirePush, SignalKinds, flags, session
  <1>4. Greeting'
    BY <1>0, <1>1, TwoPeers DEF Greeting, Gathers, Posted, WirePush, SignalKinds
  <1> QED BY <1>0, <1>2, <1>3, <1>4 DEF PageInv

LEMMA IgnoresPage ==
    ASSUME TypeOK, TypeOK', PageInv, NEW p \in Peers, Ignores(p)
    PROVE  PageInv'
  <1>0. /\ Other(p) \in Peers /\ Other(p) # p /\ Other(Other(p)) = p /\ Peers = {p, Other(p)}
        /\ Arrival(p) /\ Progress(p) /\ Arrival(Other(p)) /\ Progress(Other(p)) /\ Greeting
    BY OtherPeer DEF PageInv
  <1>1. /\ WireFacts(wire[p]) /\ WireFacts(wire[Other(p)])
        /\ ChainFacts(chain[p]) /\ ChainFacts(chain[Other(p)])
    BY <1>0, AllIs
  <1>2. Arrival(p)' /\ Arrival(Other(p))'
    BY <1>0, <1>1 DEF Arrival, Ignores, Handles, Got, WirePop, Listens
  <1>3. Progress(p)' /\ Progress(Other(p))'
    BY <1>0, <1>1, NobodyAssumption DEF Progress, Ignores, Handles, Got, WirePop, session
  <1>4. Greeting'
    BY <1>0, <1>1, TwoPeers DEF Greeting, Ignores, Handles, Got, WirePop
  <1> QED BY <1>0, <1>2, <1>3, <1>4 DEF PageInv

LEMMA AcceptsPage ==
    ASSUME TypeOK, TypeOK', PageInv, NEW p \in Peers, Accepts(p)
    PROVE  PageInv'
  <1>0. /\ Other(p) \in Peers /\ Other(p) # p /\ Other(Other(p)) = p /\ Peers = {p, Other(p)}
        /\ Arrival(p) /\ Progress(p) /\ Arrival(Other(p)) /\ Progress(Other(p)) /\ Greeting
    BY OtherPeer DEF PageInv
  <1>1. /\ WireFacts(wire[p]) /\ WireFacts(wire[Other(p)])
        /\ ChainFacts(chain[p]) /\ ChainFacts(chain[Other(p)])
    BY <1>0, AllIs
  <1>2. Arrival(p)' /\ Arrival(Other(p))'
    BY <1>0, <1>1 DEF Arrival, Accepts, Handles, Got, WirePop, Listens
  <1>3. Progress(p)' /\ Progress(Other(p))'
    BY <1>0, <1>1, NobodyAssumption
       DEF Progress, Accepts, Handles, Got, Queue, ChainPush, OperationKinds, WirePop, At, session
  <1>4. Greeting'
    BY <1>0, <1>1, TwoPeers DEF Greeting, Accepts, Handles, Got, WirePop
  <1> QED BY <1>0, <1>2, <1>3, <1>4 DEF PageInv

LEMMA AnsweredPage ==
    ASSUME TypeOK, TypeOK', PageInv, NEW p \in Peers, Answered(p)
    PROVE  PageInv'
  <1>0. /\ Other(p) \in Peers /\ Other(p) # p /\ Other(Other(p)) = p /\ Peers = {p, Other(p)}
        /\ Arrival(p) /\ Progress(p) /\ Arrival(Other(p)) /\ Progress(Other(p)) /\ Greeting
    BY OtherPeer DEF PageInv
  <1>1. /\ WireFacts(wire[p]) /\ WireFacts(wire[Other(p)])
        /\ ChainFacts(chain[p]) /\ ChainFacts(chain[Other(p)])
    BY <1>0, AllIs
  <1>2. Arrival(p)' /\ Arrival(Other(p))'
    BY <1>0, <1>1 DEF Arrival, Answered, Handles, Got, WirePop, Listens
  <1>3. Progress(p)' /\ Progress(Other(p))'
    BY <1>0, <1>1, NobodyAssumption
       DEF Progress, Answered, Handles, Got, Queue, ChainPush, OperationKinds, WirePop, At,
           session
  <1>4. Greeting'
    BY <1>0, <1>1, TwoPeers DEF Greeting, Answered, Handles, Got, WirePop
  <1> QED BY <1>0, <1>2, <1>3, <1>4 DEF PageInv

LEMMA TricklesPage ==
    ASSUME TypeOK, TypeOK', PageInv, NEW p \in Peers, Trickles(p)
    PROVE  PageInv'
  <1>0. /\ Other(p) \in Peers /\ Other(p) # p /\ Other(Other(p)) = p /\ Peers = {p, Other(p)}
        /\ Arrival(p) /\ Progress(p) /\ Arrival(Other(p)) /\ Progress(Other(p)) /\ Greeting
    BY OtherPeer DEF PageInv
  <1>1. /\ WireFacts(wire[p]) /\ WireFacts(wire[Other(p)])
        /\ ChainFacts(chain[p]) /\ ChainFacts(chain[Other(p)])
    BY <1>0, AllIs
  <1>2. Arrival(p)' /\ Arrival(Other(p))'
    BY <1>0, <1>1 DEF Arrival, Trickles, Handles, Listens
  <1>3. Progress(p)' /\ Progress(Other(p))'
    BY <1>0, <1>1, NobodyAssumption
       DEF Progress, Trickles, Handles, Got, Queue, ChainPush, OperationKinds, WirePop, session
  <1>4. Greeting'
    BY <1>0, <1>1, TwoPeers DEF Greeting, Trickles, Handles, Got, WirePop
  <1> QED BY <1>0, <1>2, <1>3, <1>4 DEF PageInv

LEMMA KeepsPage ==
    ASSUME TypeOK, TypeOK', PageInv, NEW p \in Peers, Keeps(p)
    PROVE  PageInv'
  <1>0. /\ Other(p) \in Peers /\ Other(p) # p /\ Other(Other(p)) = p /\ Peers = {p, Other(p)}
        /\ Arrival(p) /\ Progress(p) /\ Arrival(Other(p)) /\ Progress(Other(p)) /\ Greeting
    BY OtherPeer DEF PageInv
  <1>1. /\ WireFacts(wire[p]) /\ WireFacts(wire[Other(p)])
        /\ ChainFacts(chain[p]) /\ ChainFacts(chain[Other(p)])
    BY <1>0, AllIs
  <1>2. Arrival(p)' /\ Arrival(Other(p))'
    BY <1>0, <1>1 DEF Arrival, Keeps, Handles, Got, WirePop, Listens
  <1>3. Progress(p)' /\ Progress(Other(p))'
    BY <1>0, <1>1, NobodyAssumption DEF Progress, Keeps, Handles, Got, WirePop, At, session
  <1>4. Greeting'
    BY <1>0, <1>1, TwoPeers DEF Greeting, Keeps, Handles, Got, WirePop
  <1> QED BY <1>0, <1>2, <1>3, <1>4 DEF PageInv

LEMMA RepliesPage ==
    ASSUME TypeOK, TypeOK', PageInv, NEW p \in Peers, Replies(p)
    PROVE  PageInv'
  <1>0. /\ Other(p) \in Peers /\ Other(p) # p /\ Other(Other(p)) = p /\ Peers = {p, Other(p)}
        /\ Arrival(p) /\ Progress(p) /\ Arrival(Other(p)) /\ Progress(Other(p)) /\ Greeting
    BY OtherPeer DEF PageInv
  <1>1. /\ WireFacts(wire[p]) /\ WireFacts(wire[Other(p)])
        /\ ChainFacts(chain[p]) /\ ChainFacts(chain[Other(p)])
    BY <1>0, AllIs
  <1>2. Arrival(p)' /\ Arrival(Other(p))'
    BY <1>0, <1>1 DEF Arrival, Progress, Replies, SetsLocal, Listens
  <1>3. Progress(p)' /\ Progress(Other(p))'
    BY <1>0, <1>1, NobodyAssumption
       DEF Progress, Replies, SetsLocal, Done, Posted, ChainPop, OperationKinds, At, candidates
  <1>4. Greeting'
    BY <1>0, <1>1, TwoPeers DEF Greeting, Replies, Posted, WirePush, SignalKinds
  <1> QED BY <1>0, <1>2, <1>3, <1>4 DEF PageInv

LEMMA ProposesPage ==
    ASSUME TypeOK, TypeOK', PageInv, NEW p \in Peers, Proposes(p)
    PROVE  PageInv'
  <1>0. /\ Other(p) \in Peers /\ Other(p) # p /\ Other(Other(p)) = p /\ Peers = {p, Other(p)}
        /\ Arrival(p) /\ Progress(p) /\ Arrival(Other(p)) /\ Progress(Other(p)) /\ Greeting
    BY OtherPeer DEF PageInv
  <1>1. /\ WireFacts(wire[p]) /\ WireFacts(wire[Other(p)])
        /\ ChainFacts(chain[p]) /\ ChainFacts(chain[Other(p)])
    BY <1>0, AllIs
  <1>2. Arrival(p)' /\ Arrival(Other(p))'
    BY <1>0, <1>1
       DEF Arrival, Proposes, SetsLocal, Done, Posted, ChainPop, At, Listens, candidates
  <1>3. Progress(p)' /\ Progress(Other(p))'
    BY <1>0, <1>1, NobodyAssumption
       DEF Progress, Proposes, SetsLocal, Done, Posted, ChainPop, OperationKinds, WirePush,
           SignalKinds, At, candidates
  <1>4. Greeting'
    BY <1>0, <1>1, TwoPeers DEF Greeting, Proposes, Posted, WirePush, SignalKinds
  <1> QED BY <1>0, <1>2, <1>3, <1>4 DEF PageInv

LEMMA TakesOfferPage ==
    ASSUME TypeOK, TypeOK', PageInv, NEW p \in Peers, TakesOffer(p)
    PROVE  PageInv'
  <1>0. /\ Other(p) \in Peers /\ Other(p) # p /\ Other(Other(p)) = p /\ Peers = {p, Other(p)}
        /\ Arrival(p) /\ Progress(p) /\ Arrival(Other(p)) /\ Progress(Other(p)) /\ Greeting
    BY OtherPeer DEF PageInv
  <1>1. /\ WireFacts(wire[p]) /\ WireFacts(wire[Other(p)])
        /\ ChainFacts(chain[p]) /\ ChainFacts(chain[Other(p)])
    BY <1>0, AllIs
  <1>5. KeptAdded(p) /\ TookOffer(chain[p], chain'[p])  BY OfferFlushed DEF TakesOffer
  <1>2. Arrival(p)' /\ Arrival(Other(p))'
    BY <1>0, <1>1, <1>5 DEF Arrival, TakesOffer, SetsRemote, TookOffer, KeptAdded, Listens
  <1>3. Progress(p)' /\ Progress(Other(p))'
    BY <1>0, <1>1, NobodyAssumption, <1>5
       DEF Progress, TakesOffer, SetsRemote, TookOffer, KeptAdded, At
  <1>4. Greeting'
    BY <1>0, <1>1, TwoPeers DEF Greeting, TakesOffer, SetsRemote
  <1> QED BY <1>0, <1>2, <1>3, <1>4 DEF PageInv

LEMMA TakesAnswerPage ==
    ASSUME TypeOK, TypeOK', PageInv, NEW p \in Peers, TakesAnswer(p)
    PROVE  PageInv'
  <1>0. /\ Other(p) \in Peers /\ Other(p) # p /\ Other(Other(p)) = p /\ Peers = {p, Other(p)}
        /\ Arrival(p) /\ Progress(p) /\ Arrival(Other(p)) /\ Progress(Other(p)) /\ Greeting
    BY OtherPeer DEF PageInv
  <1>1. /\ WireFacts(wire[p]) /\ WireFacts(wire[Other(p)])
        /\ ChainFacts(chain[p]) /\ ChainFacts(chain[Other(p)])
    BY <1>0, AllIs
  <1>5. KeptAdded(p) /\ TookAnswer(chain[p], chain'[p])  BY AnswerFlushed DEF TakesAnswer
  <1>2. Arrival(p)' /\ Arrival(Other(p))'
    BY <1>0, <1>1, <1>5 DEF Arrival, TakesAnswer, SetsRemote, TookAnswer, Listens
  <1>3. Progress(p)' /\ Progress(Other(p))'
    BY <1>0, <1>1, NobodyAssumption, <1>5
       DEF Progress, TakesAnswer, SetsRemote, TookAnswer, KeptAdded, At
  <1>4. Greeting'
    BY <1>0, <1>1, TwoPeers DEF Greeting, TakesAnswer, SetsRemote
  <1> QED BY <1>0, <1>2, <1>3, <1>4 DEF PageInv

LEMMA RefusesPage ==
    ASSUME TypeOK, TypeOK', PageInv, NEW p \in Peers, Refuses(p)
    PROVE  PageInv'
  <1>0. /\ Other(p) \in Peers /\ Other(p) # p /\ Other(Other(p)) = p /\ Peers = {p, Other(p)}
        /\ Arrival(p) /\ Progress(p) /\ Arrival(Other(p)) /\ Progress(Other(p)) /\ Greeting
    BY OtherPeer DEF PageInv
  <1>1. /\ WireFacts(wire[p]) /\ WireFacts(wire[Other(p)])
        /\ ChainFacts(chain[p]) /\ ChainFacts(chain[Other(p)])
    BY <1>0, AllIs
  <1>2. Arrival(p)' /\ Arrival(Other(p))'
    BY <1>0, <1>1 DEF Arrival, Refuses, Done, ChainPop, Listens
  <1>3. Progress(p)' /\ Progress(Other(p))'
    BY <1>0, <1>1, NobodyAssumption
       DEF Progress, Refuses, Done, ChainPop, OperationKinds, flags, session, candidates
  <1>4. Greeting'
    BY <1>0, <1>1, TwoPeers DEF Greeting, Refuses
  <1> QED BY <1>0, <1>2, <1>3, <1>4 DEF PageInv

LEMMA AddsTrickledPage ==
    ASSUME TypeOK, TypeOK', PageInv, NEW p \in Peers, AddsTrickled(p)
    PROVE  PageInv'
  <1>0. /\ Other(p) \in Peers /\ Other(p) # p /\ Other(Other(p)) = p /\ Peers = {p, Other(p)}
        /\ Arrival(p) /\ Progress(p) /\ Arrival(Other(p)) /\ Progress(Other(p)) /\ Greeting
    BY OtherPeer DEF PageInv
  <1>1. /\ WireFacts(wire[p]) /\ WireFacts(wire[Other(p)])
        /\ ChainFacts(chain[p]) /\ ChainFacts(chain[Other(p)])
    BY <1>0, AllIs
  <1>2. Arrival(p)' /\ Arrival(Other(p))'
    BY <1>0, <1>1 DEF Arrival, AddsTrickled, Adding, Done, ChainPop, Listens, flags, session
  <1>3. Progress(p)' /\ Progress(Other(p))'
    BY <1>0, <1>1, NobodyAssumption
       DEF Progress, AddsTrickled, Adding, Done, ChainPop, OperationKinds, flags, session
  <1>4. Greeting'
    BY <1>0, <1>1, TwoPeers DEF Greeting, AddsTrickled, Adding
  <1> QED BY <1>0, <1>2, <1>3, <1>4 DEF PageInv

LEMMA AddsAtOfferPage ==
    ASSUME TypeOK, TypeOK', PageInv, NEW p \in Peers, AddsAtOffer(p)
    PROVE  PageInv'
  <1>0. /\ Other(p) \in Peers /\ Other(p) # p /\ Other(Other(p)) = p /\ Peers = {p, Other(p)}
        /\ Arrival(p) /\ Progress(p) /\ Arrival(Other(p)) /\ Progress(Other(p)) /\ Greeting
    BY OtherPeer DEF PageInv
  <1>1. /\ WireFacts(wire[p]) /\ WireFacts(wire[Other(p)])
        /\ ChainFacts(chain[p]) /\ ChainFacts(chain[Other(p)])
    BY <1>0, AllIs
  <1>5. KeptAdded(p) /\ SameChain(chain[p], chain'[p])  BY OfferFlushed DEF AddsAtOffer
  <1>2. Arrival(p)' /\ Arrival(Other(p))'
    BY <1>0, <1>1, <1>5 DEF Arrival, Progress, AddsAtOffer, Adding, KeptAdded, Listens
  <1>3. Progress(p)' /\ Progress(Other(p))'
    BY <1>0, <1>1, NobodyAssumption, <1>5
       DEF Progress, AddsAtOffer, Adding, SameChain, KeptAdded, flags, session
  <1>4. Greeting'
    BY <1>0, <1>1, TwoPeers DEF Greeting, AddsAtOffer, Adding
  <1> QED BY <1>0, <1>2, <1>3, <1>4 DEF PageInv

LEMMA AddsAtAnswerPage ==
    ASSUME TypeOK, TypeOK', PageInv, NEW p \in Peers, AddsAtAnswer(p)
    PROVE  PageInv'
  <1>0. /\ Other(p) \in Peers /\ Other(p) # p /\ Other(Other(p)) = p /\ Peers = {p, Other(p)}
        /\ Arrival(p) /\ Progress(p) /\ Arrival(Other(p)) /\ Progress(Other(p)) /\ Greeting
    BY OtherPeer DEF PageInv
  <1>1. /\ WireFacts(wire[p]) /\ WireFacts(wire[Other(p)])
        /\ ChainFacts(chain[p]) /\ ChainFacts(chain[Other(p)])
    BY <1>0, AllIs
  <1>5. KeptAdded(p) /\ SameChain(chain[p], chain'[p])  BY AnswerFlushed DEF AddsAtAnswer
  <1>2. Arrival(p)' /\ Arrival(Other(p))'
    BY <1>0, <1>1, <1>5 DEF Arrival, Progress, AddsAtAnswer, Adding, KeptAdded, Listens
  <1>3. Progress(p)' /\ Progress(Other(p))'
    BY <1>0, <1>1, NobodyAssumption, <1>5
       DEF Progress, AddsAtAnswer, Adding, SameChain, KeptAdded, flags, session
  <1>4. Greeting'
    BY <1>0, <1>1, TwoPeers DEF Greeting, AddsAtAnswer, Adding
  <1> QED BY <1>0, <1>2, <1>3, <1>4 DEF PageInv

-----------------------------------------------------------------------------
(* Candidates                                                              *)

\* The candidate of the other page is on its way to r, or kept, or being added;
\* or it went out when r did not listen, and every description r will ever see
\* lists it.
Known(r) ==
    gathered[Other(r)] /\ ~known[r] =>
        \/ Has(wire[r], Candidates) \/ pendingCandidates[r] > 0 \/ Has(chain[r], Adds)
        \/ ~remote[r] /\ ~Has(wire[r], Unlisted) /\ ~Has(chain[r], OpUnlisted)
KnownInv == \A r \in Peers : Known(r)

\* What the first page has offered before the other listened is offered again.
Unheard ==
    state[First] = "local" /\ ~offered[First] =>
        ~Listens(Second) \/ Has(wire[First], Joined) \/ Has(chain[First], Locals)

\* While the second page has no description, an offer it has sent is open.
Unanswered ==
    (Has(wire[First], Offer) \/ Has(chain[First], OpOffer) \/ state[First] = "remote"
        \/ Has(wire[Second], Answer) \/ Has(chain[Second], OpAnswer)) =>
      remote[Second] \/ state[Second] = "local"

\* A page of a call that has no description is still to get one.
SecondWaits ==
    page[First] = "calls" /\ ~remote[Second] =>
        \/ needed[First] \/ Has(chain[First], Locals) \/ Has(chain[First], OpOffer)
        \/ Has(wire[Second], Offer) \/ Has(wire[Second], Answer)
        \/ Has(chain[Second], OpOffer) \/ Has(chain[Second], OpAnswer)
        \/ state[First] = "remote" \/ (state[First] = "local" /\ ~offered[First])
FirstWaits ==
    page[First] = "calls" /\ ~remote[First] =>
        /\ \/ needed[First] \/ Has(chain[First], Locals) \/ Has(chain[First], OpOffer)
           \/ state[First] = "local"
        /\ state[First] = "local" /\ offered[First] =>
              \/ Has(wire[Second], Offer) \/ Has(chain[Second], OpOffer) \/ state[Second] = "remote"
              \/ Has(wire[First], Answer) \/ Has(chain[First], OpAnswer)

WaitInv == Unheard /\ Unanswered /\ SecondWaits /\ FirstWaits

LEMMA ArrivesKnown ==
    ASSUME TypeOK, PageInv, KnownInv, NEW p \in Peers, Arrives(p)
    PROVE  KnownInv'
  <1>0. /\ Other(p) \in Peers /\ Other(p) # p /\ Other(Other(p)) = p /\ Peers = {p, Other(p)}
        /\ Arrival(p) /\ Progress(p) /\ Arrival(Other(p)) /\ Progress(Other(p))
        /\ Known(p) /\ Known(Other(p))
    BY OtherPeer DEF PageInv, KnownInv
  <1>1. /\ WireFacts(wire[p]) /\ WireFacts(wire[Other(p)])
        /\ ChainFacts(chain[p]) /\ ChainFacts(chain[Other(p)])
        /\ pendingCandidates[p] \in Nat /\ pendingCandidates[Other(p)] \in Nat
    BY <1>0, AllIs DEF TypeOK
  <1>2. Known(p)'
    BY <1>0, <1>1 DEF Known, Arrives, candidates
  <1>3. Known(Other(p))'
    BY <1>0, <1>1 DEF Known, Arrives, candidates
  <1> QED BY <1>0, <1>2, <1>3 DEF KnownInv

LEMMA ListeningKnown ==
    ASSUME TypeOK, PageInv, KnownInv, NEW p \in Peers, Listening(p)
    PROVE  KnownInv'
  <1>0. /\ Other(p) \in Peers /\ Other(p) # p /\ Other(Other(p)) = p /\ Peers = {p, Other(p)}
        /\ Arrival(p) /\ Progress(p) /\ Arrival(Other(p)) /\ Progress(Other(p))
        /\ Known(p) /\ Known(Other(p))
    BY OtherPeer DEF PageInv, KnownInv
  <1>1. /\ WireFacts(wire[p]) /\ WireFacts(wire[Other(p)])
        /\ ChainFacts(chain[p]) /\ ChainFacts(chain[Other(p)])
        /\ pendingCandidates[p] \in Nat /\ pendingCandidates[Other(p)] \in Nat
    BY <1>0, AllIs DEF TypeOK
  <1>2. Known(p)'
    BY <1>0, <1>1 DEF Known, Listening, Posted, candidates
  <1>3. Known(Other(p))'
    BY <1>0, <1>1 DEF Known, Arrival, Listening, candidates
  <1> QED BY <1>0, <1>2, <1>3 DEF KnownInv

LEMMA CallsKnown ==
    ASSUME TypeOK, PageInv, KnownInv, NEW p \in Peers, Calls(p)
    PROVE  KnownInv'
  <1>0. /\ Other(p) \in Peers /\ Other(p) # p /\ Other(Other(p)) = p /\ Peers = {p, Other(p)}
        /\ Arrival(p) /\ Progress(p) /\ Arrival(Other(p)) /\ Progress(Other(p))
        /\ Known(p) /\ Known(Other(p))
    BY OtherPeer DEF PageInv, KnownInv
  <1>1. /\ WireFacts(wire[p]) /\ WireFacts(wire[Other(p)])
        /\ ChainFacts(chain[p]) /\ ChainFacts(chain[Other(p)])
        /\ pendingCandidates[p] \in Nat /\ pendingCandidates[Other(p)] \in Nat
    BY <1>0, AllIs DEF TypeOK
  <1>2. Known(p)'
    BY <1>0, <1>1 DEF Known, Calls, candidates
  <1>3. Known(Other(p))'
    BY <1>0, <1>1 DEF Known, Calls, candidates
  <1> QED BY <1>0, <1>2, <1>3 DEF KnownInv

LEMMA NeedsKnown ==
    ASSUME TypeOK, PageInv, KnownInv, NEW p \in Peers, Needs(p)
    PROVE  KnownInv'
  <1>0. /\ Other(p) \in Peers /\ Other(p) # p /\ Other(Other(p)) = p /\ Peers = {p, Other(p)}
        /\ Arrival(p) /\ Progress(p) /\ Arrival(Other(p)) /\ Progress(Other(p))
        /\ Known(p) /\ Known(Other(p))
    BY OtherPeer DEF PageInv, KnownInv
  <1>1. /\ WireFacts(wire[p]) /\ WireFacts(wire[Other(p)])
        /\ ChainFacts(chain[p]) /\ ChainFacts(chain[Other(p)])
        /\ pendingCandidates[p] \in Nat /\ pendingCandidates[Other(p)] \in Nat
    BY <1>0, AllIs DEF TypeOK
  <1>2. Known(p)'
    BY <1>0, <1>1 DEF Known, Needs, Makes, Queue, ChainPush, OperationKinds, candidates
  <1>3. Known(Other(p))'
    BY <1>0, <1>1 DEF Known, Needs, Makes, Queue, candidates
  <1> QED BY <1>0, <1>2, <1>3 DEF KnownInv

LEMMA RestartsKnown ==
    ASSUME TypeOK, PageInv, KnownInv, NEW p \in Peers, Restarts(p)
    PROVE  KnownInv'
  <1>0. /\ Other(p) \in Peers /\ Other(p) # p /\ Other(Other(p)) = p /\ Peers = {p, Other(p)}
        /\ Arrival(p) /\ Progress(p) /\ Arrival(Other(p)) /\ Progress(Other(p))
        /\ Known(p) /\ Known(Other(p))
    BY OtherPeer DEF PageInv, KnownInv
  <1>1. /\ WireFacts(wire[p]) /\ WireFacts(wire[Other(p)])
        /\ ChainFacts(chain[p]) /\ ChainFacts(chain[Other(p)])
        /\ pendingCandidates[p] \in Nat /\ pendingCandidates[Other(p)] \in Nat
    BY <1>0, AllIs DEF TypeOK
  <1>2. Known(p)'
    BY <1>0, <1>1 DEF Known, Progress, Restarts, Makes, Queue, ChainPush, candidates
  <1>3. Known(Other(p))'
    BY <1>0, <1>1 DEF Known, Restarts, Makes, Queue, candidates
  <1> QED BY <1>0, <1>2, <1>3 DEF KnownInv

LEMMA GreetedKnown ==
    ASSUME TypeOK, PageInv, KnownInv, NEW p \in Peers, Greeted(p)
    PROVE  KnownInv'
  <1>0. /\ Other(p) \in Peers /\ Other(p) # p /\ Other(Other(p)) = p /\ Peers = {p, Other(p)}
        /\ Arrival(p) /\ Progress(p) /\ Arrival(Other(p)) /\ Progress(Other(p))
        /\ Known(p) /\ Known(Other(p))
    BY OtherPeer DEF PageInv, KnownInv
  <1>1. /\ WireFacts(wire[p]) /\ WireFacts(wire[Other(p)])
        /\ ChainFacts(chain[p]) /\ ChainFacts(chain[Other(p)])
        /\ pendingCandidates[p] \in Nat /\ pendingCandidates[Other(p)] \in Nat
    BY <1>0, AllIs DEF TypeOK
  <1>2. Known(p)'
    BY <1>0, <1>1
       DEF Known, Greeted, Makes, Queue, Got, ChainPush, OperationKinds, WirePop, SignalKinds,
           candidates
  <1>3. Known(Other(p))'
    BY <1>0, <1>1 DEF Known, Greeted, Makes, Queue, Got, candidates
  <1> QED BY <1>0, <1>2, <1>3 DEF KnownInv

LEMMA GathersKnown ==
    ASSUME TypeOK, PageInv, KnownInv, NEW p \in Peers, Gathers(p)
    PROVE  KnownInv'
  <1>0. /\ Other(p) \in Peers /\ Other(p) # p /\ Other(Other(p)) = p /\ Peers = {p, Other(p)}
        /\ Arrival(p) /\ Progress(p) /\ Arrival(Other(p)) /\ Progress(Other(p))
        /\ Known(p) /\ Known(Other(p))
    BY OtherPeer DEF PageInv, KnownInv
  <1>1. /\ WireFacts(wire[p]) /\ WireFacts(wire[Other(p)])
        /\ ChainFacts(chain[p]) /\ ChainFacts(chain[Other(p)])
        /\ pendingCandidates[p] \in Nat /\ pendingCandidates[Other(p)] \in Nat
    BY <1>0, AllIs DEF TypeOK
  <1>2. Known(p)'
    BY <1>0, <1>1 DEF Known, Gathers, Posted, At
  <1>3. Known(Other(p))'
    BY <1>0, <1>1 DEF Known, Arrival, Gathers, Posted, WirePush, Listens, WireFacts, ChainFacts
  <1> QED BY <1>0, <1>2, <1>3 DEF KnownInv

LEMMA IgnoresKnown ==
    ASSUME TypeOK, PageInv, KnownInv, NEW p \in Peers, Ignores(p)
    PROVE  KnownInv'
  <1>0. /\ Other(p) \in Peers /\ Other(p) # p /\ Other(Other(p)) = p /\ Peers = {p, Other(p)}
        /\ Arrival(p) /\ Progress(p) /\ Arrival(Other(p)) /\ Progress(Other(p))
        /\ Known(p) /\ Known(Other(p))
    BY OtherPeer DEF PageInv, KnownInv
  <1>1. /\ WireFacts(wire[p]) /\ WireFacts(wire[Other(p)])
        /\ ChainFacts(chain[p]) /\ ChainFacts(chain[Other(p)])
        /\ pendingCandidates[p] \in Nat /\ pendingCandidates[Other(p)] \in Nat
    BY <1>0, AllIs DEF TypeOK
  <1>2. Known(p)'
    BY <1>0, <1>1 DEF Known, Ignores, Handles, Got, WirePop, SignalKinds
  <1>3. Known(Other(p))'
    BY <1>0, <1>1 DEF Known, Ignores, Handles, Got
  <1> QED BY <1>0, <1>2, <1>3 DEF KnownInv

LEMMA AcceptsKnown ==
    ASSUME TypeOK, PageInv, KnownInv, NEW p \in Peers, Accepts(p)
    PROVE  KnownInv'
  <1>0. /\ Other(p) \in Peers /\ Other(p) # p /\ Other(Other(p)) = p /\ Peers = {p, Other(p)}
        /\ Arrival(p) /\ Progress(p) /\ Arrival(Other(p)) /\ Progress(Other(p))
        /\ Known(p) /\ Known(Other(p))
    BY OtherPeer DEF PageInv, KnownInv
  <1>1. /\ WireFacts(wire[p]) /\ WireFacts(wire[Other(p)])
        /\ ChainFacts(chain[p]) /\ ChainFacts(chain[Other(p)])
        /\ pendingCandidates[p] \in Nat /\ pendingCandidates[Other(p)] \in Nat
    BY <1>0, AllIs DEF TypeOK
  <1>2. Known(p)'
    BY <1>0, <1>1 DEF Known, Accepts, Handles, Got, Queue, ChainPush, WirePop, SignalKinds
  <1>3. Known(Other(p))'
    BY <1>0, <1>1 DEF Known, Accepts, Handles, Got, Queue
  <1> QED BY <1>0, <1>2, <1>3 DEF KnownInv

LEMMA AnsweredKnown ==
    ASSUME TypeOK, PageInv, KnownInv, NEW p \in Peers, Answered(p)
    PROVE  KnownInv'
  <1>0. /\ Other(p) \in Peers /\ Other(p) # p /\ Other(Other(p)) = p /\ Peers = {p, Other(p)}
        /\ Arrival(p) /\ Progress(p) /\ Arrival(Other(p)) /\ Progress(Other(p))
        /\ Known(p) /\ Known(Other(p))
    BY OtherPeer DEF PageInv, KnownInv
  <1>1. /\ WireFacts(wire[p]) /\ WireFacts(wire[Other(p)])
        /\ ChainFacts(chain[p]) /\ ChainFacts(chain[Other(p)])
        /\ pendingCandidates[p] \in Nat /\ pendingCandidates[Other(p)] \in Nat
    BY <1>0, AllIs DEF TypeOK
  <1>2. Known(p)'
    BY <1>0, <1>1 DEF Known, Answered, Handles, Got, Queue, ChainPush, WirePop, SignalKinds
  <1>3. Known(Other(p))'
    BY <1>0, <1>1 DEF Known, Answered, Handles, Got, Queue
  <1> QED BY <1>0, <1>2, <1>3 DEF KnownInv

LEMMA TricklesKnown ==
    ASSUME TypeOK, PageInv, KnownInv, NEW p \in Peers, Trickles(p)
    PROVE  KnownInv'
  <1>0. /\ Other(p) \in Peers /\ Other(p) # p /\ Other(Other(p)) = p /\ Peers = {p, Other(p)}
        /\ Arrival(p) /\ Progress(p) /\ Arrival(Other(p)) /\ Progress(Other(p))
        /\ Known(p) /\ Known(Other(p))
    BY OtherPeer DEF PageInv, KnownInv
  <1>1. /\ WireFacts(wire[p]) /\ WireFacts(wire[Other(p)])
        /\ ChainFacts(chain[p]) /\ ChainFacts(chain[Other(p)])
        /\ pendingCandidates[p] \in Nat /\ pendingCandidates[Other(p)] \in Nat
    BY <1>0, AllIs DEF TypeOK
  <1>2. Known(p)'
    BY <1>0, <1>1 DEF Known, Trickles, Queue, ChainPush
  <1>3. Known(Other(p))'
    BY <1>0, <1>1 DEF Known, Trickles, Handles, Got, Queue
  <1> QED BY <1>0, <1>2, <1>3 DEF KnownInv

LEMMA KeepsKnown ==
    ASSUME TypeOK, PageInv, KnownInv, NEW p \in Peers, Keeps(p)
    PROVE  KnownInv'
  <1>0. /\ Other(p) \in Peers /\ Other(p) # p /\ Other(Other(p)) = p /\ Peers = {p, Other(p)}
        /\ Arrival(p) /\ Progress(p) /\ Arrival(Other(p)) /\ Progress(Other(p))
        /\ Known(p) /\ Known(Other(p))
    BY OtherPeer DEF PageInv, KnownInv
  <1>1. /\ WireFacts(wire[p]) /\ WireFacts(wire[Other(p)])
        /\ ChainFacts(chain[p]) /\ ChainFacts(chain[Other(p)])
        /\ pendingCandidates[p] \in Nat /\ pendingCandidates[Other(p)] \in Nat
    BY <1>0, AllIs DEF TypeOK
  <1>2. Known(p)'
    BY <1>0, <1>1 DEF Known, Keeps, At
  <1>3. Known(Other(p))'
    BY <1>0, <1>1 DEF Known, Keeps, Handles, Got, At
  <1> QED BY <1>0, <1>2, <1>3 DEF KnownInv

LEMMA RepliesKnown ==
    ASSUME TypeOK, PageInv, KnownInv, NEW p \in Peers, Replies(p)
    PROVE  KnownInv'
  <1>0. /\ Other(p) \in Peers /\ Other(p) # p /\ Other(Other(p)) = p /\ Peers = {p, Other(p)}
        /\ Arrival(p) /\ Progress(p) /\ Arrival(Other(p)) /\ Progress(Other(p))
        /\ Known(p) /\ Known(Other(p))
    BY OtherPeer DEF PageInv, KnownInv
  <1>1. /\ WireFacts(wire[p]) /\ WireFacts(wire[Other(p)])
        /\ ChainFacts(chain[p]) /\ ChainFacts(chain[Other(p)])
        /\ pendingCandidates[p] \in Nat /\ pendingCandidates[Other(p)] \in Nat
    BY <1>0, AllIs DEF TypeOK
  <1>2. Known(p)'
    BY <1>0, <1>1
       DEF Known, Replies, SetsLocal, Done, Posted, ChainPop, OperationKinds, candidates
  <1>3. Known(Other(p))'
    BY <1>0, <1>1 DEF Known, Replies, SetsLocal, Done, Posted, WirePush, candidates
  <1> QED BY <1>0, <1>2, <1>3 DEF KnownInv

LEMMA ProposesKnown ==
    ASSUME TypeOK, PageInv, KnownInv, NEW p \in Peers, Proposes(p)
    PROVE  KnownInv'
  <1>0. /\ Other(p) \in Peers /\ Other(p) # p /\ Other(Other(p)) = p /\ Peers = {p, Other(p)}
        /\ Arrival(p) /\ Progress(p) /\ Arrival(Other(p)) /\ Progress(Other(p))
        /\ Known(p) /\ Known(Other(p))
    BY OtherPeer DEF PageInv, KnownInv
  <1>1. /\ WireFacts(wire[p]) /\ WireFacts(wire[Other(p)])
        /\ ChainFacts(chain[p]) /\ ChainFacts(chain[Other(p)])
        /\ pendingCandidates[p] \in Nat /\ pendingCandidates[Other(p)] \in Nat
    BY <1>0, AllIs DEF TypeOK
  <1>2. Known(p)'
    BY <1>0, <1>1
       DEF Known, Proposes, SetsLocal, Done, Posted, ChainPop, OperationKinds, candidates
  <1>3. Known(Other(p))'
    BY <1>0, <1>1 DEF Known, Proposes, SetsLocal, Done, Posted, WirePush, candidates
  <1> QED BY <1>0, <1>2, <1>3 DEF KnownInv

LEMMA TakesOfferKnown ==
    ASSUME TypeOK, PageInv, KnownInv, NEW p \in Peers, TakesOffer(p)
    PROVE  KnownInv'
  <1>0. /\ Other(p) \in Peers /\ Other(p) # p /\ Other(Other(p)) = p /\ Peers = {p, Other(p)}
        /\ Arrival(p) /\ Progress(p) /\ Arrival(Other(p)) /\ Progress(Other(p))
        /\ Known(p) /\ Known(Other(p))
    BY OtherPeer DEF PageInv, KnownInv
  <1>1. /\ WireFacts(wire[p]) /\ WireFacts(wire[Other(p)])
        /\ ChainFacts(chain[p]) /\ ChainFacts(chain[Other(p)])
        /\ pendingCandidates[p] \in Nat /\ pendingCandidates[Other(p)] \in Nat
    BY <1>0, AllIs DEF TypeOK
  <1>4. KeptAdded(p) /\ TookOffer(chain[p], chain'[p])  BY OfferFlushed DEF TakesOffer
  <1>2. Known(p)'
    BY <1>0, <1>1, <1>4 DEF Known, TakesOffer, SetsRemote, TookOffer, KeptAdded
  <1>3. Known(Other(p))'
    BY <1>0, <1>1, <1>4 DEF Known, TakesOffer, SetsRemote, KeptAdded, At
  <1> QED BY <1>0, <1>2, <1>3 DEF KnownInv

LEMMA TakesAnswerKnown ==
    ASSUME TypeOK, PageInv, KnownInv, NEW p \in Peers, TakesAnswer(p)
    PROVE  KnownInv'
  <1>0. /\ Other(p) \in Peers /\ Other(p) # p /\ Other(Other(p)) = p /\ Peers = {p, Other(p)}
        /\ Arrival(p) /\ Progress(p) /\ Arrival(Other(p)) /\ Progress(Other(p))
        /\ Known(p) /\ Known(Other(p))
    BY OtherPeer DEF PageInv, KnownInv
  <1>1. /\ WireFacts(wire[p]) /\ WireFacts(wire[Other(p)])
        /\ ChainFacts(chain[p]) /\ ChainFacts(chain[Other(p)])
        /\ pendingCandidates[p] \in Nat /\ pendingCandidates[Other(p)] \in Nat
    BY <1>0, AllIs DEF TypeOK
  <1>4. KeptAdded(p) /\ TookAnswer(chain[p], chain'[p])  BY AnswerFlushed DEF TakesAnswer
  <1>2. Known(p)'
    BY <1>0, <1>1, <1>4 DEF Known, TakesAnswer, SetsRemote, TookAnswer, KeptAdded
  <1>3. Known(Other(p))'
    BY <1>0, <1>1, <1>4 DEF Known, TakesAnswer, SetsRemote, KeptAdded, At
  <1> QED BY <1>0, <1>2, <1>3 DEF KnownInv

LEMMA RefusesKnown ==
    ASSUME TypeOK, PageInv, KnownInv, NEW p \in Peers, Refuses(p)
    PROVE  KnownInv'
  <1>0. /\ Other(p) \in Peers /\ Other(p) # p /\ Other(Other(p)) = p /\ Peers = {p, Other(p)}
        /\ Arrival(p) /\ Progress(p) /\ Arrival(Other(p)) /\ Progress(Other(p))
        /\ Known(p) /\ Known(Other(p))
    BY OtherPeer DEF PageInv, KnownInv
  <1>1. /\ WireFacts(wire[p]) /\ WireFacts(wire[Other(p)])
        /\ ChainFacts(chain[p]) /\ ChainFacts(chain[Other(p)])
        /\ pendingCandidates[p] \in Nat /\ pendingCandidates[Other(p)] \in Nat
    BY <1>0, AllIs DEF TypeOK
  <1>2. Known(p)'
    BY <1>0, <1>1 DEF Known, Refuses, Done, ChainPop, OperationKinds, candidates
  <1>3. Known(Other(p))'
    BY <1>0, <1>1 DEF Known, Refuses, Done, candidates
  <1> QED BY <1>0, <1>2, <1>3 DEF KnownInv

LEMMA AddsTrickledKnown ==
    ASSUME TypeOK, PageInv, KnownInv, NEW p \in Peers, AddsTrickled(p)
    PROVE  KnownInv'
  <1>0. /\ Other(p) \in Peers /\ Other(p) # p /\ Other(Other(p)) = p /\ Peers = {p, Other(p)}
        /\ Arrival(p) /\ Progress(p) /\ Arrival(Other(p)) /\ Progress(Other(p))
        /\ Known(p) /\ Known(Other(p))
    BY OtherPeer DEF PageInv, KnownInv
  <1>1. /\ WireFacts(wire[p]) /\ WireFacts(wire[Other(p)])
        /\ ChainFacts(chain[p]) /\ ChainFacts(chain[Other(p)])
        /\ pendingCandidates[p] \in Nat /\ pendingCandidates[Other(p)] \in Nat
    BY <1>0, AllIs DEF TypeOK
  <1>2. Known(p)'
    BY <1>0, <1>1 DEF Known, AddsTrickled, Adding, At
  <1>3. Known(Other(p))'
    BY <1>0, <1>1 DEF Known, AddsTrickled, Adding, Done, At
  <1> QED BY <1>0, <1>2, <1>3 DEF KnownInv

LEMMA AddsAtOfferKnown ==
    ASSUME TypeOK, PageInv, KnownInv, NEW p \in Peers, AddsAtOffer(p)
    PROVE  KnownInv'
  <1>0. /\ Other(p) \in Peers /\ Other(p) # p /\ Other(Other(p)) = p /\ Peers = {p, Other(p)}
        /\ Arrival(p) /\ Progress(p) /\ Arrival(Other(p)) /\ Progress(Other(p))
        /\ Known(p) /\ Known(Other(p))
    BY OtherPeer DEF PageInv, KnownInv
  <1>1. /\ WireFacts(wire[p]) /\ WireFacts(wire[Other(p)])
        /\ ChainFacts(chain[p]) /\ ChainFacts(chain[Other(p)])
        /\ pendingCandidates[p] \in Nat /\ pendingCandidates[Other(p)] \in Nat
    BY <1>0, AllIs DEF TypeOK
  <1>4. KeptAdded(p) /\ SameChain(chain[p], chain'[p])  BY OfferFlushed DEF AddsAtOffer
  <1>2. Known(p)'
    BY <1>0, <1>1, <1>4 DEF Known, AddsAtOffer, Adding, At
  <1>3. Known(Other(p))'
    BY <1>0, <1>1, <1>4 DEF Known, AddsAtOffer, Adding, KeptAdded, At
  <1> QED BY <1>0, <1>2, <1>3 DEF KnownInv

LEMMA AddsAtAnswerKnown ==
    ASSUME TypeOK, PageInv, KnownInv, NEW p \in Peers, AddsAtAnswer(p)
    PROVE  KnownInv'
  <1>0. /\ Other(p) \in Peers /\ Other(p) # p /\ Other(Other(p)) = p /\ Peers = {p, Other(p)}
        /\ Arrival(p) /\ Progress(p) /\ Arrival(Other(p)) /\ Progress(Other(p))
        /\ Known(p) /\ Known(Other(p))
    BY OtherPeer DEF PageInv, KnownInv
  <1>1. /\ WireFacts(wire[p]) /\ WireFacts(wire[Other(p)])
        /\ ChainFacts(chain[p]) /\ ChainFacts(chain[Other(p)])
        /\ pendingCandidates[p] \in Nat /\ pendingCandidates[Other(p)] \in Nat
    BY <1>0, AllIs DEF TypeOK
  <1>4. KeptAdded(p) /\ SameChain(chain[p], chain'[p])  BY AnswerFlushed DEF AddsAtAnswer
  <1>2. Known(p)'
    BY <1>0, <1>1, <1>4 DEF Known, AddsAtAnswer, Adding, At
  <1>3. Known(Other(p))'
    BY <1>0, <1>1, <1>4 DEF Known, AddsAtAnswer, Adding, KeptAdded, At
  <1> QED BY <1>0, <1>2, <1>3 DEF KnownInv

LEMMA AsideWaits == ASSUME TypeOK, PageInv, WaitInv, Aside PROVE WaitInv'
  <1> USE TwoPeers
  <1>1. /\ SameWire(wire[First], wire'[First]) /\ SameWire(wire[Second], wire'[Second])
        /\ SameChain(chain[First], chain'[First]) /\ SameChain(chain[Second], chain'[Second])
    BY DEF Aside
  <1>2. Unheard' /\ Unanswered'
    BY <1>1
       DEF WaitInv, Unheard, Unanswered, Aside, SameWire, SameChain, Listens, session, history
  <1>3. SecondWaits' /\ FirstWaits'
    BY <1>1 DEF WaitInv, SecondWaits, FirstWaits, Aside, SameWire, SameChain, session, history
  <1> QED BY <1>2, <1>3 DEF WaitInv

LEMMA ArrivesWaits ==
    ASSUME TypeOK, PageInv, WaitInv, NEW p \in Peers, Arrives(p)
    PROVE  WaitInv'
  <1> USE TwoPeers
  <1>0. /\ Arrival(First) /\ Progress(First) /\ Arrival(Second) /\ Progress(Second) /\ Greeting
        /\ WireFacts(wire[First]) /\ WireFacts(wire[Second])
        /\ ChainFacts(chain[First]) /\ ChainFacts(chain[Second])
    BY AllIs DEF PageInv
  <1>1. CASE p = First
    <2>1. Unheard' /\ Unanswered'
      BY <1>0, <1>1 DEF WaitInv, Unheard, Unanswered, Arrives, At, Listens, session, history
    <2>2. SecondWaits'
      BY <1>0, <1>1 DEF SecondWaits, Arrives, At
    <2>3. FirstWaits'
      BY <1>0, <1>1 DEF FirstWaits, Arrives, At
    <2> QED BY <2>1, <2>2, <2>3 DEF WaitInv
  <1>2. CASE p = Second
    <2>1. Unheard' /\ Unanswered'
      BY <1>0, <1>2 DEF WaitInv, Unheard, Unanswered, Arrives, At, Listens, session
    <2>2. SecondWaits'
      BY <1>0, <1>2 DEF WaitInv, SecondWaits, Arrives, At, session, history
    <2>3. FirstWaits'
      BY <1>0, <1>2 DEF WaitInv, FirstWaits, Arrives, At, session, history
    <2> QED BY <2>1, <2>2, <2>3 DEF WaitInv
  <1> QED BY <1>1, <1>2

LEMMA ListeningWaits ==
    ASSUME TypeOK, PageInv, WaitInv, NEW p \in Peers, Listening(p)
    PROVE  WaitInv'
  <1> USE TwoPeers
  <1>0. /\ Arrival(First) /\ Progress(First) /\ Arrival(Second) /\ Progress(Second) /\ Greeting
        /\ WireFacts(wire[First]) /\ WireFacts(wire[Second])
        /\ ChainFacts(chain[First]) /\ ChainFacts(chain[Second])
    BY AllIs DEF PageInv
  <1>1. CASE p = First
    <2>1. Unheard' /\ Unanswered'
      BY <1>0, <1>1 DEF WaitInv, Unheard, Unanswered, Listening, At, Listens, session, history
    <2>2. SecondWaits'
      BY <1>0, <1>1 DEF SecondWaits, Listening, At
    <2>3. FirstWaits'
      BY <1>0, <1>1 DEF FirstWaits, Listening, At
    <2> QED BY <2>1, <2>2, <2>3 DEF WaitInv
  <1>2. CASE p = Second
    <2>1. Unheard' /\ Unanswered'
      BY <1>0, <1>2
         DEF WaitInv, Unheard, Unanswered, Arrival, Listening, Posted, WirePush, SignalKinds,
             Listens, session
    <2>2. SecondWaits'
      BY <1>0, <1>2 DEF WaitInv, SecondWaits, Arrival, Listening, At, Listens, session, history
    <2>3. FirstWaits'
      BY <1>0, <1>2 DEF WaitInv, FirstWaits, Arrival, Listening, At, Listens, session, history
    <2> QED BY <2>1, <2>2, <2>3 DEF WaitInv
  <1> QED BY <1>1, <1>2

LEMMA CallsWaits ==
    ASSUME TypeOK, PageInv, WaitInv, NEW p \in Peers, Calls(p)
    PROVE  WaitInv'
  <1> USE TwoPeers
  <1>0. /\ Arrival(First) /\ Progress(First) /\ Arrival(Second) /\ Progress(Second) /\ Greeting
        /\ WireFacts(wire[First]) /\ WireFacts(wire[Second])
        /\ ChainFacts(chain[First]) /\ ChainFacts(chain[Second])
    BY AllIs DEF PageInv
  <1>1. CASE p = First
    <2>1. Unheard' /\ Unanswered'
      BY <1>0, <1>1 DEF WaitInv, Unheard, Unanswered, Calls, At, Listens, history
    <2>2. SecondWaits'
      BY <1>0, <1>1 DEF SecondWaits, Calls, At
    <2>3. FirstWaits'
      BY <1>0, <1>1 DEF FirstWaits, Arrival, Calls, At
    <2> QED BY <2>1, <2>2, <2>3 DEF WaitInv
  <1>2. CASE p = Second
    <2>1. Unheard' /\ Unanswered'
      BY <1>0, <1>2 DEF WaitInv, Unheard, Unanswered, Calls, Listens, history
    <2>2. SecondWaits'
      BY <1>0, <1>2 DEF WaitInv, SecondWaits, Calls, At, history
    <2>3. FirstWaits'
      BY <1>0, <1>2 DEF WaitInv, FirstWaits, Calls, At, history
    <2> QED BY <2>1, <2>2, <2>3 DEF WaitInv
  <1> QED BY <1>1, <1>2

LEMMA NeedsWaits ==
    ASSUME TypeOK, PageInv, WaitInv, NEW p \in Peers, Needs(p)
    PROVE  WaitInv'
  <1> USE TwoPeers
  <1>0. /\ Arrival(First) /\ Progress(First) /\ Arrival(Second) /\ Progress(Second) /\ Greeting
        /\ WireFacts(wire[First]) /\ WireFacts(wire[Second])
        /\ ChainFacts(chain[First]) /\ ChainFacts(chain[Second])
    BY AllIs DEF PageInv
  <1>1. CASE p = First
    <2>1. Unheard' /\ Unanswered'
      BY <1>0, <1>1
         DEF WaitInv, Unheard, Unanswered, Needs, Makes, Queue, ChainPush, OperationKinds
    <2>2. SecondWaits'
      BY <1>0, <1>1 DEF SecondWaits, Needs, Makes, Queue, ChainPush, OperationKinds
    <2>3. FirstWaits'
      BY <1>0, <1>1 DEF FirstWaits, Needs, Makes, Queue, ChainPush, OperationKinds
    <2> QED BY <2>1, <2>2, <2>3 DEF WaitInv
  <1>2. CASE p = Second
    <2>1. Unheard' /\ Unanswered'
      BY <1>0, <1>2
         DEF WaitInv, Unheard, Unanswered, Needs, Makes, Queue, ChainPush, OperationKinds,
             Listens, history
    <2>2. SecondWaits'
      BY <1>0, <1>2 DEF WaitInv, SecondWaits, Needs, Makes, Queue, ChainPush, At, history
    <2>3. FirstWaits'
      BY <1>0, <1>2 DEF WaitInv, FirstWaits, Needs, Makes, Queue, ChainPush, At, history
    <2> QED BY <2>1, <2>2, <2>3 DEF WaitInv
  <1> QED BY <1>1, <1>2

LEMMA RestartsWaits ==
    ASSUME TypeOK, PageInv, WaitInv, NEW p \in Peers, Restarts(p)
    PROVE  WaitInv'
  <1> USE TwoPeers
  <1>0. /\ Arrival(First) /\ Progress(First) /\ Arrival(Second) /\ Progress(Second) /\ Greeting
        /\ WireFacts(wire[First]) /\ WireFacts(wire[Second])
        /\ ChainFacts(chain[First]) /\ ChainFacts(chain[Second])
    BY AllIs DEF PageInv
  <1>1. CASE p = First
    <2>1. Unheard' /\ Unanswered'
      BY <1>0, <1>1
         DEF WaitInv, Unheard, Unanswered, Restarts, Makes, Queue, ChainPush, OperationKinds
    <2>2. SecondWaits'
      BY <1>0, <1>1 DEF WaitInv, SecondWaits, Restarts, Makes, Queue, ChainPush, history
    <2>3. FirstWaits'
      BY <1>0, <1>1 DEF FirstWaits, Progress, Restarts, Makes
    <2> QED BY <2>1, <2>2, <2>3 DEF WaitInv
  <1>2. CASE p = Second
    <2>1. Unheard' /\ Unanswered'
      BY <1>0, <1>2
         DEF WaitInv, Unheard, Unanswered, Progress, Restarts, Makes, Queue, Listens, history
    <2>2. SecondWaits'
      BY <1>0, <1>2 DEF SecondWaits, Progress, Restarts, Makes
    <2>3. FirstWaits'
      BY <1>0, <1>2 DEF WaitInv, FirstWaits, Restarts, Makes, Queue, ChainPush, history
    <2> QED BY <2>1, <2>2, <2>3 DEF WaitInv
  <1> QED BY <1>1, <1>2

LEMMA GreetedWaits ==
    ASSUME TypeOK, PageInv, WaitInv, NEW p \in Peers, Greeted(p)
    PROVE  WaitInv'
  <1> USE TwoPeers
  <1>0. /\ Arrival(First) /\ Progress(First) /\ Arrival(Second) /\ Progress(Second) /\ Greeting
        /\ WireFacts(wire[First]) /\ WireFacts(wire[Second])
        /\ ChainFacts(chain[First]) /\ ChainFacts(chain[Second])
    BY AllIs DEF PageInv
  <1>1. CASE p = First
    <2>1. Unheard' /\ Unanswered'
      BY <1>0, <1>1
         DEF WaitInv, Unheard, Unanswered, Greeted, Makes, Queue, Got, ChainPush, OperationKinds,
             WirePop
    <2>2. SecondWaits'
      BY <1>0, <1>1 DEF SecondWaits, Greeted, Makes, Queue, ChainPush, OperationKinds
    <2>3. FirstWaits'
      BY <1>0, <1>1
         DEF WaitInv, FirstWaits, Greeted, Makes, Queue, Got, ChainPush, WirePop, SignalKinds,
             history
    <2> QED BY <2>1, <2>2, <2>3 DEF WaitInv
  <1>2. CASE p = Second
    <2>1. Unheard' /\ Unanswered'
      BY <1>0, <1>2 DEF Greeting, Greeted, Got, WirePop
    <2>2. SecondWaits'
      BY <1>0, <1>2 DEF Greeting, Greeted, Got, WirePop
    <2>3. FirstWaits'
      BY <1>0, <1>2 DEF Greeting, Greeted, Got, WirePop
    <2> QED BY <2>1, <2>2, <2>3 DEF WaitInv
  <1> QED BY <1>1, <1>2

LEMMA IgnoresWaits ==
    ASSUME TypeOK, PageInv, WaitInv, NEW p \in Peers, Ignores(p)
    PROVE  WaitInv'
  <1> USE TwoPeers
  <1>0. /\ Arrival(First) /\ Progress(First) /\ Arrival(Second) /\ Progress(Second) /\ Greeting
        /\ WireFacts(wire[First]) /\ WireFacts(wire[Second])
        /\ ChainFacts(chain[First]) /\ ChainFacts(chain[Second])
    BY AllIs DEF PageInv
  <1>1. CASE p = First
    <2>1. Unheard' /\ Unanswered'
      BY <1>0, <1>1
         DEF WaitInv, Unheard, Unanswered, Ignores, Handles, Got, WirePop, SignalKinds, Listens,
             session, history
    <2>2. SecondWaits'
      BY <1>0, <1>1 DEF WaitInv, SecondWaits, Ignores, Handles, Got, session, history
    <2>3. FirstWaits'
      BY <1>0, <1>1
         DEF WaitInv, FirstWaits, Ignores, Handles, Got, WirePop, SignalKinds, session, history
    <2> QED BY <2>1, <2>2, <2>3 DEF WaitInv
  <1>2. p # Second  BY DEF Ignores
  <1> QED BY <1>1, <1>2

LEMMA AcceptsWaits ==
    ASSUME TypeOK, PageInv, WaitInv, NEW p \in Peers, Accepts(p)
    PROVE  WaitInv'
  <1> USE TwoPeers
  <1>0. /\ Arrival(First) /\ Progress(First) /\ Arrival(Second) /\ Progress(Second) /\ Greeting
        /\ WireFacts(wire[First]) /\ WireFacts(wire[Second])
        /\ ChainFacts(chain[First]) /\ ChainFacts(chain[Second])
    BY AllIs DEF PageInv
  <1>1. CASE p = First
    <2>1. Unheard' /\ Unanswered'
      BY <1>0, <1>1
         DEF WaitInv, Unheard, Unanswered, Accepts, Handles, Got, Queue, ChainPush, WirePop,
             SignalKinds, Listens, session, history
    <2>2. SecondWaits'
      BY <1>0, <1>1 DEF SecondWaits, Accepts, Queue, ChainPush
    <2>3. FirstWaits'
      BY <1>0, <1>1
         DEF WaitInv, FirstWaits, Accepts, Handles, Got, Queue, ChainPush, WirePop, SignalKinds,
             session, history
    <2> QED BY <2>1, <2>2, <2>3 DEF WaitInv
  <1>2. CASE p = Second
    <2>1. Unheard' /\ Unanswered'
      BY <1>0, <1>2
         DEF WaitInv, Unheard, Unanswered, Accepts, Handles, Got, Queue, ChainPush,
             OperationKinds, WirePop, Listens, session, history
    <2>2. SecondWaits'
      BY <1>0, <1>2 DEF SecondWaits, Accepts, Queue, ChainPush
    <2>3. FirstWaits'
      BY <1>0, <1>2 DEF WaitInv, FirstWaits, Accepts, Handles, Queue, ChainPush, session
    <2> QED BY <2>1, <2>2, <2>3 DEF WaitInv
  <1> QED BY <1>1, <1>2

LEMMA AnsweredWaits ==
    ASSUME TypeOK, PageInv, WaitInv, NEW p \in Peers, Answered(p)
    PROVE  WaitInv'
  <1> USE TwoPeers
  <1>0. /\ Arrival(First) /\ Progress(First) /\ Arrival(Second) /\ Progress(Second) /\ Greeting
        /\ WireFacts(wire[First]) /\ WireFacts(wire[Second])
        /\ ChainFacts(chain[First]) /\ ChainFacts(chain[Second])
    BY AllIs DEF PageInv
  <1>1. CASE p = First
    <2>1. Unheard' /\ Unanswered'
      BY <1>0, <1>1
         DEF WaitInv, Unheard, Unanswered, Progress, Answered, Handles, Got, Queue, ChainPush,
             WirePop, SignalKinds, Listens, session, history
    <2>2. SecondWaits'
      BY <1>0, <1>1
         DEF WaitInv, SecondWaits, Answered, Handles, Got, Queue, ChainPush, session, history
    <2>3. FirstWaits'
      BY <1>0, <1>1 DEF WaitInv, FirstWaits, Answered, Handles, Queue, ChainPush, session
    <2> QED BY <2>1, <2>2, <2>3 DEF WaitInv
  <1>2. CASE p = Second
    <2>1. Unheard' /\ Unanswered'
      BY <1>0, <1>2
         DEF WaitInv, Unheard, Unanswered, Answered, Handles, Got, Queue, WirePop, Listens,
             session, history
    <2>2. SecondWaits'
      BY <1>0, <1>2 DEF SecondWaits, Answered, Queue, ChainPush
    <2>3. FirstWaits'
      BY <1>0, <1>2 DEF FirstWaits, Progress, Answered, Handles, Got, WirePop
    <2> QED BY <2>1, <2>2, <2>3 DEF WaitInv
  <1> QED BY <1>1, <1>2

LEMMA RepliesWaits ==
    ASSUME TypeOK, PageInv, WaitInv, NEW p \in Peers, Replies(p)
    PROVE  WaitInv'
  <1> USE TwoPeers
  <1>0. /\ Arrival(First) /\ Progress(First) /\ Arrival(Second) /\ Progress(Second) /\ Greeting
        /\ WireFacts(wire[First]) /\ WireFacts(wire[Second])
        /\ ChainFacts(chain[First]) /\ ChainFacts(chain[Second])
    BY AllIs DEF PageInv
  <1>1. CASE p = First
    <2>1. Unheard' /\ Unanswered'
      BY <1>0, <1>1 DEF WaitInv, Unheard, Unanswered, Replies, SetsLocal, At
    <2>2. SecondWaits'
      BY <1>0, <1>1
         DEF WaitInv, Unanswered, SecondWaits, Arrival, Replies, Posted, WirePush, Listens
    <2>3. FirstWaits'
      BY <1>0, <1>1 DEF FirstWaits, Progress, Replies, SetsLocal
    <2> QED BY <2>1, <2>2, <2>3 DEF WaitInv
  <1>2. CASE p = Second
    <2>1. Unheard' /\ Unanswered'
      BY <1>0, <1>2
         DEF WaitInv, Unheard, Unanswered, Progress, Replies, SetsLocal, Done, Posted, WirePush,
             At, Listens, history
    <2>2. SecondWaits'
      BY <1>0, <1>2 DEF SecondWaits, Progress, Replies, SetsLocal
    <2>3. FirstWaits'
      BY <1>0, <1>2
         DEF WaitInv, FirstWaits, Replies, SetsLocal, Done, Posted, WirePush, At, Listens
    <2> QED BY <2>1, <2>2, <2>3 DEF WaitInv
  <1> QED BY <1>1, <1>2

LEMMA ProposesWaits ==
    ASSUME TypeOK, PageInv, WaitInv, NEW p \in Peers, Proposes(p)
    PROVE  WaitInv'
  <1> USE TwoPeers
  <1>0. /\ Arrival(First) /\ Progress(First) /\ Arrival(Second) /\ Progress(Second) /\ Greeting
        /\ WireFacts(wire[First]) /\ WireFacts(wire[Second])
        /\ ChainFacts(chain[First]) /\ ChainFacts(chain[Second])
    BY AllIs DEF PageInv
  <1>1. CASE p = First
    <2>1. Unheard' /\ Unanswered'
      BY <1>0, <1>1
         DEF WaitInv, Unheard, Unanswered, Proposes, SetsLocal, Done, Posted, ChainPop, WirePush,
             SignalKinds, At, Listens
    <2>2. SecondWaits'
      BY <1>0, <1>1 DEF SecondWaits, Proposes, Posted, WirePush, At
    <2>3. FirstWaits'
      BY <1>0, <1>1 DEF FirstWaits, Proposes, Posted, WirePush, At
    <2> QED BY <2>1, <2>2, <2>3 DEF WaitInv
  <1>2. CASE p = Second
    <2>1. Unheard' /\ Unanswered'
      BY <1>0, <1>2
         DEF WaitInv, Unheard, Unanswered, Proposes, SetsLocal, Done, Posted, WirePush, At,
             Listens
    <2>2. SecondWaits'
      BY <1>0, <1>2
         DEF WaitInv, SecondWaits, Proposes, SetsLocal, Done, Posted, ChainPop, OperationKinds, At
    <2>3. FirstWaits'
      BY <1>0, <1>2
         DEF WaitInv, FirstWaits, Proposes, SetsLocal, Done, Posted, ChainPop, OperationKinds,
             WirePush, At
    <2> QED BY <2>1, <2>2, <2>3 DEF WaitInv
  <1> QED BY <1>1, <1>2

LEMMA TakesOfferWaits ==
    ASSUME TypeOK, PageInv, WaitInv, NEW p \in Peers, TakesOffer(p)
    PROVE  WaitInv'
  <1> USE TwoPeers
  <1>0. /\ Arrival(First) /\ Progress(First) /\ Arrival(Second) /\ Progress(Second) /\ Greeting
        /\ WireFacts(wire[First]) /\ WireFacts(wire[Second])
        /\ ChainFacts(chain[First]) /\ ChainFacts(chain[Second])
    BY AllIs DEF PageInv
  <1>3. KeptAdded(p) /\ TookOffer(chain[p], chain'[p])  BY OfferFlushed DEF TakesOffer
  <1>1. CASE p = First
    <2>1. Unheard' /\ Unanswered'
      BY <1>0, <1>1, <1>3 DEF WaitInv, Unheard, Unanswered, TakesOffer, SetsRemote, TookOffer, At
    <2>2. SecondWaits'
      BY <1>0, <1>1, <1>3 DEF SecondWaits, TakesOffer, At
    <2>3. FirstWaits'
      BY <1>0, <1>1, <1>3 DEF FirstWaits, TakesOffer, SetsRemote, At
    <2> QED BY <2>1, <2>2, <2>3 DEF WaitInv
  <1>2. CASE p = Second
    <2>1. Unheard' /\ Unanswered'
      BY <1>0, <1>2, <1>3
         DEF WaitInv, Unheard, Unanswered, TakesOffer, SetsRemote, KeptAdded, At, Listens
    <2>2. SecondWaits'
      BY <1>0, <1>2, <1>3 DEF SecondWaits, TakesOffer, SetsRemote, At
    <2>3. FirstWaits'
      BY <1>0, <1>2, <1>3 DEF WaitInv, FirstWaits, TakesOffer, SetsRemote, KeptAdded, At
    <2> QED BY <2>1, <2>2, <2>3 DEF WaitInv
  <1> QED BY <1>1, <1>2

LEMMA TakesAnswerWaits ==
    ASSUME TypeOK, PageInv, WaitInv, NEW p \in Peers, TakesAnswer(p)
    PROVE  WaitInv'
  <1> USE TwoPeers
  <1>0. /\ Arrival(First) /\ Progress(First) /\ Arrival(Second) /\ Progress(Second) /\ Greeting
        /\ WireFacts(wire[First]) /\ WireFacts(wire[Second])
        /\ ChainFacts(chain[First]) /\ ChainFacts(chain[Second])
    BY AllIs DEF PageInv
  <1>3. KeptAdded(p) /\ TookAnswer(chain[p], chain'[p])  BY AnswerFlushed DEF TakesAnswer
  <1>1. CASE p = First
    <2>1. Unheard' /\ Unanswered'
      BY <1>0, <1>1, <1>3
         DEF Unheard, Unanswered, Progress, TakesAnswer, SetsRemote, TookAnswer, At
    <2>2. SecondWaits'
      BY <1>0, <1>1, <1>3 DEF SecondWaits, Progress, TakesAnswer, SetsRemote, TookAnswer, At
    <2>3. FirstWaits'
      BY <1>0, <1>1, <1>3 DEF FirstWaits, TakesAnswer, SetsRemote, At
    <2> QED BY <2>1, <2>2, <2>3 DEF WaitInv
  <1>2. CASE p = Second
    <2>1. Unheard' /\ Unanswered'
      BY <1>0, <1>2, <1>3
         DEF WaitInv, Unheard, Unanswered, TakesAnswer, SetsRemote, KeptAdded, At, Listens
    <2>2. SecondWaits'
      BY <1>0, <1>2, <1>3 DEF SecondWaits, TakesAnswer, SetsRemote, At
    <2>3. FirstWaits'
      BY <1>0, <1>2, <1>3 DEF FirstWaits, Progress, TakesAnswer, SetsRemote, TookAnswer, At
    <2> QED BY <2>1, <2>2, <2>3 DEF WaitInv
  <1> QED BY <1>1, <1>2

LEMMA RefusesWaits ==
    ASSUME TypeOK, PageInv, WaitInv, NEW p \in Peers, Refuses(p)
    PROVE  WaitInv'
  <1> USE TwoPeers
  <1>0. /\ Arrival(First) /\ Progress(First) /\ Arrival(Second) /\ Progress(Second) /\ Greeting
        /\ WireFacts(wire[First]) /\ WireFacts(wire[Second])
        /\ ChainFacts(chain[First]) /\ ChainFacts(chain[Second])
    BY AllIs DEF PageInv
  <1>1. CASE p = First
    <2>1. Unheard' /\ Unanswered'
      BY <1>0, <1>1 DEF WaitInv, Unheard, Unanswered, Refuses, Done, ChainPop, session
    <2>2. SecondWaits'
      BY <1>0, <1>1 DEF SecondWaits, Progress, Refuses, Done, ChainPop
    <2>3. FirstWaits'
      BY <1>0, <1>1 DEF WaitInv, FirstWaits, Refuses, Done, ChainPop, OperationKinds, session
    <2> QED BY <2>1, <2>2, <2>3 DEF WaitInv
  <1>2. CASE p = Second
    <2>1. Unheard' /\ Unanswered'
      BY <1>0, <1>2
         DEF WaitInv, Unheard, Unanswered, Refuses, Done, ChainPop, Listens, session, history
    <2>2. SecondWaits'
      BY <1>0, <1>2 DEF WaitInv, Unanswered, SecondWaits, Refuses, Done, ChainPop
    <2>3. FirstWaits'
      BY <1>0, <1>2 DEF FirstWaits, Progress, Refuses, Done, ChainPop
    <2> QED BY <2>1, <2>2, <2>3 DEF WaitInv
  <1> QED BY <1>1, <1>2

-----------------------------------------------------------------------------
(* Roles: while no offer that was out has been replaced                    *)

OpenFirst == state[First] = "local" /\ offered[First]
OpenSecond == state[Second] = "local" /\ offered[Second]
\* An offer of the second page that the first has not ignored.
Accepted == \/ Has(chain[First], OpOffer) \/ state[First] = "remote"
            \/ Has(wire[Second], Answer) \/ Has(chain[Second], OpAnswer)

\* An offer of the first page is open as long as it, or the answer to it, is in
\* exactly one place.
FirstOffers ==
    /\ OpenFirst <=> \/ Has(wire[Second], Offer) \/ Has(chain[Second], OpOffer)
                     \/ state[Second] = "remote"
                     \/ Has(wire[First], Answer) \/ Has(chain[First], OpAnswer)
    /\ Once(wire[Second], Offer) /\ Once(chain[Second], OpOffer)
    /\ Once(wire[First], Answer) /\ Once(chain[First], OpAnswer)
    /\ Has(wire[Second], Offer) =>
         /\ ~Has(chain[Second], OpOffer) /\ state[Second] # "remote"
         /\ ~Has(wire[First], Answer) /\ ~Has(chain[First], OpAnswer)
    /\ Has(chain[Second], OpOffer) =>
         /\ state[Second] # "remote"
         /\ ~Has(wire[First], Answer) /\ ~Has(chain[First], OpAnswer)
    /\ state[Second] = "remote" => ~Has(wire[First], Answer) /\ ~Has(chain[First], OpAnswer)
    /\ Has(wire[First], Answer) => ~Has(chain[First], OpAnswer)
    /\ isSettingRemoteAnswerPending[First] => Has(chain[First], OpAnswer)

\* The first page is about to roll back an offer of its own that is out.
Doomed == OpenFirst /\ ~Behind(chain[First], OpAnswer, OpOffer)

\* An offer of the second page that has been accepted is its open one, and is in
\* exactly one place; what the first page offers meanwhile comes behind.
SecondOffers ==
    /\ Accepted => OpenSecond /\ ~Has(wire[First], Offer)
    /\ Once(chain[First], OpOffer) /\ Once(wire[Second], Answer) /\ Once(chain[Second], OpAnswer)
    /\ Has(chain[First], OpOffer) =>
         /\ state[First] # "remote" /\ ~Has(wire[Second], Answer) /\ ~Has(chain[Second], OpAnswer)
         /\ ~Has(wire[Second], Offer) /\ ~Has(chain[Second], OpOffer) /\ ~Has(wire[First], Answer)
    /\ state[First] = "remote" => ~Has(wire[Second], Answer) /\ ~Has(chain[Second], OpAnswer)
    /\ Has(wire[Second], Answer) =>
         /\ ~Has(chain[Second], OpAnswer) /\ ~Has(chain[Second], OpOffer)
         /\ ~Has(wire[First], Answer) /\ ~Has(chain[First], OpAnswer)
         /\ Behind(wire[Second], Answer, Offer)
    /\ Has(chain[Second], OpAnswer) =>
         /\ ~Has(wire[First], Answer) /\ ~Has(chain[First], OpAnswer)
         /\ Behind(chain[Second], OpAnswer, OpOffer)

\* An offer that the second page has rolled back has the answer behind it, and
\* the first page is not ready for it before.
Stale ==
    /\ Apart(wire[First], Answer, Offer)
    /\ Open(wire[First], Answer, Offer) => state[Second] = "remote" \/ OpenSecond
    /\ Has(chain[First], OpAnswer) /\ ~Has(chain[First], OpOffer) =>
         isSettingRemoteAnswerPending[First]

\* The pages agree but for an answer on its way.
Agreement ==
    /\ Has(wire[First], Answer) \/ Has(chain[First], OpAnswer) => offerer[Second] = First
    /\ Has(wire[Second], Answer) \/ Has(chain[Second], OpAnswer) => offerer[First] = Second
    /\ \/ Has(wire[First], Answer) \/ Has(chain[First], OpAnswer)
       \/ Has(wire[Second], Answer) \/ Has(chain[Second], OpAnswer)
       \/ offerer[First] = offerer[Second]

\* What closes an open offer of the second page.
Closing ==
    /\ OpenSecond => \/ Accepted \/ Open(wire[First], Answer, Offer)
                     \/ Has(wire[Second], Offer) \/ Has(chain[Second], OpOffer)
                     \/ Has(chain[First], Locals)
    /\ state[Second] = "local" /\ ~offered[Second] =>
         /\ ~remote[Second]
         /\ \/ page[First] # "calls" \/ needed[First] \/ Has(chain[First], Locals)
            \/ Has(wire[Second], Offer) \/ Has(chain[Second], OpOffer)

RolesInv ==
    ~superseded =>
        FirstOffers /\ (Doomed \/ (SecondOffers /\ Stale /\ Agreement /\ Closing))

LEMMA ArrivesRoles ==
    ASSUME TypeOK, PageInv, WaitInv, RolesInv, NEW p \in Peers, Arrives(p)
    PROVE  RolesInv'
  <1> USE TwoPeers
  <1>0. /\ Arrival(First) /\ Progress(First) /\ Arrival(Second) /\ Progress(Second) /\ Greeting
        /\ WireFacts(wire[First]) /\ WireFacts(wire[Second]) /\ Unheard
        /\ ChainFacts(chain[First]) /\ ChainFacts(chain[Second])
    BY AllIs DEF PageInv, WaitInv
  <1> SUFFICES ASSUME ~superseded'
               PROVE  FirstOffers' /\ (Doomed' \/ (SecondOffers /\ Stale /\ Agreement /\ Closing)')
    BY DEF RolesInv
  <1>1. ~superseded /\ FirstOffers /\ (Doomed \/ (SecondOffers /\ Stale /\ Agreement /\ Closing))
    BY DEF RolesInv, Arrives, history
  <1>2. CASE p = First
    <2>1. FirstOffers'
      BY <1>0, <1>1, <1>2 DEF OpenFirst, FirstOffers, Arrives, flags, session, history
    <2>2. Doomed => Doomed'
      BY <1>0, <1>1, <1>2 DEF OpenFirst, Doomed, Arrives, session, history
    <2>3. ASSUME ~Doomed, ~Doomed', SecondOffers, Stale, Agreement, Closing
          PROVE  (SecondOffers /\ Stale /\ Agreement /\ Closing)'
      <3>1. SecondOffers'
        BY <1>0, <1>1, <1>2, <2>3
           DEF OpenSecond, Accepted, SecondOffers, Arrives, session, history
      <3>2. Stale'
        BY <1>0, <1>1, <1>2, <2>3 DEF OpenSecond, Stale, Arrives, flags, session, history
      <3>3. Agreement'
        BY <1>0, <1>1, <1>2, <2>3 DEF Agreement, Arrives, session
      <3>4. Closing'
        BY <1>0, <1>1, <1>2, <2>3 DEF OpenSecond, Accepted, Closing, Arrives, At, session, history
      <3> QED BY <3>1, <3>2, <3>3, <3>4
    <2> QED BY <1>1, <2>1, <2>2, <2>3
  <1>3. CASE p = Second
    <2>1. FirstOffers'
      BY <1>0, <1>1, <1>3 DEF OpenFirst, FirstOffers, Arrives, flags, session, history
    <2>2. Doomed => Doomed'
      BY <1>0, <1>1, <1>3 DEF OpenFirst, Doomed, Arrives, session, history
    <2>3. ASSUME ~Doomed, ~Doomed', SecondOffers, Stale, Agreement, Closing
          PROVE  (SecondOffers /\ Stale /\ Agreement /\ Closing)'
      <3>1. SecondOffers'
        BY <1>0, <1>1, <1>3, <2>3
           DEF OpenSecond, Accepted, SecondOffers, Arrives, session, history
      <3>2. Stale'
        BY <1>0, <1>1, <1>3, <2>3 DEF OpenSecond, Stale, Arrives, flags, session, history
      <3>3. Agreement'
        BY <1>0, <1>1, <1>3, <2>3 DEF Agreement, Arrives, session
      <3>4. Closing'
        BY <1>0, <1>1, <1>3, <2>3 DEF OpenSecond, Accepted, Closing, Arrives, At, session, history
      <3> QED BY <3>1, <3>2, <3>3, <3>4
    <2> QED BY <1>1, <2>1, <2>2, <2>3
  <1> QED BY <1>2, <1>3

LEMMA ListeningRoles ==
    ASSUME TypeOK, PageInv, WaitInv, RolesInv, NEW p \in Peers, Listening(p)
    PROVE  RolesInv'
  <1> USE TwoPeers
  <1>0. /\ Arrival(First) /\ Progress(First) /\ Arrival(Second) /\ Progress(Second) /\ Greeting
        /\ WireFacts(wire[First]) /\ WireFacts(wire[Second]) /\ Unheard
        /\ ChainFacts(chain[First]) /\ ChainFacts(chain[Second])
    BY AllIs DEF PageInv, WaitInv
  <1> SUFFICES ASSUME ~superseded'
               PROVE  FirstOffers' /\ (Doomed' \/ (SecondOffers /\ Stale /\ Agreement /\ Closing)')
    BY DEF RolesInv
  <1>1. ~superseded /\ FirstOffers /\ (Doomed \/ (SecondOffers /\ Stale /\ Agreement /\ Closing))
    BY DEF RolesInv, Listening, history
  <1>2. CASE p = First
    <2>1. FirstOffers'
      BY <1>0, <1>1, <1>2 DEF OpenFirst, FirstOffers, Listening, flags, session, history
    <2>2. Doomed => Doomed'
      BY <1>0, <1>1, <1>2 DEF OpenFirst, Doomed, Listening, session, history
    <2>3. ASSUME ~Doomed, ~Doomed', SecondOffers, Stale, Agreement, Closing
          PROVE  (SecondOffers /\ Stale /\ Agreement /\ Closing)'
      <3>1. SecondOffers'
        BY <1>0, <1>1, <1>2, <2>3
           DEF OpenSecond, Accepted, SecondOffers, Listening, session, history
      <3>2. Stale'
        BY <1>0, <1>1, <1>2, <2>3 DEF OpenSecond, Stale, Listening, flags, session, history
      <3>3. Agreement'
        BY <1>0, <1>1, <1>2, <2>3 DEF Agreement, Listening, session
      <3>4. Closing'
        BY <1>0, <1>1, <1>2, <2>3
           DEF OpenSecond, Accepted, Closing, Listening, At, session, history
      <3> QED BY <3>1, <3>2, <3>3, <3>4
    <2> QED BY <1>1, <2>1, <2>2, <2>3
  <1>3. CASE p = Second
    <2>1. FirstOffers'
      BY <1>0, <1>1, <1>3
         DEF OpenFirst, FirstOffers, Listening, Posted, WirePush, SignalKinds, flags, session,
             history
    <2>2. Doomed => Doomed'
      BY <1>0, <1>1, <1>3 DEF OpenFirst, Doomed, Listening, session, history
    <2>3. ASSUME ~Doomed, ~Doomed', SecondOffers, Stale, Agreement, Closing
          PROVE  (SecondOffers /\ Stale /\ Agreement /\ Closing)'
      <3>1. SecondOffers'
        BY <1>0, <1>1, <1>3, <2>3
           DEF OpenSecond, Accepted, SecondOffers, Arrival, Listening, Posted, session
      <3>2. Stale'
        BY <1>0, <1>1, <1>3, <2>3
           DEF OpenSecond, Stale, Listening, Posted, WirePush, SignalKinds, flags, session,
               history
      <3>3. Agreement'
        BY <1>0, <1>1, <1>3, <2>3 DEF Agreement, Listening, Posted, WirePush, SignalKinds, session
      <3>4. Closing'
        BY <1>0, <1>1, <1>3, <2>3 DEF OpenSecond, Closing, Arrival, Listening, session
      <3> QED BY <3>1, <3>2, <3>3, <3>4
    <2> QED BY <1>1, <2>1, <2>2, <2>3
  <1> QED BY <1>2, <1>3

LEMMA CallsRoles ==
    ASSUME TypeOK, PageInv, WaitInv, RolesInv, NEW p \in Peers, Calls(p)
    PROVE  RolesInv'
  <1> USE TwoPeers
  <1>0. /\ Arrival(First) /\ Progress(First) /\ Arrival(Second) /\ Progress(Second) /\ Greeting
        /\ WireFacts(wire[First]) /\ WireFacts(wire[Second]) /\ Unheard
        /\ ChainFacts(chain[First]) /\ ChainFacts(chain[Second])
    BY AllIs DEF PageInv, WaitInv
  <1> SUFFICES ASSUME ~superseded'
               PROVE  FirstOffers' /\ (Doomed' \/ (SecondOffers /\ Stale /\ Agreement /\ Closing)')
    BY DEF RolesInv
  <1>1. ~superseded /\ FirstOffers /\ (Doomed \/ (SecondOffers /\ Stale /\ Agreement /\ Closing))
    BY DEF RolesInv, Calls, history
  <1>2. CASE p = First
    <2>1. FirstOffers'
      BY <1>0, <1>1, <1>2 DEF OpenFirst, FirstOffers, Calls, flags, history
    <2>2. Doomed => Doomed'
      BY <1>0, <1>1, <1>2 DEF OpenFirst, Doomed, Calls, history
    <2>3. ASSUME ~Doomed, ~Doomed', SecondOffers, Stale, Agreement, Closing
          PROVE  (SecondOffers /\ Stale /\ Agreement /\ Closing)'
      <3>1. SecondOffers'
        BY <1>0, <1>1, <1>2, <2>3 DEF OpenSecond, Accepted, SecondOffers, Calls, history
      <3>2. Stale'
        BY <1>0, <1>1, <1>2, <2>3 DEF OpenSecond, Stale, Calls, flags, history
      <3>3. Agreement'
        BY <1>0, <1>1, <1>2, <2>3 DEF Agreement, Calls
      <3>4. Closing'
        BY <1>0, <1>1, <1>2, <2>3 DEF OpenSecond, Accepted, Closing, Calls, At, history
      <3> QED BY <3>1, <3>2, <3>3, <3>4
    <2> QED BY <1>1, <2>1, <2>2, <2>3
  <1>3. CASE p = Second
    <2>1. FirstOffers'
      BY <1>0, <1>1, <1>3 DEF OpenFirst, FirstOffers, Calls, flags, history
    <2>2. Doomed => Doomed'
      BY <1>0, <1>1, <1>3 DEF OpenFirst, Doomed, Calls, history
    <2>3. ASSUME ~Doomed, ~Doomed', SecondOffers, Stale, Agreement, Closing
          PROVE  (SecondOffers /\ Stale /\ Agreement /\ Closing)'
      <3>1. SecondOffers'
        BY <1>0, <1>1, <1>3, <2>3 DEF OpenSecond, Accepted, SecondOffers, Calls, history
      <3>2. Stale'
        BY <1>0, <1>1, <1>3, <2>3 DEF OpenSecond, Stale, Calls, flags, history
      <3>3. Agreement'
        BY <1>0, <1>1, <1>3, <2>3 DEF Agreement, Calls
      <3>4. Closing'
        BY <1>0, <1>1, <1>3, <2>3 DEF OpenSecond, Accepted, Closing, Calls, At, history
      <3> QED BY <3>1, <3>2, <3>3, <3>4
    <2> QED BY <1>1, <2>1, <2>2, <2>3
  <1> QED BY <1>2, <1>3

LEMMA NeedsRoles ==
    ASSUME TypeOK, PageInv, WaitInv, RolesInv, NEW p \in Peers, Needs(p)
    PROVE  RolesInv'
  <1> USE TwoPeers
  <1>0. /\ Arrival(First) /\ Progress(First) /\ Arrival(Second) /\ Progress(Second) /\ Greeting
        /\ WireFacts(wire[First]) /\ WireFacts(wire[Second]) /\ Unheard
        /\ ChainFacts(chain[First]) /\ ChainFacts(chain[Second])
    BY AllIs DEF PageInv, WaitInv
  <1> SUFFICES ASSUME ~superseded'
               PROVE  FirstOffers' /\ (Doomed' \/ (SecondOffers /\ Stale /\ Agreement /\ Closing)')
    BY DEF RolesInv
  <1>1. ~superseded /\ FirstOffers /\ (Doomed \/ (SecondOffers /\ Stale /\ Agreement /\ Closing))
    BY DEF RolesInv, Needs, Makes, history
  <1>2. CASE p = First
    <2>1. FirstOffers'
      BY <1>0, <1>1, <1>2
         DEF OpenFirst, FirstOffers, Needs, Makes, Queue, ChainPush, OperationKinds
    <2>2. Doomed => Doomed'
      BY <1>0, <1>1, <1>2 DEF OpenFirst, Doomed, Needs
    <2>3. ASSUME ~Doomed, ~Doomed', SecondOffers, Stale, Agreement, Closing
          PROVE  (SecondOffers /\ Stale /\ Agreement /\ Closing)'
      <3>1. SecondOffers'
        BY <1>0, <1>1, <1>2, <2>3
           DEF OpenSecond, Accepted, SecondOffers, Needs, Makes, Queue, ChainPush, OperationKinds,
               history
      <3>2. Stale'
        BY <1>0, <1>1, <1>2, <2>3
           DEF OpenSecond, Stale, Needs, Makes, Queue, ChainPush, OperationKinds, history
      <3>3. Agreement'
        BY <1>0, <1>1, <1>2, <2>3 DEF Agreement, Needs, Makes, Queue, ChainPush, OperationKinds
      <3>4. Closing'
        BY <1>0, <1>1, <1>2, <2>3
           DEF Closing, Needs, Makes, Queue, ChainPush, OperationKinds, history
      <3> QED BY <3>1, <3>2, <3>3, <3>4
    <2> QED BY <1>1, <2>1, <2>2, <2>3
  <1>3. CASE p = Second
    <2>1. FirstOffers'
      BY <1>0, <1>1, <1>3
         DEF OpenFirst, FirstOffers, Needs, Makes, Queue, ChainPush, OperationKinds, history
    <2>2. Doomed => Doomed'
      BY <1>0, <1>1, <1>3 DEF OpenFirst, Doomed, Needs, Makes, Queue, history
    <2>3. ASSUME ~Doomed, ~Doomed', SecondOffers, Stale, Agreement, Closing
          PROVE  (SecondOffers /\ Stale /\ Agreement /\ Closing)'
      <3>1. SecondOffers'
        BY <1>0, <1>1, <1>3, <2>3
           DEF OpenSecond, Accepted, SecondOffers, Needs, Makes, Queue, ChainPush, OperationKinds
      <3>2. Stale'
        BY <1>0, <1>1, <1>3, <2>3 DEF OpenSecond, Stale, Needs, Makes, Queue
      <3>3. Agreement'
        BY <1>0, <1>1, <1>3, <2>3 DEF Agreement, Needs, Makes, Queue, ChainPush, OperationKinds
      <3>4. Closing'
        BY <1>0, <1>1, <1>3, <2>3 DEF OpenSecond, Closing, Needs, Makes
      <3> QED BY <3>1, <3>2, <3>3, <3>4
    <2> QED BY <1>1, <2>1, <2>2, <2>3
  <1> QED BY <1>2, <1>3

LEMMA RestartsRoles ==
    ASSUME TypeOK, PageInv, WaitInv, RolesInv, NEW p \in Peers, Restarts(p)
    PROVE  RolesInv'
  <1> USE TwoPeers
  <1>0. /\ Arrival(First) /\ Progress(First) /\ Arrival(Second) /\ Progress(Second) /\ Greeting
        /\ WireFacts(wire[First]) /\ WireFacts(wire[Second]) /\ Unheard
        /\ ChainFacts(chain[First]) /\ ChainFacts(chain[Second])
    BY AllIs DEF PageInv, WaitInv
  <1> SUFFICES ASSUME ~superseded'
               PROVE  FirstOffers' /\ (Doomed' \/ (SecondOffers /\ Stale /\ Agreement /\ Closing)')
    BY DEF RolesInv
  <1>1. ~superseded /\ FirstOffers /\ (Doomed \/ (SecondOffers /\ Stale /\ Agreement /\ Closing))
    BY DEF RolesInv, Restarts, Makes, history
  <1>2. CASE p = First
    <2>1. FirstOffers'
      BY <1>0, <1>1, <1>2
         DEF OpenFirst, FirstOffers, Restarts, Makes, Queue, ChainPush, OperationKinds, history
    <2>2. Doomed => Doomed'
      BY <1>0, <1>1, <1>2 DEF OpenFirst, Doomed, Restarts, Makes, Queue, ChainPush, history
    <2>3. ASSUME ~Doomed, ~Doomed', SecondOffers, Stale, Agreement, Closing
          PROVE  (SecondOffers /\ Stale /\ Agreement /\ Closing)'
      <3>1. SecondOffers'
        BY <1>0, <1>1, <1>2, <2>3
           DEF OpenSecond, Accepted, SecondOffers, Restarts, Makes, Queue, ChainPush,
               OperationKinds, history
      <3>2. Stale'
        BY <1>0, <1>1, <1>2, <2>3
           DEF OpenSecond, Stale, Restarts, Makes, Queue, ChainPush, OperationKinds, history
      <3>3. Agreement'
        BY <1>0, <1>1, <1>2, <2>3 DEF Agreement, Restarts, Makes, Queue, ChainPush, OperationKinds
      <3>4. Closing'
        BY <1>0, <1>1, <1>2, <2>3
           DEF OpenSecond, Accepted, Closing, Restarts, Makes, Queue, ChainPush, history
      <3> QED BY <3>1, <3>2, <3>3, <3>4
    <2> QED BY <1>1, <2>1, <2>2, <2>3
  <1>3. CASE p = Second
    <2>1. FirstOffers'
      BY <1>0, <1>1, <1>3
         DEF OpenFirst, FirstOffers, Restarts, Makes, Queue, ChainPush, OperationKinds, history
    <2>2. Doomed => Doomed'
      BY <1>0, <1>1, <1>3 DEF OpenFirst, Doomed, Restarts, Makes, Queue, history
    <2>3. ASSUME ~Doomed, ~Doomed', SecondOffers, Stale, Agreement, Closing
          PROVE  (SecondOffers /\ Stale /\ Agreement /\ Closing)'
      <3>1. SecondOffers'
        BY <1>0, <1>1, <1>3, <2>3
           DEF OpenSecond, Accepted, SecondOffers, Restarts, Makes, Queue, ChainPush,
               OperationKinds, history
      <3>2. Stale'
        BY <1>0, <1>1, <1>3, <2>3 DEF OpenSecond, Stale, Restarts, Makes, Queue, history
      <3>3. Agreement'
        BY <1>0, <1>1, <1>3, <2>3 DEF Agreement, Restarts, Makes, Queue, ChainPush, OperationKinds
      <3>4. Closing'
        BY <1>0, <1>1, <1>3, <2>3
           DEF OpenSecond, Accepted, Closing, Restarts, Makes, Queue, ChainPush, history
      <3> QED BY <3>1, <3>2, <3>3, <3>4
    <2> QED BY <1>1, <2>1, <2>2, <2>3
  <1> QED BY <1>2, <1>3

LEMMA GreetedRoles ==
    ASSUME TypeOK, PageInv, WaitInv, RolesInv, NEW p \in Peers, Greeted(p)
    PROVE  RolesInv'
  <1> USE TwoPeers
  <1>0. /\ Arrival(First) /\ Progress(First) /\ Arrival(Second) /\ Progress(Second) /\ Greeting
        /\ WireFacts(wire[First]) /\ WireFacts(wire[Second]) /\ Unheard
        /\ ChainFacts(chain[First]) /\ ChainFacts(chain[Second])
    BY AllIs DEF PageInv, WaitInv
  <1> SUFFICES ASSUME ~superseded'
               PROVE  FirstOffers' /\ (Doomed' \/ (SecondOffers /\ Stale /\ Agreement /\ Closing)')
    BY DEF RolesInv
  <1>1. ~superseded /\ FirstOffers /\ (Doomed \/ (SecondOffers /\ Stale /\ Agreement /\ Closing))
    BY DEF RolesInv, Greeted, Makes, history
  <1>2. CASE p = First
    <2>1. FirstOffers'
      BY <1>0, <1>1, <1>2
         DEF OpenFirst, FirstOffers, Greeted, Makes, Queue, Got, ChainPush, OperationKinds,
             WirePop, SignalKinds, history
    <2>2. Doomed => Doomed'
      BY <1>0, <1>1, <1>2 DEF OpenFirst, Doomed, Greeted, Makes, Queue, ChainPush, history
    <2>3. ASSUME ~Doomed, ~Doomed', SecondOffers, Stale, Agreement, Closing
          PROVE  (SecondOffers /\ Stale /\ Agreement /\ Closing)'
      <3>1. SecondOffers'
        BY <1>0, <1>1, <1>2, <2>3
           DEF OpenSecond, Accepted, SecondOffers, Greeted, Makes, Queue, Got, ChainPush,
               OperationKinds, WirePop, SignalKinds, history
      <3>2. Stale'
        BY <1>0, <1>1, <1>2, <2>3
           DEF OpenSecond, Stale, Greeted, Makes, Queue, Got, ChainPush, OperationKinds, WirePop,
               SignalKinds, history
      <3>3. Agreement'
        BY <1>0, <1>1, <1>2, <2>3
           DEF Agreement, Greeted, Makes, Queue, Got, ChainPush, OperationKinds, WirePop,
               SignalKinds
      <3>4. Closing'
        BY <1>0, <1>1, <1>2, <2>3
           DEF Closing, Greeted, Makes, Queue, ChainPush, OperationKinds, history
      <3> QED BY <3>1, <3>2, <3>3, <3>4
    <2> QED BY <1>1, <2>1, <2>2, <2>3
  <1>3. CASE p = Second
    <2>1. FirstOffers'
      BY <1>0, <1>1, <1>3
         DEF OpenFirst, FirstOffers, Greeted, Makes, Queue, Got, ChainPush, OperationKinds,
             WirePop, SignalKinds, history
    <2>2. Doomed => Doomed'
      BY <1>0, <1>1, <1>3 DEF OpenFirst, Doomed, Greeted, Makes, Queue, history
    <2>3. ASSUME ~Doomed, ~Doomed', SecondOffers, Stale, Agreement, Closing
          PROVE  (SecondOffers /\ Stale /\ Agreement /\ Closing)'
      <3>1. SecondOffers'
        BY <1>0, <1>1, <1>3, <2>3
           DEF OpenSecond, Accepted, SecondOffers, Greeted, Makes, Queue, Got, ChainPush,
               OperationKinds, WirePop, SignalKinds, history
      <3>2. Stale'
        BY <1>0, <1>1, <1>3, <2>3 DEF OpenSecond, Stale, Greeted, Makes, Queue, Got, history
      <3>3. Agreement'
        BY <1>0, <1>1, <1>3, <2>3
           DEF Agreement, Greeted, Makes, Queue, Got, ChainPush, OperationKinds, WirePop,
               SignalKinds
      <3>4. Closing'
        BY <1>0, <1>1, <1>3, <2>3 DEF Greeting, Greeted, Got, WirePop, SignalKinds
      <3> QED BY <3>1, <3>2, <3>3, <3>4
    <2> QED BY <1>1, <2>1, <2>2, <2>3
  <1> QED BY <1>2, <1>3

LEMMA IgnoresRoles ==
    ASSUME TypeOK, PageInv, WaitInv, RolesInv, NEW p \in Peers, Ignores(p)
    PROVE  RolesInv'
  <1> USE TwoPeers
  <1>0. /\ Arrival(First) /\ Progress(First) /\ Arrival(Second) /\ Progress(Second) /\ Greeting
        /\ WireFacts(wire[First]) /\ WireFacts(wire[Second]) /\ Unheard
        /\ ChainFacts(chain[First]) /\ ChainFacts(chain[Second])
    BY AllIs DEF PageInv, WaitInv
  <1> SUFFICES ASSUME ~superseded'
               PROVE  FirstOffers' /\ (Doomed' \/ (SecondOffers /\ Stale /\ Agreement /\ Closing)')
    BY DEF RolesInv
  <1>1. ~superseded /\ FirstOffers /\ (Doomed \/ (SecondOffers /\ Stale /\ Agreement /\ Closing))
    BY DEF RolesInv, Ignores, Handles, history
  <1>4. state[First] \in {"stable", "local", "remote"}  BY DEF TypeOK
  <1>2. CASE p = First
    <2>1. FirstOffers'
      BY <1>0, <1>1, <1>2
         DEF OpenFirst, FirstOffers, Ignores, Handles, Got, WirePop, SignalKinds, session, history
    <2>2. Doomed => Doomed'
      BY <1>0, <1>1, <1>2 DEF OpenFirst, Doomed, Ignores, Handles, session, history
    <2>3. ASSUME ~Doomed, ~Doomed', SecondOffers, Stale, Agreement, Closing
          PROVE  (SecondOffers /\ Stale /\ Agreement /\ Closing)'
      <3>1. SecondOffers'
        BY <1>0, <1>1, <1>2, <2>3
           DEF Accepted, SecondOffers, Ignores, Handles, Got, WirePop, session
      <3>2. Stale'
        BY <1>0, <1>1, <1>2, <2>3
           DEF OpenSecond, Stale, Ignores, Handles, Got, WirePop, session, history
      <3>3. Agreement'
        BY <1>0, <1>1, <1>2, <2>3
           DEF Agreement, Ignores, Handles, Got, WirePop, SignalKinds, session
      <3>4. Closing'
        BY <1>0, <1>1, <1>2, <2>3, MadeIsLocal, <1>4
           DEF OpenFirst, OpenSecond, Accepted, FirstOffers, Stale, Closing, Unheard, Greeting,
               Arrival, Progress, Ignores, Handles, Got, WirePop, SignalKinds, session, history
      <3> QED BY <3>1, <3>2, <3>3, <3>4
    <2> QED BY <1>1, <2>1, <2>2, <2>3
  <1>3. p # Second  BY DEF Ignores
  <1> QED BY <1>2, <1>3

LEMMA AcceptsRoles ==
    ASSUME TypeOK, PageInv, WaitInv, RolesInv, NEW p \in Peers, Accepts(p)
    PROVE  RolesInv'
  <1> USE TwoPeers
  <1>0. /\ Arrival(First) /\ Progress(First) /\ Arrival(Second) /\ Progress(Second) /\ Greeting
        /\ WireFacts(wire[First]) /\ WireFacts(wire[Second]) /\ Unheard
        /\ ChainFacts(chain[First]) /\ ChainFacts(chain[Second])
    BY AllIs DEF PageInv, WaitInv
  <1> SUFFICES ASSUME ~superseded'
               PROVE  FirstOffers' /\ (Doomed' \/ (SecondOffers /\ Stale /\ Agreement /\ Closing)')
    BY DEF RolesInv
  <1>1. ~superseded /\ FirstOffers /\ (Doomed \/ (SecondOffers /\ Stale /\ Agreement /\ Closing))
    BY DEF RolesInv, Accepts, Handles, history
  <1>2. CASE p = First
    <2>1. FirstOffers'
      BY <1>0, <1>1, <1>2
         DEF OpenFirst, FirstOffers, Accepts, Handles, Got, Queue, ChainPush, OperationKinds,
             WirePop, At, session, history
    <2>2. Doomed => Doomed'
      BY <1>0, <1>1, <1>2
         DEF OpenFirst, Doomed, Accepts, Handles, Queue, ChainPush, session, history
    <2>3. ASSUME ~Doomed, ~Doomed', SecondOffers, Stale, Agreement, Closing
          PROVE  (SecondOffers /\ Stale /\ Agreement /\ Closing)'
      <3>1. SecondOffers'
        BY <1>0, <1>1, <1>2, <2>3
           DEF OpenFirst, OpenSecond, Accepted, FirstOffers, SecondOffers, Stale, Accepts,
               Handles, Got, Queue, ChainPush, WirePop, SignalKinds, session, history
      <3>2. Stale'
        BY <1>0, <1>1, <1>2, <2>3
           DEF OpenSecond, Stale, Accepts, Handles, Got, Queue, ChainPush, WirePop, session,
               history
      <3>3. Agreement'
        BY <1>0, <1>1, <1>2, <2>3
           DEF OpenFirst, FirstOffers, Agreement, Accepts, Handles, Got, Queue, ChainPush,
               OperationKinds, WirePop, session
      <3>4. Closing'
        BY <1>0, <1>1, <1>2, <2>3
           DEF OpenFirst, Accepted, FirstOffers, Closing, Accepts, Handles, Queue, ChainPush,
               session, history
      <3> QED BY <3>1, <3>2, <3>3, <3>4
    <2> QED BY <1>1, <2>1, <2>2, <2>3
  <1>3. CASE p = Second
    <2>1. FirstOffers'
      BY <1>0, <1>1, <1>3
         DEF OpenFirst, FirstOffers, Accepts, Handles, Got, Queue, ChainPush, WirePop, At,
             session, history
    <2>2. Doomed => Doomed'
      BY <1>0, <1>1, <1>3 DEF OpenFirst, Doomed, Accepts, Handles, Queue, session, history
    <2>3. ASSUME ~Doomed, ~Doomed', SecondOffers, Stale, Agreement, Closing
          PROVE  (SecondOffers /\ Stale /\ Agreement /\ Closing)'
      <3>1. SecondOffers'
        BY <1>0, <1>1, <1>3, <2>3
           DEF OpenSecond, Accepted, SecondOffers, Accepts, Handles, Got, Queue, ChainPush,
               OperationKinds, WirePop, session, history
      <3>2. Stale'
        BY <1>0, <1>1, <1>3, <2>3
           DEF OpenSecond, Stale, Accepts, Handles, Got, Queue, At, session, history
      <3>3. Agreement'
        BY <1>0, <1>1, <1>3, <2>3
           DEF SecondOffers, Agreement, Accepts, Handles, Got, Queue, ChainPush, OperationKinds,
               WirePop, session
      <3>4. Closing'
        BY <1>0, <1>1, <1>3, <2>3
           DEF Closing, Accepts, Handles, Queue, ChainPush, session, history
      <3> QED BY <3>1, <3>2, <3>3, <3>4
    <2> QED BY <1>1, <2>1, <2>2, <2>3
  <1> QED BY <1>2, <1>3

LEMMA AnsweredRoles ==
    ASSUME TypeOK, PageInv, WaitInv, RolesInv, NEW p \in Peers, Answered(p)
    PROVE  RolesInv'
  <1> USE TwoPeers
  <1>0. /\ Arrival(First) /\ Progress(First) /\ Arrival(Second) /\ Progress(Second) /\ Greeting
        /\ WireFacts(wire[First]) /\ WireFacts(wire[Second]) /\ Unheard
        /\ ChainFacts(chain[First]) /\ ChainFacts(chain[Second])
    BY AllIs DEF PageInv, WaitInv
  <1> SUFFICES ASSUME ~superseded'
               PROVE  FirstOffers' /\ (Doomed' \/ (SecondOffers /\ Stale /\ Agreement /\ Closing)')
    BY DEF RolesInv
  <1>1. ~superseded /\ FirstOffers /\ (Doomed \/ (SecondOffers /\ Stale /\ Agreement /\ Closing))
    BY DEF RolesInv, Answered, Handles, history
  <1>2. CASE p = First
    <2>1. FirstOffers'
      BY <1>0, <1>1, <1>2
         DEF OpenFirst, FirstOffers, Answered, Handles, Got, Queue, ChainPush, WirePop, session,
             history
    <2>2. Doomed => Doomed'
      BY <1>0, <1>1, <1>2
         DEF OpenFirst, Doomed, Answered, Handles, Queue, ChainPush, session, history
    <2>3. ASSUME ~Doomed, ~Doomed', SecondOffers, Stale, Agreement, Closing
          PROVE  (SecondOffers /\ Stale /\ Agreement /\ Closing)'
      <3>1. SecondOffers'
        BY <1>0, <1>1, <1>2, <2>3
           DEF OpenFirst, Accepted, FirstOffers, Doomed, SecondOffers, Answered, Handles, Got,
               Queue, ChainPush, WirePop, SignalKinds, session, history
      <3>2. Stale'
        BY <1>0, <1>1, <1>2, <2>3
           DEF OpenSecond, Stale, Answered, Handles, Got, WirePop, At, session, history
      <3>3. Agreement'
        BY <1>0, <1>1, <1>2, <2>3
           DEF Agreement, Answered, Handles, Got, Queue, ChainPush, WirePop, session
      <3>4. Closing'
        BY <1>0, <1>1, <1>2, <2>3
           DEF OpenSecond, Accepted, Closing, Answered, Handles, Got, Queue, ChainPush, WirePop,
               SignalKinds, session, history
      <3> QED BY <3>1, <3>2, <3>3, <3>4
    <2> QED BY <1>1, <2>1, <2>2, <2>3
  <1>3. CASE p = Second
    <2>1. FirstOffers'
      BY <1>0, <1>1, <1>3
         DEF OpenFirst, FirstOffers, Answered, Handles, Got, Queue, ChainPush, OperationKinds,
             WirePop, SignalKinds, At, session, history
    <2>2. Doomed => Doomed'
      BY <1>0, <1>1, <1>3 DEF OpenFirst, Doomed, Answered, Handles, Queue, session, history
    <2>3. ASSUME ~Doomed, ~Doomed', SecondOffers, Stale, Agreement, Closing
          PROVE  (SecondOffers /\ Stale /\ Agreement /\ Closing)'
      <3>1. SecondOffers'
        BY <1>0, <1>1, <1>3, <2>3
           DEF OpenFirst, OpenSecond, Accepted, FirstOffers, SecondOffers, Arrival, Progress,
               Answered, Handles, Got, Queue, ChainPush, OperationKinds, WirePop, SignalKinds, At,
               Listens, session, history, WireFacts, ChainFacts
      <3>2. Stale'
        BY <1>0, <1>1, <1>3, <2>3
           DEF OpenSecond, Stale, Answered, Handles, Got, Queue, At, session, history
      <3>3. Agreement'
        BY <1>0, <1>1, <1>3, <2>3
           DEF Agreement, Answered, Handles, Got, Queue, ChainPush, WirePop, session
      <3>4. Closing'
        BY <1>0, <1>1, <1>3, <2>3
           DEF Accepted, SecondOffers, Closing, Answered, Handles, Got, Queue, ChainPush, WirePop,
               session, history
      <3> QED BY <3>1, <3>2, <3>3, <3>4
    <2> QED BY <1>1, <2>1, <2>2, <2>3
  <1> QED BY <1>2, <1>3

LEMMA RepliesRoles ==
    ASSUME TypeOK, PageInv, WaitInv, RolesInv, NEW p \in Peers, Replies(p)
    PROVE  RolesInv'
  <1> USE TwoPeers
  <1>0. /\ Arrival(First) /\ Progress(First) /\ Arrival(Second) /\ Progress(Second) /\ Greeting
        /\ WireFacts(wire[First]) /\ WireFacts(wire[Second]) /\ Unheard
        /\ ChainFacts(chain[First]) /\ ChainFacts(chain[Second])
    BY AllIs DEF PageInv, WaitInv
  <1> SUFFICES ASSUME ~superseded'
               PROVE  FirstOffers' /\ (Doomed' \/ (SecondOffers /\ Stale /\ Agreement /\ Closing)')
    BY DEF RolesInv
  <1>1. ~superseded /\ FirstOffers /\ (Doomed \/ (SecondOffers /\ Stale /\ Agreement /\ Closing))
    BY DEF RolesInv, Replies, history
  <1>2. CASE p = First
    <2>1. FirstOffers'
      BY <1>0, <1>1, <1>2
         DEF OpenFirst, FirstOffers, Replies, SetsLocal, Done, Posted, ChainPop, WirePush,
             SignalKinds, At
    <2>2. Doomed => Doomed'
      BY <1>0, <1>1, <1>2 DEF OpenFirst, Doomed, Replies
    <2>3. ASSUME ~Doomed, ~Doomed', SecondOffers, Stale, Agreement, Closing
          PROVE  (SecondOffers /\ Stale /\ Agreement /\ Closing)'
      <3>1. SecondOffers'
        BY <1>0, <1>1, <1>2, <2>3
           DEF OpenFirst, OpenSecond, Accepted, FirstOffers, Doomed, SecondOffers, Closing,
               Arrival, Progress, Replies, SetsLocal, Done, Posted, ChainPop, OperationKinds,
               WirePush, SignalKinds, At, Listens, history, WireFacts, ChainFacts
      <3>2. Stale'
        BY <1>0, <1>1, <1>2, <2>3
           DEF OpenSecond, SecondOffers, Stale, Replies, SetsLocal, Done, Posted, ChainPop, At,
               history
      <3>3. Agreement'
        BY <1>0, <1>1, <1>2, <2>3
           DEF OpenSecond, Accepted, SecondOffers, Agreement, Arrival, Replies, SetsLocal, Done,
               Posted, ChainPop, WirePush, At, Listens
      <3>4. Closing'
        BY <1>0, <1>1, <1>2, <2>3
           DEF OpenSecond, Accepted, SecondOffers, Closing, Arrival, Replies, Posted, WirePush,
               Listens, history
      <3> QED BY <3>1, <3>2, <3>3, <3>4
    <2> QED BY <1>1, <2>1, <2>2, <2>3
  <1>3. CASE p = Second
    <2>1. FirstOffers'
      BY <1>0, <1>1, <1>3
         DEF OpenFirst, FirstOffers, Arrival, Replies, SetsLocal, Done, Posted, ChainPop,
             WirePush, At, Listens, history
    <2>2. Doomed => Doomed'
      BY <1>0, <1>1, <1>3 DEF OpenFirst, Doomed, Replies, SetsLocal, Done, At, history
    <2>3. ASSUME ~Doomed, ~Doomed', SecondOffers, Stale, Agreement, Closing
          PROVE  (SecondOffers /\ Stale /\ Agreement /\ Closing)'
      <3>1. SecondOffers'
        BY <1>0, <1>1, <1>3, <2>3
           DEF OpenSecond, Accepted, SecondOffers, Replies, SetsLocal, Done, Posted, ChainPop, At
      <3>2. Stale'
        BY <1>0, <1>1, <1>3, <2>3
           DEF OpenFirst, FirstOffers, Stale, Arrival, Replies, SetsLocal, Done, Posted, WirePush,
               SignalKinds, Listens
      <3>3. Agreement'
        BY <1>0, <1>1, <1>3, <2>3
           DEF OpenFirst, FirstOffers, Agreement, Arrival, Replies, SetsLocal, Done, Posted,
               ChainPop, WirePush, At, Listens
      <3>4. Closing'
        BY <1>0, <1>1, <1>3, <2>3 DEF OpenSecond, Closing, Replies, At
      <3> QED BY <3>1, <3>2, <3>3, <3>4
    <2> QED BY <1>1, <2>1, <2>2, <2>3
  <1> QED BY <1>2, <1>3

LEMMA ProposesRoles ==
    ASSUME TypeOK, PageInv, WaitInv, RolesInv, NEW p \in Peers, Proposes(p)
    PROVE  RolesInv'
  <1> USE TwoPeers
  <1>0. /\ Arrival(First) /\ Progress(First) /\ Arrival(Second) /\ Progress(Second) /\ Greeting
        /\ WireFacts(wire[First]) /\ WireFacts(wire[Second]) /\ Unheard
        /\ ChainFacts(chain[First]) /\ ChainFacts(chain[Second])
    BY AllIs DEF PageInv, WaitInv
  <1> SUFFICES ASSUME ~superseded'
               PROVE  FirstOffers' /\ (Doomed' \/ (SecondOffers /\ Stale /\ Agreement /\ Closing)')
    BY DEF RolesInv
  <1>1. ~superseded /\ FirstOffers /\ (Doomed \/ (SecondOffers /\ Stale /\ Agreement /\ Closing))
    BY DEF RolesInv, Proposes, history
  <1>2. CASE p = First
    <2>1. FirstOffers'
      BY <1>0, <1>1, <1>2
         DEF OpenFirst, FirstOffers, Proposes, SetsLocal, Done, Posted, ChainPop, WirePush, At
    <2>2. Doomed => Doomed'
      BY <1>0, <1>1, <1>2 DEF OpenFirst, Doomed, Proposes
    <2>3. ASSUME ~Doomed, ~Doomed', SecondOffers, Stale, Agreement, Closing
          PROVE  (SecondOffers /\ Stale /\ Agreement /\ Closing)'
      <3>1. SecondOffers'
        BY <1>0, <1>1, <1>2, <2>3
           DEF OpenFirst, OpenSecond, Accepted, FirstOffers, Doomed, SecondOffers, Arrival,
               Progress, Proposes, SetsLocal, Done, Posted, ChainPop, OperationKinds, WirePush,
               SignalKinds, At, Listens, WireFacts, ChainFacts
      <3>2. Stale'
        BY <1>0, <1>1, <1>2, <2>3
           DEF OpenFirst, OpenSecond, FirstOffers, Stale, Proposes, SetsLocal, Done, Posted,
               ChainPop, At
      <3>3. Agreement'
        BY <1>0, <1>1, <1>2, <2>3
           DEF OpenFirst, FirstOffers, Agreement, Proposes, SetsLocal, Done, Posted, ChainPop,
               WirePush, SignalKinds
      <3>4. Closing'
        BY <1>0, <1>1, <1>2, <2>3
           DEF OpenSecond, Closing, Arrival, Proposes, SetsLocal, Posted, WirePush, At, Listens
      <3> QED BY <3>1, <3>2, <3>3, <3>4
    <2> QED BY <1>1, <2>1, <2>2, <2>3
  <1>3. CASE p = Second
    <2>1. FirstOffers'
      BY <1>0, <1>1, <1>3
         DEF OpenFirst, FirstOffers, Proposes, SetsLocal, Done, Posted, ChainPop, OperationKinds,
             WirePush, SignalKinds, At
    <2>2. Doomed => Doomed'
      BY <1>0, <1>1, <1>3 DEF OpenFirst, Doomed, Proposes, SetsLocal, Done, At
    <2>3. ASSUME ~Doomed, ~Doomed', SecondOffers, Stale, Agreement, Closing
          PROVE  (SecondOffers /\ Stale /\ Agreement /\ Closing)'
      <3>1. SecondOffers'
        BY <1>0, <1>1, <1>3, <2>3
           DEF OpenSecond, Accepted, SecondOffers, Proposes, SetsLocal, Done, Posted, ChainPop, At
      <3>2. Stale'
        BY <1>0, <1>1, <1>3, <2>3
           DEF OpenSecond, Stale, Proposes, SetsLocal, Done, Posted, WirePush, At
      <3>3. Agreement'
        BY <1>0, <1>1, <1>3, <2>3
           DEF OpenSecond, Accepted, SecondOffers, Agreement, Proposes, SetsLocal, Done, Posted,
               ChainPop, WirePush, SignalKinds
      <3>4. Closing'
        BY <1>0, <1>1, <1>3, <2>3
           DEF OpenSecond, Closing, Arrival, Proposes, SetsLocal, Posted, WirePush, Listens
      <3> QED BY <3>1, <3>2, <3>3, <3>4
    <2> QED BY <1>1, <2>1, <2>2, <2>3
  <1> QED BY <1>2, <1>3

LEMMA TakesOfferRoles ==
    ASSUME TypeOK, PageInv, WaitInv, RolesInv, NEW p \in Peers, TakesOffer(p)
    PROVE  RolesInv'
  <1> USE TwoPeers
  <1>0. /\ Arrival(First) /\ Progress(First) /\ Arrival(Second) /\ Progress(Second) /\ Greeting
        /\ WireFacts(wire[First]) /\ WireFacts(wire[Second]) /\ Unheard
        /\ ChainFacts(chain[First]) /\ ChainFacts(chain[Second])
    BY AllIs DEF PageInv, WaitInv
  <1> SUFFICES ASSUME ~superseded'
               PROVE  FirstOffers' /\ (Doomed' \/ (SecondOffers /\ Stale /\ Agreement /\ Closing)')
    BY DEF RolesInv
  <1>1. ~superseded /\ FirstOffers /\ (Doomed \/ (SecondOffers /\ Stale /\ Agreement /\ Closing))
    BY DEF RolesInv, TakesOffer, history
  <1>4. KeptAdded(p) /\ TookOffer(chain[p], chain'[p])  BY OfferFlushed DEF TakesOffer
  <1>2. CASE p = First
    <2>1. FirstOffers'
      BY <1>0, <1>1, <1>2, <1>4
         DEF OpenFirst, FirstOffers, TakesOffer, SetsRemote, TookOffer, KeptAdded, At
    <2>2. Doomed => Doomed'
      BY <1>0, <1>1, <1>2, <1>4 DEF OpenFirst, Doomed, TakesOffer
    <2>3. ASSUME ~Doomed, ~Doomed', SecondOffers, Stale, Agreement, Closing
          PROVE  (SecondOffers /\ Stale /\ Agreement /\ Closing)'
      <3>1. SecondOffers'
        BY <1>0, <1>1, <1>2, <1>4, <2>3
           DEF OpenSecond, Accepted, SecondOffers, TakesOffer, SetsRemote, TookOffer, KeptAdded,
               At
      <3>2. Stale'
        BY <1>0, <1>1, <1>2, <1>4, <2>3
           DEF OpenFirst, OpenSecond, FirstOffers, Stale, TakesOffer, SetsRemote, TookOffer, At
      <3>3. Agreement'
        BY <1>0, <1>1, <1>2, <1>4, <2>3
           DEF Agreement, TakesOffer, SetsRemote, TookOffer, KeptAdded
      <3>4. Closing'
        BY <1>0, <1>1, <1>2, <1>4, <2>3
           DEF Accepted, SecondOffers, Closing, TakesOffer, SetsRemote, TookOffer, At
      <3> QED BY <3>1, <3>2, <3>3, <3>4
    <2> QED BY <1>1, <2>1, <2>2, <2>3
  <1>3. CASE p = Second
    <2>1. FirstOffers'
      BY <1>0, <1>1, <1>3, <1>4
         DEF OpenFirst, FirstOffers, TakesOffer, SetsRemote, TookOffer, KeptAdded, At
    <2>2. Doomed => Doomed'
      BY <1>0, <1>1, <1>3, <1>4 DEF OpenFirst, Doomed, TakesOffer, SetsRemote, KeptAdded, At
    <2>3. ASSUME ~Doomed, ~Doomed', SecondOffers, Stale, Agreement, Closing
          PROVE  (SecondOffers /\ Stale /\ Agreement /\ Closing)'
      <3>1. SecondOffers'
        BY <1>0, <1>1, <1>3, <1>4, <2>3
           DEF OpenFirst, Accepted, FirstOffers, SecondOffers, TakesOffer, SetsRemote, TookOffer,
               KeptAdded, At
      <3>2. Stale'
        BY <1>0, <1>1, <1>3, <1>4, <2>3 DEF Stale, TakesOffer, SetsRemote, KeptAdded, At
      <3>3. Agreement'
        BY <1>0, <1>1, <1>3, <1>4, <2>3
           DEF Agreement, TakesOffer, SetsRemote, TookOffer, KeptAdded
      <3>4. Closing'
        BY <1>0, <1>1, <1>3, <1>4, <2>3 DEF OpenSecond, Closing, TakesOffer, At
      <3> QED BY <3>1, <3>2, <3>3, <3>4
    <2> QED BY <1>1, <2>1, <2>2, <2>3
  <1> QED BY <1>2, <1>3

LEMMA TakesAnswerRoles ==
    ASSUME TypeOK, PageInv, WaitInv, RolesInv, NEW p \in Peers, TakesAnswer(p)
    PROVE  RolesInv'
  <1> USE TwoPeers
  <1>0. /\ Arrival(First) /\ Progress(First) /\ Arrival(Second) /\ Progress(Second) /\ Greeting
        /\ WireFacts(wire[First]) /\ WireFacts(wire[Second]) /\ Unheard
        /\ ChainFacts(chain[First]) /\ ChainFacts(chain[Second])
    BY AllIs DEF PageInv, WaitInv
  <1> SUFFICES ASSUME ~superseded'
               PROVE  FirstOffers' /\ (Doomed' \/ (SecondOffers /\ Stale /\ Agreement /\ Closing)')
    BY DEF RolesInv
  <1>1. ~superseded /\ FirstOffers /\ (Doomed \/ (SecondOffers /\ Stale /\ Agreement /\ Closing))
    BY DEF RolesInv, TakesAnswer, history
  <1>4. KeptAdded(p) /\ TookAnswer(chain[p], chain'[p])  BY AnswerFlushed DEF TakesAnswer
  <1>2. CASE p = First
    <2>1. FirstOffers'
      BY <1>0, <1>1, <1>2, <1>4
         DEF OpenFirst, FirstOffers, TakesAnswer, SetsRemote, TookAnswer, KeptAdded, At
    <2>2. Doomed => Doomed'
      BY <1>0, <1>1, <1>2, <1>4 DEF Doomed, TookAnswer
    <2>3. ASSUME ~Doomed, ~Doomed', SecondOffers, Stale, Agreement, Closing
          PROVE  (SecondOffers /\ Stale /\ Agreement /\ Closing)'
      <3>1. SecondOffers'
        BY <1>0, <1>1, <1>2, <1>4, <2>3
           DEF OpenSecond, Accepted, SecondOffers, TakesAnswer, SetsRemote, TookAnswer, KeptAdded,
               At
      <3>2. Stale'
        BY <1>0, <1>1, <1>2, <1>4, <2>3
           DEF OpenSecond, FirstOffers, Stale, TakesAnswer, SetsRemote, TookAnswer, KeptAdded, At
      <3>3. Agreement'
        BY <1>0, <1>1, <1>2, <1>4, <2>3
           DEF SecondOffers, Agreement, TakesAnswer, SetsRemote, TookAnswer, KeptAdded, At
      <3>4. Closing'
        BY <1>0, <1>1, <1>2, <1>4, <2>3
           DEF OpenSecond, Accepted, FirstOffers, SecondOffers, Closing, Progress, TakesAnswer,
               SetsRemote, TookAnswer, At
      <3> QED BY <3>1, <3>2, <3>3, <3>4
    <2> QED BY <1>1, <2>1, <2>2, <2>3
  <1>3. CASE p = Second
    <2>1. FirstOffers'
      BY <1>0, <1>1, <1>3, <1>4
         DEF OpenFirst, FirstOffers, TakesAnswer, SetsRemote, TookAnswer, KeptAdded, At
    <2>2. Doomed => Doomed'
      BY <1>0, <1>1, <1>3, <1>4 DEF OpenFirst, Doomed, TakesAnswer, SetsRemote, KeptAdded, At
    <2>3. ASSUME ~Doomed, ~Doomed', SecondOffers, Stale, Agreement, Closing
          PROVE  (SecondOffers /\ Stale /\ Agreement /\ Closing)'
      <3>1. SecondOffers'
        BY <1>0, <1>1, <1>3, <1>4, <2>3
           DEF Accepted, SecondOffers, TakesAnswer, SetsRemote, TookAnswer, KeptAdded, At
      <3>2. Stale'
        BY <1>0, <1>1, <1>3, <1>4, <2>3
           DEF Accepted, SecondOffers, Stale, TakesAnswer, SetsRemote, TookAnswer, KeptAdded,
               WireFacts
      <3>3. Agreement'
        BY <1>0, <1>1, <1>3, <1>4, <2>3
           DEF SecondOffers, Agreement, TakesAnswer, SetsRemote, TookAnswer, KeptAdded, At
      <3>4. Closing'
        BY <1>0, <1>1, <1>3, <1>4, <2>3 DEF OpenSecond, Closing, TakesAnswer, At
      <3> QED BY <3>1, <3>2, <3>3, <3>4
    <2> QED BY <1>1, <2>1, <2>2, <2>3
  <1> QED BY <1>2, <1>3

LEMMA RefusesRoles ==
    ASSUME TypeOK, PageInv, WaitInv, RolesInv, NEW p \in Peers, Refuses(p)
    PROVE  RolesInv'
  <1> USE TwoPeers
  <1>0. /\ Arrival(First) /\ Progress(First) /\ Arrival(Second) /\ Progress(Second) /\ Greeting
        /\ WireFacts(wire[First]) /\ WireFacts(wire[Second]) /\ Unheard
        /\ ChainFacts(chain[First]) /\ ChainFacts(chain[Second])
    BY AllIs DEF PageInv, WaitInv
  <1> SUFFICES ASSUME ~superseded'
               PROVE  FirstOffers' /\ (Doomed' \/ (SecondOffers /\ Stale /\ Agreement /\ Closing)')
    BY DEF RolesInv
  <1>1. ~superseded /\ FirstOffers /\ (Doomed \/ (SecondOffers /\ Stale /\ Agreement /\ Closing))
    BY DEF RolesInv, Refuses, history
  <1>2. CASE p = First
    <2>1. FirstOffers'
      BY <1>0, <1>1, <1>2 DEF OpenFirst, FirstOffers, Refuses, Done, ChainPop
    <2>2. Doomed => Doomed'
      BY <1>0, <1>1, <1>2 DEF OpenFirst, Doomed, Refuses
    <2>3. ASSUME ~Doomed, ~Doomed', SecondOffers, Stale, Agreement, Closing
          PROVE  (SecondOffers /\ Stale /\ Agreement /\ Closing)'
      <3>1. SecondOffers'
        BY <1>0, <1>1, <1>2, <2>3
           DEF OpenSecond, Accepted, SecondOffers, Refuses, Done, ChainPop, session, history
      <3>2. Stale'
        BY <1>0, <1>1, <1>2, <2>3 DEF OpenFirst, FirstOffers, Refuses, Done, ChainPop
      <3>3. Agreement'
        BY <1>0, <1>1, <1>2, <2>3 DEF OpenFirst, FirstOffers, Refuses, Done, ChainPop
      <3>4. Closing'
        BY <1>0, <1>1, <1>2, <2>3 DEF OpenFirst, FirstOffers, Refuses, Done, ChainPop
      <3> QED BY <3>1, <3>2, <3>3, <3>4
    <2> QED BY <1>1, <2>1, <2>2, <2>3
  <1>3. CASE p = Second
    <2>1. FirstOffers'
      BY <1>0, <1>1, <1>3
         DEF OpenFirst, FirstOffers, Refuses, Done, ChainPop, OperationKinds, flags, session,
             history
    <2>2. Doomed => Doomed'
      BY <1>0, <1>1, <1>3 DEF OpenFirst, Doomed, Refuses, Done, session, history
    <2>3. ASSUME ~Doomed, ~Doomed', SecondOffers, Stale, Agreement, Closing
          PROVE  (SecondOffers /\ Stale /\ Agreement /\ Closing)'
      <3>1. SecondOffers'
        BY <1>0, <1>1, <1>3, <2>3 DEF Accepted, SecondOffers, Refuses, Done, ChainPop, session
      <3>2. Stale'
        BY <1>0, <1>1, <1>3, <2>3 DEF OpenSecond, Stale, Refuses, Done, flags, session
      <3>3. Agreement'
        BY <1>0, <1>1, <1>3, <2>3 DEF OpenSecond, Accepted, SecondOffers, Refuses, Done, ChainPop
      <3>4. Closing'
        BY <1>0, <1>1, <1>3, <2>3 DEF OpenSecond, Closing, Refuses, session
      <3> QED BY <3>1, <3>2, <3>3, <3>4
    <2> QED BY <1>1, <2>1, <2>2, <2>3
  <1> QED BY <1>2, <1>3

LEMMA AsideRoles ==
    ASSUME TypeOK, PageInv, WaitInv, RolesInv, Aside
    PROVE  RolesInv'
  <1>0. /\ SameWire(wire[First], wire'[First]) /\ SameWire(wire[Second], wire'[Second])
        /\ SameChain(chain[First], chain'[First]) /\ SameChain(chain[Second], chain'[Second])
    BY TwoPeers DEF Aside
  <1> SUFFICES ASSUME ~superseded'
               PROVE  FirstOffers' /\ (Doomed' \/ (SecondOffers /\ Stale /\ Agreement /\ Closing)')
    BY DEF RolesInv
  <1>1. ~superseded /\ FirstOffers /\ (Doomed \/ (SecondOffers /\ Stale /\ Agreement /\ Closing))
    BY DEF RolesInv, Aside, history
  <1>2. FirstOffers'
    BY <1>0, <1>1 DEF OpenFirst, FirstOffers, Aside, SameWire, SameChain, flags, session, history
  <1>3. Doomed => Doomed'
    BY <1>0, <1>1 DEF OpenFirst, Doomed, Aside, SameChain, session, history
  <1>4. SecondOffers /\ Stale /\ Agreement /\ Closing
        => (SecondOffers /\ Stale /\ Agreement /\ Closing)'
    BY <1>0, <1>1
       DEF OpenSecond, Accepted, SecondOffers, Stale, Agreement, Closing, Aside, SameWire,
           SameChain, flags, session, history
  <1> QED BY <1>1, <1>2, <1>3, <1>4

-----------------------------------------------------------------------------
(* Roles: while no ICE restart has been made                               *)

\* An offer of the first page on its way to the second, which is about to take
\* it, or to answer it; the answer on its way back, which the first is about to
\* take.
Coming == Has(wire[Second], Offer)
Taking == Has(chain[Second], OpOffer)
Replying == Has(chain[Second], Answering)
Back == Has(wire[First], Answer)
Heard == Has(chain[First], OpAnswer)
\* The answer of the first page to an offer of the second.
Returned == Has(wire[Second], Answer) \/ Has(chain[Second], OpAnswer)
\* The first page is still to offer because of its tracks.
Unneeded == ~needed[First] /\ page[First] = "calls"

\* The first page offers of its own accord at most twice, because of its tracks
\* and because of peer_joined, and only before it has a description.
OwnOffers ==
    /\ Has(wire[First], Joined) \/ Has(chain[First], Made) =>
         ~remote[First] /\ ~Has(chain[First], OpOffer) /\ ~Has(chain[First], Answering)
    /\ Twice(chain[First], Made)
    /\ ~Once(chain[First], Made) => Unneeded /\ ~Has(wire[First], Joined) /\ ~OpenFirst
    /\ ~Unneeded /\ Has(chain[First], Made) => ~Has(wire[First], Joined) /\ ~OpenFirst
    /\ Has(wire[First], Joined) /\ OpenFirst => Unneeded /\ ~Has(chain[First], Made)
    /\ Has(chain[First], Made) /\ ~makingOffer[First] => state[First] = "local"
    /\ ~Listens(Second) => Once(chain[First], Made) /\ (Has(chain[First], Made) => Unneeded)
    /\ ~Crossed(chain[First], OpAnswer, Made) /\ (Has(wire[First], Joined) => ~Heard)
\* The second offers once, before it has a description.
SecondMakes ==
    /\ Has(chain[Second], Made) => ~remote[Second] /\ state[Second] = "stable"
    /\ Leads(chain[Second], Made)
OneReply(r) == Once(chain[r], Answering) /\ (Has(chain[r], Answering) => state[r] = "remote")
FirstOffer ==
    /\ \A r \in Peers : state[r] = "local" => ~remote[r]
    /\ remote[Second] => remote[First] \/ OpenFirst
    /\ Coming \/ Taking => ~remote[Second]
    /\ state[Second] = "remote" => offerer[Second] = Nobody
    /\ Has(chain[First], OpOffer) => ~OpenFirst

Early == OwnOffers /\ OneReply(First) /\ OneReply(Second) /\ FirstOffer

\* Once the first page has replaced its offer, it makes no other: two are out,
\* one behind the other, and the second page answers both.  The answer to the
\* first of them is the one that is taken.
Fresh == ~remote[First] /\ ~Heard
LateFirst ==
    /\ ~Has(wire[First], Joined) /\ ~Has(chain[First], Made) /\ Unneeded /\ Listens(Second)
    /\ ~makingOffer[First] /\ offered[First]
    /\ state[First] = "local" <=> ~remote[First]
    /\ Fresh => ~isSettingRemoteAnswerPending[First]
    /\ Heard /\ ~Has(chain[First], OpOffer) /\ ~remote[First] => isSettingRemoteAnswerPending[First]
    /\ OneReply(First)
TwoOffers ==
    /\ Twice(wire[Second], Offer) /\ Twice(chain[Second], OpOffer)
    /\ Twice(chain[Second], Answering)
    /\ Coming => Once(chain[Second], OpOffer)
    /\ Taking => Once(wire[Second], Offer)
    /\ remote[Second] => /\ ~(Coming /\ Taking)
                         /\ Once(wire[Second], Offer) /\ Once(chain[Second], OpOffer)
    /\ ~Once(chain[Second], Answering) => /\ ~Coming /\ ~Taking /\ state[Second] = "remote"
                                          /\ offerer[Second] = Nobody
    /\ state[Second] # "remote" /\ Replying => state[Second] = "stable" /\ ~Coming /\ ~Taking
    /\ state[Second] = "remote" /\ offerer[Second] # Nobody => ~Coming /\ ~Taking
    /\ offerer[Second] = Nobody => ~Back /\ Fresh
\* The second page, with a description, offers when two answers were called for
\* and one has served: the offer is on its way, or accepted.
Late == state[Second] = "local" /\ remote[Second]
LateOffer ==
    /\ Late \/ (state[Second] = "stable" /\ Replying) =>
         /\ Once(wire[First], Answer) /\ (Back => Fresh)
         /\ Once(chain[First], OpAnswer) /\ (Heard => ~remote[First])
    /\ Late => /\ offered[Second] /\ ~Coming /\ ~Taking /\ ~Replying /\ offerer[Second] = First
               /\ Accepted \/ Open(wire[First], Answer, Offer)
    /\ offerer[Second] = Second => /\ ~Coming /\ ~Taking /\ ~Replying /\ ~Late
                                   /\ state[Second] # "remote"
LateAccepted ==
    /\ Accepted => Late /\ ~Has(wire[First], Offer) /\ ~Back
    /\ Once(chain[First], OpOffer) /\ Once(wire[Second], Answer) /\ Once(chain[Second], OpAnswer)
    /\ Has(chain[First], OpOffer) => state[First] # "remote" /\ ~Returned
    /\ state[First] = "remote" => ~Returned
    /\ Has(wire[Second], Answer) => ~Has(chain[Second], OpAnswer)
    /\ Has(chain[First], OpOffer) /\ ~remote[First] => Behind(chain[First], OpAnswer, OpOffer)
    /\ state[First] = "remote" \/ Returned => ~Heard
LateStale ==
    /\ Apart(wire[First], Answer, Offer)
    /\ Open(wire[First], Answer, Offer) => Late \/ offerer[Second] = Nobody
    /\ ~Fresh /\ Has(wire[First], Offer) => Late /\ ~Back
    /\ Fresh /\ Crossed(wire[First], Answer, Offer) => Late
LateRoles ==
    /\ remote[First] /\ ~Returned /\ offerer[Second] # Second /\ state[First] # "remote" =>
         offerer[First] = First
    /\ Returned \/ offerer[Second] = Second => offerer[First] = Second

Replaced == LateFirst /\ TwoOffers /\ LateOffer /\ LateAccepted /\ LateStale /\ LateRoles

CallInv ==
    restarts = 0 => SecondMakes /\ (~superseded => Early) /\ (superseded => Replaced)

LEMMA CrossedOpen ==
    ASSUME NEW s \in Seq(AnySignal), Once(s, Answer), Crossed(s, Answer, Offer)
    PROVE  Open(s, Answer, Offer)
  <1>1. PICK i \in DOMAIN s, j \in DOMAIN s : i < j /\ s[i] \in Answer /\ s[j] \in Offer
    BY DEF Crossed
  <1>2. \A k \in DOMAIN s : j < k => s[k] \notin Answer
    BY <1>1, Len(s) \in Nat, DOMAIN s = 1 .. Len(s) DEF Once
  <1> QED BY <1>1, <1>2 DEF Open

LEMMA EarlyRoles ==
    ASSUME TypeOK, PageInv, RolesInv, CallInv, restarts = 0, ~superseded
    PROVE  /\ Early /\ FirstOffers /\ SecondOffers /\ Stale /\ Agreement /\ Closing
           /\ Heard => ~Has(wire[First], Offer)
           /\ ~Crossed(wire[First], Answer, Offer)
  <1>1. Early  BY DEF CallInv
  <1>2. ~Doomed
    BY <1>1, AllIs, TwoPeers DEF Early, FirstOffer, Doomed, ChainFacts
  <1>3. FirstOffers /\ SecondOffers /\ Stale /\ Agreement /\ Closing
    BY <1>1, <1>2 DEF RolesInv
  <1>4. Heard \/ Back => ~Open(wire[First], Answer, Offer)
    BY <1>1, <1>3, TwoPeers
       DEF Early, FirstOffer, FirstOffers, Stale, OpenSecond, Heard, Back, PageInv, Progress
  <1>5. Heard => ~Has(wire[First], Offer)
    BY <1>3, <1>4, AllIs, TwoPeers DEF FirstOffers, Heard, WireFacts
  <1>6. ~Crossed(wire[First], Answer, Offer)
    <2>1. wire[First] \in Seq(AnySignal)  BY TwoPeers DEF TypeOK
    <2>2. Once(wire[First], Answer)  BY <1>3 DEF FirstOffers
    <2> QED BY <1>4, <2>1, <2>2, CrossedOpen, AllIs, TwoPeers DEF Back, WireFacts
  <1> QED BY <1>1, <1>3, <1>5, <1>6

LEMMA AsideCall == ASSUME TypeOK, CallInv, Aside PROVE CallInv'
  <1>0. /\ SameWire(wire[First], wire'[First]) /\ SameWire(wire[Second], wire'[Second])
        /\ SameChain(chain[First], chain'[First]) /\ SameChain(chain[Second], chain'[Second])
    BY TwoPeers DEF Aside
  <1>1. SecondMakes => SecondMakes'
    BY <1>0 DEF SecondMakes, Aside, SameChain, session
  <1>2. Early => Early'
    BY <1>0
       DEF Early, OwnOffers, OneReply, FirstOffer, OpenFirst, Coming, Taking, Heard, Unneeded,
           Aside, SameWire, SameChain, flags, session, history, Listens
  <1>3. LateFirst => LateFirst'
    BY <1>0
       DEF LateFirst, OneReply, Heard, Unneeded, Fresh, Aside, SameWire, SameChain, flags,
           session, history, Listens
  <1>4. TwoOffers => TwoOffers'
    BY <1>0
       DEF TwoOffers, Coming, Taking, Replying, Back, Heard, Fresh, Aside, SameWire, SameChain,
           session
  <1>5. LateOffer => LateOffer'
    BY <1>0
       DEF LateOffer, Accepted, Coming, Taking, Replying, Back, Heard, Fresh, Late, Aside,
           SameWire, SameChain, session, history
  <1>6. LateAccepted => LateAccepted'
    BY <1>0
       DEF LateAccepted, Accepted, Back, Heard, Returned, Late, Aside, SameWire, SameChain,
           session
  <1>7. LateStale => LateStale'
    BY <1>0 DEF LateStale, Back, Heard, Fresh, Late, Aside, SameWire, SameChain, session
  <1>8. LateRoles => LateRoles'
    BY <1>0 DEF LateRoles, Returned, Aside, SameWire, SameChain, session
  <1> QED BY <1>1, <1>2, <1>3, <1>4, <1>5, <1>6, <1>7, <1>8
          DEF CallInv, Replaced, Aside, history

LEMMA RestartsCall == ASSUME TypeOK, NEW p \in Peers, Restarts(p) PROVE CallInv'
  BY DEF TypeOK, Restarts, CallInv

LEMMA ArrivesCall ==
    ASSUME TypeOK, PageInv, WaitInv, RolesInv, CallInv, NEW p \in Peers, Arrives(p)
    PROVE  CallInv'
  <1> USE TwoPeers
  <1>0. /\ Arrival(First) /\ Progress(First) /\ Arrival(Second) /\ Progress(Second) /\ Greeting
        /\ WireFacts(wire[First]) /\ WireFacts(wire[Second])
        /\ ChainFacts(chain[First]) /\ ChainFacts(chain[Second])
        /\ Unheard /\ Unanswered /\ FirstWaits /\ First # Nobody /\ Second # Nobody
        /\ \A q \in Peers : /\ state[q] \in {"stable", "local", "remote"}
                           /\ offerer[q] \in {First, Second, Nobody}
    BY AllIs, NobodyAssumption DEF PageInv, WaitInv, TypeOK
  <1> SUFFICES ASSUME restarts' = 0
               PROVE  SecondMakes' /\ (~superseded' => Early') /\ (superseded' => Replaced')
    BY DEF CallInv
  <1>1. restarts = 0 /\ SecondMakes /\ (superseded => Replaced)
    BY DEF CallInv, Arrives
  <1>2. CASE p = First
    <2>1. SecondMakes'
      BY <1>0, <1>1, <1>2 DEF SecondMakes, Arrives, session
    <2>2. superseded' = superseded  BY DEF Arrives, history
    <2>3. ASSUME ~superseded, ~superseded' PROVE Early'
      <3>1. /\ Early /\ FirstOffers /\ SecondOffers /\ Stale /\ Agreement /\ Closing
            /\ (Heard => ~Has(wire[First], Offer)) /\ ~Crossed(wire[First], Answer, Offer)
        BY <1>1, <2>3, EarlyRoles
      <3>2. OwnOffers'
        BY <1>0, <1>1, <1>2, <3>1
           DEF OpenFirst, Heard, Unneeded, OwnOffers, Early, Arrives, At, Listens, flags, session,
               history
      <3>3. OneReply(First)'
        BY <1>0, <1>1, <1>2, <3>1 DEF OneReply, Early, Arrives, session
      <3>4. OneReply(Second)'
        BY <1>0, <1>1, <1>2, <3>1 DEF OneReply, Early, Arrives, session
      <3>5. FirstOffer'
        BY <1>0, <1>1, <1>2, <3>1
           DEF OpenFirst, Coming, Taking, FirstOffer, Early, Arrives, session, history
      <3> QED BY <3>2, <3>3, <3>4, <3>5 DEF Early
    <2>4. ASSUME superseded PROVE Replaced'
      <3>1. Replaced  BY <1>1, <2>4
      <3>2. LateFirst'
        BY <1>0, <1>1, <1>2, <3>1 DEF Replaced, LateFirst, Unneeded, Arrives
      <3>3. TwoOffers'
        BY <1>0, <1>1, <1>2, <3>1 DEF Replaced, LateFirst, Unneeded, Arrives
      <3>4. LateOffer'
        BY <1>0, <1>1, <1>2, <3>1 DEF Replaced, LateFirst, Unneeded, Arrives
      <3>5. LateAccepted'
        BY <1>0, <1>1, <1>2, <3>1 DEF Replaced, LateFirst, Unneeded, Arrives
      <3>6. LateStale'
        BY <1>0, <1>1, <1>2, <3>1 DEF Replaced, LateFirst, Unneeded, Arrives
      <3>7. LateRoles'
        BY <1>0, <1>1, <1>2, <3>1 DEF Replaced, LateRoles, Returned, Arrives, session
      <3> QED BY <3>2, <3>3, <3>4, <3>5, <3>6, <3>7 DEF Replaced
    <2> QED BY <2>1, <2>2, <2>3, <2>4
  <1>3. CASE p = Second
    <2>1. SecondMakes'
      BY <1>0, <1>1, <1>3 DEF SecondMakes, Arrives, session
    <2>2. superseded' = superseded  BY DEF Arrives, history
    <2>3. ASSUME ~superseded, ~superseded' PROVE Early'
      <3>1. /\ Early /\ FirstOffers /\ SecondOffers /\ Stale /\ Agreement /\ Closing
            /\ (Heard => ~Has(wire[First], Offer)) /\ ~Crossed(wire[First], Answer, Offer)
        BY <1>1, <2>3, EarlyRoles
      <3>2. OwnOffers'
        BY <1>0, <1>1, <1>3, <3>1
           DEF OpenFirst, Heard, Unneeded, OwnOffers, Early, Arrives, At, Listens, flags, session,
               history
      <3>3. OneReply(First)'
        BY <1>0, <1>1, <1>3, <3>1 DEF OneReply, Early, Arrives, session
      <3>4. OneReply(Second)'
        BY <1>0, <1>1, <1>3, <3>1 DEF OneReply, Early, Arrives, session
      <3>5. FirstOffer'
        BY <1>0, <1>1, <1>3, <3>1
           DEF OpenFirst, Coming, Taking, FirstOffer, Early, Arrives, session, history
      <3> QED BY <3>2, <3>3, <3>4, <3>5 DEF Early
    <2>4. ASSUME superseded PROVE Replaced'
      <3>1. Replaced  BY <1>1, <2>4
      <3>2. LateFirst'
        BY <1>0, <1>1, <1>3, <3>1 DEF Replaced, LateFirst, Arrives, Listens
      <3>3. TwoOffers'
        BY <1>0, <1>1, <1>3, <3>1 DEF Replaced, LateFirst, Arrives, Listens
      <3>4. LateOffer'
        BY <1>0, <1>1, <1>3, <3>1 DEF Replaced, LateFirst, Arrives, Listens
      <3>5. LateAccepted'
        BY <1>0, <1>1, <1>3, <3>1 DEF Replaced, LateFirst, Arrives, Listens
      <3>6. LateStale'
        BY <1>0, <1>1, <1>3, <3>1 DEF Replaced, LateFirst, Arrives, Listens
      <3>7. LateRoles'
        BY <1>0, <1>1, <1>3, <3>1 DEF Replaced, LateRoles, Returned, Arrives, session
      <3> QED BY <3>2, <3>3, <3>4, <3>5, <3>6, <3>7 DEF Replaced
    <2> QED BY <2>1, <2>2, <2>3, <2>4
  <1> QED BY <1>2, <1>3

LEMMA ListeningCall ==
    ASSUME TypeOK, PageInv, WaitInv, RolesInv, CallInv, NEW p \in Peers, Listening(p)
    PROVE  CallInv'
  <1> USE TwoPeers
  <1>0. /\ Arrival(First) /\ Progress(First) /\ Arrival(Second) /\ Progress(Second) /\ Greeting
        /\ WireFacts(wire[First]) /\ WireFacts(wire[Second])
        /\ ChainFacts(chain[First]) /\ ChainFacts(chain[Second])
        /\ Unheard /\ Unanswered /\ FirstWaits /\ First # Nobody /\ Second # Nobody
        /\ \A q \in Peers : /\ state[q] \in {"stable", "local", "remote"}
                           /\ offerer[q] \in {First, Second, Nobody}
    BY AllIs, NobodyAssumption DEF PageInv, WaitInv, TypeOK
  <1> SUFFICES ASSUME restarts' = 0
               PROVE  SecondMakes' /\ (~superseded' => Early') /\ (superseded' => Replaced')
    BY DEF CallInv
  <1>1. restarts = 0 /\ SecondMakes /\ (superseded => Replaced)
    BY DEF CallInv, Listening
  <1>2. CASE p = First
    <2>1. SecondMakes'
      BY <1>0, <1>1, <1>2 DEF SecondMakes, Listening, session
    <2>2. superseded' = superseded  BY DEF Listening, history
    <2>3. ASSUME ~superseded, ~superseded' PROVE Early'
      <3>1. /\ Early /\ FirstOffers /\ SecondOffers /\ Stale /\ Agreement /\ Closing
            /\ (Heard => ~Has(wire[First], Offer)) /\ ~Crossed(wire[First], Answer, Offer)
        BY <1>1, <2>3, EarlyRoles
      <3>2. OwnOffers'
        BY <1>0, <1>1, <1>2, <3>1
           DEF OpenFirst, Heard, Unneeded, OwnOffers, Early, Listening, At, Listens, flags,
               session, history
      <3>3. OneReply(First)'
        BY <1>0, <1>1, <1>2, <3>1 DEF OneReply, Early, Listening, session
      <3>4. OneReply(Second)'
        BY <1>0, <1>1, <1>2, <3>1 DEF OneReply, Early, Listening, session
      <3>5. FirstOffer'
        BY <1>0, <1>1, <1>2, <3>1
           DEF OpenFirst, Coming, Taking, FirstOffer, Early, Listening, session, history
      <3> QED BY <3>2, <3>3, <3>4, <3>5 DEF Early
    <2>4. ASSUME superseded PROVE Replaced'
      <3>1. Replaced  BY <1>1, <2>4
      <3>2. LateFirst'
        BY <1>0, <1>1, <1>2, <3>1 DEF Replaced, LateFirst, Unneeded, Listening
      <3>3. TwoOffers'
        BY <1>0, <1>1, <1>2, <3>1 DEF Replaced, LateFirst, Unneeded, Listening
      <3>4. LateOffer'
        BY <1>0, <1>1, <1>2, <3>1 DEF Replaced, LateFirst, Unneeded, Listening
      <3>5. LateAccepted'
        BY <1>0, <1>1, <1>2, <3>1 DEF Replaced, LateFirst, Unneeded, Listening
      <3>6. LateStale'
        BY <1>0, <1>1, <1>2, <3>1 DEF Replaced, LateFirst, Unneeded, Listening
      <3>7. LateRoles'
        BY <1>0, <1>1, <1>2, <3>1 DEF Replaced, LateRoles, Returned, Listening, session
      <3> QED BY <3>2, <3>3, <3>4, <3>5, <3>6, <3>7 DEF Replaced
    <2> QED BY <2>1, <2>2, <2>3, <2>4
  <1>3. CASE p = Second
    <2>1. SecondMakes'
      BY <1>0, <1>1, <1>3 DEF SecondMakes, Listening, session
    <2>2. superseded' = superseded  BY DEF Listening, history
    <2>3. ASSUME ~superseded, ~superseded' PROVE Early'
      <3>1. /\ Early /\ FirstOffers /\ SecondOffers /\ Stale /\ Agreement /\ Closing
            /\ (Heard => ~Has(wire[First], Offer)) /\ ~Crossed(wire[First], Answer, Offer)
        BY <1>1, <2>3, EarlyRoles
      <3>2. OwnOffers'
        BY <1>0, <1>1, <1>3, <3>1
           DEF OpenFirst, OpenSecond, Accepted, Heard, Unneeded, OwnOffers, OneReply, Early,
               FirstOffers, SecondOffers, Arrival, Listening, At, Listens, flags, session,
               history, ChainFacts
      <3>3. OneReply(First)'
        BY <1>0, <1>1, <1>3, <3>1 DEF OneReply, Early, Listening, session
      <3>4. OneReply(Second)'
        BY <1>0, <1>1, <1>3, <3>1 DEF OneReply, Early, Listening, session
      <3>5. FirstOffer'
        BY <1>0, <1>1, <1>3, <3>1 DEF FirstOffer, Arrival, Listening, session
      <3> QED BY <3>2, <3>3, <3>4, <3>5 DEF Early
    <2>4. ASSUME superseded PROVE Replaced'
      <3>1. Replaced  BY <1>1, <2>4
      <3>2. LateFirst'
        BY <1>0, <1>1, <1>3, <3>1 DEF Replaced, LateFirst, Listening, Listens
      <3>3. TwoOffers'
        BY <1>0, <1>1, <1>3, <3>1 DEF Replaced, LateFirst, Listening, Listens
      <3>4. LateOffer'
        BY <1>0, <1>1, <1>3, <3>1 DEF Replaced, LateFirst, Listening, Listens
      <3>5. LateAccepted'
        BY <1>0, <1>1, <1>3, <3>1 DEF Replaced, LateFirst, Listening, Listens
      <3>6. LateStale'
        BY <1>0, <1>1, <1>3, <3>1 DEF Replaced, LateFirst, Listening, Listens
      <3>7. LateRoles'
        BY <1>0, <1>1, <1>3, <3>1 DEF Replaced, LateFirst, Listening, Listens
      <3> QED BY <3>2, <3>3, <3>4, <3>5, <3>6, <3>7 DEF Replaced
    <2> QED BY <2>1, <2>2, <2>3, <2>4
  <1> QED BY <1>2, <1>3

LEMMA CallsCall ==
    ASSUME TypeOK, PageInv, WaitInv, RolesInv, CallInv, NEW p \in Peers, Calls(p)
    PROVE  CallInv'
  <1> USE TwoPeers
  <1>0. /\ Arrival(First) /\ Progress(First) /\ Arrival(Second) /\ Progress(Second) /\ Greeting
        /\ WireFacts(wire[First]) /\ WireFacts(wire[Second])
        /\ ChainFacts(chain[First]) /\ ChainFacts(chain[Second])
        /\ Unheard /\ Unanswered /\ FirstWaits /\ First # Nobody /\ Second # Nobody
        /\ \A q \in Peers : /\ state[q] \in {"stable", "local", "remote"}
                           /\ offerer[q] \in {First, Second, Nobody}
    BY AllIs, NobodyAssumption DEF PageInv, WaitInv, TypeOK
  <1> SUFFICES ASSUME restarts' = 0
               PROVE  SecondMakes' /\ (~superseded' => Early') /\ (superseded' => Replaced')
    BY DEF CallInv
  <1>1. restarts = 0 /\ SecondMakes /\ (superseded => Replaced)
    BY DEF CallInv, Calls
  <1>2. CASE p = First
    <2>1. SecondMakes'
      BY <1>0, <1>1, <1>2 DEF SecondMakes, Calls
    <2>2. superseded' = superseded  BY DEF Calls, history
    <2>3. ASSUME ~superseded, ~superseded' PROVE Early'
      <3>1. /\ Early /\ FirstOffers /\ SecondOffers /\ Stale /\ Agreement /\ Closing
            /\ (Heard => ~Has(wire[First], Offer)) /\ ~Crossed(wire[First], Answer, Offer)
        BY <1>1, <2>3, EarlyRoles
      <3>2. OwnOffers'
        BY <1>0, <1>1, <1>2, <3>1
           DEF OpenFirst, Heard, Unneeded, OwnOffers, Early, Calls, At, Listens, flags, history
      <3>3. OneReply(First)'
        BY <1>0, <1>1, <1>2, <3>1 DEF OneReply, Early, Calls
      <3>4. OneReply(Second)'
        BY <1>0, <1>1, <1>2, <3>1 DEF OneReply, Early, Calls
      <3>5. FirstOffer'
        BY <1>0, <1>1, <1>2, <3>1 DEF OpenFirst, Coming, Taking, FirstOffer, Early, Calls, history
      <3> QED BY <3>2, <3>3, <3>4, <3>5 DEF Early
    <2>4. ASSUME superseded PROVE Replaced'
      <3>1. Replaced  BY <1>1, <2>4
      <3>2. LateFirst'
        BY <1>0, <1>1, <1>2, <3>1 DEF Replaced, LateFirst, Unneeded, Calls
      <3>3. TwoOffers'
        BY <1>0, <1>1, <1>2, <3>1 DEF Replaced, LateFirst, Unneeded, Calls
      <3>4. LateOffer'
        BY <1>0, <1>1, <1>2, <3>1 DEF Replaced, LateFirst, Unneeded, Calls
      <3>5. LateAccepted'
        BY <1>0, <1>1, <1>2, <3>1 DEF Replaced, LateFirst, Unneeded, Calls
      <3>6. LateStale'
        BY <1>0, <1>1, <1>2, <3>1 DEF Replaced, LateFirst, Unneeded, Calls
      <3>7. LateRoles'
        BY <1>0, <1>1, <1>2, <3>1 DEF Replaced, LateRoles, Returned, Calls
      <3> QED BY <3>2, <3>3, <3>4, <3>5, <3>6, <3>7 DEF Replaced
    <2> QED BY <2>1, <2>2, <2>3, <2>4
  <1>3. CASE p = Second
    <2>1. SecondMakes'
      BY <1>0, <1>1, <1>3 DEF SecondMakes, Calls
    <2>2. superseded' = superseded  BY DEF Calls, history
    <2>3. ASSUME ~superseded, ~superseded' PROVE Early'
      <3>1. /\ Early /\ FirstOffers /\ SecondOffers /\ Stale /\ Agreement /\ Closing
            /\ (Heard => ~Has(wire[First], Offer)) /\ ~Crossed(wire[First], Answer, Offer)
        BY <1>1, <2>3, EarlyRoles
      <3>2. OwnOffers'
        BY <1>0, <1>1, <1>3, <3>1
           DEF OpenFirst, Heard, Unneeded, OwnOffers, Early, Calls, At, Listens, flags, history
      <3>3. OneReply(First)'
        BY <1>0, <1>1, <1>3, <3>1 DEF OneReply, Early, Calls
      <3>4. OneReply(Second)'
        BY <1>0, <1>1, <1>3, <3>1 DEF OneReply, Early, Calls
      <3>5. FirstOffer'
        BY <1>0, <1>1, <1>3, <3>1 DEF OpenFirst, Coming, Taking, FirstOffer, Early, Calls, history
      <3> QED BY <3>2, <3>3, <3>4, <3>5 DEF Early
    <2>4. ASSUME superseded PROVE Replaced'
      <3>1. Replaced  BY <1>1, <2>4
      <3>2. LateFirst'
        BY <1>0, <1>1, <1>3, <3>1
           DEF Replaced, LateFirst, OneReply, Heard, Unneeded, Fresh, Calls, At, Listens, flags,
               history
      <3>3. TwoOffers'
        BY <1>0, <1>1, <1>3, <3>1
           DEF Replaced, TwoOffers, Coming, Taking, Replying, Back, Heard, Fresh, Calls
      <3>4. LateOffer'
        BY <1>0, <1>1, <1>3, <3>1
           DEF Replaced, LateOffer, Accepted, Coming, Taking, Replying, Back, Heard, Fresh, Late,
               Calls, history
      <3>5. LateAccepted'
        BY <1>0, <1>1, <1>3, <3>1
           DEF Replaced, LateAccepted, Accepted, Back, Heard, Returned, Late, Calls
      <3>6. LateStale'
        BY <1>0, <1>1, <1>3, <3>1 DEF Replaced, LateStale, Back, Heard, Fresh, Late, Calls
      <3>7. LateRoles'
        BY <1>0, <1>1, <1>3, <3>1 DEF Replaced, LateRoles, Returned, Calls
      <3> QED BY <3>2, <3>3, <3>4, <3>5, <3>6, <3>7 DEF Replaced
    <2> QED BY <2>1, <2>2, <2>3, <2>4
  <1> QED BY <1>2, <1>3

LEMMA NeedsCall ==
    ASSUME TypeOK, PageInv, WaitInv, RolesInv, CallInv, NEW p \in Peers, Needs(p)
    PROVE  CallInv'
  <1> USE TwoPeers
  <1>0. /\ Arrival(First) /\ Progress(First) /\ Arrival(Second) /\ Progress(Second) /\ Greeting
        /\ WireFacts(wire[First]) /\ WireFacts(wire[Second])
        /\ ChainFacts(chain[First]) /\ ChainFacts(chain[Second])
        /\ Unheard /\ Unanswered /\ FirstWaits /\ First # Nobody /\ Second # Nobody
        /\ \A q \in Peers : /\ state[q] \in {"stable", "local", "remote"}
                           /\ offerer[q] \in {First, Second, Nobody}
    BY AllIs, NobodyAssumption DEF PageInv, WaitInv, TypeOK
  <1> SUFFICES ASSUME restarts' = 0
               PROVE  SecondMakes' /\ (~superseded' => Early') /\ (superseded' => Replaced')
    BY DEF CallInv
  <1>1. restarts = 0 /\ SecondMakes /\ (superseded => Replaced)
    BY DEF CallInv, Needs, Makes
  <1>2. CASE p = First
    <2>1. SecondMakes'
      BY <1>0, <1>1, <1>2 DEF SecondMakes, Needs, Makes, Queue
    <2>2. superseded' = superseded  BY DEF Needs, Makes, history
    <2>3. ASSUME ~superseded, ~superseded' PROVE Early'
      <3>1. /\ Early /\ FirstOffers /\ SecondOffers /\ Stale /\ Agreement /\ Closing
            /\ (Heard => ~Has(wire[First], Offer)) /\ ~Crossed(wire[First], Answer, Offer)
        BY <1>1, <2>3, EarlyRoles
      <3>2. OwnOffers'
        BY <1>0, <1>1, <1>2, <3>1
           DEF OpenFirst, Heard, Unneeded, OwnOffers, Arrival, Progress, Needs, Makes, Queue,
               ChainPush, OperationKinds, At, WireFacts, ChainFacts
      <3>3. OneReply(First)'
        BY <1>0, <1>1, <1>2, <3>1
           DEF OneReply, Early, Needs, Makes, Queue, ChainPush, OperationKinds
      <3>4. OneReply(Second)'
        BY <1>0, <1>1, <1>2, <3>1 DEF OneReply, Early, Needs, Makes, Queue
      <3>5. FirstOffer'
        BY <1>0, <1>1, <1>2, <3>1 DEF OpenFirst, FirstOffer, Early, Progress, Needs, Makes
      <3> QED BY <3>2, <3>3, <3>4, <3>5 DEF Early
    <2>4. ASSUME superseded PROVE Replaced'
      <3>1. Replaced  BY <1>1, <2>4
      <3>2. LateFirst'
        BY <1>0, <1>1, <1>2, <3>1 DEF Replaced, LateFirst, Unneeded, Needs
      <3>3. TwoOffers'
        BY <1>0, <1>1, <1>2, <3>1 DEF Replaced, LateFirst, Unneeded, Needs
      <3>4. LateOffer'
        BY <1>0, <1>1, <1>2, <3>1 DEF Replaced, LateFirst, Unneeded, Needs
      <3>5. LateAccepted'
        BY <1>0, <1>1, <1>2, <3>1 DEF Replaced, LateFirst, Unneeded, Needs
      <3>6. LateStale'
        BY <1>0, <1>1, <1>2, <3>1 DEF Replaced, LateFirst, Unneeded, Needs
      <3>7. LateRoles'
        BY <1>0, <1>1, <1>2, <3>1 DEF Replaced, LateFirst, Unneeded, Needs
      <3> QED BY <3>2, <3>3, <3>4, <3>5, <3>6, <3>7 DEF Replaced
    <2> QED BY <2>1, <2>2, <2>3, <2>4
  <1>3. CASE p = Second
    <2>1. SecondMakes'
      BY <1>0, <1>1, <1>3 DEF SecondMakes, Progress, Needs, Makes, Queue, ChainPush
    <2>2. superseded' = superseded  BY DEF Needs, Makes, history
    <2>3. ASSUME ~superseded, ~superseded' PROVE Early'
      <3>1. /\ Early /\ FirstOffers /\ SecondOffers /\ Stale /\ Agreement /\ Closing
            /\ (Heard => ~Has(wire[First], Offer)) /\ ~Crossed(wire[First], Answer, Offer)
        BY <1>1, <2>3, EarlyRoles
      <3>2. OwnOffers'
        BY <1>0, <1>1, <1>3, <3>1
           DEF OpenFirst, Heard, Unneeded, OwnOffers, Early, Needs, Makes, Queue, At, Listens,
               history
      <3>3. OneReply(First)'
        BY <1>0, <1>1, <1>3, <3>1 DEF OneReply, Early, Needs, Makes, Queue
      <3>4. OneReply(Second)'
        BY <1>0, <1>1, <1>3, <3>1
           DEF OneReply, Early, Needs, Makes, Queue, ChainPush, OperationKinds
      <3>5. FirstOffer'
        BY <1>0, <1>1, <1>3, <3>1
           DEF OpenFirst, FirstOffer, Early, Progress, Needs, Makes, Queue, history
      <3> QED BY <3>2, <3>3, <3>4, <3>5 DEF Early
    <2>4. ASSUME superseded PROVE Replaced'
      <3>1. Replaced  BY <1>1, <2>4
      <3>2. LateFirst'
        BY <1>0, <1>1, <1>3, <3>1
           DEF Replaced, LateFirst, OneReply, Heard, Unneeded, Fresh, Needs, Makes, Queue, At,
               Listens, history
      <3>3. TwoOffers'
        BY <1>0, <1>1, <1>3, <3>1
           DEF Replaced, TwoOffers, Coming, Taking, Replying, Back, Heard, Fresh, Needs, Makes,
               Queue, ChainPush, OperationKinds
      <3>4. LateOffer'
        BY <1>0, <1>1, <1>3, <3>1
           DEF Replaced, LateOffer, Coming, Taking, Replying, Back, Heard, Fresh, Late, Needs,
               Makes, Queue, ChainPush, OperationKinds
      <3>5. LateAccepted'
        BY <1>0, <1>1, <1>3, <3>1
           DEF Replaced, LateAccepted, Accepted, Returned, Late, Needs, Makes, Queue, ChainPush,
               OperationKinds
      <3>6. LateStale'
        BY <1>0, <1>1, <1>3, <3>1 DEF Replaced, LateStale, Heard, Fresh, Late, Needs, Makes, Queue
      <3>7. LateRoles'
        BY <1>0, <1>1, <1>3, <3>1
           DEF Replaced, LateRoles, Returned, Needs, Makes, Queue, ChainPush, OperationKinds
      <3> QED BY <3>2, <3>3, <3>4, <3>5, <3>6, <3>7 DEF Replaced
    <2> QED BY <2>1, <2>2, <2>3, <2>4
  <1> QED BY <1>2, <1>3

LEMMA GreetedCall ==
    ASSUME TypeOK, PageInv, WaitInv, RolesInv, CallInv, NEW p \in Peers, Greeted(p)
    PROVE  CallInv'
  <1> USE TwoPeers
  <1>0. /\ Arrival(First) /\ Progress(First) /\ Arrival(Second) /\ Progress(Second) /\ Greeting
        /\ WireFacts(wire[First]) /\ WireFacts(wire[Second])
        /\ ChainFacts(chain[First]) /\ ChainFacts(chain[Second])
        /\ Unheard /\ Unanswered /\ FirstWaits /\ First # Nobody /\ Second # Nobody
        /\ \A q \in Peers : /\ state[q] \in {"stable", "local", "remote"}
                           /\ offerer[q] \in {First, Second, Nobody}
    BY AllIs, NobodyAssumption DEF PageInv, WaitInv, TypeOK
  <1> SUFFICES ASSUME restarts' = 0
               PROVE  SecondMakes' /\ (~superseded' => Early') /\ (superseded' => Replaced')
    BY DEF CallInv
  <1>1. restarts = 0 /\ SecondMakes /\ (superseded => Replaced)
    BY DEF CallInv, Greeted, Makes
  <1>2. CASE p = First
    <2>1. SecondMakes'
      BY <1>0, <1>1, <1>2 DEF SecondMakes, Greeted, Makes, Queue
    <2>2. superseded' = superseded  BY DEF Greeted, Makes, history
    <2>3. ASSUME ~superseded, ~superseded' PROVE Early'
      <3>1. /\ Early /\ FirstOffers /\ SecondOffers /\ Stale /\ Agreement /\ Closing
            /\ (Heard => ~Has(wire[First], Offer)) /\ ~Crossed(wire[First], Answer, Offer)
        BY <1>1, <2>3, EarlyRoles
      <3>2. OwnOffers'
        BY <1>0, <1>1, <1>2, <3>1
           DEF OpenFirst, Heard, Unneeded, OwnOffers, Early, Arrival, Greeting, Greeted, Makes,
               Queue, Got, ChainPush, OperationKinds, WirePop, At, Listens, flags, session,
               history
      <3>3. OneReply(First)'
        BY <1>0, <1>1, <1>2, <3>1
           DEF OneReply, Early, Greeted, Makes, Queue, ChainPush, OperationKinds
      <3>4. OneReply(Second)'
        BY <1>0, <1>1, <1>2, <3>1 DEF OneReply, Early, Greeted, Makes, Queue
      <3>5. FirstOffer'
        BY <1>0, <1>1, <1>2, <3>1
           DEF OpenFirst, Coming, Taking, FirstOffer, Early, Greeted, Makes, Queue, Got,
               ChainPush, OperationKinds, history
      <3> QED BY <3>2, <3>3, <3>4, <3>5 DEF Early
    <2>4. ASSUME superseded PROVE Replaced'
      <3>1. Replaced  BY <1>1, <2>4
      <3>2. LateFirst'
        BY <1>0, <1>1, <1>2, <3>1 DEF Replaced, LateFirst, Greeted, Got, WirePop, SignalKinds
      <3>3. TwoOffers'
        BY <1>0, <1>1, <1>2, <3>1
           DEF Replaced, LateFirst, Greeted, Queue, Got, ChainPush, OperationKinds, WirePop,
               SignalKinds
      <3>4. LateOffer'
        BY <1>0, <1>1, <1>2, <3>1 DEF Replaced, LateFirst, Greeted, Got, WirePop
      <3>5. LateAccepted'
        BY <1>0, <1>1, <1>2, <3>1 DEF Replaced, LateFirst, Greeted, Got, WirePop, SignalKinds
      <3>6. LateStale'
        BY <1>0, <1>1, <1>2, <3>1 DEF Replaced, LateFirst, Greeted, Got, WirePop
      <3>7. LateRoles'
        BY <1>0, <1>1, <1>2, <3>1 DEF Replaced, LateRoles, Returned, Greeted, Makes, Queue, Got
      <3> QED BY <3>2, <3>3, <3>4, <3>5, <3>6, <3>7 DEF Replaced
    <2> QED BY <2>1, <2>2, <2>3, <2>4
  <1>3. CASE p = Second
    <2>1. SecondMakes'
      BY <1>0, <1>1, <1>3 DEF Greeting, Greeted, Got, WirePop
    <2>2. superseded' = superseded  BY DEF Greeted, Makes, history
    <2>3. ASSUME ~superseded, ~superseded' PROVE Early'
      <3>1. /\ Early /\ FirstOffers /\ SecondOffers /\ Stale /\ Agreement /\ Closing
            /\ (Heard => ~Has(wire[First], Offer)) /\ ~Crossed(wire[First], Answer, Offer)
        BY <1>1, <2>3, EarlyRoles
      <3>2. OwnOffers'
        BY <1>0, <1>1, <1>3, <3>1
           DEF OpenFirst, Heard, Unneeded, OwnOffers, Early, Greeted, Makes, Queue, Got, At,
               Listens, history
      <3>3. OneReply(First)'
        BY <1>0, <1>1, <1>3, <3>1 DEF OneReply, Early, Greeted, Makes, Queue
      <3>4. OneReply(Second)'
        BY <1>0, <1>1, <1>3, <3>1
           DEF OneReply, Early, Greeted, Makes, Queue, ChainPush, OperationKinds
      <3>5. FirstOffer'
        BY <1>0, <1>1, <1>3, <3>1 DEF Greeting, Greeted, Got, WirePop
      <3> QED BY <3>2, <3>3, <3>4, <3>5 DEF Early
    <2>4. ASSUME superseded PROVE Replaced'
      <3>1. Replaced  BY <1>1, <2>4
      <3>2. LateFirst'
        BY <1>0, <1>1, <1>3, <3>1
           DEF Replaced, LateFirst, OneReply, Heard, Unneeded, Fresh, Greeted, Makes, Queue, Got,
               At, Listens, session, history
      <3>3. TwoOffers'
        BY <1>0, <1>1, <1>3, <3>1 DEF Greeting, Greeted, Got, WirePop
      <3>4. LateOffer'
        BY <1>0, <1>1, <1>3, <3>1 DEF Greeting, Greeted, Got, WirePop
      <3>5. LateAccepted'
        BY <1>0, <1>1, <1>3, <3>1 DEF Greeting, Greeted, Got, WirePop
      <3>6. LateStale'
        BY <1>0, <1>1, <1>3, <3>1
           DEF Replaced, LateStale, Back, Heard, Fresh, Late, Greeted, Makes, Queue, Got
      <3>7. LateRoles'
        BY <1>0, <1>1, <1>3, <3>1 DEF Greeting, Greeted, Got, WirePop
      <3> QED BY <3>2, <3>3, <3>4, <3>5, <3>6, <3>7 DEF Replaced
    <2> QED BY <2>1, <2>2, <2>3, <2>4
  <1> QED BY <1>2, <1>3

LEMMA IgnoresCall ==
    ASSUME TypeOK, PageInv, WaitInv, RolesInv, CallInv, NEW p \in Peers, Ignores(p)
    PROVE  CallInv'
  <1> USE TwoPeers
  <1>0. /\ Arrival(First) /\ Progress(First) /\ Arrival(Second) /\ Progress(Second) /\ Greeting
        /\ WireFacts(wire[First]) /\ WireFacts(wire[Second])
        /\ ChainFacts(chain[First]) /\ ChainFacts(chain[Second])
        /\ Unheard /\ Unanswered /\ FirstWaits /\ First # Nobody /\ Second # Nobody
        /\ \A q \in Peers : /\ state[q] \in {"stable", "local", "remote"}
                           /\ offerer[q] \in {First, Second, Nobody}
    BY AllIs, NobodyAssumption DEF PageInv, WaitInv, TypeOK
  <1> SUFFICES ASSUME restarts' = 0
               PROVE  SecondMakes' /\ (~superseded' => Early') /\ (superseded' => Replaced')
    BY DEF CallInv
  <1>1. restarts = 0 /\ SecondMakes /\ (superseded => Replaced)
    BY DEF CallInv, Ignores, Handles
  <1>2. CASE p = First
    <2>1. SecondMakes'
      BY <1>0, <1>1, <1>2 DEF SecondMakes, Ignores, Handles, session
    <2>2. superseded' = superseded  BY DEF Ignores, Handles, history
    <2>3. ASSUME ~superseded, ~superseded' PROVE Early'
      <3>1. /\ Early /\ FirstOffers /\ SecondOffers /\ Stale /\ Agreement /\ Closing
            /\ (Heard => ~Has(wire[First], Offer)) /\ ~Crossed(wire[First], Answer, Offer)
        BY <1>1, <2>3, EarlyRoles
      <3>2. OwnOffers'
        BY <1>0, <1>1, <1>2, <3>1
           DEF OpenFirst, Heard, Unneeded, OwnOffers, Early, Ignores, Handles, Got, WirePop,
               Listens, session, history
      <3>3. OneReply(First)'
        BY <1>0, <1>1, <1>2, <3>1 DEF OneReply, Early, Ignores, Handles, session
      <3>4. OneReply(Second)'
        BY <1>0, <1>1, <1>2, <3>1 DEF OneReply, Early, Ignores, Handles, session
      <3>5. FirstOffer'
        BY <1>0, <1>1, <1>2, <3>1
           DEF OpenFirst, Coming, Taking, FirstOffer, Early, Ignores, Handles, Got, session,
               history
      <3> QED BY <3>2, <3>3, <3>4, <3>5 DEF Early
    <2>4. ASSUME superseded PROVE Replaced'
      <3>1. Replaced  BY <1>1, <2>4
      <3>2. LateFirst'
        BY <1>0, <1>1, <1>2, <3>1
           DEF Replaced, LateFirst, OneReply, Heard, Unneeded, Ignores, Handles, Got, WirePop,
               Listens, session, history
      <3>3. TwoOffers'
        BY <1>0, <1>1, <1>2, <3>1
           DEF Replaced, TwoOffers, Coming, Taking, Replying, Back, Heard, Fresh, Ignores,
               Handles, Got, WirePop, session
      <3>4. LateOffer'
        BY <1>0, <1>1, <1>2, <3>1
           DEF Replaced, LateFirst, LateOffer, Accepted, Coming, Taking, Replying, Back, Heard,
               Fresh, Late, FirstWaits, Ignores, Handles, Got, WirePop, SignalKinds, session,
               history
      <3>5. LateAccepted'
        BY <1>0, <1>1, <1>2, <3>1
           DEF Replaced, LateAccepted, Accepted, Returned, Ignores, Handles, Got, WirePop, session
      <3>6. LateStale'
        BY <1>0, <1>1, <1>2, <3>1
           DEF Replaced, LateStale, Back, Heard, Fresh, Late, Ignores, Handles, Got, WirePop,
               session
      <3>7. LateRoles'
        BY <1>0, <1>1, <1>2, <3>1
           DEF Replaced, LateRoles, Returned, Ignores, Handles, Got, session
      <3> QED BY <3>2, <3>3, <3>4, <3>5, <3>6, <3>7 DEF Replaced
    <2> QED BY <2>1, <2>2, <2>3, <2>4
  <1>3. p # Second  BY DEF Ignores
  <1> QED BY <1>2, <1>3

LEMMA AcceptsCall ==
    ASSUME TypeOK, PageInv, WaitInv, RolesInv, CallInv, NEW p \in Peers, Accepts(p)
    PROVE  CallInv'
  <1> USE TwoPeers
  <1>0. /\ Arrival(First) /\ Progress(First) /\ Arrival(Second) /\ Progress(Second) /\ Greeting
        /\ WireFacts(wire[First]) /\ WireFacts(wire[Second])
        /\ ChainFacts(chain[First]) /\ ChainFacts(chain[Second])
        /\ Unheard /\ Unanswered /\ FirstWaits /\ First # Nobody /\ Second # Nobody
        /\ \A q \in Peers : /\ state[q] \in {"stable", "local", "remote"}
                           /\ offerer[q] \in {First, Second, Nobody}
    BY AllIs, NobodyAssumption DEF PageInv, WaitInv, TypeOK
  <1> SUFFICES ASSUME restarts' = 0
               PROVE  SecondMakes' /\ (~superseded' => Early') /\ (superseded' => Replaced')
    BY DEF CallInv
  <1>1. restarts = 0 /\ SecondMakes /\ (superseded => Replaced)
    BY DEF CallInv, Accepts, Handles
  <1>2. CASE p = First
    <2>1. SecondMakes'
      BY <1>0, <1>1, <1>2 DEF SecondMakes, Accepts, Handles, Queue, session
    <2>2. superseded' = superseded  BY DEF Accepts, Handles, history
    <2>3. ASSUME ~superseded, ~superseded' PROVE Early'
      <3>1. /\ Early /\ FirstOffers /\ SecondOffers /\ Stale /\ Agreement /\ Closing
            /\ (Heard => ~Has(wire[First], Offer)) /\ ~Crossed(wire[First], Answer, Offer)
        BY <1>1, <2>3, EarlyRoles
      <3>2. OwnOffers'
        BY <1>0, <1>1, <1>2, <3>1
           DEF OpenFirst, Heard, Unneeded, OwnOffers, Early, FirstOffers, Greeting, Accepts,
               Handles, Got, Queue, ChainPush, OperationKinds, WirePop, Listens, flags, session,
               history
      <3>3. OneReply(First)'
        BY <1>0, <1>1, <1>2, <3>1
           DEF OneReply, Early, Accepts, Handles, Queue, ChainPush, OperationKinds, session
      <3>4. OneReply(Second)'
        BY <1>0, <1>1, <1>2, <3>1 DEF OneReply, Early, Accepts, Handles, Queue, session
      <3>5. FirstOffer'
        BY <1>0, <1>1, <1>2, <3>1
           DEF OpenFirst, Coming, Taking, Heard, FirstOffer, Early, FirstOffers, Accepts, Handles,
               Got, Queue, WirePop, SignalKinds, session
      <3> QED BY <3>2, <3>3, <3>4, <3>5 DEF Early
    <2>4. ASSUME superseded PROVE Replaced'
      <3>1. Replaced  BY <1>1, <2>4
      <3>2. LateFirst'
        BY <1>0, <1>1, <1>2, <3>1
           DEF Replaced, LateFirst, OneReply, Unneeded, SecondMakes, Arrival, Progress, Greeting,
               Accepts, Handles, Got, Queue, ChainPush, OperationKinds, WirePop, SignalKinds, At,
               Listens, session, history
      <3>3. TwoOffers'
        BY <1>0, <1>1, <1>2, <3>1
           DEF Replaced, TwoOffers, LateAccepted, LateStale, OpenFirst, Coming, Taking, Replying,
               Back, Heard, Fresh, Late, SecondMakes, Arrival, Progress, Greeting, Accepts,
               Handles, Got, Queue, ChainPush, OperationKinds, WirePop, SignalKinds, At, Listens,
               flags, session, history
      <3>4. LateOffer'
        BY <1>0, <1>1, <1>2, <3>1
           DEF Replaced, LateOffer, Accepted, Coming, Taking, Replying, Back, Heard, Fresh, Late,
               SecondMakes, Progress, Greeting, Accepts, Handles, Got, Queue, ChainPush,
               OperationKinds, WirePop, SignalKinds, At, Listens, flags, session, history
      <3>5. LateAccepted'
        BY <1>0, <1>1, <1>2, <3>1
           DEF Replaced, LateFirst, TwoOffers, LateOffer, LateAccepted, LateStale, LateRoles,
               OneReply, OpenFirst, OpenSecond, Accepted, Back, Heard, Returned, Unneeded, Fresh,
               Late, SecondMakes, Arrival, Progress, Greeting, Accepts, Handles, Got, Queue,
               ChainPush, OperationKinds, WirePop, SignalKinds, At, Listens, flags, session,
               history, WireFacts, ChainFacts
      <3>6. LateStale'
        BY <1>0, <1>1, <1>2, <3>1
           DEF Replaced, LateFirst, TwoOffers, LateOffer, LateAccepted, LateStale, LateRoles,
               OneReply, OpenFirst, OpenSecond, Accepted, Back, Heard, Returned, Unneeded, Fresh,
               Late, SecondMakes, Arrival, Progress, Greeting, Accepts, Handles, Got, Queue,
               ChainPush, OperationKinds, WirePop, SignalKinds, At, Listens, flags, session,
               history, WireFacts, ChainFacts
      <3>7. LateRoles'
        BY <1>0, <1>1, <1>2, <3>1
           DEF Replaced, LateFirst, TwoOffers, LateOffer, LateAccepted, LateStale, LateRoles,
               OneReply, OpenFirst, OpenSecond, Accepted, Coming, Returned, Fresh, Late,
               SecondMakes, Arrival, Progress, Greeting, Accepts, Handles, Got, Queue, ChainPush,
               OperationKinds, WirePop, SignalKinds, At, Listens, flags, session, history,
               WireFacts, ChainFacts
      <3> QED BY <3>2, <3>3, <3>4, <3>5, <3>6, <3>7 DEF Replaced
    <2> QED BY <2>1, <2>2, <2>3, <2>4
  <1>3. CASE p = Second
    <2>1. SecondMakes'
      BY <1>0, <1>1, <1>3
         DEF SecondMakes, Accepts, Handles, Queue, ChainPush, OperationKinds, session
    <2>2. superseded' = superseded  BY DEF Accepts, Handles, history
    <2>3. ASSUME ~superseded, ~superseded' PROVE Early'
      <3>1. /\ Early /\ FirstOffers /\ SecondOffers /\ Stale /\ Agreement /\ Closing
            /\ (Heard => ~Has(wire[First], Offer)) /\ ~Crossed(wire[First], Answer, Offer)
        BY <1>1, <2>3, EarlyRoles
      <3>2. OwnOffers'
        BY <1>0, <1>1, <1>3, <3>1
           DEF OpenFirst, Heard, Unneeded, OwnOffers, Early, Accepts, Handles, Got, Queue,
               Listens, session, history
      <3>3. OneReply(First)'
        BY <1>0, <1>1, <1>3, <3>1 DEF OneReply, Early, Accepts, Handles, Queue, session
      <3>4. OneReply(Second)'
        BY <1>0, <1>1, <1>3, <3>1
           DEF OneReply, Early, Accepts, Handles, Queue, ChainPush, OperationKinds, session
      <3>5. FirstOffer'
        BY <1>0, <1>1, <1>3, <3>1
           DEF OpenFirst, Coming, FirstOffer, Early, Accepts, Handles, Got, Queue, WirePop,
               SignalKinds, session, history
      <3> QED BY <3>2, <3>3, <3>4, <3>5 DEF Early
    <2>4. ASSUME superseded PROVE Replaced'
      <3>1. Replaced  BY <1>1, <2>4
      <3>2. LateFirst'
        BY <1>0, <1>1, <1>3, <3>1
           DEF Replaced, LateFirst, TwoOffers, LateOffer, LateAccepted, LateStale, LateRoles,
               OneReply, OpenFirst, OpenSecond, Accepted, Coming, Taking, Back, Heard, Returned,
               Unneeded, Fresh, Late, SecondMakes, Arrival, Progress, Greeting, Accepts, Handles,
               Got, Queue, ChainPush, OperationKinds, WirePop, SignalKinds, At, Listens, flags,
               session, history, WireFacts, ChainFacts
      <3>3. TwoOffers'
        BY <1>0, <1>1, <1>3, <3>1
           DEF Replaced, LateFirst, TwoOffers, LateOffer, LateAccepted, LateStale, LateRoles,
               OneReply, OpenFirst, OpenSecond, Accepted, Coming, Taking, Replying, Back, Heard,
               Returned, Unneeded, Fresh, Late, SecondMakes, Arrival, Progress, Greeting, Accepts,
               Handles, Got, Queue, ChainPush, OperationKinds, WirePop, SignalKinds, At, Listens,
               flags, session, history, WireFacts, ChainFacts
      <3>4. LateOffer'
        BY <1>0, <1>1, <1>3, <3>1
           DEF Replaced, LateFirst, TwoOffers, LateOffer, LateAccepted, LateStale, LateRoles,
               OneReply, OpenFirst, OpenSecond, Accepted, Coming, Taking, Replying, Late,
               SecondMakes, Arrival, Progress, Greeting, Accepts, Handles, Got, Queue, ChainPush,
               OperationKinds, WirePop, SignalKinds, At, Listens, flags, session, history
      <3>5. LateAccepted'
        BY <1>0, <1>1, <1>3, <3>1
           DEF Replaced, LateFirst, TwoOffers, LateOffer, LateAccepted, LateStale, LateRoles,
               OneReply, OpenFirst, OpenSecond, Accepted, Coming, Taking, Replying, Returned,
               Unneeded, Fresh, Late, SecondMakes, Arrival, Progress, Greeting, Accepts, Handles,
               Got, Queue, ChainPush, OperationKinds, WirePop, SignalKinds, At, Listens, flags,
               session, history, WireFacts, ChainFacts
      <3>6. LateStale'
        BY <1>0, <1>1, <1>3, <3>1
           DEF Replaced, LateFirst, TwoOffers, LateOffer, LateAccepted, LateStale, LateRoles,
               OneReply, OpenFirst, OpenSecond, Accepted, Coming, Taking, Replying, Back, Heard,
               Returned, Unneeded, Fresh, Late, SecondMakes, Arrival, Progress, Greeting, Accepts,
               Handles, Got, Queue, ChainPush, OperationKinds, WirePop, SignalKinds, At, Listens,
               flags, session, history, WireFacts, ChainFacts
      <3>7. LateRoles'
        BY <1>0, <1>1, <1>3, <3>1
           DEF Replaced, LateFirst, TwoOffers, LateOffer, LateAccepted, LateStale, LateRoles,
               OneReply, OpenFirst, OpenSecond, Accepted, Replying, Returned, Unneeded, Fresh,
               Late, SecondMakes, Greeting, Accepts, Handles, Got, Queue, ChainPush,
               OperationKinds, WirePop, SignalKinds, At, Listens, flags, session, history,
               WireFacts, ChainFacts
      <3> QED BY <3>2, <3>3, <3>4, <3>5, <3>6, <3>7 DEF Replaced
    <2> QED BY <2>1, <2>2, <2>3, <2>4
  <1> QED BY <1>2, <1>3

LEMMA AnsweredCall ==
    ASSUME TypeOK, PageInv, WaitInv, RolesInv, CallInv, NEW p \in Peers, Answered(p)
    PROVE  CallInv'
  <1> USE TwoPeers
  <1>0. /\ Arrival(First) /\ Progress(First) /\ Arrival(Second) /\ Progress(Second) /\ Greeting
        /\ WireFacts(wire[First]) /\ WireFacts(wire[Second])
        /\ ChainFacts(chain[First]) /\ ChainFacts(chain[Second])
        /\ Unheard /\ Unanswered /\ FirstWaits /\ First # Nobody /\ Second # Nobody
        /\ \A q \in Peers : /\ state[q] \in {"stable", "local", "remote"}
                           /\ offerer[q] \in {First, Second, Nobody}
    BY AllIs, NobodyAssumption DEF PageInv, WaitInv, TypeOK
  <1> SUFFICES ASSUME restarts' = 0
               PROVE  SecondMakes' /\ (~superseded' => Early') /\ (superseded' => Replaced')
    BY DEF CallInv
  <1>1. restarts = 0 /\ SecondMakes /\ (superseded => Replaced)
    BY DEF CallInv, Answered, Handles
  <1>2. CASE p = First
    <2>1. SecondMakes'
      BY <1>0, <1>1, <1>2 DEF SecondMakes, Answered, Handles, Queue, session
    <2>2. superseded' = superseded  BY DEF Answered, Handles, history
    <2>3. ASSUME ~superseded, ~superseded' PROVE Early'
      <3>1. /\ Early /\ FirstOffers /\ SecondOffers /\ Stale /\ Agreement /\ Closing
            /\ (Heard => ~Has(wire[First], Offer)) /\ ~Crossed(wire[First], Answer, Offer)
        BY <1>1, <2>3, EarlyRoles
      <3>2. OwnOffers'
        BY <1>0, <1>1, <1>2, <3>1
           DEF OpenFirst, Unneeded, OwnOffers, Early, Greeting, Answered, Handles, Got, Queue,
               ChainPush, OperationKinds, WirePop, Listens, session, history
      <3>3. OneReply(First)'
        BY <1>0, <1>1, <1>2, <3>1
           DEF OneReply, Early, Answered, Handles, Queue, ChainPush, OperationKinds, session
      <3>4. OneReply(Second)'
        BY <1>0, <1>1, <1>2, <3>1 DEF OneReply, Early, Answered, Handles, Queue, session
      <3>5. FirstOffer'
        BY <1>0, <1>1, <1>2, <3>1
           DEF OpenFirst, Coming, Taking, FirstOffer, Early, Answered, Handles, Got, Queue,
               ChainPush, OperationKinds, session, history
      <3> QED BY <3>2, <3>3, <3>4, <3>5 DEF Early
    <2>4. ASSUME superseded PROVE Replaced'
      <3>1. Replaced  BY <1>1, <2>4
      <3>2. LateFirst'
        BY <1>0, <1>1, <1>2, <3>1
           DEF Replaced, LateFirst, TwoOffers, LateOffer, LateAccepted, LateStale, LateRoles,
               OneReply, OpenFirst, OpenSecond, Back, Heard, Unneeded, Fresh, Late, SecondMakes,
               Arrival, Progress, Greeting, Answered, Handles, Got, Queue, ChainPush,
               OperationKinds, WirePop, SignalKinds, At, Listens, flags, session, history,
               WireFacts, ChainFacts
      <3>3. TwoOffers'
        BY <1>0, <1>1, <1>2, <3>1
           DEF Replaced, TwoOffers, Coming, Taking, Replying, Back, Answered, Handles, Got, Queue,
               WirePop, SignalKinds, session
      <3>4. LateOffer'
        BY <1>0, <1>1, <1>2, <3>1
           DEF Replaced, LateOffer, Accepted, Coming, Taking, Replying, Back, Heard, Fresh, Late,
               SecondMakes, Arrival, Progress, Greeting, Answered, Handles, Got, Queue, ChainPush,
               OperationKinds, WirePop, SignalKinds, At, Listens, flags, session, history
      <3>5. LateAccepted'
        BY <1>0, <1>1, <1>2, <3>1
           DEF Replaced, TwoOffers, LateAccepted, Accepted, Back, Returned, SecondMakes, Arrival,
               Progress, Greeting, Answered, Handles, Got, Queue, ChainPush, OperationKinds,
               WirePop, SignalKinds, session, history
      <3>6. LateStale'
        BY <1>0, <1>1, <1>2, <3>1
           DEF Replaced, LateFirst, LateOffer, LateAccepted, LateStale, LateRoles, Back, Late,
               SecondMakes, Arrival, Progress, Greeting, Answered, Handles, Got, Queue, ChainPush,
               OperationKinds, WirePop, SignalKinds, At, Listens, flags, session, history,
               WireFacts, ChainFacts
      <3>7. LateRoles'
        BY <1>0, <1>1, <1>2, <3>1
           DEF Replaced, LateFirst, LateOffer, LateAccepted, LateStale, LateRoles, OneReply,
               Accepted, Replying, Back, Returned, Unneeded, Fresh, Late, SecondMakes, Arrival,
               Progress, Greeting, Answered, Handles, Got, Queue, ChainPush, OperationKinds,
               WirePop, SignalKinds, At, Listens, flags, session, history, WireFacts, ChainFacts
      <3> QED BY <3>2, <3>3, <3>4, <3>5, <3>6, <3>7 DEF Replaced
    <2> QED BY <2>1, <2>2, <2>3, <2>4
  <1>3. CASE p = Second
    <2>1. SecondMakes'
      BY <1>0, <1>1, <1>3
         DEF SecondMakes, Answered, Handles, Queue, ChainPush, OperationKinds, session
    <2>2. superseded' = superseded  BY DEF Answered, Handles, history
    <2>3. ASSUME ~superseded, ~superseded' PROVE Early'
      <3>1. /\ Early /\ FirstOffers /\ SecondOffers /\ Stale /\ Agreement /\ Closing
            /\ (Heard => ~Has(wire[First], Offer)) /\ ~Crossed(wire[First], Answer, Offer)
        BY <1>1, <2>3, EarlyRoles
      <3>2. OwnOffers'
        BY <1>0, <1>1, <1>3, <3>1
           DEF OpenFirst, Heard, Unneeded, OwnOffers, Early, Answered, Handles, Got, Queue,
               Listens, session, history
      <3>3. OneReply(First)'
        BY <1>0, <1>1, <1>3, <3>1 DEF OneReply, Early, Answered, Handles, Queue, session
      <3>4. OneReply(Second)'
        BY <1>0, <1>1, <1>3, <3>1
           DEF OneReply, Early, Answered, Handles, Queue, ChainPush, OperationKinds, session
      <3>5. FirstOffer'
        BY <1>0, <1>1, <1>3, <3>1
           DEF OpenFirst, OpenSecond, Accepted, FirstOffer, Early, SecondOffers, Progress,
               Answered, Handles, Got, WirePop, session
      <3> QED BY <3>2, <3>3, <3>4, <3>5 DEF Early
    <2>4. ASSUME superseded PROVE Replaced'
      <3>1. Replaced  BY <1>1, <2>4
      <3>2. LateFirst'
        BY <1>0, <1>1, <1>3, <3>1
           DEF Replaced, LateFirst, OneReply, Heard, Unneeded, Fresh, Arrival, Answered, Handles,
               Got, Queue, WirePop, SignalKinds, At, Listens, session, history
      <3>3. TwoOffers'
        BY <1>0, <1>1, <1>3, <3>1
           DEF Replaced, TwoOffers, LateAccepted, Coming, Taking, Replying, Fresh, SecondMakes,
               Progress, Greeting, Answered, Handles, Got, Queue, ChainPush, OperationKinds,
               WirePop, SignalKinds, At, Listens, flags, session, history
      <3>4. LateOffer'
        BY <1>0, <1>1, <1>3, <3>1
           DEF Replaced, LateOffer, Accepted, Coming, Taking, Replying, Back, Heard, Fresh, Late,
               SecondMakes, Arrival, Progress, Greeting, Answered, Handles, Got, Queue, ChainPush,
               OperationKinds, WirePop, SignalKinds, At, Listens, flags, session, history
      <3>5. LateAccepted'
        BY <1>0, <1>1, <1>3, <3>1
           DEF Replaced, LateAccepted, Accepted, Back, Heard, Returned, Late, SecondMakes,
               Arrival, Progress, Greeting, Answered, Handles, Got, Queue, ChainPush,
               OperationKinds, WirePop, SignalKinds, session, history
      <3>6. LateStale'
        BY <1>0, <1>1, <1>3, <3>1
           DEF Replaced, LateStale, Back, Heard, Fresh, Late, Answered, Handles, Got, Queue,
               ChainPush, session
      <3>7. LateRoles'
        BY <1>0, <1>1, <1>3, <3>1
           DEF Replaced, LateRoles, Returned, Answered, Handles, Got, Queue, ChainPush, WirePop,
               SignalKinds, session
      <3> QED BY <3>2, <3>3, <3>4, <3>5, <3>6, <3>7 DEF Replaced
    <2> QED BY <2>1, <2>2, <2>3, <2>4
  <1> QED BY <1>2, <1>3

LEMMA RepliesCall ==
    ASSUME TypeOK, PageInv, WaitInv, RolesInv, CallInv, NEW p \in Peers, Replies(p)
    PROVE  CallInv'
  <1> USE TwoPeers
  <1>0. /\ Arrival(First) /\ Progress(First) /\ Arrival(Second) /\ Progress(Second) /\ Greeting
        /\ WireFacts(wire[First]) /\ WireFacts(wire[Second])
        /\ ChainFacts(chain[First]) /\ ChainFacts(chain[Second])
        /\ Unheard /\ Unanswered /\ FirstWaits /\ First # Nobody /\ Second # Nobody
        /\ \A q \in Peers : /\ state[q] \in {"stable", "local", "remote"}
                           /\ offerer[q] \in {First, Second, Nobody}
    BY AllIs, NobodyAssumption DEF PageInv, WaitInv, TypeOK
  <1> SUFFICES ASSUME restarts' = 0
               PROVE  SecondMakes' /\ (~superseded' => Early') /\ (superseded' => Replaced')
    BY DEF CallInv
  <1>1. restarts = 0 /\ SecondMakes /\ (superseded => Replaced)
    BY DEF CallInv, Replies, SetsLocal
  <1>2. CASE p = First
    <2>1. SecondMakes'
      BY <1>0, <1>1, <1>2 DEF SecondMakes, Replies, SetsLocal, Done, At
    <2>2. superseded' = superseded  BY DEF Replies, history
    <2>3. ASSUME ~superseded, ~superseded' PROVE Early'
      <3>1. /\ Early /\ FirstOffers /\ SecondOffers /\ Stale /\ Agreement /\ Closing
            /\ (Heard => ~Has(wire[First], Offer)) /\ ~Crossed(wire[First], Answer, Offer)
        BY <1>1, <2>3, EarlyRoles
      <3>2. OwnOffers'
        BY <1>0, <1>1, <1>2, <3>1
           DEF OpenFirst, Unneeded, OwnOffers, Early, Progress, Replies, SetsLocal, Done, Posted,
               ChainPop, WirePush, SignalKinds, At, Listens
      <3>3. OneReply(First)'
        BY <1>0, <1>1, <1>2, <3>1
           DEF OpenFirst, OwnOffers, OneReply, FirstOffer, Early, SecondMakes, Arrival, Progress,
               Greeting, Replies, SetsLocal, Done, Posted, ChainPop, OperationKinds, WirePush,
               SignalKinds, WireFacts, ChainFacts
      <3>4. OneReply(Second)'
        BY <1>0, <1>1, <1>2, <3>1 DEF OneReply, Early, Replies, SetsLocal, Done, At
      <3>5. FirstOffer'
        BY <1>0, <1>1, <1>2, <3>1
           DEF OpenFirst, OpenSecond, Accepted, FirstOffer, Early, SecondOffers, Replies,
               SetsLocal, At
      <3> QED BY <3>2, <3>3, <3>4, <3>5 DEF Early
    <2>4. ASSUME superseded PROVE Replaced'
      <3>1. Replaced  BY <1>1, <2>4
      <3>2. LateFirst'
        BY <1>0, <1>1, <1>2, <3>1
           DEF Replaced, LateFirst, OneReply, Unneeded, Fresh, SecondMakes, Greeting, Replies,
               SetsLocal, Done, Posted, ChainPop, OperationKinds, WirePush, SignalKinds, At,
               Listens, history
      <3>3. TwoOffers'
        BY <1>0, <1>1, <1>2, <3>1
           DEF Replaced, TwoOffers, LateAccepted, Accepted, Coming, Taking, Replying, Fresh,
               SecondMakes, Arrival, Progress, Greeting, Replies, SetsLocal, Done, Posted,
               ChainPop, OperationKinds, WirePush, SignalKinds, At, Listens, flags, session,
               history
      <3>4. LateOffer'
        BY <1>0, <1>1, <1>2, <3>1
           DEF Replaced, LateFirst, LateOffer, Accepted, Coming, Taking, Replying, Back, Heard,
               Fresh, Late, SecondMakes, Greeting, Replies, SetsLocal, Done, Posted, ChainPop,
               OperationKinds, WirePush, SignalKinds, At, Listens, flags, session, history
      <3>5. LateAccepted'
        BY <1>0, <1>1, <1>2, <3>1
           DEF Replaced, LateFirst, TwoOffers, LateOffer, LateAccepted, LateStale, LateRoles,
               OneReply, OpenFirst, OpenSecond, Accepted, Coming, Taking, Replying, Back, Heard,
               Returned, Unneeded, Fresh, Late, SecondMakes, Arrival, Progress, Greeting, Replies,
               SetsLocal, Done, Posted, ChainPop, OperationKinds, WirePush, SignalKinds, At,
               Listens, flags, session, history, WireFacts, ChainFacts
      <3>6. LateStale'
        BY <1>0, <1>1, <1>2, <3>1
           DEF Replaced, LateStale, Back, Heard, Fresh, Late, SecondMakes, Greeting, Replies,
               SetsLocal, Done, Posted, ChainPop, OperationKinds, WirePush, SignalKinds, At
      <3>7. LateRoles'
        BY <1>0, <1>1, <1>2, <3>1
           DEF Replaced, LateFirst, LateRoles, Returned, Replies, Done, Posted, WirePush,
               SignalKinds, At
      <3> QED BY <3>2, <3>3, <3>4, <3>5, <3>6, <3>7 DEF Replaced
    <2> QED BY <2>1, <2>2, <2>3, <2>4
  <1>3. CASE p = Second
    <2>1. SecondMakes'
      BY <1>0, <1>1, <1>3 DEF SecondMakes, Replies, SetsLocal, Done, ChainPop
    <2>2. superseded' = superseded  BY DEF Replies, history
    <2>3. ASSUME ~superseded, ~superseded' PROVE Early'
      <3>1. /\ Early /\ FirstOffers /\ SecondOffers /\ Stale /\ Agreement /\ Closing
            /\ (Heard => ~Has(wire[First], Offer)) /\ ~Crossed(wire[First], Answer, Offer)
        BY <1>1, <2>3, EarlyRoles
      <3>2. OwnOffers'
        BY <1>0, <1>1, <1>3, <3>1
           DEF OpenFirst, Heard, Unneeded, OwnOffers, Early, Replies, SetsLocal, Done, Posted,
               WirePush, SignalKinds, At, Listens, history
      <3>3. OneReply(First)'
        BY <1>0, <1>1, <1>3, <3>1 DEF OneReply, Early, Replies, SetsLocal, Done, At
      <3>4. OneReply(Second)'
        BY <1>0, <1>1, <1>3, <3>1
           DEF OneReply, Early, SecondMakes, Replies, SetsLocal, Done, ChainPop, OperationKinds
      <3>5. FirstOffer'
        BY <1>0, <1>1, <1>3, <3>1
           DEF OpenFirst, Coming, Taking, FirstOffer, Early, Replies, SetsLocal, Done, Posted,
               ChainPop, At, history
      <3> QED BY <3>2, <3>3, <3>4, <3>5 DEF Early
    <2>4. ASSUME superseded PROVE Replaced'
      <3>1. Replaced  BY <1>1, <2>4
      <3>2. LateFirst'
        BY <1>0, <1>1, <1>3, <3>1
           DEF Replaced, LateFirst, OneReply, Heard, Unneeded, Fresh, SecondMakes, Arrival,
               Progress, Greeting, Replies, SetsLocal, Done, Posted, ChainPop, OperationKinds,
               WirePush, SignalKinds, At, Listens, flags, session, history
      <3>3. TwoOffers'
        BY SMTT(40), <1>0, <1>1, <1>3, <3>1
           DEF Replaced, LateFirst, TwoOffers, LateOffer, LateAccepted, LateStale, LateRoles,
               OneReply, OpenFirst, OpenSecond, Accepted, Coming, Taking, Replying, Back, Heard,
               Returned, Unneeded, Fresh, Late, SecondMakes, Arrival, Progress, Greeting, Replies,
               SetsLocal, Done, Posted, ChainPop, OperationKinds, WirePush, SignalKinds, At,
               Listens, flags, session, history, WireFacts, ChainFacts
      <3>4. LateOffer'
        BY SMTT(40), <1>0, <1>1, <1>3, <3>1
           DEF Replaced, LateFirst, TwoOffers, LateOffer, LateAccepted, LateStale, LateRoles,
               OneReply, OpenFirst, OpenSecond, Accepted, Coming, Taking, Replying, Back, Heard,
               Returned, Unneeded, Fresh, Late, SecondMakes, Arrival, Progress, Greeting, Replies,
               SetsLocal, Done, Posted, ChainPop, OperationKinds, WirePush, SignalKinds, At,
               Listens, flags, session, history, WireFacts, ChainFacts
      <3>5. LateAccepted'
        BY <1>0, <1>1, <1>3, <3>1
           DEF Replaced, TwoOffers, LateOffer, LateAccepted, LateStale, Accepted, Returned, Late,
               SecondMakes, Arrival, Progress, Greeting, Replies, SetsLocal, Done, Posted,
               ChainPop, OperationKinds, WirePush, SignalKinds, At, Listens, flags, session,
               history
      <3>6. LateStale'
        BY <1>0, <1>1, <1>3, <3>1
           DEF Replaced, LateFirst, LateStale, Heard, Fresh, Late, SecondMakes, Arrival, Greeting,
               Replies, SetsLocal, Done, Posted, WirePush, SignalKinds, Listens, flags, session,
               history
      <3>7. LateRoles'
        BY <1>0, <1>1, <1>3, <3>1
           DEF Replaced, TwoOffers, LateOffer, LateAccepted, LateRoles, Returned, SecondMakes,
               Arrival, Progress, Greeting, Replies, SetsLocal, Done, Posted, ChainPop,
               OperationKinds, WirePush, SignalKinds, At
      <3> QED BY <3>2, <3>3, <3>4, <3>5, <3>6, <3>7 DEF Replaced
    <2> QED BY <2>1, <2>2, <2>3, <2>4
  <1> QED BY <1>2, <1>3

LEMMA ProposesCall ==
    ASSUME TypeOK, PageInv, WaitInv, RolesInv, CallInv, NEW p \in Peers, Proposes(p)
    PROVE  CallInv'
  <1> USE TwoPeers
  <1>0. /\ Arrival(First) /\ Progress(First) /\ Arrival(Second) /\ Progress(Second) /\ Greeting
        /\ WireFacts(wire[First]) /\ WireFacts(wire[Second])
        /\ ChainFacts(chain[First]) /\ ChainFacts(chain[Second])
        /\ Unheard /\ Unanswered /\ FirstWaits /\ First # Nobody /\ Second # Nobody
        /\ \A q \in Peers : /\ state[q] \in {"stable", "local", "remote"}
                           /\ offerer[q] \in {First, Second, Nobody}
    BY AllIs, NobodyAssumption DEF PageInv, WaitInv, TypeOK
  <1> SUFFICES ASSUME restarts' = 0
               PROVE  SecondMakes' /\ (~superseded' => Early') /\ (superseded' => Replaced')
    BY DEF CallInv
  <1>1. restarts = 0 /\ SecondMakes /\ (superseded => Replaced)
    BY DEF CallInv, Proposes, SetsLocal
  <1>2. CASE p = First
    <2>1. SecondMakes'
      BY <1>0, <1>1, <1>2 DEF SecondMakes, Proposes, SetsLocal, Done, At
    <2>3. ASSUME ~superseded, ~superseded' PROVE Early'
      <3>1. /\ Early /\ FirstOffers /\ SecondOffers /\ Stale /\ Agreement /\ Closing
            /\ (Heard => ~Has(wire[First], Offer)) /\ ~Crossed(wire[First], Answer, Offer)
        BY <1>1, <2>3, EarlyRoles
      <3>2. OwnOffers'
        BY <1>0, <1>1, <1>2, <3>1
           DEF Heard, Unneeded, OwnOffers, OneReply, Early, Proposes, SetsLocal, Done, Posted,
               ChainPop, OperationKinds, At
      <3>3. OneReply(First)'
        BY <1>0, <1>1, <1>2, <3>1 DEF OneReply, Early, Proposes, SetsLocal, Done, ChainPop
      <3>4. OneReply(Second)'
        BY <1>0, <1>1, <1>2, <3>1 DEF OneReply, Early, Proposes, SetsLocal, Done, At
      <3>6. ~remote[First] /\ ~remote[Second] /\ ~Has(chain[First], OpOffer)
        BY <1>0, <1>2, <2>3, <3>1
           DEF OpenFirst, OwnOffers, OneReply, FirstOffer, Early, Proposes, SetsLocal, Done,
               ChainPop, OperationKinds
      <3>5. FirstOffer'
        BY <1>0, <1>2, <3>1, <3>6 DEF FirstOffer, Early, Proposes, SetsLocal, Done, ChainPop, At
      <3> QED BY <3>2, <3>3, <3>4, <3>5 DEF Early
    <2>4. ASSUME superseded PROVE Replaced'
      <3>1. Replaced  BY <1>1, <2>4
      <3>2. LateFirst'
        BY <1>0, <1>1, <1>2, <3>1
           DEF Replaced, LateFirst, OneReply, SecondMakes, Unanswered, Arrival, Progress,
               Greeting, Proposes, SetsLocal, Done, ChainPop, OperationKinds
      <3>3. TwoOffers'
        BY <1>0, <1>1, <1>2, <3>1
           DEF Replaced, LateFirst, OneReply, SecondMakes, Unanswered, Greeting, Proposes,
               SetsLocal, Done, Posted, ChainPop, OperationKinds
      <3>4. LateOffer'
        BY <1>0, <1>1, <1>2, <3>1
           DEF Replaced, LateFirst, OneReply, Arrival, Progress, Proposes, SetsLocal, Done,
               ChainPop, OperationKinds
      <3>5. LateAccepted'
        BY <1>0, <1>1, <1>2, <3>1
           DEF Replaced, LateFirst, TwoOffers, OneReply, SecondMakes, Unanswered, Arrival,
               Progress, Greeting, Proposes, SetsLocal, Done, Posted, ChainPop, OperationKinds,
               WirePush, SignalKinds
      <3>6. LateStale'
        BY <1>0, <1>1, <1>2, <3>1
           DEF Replaced, LateFirst, OneReply, SecondMakes, Unanswered, Arrival, Progress,
               Greeting, Proposes, SetsLocal, Done, ChainPop, OperationKinds
      <3>7. LateRoles'
        BY <1>0, <1>1, <1>2, <3>1
           DEF Replaced, LateFirst, OneReply, Arrival, Proposes, SetsLocal, Done, ChainPop,
               OperationKinds
      <3> QED BY <3>2, <3>3, <3>4, <3>5, <3>6, <3>7 DEF Replaced
    <2>2. superseded => superseded'  BY DEF Proposes
    <2>5. ASSUME ~superseded, superseded' PROVE Replaced'
      <3>1. /\ Early /\ FirstOffers /\ SecondOffers /\ Stale /\ Agreement /\ Closing
            /\ (Heard => ~Has(wire[First], Offer)) /\ ~Crossed(wire[First], Answer, Offer)
            /\ OpenFirst
        BY <1>1, <1>2, <2>5, EarlyRoles DEF Proposes, OpenFirst
      <3>2. LateFirst'
        BY <1>0, <1>1, <1>2, <3>1
           DEF LateFirst, OpenFirst, OpenSecond, Accepted, Heard, Unneeded, Fresh, Late,
               OwnOffers, OneReply, FirstOffer, Early, FirstOffers, SecondOffers, Stale,
               Agreement, SecondMakes, Arrival, Progress, Greeting, Proposes, SetsLocal, Done,
               Posted, ChainPop, OperationKinds, WirePush, SignalKinds, At, Listens, flags,
               session, history, WireFacts, ChainFacts
      <3>3. TwoOffers'
        BY <1>0, <1>1, <1>2, <3>1
           DEF TwoOffers, OneReply, OpenFirst, Coming, Taking, Replying, Back, Heard, Returned,
               Unneeded, Fresh, Late, OneReply, FirstOffer, Early, FirstOffers, SecondOffers,
               Stale, SecondMakes, Arrival, Progress, Greeting, Proposes, SetsLocal, Done, Posted,
               ChainPop, OperationKinds, WirePush, SignalKinds, At, Listens, flags, session,
               history, WireFacts, ChainFacts
      <3>4. LateOffer'
        BY <1>0, <1>1, <1>2, <3>1
           DEF LateOffer, OneReply, OpenFirst, Replying, Late, OneReply, FirstOffer, Early,
               Agreement, Progress, Proposes, SetsLocal, Done, At
      <3>5. LateAccepted'
        BY <1>0, <1>1, <1>2, <3>1
           DEF LateAccepted, OpenFirst, Accepted, Returned, FirstOffer, Early, SecondOffers,
               SecondMakes, Progress, Proposes, SetsLocal, Done, Posted, ChainPop, WirePush,
               SignalKinds, At, Listens, flags, session, history
      <3>6. LateStale'
        BY <1>0, <1>1, <1>2, <3>1
           DEF LateStale, OpenFirst, OpenSecond, Heard, Fresh, FirstOffer, Early, Stale, Progress,
               Proposes, SetsLocal, Done, Posted, ChainPop, At, Listens, flags, session, history
      <3>7. LateRoles'
        BY <1>0, <1>1, <1>2, <3>1
           DEF LateRoles, OpenFirst, Returned, FirstOffer, Early, Agreement, Proposes, SetsLocal,
               Done, Posted, WirePush, SignalKinds
      <3> QED BY <3>2, <3>3, <3>4, <3>5, <3>6, <3>7 DEF Replaced
    <2> QED BY <2>1, <2>2, <2>3, <2>4, <2>5
  <1>3. CASE p = Second
    <2>1. SecondMakes'
      BY <1>0, <1>1, <1>3 DEF SecondMakes, Proposes, SetsLocal, Done, ChainPop
    <2>2. superseded' <=> superseded
      BY <1>0, <1>1, <1>3, EarlyRoles
         DEF OneReply, Early, SecondMakes, Proposes, SetsLocal, Done, ChainPop, OperationKinds
    <2>3. ASSUME ~superseded, ~superseded' PROVE Early'
      <3>1. /\ Early /\ FirstOffers /\ SecondOffers /\ Stale /\ Agreement /\ Closing
            /\ (Heard => ~Has(wire[First], Offer)) /\ ~Crossed(wire[First], Answer, Offer)
        BY <1>1, <2>3, EarlyRoles
      <3>2. OwnOffers'
        BY <1>0, <1>1, <1>3, <3>1
           DEF OpenFirst, Heard, Unneeded, OwnOffers, Early, Proposes, SetsLocal, Done, Posted,
               WirePush, SignalKinds, At, Listens
      <3>3. OneReply(First)'
        BY <1>0, <1>1, <1>3, <3>1 DEF OneReply, Early, Proposes, SetsLocal, Done, At
      <3>4. OneReply(Second)'
        BY <1>0, <1>1, <1>3, <3>1 DEF OneReply, Early, Proposes, SetsLocal, Done, ChainPop
      <3>5. FirstOffer'
        BY <1>0, <1>1, <1>3, <3>1
           DEF OpenFirst, OneReply, FirstOffer, Early, SecondMakes, Proposes, SetsLocal, Done,
               ChainPop, OperationKinds, At
      <3> QED BY <3>2, <3>3, <3>4, <3>5 DEF Early
    <2>4. ASSUME superseded PROVE Replaced'
      <3>1. Replaced  BY <1>1, <2>4
      <3>2. LateFirst'
        BY <1>0, <1>1, <1>3, <3>1
           DEF Replaced, LateFirst, TwoOffers, LateAccepted, LateRoles, OneReply, Accepted,
               Replying, Back, Heard, Unneeded, Fresh, Late, SecondMakes, Unanswered, Arrival,
               Progress, Greeting, Proposes, SetsLocal, Done, Posted, ChainPop, OperationKinds,
               WirePush, SignalKinds, At, Listens, flags, session, history
      <3>3. TwoOffers'
        BY <1>0, <1>1, <1>3, <3>1
           DEF Replaced, TwoOffers, LateOffer, LateAccepted, LateStale, Coming, Taking, Replying,
               Back, Heard, Returned, Fresh, Late, SecondMakes, Unanswered, Arrival, Progress,
               Greeting, Proposes, SetsLocal, Done, Posted, ChainPop, OperationKinds, WirePush,
               SignalKinds, At, Listens, flags, session, history
      <3>4. LateOffer'
        BY <1>0, <1>1, <1>3, <3>1
           DEF Replaced, TwoOffers, LateOffer, LateAccepted, LateStale, Accepted, Coming, Taking,
               Replying, Back, Heard, Returned, Unneeded, Fresh, Late, SecondMakes, Unanswered,
               Arrival, Progress, Greeting, Proposes, SetsLocal, Done, Posted, ChainPop,
               OperationKinds, WirePush, SignalKinds, At, Listens, flags, session, history
      <3>5. LateAccepted'
        BY <1>0, <1>1, <1>3, <3>1
           DEF Replaced, LateOffer, LateAccepted, Accepted, Replying, Returned, SecondMakes,
               Unanswered, Proposes, SetsLocal, Done, Posted, ChainPop, OperationKinds, At,
               Listens, flags, session, history
      <3>6. LateStale'
        BY <1>0, <1>1, <1>3, <3>1
           DEF Replaced, LateFirst, TwoOffers, LateOffer, LateAccepted, LateStale, LateRoles,
               OneReply, OpenFirst, OpenSecond, Accepted, Coming, Taking, Replying, Back, Heard,
               Returned, Unneeded, Fresh, Late, SecondMakes, Unanswered, Arrival, Progress,
               Greeting, Proposes, SetsLocal, Done, Posted, ChainPop, OperationKinds, WirePush,
               SignalKinds, At, Listens, flags, session, history, WireFacts, ChainFacts
      <3>7. LateRoles'
        BY <1>0, <1>1, <1>3, <3>1
           DEF Replaced, LateRoles, Returned, Proposes, SetsLocal, Done, Posted, ChainPop,
               OperationKinds, At
      <3> QED BY <3>2, <3>3, <3>4, <3>5, <3>6, <3>7 DEF Replaced
    <2> QED BY <2>1, <2>2, <2>3, <2>4
  <1> QED BY <1>2, <1>3

LEMMA TakesOfferCall ==
    ASSUME TypeOK, PageInv, WaitInv, RolesInv, CallInv, NEW p \in Peers, TakesOffer(p)
    PROVE  CallInv'
  <1> USE TwoPeers
  <1>0. /\ Arrival(First) /\ Progress(First) /\ Arrival(Second) /\ Progress(Second) /\ Greeting
        /\ WireFacts(wire[First]) /\ WireFacts(wire[Second])
        /\ ChainFacts(chain[First]) /\ ChainFacts(chain[Second])
        /\ Unheard /\ Unanswered /\ FirstWaits /\ First # Nobody /\ Second # Nobody
        /\ \A q \in Peers : /\ state[q] \in {"stable", "local", "remote"}
                           /\ offerer[q] \in {First, Second, Nobody}
    BY AllIs, NobodyAssumption DEF PageInv, WaitInv, TypeOK
  <1> SUFFICES ASSUME restarts' = 0
               PROVE  SecondMakes' /\ (~superseded' => Early') /\ (superseded' => Replaced')
    BY DEF CallInv
  <1>1. restarts = 0 /\ SecondMakes /\ (superseded => Replaced)
    BY DEF CallInv, TakesOffer, SetsRemote
  <1>4. KeptAdded(p) /\ TookOffer(chain[p], chain'[p])  BY OfferFlushed DEF TakesOffer
  <1>2. CASE p = First
    <2>1. SecondMakes'
      BY <1>0, <1>1, <1>2, <1>4 DEF SecondMakes, TakesOffer, SetsRemote, KeptAdded, At
    <2>2. superseded' <=> superseded
      BY <1>0, <1>1, <1>2, <1>4, EarlyRoles
         DEF OpenFirst, FirstOffer, Early, TakesOffer, TookOffer
    <2>3. ASSUME ~superseded, ~superseded' PROVE Early'
      <3>1. /\ Early /\ FirstOffers /\ SecondOffers /\ Stale /\ Agreement /\ Closing
            /\ (Heard => ~Has(wire[First], Offer)) /\ ~Crossed(wire[First], Answer, Offer)
        BY <1>1, <2>3, EarlyRoles
      <3>2. OwnOffers'
        BY <1>0, <1>1, <1>2, <1>4, <3>1
           DEF OpenFirst, Unneeded, OwnOffers, Early, TakesOffer, SetsRemote, TookOffer, At,
               Listens
      <3>3. OneReply(First)'
        BY <1>0, <1>1, <1>2, <1>4, <3>1
           DEF OneReply, Early, SecondOffers, TakesOffer, TookOffer, At
      <3>4. OneReply(Second)'
        BY <1>0, <1>1, <1>2, <1>4, <3>1 DEF OneReply, Early, TakesOffer, KeptAdded, At
      <3>5. FirstOffer'
        BY <1>0, <1>1, <1>2, <1>4, <3>1
           DEF OpenFirst, Coming, Taking, FirstOffer, Early, TakesOffer, SetsRemote, KeptAdded, At
      <3> QED BY <3>2, <3>3, <3>4, <3>5 DEF Early
    <2>4. ASSUME superseded PROVE Replaced'
      <3>1. Replaced  BY <1>1, <2>4
      <3>2. LateFirst'
        BY <1>0, <1>1, <1>2, <1>4, <3>1
           DEF Replaced, LateFirst, LateAccepted, OneReply, Unneeded, TakesOffer, SetsRemote,
               TookOffer, At, Listens
      <3>3. TwoOffers'
        BY <1>0, <1>1, <1>2, <1>4, <3>1
           DEF Replaced, TwoOffers, LateAccepted, Coming, Taking, Replying, Fresh, TakesOffer,
               SetsRemote, TookOffer, KeptAdded, At
      <3>4. LateOffer'
        BY <1>0, <1>1, <1>2, <1>4, <3>1
           DEF Replaced, LateOffer, LateAccepted, Accepted, Coming, Taking, Replying, Back, Heard,
               TakesOffer, SetsRemote, TookOffer, KeptAdded, At
      <3>5. LateAccepted'
        BY <1>0, <1>1, <1>2, <1>4, <3>1
           DEF Replaced, LateOffer, LateAccepted, Accepted, Back, Heard, Returned, Late,
               TakesOffer, SetsRemote, TookOffer, KeptAdded, At
      <3>6. LateStale'
        BY <1>0, <1>1, <1>2, <1>4, <3>1
           DEF Replaced, LateAccepted, LateStale, Back, Fresh, Late, TakesOffer, SetsRemote,
               TookOffer, KeptAdded, At
      <3>7. LateRoles'
        BY <1>0, <1>1, <1>2, <1>4, <3>1
           DEF Replaced, LateRoles, Returned, TakesOffer, SetsRemote, KeptAdded, At
      <3> QED BY <3>2, <3>3, <3>4, <3>5, <3>6, <3>7 DEF Replaced
    <2> QED BY <2>1, <2>2, <2>3, <2>4
  <1>3. CASE p = Second
    <2>1. SecondMakes'
      BY <1>0, <1>1, <1>3, <1>4 DEF SecondMakes, TookOffer
    <2>2. superseded' <=> superseded
      BY <1>0, <1>1, <1>3, <1>4, EarlyRoles DEF TakesOffer
    <2>3. ASSUME ~superseded, ~superseded' PROVE Early'
      <3>1. /\ Early /\ FirstOffers /\ SecondOffers /\ Stale /\ Agreement /\ Closing
            /\ (Heard => ~Has(wire[First], Offer)) /\ ~Crossed(wire[First], Answer, Offer)
        BY <1>1, <2>3, EarlyRoles
      <3>2. OwnOffers'
        BY <1>0, <1>1, <1>3, <1>4, <3>1
           DEF OpenFirst, Heard, Unneeded, OwnOffers, Early, TakesOffer, SetsRemote, KeptAdded,
               At, Listens
      <3>3. OneReply(First)'
        BY <1>0, <1>1, <1>3, <1>4, <3>1 DEF OneReply, Early, TakesOffer, KeptAdded, At
      <3>4. OneReply(Second)'
        BY <1>0, <1>1, <1>3, <1>4, <3>1
           DEF OneReply, Early, FirstOffers, TakesOffer, TookOffer, At
      <3>5. FirstOffer'
        BY <1>0, <1>1, <1>3, <1>4, <3>1
           DEF OpenFirst, Coming, Taking, FirstOffer, Early, FirstOffers, Progress, TakesOffer,
               SetsRemote, TookOffer, KeptAdded, At
      <3> QED BY <3>2, <3>3, <3>4, <3>5 DEF Early
    <2>4. ASSUME superseded PROVE Replaced'
      <3>1. Replaced  BY <1>1, <2>4
      <3>2. LateFirst'
        BY <1>0, <1>1, <1>3, <1>4, <3>1
           DEF Replaced, LateFirst, OneReply, Heard, Unneeded, Fresh, TakesOffer, SetsRemote,
               KeptAdded, At, Listens
      <3>3. TwoOffers'
        BY <1>0, <1>1, <1>3, <1>4, <3>1
           DEF Replaced, TwoOffers, Coming, Taking, Replying, Back, Heard, Fresh, Progress,
               TakesOffer, SetsRemote, TookOffer, KeptAdded, At
      <3>4. LateOffer'
        BY <1>0, <1>1, <1>3, <1>4, <3>1
           DEF Replaced, LateOffer, Taking, Late, TakesOffer, TookOffer, KeptAdded, At
      <3>5. LateAccepted'
        BY <1>0, <1>1, <1>3, <1>4, <3>1
           DEF Replaced, LateOffer, LateAccepted, Accepted, Taking, Returned, TakesOffer,
               SetsRemote, TookOffer, KeptAdded, At
      <3>6. LateStale'
        BY <1>0, <1>1, <1>3, <1>4, <3>1
           DEF Replaced, LateOffer, LateStale, Taking, Heard, Fresh, TakesOffer, SetsRemote,
               TookOffer, KeptAdded, At
      <3>7. LateRoles'
        BY <1>0, <1>1, <1>3, <1>4, <3>1
           DEF Replaced, LateRoles, Returned, TakesOffer, SetsRemote, TookOffer, KeptAdded, At
      <3> QED BY <3>2, <3>3, <3>4, <3>5, <3>6, <3>7 DEF Replaced
    <2> QED BY <2>1, <2>2, <2>3, <2>4
  <1> QED BY <1>2, <1>3

LEMMA TakesAnswerCall ==
    ASSUME TypeOK, PageInv, WaitInv, RolesInv, CallInv, NEW p \in Peers, TakesAnswer(p)
    PROVE  CallInv'
  <1> USE TwoPeers
  <1>0. /\ Arrival(First) /\ Progress(First) /\ Arrival(Second) /\ Progress(Second) /\ Greeting
        /\ WireFacts(wire[First]) /\ WireFacts(wire[Second])
        /\ ChainFacts(chain[First]) /\ ChainFacts(chain[Second])
        /\ Unheard /\ Unanswered /\ FirstWaits /\ First # Nobody /\ Second # Nobody
        /\ \A q \in Peers : /\ state[q] \in {"stable", "local", "remote"}
                           /\ offerer[q] \in {First, Second, Nobody}
    BY AllIs, NobodyAssumption DEF PageInv, WaitInv, TypeOK
  <1> SUFFICES ASSUME restarts' = 0
               PROVE  SecondMakes' /\ (~superseded' => Early') /\ (superseded' => Replaced')
    BY DEF CallInv
  <1>1. restarts = 0 /\ SecondMakes /\ (superseded => Replaced)
    BY DEF CallInv, TakesAnswer, SetsRemote
  <1>4. KeptAdded(p) /\ TookAnswer(chain[p], chain'[p])  BY AnswerFlushed DEF TakesAnswer
  <1>2. CASE p = First
    <2>1. SecondMakes'
      BY <1>0, <1>1, <1>2, <1>4 DEF SecondMakes, TakesAnswer, SetsRemote, KeptAdded, At
    <2>2. superseded' = superseded  BY DEF TakesAnswer, history
    <2>3. ASSUME ~superseded, ~superseded' PROVE Early'
      <3>1. /\ Early /\ FirstOffers /\ SecondOffers /\ Stale /\ Agreement /\ Closing
            /\ (Heard => ~Has(wire[First], Offer)) /\ ~Crossed(wire[First], Answer, Offer)
        BY <1>1, <2>3, EarlyRoles
      <3>2. OwnOffers'
        BY <1>0, <1>1, <1>2, <1>4, <3>1
           DEF OpenFirst, Heard, Unneeded, OwnOffers, Early, TakesAnswer, SetsRemote, TookAnswer,
               At, Listens
      <3>3. OneReply(First)'
        BY <1>0, <1>1, <1>2, <1>4, <3>1 DEF OneReply, Early, TakesAnswer, TookAnswer
      <3>4. OneReply(Second)'
        BY <1>0, <1>1, <1>2, <1>4, <3>1 DEF OneReply, Early, TakesAnswer, KeptAdded, At
      <3>5. FirstOffer'
        BY <1>0, <1>1, <1>2, <1>4, <3>1
           DEF OpenFirst, Coming, Taking, FirstOffer, Early, TakesAnswer, SetsRemote, KeptAdded,
               At
      <3> QED BY <3>2, <3>3, <3>4, <3>5 DEF Early
    <2>4. ASSUME superseded PROVE Replaced'
      <3>1. Replaced  BY <1>1, <2>4
      <3>2. LateFirst'
        BY <1>0, <1>1, <1>2, <1>4, <3>1
           DEF Replaced, LateFirst, OneReply, Unneeded, TakesAnswer, SetsRemote, TookAnswer,
               KeptAdded, At, Listens
      <3>3. TwoOffers'
        BY <1>0, <1>1, <1>2, <1>4, <3>1
           DEF Replaced, TwoOffers, Coming, Taking, Replying, Heard, Fresh, TakesAnswer,
               SetsRemote, TookAnswer, KeptAdded, At
      <3>4. LateOffer'
        BY <1>0, <1>1, <1>2, <1>4, <3>1
           DEF Replaced, LateOffer, Accepted, Coming, Taking, Replying, Back, Heard, Fresh, Late,
               TakesAnswer, SetsRemote, TookAnswer, KeptAdded, At
      <3>5. LateAccepted'
        BY <1>0, <1>1, <1>2, <1>4, <3>1
           DEF Replaced, LateAccepted, Accepted, Back, Heard, Returned, Late, TakesAnswer,
               SetsRemote, TookAnswer, KeptAdded, At
      <3>6. LateStale'
        BY <1>0, <1>1, <1>2, <1>4, <3>1
           DEF Replaced, LateStale, Back, Heard, Fresh, Late, TakesAnswer, SetsRemote, TookAnswer,
               At
      <3>7. LateRoles'
        BY <1>0, <1>1, <1>2, <1>4, <3>1
           DEF Replaced, LateFirst, LateRoles, Returned, Progress, TakesAnswer, SetsRemote,
               KeptAdded, At
      <3> QED BY <3>2, <3>3, <3>4, <3>5, <3>6, <3>7 DEF Replaced
    <2> QED BY <2>1, <2>2, <2>3, <2>4
  <1>3. CASE p = Second
    <2>1. SecondMakes'
      BY <1>0, <1>1, <1>3, <1>4 DEF SecondMakes, TookAnswer
    <2>2. superseded' = superseded  BY DEF TakesAnswer, history
    <2>3. ASSUME ~superseded, ~superseded' PROVE Early'
      <3>1. /\ Early /\ FirstOffers /\ SecondOffers /\ Stale /\ Agreement /\ Closing
            /\ (Heard => ~Has(wire[First], Offer)) /\ ~Crossed(wire[First], Answer, Offer)
        BY <1>1, <2>3, EarlyRoles
      <3>2. OwnOffers'
        BY <1>0, <1>1, <1>3, <1>4, <3>1
           DEF OpenFirst, Heard, Unneeded, OwnOffers, Early, TakesAnswer, SetsRemote, KeptAdded,
               At, Listens
      <3>3. OneReply(First)'
        BY <1>0, <1>1, <1>3, <1>4, <3>1 DEF OneReply, Early, TakesAnswer, KeptAdded, At
      <3>4. OneReply(Second)'
        BY <1>0, <1>1, <1>3, <1>4, <3>1 DEF OneReply, Early, TakesAnswer, TookAnswer
      <3>5. FirstOffer'
        BY <1>0, <1>1, <1>3, <1>4, <3>1
           DEF OpenFirst, Coming, Taking, FirstOffer, Early, FirstOffers, Progress, TakesAnswer,
               SetsRemote, TookAnswer, At
      <3> QED BY <3>2, <3>3, <3>4, <3>5 DEF Early
    <2>4. ASSUME superseded PROVE Replaced'
      <3>1. Replaced  BY <1>1, <2>4
      <3>2. LateFirst'
        BY <1>0, <1>1, <1>3, <1>4, <3>1
           DEF Replaced, LateFirst, OneReply, Heard, Unneeded, Fresh, TakesAnswer, SetsRemote,
               KeptAdded, At, Listens
      <3>3. TwoOffers'
        BY <1>0, <1>1, <1>3, <1>4, <3>1
           DEF Replaced, TwoOffers, LateAccepted, Accepted, Coming, Taking, Replying, Late,
               TakesAnswer, SetsRemote, TookAnswer, KeptAdded, At
      <3>4. LateOffer'
        BY <1>0, <1>1, <1>3, <1>4, <3>1
           DEF Replaced, LateOffer, LateAccepted, Accepted, Coming, Taking, Replying, Late,
               TakesAnswer, SetsRemote, TookAnswer, At
      <3>5. LateAccepted'
        BY <1>0, <1>1, <1>3, <1>4, <3>1
           DEF Replaced, LateAccepted, Accepted, Returned, TakesAnswer, SetsRemote, TookAnswer,
               KeptAdded, At
      <3>6. LateStale'
        BY <1>0, <1>1, <1>3, <1>4, <3>1
           DEF Replaced, LateAccepted, LateStale, Accepted, TakesAnswer, SetsRemote, TookAnswer,
               WireFacts
      <3>7. LateRoles'
        BY <1>0, <1>1, <1>3, <1>4, <3>1
           DEF Replaced, LateRoles, Returned, TakesAnswer, TookAnswer, At
      <3> QED BY <3>2, <3>3, <3>4, <3>5, <3>6, <3>7 DEF Replaced
    <2> QED BY <2>1, <2>2, <2>3, <2>4
  <1> QED BY <1>2, <1>3

LEMMA RefusesCall ==
    ASSUME TypeOK, PageInv, WaitInv, RolesInv, CallInv, NEW p \in Peers, Refuses(p)
    PROVE  CallInv'
  <1> USE TwoPeers
  <1>0. /\ Arrival(First) /\ Progress(First) /\ Arrival(Second) /\ Progress(Second) /\ Greeting
        /\ WireFacts(wire[First]) /\ WireFacts(wire[Second])
        /\ ChainFacts(chain[First]) /\ ChainFacts(chain[Second])
        /\ Unheard /\ Unanswered /\ FirstWaits /\ First # Nobody /\ Second # Nobody
        /\ \A q \in Peers : /\ state[q] \in {"stable", "local", "remote"}
                           /\ offerer[q] \in {First, Second, Nobody}
    BY AllIs, NobodyAssumption DEF PageInv, WaitInv, TypeOK
  <1> SUFFICES ASSUME restarts' = 0
               PROVE  SecondMakes' /\ (~superseded' => Early') /\ (superseded' => Replaced')
    BY DEF CallInv
  <1>1. restarts = 0 /\ SecondMakes /\ (superseded => Replaced)
    BY DEF CallInv, Refuses
  <1>2. CASE p = First
    <2>1. SecondMakes'
      BY <1>0, <1>1, <1>2 DEF SecondMakes, Refuses, Done, session
    <2>2. superseded' = superseded  BY DEF Refuses, history
    <2>3. ASSUME ~superseded, ~superseded' PROVE Early'
      <3>1. /\ Early /\ FirstOffers /\ SecondOffers /\ Stale /\ Agreement /\ Closing
            /\ (Heard => ~Has(wire[First], Offer)) /\ ~Crossed(wire[First], Answer, Offer)
        BY <1>1, <2>3, EarlyRoles
      <3>2. OwnOffers'
        BY <1>0, <1>1, <1>2, <3>1
           DEF OpenFirst, Heard, Unneeded, OwnOffers, Early, Refuses, Done, ChainPop, Listens,
               session
      <3>3. OneReply(First)'
        BY <1>0, <1>1, <1>2, <3>1 DEF OneReply, Early, Refuses, Done, ChainPop, session
      <3>4. OneReply(Second)'
        BY <1>0, <1>1, <1>2, <3>1 DEF OneReply, Early, Refuses, Done, session
      <3>5. FirstOffer'
        BY <1>0, <1>1, <1>2, <3>1
           DEF OpenFirst, Coming, Taking, FirstOffer, Early, Refuses, Done, session
      <3> QED BY <3>2, <3>3, <3>4, <3>5 DEF Early
    <2>4. ASSUME superseded PROVE Replaced'
      <3>1. Replaced  BY <1>1, <2>4
      <3>2. LateFirst'
        BY <1>0, <1>1, <1>2, <3>1
           DEF Replaced, LateFirst, OneReply, Unneeded, Fresh, Refuses, Done, ChainPop, Listens,
               flags, session, history
      <3>3. TwoOffers'
        BY <1>0, <1>1, <1>2, <3>1
           DEF Replaced, LateFirst, TwoOffers, Coming, Taking, Replying, Fresh, Refuses, Done,
               session
      <3>4. LateOffer'
        BY <1>0, <1>1, <1>2, <3>1
           DEF Replaced, LateFirst, LateOffer, Coming, Taking, Replying, Heard, Late, Refuses,
               Done, ChainPop, session
      <3>5. LateAccepted'
        BY <1>0, <1>1, <1>2, <3>1
           DEF Replaced, LateFirst, LateAccepted, Accepted, Back, Heard, Returned, Late, Refuses,
               Done, ChainPop, session
      <3>6. LateStale'
        BY <1>0, <1>1, <1>2, <3>1
           DEF Replaced, LateFirst, LateStale, Back, Fresh, Late, Refuses, session
      <3>7. LateRoles'
        BY <1>0, <1>1, <1>2, <3>1 DEF Replaced, LateRoles, Returned, Refuses, Done, session
      <3> QED BY <3>2, <3>3, <3>4, <3>5, <3>6, <3>7 DEF Replaced
    <2> QED BY <2>1, <2>2, <2>3, <2>4
  <1>3. CASE p = Second
    <2>1. SecondMakes'
      BY <1>0, <1>1, <1>3 DEF SecondMakes, Refuses, Done, ChainPop
    <2>2. superseded' = superseded  BY DEF Refuses, history
    <2>3. ASSUME ~superseded, ~superseded' PROVE Early'
      <3>1. /\ Early /\ FirstOffers /\ SecondOffers /\ Stale /\ Agreement /\ Closing
            /\ (Heard => ~Has(wire[First], Offer)) /\ ~Crossed(wire[First], Answer, Offer)
        BY <1>1, <2>3, EarlyRoles
      <3>2. OwnOffers'
        BY <1>0, <1>1, <1>3, <3>1
           DEF OpenFirst, Heard, Unneeded, OwnOffers, Early, Refuses, Done, Listens, flags,
               session, history
      <3>3. OneReply(First)'
        BY <1>0, <1>1, <1>3, <3>1 DEF OneReply, Early, Refuses, Done, session
      <3>4. OneReply(Second)'
        BY <1>0, <1>1, <1>3, <3>1 DEF OneReply, Early, Refuses, Done, ChainPop, session
      <3>5. FirstOffer'
        BY <1>0, <1>1, <1>3, <3>1
           DEF OpenFirst, Coming, Taking, FirstOffer, Early, Refuses, Done, ChainPop, session,
               history
      <3> QED BY <3>2, <3>3, <3>4, <3>5 DEF Early
    <2>4. ASSUME superseded PROVE Replaced'
      <3>1. Replaced  BY <1>1, <2>4
      <3>2. LateFirst'
        BY <1>0, <1>1, <1>3, <3>1
           DEF Replaced, LateFirst, OneReply, Heard, Unneeded, Fresh, Refuses, Done, Listens,
               flags, session, history
      <3>3. TwoOffers'
        BY <1>0, <1>1, <1>3, <3>1
           DEF Replaced, LateAccepted, Accepted, Late, Refuses, Done, ChainPop
      <3>4. LateOffer'
        BY <1>0, <1>1, <1>3, <3>1
           DEF Replaced, LateOffer, Coming, Taking, Replying, Back, Heard, Fresh, Late, Refuses,
               Done, ChainPop, session
      <3>5. LateAccepted'
        BY <1>0, <1>1, <1>3, <3>1
           DEF Replaced, LateAccepted, Accepted, Late, Refuses, Done, ChainPop, OperationKinds
      <3>6. LateStale'
        BY <1>0, <1>1, <1>3, <3>1
           DEF Replaced, LateStale, Heard, Fresh, Late, Refuses, Done, session
      <3>7. LateRoles'
        BY <1>0, <1>1, <1>3, <3>1
           DEF Replaced, LateAccepted, Accepted, Late, Refuses, Done, ChainPop
      <3> QED BY <3>2, <3>3, <3>4, <3>5, <3>6, <3>7 DEF Replaced
    <2> QED BY <2>1, <2>2, <2>3, <2>4
  <1> QED BY <1>2, <1>3

-----------------------------------------------------------------------------
(* The theorems                                                            *)

LEMMA StartsWell == Init => PageInv /\ KnownInv /\ WaitInv /\ RolesInv /\ CallInv
  <1> SUFFICES ASSUME Init PROVE PageInv /\ KnownInv /\ WaitInv /\ RolesInv /\ CallInv
    OBVIOUS
  <1> USE TwoPeers, NobodyAssumption
  <1>1. \A p \in Peers : wire[p] = <<>> /\ chain[p] = <<>>  BY DEF Init
  <1>2. \A p \in Peers : WireFacts(wire[p]) /\ ChainFacts(chain[p])
    <2>1. <<>> \in Seq(AnySignal) /\ <<>> \in Seq(AnyOperation)  OBVIOUS
    <2> QED BY <1>1, <2>1, WireIs, ChainIs
  <1>3. PageInv
    BY <1>1, <1>2 DEF Init, PageInv, Greeting, Arrival, Progress, Listens, WireFacts, ChainFacts
  <1>4. KnownInv  BY DEF Init, KnownInv, Known
  <1>5. WaitInv
    BY <1>1, <1>2 DEF Init, WaitInv, Unheard, Unanswered, SecondWaits, FirstWaits,
                      WireFacts, ChainFacts
  <1>6. RolesInv
    BY <1>1, <1>2 DEF Init, RolesInv, FirstOffers, Doomed, SecondOffers, Stale, Agreement, Closing,
                      OpenFirst, OpenSecond, Accepted, WireFacts, ChainFacts
  <1>7. CallInv
    BY <1>1, <1>2 DEF Init, CallInv, Early, OwnOffers, OneReply, FirstOffer, SecondMakes, Heard,
                      OpenFirst, Coming, Taking, WireFacts, ChainFacts
  <1> QED BY <1>3, <1>4, <1>5, <1>6, <1>7

LEMMA PageStep ==
    ASSUME TypeOK, TypeOK', PageInv, [Next]_vars
    PROVE  PageInv'
  <1>1. CASE UNCHANGED vars
    BY <1>1 DEF vars, flagVars, pcVars, history, PageInv, Greeting, Arrival, Progress, Listens
  <1>2. ASSUME NEW p \in Peers, Step(p) \/ OnIceDisconnected(p)
        PROVE  PageInv'
    BY <1>2, StepsWritten, ArrivesPage, ListeningPage, CallsPage, NeedsPage, RestartsPage,
       GreetedPage, GathersPage, IgnoresPage, AcceptsPage, AnsweredPage, TricklesPage, KeepsPage,
       RepliesPage, ProposesPage, TakesOfferPage, TakesAnswerPage, RefusesPage, AddsTrickledPage,
       AddsAtOfferPage, AddsAtAnswerPage
       DEF Written
  <1> QED BY <1>1, <1>2 DEF Next

LEMMA KnownStep ==
    ASSUME TypeOK, TypeOK', PageInv, KnownInv, [Next]_vars
    PROVE  KnownInv'
  <1>1. CASE UNCHANGED vars
    BY <1>1 DEF vars, flagVars, pcVars, history, KnownInv, Known
  <1>2. ASSUME NEW p \in Peers, Step(p) \/ OnIceDisconnected(p)
        PROVE  KnownInv'
    BY <1>2, StepsWritten, ArrivesKnown, ListeningKnown, CallsKnown, NeedsKnown, RestartsKnown,
       GreetedKnown, GathersKnown, IgnoresKnown, AcceptsKnown, AnsweredKnown, TricklesKnown,
       KeepsKnown, RepliesKnown, ProposesKnown, TakesOfferKnown, TakesAnswerKnown, RefusesKnown,
       AddsTrickledKnown, AddsAtOfferKnown, AddsAtAnswerKnown
       DEF Written
  <1> QED BY <1>1, <1>2 DEF Next

LEMMA WaitStep ==
    ASSUME TypeOK, TypeOK', PageInv, WaitInv, [Next]_vars
    PROVE  WaitInv'
  <1>1. CASE UNCHANGED vars
    BY <1>1 DEF vars, flagVars, pcVars, history, WaitInv, Unheard, Unanswered,
         SecondWaits, FirstWaits, Listens
  <1>2. ASSUME NEW p \in Peers, Step(p) \/ OnIceDisconnected(p)
        PROVE  WaitInv'
    BY <1>2, StepsWritten, ArrivesWaits, ListeningWaits, CallsWaits, NeedsWaits, RestartsWaits,
       GreetedWaits, IgnoresWaits, AcceptsWaits, AnsweredWaits, RepliesWaits, ProposesWaits,
       TakesOfferWaits, TakesAnswerWaits, RefusesWaits, GathersAside, TricklesAside, KeepsAside,
       AddsTrickledAside, AddsAtOfferAside, AddsAtAnswerAside, AsideWaits
       DEF Written
  <1> QED BY <1>1, <1>2 DEF Next

LEMMA RolesStep ==
    ASSUME TypeOK, TypeOK', PageInv, WaitInv, RolesInv, [Next]_vars
    PROVE  RolesInv'
  <1>1. CASE UNCHANGED vars
    BY <1>1 DEF vars, flagVars, pcVars, history, RolesInv, FirstOffers, Doomed, SecondOffers,
         Stale, Agreement, Closing, OpenFirst, OpenSecond, Accepted
  <1>2. ASSUME NEW p \in Peers, Step(p) \/ OnIceDisconnected(p)
        PROVE  RolesInv'
    BY <1>2, StepsWritten, ArrivesRoles, ListeningRoles, CallsRoles, NeedsRoles, RestartsRoles,
       GreetedRoles, IgnoresRoles, AcceptsRoles, AnsweredRoles, RepliesRoles, ProposesRoles,
       TakesOfferRoles, TakesAnswerRoles, RefusesRoles, GathersAside, TricklesAside, KeepsAside,
       AddsTrickledAside, AddsAtOfferAside, AddsAtAnswerAside, AsideRoles
       DEF Written
  <1> QED BY <1>1, <1>2 DEF Next

LEMMA CallStep ==
    ASSUME TypeOK, TypeOK', PageInv, WaitInv, RolesInv, CallInv, [Next]_vars
    PROVE  CallInv'
  <1>1. CASE UNCHANGED vars
    BY <1>1 DEF vars, flagVars, pcVars, history, CallInv, Early, OwnOffers, OneReply, FirstOffer,
         SecondMakes, Replaced, LateFirst, TwoOffers, LateOffer, LateAccepted, LateStale, LateRoles,
         OpenFirst, OpenSecond, Accepted, Coming, Taking, Replying, Back, Heard, Returned, Unneeded,
         Fresh, Late, Listens
  <1>2. ASSUME NEW p \in Peers, Step(p) \/ OnIceDisconnected(p)
        PROVE  CallInv'
    BY <1>2, StepsWritten, RestartsCall, ArrivesCall, ListeningCall, CallsCall, NeedsCall,
       GreetedCall, IgnoresCall, AcceptsCall, AnsweredCall, RepliesCall, ProposesCall,
       TakesOfferCall, TakesAnswerCall, RefusesCall, GathersAside, TricklesAside, KeepsAside,
       AddsTrickledAside, AddsAtOfferAside, AddsAtAnswerAside, AsideCall
       DEF Written
  <1> QED BY <1>1, <1>2 DEF Next

LEMMA StepsWell == Spec => [](TypeOK /\ PageInv /\ KnownInv /\ WaitInv /\ RolesInv /\ CallInv)
  <1>1. TypeOK /\ TypeOK' /\ PageInv /\ KnownInv /\ WaitInv /\ RolesInv /\ CallInv
        /\ [Next]_vars => (PageInv /\ KnownInv /\ WaitInv /\ RolesInv /\ CallInv)'
    BY PageStep, KnownStep, WaitStep, RolesStep, CallStep
  <1> QED BY <1>1, StartsWell, TypeCorrect, PTL DEF Spec

\* A candidate is not lost: when both pages have come to rest in the call, each
\* has the candidate of the other, those included that found nobody subscribed
\* and those that came before the description they belong to (flushPendingCandidates).
THEOREM CandidatesKept == Spec => []CandidatesKnown
  <1>1. TypeOK /\ PageInv /\ KnownInv /\ WaitInv => CandidatesKnown
    <2> SUFFICES ASSUME TypeOK, PageInv, KnownInv, WaitInv, AtRest,
                        NEW p \in Peers, gathered[Other(p)]
                 PROVE  known[p]
      BY DEF CandidatesKnown
    <2> USE TwoPeers
    <2>1. \A r \in Peers : /\ page[r] = "calls" /\ ~needed[r] /\ wire[r] = <<>> /\ chain[r] = <<>>
                           /\ WireFacts(wire[r]) /\ ChainFacts(chain[r])
      BY AllIs DEF AtRest
    <2>2. Arrival(First) /\ Progress(First) /\ Arrival(Second) /\ Progress(Second)
      BY DEF PageInv
    <2>3. state[First] # "remote" /\ state[Second] # "remote"
      BY <2>1, <2>2 DEF Progress, ChainFacts
    <2>4. ~(state[First] = "local" /\ ~offered[First])
      BY <2>1 DEF WaitInv, Unheard, Listens, WireFacts, ChainFacts
    <2>5. remote[First] /\ remote[Second]
      BY <2>1, <2>3, <2>4 DEF WaitInv, SecondWaits, FirstWaits, WireFacts, ChainFacts
    <2>6. ~(pendingCandidates[p] > 0)
      BY <2>1, <2>2, <2>5 DEF Progress, ChainFacts
    <2> QED BY <2>1, <2>5, <2>6 DEF KnownInv, Known, WireFacts, ChainFacts
  <1> QED BY <1>1, StepsWell, PTL

LEMMA RestWithoutSuperseded ==
    ASSUME TypeOK, PageInv, WaitInv, RolesInv, AtRest, ~superseded, NEW p \in Peers
    PROVE  state[p] = "stable" /\ offerer[p] = offerer[Other(p)]
  <1> USE TwoPeers
  <1>1. \A r \in Peers : /\ page[r] = "calls" /\ ~needed[r] /\ wire[r] = <<>> /\ chain[r] = <<>>
                         /\ WireFacts(wire[r]) /\ ChainFacts(chain[r])
    BY AllIs DEF AtRest
  <1>2. Progress(First) /\ Progress(Second)  BY DEF PageInv
  <1>3. state[First] # "remote" /\ state[Second] # "remote"
    BY <1>1, <1>2 DEF Progress, ChainFacts
  <1>4. state[First] # "local"
    BY <1>1, <1>3 DEF WaitInv, Unheard, Listens, RolesInv, FirstOffers, OpenFirst,
       WireFacts, ChainFacts
  <1>5. state[Second] # "local" /\ offerer[First] = offerer[Second]
    BY <1>1, <1>3, <1>4 DEF RolesInv, Doomed, Closing, Agreement, OpenFirst, OpenSecond, Accepted,
                            WireFacts, ChainFacts
  <1>6. state[p] \in {"stable", "local", "remote"}  BY DEF TypeOK
  <1> QED BY <1>3, <1>4, <1>5, <1>6

LEMMA RestWithoutRestart ==
    ASSUME TypeOK, PageInv, WaitInv, CallInv, AtRest, superseded, restarts = 0, NEW p \in Peers
    PROVE  state[p] = "stable" /\ offerer[p] = offerer[Other(p)]
  <1> USE TwoPeers
  <1>1. \A r \in Peers : /\ page[r] = "calls" /\ ~needed[r] /\ wire[r] = <<>> /\ chain[r] = <<>>
                         /\ WireFacts(wire[r]) /\ ChainFacts(chain[r])
    BY AllIs DEF AtRest
  <1>2. Progress(First) /\ Progress(Second) /\ Replaced  BY DEF PageInv, CallInv
  <1>3. state[First] # "remote" /\ state[Second] # "remote"
    BY <1>1, <1>2 DEF Progress, ChainFacts
  <1>4. remote[First] /\ remote[Second]
    BY <1>1, <1>2, <1>3 DEF Replaced, LateFirst, WaitInv, SecondWaits, FirstWaits,
       WireFacts, ChainFacts
  <1>5. state[First] # "local"  BY <1>2, <1>4 DEF Replaced, LateFirst
  <1>6. state[Second] # "local"
    BY <1>1, <1>2, <1>3, <1>4 DEF Replaced, LateOffer, Late, Accepted, WireFacts, ChainFacts
  <1>7. \A r \in Peers : state[r] = "stable" /\ offerer[r] \in {First, Second}
    BY <1>2, <1>3, <1>4, <1>5, <1>6 DEF TypeOK, Progress
  <1>8. offerer[First] = offerer[Second]
    BY <1>1, <1>2, <1>4, <1>7 DEF Replaced, LateRoles, Returned, WireFacts, ChainFacts
  <1> QED BY <1>7, <1>8

\* Two pages that have come to rest have one session, which one of them has
\* offered and the other answered, and no offer is open: whatever crossed on the
\* way when no ICE restart was made, and with restarts as long as no offer that
\* was out has been replaced (createCall's ignoreOffer).
THEOREM RolesAgreed == Spec => []RolesAgree
  <1>1. TypeOK /\ PageInv /\ WaitInv /\ RolesInv /\ CallInv => RolesAgree
    BY RestWithoutSuperseded, RestWithoutRestart DEF RolesAgree
  <1> QED BY <1>1, StepsWell, PTL
=============================================================================
