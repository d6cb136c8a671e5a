-------------------------- MODULE CallClientProofs --------------------------
(***************************************************************************)
(* Theorems about the call page, for any number of rooms visited, calls,   *)
(* signals and retries.                                                    *)
(***************************************************************************)
EXTENDS CallClient, FiniteSetTheorems, TLAPS

\* The inits that have begun are counted by a number.
LEMMA StartedIsFinite == Cardinality(Started) \in Nat
<1>1. IsFiniteSet(1 .. MaxInits)
  BY FS_Interval, ClientBounds
<1>2. IsFiniteSet(Started)
  BY <1>1, FS_Subset DEF Started, Inits
<1> QED
  BY <1>2, FS_CardinalityType

-----------------------------------------------------------------------------
(* The sockets                                                             *)

Signaling == [ws : {"none", "connecting", "open", "refused", "in_room"}, closed : BOOLEAN,
              attempts : Nat, retry : BOOLEAN]

SocketTypes ==
    /\ media \in [Inits -> {"none", "asking", "done"}]
    /\ sig \in [Inits -> Signaling] /\ signaling \in Inits \cup {None}
    /\ mounted \in BOOLEAN /\ raced \in BOOLEAN

\* A socket is there, or a timer that will ask for one.
Live(i) == sig[i].ws # "none" \/ (sig[i].retry /\ ~sig[i].closed)

\* Only the object that the closure refers to has a socket, and none has one
\* while the page is left or an init awaits the camera, of which there is one.
SocketInv ==
    /\ SocketTypes
    /\ ~raced => /\ \A i \in Inits : Live(i) => i = signaling /\ mounted /\ Asking = {}
                 /\ \A i, j \in Asking : i = j /\ mounted

socketVars == <<media, sig, signaling, mounted, raced>>

\* A step of one object's own: it goes on only if it was live.
OwnStep(i) == \E s \in Signaling :
    /\ sig' = [sig EXCEPT ![i] = s] /\ UNCHANGED <<media, signaling, mounted, raced>>
    /\ s.ws # "none" \/ (s.retry /\ ~s.closed) => Live(i)

LEMMA SocketSteps ==
    ASSUME SocketTypes, NEW i \in Inits, Opened(i) \/ Lost(i) \/ Retry(i) \/ Refused(i) \/ Joined(i)
    PROVE  OwnStep(i)
<1> USE DEF SocketTypes, Signaling, Live, pageVars
<1>1. CASE Opened(i)
  <2> DEFINE s == [sig[i] EXCEPT !.ws = "open", !.attempts = 0]
  <2>1. s \in Signaling /\ sig' = [sig EXCEPT ![i] = s]
    BY <1>1 DEF Opened
  <2> QED
    BY <1>1, <2>1 DEF Opened, OwnStep
<1>2. CASE Lost(i) /\ CanRetry(sig[i])
  <2> DEFINE s == [sig[i] EXCEPT !.ws = "none", !.retry = TRUE, !.attempts = Attempts(@)]
  <2>1. s \in Signaling /\ sig' = [sig EXCEPT ![i] = s]
    BY <1>2 DEF Lost, Attempts
  <2>2. sig[i].ws # "none"
    BY <1>2 DEF Lost
  <2> QED
    BY <1>2, <2>1, <2>2 DEF Lost, OwnStep
<1>3. CASE Lost(i) /\ ~CanRetry(sig[i])
  <2> DEFINE s == [sig[i] EXCEPT !.ws = "none"]
  <2>1. s \in Signaling /\ sig' = [sig EXCEPT ![i] = s]
    BY <1>3 DEF Lost
  <2>2. sig[i].ws # "none"
    BY <1>3 DEF Lost
  <2> QED
    BY <1>3, <2>1, <2>2 DEF Lost, OwnStep
<1>4. CASE Retry(i)
  <2> DEFINE s == [sig[i] EXCEPT !.retry = FALSE,
                                 !.ws = IF Reconnects(sig[i]) THEN "connecting" ELSE @]
  <2>1. s \in Signaling /\ sig' = [sig EXCEPT ![i] = s]
    BY <1>4 DEF Retry
  <2>2. s.ws # "none" => Live(i)
    BY <1>4 DEF Retry, Reconnects
  <2> QED
    BY <1>4, <2>1, <2>2 DEF Retry, OwnStep
<1>5. CASE Refused(i)
  <2> DEFINE s == [sig[i] EXCEPT !.ws = "refused"]
  <2>1. s \in Signaling /\ sig' = [sig EXCEPT ![i] = s]
    BY <1>5 DEF Refused
  <2> QED
    BY <1>5, <2>1 DEF Refused, OwnStep
<1>6. CASE Joined(i)
  <2> DEFINE s == [sig[i] EXCEPT !.ws = "in_room"]
  <2>1. s \in Signaling /\ sig' = [sig EXCEPT ![i] = s]
    BY <1>6 DEF Joined
  <2> QED
    BY <1>6, <2>1 DEF Joined, OwnStep
<1> QED
  BY <1>1, <1>2, <1>3, <1>4, <1>5, <1>6

\* After CloseSignaling the object that the closure refers to is not live.
LEMMA ClosedIsSilent ==
    ASSUME SocketTypes, CloseSignaling
    PROVE  /\ sig' \in [Inits -> Signaling]
           /\ \A i \in Inits : Live(i)' => i # signaling /\ Live(i)
<1>1. \A i \in Inits : [sig[i] EXCEPT !.closed = TRUE, !.ws = "none"] \in Signaling
  BY DEF SocketTypes, Signaling
<1> QED
  BY <1>1 DEF SocketTypes, Signaling, CloseSignaling, Live

LEMMA SocketInvNext == SocketInv /\ [Next]_vars => SocketInv'
<1> SUFFICES ASSUME SocketInv, [Next]_vars PROVE SocketInv'
  OBVIOUS
<1> USE DEF SocketInv
<1>1. CASE UNCHANGED socketVars
  BY <1>1 DEF socketVars, SocketTypes, Live, Asking
<1>2. CASE Mount
  <2>1. Cardinality(Started) + 1 \in Inits /\ ~mounted
    BY <1>2, StartedIsFinite, ClientBounds DEF Mount, Inits
  <2>2. PICK n \in Inits : media' = [media EXCEPT ![n] = "asking"]
    BY <1>2, <2>1 DEF Mount
  <2>3. mounted' = TRUE /\ UNCHANGED <<sig, signaling, raced>>
    BY <1>2 DEF Mount, sigVars
  <2>4. SocketTypes'
    BY <2>2, <2>3 DEF SocketTypes
  <2>5. ~raced => Asking = {} /\ \A i \in Inits : ~Live(i)
    BY <2>1 DEF SocketTypes
  <2>6. ~raced' => \A i \in Asking' : i = n
    BY <2>2, <2>3, <2>5 DEF Asking, SocketTypes
  <2>7. \A i : Live(i)' = Live(i)
    BY <2>3 DEF Live
  <2> QED
    BY <2>3, <2>4, <2>5, <2>6, <2>7 DEF Asking
<1>3. ASSUME NEW n \in Inits, MediaGranted(n) \/ MediaDenied(n) PROVE SocketInv'
  <2>1. n \in Asking /\ media' = [media EXCEPT ![n] = "done"]
        /\ UNCHANGED <<mounted, raced>>
    BY <1>3 DEF MediaGranted, MediaDenied, Asking
  <2>2. Asking' \subseteq Asking \ {n}
    BY <2>1 DEF Asking, SocketTypes
  <2>3. ~raced => Asking' = {} /\ mounted /\ \A i \in Inits : ~Live(i)
    BY <2>1, <2>2
  <2>4. SocketTypes'
    BY <1>3, <2>1 DEF MediaGranted, MediaDenied, SocketTypes, Signaling, sigVars
  <2>5. \A i \in Inits : ~Live(i) /\ Live(i)' => i = signaling'
    BY <1>3 DEF MediaGranted, MediaDenied, SocketTypes, Signaling, sigVars, Live
  <2> QED
    BY <2>1, <2>2, <2>3, <2>4, <2>5
<1>4. CASE Hangup \/ Destroy
  <2>1. CloseSignaling /\ signaling' \in {signaling, None} /\ media' = media
        /\ mounted' \in BOOLEAN /\ raced' = (raced \/ Asking # {})
    BY <1>4 DEF Hangup, Destroy, SocketTypes
  <2>2. /\ sig' \in [Inits -> Signaling]
        /\ \A i \in Inits : Live(i)' => i # signaling /\ Live(i)
    BY <2>1, ClosedIsSilent
  <2>3. SocketTypes'
    BY <2>1, <2>2 DEF SocketTypes
  <2>4. ~raced' => ~raced /\ Asking' = {}
    BY <2>1 DEF Asking
  <2> QED
    BY <2>2, <2>3, <2>4
<1>5. ASSUME NEW n \in Inits,
             Opened(n) \/ Lost(n) \/ Retry(n) \/ Refused(n) \/ Joined(n)
      PROVE  SocketInv'
  <2>1. PICK s \in Signaling :
          /\ sig' = [sig EXCEPT ![n] = s] /\ UNCHANGED <<media, signaling, mounted, raced>>
          /\ s.ws # "none" \/ (s.retry /\ ~s.closed) => Live(n)
    BY <1>5, SocketSteps DEF OwnStep
  <2>2. SocketTypes'
    BY <2>1 DEF SocketTypes
  <2>3. \A i \in Inits : Live(i)' => Live(i)
    BY <2>1 DEF Live, SocketTypes
  <2> QED
    BY <2>1, <2>2, <2>3 DEF Asking
<1>6. ASSUME NEW n \in Inits, Signal(n) \/ PeerJoined(n) \/ PeerLeft(n)
      PROVE  UNCHANGED socketVars
  BY <1>6 DEF Signal, PeerJoined, PeerLeft, sigVars, pageVars, socketVars
<1>7. ASSUME NEW k \in Calls, CallMade(k) \/ ConnectionState(k)
      PROVE  UNCHANGED socketVars
  BY <1>7 DEF CallMade, ConnectionState, PcConnected, PcFailed, PcClosed, sigVars, pageVars,
     socketVars
<1>8. CASE UNCHANGED vars
  BY <1>1, <1>8 DEF vars, sigVars, pageVars, socketVars
<1> QED
  BY <1>1, <1>2, <1>3, <1>4, <1>5, <1>6, <1>7, <1>8 DEF Next

LEMMA SocketInvInit == Init => SocketInv
<1> SUFFICES ASSUME Init PROVE SocketInv
  OBVIOUS
<1>1. SocketTypes
  BY DEF Init, SocketTypes, Signaling, NewSignaling
<1> QED
  BY <1>1 DEF Init, SocketInv, Live, Asking, NewSignaling

LEMMA SocketInvAlways == Spec => []SocketInv
BY SocketInvInit, SocketInvNext, PTL DEF Spec

\* The page has one socket or timer at a time, and none after hangup, unless it
\* was left while the browser asked for the camera (useCall.svelte.ts:96 to 305).
THEOREM PageHasOneSocket == Spec => []OneSocket
<1>1. SocketInv => OneSocket
  <2> SUFFICES ASSUME SocketInv, ~raced PROVE OneSocket
    BY DEF OneSocket
  <2> DEFINE open == {i \in Inits : sig[i].ws # "none"}
  <2>1. open \subseteq {signaling} /\ (signaling = None => open = {})
    BY ClientBounds DEF SocketInv, Live, None, Inits
  <2>2. Cardinality(open) <= 1
    <3>1. IsFiniteSet({signaling}) /\ Cardinality({signaling}) = 1
      BY FS_Singleton
    <3> HIDE DEF open
    <3> QED
      BY <2>1, <3>1, FS_Subset
  <2> QED
    BY <2>1, <2>2 DEF OneSocket
<1> QED
  BY <1>1, SocketInvAlways, PTL

-----------------------------------------------------------------------------
(* What the page shows                                                     *)

\* A timer that was cleared but is not null is one of a room the page has left,
\* a call that is shown has one, cleared or not, and only the first connection
\* after an init is tracked.
ViewInv ==
    /\ mounted \/ timer = "dead" => Started # {}
    /\ timer = "dead" /\ mounted => ~FirstRoom
    /\ ringing => status \in {"waiting", "failed"}
    /\ status = "connected" => timer # "null"
    /\ timer \in {"null", "running", "dead"}
    /\ tracked \in Nat /\ tracked <= IF hasConnectedOnce THEN 1 ELSE 0

LEMMA ViewInvNext == SocketTypes /\ ViewInv /\ [Next]_vars => ViewInv'
<1> SUFFICES ASSUME SocketTypes, ViewInv, [Next]_vars PROVE ViewInv'
  OBVIOUS
<1> USE DEF SocketTypes, ViewInv
<1>1. ASSUME media' = media PROVE Started' = Started /\ FirstRoom' = FirstRoom
  BY <1>1 DEF Started, FirstRoom
<1>2. CASE Mount
  <2> DEFINE n == Cardinality(Started) + 1
  <2>1. n \in Inits
    BY <1>2, StartedIsFinite, ClientBounds DEF Mount, Inits
  <2>2. Started # {} => n > 1
    <3>1. IsFiniteSet(Started)
      BY FS_Interval, FS_Subset, ClientBounds DEF Started, Inits
    <3> QED
      BY <3>1, StartedIsFinite, FS_EmptySet
  <2>3. n \in Started' /\ (n > 1 => ~FirstRoom')
    BY <1>2, <2>1 DEF Mount, Started, FirstRoom
  <2>4. mounted' = TRUE /\ hasConnectedOnce' = FALSE /\ tracked' = 0
        /\ UNCHANGED <<status, ringing, timer>>
    BY <1>2 DEF Mount
  <2> HIDE DEF n
  <2> QED
    BY <2>2, <2>3, <2>4
<1>3. ASSUME NEW i \in Inits, MediaGranted(i) \/ MediaDenied(i) PROVE ViewInv'
  <2>1. Started' = Started /\ i \in Started
    BY <1>3 DEF MediaGranted, MediaDenied, Started
  <2>2. mounted' = mounted /\ timer' = timer /\ FirstRoom' = FirstRoom
    BY <1>3, <2>1 DEF MediaGranted, MediaDenied, FirstRoom
  <2> QED
    BY <1>3, <2>1, <2>2 DEF MediaGranted, MediaDenied
<1>4. CASE Hangup
  BY <1>1, <1>4 DEF Hangup
<1>5. CASE Destroy
  BY <1>1, <1>5 DEF Destroy
<1>6. ASSUME NEW i \in Inits, \/ Opened(i) \/ Lost(i) \/ Retry(i) \/ Refused(i) \/ Joined(i)
                              \/ Signal(i) \/ PeerJoined(i) \/ PeerLeft(i)
      PROVE  ViewInv'
  <2>1. UNCHANGED <<mounted, media, hasConnectedOnce, tracked>>
    BY <1>6 DEF Opened, Lost, Retry, Refused, Joined, Signal, PeerJoined, PeerLeft,
       pageVars, viewVars
  <2>2. timer' = timer \/ (timer' = "null" /\ status' # "connected")
    BY <1>6 DEF Opened, Lost, Retry, Refused, Joined, Signal, PeerJoined, PeerLeft, viewVars
  <2>3. /\ ringing' => ringing \/ status' = "waiting"
        /\ status' \in {status, "failed", "waiting"}
    BY <1>6 DEF Opened, Lost, Retry, Refused, Joined, Signal, PeerJoined, PeerLeft, viewVars
  <2> QED
    BY <1>1, <2>1, <2>2, <2>3
<1>7. ASSUME NEW k \in Calls, CallMade(k) \/ ConnectionState(k) PROVE ViewInv'
  <2>1. UNCHANGED <<mounted, media>>
    BY <1>7 DEF CallMade, ConnectionState, PcConnected, PcFailed, PcClosed, pageVars
  <2>2. CASE CallMade(k)
    BY <1>1, <2>1, <2>2 DEF CallMade, viewVars
  <2>3. CASE PcConnected(k)
    BY <1>1, <2>1, <2>3 DEF PcConnected, Counts
  <2>4. CASE PcFailed(k) \/ PcClosed(k)
    BY <1>1, <2>1, <2>4 DEF PcFailed, PcClosed
  <2> QED
    BY <1>7, <2>2, <2>3, <2>4 DEF ConnectionState
<1>8. CASE UNCHANGED vars
  BY <1>1, <1>8 DEF vars, viewVars, pageVars
<1> QED
  BY <1>2, <1>3, <1>4, <1>5, <1>6, <1>7, <1>8 DEF Next

\* Ringing, timer and tracking fit what is shown, whichever callbacks of however
\* many peer connections came last, the first room's calls being timed and those
\* of a later room timed unless the timer of an earlier one is still in its
\* variable, cleared (useCall.svelte.ts:132 to 195, 419).
THEOREM PageFitsAlways == Spec => []PageFits
<1>1. Init => SocketTypes /\ ViewInv
  BY SocketInvInit DEF Init, SocketInv, ViewInv
<1>2. ViewInv => PageFits
  BY DEF ViewInv, PageFits
<1> QED
  BY <1>1, <1>2, SocketInvAlways, ViewInvNext, PTL DEF Spec, SocketInv

-----------------------------------------------------------------------------
(* Signals                                                                 *)

Said(n) == [m \in 1 .. n |-> m]

SignalTypes ==
    /\ given \in [Calls -> Seq(Nat)] /\ pendingSignals \in Seq(Nat)
    /\ joins \in 0 .. MaxJoins /\ received \in Nat /\ call \in Calls \cup {None}
    /\ fetching \subseteq 1 .. joins
    /\ \A i \in Inits : sig[i].ws = "in_room" => joins # 0
    /\ joins = 0 => received = 0 /\ pendingSignals = <<>> /\ call = None
                    /\ \A k \in Calls : given[k] = <<>>

\* The first call has what was received, but for what waits for it; nothing
\* waits once it is made.
FirstCall ==
    joins = 1 =>
        /\ given[1] \o pendingSignals = Said(received)
        /\ call \in {None, 1}
        /\ 1 \in fetching => call = None /\ given[1] = <<>>
        /\ call = 1 => pendingSignals = <<>>

SignalInv == SignalTypes /\ (~reused => joins <= 1 /\ FirstCall)

LEMMA ConcatAppend ==
    ASSUME NEW s \in Seq(Nat), NEW t \in Seq(Nat), NEW x \in Nat
    PROVE  s \o Append(t, x) = Append(s \o t, x)
OBVIOUS

LEMMA ConcatEmpty ==
    ASSUME NEW s \in Seq(Nat), NEW x \in Nat
    PROVE  s \o <<>> = s /\ <<>> \o s = s /\ Append(s, x) \o <<>> = Append(s, x)
OBVIOUS

LEMMA SaidMore ==
    ASSUME NEW s \in Seq(Nat), NEW t \in Seq(Nat), NEW n \in Nat, s \o t = Said(n)
    PROVE  /\ s \o Append(t, n + 1) = Said(n + 1)
           /\ t = <<>> => Append(s, n + 1) \o t = Said(n + 1)
<1>1. Append(Said(n), n + 1) = Said(n + 1) /\ Said(n) \in Seq(Nat)
  BY DEF Said
<1>2. s \o Append(t, n + 1) = Append(s \o t, n + 1)
  <2>1. n + 1 \in Nat
    OBVIOUS
  <2> QED
    BY <2>1, ConcatAppend, Zenon
<1>3. t = <<>> => s \o t = s /\ Append(s, n + 1) \o t = Append(s, n + 1)
  BY ConcatEmpty
<1> QED
  BY <1>1, <1>2, <1>3

LEMMA SignalInvNext == SocketTypes /\ SignalInv /\ [Next]_vars => SignalInv'
<1> SUFFICES ASSUME SocketTypes, SignalInv, [Next]_vars PROVE SignalInv'
  OBVIOUS
<1> USE ClientBounds DEF SignalInv
<1> DEFINE sent == <<given, pendingSignals, joins, received, call, fetching>>
<1>1. ASSUME UNCHANGED sent, reused => reused',
             \A i \in Inits : sig'[i].ws = "in_room" => sig[i].ws = "in_room"
      PROVE  SignalInv'
  BY <1>1 DEF SignalTypes, FirstCall
<1>2. CASE Mount
  BY <1>1, <1>2 DEF Mount, sigVars, callVars
<1>3. ASSUME NEW n \in Inits, MediaGranted(n) \/ MediaDenied(n) PROVE SignalInv'
  <2>1. \A i \in Inits : sig'[i].ws = "in_room" => sig[i].ws = "in_room"
    BY <1>3 DEF MediaGranted, MediaDenied, sigVars, SocketTypes, Signaling
  <2> QED
    BY <1>1, <1>3, <2>1 DEF MediaGranted, MediaDenied, callVars
<1>4. CASE Hangup \/ Destroy
  <2>1. \A i \in Inits : sig'[i].ws = "in_room" => sig[i].ws = "in_room"
    BY <1>4 DEF Hangup, Destroy, CloseSignaling, SocketTypes, Signaling
  <2>2. UNCHANGED <<given, pendingSignals, joins, received, fetching, reused>>
        /\ call' \in {call, None}
    BY <1>4 DEF Hangup, Destroy
  <2> QED
    BY <2>1, <2>2 DEF SignalTypes, FirstCall
<1>5. ASSUME NEW n \in Inits, Opened(n) \/ Lost(n) \/ Retry(n) \/ Refused(n) PROVE SignalInv'
  <2>1. \A i \in Inits : sig'[i].ws = "in_room" => sig[i].ws = "in_room"
    BY <1>5 DEF Opened, Lost, Retry, Refused, SocketTypes, Signaling
  <2> QED
    BY <1>1, <1>5, <2>1 DEF Opened, Lost, Retry, Refused, callVars
<1>6. ASSUME NEW n \in Inits, Joined(n) PROVE SignalInv'
  <2>1. /\ joins < MaxJoins /\ joins' = joins + 1 /\ fetching' = fetching \cup {joins + 1}
        /\ reused' = (reused \/ joins > 0) /\ UNCHANGED <<callVars, received>>
    BY <1>6 DEF Joined
  <2>2. SignalTypes'
    <3>1. joins' \in 0 .. MaxJoins /\ joins' # 0 /\ fetching' \subseteq 1 .. joins'
      BY <2>1 DEF SignalTypes
    <3> QED
      BY <2>1, <3>1 DEF SignalTypes, callVars
  <2>3. CASE joins = 0
    <3>1. 1 \in Calls /\ Said(received) = <<>>
      BY <2>1, <2>3 DEF Calls, Said, SignalTypes
    <3>2. FirstCall'
      BY <2>1, <2>3, <3>1 DEF SignalTypes, FirstCall, callVars, Said, None
    <3> QED
      BY <2>1, <2>2, <2>3, <3>2
  <2>4. CASE joins # 0
    <3>1. joins > 0
      BY <2>4 DEF SignalTypes
    <3>2. reused'
      BY <2>1, <3>1, Zenon
    <3> QED
      BY <2>2, <3>2
  <2> QED
    BY <2>3, <2>4
<1>7. ASSUME NEW n \in Inits, Signal(n) PROVE SignalInv'
  <2>1. /\ sig[n].ws = "in_room" /\ received' = received + 1
        /\ UNCHANGED <<sig, joins, call, fetching, reused>>
    BY <1>7 DEF Signal, sigVars
  <2>2. /\ call # None => given' = [given EXCEPT ![call] = Append(@, received + 1)]
                          /\ pendingSignals' = pendingSignals
        /\ call = None => pendingSignals' = Append(pendingSignals, received + 1)
                          /\ given' = given
    BY <1>7 DEF Signal
  <2>3. given' \in [Calls -> Seq(Nat)] /\ pendingSignals' \in Seq(Nat)
    <3>1. \A s \in Seq(Nat) : Append(s, received + 1) \in Seq(Nat)
      BY DEF SignalTypes
    <3>2. given \in [Calls -> Seq(Nat)] /\ pendingSignals \in Seq(Nat)
      BY DEF SignalTypes
    <3>3. CASE call = None
      BY <2>2, <3>1, <3>2, <3>3
    <3>4. CASE call # None
      BY <2>2, <3>1, <3>2, <3>4
    <3> QED
      BY <3>3, <3>4
  <2>4. SignalTypes'
    BY <2>1, <2>3 DEF SignalTypes
  <2>5. ASSUME ~reused, joins = 1, FirstCall PROVE FirstCall'
    <3>1. 1 \in Calls /\ given[1] \in Seq(Nat)
      BY <2>5 DEF SignalTypes, Calls
    <3>2. /\ given[1] \o Append(pendingSignals, received + 1) = Said(received + 1)
          /\ pendingSignals = <<>> =>
               Append(given[1], received + 1) \o pendingSignals = Said(received + 1)
      BY <2>5, <3>1, SaidMore DEF SignalTypes, FirstCall
    <3>3. CASE call = None
      <4>1. given' = given /\ pendingSignals' = Append(pendingSignals, received + 1)
        BY <2>2, <3>3
      <4>2. (given[1] \o pendingSignals)' = Said(received)'
        BY <2>1, <3>2, <4>1
      <4>3. /\ call' = None /\ fetching' = fetching /\ given' = given
            /\ 1 \in fetching => given[1] = <<>>
        BY <2>1, <2>5, <3>3, <4>1 DEF FirstCall
      <4>4. /\ call' \in {None, 1} /\ (1 \in fetching' => call' = None /\ given'[1] = <<>>)
            /\ (call' = 1 => pendingSignals' = <<>>)
        BY <4>3 DEF None
      <4> QED
        BY <4>2, <4>4 DEF FirstCall
    <3>4. CASE call = 1
      BY <2>1, <2>2, <2>5, <3>1, <3>2, <3>4 DEF FirstCall, None, SignalTypes
    <3> QED
      BY <2>5, <3>3, <3>4 DEF FirstCall
  <2>6. joins # 1 => FirstCall'
    BY <2>1 DEF FirstCall
  <2> QED
    BY <2>1, <2>4, <2>5, <2>6
<1>8. ASSUME NEW n \in Inits, PeerJoined(n) \/ PeerLeft(n) PROVE SignalInv'
  BY <1>1, <1>8 DEF PeerJoined, PeerLeft, sigVars, callVars
<1>9. ASSUME NEW k \in Calls, CallMade(k) PROVE SignalInv'
  <2>1. /\ k \in fetching /\ fetching' = fetching \ {k} /\ call' = k
        /\ given' = [given EXCEPT ![k] = pendingSignals] /\ pendingSignals' = <<>>
        /\ UNCHANGED <<sig, joins, received, reused>>
    BY <1>9 DEF CallMade, sigVars
  <2>2. SignalTypes'
    BY <2>1 DEF SignalTypes
  <2>3. ASSUME ~reused, joins = 1, FirstCall PROVE FirstCall'
    <3>1. k = 1
      BY <2>1, <2>3 DEF SignalTypes
    <3>2. given'[1] \o pendingSignals' = given[1] \o pendingSignals
      <4>1. given[1] = <<>> /\ given'[1] = pendingSignals /\ pendingSignals' = <<>>
        BY <2>1, <2>3, <3>1 DEF SignalTypes, FirstCall
      <4>2. pendingSignals \o <<>> = <<>> \o pendingSignals
        BY ConcatEmpty DEF SignalTypes
      <4> QED
        BY <4>1, <4>2
    <3>3. (given[1] \o pendingSignals)' = Said(received)'
      <4>1. given[1] \o pendingSignals = Said(received) /\ received' = received
        BY <2>1, <2>3 DEF FirstCall
      <4> QED
        BY <3>2, <4>1
    <3>4. call' = 1 /\ 1 \notin fetching' /\ pendingSignals' = <<>>
      BY <2>1, <3>1
    <3> QED
      BY <3>3, <3>4 DEF FirstCall
  <2>4. joins # 1 => FirstCall'
    BY <2>1 DEF FirstCall
  <2> QED
    BY <2>1, <2>2, <2>3, <2>4
<1>10. ASSUME NEW k \in Calls, ConnectionState(k) PROVE SignalInv'
  BY <1>1, <1>10 DEF ConnectionState, PcConnected, PcFailed, PcClosed, sigVars, callVars
<1>11. CASE UNCHANGED vars
  BY <1>1, <1>11 DEF vars, sigVars, callVars
<1> QED
  BY <1>2, <1>3, <1>4, <1>5, <1>6, <1>7, <1>8, <1>9, <1>10, <1>11 DEF Next

\* Signals that come while the credentials are fetched are neither lost nor
\* doubled nor reordered (useCall.svelte.ts:132 to 172).
THEOREM NothingIsLost == Spec => []NothingLostBeforeCall
<1>1. Init => SignalInv
  BY ClientBounds DEF Init, SignalInv, SignalTypes, FirstCall, NewSignaling, Calls
<1>2. SignalInv => NothingLostBeforeCall
  <2> SUFFICES ASSUME SignalInv, ~reused, NEW k \in Calls, joins = k
               PROVE  given[k] \o pendingSignals = Said(received)
    BY DEF NothingLostBeforeCall, Said
  <2>1. k = 1
    BY ClientBounds DEF SignalInv, SignalTypes, Calls
  <2> QED
    BY <2>1 DEF SignalInv, FirstCall
<1> QED
  BY <1>1, <1>2, SocketInvAlways, SignalInvNext, PTL DEF Spec, SocketInv

=============================================================================
