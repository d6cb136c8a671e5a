----------------------------- MODULE CallClient -----------------------------
(***************************************************************************)
(* The call page of the web client: useCall (web/src/lib/useCall.svelte.ts)*)
(* with the CallSignaling object (signaling.ts) and the RTCPeerConnections *)
(* (webrtc.ts) it creates.                                                 *)
(*                                                                         *)
(* One closure of useCall lives as long as the page; navigating to another *)
(* room runs destroy() and then init() on the same closure.  Between two   *)
(* events JavaScript runs one function to its next await, so an action is  *)
(* a callback or the part of an async function up to an await:             *)
(* getUserMedia in init, fetchTurnCredentials in onJoined.  Each init      *)
(* makes a CallSignaling of its own, numbered like the init; each "joined" *)
(* message makes a call, numbered in the order of those messages.          *)
(*                                                                         *)
(* Media tracks, sounds, picture-in-picture and the wake lock are left     *)
(* out, ringing and the call timer are kept.                               *)
(*                                                                         *)
(* An operator marked "mutant" is a deliberately broken variant of the     *)
(* definition below it; nothing uses it but the mutation runs.             *)
(***************************************************************************)
EXTENDS Naturals, Sequences, FiniteSets

CONSTANTS MAX_RECONNECTS,   \* signaling.ts:16
          MaxInits,         \* bound: rooms visited by the page
          MaxJoins,         \* bound: "joined" messages in all
          MaxSignals        \* bound: signals received in all

ASSUME ClientBounds == /\ MAX_RECONNECTS \in Nat
                       /\ MaxInits \in Nat /\ MaxJoins \in Nat /\ MaxSignals \in Nat

Inits == 1 .. MaxInits
Calls == 1 .. MaxJoins
None == 0

VARIABLES
    status,          \* what the page shows
    mounted,         \* the page is between init() and destroy()
    media,           \* media[i]: "none", "asking" (awaits getUserMedia), "done"
    sig,             \* sig[i]: the CallSignaling of the i-th init
    signaling,       \* the one the closure refers to
    fetching,        \* the onJoined calls that await the credentials
    joins,           \* "joined" messages received
    pc,              \* pc[k]: the RTCPeerConnection of the k-th call
    call,            \* the call the closure refers to
    pendingSignals,  \* signals that arrived without a call
    pendingPeerJoined,
    ringing,
    timer,           \* "null", "running", or "dead": cleared, not null
    hasConnectedOnce,
    tracked,         \* call_connected events since the last init
    given,           \* history: given[k], the signals handed to the k-th call
    received,        \* history: signals received
    raced,           \* history: hangup or destroy came while init awaited
    reused           \* history: a call has been replaced, or the closure reused

sigVars == <<sig, signaling>>
callVars == <<pc, call, pendingSignals, pendingPeerJoined, given>>
viewVars == <<status, ringing, timer, hasConnectedOnce, tracked>>
pageVars == <<mounted, media, raced>>
vars == <<sigVars, callVars, viewVars, pageVars, fetching, joins, received, reused>>

NewSignaling == [ws |-> "none", closed |-> FALSE, attempts |-> 0, retry |-> FALSE]

Init ==
    /\ status = "init" /\ mounted = FALSE
    /\ media = [i \in Inits |-> "none"]
    /\ sig = [i \in Inits |-> NewSignaling] /\ signaling = None
    /\ fetching = {} /\ joins = 0
    /\ pc = [k \in Calls |-> "none"] /\ call = None
    /\ pendingSignals = <<>> /\ pendingPeerJoined = FALSE
    /\ ringing = FALSE /\ timer = "null"
    /\ hasConnectedOnce = FALSE /\ tracked = 0
    /\ given = [k \in Calls |-> <<>>] /\ received = 0
    /\ raced = FALSE /\ reused = FALSE

Asking == {i \in Inits : media[i] = "asking"}
Started == {i \in Inits : media[i] # "none"}

-----------------------------------------------------------------------------
(* The page                                                                *)

\* init() up to getUserMedia.
Mount ==
    /\ ~mounted /\ Cardinality(Started) < MaxInits
    /\ mounted' = TRUE
    /\ media' = [media EXCEPT ![Cardinality(Started) + 1] = "asking"]
    /\ hasConnectedOnce' = FALSE /\ tracked' = 0
    /\ reused' = (reused \/ Started # {})
    /\ UNCHANGED <<sigVars, callVars, status, ringing, timer, raced, fetching, joins, received>>

\* getUserMedia succeeds, for video or for audio only: the rest of init().
MediaGranted(i) ==
    /\ media[i] = "asking"
    /\ media' = [media EXCEPT ![i] = "done"]
    /\ status' = "waiting" /\ ringing' = TRUE
    /\ signaling' = i
    /\ sig' = [sig EXCEPT ![i].ws = "connecting"]
    /\ UNCHANGED <<callVars, timer, hasConnectedOnce, tracked, mounted, raced,
                   fetching, joins, received, reused>>

MediaDenied(i) ==
    /\ media[i] = "asking"
    /\ media' = [media EXCEPT ![i] = "done"]
    /\ status' = "failed"
    /\ UNCHANGED <<sigVars, callVars, ringing, timer, hasConnectedOnce, tracked, mounted, raced,
                   fetching, joins, received, reused>>

\* call?.close(): a call that exists is closed, and fires no more events but
\* the "closed" some browsers report.
CloseCall == pc' = [k \in Calls |-> IF k = call THEN "closed" ELSE pc[k]]

\* signaling?.close(): leave is sent, onclose is dropped, the socket closed.
CloseSignaling ==
    sig' = [i \in Inits |-> IF i = signaling THEN [sig[i] EXCEPT !.closed = TRUE, !.ws = "none"]
                            ELSE sig[i]]

Hangup ==
    /\ mounted /\ status # "ended"
    /\ ringing' = FALSE /\ timer' = "null"
    /\ CloseCall /\ call' = None
    /\ CloseSignaling /\ signaling' = None
    /\ status' = "ended"
    /\ raced' = (raced \/ Asking # {})
    /\ UNCHANGED <<pendingSignals, pendingPeerJoined, given, hasConnectedOnce, tracked,
                   mounted, media, fetching, joins, received, reused>>

\* destroy(): the references stay.
Destroy ==
    /\ mounted
    /\ mounted' = FALSE
    /\ ringing' = FALSE
    /\ timer' = IF timer = "running" THEN "dead" ELSE timer
    /\ CloseCall /\ CloseSignaling
    /\ raced' = (raced \/ Asking # {})
    /\ UNCHANGED <<signaling, call, pendingSignals, pendingPeerJoined, given, status,
                   hasConnectedOnce, tracked, media, fetching, joins, received, reused>>

-----------------------------------------------------------------------------
(* CallSignaling                                                           *)

\* onopen: the counter is reset, join is sent.
Opened(i) ==
    /\ sig[i].ws = "connecting"
    /\ sig' = [sig EXCEPT ![i].ws = "open", ![i].attempts = 0]
    /\ UNCHANGED <<signaling, callVars, viewVars, pageVars, fetching, joins, received, reused>>

CanRetry(s) == ~s.closed /\ s.attempts < MAX_RECONNECTS

\* onclose: another attempt after BACKOFF[attempts], or "Connection lost".
Attempts_Forgotten(n) == n                                           \* mutant
Attempts(n) == n + 1
Lost(i) ==
    /\ sig[i].ws \in {"connecting", "open", "refused", "in_room"}
    /\ IF CanRetry(sig[i])
       THEN /\ sig' = [sig EXCEPT ![i].ws = "none", ![i].retry = TRUE,
                                  ![i].attempts = Attempts(@)]
            /\ UNCHANGED status
       ELSE /\ sig' = [sig EXCEPT ![i].ws = "none"]
            /\ status' = IF sig[i].closed THEN status ELSE "failed"
    /\ UNCHANGED <<signaling, callVars, ringing, timer, hasConnectedOnce, tracked, pageVars,
                   fetching, joins, received, reused>>

\* The timer of a retry.
Reconnects_Always(s) == TRUE                                         \* mutant
Reconnects(s) == ~s.closed
Retry(i) ==
    /\ sig[i].retry
    /\ sig' = [sig EXCEPT ![i].retry = FALSE,
                          ![i].ws = IF Reconnects(sig[i]) THEN "connecting" ELSE @]
    /\ UNCHANGED <<signaling, callVars, viewVars, pageVars, fetching, joins, received, reused>>

\* An error message of the server, which closes the connection after it.
Refused(i) ==
    /\ sig[i].ws = "open"
    /\ sig' = [sig EXCEPT ![i].ws = "refused"]
    /\ status' = "failed"
    /\ UNCHANGED <<signaling, callVars, ringing, timer, hasConnectedOnce, tracked, pageVars,
                   fetching, joins, received, reused>>

-----------------------------------------------------------------------------
(* The callbacks                                                           *)

\* onJoined up to fetchTurnCredentials, which always returns something.
Joined(i) ==
    /\ sig[i].ws = "open" /\ joins < MaxJoins
    /\ sig' = [sig EXCEPT ![i].ws = "in_room"]
    /\ joins' = joins + 1 /\ fetching' = fetching \cup {joins + 1}
    /\ reused' = (reused \/ joins > 0)
    /\ UNCHANGED <<signaling, callVars, viewVars, pageVars, received>>

\* The rest of onJoined: a call is made whatever happened in between, an offer
\* if a peer has joined, and the signals that waited are handed to it.
CallMade_KeepsPending(k) ==                                          \* mutant
    /\ k \in fetching
    /\ fetching' = fetching \ {k}
    /\ pc' = [pc EXCEPT ![k] = "open"] /\ call' = k
    /\ given' = [given EXCEPT ![k] = pendingSignals]
    /\ pendingPeerJoined' = FALSE
    /\ UNCHANGED <<sigVars, pendingSignals, viewVars, pageVars, joins, received, reused>>
CallMade(k) ==
    /\ k \in fetching
    /\ fetching' = fetching \ {k}
    /\ pc' = [pc EXCEPT ![k] = "open"] /\ call' = k
    /\ given' = [given EXCEPT ![k] = pendingSignals]
    /\ pendingSignals' = <<>> /\ pendingPeerJoined' = FALSE
    /\ UNCHANGED <<sigVars, viewVars, pageVars, joins, received, reused>>

\* onSignal.
Signal(i) ==
    /\ sig[i].ws = "in_room" /\ received < MaxSignals
    /\ received' = received + 1
    /\ IF call # None
       THEN /\ given' = [given EXCEPT ![call] = Append(@, received + 1)]
            /\ UNCHANGED pendingSignals
       ELSE /\ pendingSignals' = Append(pendingSignals, received + 1)
            /\ UNCHANGED given
    /\ UNCHANGED <<sigVars, pc, call, pendingPeerJoined, viewVars, pageVars, fetching, joins,
                   reused>>

\* onPeerJoined: the offer of an existing call is not followed here.
PeerJoined(i) ==
    /\ sig[i].ws = "in_room"
    /\ pendingPeerJoined' = (pendingPeerJoined \/ call = None)
    /\ UNCHANGED <<sigVars, pc, call, pendingSignals, given, viewVars, pageVars,
                   fetching, joins, received, reused>>

\* onPeerLeft: clearInterval, and the variable is null again.
PeerLeft_KeepsTimer(i) ==                                            \* mutant
    /\ sig[i].ws = "in_room"
    /\ status' = "waiting" /\ ringing' = TRUE
    /\ timer' = IF timer = "running" THEN "dead" ELSE timer
    /\ UNCHANGED <<sigVars, callVars, hasConnectedOnce, tracked, pageVars,
                   fetching, joins, received, reused>>
PeerLeft(i) ==
    /\ sig[i].ws = "in_room"
    /\ status' = "waiting" /\ ringing' = TRUE
    /\ timer' = "null"
    /\ UNCHANGED <<sigVars, callVars, hasConnectedOnce, tracked, pageVars,
                   fetching, joins, received, reused>>

-----------------------------------------------------------------------------
(* onConnectionState, fired by any RTCPeerConnection that is not closed.   *)

Counts == ~hasConnectedOnce
PcConnected_RingsOn(k) ==                                            \* mutant
    /\ pc[k] = "open"
    /\ hasConnectedOnce' = TRUE
    /\ tracked' = IF Counts THEN tracked + 1 ELSE tracked
    /\ status' = "connected" /\ UNCHANGED ringing
    /\ timer' = IF timer = "null" THEN "running" ELSE timer
    /\ UNCHANGED <<sigVars, callVars, pageVars, fetching, joins, received, reused>>
PcConnected(k) ==
    /\ pc[k] = "open"
    /\ hasConnectedOnce' = TRUE
    /\ tracked' = IF Counts THEN tracked + 1 ELSE tracked
    /\ status' = "connected" /\ ringing' = FALSE
    /\ timer' = IF timer = "null" THEN "running" ELSE timer
    /\ UNCHANGED <<sigVars, callVars, pageVars, fetching, joins, received, reused>>

PcFailed(k) ==
    /\ pc[k] = "open"
    /\ status' = "failed" /\ ringing' = FALSE
    /\ UNCHANGED <<sigVars, callVars, timer, hasConnectedOnce, tracked, pageVars,
                   fetching, joins, received, reused>>

PcClosed(k) ==
    /\ pc[k] = "closed"
    /\ pc' = [pc EXCEPT ![k] = "gone"]
    /\ ringing' = FALSE
    /\ status' = IF status = "ended" THEN status ELSE "waiting"
    /\ UNCHANGED <<sigVars, call, pendingSignals, pendingPeerJoined, given, timer,
                   hasConnectedOnce, tracked, pageVars, fetching, joins, received, reused>>

ConnectionState(k) == PcConnected(k) \/ PcFailed(k) \/ PcClosed(k)

-----------------------------------------------------------------------------
Next ==
    \/ Mount \/ Hangup \/ Destroy
    \/ \E i \in Inits :
        \/ MediaGranted(i) \/ MediaDenied(i)
        \/ Opened(i) \/ Lost(i) \/ Retry(i) \/ Refused(i)
        \/ Joined(i) \/ Signal(i) \/ PeerJoined(i) \/ PeerLeft(i)
    \/ \E k \in Calls : CallMade(k) \/ ConnectionState(k)

Spec == Init /\ [][Next]_vars

\* Timers fire, and a browser reports in the end whether a socket opened or not.
Fairness == \A i \in Inits : /\ WF_vars(Retry(i))
                             /\ WF_vars(sig[i].ws = "connecting" /\ (Opened(i) \/ Lost(i)))

FairSpec == Spec /\ Fairness

-----------------------------------------------------------------------------
(* Properties                                                              *)

\* Signals that arrive while the credentials are being fetched are not lost,
\* doubled or reordered: those of a page's first connection reach its call as
\* they came, or still wait for it.
NothingLostBeforeCall ==
    ~reused /\ status # "ended" /\ mounted =>
        \A k \in Calls : joins = k =>
            given[k] \o pendingSignals = [n \in 1 .. received |-> n]

\* The page is in one room at a time: of all the sockets it ever asked for,
\* timers included, at most one is open or on its way, and after hangup none.
\* (Not so once hangup or destroy has come while the browser asked for the
\* camera: the abandoned init goes on and connects.)
OneSocket ==
    LET open == {i \in Inits : sig[i].ws # "none"}
    IN ~raced => /\ Cardinality(open) <= 1
                 /\ status = "ended" /\ signaling = None => open = {}

\* The page is in the first room it came to.
FirstRoom == Started \subseteq {1}

\* What the page shows fits what it does, whichever callbacks of how many peer
\* connections came last: it does not ring in a call or after it, a call that
\* is shown is timed in the first room, however often it reconnects there and
\* although a replaced connection goes on reporting, and call_connected is
\* tracked once between two inits.  In a later room a call may be shown with a
\* dead timer, and there is no third case: destroy() clears the interval of the
\* room before without nulling the variable, which `if (!timer)' then tests.
PageFits ==
    /\ ringing => status \in {"waiting", "failed"}
    /\ mounted /\ status = "connected" =>
           timer = "running" \/ (timer = "dead" /\ ~FirstRoom)
    /\ tracked <= 1

\* A client whose sockets no longer open stops trying.
GivesUp ==
    \A i \in Inits : <>[](sig[i].ws \in {"none", "connecting"})
                       => <>[](sig[i].ws = "none" /\ ~sig[i].retry)

=============================================================================
