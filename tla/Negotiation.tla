---------------------------- MODULE Negotiation ----------------------------
(***************************************************************************)
(* Two pages in a room agree on a session: createCall of the web client    *)
(* (web/src/lib/webrtc.ts), the "perfect negotiation" pattern over the     *)
(* relay of the server.                                                    *)
(*                                                                         *)
(* onSignal does not await handleSignal, and makeOffer is called from the  *)
(* browser's negotiationneeded, from peer_joined and from an ICE restart,  *)
(* so several of these functions are under way at once; they meet in the   *)
(* flags of createCall.  An action is a function up to its next await.     *)
(*                                                                         *)
(* Of the RTCPeerConnection (external) there is its chain of operations,   *)
(* which run one after the other, and its signaling state; a remote offer  *)
(* rolls a local one back, an answer without a local offer is refused, and *)
(* setLocalDescription() makes what the state calls for.  A description is *)
(* who made it and the candidates it lists; who offers decides the roles   *)
(* of the transport.  Tracks, codecs and statistics are left out.          *)
(*                                                                         *)
(* An operator marked "mutant" is a deliberately broken variant of the     *)
(* definition below it; nothing uses it but the mutation runs.             *)
(***************************************************************************)
EXTENDS Naturals, Sequences, FiniteSets

CONSTANTS Peers,       \* the pages
          First,       \* the one that is alone in the room first
          Polite,      \* Polite[p]: what the server told p when it joined
          MaxRestarts  \* bound: ICE restarts

\* There are two, and the one that finds nobody is impolite (rooms.rs:99).
ASSUME PeersAssumption == \E p \in Peers : p # First /\ Peers = {First, p}
ASSUME PoliteAssumption == Polite = [p \in Peers |-> p # First]
Nobody == "nobody"
ASSUME NobodyAssumption == Nobody \notin Peers

VARIABLES
    page,       \* "away", "joined", "listens" (subscribed), "calls"
    wire,       \* wire[p]: what the relay has for p
    makingOffer, isSettingRemoteAnswerPending,
    pendingCandidates,
    chain,      \* the operations of each RTCPeerConnection
    state,      \* its signalingState: "stable", "local", "remote"
    remote,     \* it has a remote description
    needed,     \* negotiationneeded will fire
    offerer,    \* who offered, in the session agreed last
    gathered,   \* it has a candidate of its own
    known,      \* it has the candidate of the other
    restarts,
    offered,    \* history: its local offer went out to the other page
    superseded  \* history: ... and was replaced, by another of its own or,
                \* at the impolite page, by a remote one

history == <<offered, superseded>>
flagVars == <<makingOffer, isSettingRemoteAnswerPending, pendingCandidates>>
pcVars == <<state, remote, needed, offerer, gathered, known>>
vars == <<page, wire, flagVars, chain, pcVars, restarts, history>>

Other(p) == CHOOSE q \in Peers : q # p

Init ==
    /\ page = [p \in Peers |-> IF p = First THEN "joined" ELSE "away"]
    /\ wire = [p \in Peers |-> <<>>]
    /\ makingOffer = [p \in Peers |-> FALSE]
    /\ isSettingRemoteAnswerPending = [p \in Peers |-> FALSE]
    /\ pendingCandidates = [p \in Peers |-> 0]
    /\ chain = [p \in Peers |-> <<>>]
    /\ state = [p \in Peers |-> "stable"] /\ remote = [p \in Peers |-> FALSE]
    /\ needed = [p \in Peers |-> FALSE] /\ offerer = [p \in Peers |-> Nobody]
    /\ gathered = [p \in Peers |-> FALSE] /\ known = [p \in Peers |-> FALSE]
    /\ restarts = 0 /\ offered = [p \in Peers |-> FALSE] /\ superseded = FALSE

-----------------------------------------------------------------------------
(* The room                                                                *)

Listens(p) == page[p] \in {"listens", "calls"}

\* A signal reaches the other page if that is subscribed.
Sent(p, kind) ==
    wire' = IF ~Listens(Other(p)) THEN wire
            ELSE [wire EXCEPT ![Other(p)] = Append(@, [kind |-> kind, lists |-> gathered[p]])]

Join(p) ==
    /\ page[p] = "away"
    /\ page' = [page EXCEPT ![p] = "joined"]
    /\ UNCHANGED <<wire, flagVars, chain, pcVars, restarts, history>>

\* tx.subscribe(), then peer_joined if there was somebody; the server reads
\* signals of the page after that.
Subscribe(p) ==
    /\ page[p] = "joined"
    /\ page' = [page EXCEPT ![p] = "listens"]
    /\ IF Polite[p] THEN Sent(p, "peer_joined") ELSE UNCHANGED wire
    /\ UNCHANGED <<flagVars, chain, pcVars, restarts, history>>

\* createCall and addLocalStream, after the credentials.
CreateCall(p) ==
    /\ page[p] = "listens"
    /\ page' = [page EXCEPT ![p] = "calls"]
    /\ needed' = [needed EXCEPT ![p] = TRUE]
    /\ UNCHANGED <<wire, flagVars, chain, state, remote, offerer, gathered, known,
                   restarts, history>>

-----------------------------------------------------------------------------
(* makeOffer, up to its await.                                             *)

MakeOffer(p) ==
    /\ makingOffer' = [makingOffer EXCEPT ![p] = TRUE]
    /\ chain' = [chain EXCEPT ![p] = Append(@, [op |-> "local", by |-> "makeOffer"])]
    /\ UNCHANGED <<isSettingRemoteAnswerPending, pendingCandidates>>

\* The browser fires it in the stable state, with no operation under way.
OnNegotiationNeeded(p) ==
    /\ needed[p] /\ state[p] = "stable" /\ chain[p] = <<>>
    /\ needed' = [needed EXCEPT ![p] = FALSE]
    /\ MakeOffer(p)
    /\ UNCHANGED <<page, wire, state, remote, offerer, gathered, known, restarts, history>>

\* restartIce, on a connection that has been established; the restart is part
\* of the offer that is made at once.  When what is made instead is the answer to
\* a remote offer, the browser raises a negotiationneeded of its own afterwards:
\* the offer that comes of it is that of one more restart.
OnIceDisconnected(p) ==
    /\ offerer[p] # Nobody /\ restarts < MaxRestarts
    /\ restarts' = restarts + 1
    /\ MakeOffer(p)
    /\ UNCHANGED <<page, wire, pcVars, history>>

OnIceCandidate(p) ==
    /\ state[p] # "stable" \/ offerer[p] # Nobody
    /\ ~gathered[p]
    /\ gathered' = [gathered EXCEPT ![p] = TRUE]
    /\ Sent(p, "candidate")
    /\ UNCHANGED <<page, flagVars, chain, state, remote, needed, offerer, known, restarts, history>>

-----------------------------------------------------------------------------
(* handleSignal, up to its first await.                                    *)

ReadyForOffer(p) ==
    ~makingOffer[p] /\ (state[p] = "stable" \/ isSettingRemoteAnswerPending[p])

IgnoreOffer_Never(p, kind) == FALSE                                  \* mutant
IgnoreOffer(p, kind) == ~Polite[p] /\ kind = "offer" /\ ~ReadyForOffer(p)

Description(p, msg) ==
    IF IgnoreOffer(p, msg.kind) THEN UNCHANGED <<flagVars, chain>>
    ELSE /\ isSettingRemoteAnswerPending' =
              [isSettingRemoteAnswerPending EXCEPT ![p] = msg.kind = "answer"]
         /\ chain' = [chain EXCEPT ![p] =
                        Append(@, [op |-> msg.kind, by |-> "handleSignal", lists |-> msg.lists])]
         /\ UNCHANGED <<makingOffer, pendingCandidates>>

Candidate_Dropped(p) ==                                              \* mutant
    IF remote[p]
    THEN /\ chain' = [chain EXCEPT ![p] = Append(@, [op |-> "add", by |-> "handleSignal"])]
         /\ UNCHANGED flagVars
    ELSE UNCHANGED <<chain, flagVars>>
Candidate(p) ==
    IF remote[p]
    THEN /\ chain' = [chain EXCEPT ![p] = Append(@, [op |-> "add", by |-> "handleSignal"])]
         /\ UNCHANGED flagVars
    ELSE /\ pendingCandidates' = [pendingCandidates EXCEPT ![p] = @ + 1]
         /\ UNCHANGED <<chain, makingOffer, isSettingRemoteAnswerPending>>

Receive(p) ==
    /\ page[p] = "calls" /\ wire[p] # <<>>
    /\ LET msg == Head(wire[p]) IN
         \/ msg.kind = "peer_joined" /\ MakeOffer(p)
         \/ msg.kind \in {"offer", "answer"} /\ Description(p, msg)
         \/ msg.kind = "candidate" /\ Candidate(p)
    /\ wire' = [wire EXCEPT ![p] = Tail(@)]
    /\ UNCHANGED <<page, pcVars, restarts, history>>

-----------------------------------------------------------------------------
(* An operation of the chain ends, and the function that awaits it goes on.*)

Operation(p, op) == chain[p] # <<>> /\ Head(chain[p]).op = op

\* setLocalDescription(): an answer to a remote offer, else an offer.
SetLocal(p) ==
    /\ Operation(p, "local")
    /\ chain' = [chain EXCEPT ![p] = Tail(@)]
    /\ IF state[p] = "remote"
       THEN /\ state' = [state EXCEPT ![p] = "stable"]
            /\ offerer' = [offerer EXCEPT ![p] = Other(p)]
            /\ needed' = [needed EXCEPT ![p] = FALSE]
            /\ Sent(p, "answer")
            /\ UNCHANGED history
       ELSE /\ state' = [state EXCEPT ![p] = "local"]
            /\ Sent(p, "offer")
            /\ offered' = [offered EXCEPT ![p] = Listens(Other(p))]
            /\ superseded' = (superseded \/ (state[p] = "local" /\ offered[p]))
            /\ UNCHANGED <<offerer, needed>>
    /\ makingOffer' = IF Head(chain[p]).by = "makeOffer" THEN [makingOffer EXCEPT ![p] = FALSE]
                                                          ELSE makingOffer
    /\ UNCHANGED <<page, isSettingRemoteAnswerPending, pendingCandidates, remote, gathered, known,
                   restarts>>

\* flushPendingCandidates, one await after the other, then the answer.
Flush(p, kind, rest) ==
    IF pendingCandidates[p] > 0
    THEN /\ pendingCandidates' = [pendingCandidates EXCEPT ![p] = @ - 1]
         /\ chain' = [chain EXCEPT ![p] = Append(rest, [op |-> "add", by |-> kind])]
    ELSE /\ chain' = [chain EXCEPT ![p] = IF kind = "offer"
                                          THEN Append(rest, [op |-> "local", by |-> "handleSignal"])
                                          ELSE rest]
         /\ UNCHANGED pendingCandidates

SetRemote(p) ==
    /\ Operation(p, "offer") \/ (Operation(p, "answer") /\ state[p] = "local")
    /\ LET done == Head(chain[p]) IN
         /\ IF done.op = "offer"
            THEN state' = [state EXCEPT ![p] = "remote"] /\ UNCHANGED <<offerer, needed>>
            ELSE /\ state' = [state EXCEPT ![p] = "stable"]
                 /\ offerer' = [offerer EXCEPT ![p] = p]
                 /\ needed' = [needed EXCEPT ![p] = FALSE]
         /\ known' = [known EXCEPT ![p] = @ \/ done.lists]
         /\ Flush(p, done.op, Tail(chain[p]))
    /\ remote' = [remote EXCEPT ![p] = TRUE]
    /\ isSettingRemoteAnswerPending' = [isSettingRemoteAnswerPending EXCEPT ![p] = FALSE]
    /\ superseded' = (superseded \/ (Operation(p, "offer") /\ ~Polite[p]
                                      /\ state[p] = "local" /\ offered[p]))
    /\ UNCHANGED <<page, wire, makingOffer, gathered, restarts, offered>>

\* setRemoteDescription throws, and the flag stays.
AnswerRefused(p) ==
    /\ Operation(p, "answer") /\ state[p] # "local"
    /\ chain' = [chain EXCEPT ![p] = Tail(@)]
    /\ UNCHANGED <<page, wire, flagVars, pcVars, restarts, history>>

Added(p) ==
    /\ Operation(p, "add")
    /\ known' = [known EXCEPT ![p] = TRUE]
    /\ IF Head(chain[p]).by = "handleSignal"
       THEN chain' = [chain EXCEPT ![p] = Tail(@)] /\ UNCHANGED pendingCandidates
       ELSE Flush(p, Head(chain[p]).by, Tail(chain[p]))
    /\ UNCHANGED <<page, wire, makingOffer, isSettingRemoteAnswerPending, state, remote, needed,
                   offerer, gathered, restarts, history>>

-----------------------------------------------------------------------------
Step(p) == \/ Join(p) \/ Subscribe(p) \/ CreateCall(p)
           \/ OnNegotiationNeeded(p) \/ OnIceCandidate(p) \/ Receive(p)
           \/ SetLocal(p) \/ SetRemote(p) \/ AnswerRefused(p) \/ Added(p)

Next == \E p \in Peers : Step(p) \/ OnIceDisconnected(p)

Spec == Init /\ [][Next]_vars

-----------------------------------------------------------------------------
(* Properties                                                              *)

AtRest == \A p \in Peers :
            page[p] = "calls" /\ wire[p] = <<>> /\ chain[p] = <<>> /\ ~needed[p]

\* Whatever offers cross each other, two pages of which one is polite end up
\* with one session, in which one of them has offered and the other answered,
\* and with no offer left open (README.md:58, "Perfect Negotiation pattern").
\* makeOffer does not wait for the stable state, as the pattern has it, so this
\* is not promised when an ICE restart meets an offer that replaced another: one
\* of the same page, or one of the impolite page that an accepted remote offer
\* rolled back.  It is when the first page subscribes too late to hear that the
\* other has joined (handler.rs:155): its own first offer reaches the other.
RolesAgree ==
    AtRest /\ (superseded => restarts = 0) =>
        \A p \in Peers : state[p] = "stable" /\ offerer[p] = offerer[Other(p)]

\* A candidate is lost neither in the empty room nor while the other page is
\* still setting the description it belongs to: in the end each page has it.
CandidatesKnown == AtRest => \A p \in Peers : gathered[Other(p)] => known[p]

=============================================================================
