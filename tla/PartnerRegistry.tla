--------------------------- MODULE PartnerRegistry ---------------------------
(***************************************************************************)
(* POST /api/partner/register (crates/server/src/partner_registry) and the *)
(* operator's tool that issues and revokes the tokens it takes             *)
(* (crates/partner-cli).                                                   *)
(*                                                                         *)
(* A registration is one PostgreSQL transaction at READ COMMITTED: it      *)
(* locks the token's row, upserts the node's row under a unique index and  *)
(* marks the token used; its writes are seen by nobody before the commit.  *)
(* Requests run side by side, and a client may stop waiting at any point.  *)
(* The random suffix of a new node's id is the token that paid for it.     *)
(* Credentials are pure data and left out; so is the rate limit, which is  *)
(* one of the reasons of Decline.                                          *)
(*                                                                         *)
(* An operator marked "mutant" is a deliberately broken variant of the     *)
(* definition below it; nothing uses it but the mutation runs.             *)
(***************************************************************************)
EXTENDS Naturals, FiniteSets

CONSTANTS Tokens,       \* registration tokens
          Keys,         \* (partner, domain) pairs, UNIQUE in partner_nodes
          Reqs,         \* bound: requests in the server at a time
          PartnerOf,    \* the partner of a key
          Owner,        \* the partner a token is issued to
          MaxPosts,     \* bound: requests of strangers
          MaxLapses     \* bound: revocations, expiries and deactivations

ASSUME PartnerAssumption == DOMAIN PartnerOf = Keys /\ DOMAIN Owner = Tokens
ASSUME BoundAssumption == MaxPosts \in Nat /\ MaxLapses \in Nat

VARIABLES
    tokens,     \* table partner_tokens
    nodes,      \* table partner_nodes: the id of the node of a key
    req,        \* the handler's tasks
    posts,      \* bound: how many requests of strangers there have been
    lapses,     \* bound: how many revocations, expiries and deactivations
    gone        \* history: the ids of deactivated nodes

nodeTable == <<nodes, gone>>
bounds == <<posts, lapses>>
registryVars == <<tokens, nodeTable, req, bounds>>

NoNode == "no node"
NoToken == "no such token"
NoKey == "no key"

ASSUME NameAssumption == NoNode \notin Tokens /\ NoToken \notin Tokens /\ NoKey \notin Keys

TokenRow == [issued : BOOLEAN, used : BOOLEAN, revoked : BOOLEAN, expired : BOOLEAN,
             node : Tokens \cup {NoNode}]
Blank == [issued |-> FALSE, used |-> FALSE, revoked |-> FALSE, expired |-> FALSE,
          node |-> NoNode]
Answers == {"created", "unknown", "revoked", "used", "expired", "mismatch", "error"}
NoReq == [pc |-> "idle", tok |-> NoToken, key |-> NoKey, node |-> NoNode, ans |-> "none"]

RegistryInit ==
    /\ tokens = [t \in Tokens |-> Blank]
    /\ nodes = [k \in Keys |-> NoNode]
    /\ req = [r \in Reqs |-> NoReq]
    /\ posts = 0 /\ lapses = 0 /\ gone = {}

-----------------------------------------------------------------------------
(* The handler                                                             *)

Goto(r, pc) == req' = [req EXCEPT ![r].pc = pc]
Answer(r, a) == req' = [req EXCEPT ![r].pc = "done", ![r].ans = a]

\* A client's POST arrives.
Post(r, t, k) ==
    /\ req[r].pc = "idle"
    /\ req' = [req EXCEPT ![r] = [NoReq EXCEPT !.pc = "open", !.tok = t, !.key = k]]
    /\ UNCHANGED <<tokens, nodeTable>>

\* No pool, rate limited, a field of the wrong length or shape, settings
\* missing from the environment, or no connection to begin with.
Decline(r) ==
    /\ req[r].pc = "open"
    /\ Answer(r, "error")
    /\ UNCHANGED <<tokens, nodeTable, bounds>>

\* A transaction holds the lock on the row of t, or of k, until it ends.
Holds(r, t) == req[r].pc \in {"locked", "upserted"} /\ req[r].tok = t
Writes(r, k) == req[r].pc = "upserted" /\ req[r].key = k
RowLocked_Never(t) == FALSE                                          \* mutant
RowLocked(t) == \E r \in Reqs : Holds(r, t)

\* The checks on the row, in their order.
Verdict(t, k) ==
    IF t = NoToken \/ ~tokens[t].issued THEN "unknown"
    ELSE IF tokens[t].revoked THEN "revoked"
    ELSE IF tokens[t].used THEN "used"
    ELSE IF tokens[t].expired THEN "expired"
    ELSE IF Owner[t] # PartnerOf[k] THEN "mismatch"
    ELSE "valid"

\* SELECT ... FOR UPDATE, which waits for another transaction on the row, and
\* the checks; an early return drops the transaction and with it the lock.
Select(r) ==
    LET verdict == Verdict(req[r].tok, req[r].key) IN
    /\ req[r].pc = "open"
    /\ ~RowLocked(req[r].tok)
    /\ IF verdict = "valid" THEN Goto(r, "locked") ELSE Answer(r, verdict)
    /\ UNCHANGED <<tokens, nodeTable, bounds>>

\* INSERT ... ON CONFLICT (partner_id, domain) DO UPDATE ... RETURNING: waits
\* for another transaction on the key, then keeps the id of an existing row.
Upsert_Proposed(r) ==                                                \* mutant
    /\ req[r].pc = "locked"
    /\ ~\E other \in Reqs \ {r} : Writes(other, req[r].key)
    /\ req' = [req EXCEPT ![r].pc = "upserted", ![r].node = req[r].tok]
    /\ UNCHANGED <<tokens, nodeTable, bounds>>
Upsert(r) ==
    LET k == req[r].key IN
    /\ req[r].pc = "locked"
    /\ ~\E other \in Reqs \ {r} : Writes(other, k)
    /\ req' = [req EXCEPT ![r].pc = "upserted",
                          ![r].node = IF nodes[k] = NoNode THEN req[r].tok ELSE nodes[k]]
    /\ UNCHANGED <<tokens, nodeTable, bounds>>

\* UPDATE partner_tokens, in the same transaction, and COMMIT.
Commit(r) ==
    /\ req[r].pc = "upserted"
    /\ tokens' = [tokens EXCEPT ![req[r].tok].used = TRUE,
                                ![req[r].tok].node = req[r].node]
    /\ nodes' = [nodes EXCEPT ![req[r].key] = req[r].node]
    /\ Answer(r, "created")
    /\ UNCHANGED <<gone, bounds>>

\* A statement fails, the server goes down, or the task is dropped because the
\* client has gone: the transaction is rolled back.
Abort(r) ==
    /\ req[r].pc \in {"locked", "upserted"}
    /\ Answer(r, "error")
    /\ UNCHANGED <<tokens, nodeTable, bounds>>

\* The answer has been sent; whether it arrives is the client's matter.
Retire(r) ==
    /\ req[r].pc = "done"
    /\ req' = [req EXCEPT ![r] = NoReq]
    /\ UNCHANGED <<tokens, nodeTable, bounds>>

Handle(r) == Decline(r) \/ Select(r) \/ Upsert(r) \/ Commit(r) \/ Abort(r)

-----------------------------------------------------------------------------
(* The command-line tool, and time                                         *)

Issue(t) ==
    /\ ~tokens[t].issued
    /\ tokens' = [tokens EXCEPT ![t].issued = TRUE]
    /\ UNCHANGED <<nodeTable, req, bounds>>

Lapse == lapses < MaxLapses /\ lapses' = lapses + 1

\* UPDATE ... WHERE revoked_at IS NULL, which waits for the row's lock.
Revoke(t) ==
    /\ tokens[t].issued /\ ~tokens[t].revoked
    /\ ~RowLocked(t)
    /\ tokens' = [tokens EXCEPT ![t].revoked = TRUE]
    /\ Lapse
    /\ UNCHANGED <<nodeTable, req, posts>>

\* expires_at passes; the row does not change, and no lock holds time back.
Expire(t) ==
    /\ tokens[t].issued /\ ~tokens[t].expired
    /\ tokens' = [tokens EXCEPT ![t].expired = TRUE]
    /\ Lapse
    /\ UNCHANGED <<nodeTable, req, posts>>

\* DELETE FROM partner_nodes, which waits for a writer of the row; the tokens
\* of the node are left as they are.
Deactivate_NoWait(k) ==                                              \* mutant
    /\ nodes[k] # NoNode
    /\ nodes' = [nodes EXCEPT ![k] = NoNode]
    /\ gone' = gone \cup {nodes[k]}
    /\ Lapse
    /\ UNCHANGED <<tokens, req, posts>>
Deactivate(k) ==
    /\ nodes[k] # NoNode
    /\ ~\E r \in Reqs : Writes(r, k)
    /\ nodes' = [nodes EXCEPT ![k] = NoNode]
    /\ gone' = gone \cup {nodes[k]}
    /\ Lapse
    /\ UNCHANGED <<tokens, req, posts>>

Admin == \/ \E t \in Tokens : Issue(t) \/ Revoke(t) \/ Expire(t)
         \/ \E k \in Keys : Deactivate(k)

\* Anybody may post anything; nobody here waits for the answer.
Stranger ==
    /\ posts < MaxPosts /\ posts' = posts + 1
    /\ \E r \in Reqs, t \in Tokens \cup {NoToken}, k \in Keys : Post(r, t, k)
    /\ UNCHANGED lapses

RegistryNext ==
    \/ \E r \in Reqs : Handle(r) \/ Retire(r)
    \/ Admin
    \/ Stranger

RegistrySpec == RegistryInit /\ [][RegistryNext]_registryVars

-----------------------------------------------------------------------------
(* Properties                                                              *)

RegistryTypeOK ==
    /\ posts \in 0 .. MaxPosts /\ lapses \in 0 .. MaxLapses
    /\ tokens \in [Tokens -> TokenRow]
    /\ nodes \in [Keys -> Tokens \cup {NoNode}] /\ gone \subseteq Tokens
    /\ \A r \in Reqs :
         /\ req[r].pc \in {"idle", "open", "locked", "upserted", "done"}
         /\ req[r].tok \in Tokens \cup {NoToken}
         /\ req[r].key \in Keys \cup {NoKey}
         /\ req[r].node \in Tokens \cup {NoNode}
         /\ req[r].ans \in Answers \cup {"none"}
         /\ req[r].pc \in {"locked", "upserted"} =>
              req[r].tok \in Tokens /\ tokens[req[r].tok].issued

\* A registration commits only on a token that, at the commit, is neither used
\* nor revoked, whatever other requests and the operator did since the checks
\* were made: a token registers once (FOR UPDATE, register.rs:98).
CommitsOnlyValid ==
    [][\A r \in Reqs :
         (req[r].pc = "upserted" /\ req'[r].ans = "created") =>
             LET t == req[r].tok IN ~tokens[t].used /\ ~tokens[t].revoked]_registryVars

\* The two tables agree: a used token names the node of a key of its own
\* partner, even when the key had been registered before with another token
\* (the id returned by the upsert, register.rs:144, not the proposed one), or
\* one that the operator has deactivated.
UsedNamesNode ==
    \A t \in Tokens : tokens[t].used =>
        \/ tokens[t].node \in gone
        \/ \E k \in Keys : PartnerOf[k] = Owner[t] /\ nodes[k] = tokens[t].node

\* A node that the operator has deactivated does not come back, and no two
\* keys share a node, whatever registrations were under way at that moment
\* (deactivate_node, commands.rs:223; register.rs:121-166).
GoneForGood ==
    \A k \in Keys : nodes[k] # NoNode =>
        nodes[k] \notin gone /\ \A other \in Keys \ {k} : nodes[other] # nodes[k]
=============================================================================
