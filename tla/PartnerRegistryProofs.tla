------------------------ MODULE PartnerRegistryProofs ------------------------
(***************************************************************************)
(* Theorems about the registration transaction, for any number of tokens,  *)
(* keys, requests and operators' acts.                                     *)
(***************************************************************************)
EXTENDS PartnerRegistry, TLAPS

-----------------------------------------------------------------------------
(* The inductive invariant                                                 *)

InTx(r) == req[r].pc \in {"locked", "upserted"}
ReqRow == [pc : {"idle", "open", "locked", "upserted", "done"}, tok : Tokens \cup {NoToken},
           key : Keys \cup {NoKey}, node : Tokens \cup {NoNode}, ans : Answers \cup {"none"}]

Types ==
    /\ posts \in 0 .. MaxPosts /\ lapses \in 0 .. MaxLapses
    /\ tokens \in [Tokens -> TokenRow]
    /\ nodes \in [Keys -> Tokens \cup {NoNode}] /\ gone \subseteq Tokens
    /\ req \in [Reqs -> ReqRow]
    /\ \A r \in Reqs : req[r].pc # "idle" => req[r].key \in Keys

\* Row locks are exclusive, and so is the unique index while a row is written.
LocksExclusive ==
    \A r, s \in Reqs : r # s =>
        /\ InTx(r) /\ InTx(s) => req[r].tok # req[s].tok
        /\ req[r].pc = "upserted" /\ req[s].pc = "upserted" => req[r].key # req[s].key

\* What the checks found still holds while the transaction has the lock.
LockedIsValid ==
    \A r \in Reqs : InTx(r) =>
        LET t == req[r].tok IN
        /\ t \in Tokens
        /\ tokens[t].issued /\ ~tokens[t].used /\ ~tokens[t].revoked
        /\ Owner[t] = PartnerOf[req[r].key]

\* The id that RETURNING gave is the one in the table, or the request's own.
UpsertedNode ==
    \A r \in Reqs : req[r].pc = "upserted" =>
        req[r].node = IF nodes[req[r].key] = NoNode THEN req[r].tok ELSE nodes[req[r].key]

\* Node ids come from used tokens only, and a used token has one.
NodesAreUsed ==
    /\ \A k \in Keys : nodes[k] # NoNode => tokens[nodes[k]].used
    /\ \A t \in gone : tokens[t].used
    /\ \A t \in Tokens : tokens[t].used => tokens[t].node # NoNode

RegistryInv ==
    Types /\ LocksExclusive /\ LockedIsValid /\ UpsertedNode /\ NodesAreUsed
    /\ UsedNamesNode /\ GoneForGood
-----------------------------------------------------------------------------
(* Every step keeps it                                                     *)

\* The empty tables satisfy the invariant.
LEMMA RegistryInvInit == RegistryInit => RegistryInv
BY NameAssumption, BoundAssumption DEF RegistryInit, RegistryInv, Types, LocksExclusive, LockedIsValid, UpsertedNode,
   NodesAreUsed, UsedNamesNode, GoneForGood, InTx, ReqRow, NoReq, TokenRow, Blank

\* A step that leaves the tables alone and takes one request out of, or keeps it
\* out of, its transaction keeps the invariant.
LEMMA OutOfTx ==
    ASSUME RegistryInv, NEW r \in Reqs, NEW row \in ReqRow,
           row.pc \in {"idle", "open", "done"}, row.pc # "idle" => row.key \in Keys,
           req' = [req EXCEPT ![r] = row],
           posts' \in 0 .. MaxPosts, lapses' \in 0 .. MaxLapses,
           UNCHANGED <<tokens, nodeTable>>
    PROVE  RegistryInv'
<1>1. /\ req' \in [Reqs -> ReqRow] /\ req'[r] = row /\ ~InTx(r)'
      /\ \A s \in Reqs \ {r} : req'[s] = req[s] /\ (InTx(s)' <=> InTx(s))
  BY DEF RegistryInv, Types, InTx
<1>2. Types'
  BY <1>1 DEF RegistryInv, Types, nodeTable
<1>3. LocksExclusive'
  BY <1>1 DEF RegistryInv, LocksExclusive, InTx
<1>4. LockedIsValid'
  BY <1>1 DEF RegistryInv, LockedIsValid, nodeTable
<1>5. UpsertedNode'
  BY <1>1 DEF RegistryInv, UpsertedNode, InTx, nodeTable
<1>6. (NodesAreUsed /\ UsedNamesNode /\ GoneForGood)'
  BY DEF RegistryInv, NodesAreUsed, UsedNamesNode, GoneForGood, nodeTable
<1> QED
  BY <1>2, <1>3, <1>4, <1>5, <1>6 DEF RegistryInv

\* A request arrives.
LEMMA PostKeeps ==
    ASSUME RegistryInv, Stranger PROVE RegistryInv'
<1> PICK r \in Reqs, t \in Tokens \cup {NoToken}, k \in Keys : Post(r, t, k)
  BY DEF Stranger
<1> DEFINE row == [NoReq EXCEPT !.pc = "open", !.tok = t, !.key = k]
<1>1. row \in ReqRow /\ row.pc = "open" /\ row.key = k
  BY DEF NoReq, ReqRow
<1>2. posts' \in 0 .. MaxPosts /\ lapses' \in 0 .. MaxLapses
  BY BoundAssumption DEF Stranger, RegistryInv, Types
<1> QED
  BY <1>1, <1>2, OutOfTx DEF Post

\* An answer ends the transaction, if there was one.
LEMMA AnswerKeeps ==
    ASSUME RegistryInv, NEW r \in Reqs, NEW a \in Answers, req[r].pc # "idle", Answer(r, a),
           UNCHANGED <<tokens, nodeTable, bounds>>
    PROVE  RegistryInv'
<1> DEFINE row == [req[r] EXCEPT !.pc = "done", !.ans = a]
<1>1. row \in ReqRow /\ row.pc = "done" /\ row.key \in Keys
  BY DEF RegistryInv, Types, ReqRow
<1>2. req' = [req EXCEPT ![r] = row]
  BY DEF Answer, RegistryInv, Types, ReqRow
<1>3. posts' \in 0 .. MaxPosts /\ lapses' \in 0 .. MaxLapses
  BY DEF RegistryInv, Types, bounds
<1> QED
  BY <1>1, <1>2, <1>3, OutOfTx

\* A request whose answer has been sent is forgotten.
LEMMA RetireKeeps ==
    ASSUME RegistryInv, NEW r \in Reqs, Retire(r) PROVE RegistryInv'
<1>1. NoReq \in ReqRow /\ NoReq.pc = "idle"
  BY DEF NoReq, ReqRow
<1>2. posts' \in 0 .. MaxPosts /\ lapses' \in 0 .. MaxLapses
  BY DEF Retire, RegistryInv, Types, bounds
<1> QED
  BY <1>1, <1>2, OutOfTx DEF Retire

\* The row's lock is taken by one request at a time, and only on a valid token.
LEMMA SelectKeeps ==
    ASSUME RegistryInv, NEW r \in Reqs, Select(r) PROVE RegistryInv'
<1> DEFINE t == req[r].tok
           k == req[r].key
<1>1. req[r].pc = "open" /\ ~RowLocked(t) /\ Verdict(t, k) \in Answers \cup {"valid"}
  BY DEF Select, Verdict, Answers
<1>2. CASE Verdict(t, k) # "valid"
  BY <1>1, <1>2, AnswerKeeps DEF Select
<1>3. CASE Verdict(t, k) = "valid"
  <2>1. UNCHANGED <<tokens, nodeTable, bounds>> /\ req' = [req EXCEPT ![r].pc = "locked"]
    BY <1>3 DEF Select, Goto
  <2>2. /\ t \in Tokens /\ k \in Keys
        /\ tokens[t].issued /\ ~tokens[t].used /\ ~tokens[t].revoked
        /\ Owner[t] = PartnerOf[k]
    BY <1>1, <1>3 DEF Verdict, RegistryInv, Types, ReqRow
  <2>3. /\ req' \in [Reqs -> ReqRow]
        /\ req'[r] = [req[r] EXCEPT !.pc = "locked"] /\ req'[r].pc = "locked"
        /\ req'[r].tok = t /\ req'[r].key = k
        /\ \A s \in Reqs \ {r} : req'[s] = req[s]
    BY <2>1 DEF RegistryInv, Types, ReqRow
  <2>4. \A s \in Reqs : InTx(s) => req[s].tok # t
    BY <1>1 DEF RowLocked, Holds, InTx
  <2>5. Types'
    BY <2>1, <2>2, <2>3 DEF RegistryInv, Types, nodeTable, bounds
  <2>6. LocksExclusive'
    <3>1. \A s \in Reqs \ {r} : req'[s].tok = req[s].tok /\ (InTx(s)' <=> InTx(s))
      BY <2>3 DEF InTx
    <3>2. \A s \in Reqs \ {r} : InTx(s)' => req'[s].tok # req'[r].tok
      BY <2>3, <2>4, <3>1
    <3>3. \A u, s \in Reqs \ {r} : u # s /\ InTx(u)' /\ InTx(s)' => req'[u].tok # req'[s].tok
      BY <3>1 DEF RegistryInv, LocksExclusive
    <3>4. \A u, s \in Reqs : u # s /\ req'[u].pc = "upserted" /\ req'[s].pc = "upserted"
                                => req'[u].key # req'[s].key
      <4> SUFFICES ASSUME NEW u \in Reqs, NEW s \in Reqs, u # s,
                          req'[u].pc = "upserted", req'[s].pc = "upserted"
                   PROVE  req'[u].key # req'[s].key
        OBVIOUS
      <4>1. u # r /\ s # r
        BY <2>3
      <4> QED
        BY <2>3, <4>1 DEF RegistryInv, LocksExclusive
    <3> QED
      BY <3>2, <3>3, <3>4 DEF LocksExclusive
  <2>7. LockedIsValid'
    BY <2>1, <2>2, <2>3 DEF RegistryInv, LockedIsValid, InTx
  <2>8. UpsertedNode'
    BY <2>1, <2>3 DEF RegistryInv, UpsertedNode, nodeTable
  <2>9. (NodesAreUsed /\ UsedNamesNode /\ GoneForGood)'
    BY <2>1 DEF RegistryInv, NodesAreUsed, UsedNamesNode, GoneForGood, nodeTable
  <2> QED
    BY <2>5, <2>6, <2>7, <2>8, <2>9 DEF RegistryInv
<1> QED
  BY <1>2, <1>3

\* One request at a time writes the row of a key, and it keeps the row's id.
LEMMA UpsertKeeps ==
    ASSUME RegistryInv, NEW r \in Reqs, Upsert(r) PROVE RegistryInv'
<1> DEFINE k == req[r].key
           n == IF nodes[k] = NoNode THEN req[r].tok ELSE nodes[k]
<1>1. /\ req[r].pc = "locked" /\ ~\E other \in Reqs \ {r} : Writes(other, k)
      /\ req' = [req EXCEPT ![r].pc = "upserted", ![r].node = n]
      /\ UNCHANGED <<tokens, nodeTable, bounds>>
  BY DEF Upsert
<1>2. req[r].tok \in Tokens /\ k \in Keys /\ n \in Tokens
  BY <1>1 DEF RegistryInv, Types, LockedIsValid, InTx
<1>3. /\ req' \in [Reqs -> ReqRow]
      /\ req'[r].pc = "upserted" /\ req'[r].tok = req[r].tok /\ req'[r].key = k
      /\ req'[r].node = n
      /\ \A s \in Reqs \ {r} : req'[s] = req[s]
  BY ZenonT(40), <1>1, <1>2 DEF RegistryInv, Types, ReqRow
<1>4. Types'
  BY <1>1, <1>2, <1>3 DEF RegistryInv, Types, nodeTable, bounds
<1>5. LocksExclusive'
  BY <1>1, <1>3 DEF RegistryInv, LocksExclusive, InTx, Writes
<1>6. LockedIsValid'
  BY <1>1, <1>3 DEF RegistryInv, LockedIsValid, InTx
<1>7. UpsertedNode'
  BY <1>1, <1>3 DEF RegistryInv, UpsertedNode, nodeTable
<1>8. (NodesAreUsed /\ UsedNamesNode /\ GoneForGood)'
  BY <1>1 DEF RegistryInv, NodesAreUsed, UsedNamesNode, GoneForGood, nodeTable
<1> QED
  BY <1>4, <1>5, <1>6, <1>7, <1>8 DEF RegistryInv

\* The commit writes both tables at once; the node is an old one of the same key,
\* or new with a token that nobody had used.
LEMMA CommitKeeps ==
    ASSUME RegistryInv, NEW r \in Reqs, Commit(r) PROVE RegistryInv'
<1> DEFINE t == req[r].tok
           k == req[r].key
           n == req[r].node
<1>1. /\ req[r].pc = "upserted"
      /\ tokens' = [tokens EXCEPT ![t].used = TRUE, ![t].node = n]
      /\ nodes' = [nodes EXCEPT ![k] = n]
      /\ req' = [req EXCEPT ![r].pc = "done", ![r].ans = "created"]
  BY DEF Commit, Answer
<1>0. gone' = gone /\ UNCHANGED bounds
  BY DEF Commit
<1>2. /\ t \in Tokens /\ k \in Keys
      /\ tokens[t].issued /\ ~tokens[t].used /\ ~tokens[t].revoked
      /\ Owner[t] = PartnerOf[k]
      /\ n = IF nodes[k] = NoNode THEN t ELSE nodes[k]
  BY <1>1 DEF RegistryInv, Types, LockedIsValid, UpsertedNode, InTx
<1>3. n \in Tokens /\ n # NoNode
  BY <1>2, NameAssumption DEF RegistryInv, Types
<1>4. /\ req' \in [Reqs -> ReqRow]
      /\ req'[r].pc = "done" /\ req'[r].key = k
      /\ \A s \in Reqs \ {r} : req'[s] = req[s]
  <2> DEFINE row == [req[r] EXCEPT !.pc = "done", !.ans = "created"]
  <2>1. req \in [Reqs -> ReqRow]
    BY DEF RegistryInv, Types
  <2>2. row \in ReqRow /\ row.pc = "done" /\ row.key = k
    BY <2>1 DEF ReqRow, Answers
  <2>3. req' = [req EXCEPT ![r] = row]
    BY <1>1, <2>1 DEF ReqRow
  <2> HIDE DEF row
  <2> QED
    BY <2>1, <2>2, <2>3
<1>5. /\ tokens' \in [Tokens -> TokenRow] /\ tokens'[t].used /\ tokens'[t].node = n
      /\ \A u \in Tokens \ {t} : tokens'[u] = tokens[u]
  BY ZenonT(40), <1>1, <1>2, <1>3 DEF RegistryInv, Types, TokenRow
<1>6. /\ nodes' \in [Keys -> Tokens \cup {NoNode}] /\ nodes'[k] = n
      /\ \A j \in Keys \ {k} : nodes'[j] = nodes[j]
  BY <1>1, <1>2, <1>3 DEF RegistryInv, Types
<1>7. Types'
  <2>1. (posts \in 0 .. MaxPosts /\ lapses \in 0 .. MaxLapses /\ gone \subseteq Tokens)'
    BY <1>0 DEF RegistryInv, Types, bounds
  <2>2. \A s \in Reqs : req'[s].pc # "idle" => req'[s].key \in Keys
    BY <1>2, <1>4 DEF RegistryInv, Types
  <2> QED
    BY <1>4, <1>5, <1>6, <2>1, <2>2 DEF Types
<1>8. LocksExclusive'
  BY <1>4 DEF RegistryInv, LocksExclusive, InTx
<1>9. LockedIsValid'
  <2> SUFFICES ASSUME NEW s \in Reqs, req'[s].pc \in {"locked", "upserted"}
               PROVE  /\ req'[s].tok \in Tokens
                      /\ tokens'[req'[s].tok].issued /\ ~tokens'[req'[s].tok].used
                      /\ ~tokens'[req'[s].tok].revoked
                      /\ Owner[req'[s].tok] = PartnerOf[req'[s].key]
    BY DEF LockedIsValid, InTx
  <2>1. s # r /\ req'[s] = req[s]
    BY <1>4
  <2>2. req[s].tok # t
    BY <1>1, <2>1 DEF RegistryInv, LocksExclusive, InTx
  <2>3. req[s].tok \in Tokens
    BY <2>1 DEF RegistryInv, LockedIsValid, InTx
  <2>4. tokens'[req[s].tok] = tokens[req[s].tok]
    BY <1>5, <2>2, <2>3
  <2> QED
    BY <2>1, <2>3, <2>4 DEF RegistryInv, LockedIsValid, InTx
<1>10. UpsertedNode'
  <2> SUFFICES ASSUME NEW s \in Reqs, req'[s].pc = "upserted"
               PROVE  req'[s].node = IF nodes'[req'[s].key] = NoNode THEN req'[s].tok
                                     ELSE nodes'[req'[s].key]
    BY DEF UpsertedNode
  <2>1. s # r /\ req'[s] = req[s] /\ req[s].key # k /\ req[s].key \in Keys
    BY <1>1, <1>4 DEF RegistryInv, LocksExclusive, Types
  <2> QED
    BY <1>6, <2>1 DEF RegistryInv, UpsertedNode
<1>11. NodesAreUsed'
  <2>1. \A j \in Keys : nodes'[j] # NoNode => tokens'[nodes'[j]].used
    BY <1>2, <1>5, <1>6 DEF RegistryInv, NodesAreUsed, Types
  <2>2. \A u \in gone' : tokens'[u].used
    BY <1>0, <1>5 DEF RegistryInv, NodesAreUsed, Types
  <2>3. \A u \in Tokens : tokens'[u].used => tokens'[u].node # NoNode
    BY <1>3, <1>5 DEF RegistryInv, NodesAreUsed
  <2> QED
    BY <2>1, <2>2, <2>3 DEF NodesAreUsed
<1>12. UsedNamesNode'
  <2> SUFFICES ASSUME NEW u \in Tokens, tokens'[u].used
               PROVE  \/ tokens'[u].node \in gone'
                      \/ \E j \in Keys : PartnerOf[j] = Owner[u] /\ nodes'[j] = tokens'[u].node
    BY DEF UsedNamesNode
  <2>1. CASE u = t
    BY <1>2, <1>5, <1>6, <2>1
  <2>2. CASE u # t
    <3>1. tokens'[u] = tokens[u] /\ tokens[u].used /\ tokens[u].node # NoNode
      BY <1>5, <2>2 DEF RegistryInv, NodesAreUsed
    <3>2. CASE tokens[u].node \in gone
      BY <1>0, <3>1, <3>2
    <3>3. CASE tokens[u].node \notin gone
      <4> PICK j \in Keys : PartnerOf[j] = Owner[u] /\ nodes[j] = tokens[u].node
        BY <3>1, <3>3 DEF RegistryInv, UsedNamesNode
      <4> nodes'[j] = nodes[j]
        BY <1>2, <1>6, <3>1
      <4> QED
        BY <3>1
    <3> QED
      BY <3>2, <3>3
  <2> QED
    BY <2>1, <2>2
<1>13. GoneForGood'
  <2>1. CASE nodes[k] # NoNode
    <3> nodes' = nodes /\ gone' = gone
      BY <1>0, <1>1, <1>2, <2>1 DEF RegistryInv, Types
    <3> QED
      BY DEF RegistryInv, GoneForGood
  <2>2. CASE nodes[k] = NoNode
    <3>1. n = t /\ t \notin gone /\ \A j \in Keys : nodes[j] # t
      BY <1>2, <2>2, NameAssumption DEF RegistryInv, NodesAreUsed, Types
    <3> QED
      BY <1>0, <1>6, <3>1 DEF RegistryInv, GoneForGood
  <2> QED
    BY <2>1, <2>2
<1> QED
  BY <1>7, <1>8, <1>9, <1>10, <1>11, <1>12, <1>13 DEF RegistryInv

\* What the operator and time do to a token's row outside a registration.
LEMMA TokenKeeps ==
    ASSUME RegistryInv, NEW t \in Tokens, Issue(t) \/ Revoke(t) \/ Expire(t)
    PROVE  RegistryInv'
<1>a. UNCHANGED <<nodeTable, req, posts>>
  BY DEF Issue, Revoke, Expire, bounds
<1>b. lapses' \in 0 .. MaxLapses
  BY BoundAssumption DEF Issue, Revoke, Expire, Lapse, RegistryInv, Types, bounds
<1>c. tokens' \in [Tokens -> TokenRow]
  <2>1. CASE Issue(t)
    <3> [tokens[t] EXCEPT !.issued = TRUE] \in TokenRow
      BY DEF RegistryInv, Types, TokenRow
    <3> QED
      BY <2>1 DEF Issue, RegistryInv, Types
  <2>2. CASE Revoke(t)
    <3> [tokens[t] EXCEPT !.revoked = TRUE] \in TokenRow
      BY DEF RegistryInv, Types, TokenRow
    <3> QED
      BY <2>2 DEF Revoke, RegistryInv, Types
  <2>3. CASE Expire(t)
    <3> [tokens[t] EXCEPT !.expired = TRUE] \in TokenRow
      BY DEF RegistryInv, Types, TokenRow
    <3> QED
      BY <2>3 DEF Expire, RegistryInv, Types
  <2> QED
    BY <2>1, <2>2, <2>3
<1>1. /\ UNCHANGED <<nodeTable, req, posts>> /\ lapses' \in 0 .. MaxLapses
      /\ tokens' \in [Tokens -> TokenRow]
  BY <1>a, <1>b, <1>c
<1>2. \A u \in Tokens : tokens'[u].used = tokens[u].used /\ tokens'[u].node = tokens[u].node
  BY DEF Issue, Revoke, Expire, RegistryInv, Types, TokenRow
<1>3. \A u \in Tokens : tokens[u].issued => tokens'[u].issued
  BY DEF Issue, Revoke, Expire, RegistryInv, Types, TokenRow
<1>4. \A r \in Reqs : InTx(r) => ~tokens'[req[r].tok].revoked
  <2> SUFFICES ASSUME NEW r \in Reqs, InTx(r) PROVE ~tokens'[req[r].tok].revoked
    OBVIOUS
  <2>1. req[r].tok \in Tokens /\ ~tokens[req[r].tok].revoked
    BY DEF RegistryInv, LockedIsValid
  <2>2. CASE Issue(t) \/ Expire(t)
    BY <2>1, <2>2 DEF Issue, Expire, RegistryInv, Types, TokenRow
  <2>3. CASE Revoke(t)
    BY <2>1, <2>3 DEF Revoke, RowLocked, Holds, InTx, RegistryInv, Types, TokenRow
  <2> QED
    BY <2>2, <2>3
<1>5. Types'
  BY <1>1 DEF RegistryInv, Types, nodeTable
<1>6. (LocksExclusive /\ UpsertedNode)'
  BY <1>1 DEF RegistryInv, LocksExclusive, UpsertedNode, InTx, nodeTable
<1>7. LockedIsValid'
  BY <1>1, <1>2, <1>3, <1>4 DEF RegistryInv, LockedIsValid, InTx
<1>8. (NodesAreUsed /\ UsedNamesNode /\ GoneForGood)'
  BY <1>1, <1>2 DEF RegistryInv, NodesAreUsed, UsedNamesNode, GoneForGood, nodeTable, Types
<1> QED
  BY <1>5, <1>6, <1>7, <1>8 DEF RegistryInv

\* A deactivation waits for a request that holds the row.
LEMMA DeactivateKeeps ==
    ASSUME RegistryInv, NEW k \in Keys, Deactivate(k) PROVE RegistryInv'
<1>1. /\ nodes[k] # NoNode /\ UNCHANGED <<tokens, req, posts>> /\ lapses' \in 0 .. MaxLapses
      /\ nodes' = [nodes EXCEPT ![k] = NoNode] /\ gone' = gone \cup {nodes[k]}
      /\ \A r \in Reqs : ~(req[r].pc = "upserted" /\ req[r].key = k)
  BY BoundAssumption DEF Deactivate, Lapse, Writes, RegistryInv, Types
<1>2. nodes'[k] = NoNode /\ \A j \in Keys \ {k} : nodes'[j] = nodes[j]
  BY <1>1 DEF RegistryInv, Types
<1>3. Types'
  BY <1>1 DEF RegistryInv, Types
<1>4. (LocksExclusive /\ LockedIsValid)'
  BY <1>1 DEF RegistryInv, LocksExclusive, LockedIsValid, InTx
<1>5. UpsertedNode'
  BY <1>1, <1>2 DEF RegistryInv, UpsertedNode, Types
<1>6. NodesAreUsed'
  BY <1>1, <1>2 DEF RegistryInv, NodesAreUsed
<1>7. UsedNamesNode'
  <2> SUFFICES ASSUME NEW u \in Tokens, tokens[u].used, tokens[u].node \notin gone'
               PROVE  \E j \in Keys : PartnerOf[j] = Owner[u] /\ nodes'[j] = tokens[u].node
    BY <1>1 DEF UsedNamesNode
  <2>1. PICK j \in Keys : PartnerOf[j] = Owner[u] /\ nodes[j] = tokens[u].node
    BY <1>1 DEF RegistryInv, UsedNamesNode
  <2> QED
    BY <1>1, <1>2, <2>1
<1>8. GoneForGood'
  BY <1>1, <1>2 DEF RegistryInv, GoneForGood
<1> QED
  BY <1>3, <1>4, <1>5, <1>6, <1>7, <1>8 DEF RegistryInv

\* Every step of the registry keeps the invariant.
LEMMA RegistryInvStep == RegistryInv /\ [RegistryNext]_registryVars => RegistryInv'
<1> SUFFICES ASSUME RegistryInv, [RegistryNext]_registryVars PROVE RegistryInv'
  OBVIOUS
<1>1. ASSUME NEW r \in Reqs, Decline(r) \/ Abort(r) PROVE RegistryInv'
  BY <1>1, AnswerKeeps DEF Decline, Abort, Answers
<1>2. ASSUME NEW r \in Reqs, Select(r) PROVE RegistryInv'
  BY <1>2, SelectKeeps
<1>3. ASSUME NEW r \in Reqs, Upsert(r) PROVE RegistryInv'
  BY <1>3, UpsertKeeps
<1>4. ASSUME NEW r \in Reqs, Commit(r) PROVE RegistryInv'
  BY <1>4, CommitKeeps
<1>5. ASSUME NEW r \in Reqs, Retire(r) PROVE RegistryInv'
  BY <1>5, RetireKeeps
<1>6. CASE Admin
  BY <1>6, TokenKeeps, DeactivateKeeps DEF Admin
<1>7. CASE Stranger
  BY <1>7, PostKeeps
<1>8. CASE UNCHANGED registryVars
  BY <1>8 DEF registryVars, nodeTable, bounds, RegistryInv, Types, LocksExclusive, LockedIsValid,
              UpsertedNode, NodesAreUsed, UsedNamesNode, GoneForGood, InTx
<1> QED
  BY <1>1, <1>2, <1>3, <1>4, <1>5, <1>6, <1>7, <1>8 DEF RegistryNext, Handle

\* The invariant holds throughout.
LEMMA RegistryInvAlways == RegistrySpec => []RegistryInv
<1> QED
  BY RegistryInvInit, RegistryInvStep, PTL DEF RegistrySpec

-----------------------------------------------------------------------------
(* Theorems                                                                *)

\* The tables and the requests have their types, and a transaction under way is
\* on a token that was issued (register.rs:92-166).
THEOREM RegistryTypes == RegistrySpec => []RegistryTypeOK
<1>1. RegistryInv => RegistryTypeOK
  BY DEF RegistryInv, Types, LockedIsValid, InTx, RegistryTypeOK, ReqRow
<1> QED
  BY <1>1, RegistryInvAlways, PTL

\* A used token names a node of its own partner in the registry, or one that was
\* deactivated, for any number of concurrent registrations (register.rs:144).
THEOREM UsedNamesNodeAlways == RegistrySpec => []UsedNamesNode
<1>1. RegistryInv => UsedNamesNode
  BY DEF RegistryInv
<1> QED
  BY <1>1, RegistryInvAlways, PTL

\* A deactivated node does not come back and no two keys share a node
\* (commands.rs:222-236, register.rs:121-166).
THEOREM GoneForGoodAlways == RegistrySpec => []GoneForGood
<1>1. RegistryInv => GoneForGood
  BY DEF RegistryInv
<1> QED
  BY <1>1, RegistryInvAlways, PTL

\* A registration commits on a token that is unused and unrevoked at the commit,
\* whoever else is at work on it (FOR UPDATE, register.rs:98).
THEOREM CommitsOnlyValidAlways == RegistrySpec => CommitsOnlyValid
<1>1. RegistryInv /\ [RegistryNext]_registryVars =>
          [\A r \in Reqs :
             (req[r].pc = "upserted" /\ req'[r].ans = "created") =>
                 LET t == req[r].tok IN ~tokens[t].used /\ ~tokens[t].revoked]_registryVars
  BY DEF RegistryInv, LockedIsValid, InTx
<1> QED
  BY <1>1, RegistryInvAlways, PTL DEF RegistrySpec, CommitsOnlyValid
=============================================================================
