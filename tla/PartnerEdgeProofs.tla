-------------------------- MODULE PartnerEdgeProofs --------------------------
(***************************************************************************)
(* Theorems about the scripts of a partner edge and the registry they      *)
(* register at, for any number of tokens, keys, requests, image tags and   *)
(* runs of the scripts, with a kill possible between any two of their      *)
(* steps.                                                                  *)
(***************************************************************************)
EXTENDS PartnerEdge, PartnerRegistryProofs

-----------------------------------------------------------------------------
(* The inductive invariant                                                 *)

Tags == Versions \cup {None}
Scripts == {None, "install", "bake", "hydrate", "upgrade", "rollback"}
Ids == Tokens \cup {NoNode, Manual}

\* The steps a hydration takes once its token is spent, and those only it takes.
Paid == {"compose", "dns", "up", "cert", "certwatch", "edge", "seal"} \cup Files
Hydrating == {"teardown", "unseal", "check", "dns", "cert", "seal"}

\* The steps of an upgrade up to its healthcheck, and the way back.
Upgrading == {"backup", "backup state", "rewrite", "rewrite state", "pull", "recreate", "health"}
Restoring == {"restore", "restore and up", "restore state", "restore state and up", "repull",
              "reup"}

Steps == Paid \cup Hydrating \cup Upgrading \cup Restoring
         \cup {"idle", "ports", "post", "wait", "state", "bake", "rehealth"}
Jobs == [pc : Steps, script : Scripts, tok : Tokens \cup {NoToken}, req : Reqs \cup {NoReqId},
         node : Ids, ver : Tags, was : Tags \X Tags]

EdgeTypes ==
    /\ env \in Tokens \cup {NoToken} /\ seal \in [tok : Tokens \cup {NoToken}, ver : Tags]
    /\ compose \in Tags /\ state \in Tags /\ prev \in Tags \X Tags
    /\ job \in Jobs

\* The node of this edge in the registry and those that the operator has
\* deactivated: a key keeps its id until then, so a node never leaves the set.
KnownNodes == gone \cup ({nodes[EdgeKey]} \ {NoNode})
SpentTokens == {t \in Tokens : tokens[t].used /\ tokens[t].node \in KnownNodes}

\* Whoever is told "created" has registered the key it asked for.
CreatedIsKept == \A r \in Reqs :
    req[r].pc = "done" /\ req[r].ans = "created" =>
        /\ req[r].tok \in Tokens /\ tokens[req[r].tok].used
        /\ tokens[req[r].tok].node = req[r].node
        /\ req[r].key = EdgeKey => req[r].node \in KnownNodes

\* The request a script waits for is its own.
JobWaits == At("wait") =>
    /\ job.req \in Reqs
    /\ req[job.req].pc # "idle" /\ req[job.req].tok = job.tok /\ req[job.req].key = EdgeKey

\* What is about to be rendered is the operator's own, or a registered node's.
JobRenders == job.pc \in {"compose"} \cup Files => job.node \in KnownNodes \cup {Manual}

\* A hydration that has got past its registration has spent its token.
JobHydrates ==
    /\ job.pc \in Hydrating => Script("hydrate")
    /\ job.pc \in {"ports", "state"} \cup Restoring => ~Script("hydrate")
    /\ Script("hydrate") /\ job.pc \in Paid => job.tok \in SpentTokens

\* An upgrade has its way back in the .prev files before it writes, and goes it
\* file by file.
JobUpgrades ==
    /\ job.pc \in Upgrading => Script("upgrade")
    /\ Script("upgrade") =>
         /\ job.pc \in {"backup", "backup state", "rewrite"} => job.was = <<compose, state>>
         /\ At("backup state") => prev[1] = compose
         /\ job.pc \in (Upgrading \cup Restoring) \ {"backup", "backup state", "repull", "reup"}
              => prev = job.was
         /\ At("rewrite state") => compose = job.ver
         /\ job.pc \in {"pull", "recreate", "health"} => compose = job.ver /\ state = job.ver
         /\ job.pc \in {"restore state", "restore state and up"} => compose = job.was[1]
         /\ job.pc \in {"repull", "reup"} => <<compose, state>> = job.was

SealSpent == seal # NoSeal => seal.tok \in SpentTokens
ConfKnown == conf \in [Files -> KnownNodes \cup {None, Manual}]

\* What is said with a script under way is that of an upgrade which reseeds: the
\* compose file has the target until hydrate writes its own default there.
ReportStands == job # NoJob =>
    /\ last.result # "rolled back"
    /\ last.result = "upgraded" =>
         /\ Script("hydrate") /\ job.ver = Latest /\ Reseeding
         /\ job.pc \in Unrendered => compose = last.ver

DiskInv == EdgeTypes /\ JobRenders /\ JobHydrates /\ JobUpgrades /\ SealSpent /\ ConfKnown
           /\ ReportIsTrue /\ ReportStands
EdgeInv == RegistryInv /\ CreatedIsKept /\ JobWaits /\ DiskInv

LEMMA EdgeInvInit == Init => EdgeInv
<1> SUFFICES ASSUME Init PROVE EdgeInv
  OBVIOUS
<1>1. RegistryInv
  BY RegistryInvInit DEF Init
<1>2. CreatedIsKept /\ JobWaits
  BY DEF Init, RegistryInit, NoReq, NoJob, CreatedIsKept, JobWaits, At
<1>3. EdgeTypes
  BY DEF Init, EdgeTypes, NoJob, NoSeal, Jobs, Steps, Paid, Hydrating, Upgrading, Restoring,
     Scripts, Tags, Ids
<1>4. /\ JobRenders /\ JobHydrates /\ JobUpgrades /\ SealSpent /\ ConfKnown
      /\ ReportIsTrue /\ ReportStands
  BY DEF Init, NoJob, NoReport, JobRenders, JobHydrates, JobUpgrades, SealSpent, ConfKnown,
     ReportIsTrue, ReportStands, At, Script, Hydrating, Upgrading, Restoring, Paid, Files
<1> QED
  BY <1>1, <1>2, <1>3, <1>4 DEF EdgeInv, DiskInv

-----------------------------------------------------------------------------
(* The registry's steps                                                    *)

UsedStays == \A t \in Tokens :
    tokens[t].used => tokens'[t].used /\ tokens'[t].node = tokens[t].node

\* What this edge has paid for and got stays so: a used token keeps its node, a
\* key its id, whoever else registers, revokes or deactivates.
LEMMA TablesGrow ==
    ASSUME RegistryInv, [RegistryNext]_registryVars
    PROVE  UsedStays /\ KnownNodes \subseteq KnownNodes' /\ SpentTokens \subseteq SpentTokens'
<1> USE EdgeAssumption DEF RegistryInv, Types
<1>1. UsedStays
  <2>1. ASSUME NEW r \in Reqs, Commit(r) PROVE UsedStays
    <3>1. /\ ~tokens[req[r].tok].used
          /\ tokens' = [tokens EXCEPT ![req[r].tok].used = TRUE, ![req[r].tok].node = req[r].node]
      BY <2>1 DEF Commit, LockedIsValid, InTx
    <3>2. \A t \in Tokens \ {req[r].tok} : tokens'[t] = tokens[t]
      BY <3>1
    <3> QED
      BY <3>1, <3>2 DEF UsedStays
  <2>2. ASSUME NEW t \in Tokens, Issue(t) \/ Revoke(t) \/ Expire(t) PROVE UsedStays
    BY <2>2 DEF Issue, Revoke, Expire, TokenRow, UsedStays
  <2>3. tokens' = tokens => UsedStays
    BY DEF UsedStays
  <2> QED
    BY <2>1, <2>2, <2>3 DEF RegistryNext, Handle, Decline, Select, Upsert, Abort, Retire, Admin,
       Deactivate, Stranger, Post, registryVars
<1>2. KnownNodes \subseteq KnownNodes'
  <2>1. ASSUME NEW r \in Reqs, Commit(r) PROVE KnownNodes \subseteq KnownNodes'
    <3>1. /\ req[r].key \in Keys /\ gone' = gone
          /\ nodes' = [nodes EXCEPT ![req[r].key] = req[r].node]
          /\ nodes[req[r].key] # NoNode => req[r].node = nodes[req[r].key]
      BY <2>1 DEF Commit, UpsertedNode
    <3> QED
      BY <3>1 DEF KnownNodes
  <2>2. ASSUME NEW k \in Keys, Deactivate(k) PROVE KnownNodes \subseteq KnownNodes'
    BY <2>2 DEF Deactivate, KnownNodes
  <2>3. nodes' = nodes /\ gone' = gone => KnownNodes' = KnownNodes
    BY DEF KnownNodes
  <2> QED
    BY <2>1, <2>2, <2>3 DEF RegistryNext, Handle, Decline, Select, Upsert, Abort, Retire, Admin,
       Issue, Revoke, Expire, Stranger, Post, registryVars, nodeTable
<1> QED
  BY <1>1, <1>2 DEF SpentTokens, UsedStays

\* A step of one request that does not answer "created".
LEMMA CreatedStays ==
    ASSUME RegistryInv, CreatedIsKept, NEW r \in Reqs,
           \A s \in Reqs \ {r} : req'[s] = req[s],
           req'[r].pc # "done" \/ req'[r].ans # "created",
           UsedStays, KnownNodes \subseteq KnownNodes'
    PROVE  CreatedIsKept'
BY DEF CreatedIsKept, UsedStays

LEMMA AnswerIs ==
    ASSUME Types, NEW r \in Reqs, NEW a, Answer(r, a)
    PROVE  /\ \A s \in Reqs \ {r} : req'[s] = req[s]
           /\ req'[r].pc = "done" /\ req'[r].ans = a
           /\ req'[r].tok = req[r].tok /\ req'[r].key = req[r].key /\ req'[r].node = req[r].node
BY DEF Types, ReqRow, Answer

LEMMA GotoIs ==
    ASSUME Types, NEW r \in Reqs, NEW pc, Goto(r, pc)
    PROVE  /\ \A s \in Reqs \ {r} : req'[s] = req[s]
           /\ req'[r].pc = pc /\ req'[r].tok = req[r].tok /\ req'[r].key = req[r].key
BY DEF Types, ReqRow, Goto

\* One step of the server on one request: it answers "created" in a commit only.
LEMMA HandleIs ==
    ASSUME RegistryInv, NEW r \in Reqs, Handle(r) \/ Retire(r)
    PROVE  /\ \A s \in Reqs \ {r} : req'[s] = req[s]
           /\ Commit(r) \/ req'[r].pc # "done" \/ req'[r].ans # "created"
           /\ Retire(r) \/ /\ req'[r].pc # "idle"
                           /\ req'[r].tok = req[r].tok /\ req'[r].key = req[r].key
<1>0. Types
  BY DEF RegistryInv
<1>1. CASE Decline(r) \/ Abort(r)
  BY <1>0, <1>1, AnswerIs DEF Decline, Abort
<1>2. CASE Select(r)
  <2>1. Verdict(req[r].tok, req[r].key) # "created"
    BY DEF Verdict
  <2> QED
    BY <1>0, <1>2, <2>1, AnswerIs, GotoIs DEF Select
<1>3. CASE Upsert(r)
  BY <1>0, <1>3 DEF Upsert, Types, ReqRow
<1>4. CASE Commit(r)
  BY <1>0, <1>4, AnswerIs DEF Commit
<1>5. CASE Retire(r)
  BY <1>0, <1>5 DEF Retire, NoReq, Types, ReqRow
<1> QED
  BY <1>1, <1>2, <1>3, <1>4, <1>5 DEF Handle

LEMMA RequestsKept ==
    ASSUME RegistryInv, CreatedIsKept, [RegistryNext]_registryVars
    PROVE  CreatedIsKept'
<1>1. UsedStays /\ KnownNodes \subseteq KnownNodes'
  BY TablesGrow
<1>2. ASSUME NEW r \in Reqs, Handle(r) \/ Retire(r) PROVE CreatedIsKept'
  <2>1. CASE Commit(r)
    <3>1. /\ req[r].tok \in Tokens /\ req[r].key \in Keys /\ req[r].node # NoNode
      BY <2>1, NameAssumption DEF Commit, RegistryInv, Types, LockedIsValid, UpsertedNode, InTx
    <3>2. /\ req'[r].tok = req[r].tok /\ req'[r].node = req[r].node /\ req'[r].key = req[r].key
          /\ tokens'[req[r].tok].used /\ tokens'[req[r].tok].node = req[r].node
          /\ nodes'[req[r].key] = req[r].node
      BY <2>1, <3>1, AnswerIs DEF Commit, RegistryInv, Types, TokenRow
    <3>3. req[r].key = EdgeKey => req[r].node \in KnownNodes'
      BY <3>1, <3>2 DEF KnownNodes
    <3> QED
      BY <1>1, <1>2, <3>1, <3>2, <3>3, HandleIs DEF CreatedIsKept, UsedStays
  <2>2. CASE ~Commit(r)
    BY <1>1, <1>2, <2>2, HandleIs, CreatedStays
  <2> QED
    BY <2>1, <2>2
<1>3. CASE Stranger
  <2>1. PICK r \in Reqs, t \in Tokens \cup {NoToken}, k \in Keys : Post(r, t, k)
    BY <1>3 DEF Stranger
  <2>2. /\ \A s \in Reqs \ {r} : req'[s] = req[s]
        /\ req[r].pc = "idle" /\ req'[r].pc = "open"
    BY <2>1 DEF Post, NoReq, RegistryInv, Types
  <2> QED
    BY <1>1, <2>2, CreatedStays
<1>4. CASE req' = req
  BY <1>1, <1>4 DEF CreatedIsKept, UsedStays
<1> QED
  BY <1>2, <1>3, <1>4 DEF RegistryNext, Admin, Issue, Revoke, Expire, Deactivate, registryVars

\* A step of the server leaves the scripts and the disk alone, and the request
\* that a script waits for stays until the script takes the answer.
LEMMA RegistryKeepsEdge ==
    ASSUME EdgeInv, Registry PROVE EdgeInv'
<1>1. RegistryNext /\ UNCHANGED edgeVars
  BY DEF Registry, RegistryNext
<1>2. RegistryInv' /\ CreatedIsKept'
  BY <1>1, RegistryInvStep, RequestsKept DEF EdgeInv
<1>3. KnownNodes \subseteq KnownNodes' /\ SpentTokens \subseteq SpentTokens'
  BY <1>1, TablesGrow DEF EdgeInv
<1>4. JobWaits'
  <2> SUFFICES ASSUME At("wait")
               PROVE  /\ job.req \in Reqs /\ req'[job.req].pc # "idle"
                      /\ req'[job.req].tok = job.tok /\ req'[job.req].key = EdgeKey
    BY <1>1 DEF JobWaits, At, edgeVars
  <2> DEFINE w == job.req
  <2>1. w \in Reqs /\ req[w].pc # "idle" /\ req[w].tok = job.tok /\ req[w].key = EdgeKey
    BY DEF EdgeInv, JobWaits
  <2> HIDE DEF w
  <2>2. ASSUME NEW r \in Reqs, Handle(r) \/ (w # r /\ Retire(r))
        PROVE  req'[w].pc # "idle" /\ req'[w].tok = req[w].tok /\ req'[w].key = req[w].key
    <3>1. CASE w # r
      BY <2>1, <2>2, <3>1, HandleIs DEF EdgeInv
    <3>2. CASE w = r
      BY <2>2, <3>2, HandleIs DEF EdgeInv, Handle, Decline, Select, Upsert, Commit, Abort, Retire
    <3> QED
      BY <3>1, <3>2
  <2>3. CASE Admin
    BY <2>1, <2>3 DEF Admin, Issue, Revoke, Expire, Deactivate, w
  <2>4. CASE Stranger
    BY <2>1, <2>4 DEF EdgeInv, RegistryInv, Types, Stranger, Post, w
  <2> QED
    BY <2>1, <2>2, <2>3, <2>4 DEF Registry, w
<1>5. DiskInv'
  <2>1. UNCHANGED <<env, seal, compose, conf, state, prev, job, last>>
    BY <1>1 DEF edgeVars, disk, machine
  <2>5. EdgeTypes' /\ ReportIsTrue' /\ ReportStands'
    BY <2>1 DEF EdgeInv, DiskInv, EdgeTypes, ReportIsTrue, ReportStands, Reseeding, Script
  <2>2. JobUpgrades'
    BY <2>1 DEF EdgeInv, DiskInv, JobUpgrades, At, Script
  <2>3. (JobRenders /\ JobHydrates)'
    BY <1>3, <2>1 DEF EdgeInv, DiskInv, JobRenders, JobHydrates, Script
  <2>4. (SealSpent /\ ConfKnown)'
    BY <1>3, <2>1 DEF EdgeInv, DiskInv, SealSpent, ConfKnown
  <2> QED
    BY <2>5, <2>2, <2>3, <2>4 DEF DiskInv
<1> QED
  BY <1>2, <1>4, <1>5 DEF EdgeInv

-----------------------------------------------------------------------------
(* The scripts' steps                                                      *)

\* A step that leaves the registry alone and does not begin to wait.
LEMMA OffLine ==
    ASSUME EdgeInv, UNCHANGED registryVars
    PROVE  /\ RegistryInv' /\ CreatedIsKept'
           /\ KnownNodes' = KnownNodes /\ SpentTokens' = SpentTokens
           /\ job'.pc # "wait" => JobWaits'
<1>1. RegistryInv'
  BY RegistryInvStep DEF EdgeInv
<1>2. UNCHANGED <<tokens, nodes, gone, req>>
  BY DEF registryVars, nodeTable
<1>3. KnownNodes' = KnownNodes /\ SpentTokens' = SpentTokens
  BY <1>2 DEF KnownNodes, SpentTokens
<1>4. CreatedIsKept'
  BY <1>2, <1>3 DEF EdgeInv, CreatedIsKept
<1> QED
  BY <1>1, <1>3, <1>4 DEF JobWaits, At

LEMMA ToIs ==
    ASSUME job \in Jobs, NEW pc \in Steps, To(pc)
    PROVE  /\ job' \in Jobs /\ job'.pc = pc /\ job'.script = job.script /\ job'.tok = job.tok
           /\ job'.node = job.node /\ job'.ver = job.ver /\ job'.was = job.was
           /\ pc # "idle" => job' # NoJob
BY DEF To, Goes, Jobs, NoJob

LEMMA StartIs ==
    ASSUME EdgeTypes, NEW script \in Scripts, NEW pc \in Steps \ {"idle"},
           NEW t \in Tokens \cup {NoToken}, NEW v \in Tags, Start(script, pc, t, v)
    PROVE  /\ job' \in Jobs /\ job'.pc = pc /\ job'.script = script /\ job'.tok = t
           /\ job'.ver = v /\ job'.node = NoNode /\ job' # NoJob
           /\ script = "upgrade" => job'.was = <<compose, state>>
           /\ last' = NoReport
<1>1. /\ job'.pc = pc /\ job'.script = script /\ job'.tok = t /\ job'.ver = v
      /\ job'.node = NoNode /\ job'.req = NoReqId
      /\ job'.was = IF script = "upgrade" THEN <<compose, state>> ELSE <<None, None>>
  BY DEF Start, NoJob
<1>2. job'.was \in Tags \X Tags
  BY <1>1 DEF EdgeTypes, Tags
<1>3. job' \in Jobs
  BY <1>1, <1>2 DEF Start, NoJob, Jobs, Ids
<1> QED
  BY <1>1, <1>3 DEF NoJob, Start

\* A script that has ended asks nothing more of the disk.
LEMMA EndsIs ==
    ASSUME NEW result, Ends(result)
    PROVE  /\ job' = NoJob /\ job' \in Jobs
           /\ \/ last' = last
              \/ last'.result = result /\ last'.ver = job.ver /\ last'.was = job.was
           /\ (JobRenders /\ JobHydrates /\ JobUpgrades)' /\ job'.pc # "wait"
<1>1. job' = NoJob /\ NoJob \in Jobs
  BY DEF Ends, NoJob, Jobs, Steps, Scripts, Ids, Tags
<1>2. \/ last' = last
      \/ last'.result = result /\ last'.ver = job.ver /\ last'.was = job.was
  BY DEF Ends, Report
<1>3. (JobRenders /\ JobHydrates /\ JobUpgrades)'
  BY <1>1 DEF NoJob, JobRenders, JobHydrates, JobUpgrades, At, Script, Hydrating, Upgrading,
     Restoring, Paid, Files
<1> QED
  BY <1>1, <1>2, <1>3 DEF NoJob

\* What has been said stays true from one step of a script to the next, for no
\* hydration writes a tag but at its step "compose".
LEMMA ReportKept ==
    ASSUME EdgeInv, last' = last, job.pc # "idle", job' # NoJob,
           job'.script = job.script, job'.ver = job.ver,
           \/ ~Script("hydrate")
           \/ /\ UNCHANGED <<compose, state>>
              /\ job'.pc \in Unrendered => job.pc \in Unrendered
           \/ /\ compose' = job.ver /\ state' = state
              /\ job'.pc \notin Unrendered
    PROVE  (ReportIsTrue /\ ReportStands)'
<1>1. ReportIsTrue /\ ReportStands /\ job # NoJob
  BY DEF EdgeInv, DiskInv, NoJob
<1>2. last'.result # "rolled back"
  BY <1>1 DEF ReportStands
<1>3. CASE last.result = "upgraded"
  <2>1. Script("hydrate") /\ job.ver = Latest /\ Reseeding /\ state' = last.ver
    BY <1>1, <1>3 DEF ReportStands, ReportIsTrue
  <2>2. job'.pc \in Unrendered => compose' = last.ver
    BY <1>1, <1>3, <2>1 DEF ReportStands
  <2>3. compose' = last.ver \/ (job'.pc \notin Unrendered /\ compose' = Latest)
    BY <1>1, <1>3, <2>1 DEF ReportIsTrue
  <2> QED
    BY <1>2, <2>1, <2>2, <2>3 DEF ReportIsTrue, ReportStands, Reseeding, Script
<1>4. CASE last.result # "upgraded"
  BY <1>2, <1>4 DEF ReportIsTrue, ReportStands
<1> QED
  BY <1>3, <1>4

\* The end of a script, which must be as it says if it says so.
LEMMA EndReports ==
    ASSUME EdgeInv, NEW result, Ends(result), UNCHANGED <<compose, state>>,
           result = "upgraded" => Script("upgrade") /\ compose = job.ver /\ state = job.ver,
           result = "rolled back" => Script("upgrade") /\ <<compose, state>> = job.was
    PROVE  (ReportIsTrue /\ ReportStands)'
<1>0. job' = NoJob
  BY EndsIs
<1>1. ReportStands' /\ job'.pc \notin Unrendered
  <2>1. ReportStands'
    BY <1>0 DEF ReportStands
  <2>2. job'.pc \notin Unrendered
    BY <1>0 DEF NoJob, Unrendered
  <2> QED
    BY <2>1, <2>2
<1>2. CASE last' = last
  BY <1>1, <1>2 DEF EdgeInv, DiskInv, ReportIsTrue, Reseeding
<1>3. CASE last' # last
  <2>1. last'.result = result /\ last'.ver = job.ver /\ last'.was = job.was
    BY <1>3, EndsIs
  <2> QED
    BY <1>1, <2>1 DEF ReportIsTrue
<1> QED
  BY <1>1, <1>2, <1>3

Moved(pc) ==
    /\ job' \in Jobs /\ job'.pc = pc /\ job'.script = job.script /\ job'.tok = job.tok
    /\ job'.node = job.node /\ job'.ver = job.ver /\ job'.was = job.was
    /\ ReportIsTrue' /\ ReportStands'

\* The next step of a script.
LEMMA ToMoves ==
    ASSUME EdgeInv, NEW pc \in Steps, pc # "idle", To(pc), job.pc # "idle",
           \/ ~Script("hydrate")
           \/ /\ UNCHANGED <<compose, state>>
              /\ pc \in Unrendered => job.pc \in Unrendered
           \/ /\ compose' = job.ver /\ state' = state
              /\ pc \notin Unrendered
    PROVE  Moved(pc)
<1>1. last' = last /\ job \in Jobs
  BY DEF To, Goes, EdgeInv, DiskInv, EdgeTypes
<1>2. /\ job' \in Jobs /\ job'.pc = pc /\ job'.script = job.script /\ job'.tok = job.tok
      /\ job'.node = job.node /\ job'.ver = job.ver /\ job'.was = job.was /\ job' # NoJob
  BY <1>1, ToIs
<1>3. (ReportIsTrue /\ ReportStands)'
  BY <1>1, <1>2, ReportKept
<1> QED
  BY <1>2, <1>3 DEF Moved

\* What remains to be shown of a step of a script, off line: that its next step
\* finds what it needs.
LEMMA ScriptSuffices ==
    ASSUME EdgeInv, UNCHANGED registryVars, env' \in Tokens \cup {NoToken},
           compose' \in {compose, job.ver, prev[1]}, state' \in {state, job.ver, prev[2]},
           prev' \in {prev, <<compose, prev[2]>>, <<prev[1], state>>},
           \/ conf' = conf
           \/ \E f \in Files : /\ conf' = [conf EXCEPT ![f] = job.node]
                               /\ job.node \in KnownNodes \cup {Manual},
           \/ seal' \in {seal, NoSeal}
           \/ seal' = [tok |-> job.tok, ver |-> job.ver] /\ job.tok \in SpentTokens,
           job' \in Jobs, job'.pc # "wait",
           (JobRenders /\ JobHydrates /\ JobUpgrades)', (ReportIsTrue /\ ReportStands)'
    PROVE  EdgeInv'
<1>1. /\ RegistryInv' /\ CreatedIsKept' /\ JobWaits'
      /\ KnownNodes' = KnownNodes /\ SpentTokens' = SpentTokens
  BY OffLine
<1>2. EdgeTypes /\ SealSpent /\ ConfKnown
  BY DEF EdgeInv, DiskInv
<1>3. EdgeTypes'
  <2>1. /\ prev[1] \in Tags /\ prev[2] \in Tags /\ job.ver \in Tags
        /\ compose \in Tags /\ state \in Tags
    BY <1>2 DEF EdgeTypes, Jobs
  <2>2. prev' \in Tags \X Tags
    BY <1>2, <2>1 DEF EdgeTypes
  <2>3. seal' \in [tok : Tokens \cup {NoToken}, ver : Tags]
    BY <1>2, <2>1 DEF EdgeTypes, NoSeal, Tags, SpentTokens
  <2> QED
    BY <2>1, <2>2, <2>3 DEF EdgeTypes
<1>4. SealSpent' /\ ConfKnown'
  BY <1>1, <1>2 DEF SealSpent, ConfKnown
<1> QED
  BY <1>1, <1>3, <1>4 DEF EdgeInv, DiskInv

LEMMA PairIs == ASSUME NEW S, NEW w \in S \X S PROVE w = <<w[1], w[2]>>
OBVIOUS

\* The end of a script, which must be as it says.
LEMMA EndKeeps ==
    ASSUME EdgeInv, NEW result, Ends(result),
           UNCHANGED <<registryVars, env, compose, conf, state, prev>>,
           \/ seal' = seal
           \/ seal' = [tok |-> job.tok, ver |-> job.ver] /\ job.tok \in SpentTokens,
           result = "upgraded" => Script("upgrade") /\ compose = job.ver /\ state = job.ver,
           result = "rolled back" => Script("upgrade") /\ <<compose, state>> = job.was
    PROVE  EdgeInv'
<1>1. env \in Tokens \cup {NoToken}
  BY DEF EdgeInv, DiskInv, EdgeTypes
<1>2. (ReportIsTrue /\ ReportStands)'
  BY EndReports
<1> QED
  BY <1>1, <1>2, EndsIs, ScriptSuffices

\* The start of a script.
LEMMA StartKeeps ==
    ASSUME EdgeInv, NEW script \in Scripts, NEW pc \in Steps, NEW t \in Tokens \cup {NoToken},
           NEW v \in Tags, Start(script, pc, t, v), UNCHANGED <<registryVars, disk, machine>>,
           \/ script \in {"install", "bake"} /\ pc = "ports"
           \/ script = "hydrate" /\ pc \in {"teardown", "check"}
           \/ script = "upgrade" /\ pc = "backup"
           \/ script = "rollback" /\ pc = "restore"
    PROVE  EdgeInv'
<1>1. EdgeTypes
  BY DEF EdgeInv, DiskInv
<1>2. /\ job' \in Jobs /\ job'.pc = pc /\ job'.script = script /\ job' # NoJob
      /\ script = "upgrade" => job'.was = <<compose, state>>
      /\ last' = NoReport
  BY <1>1, StartIs
<1>3. (JobRenders /\ JobHydrates /\ JobUpgrades)'
  BY <1>2 DEF disk, JobRenders, JobHydrates, JobUpgrades, At, Script, Hydrating, Upgrading,
     Restoring, Paid, Files
<1>4. (ReportIsTrue /\ ReportStands)'
  BY <1>2 DEF NoReport, None, ReportIsTrue, ReportStands
<1> QED
  BY <1>1, <1>2, <1>3, <1>4, ScriptSuffices DEF EdgeTypes, disk, machine

\* The files are rendered for the node that the registration gave.
LEMMA RenderKeeps ==
    ASSUME EdgeInv,
           RenderCompose \/ (\E f \in Files : RenderConf(f)) \/ PersistState \/ TimedOut
    PROVE  EdgeInv'
<1>0. /\ JobRenders /\ JobHydrates /\ JobUpgrades
      /\ env \in Tokens \cup {NoToken} /\ job \in Jobs
  BY DEF EdgeInv, DiskInv, EdgeTypes
<1>1. {"Caddyfile", "xray", "coturn", "dns", "state", "up"} \subseteq Steps \ {"idle"}
  BY DEF Steps, Paid, Files, Hydrating, Upgrading, Restoring
<1>2. UNCHANGED registryVars /\ KnownNodes' = KnownNodes /\ SpentTokens' = SpentTokens
  BY OffLine DEF RenderCompose, RenderConf, PersistState, TimedOut
<1> USE DEF JobRenders, JobHydrates, JobUpgrades, At, Script, Moved, Hydrating, Upgrading,
        Restoring, Paid, Files, Unrendered
<1>3. CASE RenderCompose
  <2>1. Moved("Caddyfile")
    BY <1>0, <1>1, <1>3, ToMoves DEF RenderCompose, disk
  <2>2. (JobRenders /\ JobHydrates /\ JobUpgrades)'
    BY <1>0, <1>2, <1>3, <2>1 DEF RenderCompose, disk
  <2> QED
    BY <1>0, <1>2, <1>3, <2>1, <2>2, ScriptSuffices DEF RenderCompose, disk, machine
<1>4. ASSUME NEW f \in Files, RenderConf(f) PROVE EdgeInv'
  <2> DEFINE pc == AfterFile(f)
  <2>0. pc \in {"xray", "coturn", "dns", "state"}
    BY DEF AfterFile
  <2>1. Moved(pc)
    BY <1>1, <1>4, <2>0, ToMoves DEF RenderConf, disk
  <2>2. pc = "dns" => Script("hydrate")
    BY DEF AfterFile
  <2>3. pc = "state" => ~Script("hydrate")
    BY DEF AfterFile
  <2> HIDE DEF pc
  <2>4. (JobRenders /\ JobHydrates /\ JobUpgrades)'
    BY <1>0, <1>2, <1>4, <2>0, <2>1, <2>2, <2>3 DEF RenderConf, disk
  <2>5. conf' = [conf EXCEPT ![f] = job.node] /\ job.node \in KnownNodes \cup {Manual}
    BY <1>0, <1>4 DEF RenderConf
  <2> QED
    BY <1>0, <1>2, <1>4, <2>0, <2>1, <2>4, <2>5, ScriptSuffices DEF RenderConf, disk, machine
<1>5. CASE PersistState
  <2>1. Moved("up")
    BY <1>0, <1>1, <1>5, ToMoves DEF PersistState, disk
  <2>2. (JobRenders /\ JobHydrates /\ JobUpgrades)'
    BY <1>0, <1>2, <1>5, <2>1 DEF PersistState, disk
  <2> QED
    BY <1>0, <1>2, <1>5, <2>1, <2>2, ScriptSuffices DEF PersistState, disk, machine
<1>6. CASE TimedOut
  BY <1>6, EndKeeps DEF TimedOut, disk, machine
<1> QED
  BY <1>3, <1>4, <1>5, <1>6

\* Containers and units come up, or do not.
LEMMA StartingKeeps ==
    ASSUME EdgeInv, ComposeUp \/ EnableEdge \/ EnableWatch \/ Dies
    PROVE  EdgeInv'
<1>0. /\ JobRenders /\ JobHydrates /\ JobUpgrades
      /\ env \in Tokens \cup {NoToken} /\ job \in Jobs
  BY DEF EdgeInv, DiskInv, EdgeTypes
<1>1. {"cert", "certwatch", "edge", "seal"}
        \subseteq Steps \ {"idle"}
  BY DEF Steps, Paid, Hydrating, Upgrading, Restoring
<1>2. UNCHANGED registryVars /\ KnownNodes' = KnownNodes /\ SpentTokens' = SpentTokens
  BY OffLine DEF ComposeUp, EnableEdge, EnableWatch, Dies
<1> USE DEF JobRenders, JobHydrates, JobUpgrades, At, Script, Moved, Hydrating, Upgrading,
        Restoring, Paid, Files, Unrendered
<1>3. CASE ComposeUp
  <2> DEFINE pc == IF Script("hydrate") THEN "cert" ELSE "edge"
  <2>1. Moved(pc)
    BY <1>0, <1>1, <1>3, ToMoves DEF ComposeUp, disk
  <2>2. (JobRenders /\ JobHydrates /\ JobUpgrades)'
    BY <1>0, <1>2, <1>3, <2>1 DEF ComposeUp, disk
  <2> QED
    BY <1>0, <1>2, <1>3, <2>1, <2>2, ScriptSuffices DEF ComposeUp, disk, machine
<1>4. CASE EnableEdge
  <2> DEFINE pc == IF Script("hydrate") THEN "seal" ELSE "certwatch"
  <2>1. Moved(pc)
    BY <1>0, <1>1, <1>4, ToMoves DEF EnableEdge, disk
  <2>2. (JobRenders /\ JobHydrates /\ JobUpgrades)'
    BY <1>0, <1>2, <1>4, <2>1 DEF EnableEdge, disk
  <2> QED
    BY <1>0, <1>2, <1>4, <2>1, <2>2, ScriptSuffices DEF EnableEdge, disk, machine
<1>5. CASE EnableWatch
  <2>1. CASE Ends("installed")
    BY <1>5, <2>1, EndKeeps DEF EnableWatch, disk, machine
  <2>2. CASE To("edge") /\ Script("hydrate")
    <3>1. "edge" \in Steps /\ Moved("edge")
      BY <1>5, <2>2, ToMoves DEF EnableWatch, Steps, disk
    <3>2. (JobRenders /\ JobHydrates /\ JobUpgrades)'
      BY <1>0, <1>2, <1>5, <2>2, <3>1 DEF EnableWatch, disk
    <3> QED
      BY <1>0, <1>2, <1>5, <3>1, <3>2, ScriptSuffices DEF EnableWatch, disk, machine
  <2> QED
    BY <1>5, <2>1, <2>2 DEF EnableWatch
<1>6. CASE Dies
  BY <1>6, EndKeeps DEF Dies, disk
<1> QED
  BY <1>3, <1>4, <1>5, <1>6

\* A hydration seals what it has registered.
LEMMA HydrateKeeps ==
    ASSUME EdgeInv, Teardown \/ Unseal \/ Rehydrate \/ CertReady \/ AlreadyHydrated \/ CheckDns \/
                    WriteSeal
    PROVE  EdgeInv'
<1>0. /\ JobRenders /\ JobHydrates /\ JobUpgrades
      /\ env \in Tokens \cup {NoToken} /\ job \in Jobs
  BY DEF EdgeInv, DiskInv, EdgeTypes
<1>1. {"certwatch", "check", "post", "unseal"}
        \subseteq Steps \ {"idle"}
  BY DEF Steps, Paid, Hydrating, Upgrading, Restoring
<1>2. UNCHANGED registryVars /\ KnownNodes' = KnownNodes /\ SpentTokens' = SpentTokens
  BY OffLine DEF Teardown, Unseal, Rehydrate, CertReady, AlreadyHydrated, CheckDns, WriteSeal
<1> USE DEF JobRenders, JobHydrates, JobUpgrades, At, Script, Moved, Hydrating, Upgrading,
        Restoring, Paid, Files, Unrendered
<1>3. CASE Teardown
  <2>1. Moved("unseal")
    BY <1>0, <1>1, <1>3, ToMoves DEF Teardown, disk
  <2>2. (JobRenders /\ JobHydrates /\ JobUpgrades)'
    BY <1>0, <1>2, <1>3, <2>1 DEF Teardown, disk
  <2> QED
    BY <1>0, <1>2, <1>3, <2>1, <2>2, ScriptSuffices DEF Teardown, disk, machine
<1>4. CASE Unseal
  <2>1. Moved("check")
    BY <1>0, <1>1, <1>4, ToMoves DEF Unseal, disk
  <2>2. (JobRenders /\ JobHydrates /\ JobUpgrades)'
    BY <1>0, <1>2, <1>4, <2>1 DEF Unseal, disk
  <2> QED
    BY <1>0, <1>2, <1>4, <2>1, <2>2, ScriptSuffices DEF Unseal, disk, machine
<1>5. CASE Rehydrate
  <2>1. Moved("post")
    BY <1>0, <1>1, <1>5, ToMoves DEF Rehydrate, disk
  <2>2. (JobRenders /\ JobHydrates /\ JobUpgrades)'
    BY <1>0, <1>2, <1>5, <2>1 DEF Rehydrate, disk
  <2> QED
    BY <1>0, <1>2, <1>5, <2>1, <2>2, ScriptSuffices DEF Rehydrate, disk, machine
<1>6. CASE CertReady
  <2>1. Moved("certwatch")
    BY <1>0, <1>1, <1>6, ToMoves DEF CertReady, disk
  <2>2. (JobRenders /\ JobHydrates /\ JobUpgrades)'
    BY <1>0, <1>2, <1>6, <2>1 DEF CertReady, disk
  <2> QED
    BY <1>0, <1>2, <1>6, <2>1, <2>2, ScriptSuffices DEF CertReady, disk, machine
<1>7. CASE AlreadyHydrated
  BY <1>7, EndKeeps DEF AlreadyHydrated, disk, machine
<1>8. CASE CheckDns
  <2>1. CASE Ends("dns mismatch")
    BY <1>8, <2>1, EndKeeps DEF CheckDns, disk, machine
  <2>2. CASE To("up")
    <3>1. "up" \in Steps /\ Moved("up")
      BY <1>8, <2>2, ToMoves DEF CheckDns, Steps, disk
    <3>2. (JobRenders /\ JobHydrates /\ JobUpgrades)'
      BY <1>0, <1>2, <1>8, <2>2, <3>1 DEF CheckDns, disk
    <3> QED
      BY <1>0, <1>2, <1>8, <3>1, <3>2, ScriptSuffices DEF CheckDns, disk, machine
  <2> QED
    BY <1>8, <2>1, <2>2 DEF CheckDns
<1>9. CASE WriteSeal
  <2>1. job.tok \in SpentTokens
    BY <1>0, <1>9 DEF WriteSeal
  <2> QED
    BY <1>9, <2>1, EndKeeps DEF WriteSeal, machine
<1> QED
  BY <1>3, <1>4, <1>5, <1>6, <1>7, <1>8, <1>9

\* An upgrade writes a file when its way back is in the .prev files.
LEMMA UpgradeKeeps ==
    ASSUME EdgeInv, BackupCompose \/ BackupState \/ RewriteCompose \/ RewriteState \/ Pull \/
                    Recreate \/ Health
    PROVE  EdgeInv'
<1>0. /\ JobRenders /\ JobHydrates /\ JobUpgrades
      /\ env \in Tokens \cup {NoToken} /\ job \in Jobs
  BY DEF EdgeInv, DiskInv, EdgeTypes
<1>1. {"backup state", "pull", "recreate", "rewrite", "rewrite state"}
        \subseteq Steps \ {"idle"}
  BY DEF Steps, Paid, Hydrating, Upgrading, Restoring
<1>2. UNCHANGED registryVars /\ KnownNodes' = KnownNodes /\ SpentTokens' = SpentTokens
  BY OffLine DEF BackupCompose, BackupState, RewriteCompose, RewriteState, Pull, Recreate,
     Health
<1> USE DEF JobRenders, JobHydrates, JobUpgrades, At, Script, Moved, Hydrating, Upgrading,
        Restoring, Paid, Files, Unrendered
<1>3. CASE BackupCompose
  <2>1. Moved("backup state")
    BY <1>0, <1>1, <1>3, ToMoves DEF BackupCompose, disk
  <2>2. (JobRenders /\ JobHydrates /\ JobUpgrades)'
    BY <1>0, <1>2, <1>3, <2>1 DEF BackupCompose, disk
  <2> QED
    BY <1>0, <1>2, <1>3, <2>1, <2>2, ScriptSuffices DEF BackupCompose, disk, machine
<1>4. CASE BackupState
  <2>1. Moved("rewrite")
    BY <1>0, <1>1, <1>4, ToMoves DEF BackupState, disk
  <2>2. (JobRenders /\ JobHydrates /\ JobUpgrades)'
    BY <1>0, <1>2, <1>4, <2>1 DEF BackupState, disk
  <2> QED
    BY <1>0, <1>2, <1>4, <2>1, <2>2, ScriptSuffices DEF BackupState, disk, machine
<1>5. CASE RewriteCompose
  <2>1. Moved("rewrite state")
    BY <1>0, <1>1, <1>5, ToMoves DEF RewriteCompose, disk
  <2>2. (JobRenders /\ JobHydrates /\ JobUpgrades)'
    BY <1>0, <1>2, <1>5, <2>1 DEF RewriteCompose, disk
  <2> QED
    BY <1>0, <1>2, <1>5, <2>1, <2>2, ScriptSuffices DEF RewriteCompose, disk, machine
<1>6. CASE RewriteState
  <2>1. Moved("pull")
    BY <1>0, <1>1, <1>6, ToMoves DEF RewriteState, disk
  <2>2. (JobRenders /\ JobHydrates /\ JobUpgrades)'
    BY <1>0, <1>2, <1>6, <2>1 DEF RewriteState, disk
  <2> QED
    BY <1>0, <1>2, <1>6, <2>1, <2>2, ScriptSuffices DEF RewriteState, disk, machine
<1>7. CASE Pull
  <2>1. Moved("recreate")
    BY <1>0, <1>1, <1>7, ToMoves DEF Pull, disk
  <2>2. (JobRenders /\ JobHydrates /\ JobUpgrades)'
    BY <1>0, <1>2, <1>7, <2>1 DEF Pull, disk
  <2> QED
    BY <1>0, <1>2, <1>7, <2>1, <2>2, ScriptSuffices DEF Pull, disk, machine
<1>8. CASE Recreate
  <2>1. PICK pc \in {"health", "restore and up"} : To(pc)
    BY <1>8 DEF Recreate
  <2>2. Moved(pc)
    BY <1>0, <1>8, <2>1, ToMoves DEF Recreate, Steps, disk
  <2>3. (JobRenders /\ JobHydrates /\ JobUpgrades)'
    BY <1>0, <1>2, <1>8, <2>2 DEF Recreate, disk
  <2> QED
    BY <1>0, <1>2, <1>8, <2>2, <2>3, ScriptSuffices DEF Recreate, disk
<1>9. CASE Health
  <2>1. At("health") /\ Script("upgrade") /\ compose = job.ver /\ state = job.ver
    BY <1>0, <1>9 DEF Health
  <2>2. CASE Ends("upgraded")
    BY <1>9, <2>1, <2>2, EndKeeps DEF Health, disk, machine
  <2>3. CASE To("restore")
    <3>1. Moved("restore")
      BY <1>0, <1>9, <2>3, ToMoves DEF Health, Steps, disk
    <3>2. (JobRenders /\ JobHydrates /\ JobUpgrades)'
      BY <1>0, <1>2, <1>9, <3>1 DEF Health, disk
    <3> QED
      BY <1>0, <1>2, <1>9, <3>1, <3>2, ScriptSuffices DEF Health, disk, machine
  <2>4. CASE /\ Reseed /\ last' = Report("upgraded")
             /\ job' = [NoJob EXCEPT !.script = "hydrate", !.pc = "teardown", !.tok = env,
                                     !.ver = Latest]
    <3>0. "teardown" \in Steps /\ Latest \in Tags /\ NoJob.was \in Tags \X Tags
      BY EdgeAssumption DEF Steps, NoJob, Tags
    <3>1. job' \in Jobs /\ job'.pc = "teardown" /\ job'.script = "hydrate" /\ job' # NoJob
      <4> HIDE DEF Paid, Hydrating, Upgrading, Restoring
      <4> QED
        BY <1>0, <2>4, <3>0 DEF Jobs, Ids, Scripts, NoJob
    <3>2. (JobRenders /\ JobHydrates /\ JobUpgrades)'
      BY <3>1
    <3>3. job'.ver = Latest /\ compose' = compose /\ state' = state
      BY <1>9, <2>4 DEF NoJob, Health, disk
    <3>4. (ReportIsTrue /\ ReportStands)'
      BY <2>1, <2>4, <3>1, <3>3 DEF Report, Reseed, Reseeding, ReportIsTrue, ReportStands
    <3> QED
      BY <1>0, <1>2, <1>9, <3>1, <3>2, <3>4, ScriptSuffices DEF Health, disk, machine
  <2> QED
    BY <1>9, <2>2, <2>3, <2>4 DEF Health
<1> QED
  BY <1>3, <1>4, <1>5, <1>6, <1>7, <1>8, <1>9

\* The way back.
LEMMA RollbackKeeps ==
    ASSUME EdgeInv, RestoreCompose \/ RestoreState \/ Repull \/ Reup \/ Rehealth
    PROVE  EdgeInv'
<1>0. /\ JobRenders /\ JobHydrates /\ JobUpgrades
      /\ env \in Tokens \cup {NoToken} /\ job \in Jobs
  BY DEF EdgeInv, DiskInv, EdgeTypes
<1>1. {"repull", "restore state", "restore state and up", "reup"}
        \subseteq Steps \ {"idle"}
  BY DEF Steps, Paid, Hydrating, Upgrading, Restoring
<1>2. UNCHANGED registryVars /\ KnownNodes' = KnownNodes /\ SpentTokens' = SpentTokens
  BY OffLine DEF RestoreCompose, RestoreState, Repull, Reup, Rehealth
<1> USE DEF JobRenders, JobHydrates, JobUpgrades, At, Script, Moved, Hydrating, Upgrading,
        Restoring, Paid, Files, Unrendered
<1>3. CASE RestoreCompose
  <2> DEFINE pc == IF At("restore") THEN "restore state" ELSE "restore state and up"
  <2>1. Moved(pc)
    BY <1>0, <1>1, <1>3, ToMoves DEF RestoreCompose, disk
  <2>2. (JobRenders /\ JobHydrates /\ JobUpgrades)'
    BY <1>0, <1>2, <1>3, <2>1 DEF RestoreCompose, disk
  <2> QED
    BY <1>0, <1>2, <1>3, <2>1, <2>2, ScriptSuffices DEF RestoreCompose, disk, machine
<1>4. CASE RestoreState
  <2> DEFINE pc == IF At("restore state") THEN "repull" ELSE "reup"
  <2>a. Script("upgrade") => compose' = job.was[1] /\ state' = job.was[2]
    BY <1>0, <1>4 DEF RestoreState
  <2>b. job.was \in Tags \X Tags
    BY <1>0 DEF Jobs
  <2>c. Script("upgrade") => <<compose', state'>> = job.was
    BY <2>a, <2>b, PairIs
  <2>1. Moved(pc)
    BY <1>0, <1>1, <1>4, ToMoves DEF RestoreState, disk
  <2>2. (JobRenders /\ JobHydrates /\ JobUpgrades)'
    BY <1>0, <1>2, <1>4, <2>c, <2>1 DEF RestoreState, disk
  <2> QED
    BY <1>0, <1>2, <1>4, <2>1, <2>2, ScriptSuffices DEF RestoreState, disk, machine
<1>5. CASE Repull
  <2>1. Moved("reup")
    BY <1>0, <1>1, <1>5, ToMoves DEF Repull, disk
  <2>2. (JobRenders /\ JobHydrates /\ JobUpgrades)'
    BY <1>0, <1>2, <1>5, <2>1 DEF Repull, disk
  <2> QED
    BY <1>0, <1>2, <1>5, <2>1, <2>2, ScriptSuffices DEF Repull, disk, machine
<1>6. CASE Reup
  <2>1. CASE Script("upgrade")
    <3>1. Ends("rolled back") /\ <<compose, state>> = job.was
      BY <1>0, <1>6, <2>1 DEF Reup
    <3> QED
      BY <1>2, <1>6, <2>1, <3>1, EndKeeps DEF Reup, disk
  <2>2. CASE ~Script("upgrade")
    <3>1. Moved("rehealth")
      BY <1>0, <1>6, <2>2, ToMoves DEF Reup, Steps, disk
    <3>2. (JobRenders /\ JobHydrates /\ JobUpgrades)'
      BY <1>0, <1>2, <1>6, <2>2, <3>1 DEF Reup, disk
    <3> QED
      BY <1>0, <1>2, <1>6, <3>1, <3>2, ScriptSuffices DEF Reup, disk
  <2> QED
    BY <2>1, <2>2
<1>7. CASE Rehealth
  BY <1>7, EndKeeps DEF Rehealth, disk, machine
<1> QED
  BY <1>3, <1>4, <1>5, <1>6, <1>7

\* install.sh.
LEMMA InstallKeeps ==
    ASSUME EdgeInv, StartInstall \/ Preflight \/ Bake
    PROVE  EdgeInv'
<1>0. /\ JobRenders /\ JobHydrates /\ JobUpgrades
      /\ env \in Tokens \cup {NoToken} /\ job \in Jobs
  BY DEF EdgeInv, DiskInv, EdgeTypes
<1>1. {"ports", "bake", "post", "compose"} \subseteq Steps \ {"idle"}
  BY DEF Steps, Paid
<1>2. UNCHANGED registryVars /\ KnownNodes' = KnownNodes /\ SpentTokens' = SpentTokens
  BY OffLine DEF StartInstall, Preflight, Bake
<1>3. CASE StartInstall
  BY <1>1, <1>3, EdgeAssumption, StartKeeps DEF StartInstall, Scripts, Tags
<1>4. CASE Bake
  BY <1>4, EndKeeps DEF Bake, disk
<1> USE DEF JobRenders, JobHydrates, JobUpgrades, At, Script, Moved, Hydrating, Upgrading,
        Restoring, Paid, Files, Unrendered
<1>5. CASE Preflight
  <2>1. CASE \E pc \in {"bake", "post"} : To(pc)
    <3>1. PICK pc \in {"bake", "post"} : To(pc)
      BY <2>1
    <3>2. Moved(pc)
      BY <1>0, <1>1, <1>5, <3>1, ToMoves DEF Preflight, disk
    <3>3. (JobRenders /\ JobHydrates /\ JobUpgrades)'
      BY <1>0, <1>2, <1>5, <3>2 DEF Preflight, disk
    <3> QED
      BY <1>0, <1>2, <1>5, <3>2, <3>3, ScriptSuffices DEF Preflight, disk, machine
  <2>2. CASE Goes([job EXCEPT !.pc = "compose", !.node = Manual])
    <3>1. /\ job' \in Jobs /\ job'.pc = "compose" /\ job'.script = job.script
          /\ job'.node = Manual /\ job' # NoJob /\ job'.ver = job.ver /\ last' = last
      BY <1>0, <1>1, <2>2 DEF Goes, Jobs, Ids, NoJob
    <3>2. (JobRenders /\ JobHydrates /\ JobUpgrades)'
      BY <1>0, <1>2, <1>5, <3>1 DEF Preflight, disk
    <3>3. (ReportIsTrue /\ ReportStands)'
      BY <1>0, <1>5, <3>1, ReportKept DEF Preflight, disk
    <3> QED
      BY <1>0, <1>2, <1>5, <3>1, <3>2, <3>3, ScriptSuffices DEF Preflight, disk, machine
  <2> QED
    BY <1>5, <2>1, <2>2 DEF Preflight
<1> QED
  BY <1>3, <1>4, <1>5

LEMMA StartsKeep ==
    ASSUME EdgeInv, StartHydrate \/ StartUpgrade \/ StartRollback
    PROVE  EdgeInv'
<1>1. env \in Tokens \cup {NoToken}
  BY DEF EdgeInv, DiskInv, EdgeTypes
<1>2. {"teardown", "check", "backup", "restore"} \subseteq Steps
  BY DEF Steps, Hydrating, Upgrading, Restoring
<1> QED
  BY <1>1, <1>2, EdgeAssumption, StartKeeps
     DEF StartHydrate, StartUpgrade, StartRollback, Scripts, Tags

\* A change of the operator's settings or of the machine touches nothing else.
LEMMA MachineSuffices ==
    ASSUME EdgeInv, UNCHANGED <<registryVars, disk, job, last>>, env' \in Tokens \cup {NoToken}
    PROVE  EdgeInv'
<1>1. /\ RegistryInv' /\ CreatedIsKept' /\ req' = req
      /\ KnownNodes' = KnownNodes /\ SpentTokens' = SpentTokens
  BY OffLine DEF registryVars
<1>2. /\ seal' = seal /\ conf' = conf /\ compose' = compose /\ state' = state /\ prev' = prev
      /\ job' = job /\ last' = last
  BY DEF disk
<1>3. JobWaits'
  BY <1>1, <1>2 DEF EdgeInv, JobWaits, At
<1>4. EdgeTypes'
  BY <1>2 DEF EdgeInv, DiskInv, EdgeTypes
<1>5. ReportIsTrue' /\ ReportStands'
  BY <1>2 DEF EdgeInv, DiskInv, ReportIsTrue, ReportStands, Reseeding, Script
<1>6. JobRenders'
  BY <1>1, <1>2 DEF EdgeInv, DiskInv, JobRenders
<1>7. JobHydrates'
  BY <1>1, <1>2 DEF EdgeInv, DiskInv, JobHydrates, Script
<1>8. JobUpgrades'
  <2>1. JobUpgrades
    BY DEF EdgeInv, DiskInv
  <2> QED
    BY <1>2, <2>1 DEF JobUpgrades, At, Script
<1>9. SealSpent' /\ ConfKnown'
  BY <1>1, <1>2 DEF EdgeInv, DiskInv, SealSpent, ConfKnown
<1> QED
  BY <1>1, <1>3, <1>4, <1>5, <1>6, <1>7, <1>8, <1>9 DEF EdgeInv, DiskInv

\* A kill leaves the files as they are, and a hydration that a boot starts has
\* everything before it.
LEMMA OutsideKeeps ==
    ASSUME EdgeInv, Outside
    PROVE  EdgeInv'
<1>1. EdgeTypes /\ DiskInv /\ JobWaits
  BY DEF EdgeInv, DiskInv
<1>2. CASE Crash
  <2>1. CASE job' = NoJob
    <3>1. job' \in Jobs /\ job'.pc # "wait"
      BY <2>1 DEF NoJob, Jobs, Steps, Scripts, Ids, Tags
    <3>2. (JobRenders /\ JobHydrates /\ JobUpgrades)'
      BY <2>1 DEF NoJob, JobRenders, JobHydrates, JobUpgrades, At, Script, Hydrating, Upgrading,
         Restoring, Paid, Files
    <3>3. last' = last
      BY <1>2, <2>1 DEF Crash
    <3>4. job'.pc \notin Unrendered /\ ReportStands' /\ compose' = compose /\ state' = state
      <4>1. job'.pc \notin Unrendered
        BY <2>1 DEF NoJob, Unrendered
      <4>2. ReportStands'
        BY <2>1 DEF ReportStands
      <4>3. compose' = compose /\ state' = state
        BY <1>2 DEF Crash, disk
      <4> QED
        BY <4>1, <4>2, <4>3
    <3>5. ReportIsTrue'
      BY <1>1, <3>3, <3>4 DEF DiskInv, ReportIsTrue, Reseeding
    <3> QED
      BY <1>1, <1>2, <3>1, <3>2, <3>4, <3>5, ScriptSuffices DEF Crash, disk, machine, EdgeTypes
  <2>2. CASE job' = [NoJob EXCEPT !.script = "hydrate", !.pc = "check", !.tok = env, !.ver = Latest]
    <3>0. /\ "check" \in Steps /\ Latest \in Tags /\ NoJob.was \in Tags \X Tags
          /\ env \in Tokens \cup {NoToken}
      BY <1>1, EdgeAssumption DEF NoJob, Steps, Hydrating, Tags, EdgeTypes
    <3>1. job' \in Jobs /\ job'.pc = "check" /\ job'.script = "hydrate" /\ job' # NoJob
      BY <2>2, <3>0 DEF NoJob, Jobs, Scripts, Ids
    <3>2. (JobRenders /\ JobHydrates /\ JobUpgrades)'
      BY <3>1 DEF JobRenders, JobHydrates, JobUpgrades, At, Script, Hydrating, Upgrading,
         Restoring, Paid, Files
    <3>3. last' = NoReport
      BY <1>2, <3>1 DEF Crash
    <3>4. (ReportIsTrue /\ ReportStands)'
      BY <3>3 DEF NoReport, None, ReportIsTrue, ReportStands
    <3> QED
      BY <1>1, <1>2, <3>1, <3>2, <3>4, ScriptSuffices DEF Crash, disk, machine, EdgeTypes
  <2> QED
    BY <1>2, <2>1, <2>2 DEF Crash
<1>3. CASE SetToken \/ FixDns \/ ServiceStart \/ ServiceStop
  <2>1. /\ UNCHANGED <<registryVars, disk, job, last>> /\ env' \in Tokens \cup {NoToken}
    BY <1>1, <1>3 DEF SetToken, FixDns, ServiceStart, ServiceStop, EdgeTypes
  <2> QED
    BY <2>1, MachineSuffices
<1> QED
  BY <1>2, <1>3 DEF Outside

\* The script posts: the request that it waits for is its own.
LEMMA SendKeeps ==
    ASSUME EdgeInv, SendPost
    PROVE  EdgeInv'
<1>1. PICK r \in Reqs : /\ Post(r, job.tok, EdgeKey)
                        /\ Goes([job EXCEPT !.pc = "wait", !.req = r])
  BY DEF SendPost
<1> DEFINE row == [NoReq EXCEPT !.pc = "open", !.tok = job.tok, !.key = EdgeKey]
<1>2. EdgeTypes /\ DiskInv /\ job \in Jobs
  BY DEF EdgeInv, DiskInv, EdgeTypes
<1>3. UNCHANGED <<env, disk, last, bounds, tokens, nodeTable>> /\ req' = [req EXCEPT ![r] = row]
  BY <1>1 DEF SendPost, Post, machine, Goes
<1>4. row \in ReqRow /\ row.pc = "open" /\ row.tok = job.tok /\ row.key = EdgeKey
  BY <1>2, EdgeAssumption DEF Jobs, NoReq, ReqRow
<1> HIDE DEF row
<1>5. posts' \in 0 .. MaxPosts /\ lapses' \in 0 .. MaxLapses
  BY <1>3 DEF bounds, EdgeInv, RegistryInv, Types
<1>6. RegistryInv'
  BY <1>3, <1>4, <1>5, EdgeAssumption, OutOfTx DEF EdgeInv
<1>7. req'[r] = row /\ \A s \in Reqs \ {r} : req'[s] = req[s]
  BY <1>3 DEF EdgeInv, RegistryInv, Types
<1>8. /\ KnownNodes' = KnownNodes /\ SpentTokens' = SpentTokens /\ UsedStays
  BY <1>3 DEF nodeTable, KnownNodes, SpentTokens, UsedStays
<1>9. CreatedIsKept'
  BY <1>4, <1>7, <1>8, CreatedStays DEF EdgeInv
<1>10. "wait" \in Steps
  BY DEF Steps
<1>11. /\ job' \in Jobs /\ job'.pc = "wait" /\ job'.script = job.script /\ job'.tok = job.tok
       /\ job'.req = r /\ job' # NoJob /\ job'.ver = job.ver
  BY <1>1, <1>2, <1>10 DEF Goes, Jobs, NoJob
<1>12. JobWaits'
  BY <1>4, <1>7, <1>11 DEF JobWaits, At
<1>13. (JobRenders /\ JobHydrates /\ JobUpgrades)'
  BY <1>11 DEF JobRenders, JobHydrates, JobUpgrades, At, Script, Hydrating, Upgrading, Restoring,
     Paid, Files
<1>14. (EdgeTypes /\ SealSpent /\ ConfKnown)'
  BY <1>2, <1>3, <1>8, <1>11 DEF disk, DiskInv, EdgeTypes, SealSpent, ConfKnown
<1>15. job.pc = "post" /\ "post" \in Unrendered /\ compose' = compose /\ state' = state
  BY <1>3 DEF SendPost, At, Unrendered, disk
<1>16. (ReportIsTrue /\ ReportStands)'
  BY <1>3, <1>11, <1>15, ReportKept
<1> QED
  BY <1>6, <1>9, <1>12, <1>13, <1>14, <1>16 DEF EdgeInv, DiskInv

\* The script takes the answer.  With "created" its token is spent, on a node
\* that the registry has for this edge or has had removed since.
LEMMA AnswerTaken ==
    ASSUME EdgeInv, Registered \/ Refused
    PROVE  EdgeInv'
<1>1. EdgeTypes /\ DiskInv /\ JobWaits /\ job \in Jobs /\ At("wait") /\ Retire(job.req)
  BY DEF EdgeInv, DiskInv, EdgeTypes, Registered, Refused
<1>2. PICK w \in Reqs : w = job.req
  BY <1>1 DEF JobWaits
<1>3. /\ Retire(w) /\ req[w].pc = "done" /\ req[w].tok = job.tok /\ req[w].key = EdgeKey
      /\ UNCHANGED <<env, disk, tokens, nodeTable>>
  BY <1>1, <1>2 DEF JobWaits, Retire, Registered, Refused, machine
<1>4. RegistryNext
  BY <1>3 DEF RegistryNext
<1>5. RegistryInv' /\ CreatedIsKept'
  BY <1>4, RegistryInvStep, RequestsKept DEF EdgeInv
<1>6. KnownNodes' = KnownNodes /\ SpentTokens' = SpentTokens
  BY <1>3 DEF nodeTable, KnownNodes, SpentTokens
<1>7. CASE Registered
  <2>1. /\ req[w].ans = "created"
        /\ Goes([job EXCEPT !.pc = "compose", !.node = req[w].node, !.req = NoReqId])
    BY <1>2, <1>7 DEF Registered
  <2>2. req[w].node \in KnownNodes /\ job.tok \in SpentTokens
    BY <1>3, <2>1 DEF EdgeInv, CreatedIsKept, SpentTokens
  <2>3. "compose" \in Steps /\ req[w].node \in Ids
    BY DEF Steps, Paid, Ids, EdgeInv, RegistryInv, Types, ReqRow
  <2>4. /\ job' \in Jobs /\ job'.pc = "compose" /\ job'.script = job.script
        /\ job'.tok = job.tok /\ job'.node = req[w].node /\ job' # NoJob /\ last' = last
        /\ job'.ver = job.ver
    BY <1>1, <2>1, <2>3 DEF Goes, Jobs, NoJob
  <2>5. (JobRenders /\ JobHydrates /\ JobUpgrades /\ JobWaits)'
    BY <1>6, <2>2, <2>4 DEF JobRenders, JobHydrates, JobUpgrades, JobWaits, At, Script, Hydrating,
       Upgrading, Restoring, Paid, Files
  <2>6. (EdgeTypes /\ SealSpent /\ ConfKnown)'
    BY <1>1, <1>3, <1>6, <2>4 DEF disk, DiskInv, EdgeTypes, SealSpent, ConfKnown
  <2>7. job.pc = "wait" /\ "wait" \in Unrendered /\ compose' = compose /\ state' = state
    BY <1>1, <1>3 DEF At, Unrendered, disk
  <2>8. (ReportIsTrue /\ ReportStands)'
    BY <2>4, <2>7, ReportKept
  <2> QED
    BY <1>5, <2>5, <2>6, <2>8 DEF EdgeInv, DiskInv
<1>8. CASE Refused
  <2>1. Ends("refused")
    BY <1>8 DEF Refused
  <2>2. /\ job' = NoJob /\ job' \in Jobs /\ job'.pc # "wait"
        /\ (JobRenders /\ JobHydrates /\ JobUpgrades)'
    BY <2>1, EndsIs
  <2>3. (JobWaits /\ ReportIsTrue /\ ReportStands)'
    BY <1>3, <2>1, <2>2, EndReports DEF JobWaits, At, disk
  <2>4. (EdgeTypes /\ SealSpent /\ ConfKnown)'
    BY <1>1, <1>3, <1>6, <2>2 DEF disk, DiskInv, EdgeTypes, SealSpent, ConfKnown
  <2> QED
    BY <1>5, <2>2, <2>3, <2>4 DEF EdgeInv, DiskInv
<1> QED
  BY <1>7, <1>8

LEMMA EdgeInvStep == EdgeInv /\ [Next]_vars => EdgeInv'
<1> SUFFICES ASSUME EdgeInv, [Next]_vars PROVE EdgeInv'
  OBVIOUS
<1>1. CASE Registry
  BY <1>1, RegistryKeepsEdge
<1>2. CASE Registering
  BY <1>2, SendKeeps, AnswerTaken, RenderKeeps DEF Registering
<1>3. CASE Starting
  BY <1>3, StartingKeeps DEF Starting
<1>4. CASE Install
  BY <1>4, InstallKeeps, RenderKeeps DEF Install
<1>5. CASE Hydrate
  BY <1>5, StartsKeep, HydrateKeeps DEF Hydrate
<1>6. CASE Upgrade
  BY <1>6, StartsKeep, UpgradeKeeps DEF Upgrade
<1>7. CASE Rollback
  BY <1>7, StartsKeep, RollbackKeeps DEF Rollback
<1>8. CASE Outside
  BY <1>8, OutsideKeeps
<1>9. CASE UNCHANGED vars
  <2>1. UNCHANGED <<registryVars, disk, job, last>> /\ env' \in Tokens \cup {NoToken}
    BY <1>9 DEF vars, edgeVars, machine, registryVars, EdgeInv, DiskInv, EdgeTypes
  <2> QED
    BY <2>1, MachineSuffices
<1> QED
  BY <1>1, <1>2, <1>3, <1>4, <1>5, <1>6, <1>7, <1>8, <1>9 DEF Next

LEMMA EdgeInvAlways == Spec => []EdgeInv
<1> QED
  BY EdgeInvInit, EdgeInvStep, PTL DEF Spec

-----------------------------------------------------------------------------
(* Theorems                                                                *)

\* A sentinel is there only for a token that the registry counts as used, on the
\* node it has for this edge, however the scripts were killed, refused, timed
\* out or run again in between (hydrate.sh:252).
THEOREM SealIsNeverAhead == Spec => []SealedIsRegistered
<1>1. EdgeInv => SealedIsRegistered
  BY DEF EdgeInv, DiskInv, SealSpent, SpentTokens, KnownNodes, SealedIsRegistered
<1> QED
  BY <1>1, EdgeInvAlways, PTL

\* The credentials on disk are those of the node that the registry has for this
\* edge, or had until the operator deactivated it (register.rs:125, hydrate.sh:207).
THEOREM ConfIsOfThisEdge == Spec => []ConfIsRegistered
<1>1. EdgeInv => ConfIsRegistered
  BY DEF EdgeInv, DiskInv, ConfKnown, KnownNodes, ConfIsRegistered
<1> QED
  BY <1>1, EdgeInvAlways, PTL

\* upgrade.sh says "upgraded" or "rolled back" only when both files are so, and
\* they stay so to its end, but for the image tag that a reseed renders anew
\* (upgrade.sh:101-138, hydrate.sh:20).
THEOREM ReportsAreTrue == Spec => []ReportIsTrue
<1>1. EdgeInv => ReportIsTrue
  BY DEF EdgeInv, DiskInv
<1> QED
  BY <1>1, EdgeInvAlways, PTL

\* The registry's invariants hold with the scripts as its clients too: a used
\* token names a node of its own partner, and nodes neither come back nor are
\* shared (register.rs:92-166, commands.rs:222-236).
THEOREM RegistryHoldsUnderEdge == Spec => [](UsedNamesNode /\ GoneForGood)
<1>1. EdgeInv => UsedNamesNode /\ GoneForGood
  BY DEF EdgeInv, RegistryInv
<1> QED
  BY <1>1, EdgeInvAlways, PTL
=============================================================================
