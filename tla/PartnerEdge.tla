----------------------------- MODULE PartnerEdge -----------------------------
(***************************************************************************)
(* A partner edge node (deploy/partner-edge): install.sh, hydrate.sh,      *)
(* upgrade.sh, their files and units, together with the registry they      *)
(* register at.                                                            *)
(*                                                                         *)
(* A script is a sequence of steps; between any two of them it can be      *)
(* killed and the machine can restart, and the files stay as they are.     *)
(* One script runs at a time.  Of the rendered files only two things count *)
(* here: the image tag in docker-compose.yml and the node whose            *)
(* credentials each of the other three carries.  Whether an image can be   *)
(* pulled, a container comes up, a check turns green or Caddy gets its     *)
(* certificate is left to the environment.                                 *)
(*                                                                         *)
(* An operator marked "mutant" is a deliberately broken variant of the     *)
(* definition below it; nothing uses it but the mutation runs.             *)
(***************************************************************************)
EXTENDS PartnerRegistry

CONSTANTS EdgeKey,      \* this node's partner and domain
          Versions,     \* image tags
          Latest,       \* the tag scripts default to
          Reseeds,      \* the upgrades, v0.1 to v0.2, that end in a reseed: both tags pinned
          FirstTags,    \* bound: the tags that a node is installed and hydrated with by hand
          MaxScripts    \* bound: scripts started by hand

ASSUME EdgeAssumption ==
    /\ EdgeKey \in Keys /\ Latest \in Versions /\ FirstTags \subseteq Versions
    /\ Reseeds \subseteq (Versions \ {Latest}) \X (Versions \ {Latest})
    /\ MaxScripts \in Nat

VARIABLES
    env,        \* the token in hydrate.env
    compose,    \* the tag in docker-compose.yml
    conf,       \* conf[f]: the node that the rendered file f belongs to
    state,      \* the tag in install.env
    prev,       \* the tags in docker-compose.yml.prev and install.env.prev
    seal,       \* the sentinel: the token and tag its hash is made of
    baked,      \* the unit that hydrates at boot is enabled
    up,         \* the containers run
    dns,        \* the TURNS name resolves to this machine
    job,        \* the script under way
    last,       \* what the last upgrade said of its outcome, until another script starts
    scripts     \* bound: how many scripts have been started by hand

disk == <<compose, conf, state, prev, seal>>
machine == <<env, baked, up, dns>>
edgeVars == <<disk, machine, job, last, scripts>>
vars == <<registryVars, edgeVars>>

Files == {"Caddyfile", "xray", "coturn"}
None == "none"
Manual == "manual config"
NoSeal == [tok |-> NoToken, ver |-> None]
NoReqId == "no request"
NoJob == [pc |-> "idle", script |-> None, tok |-> NoToken, req |-> NoReqId, node |-> NoNode,
          ver |-> None, was |-> <<None, None>>]
NoReport == [result |-> None, ver |-> None, was |-> <<None, None>>]

Init ==
    /\ RegistryInit
    /\ env = NoToken
    /\ compose = None /\ conf = [f \in Files |-> None] /\ state = None /\ prev = <<None, None>>
    /\ seal = NoSeal
    /\ baked = FALSE /\ up = FALSE
    /\ dns \in BOOLEAN
    /\ job = NoJob /\ scripts = 0
    /\ last = NoReport

-----------------------------------------------------------------------------
(* Scripts                                                                 *)

At(pc) == job.pc = pc
Script(script) == job.script = script
Goes(j) == job' = j /\ UNCHANGED <<last, scripts>>
To(pc) == Goes([job EXCEPT !.pc = pc])
Start(script, pc, t, v) ==
    /\ job = NoJob
    /\ scripts < MaxScripts /\ scripts' = scripts + 1
    /\ job' = [NoJob EXCEPT !.script = script, !.pc = pc, !.tok = t, !.ver = v,
                            !.was = IF script = "upgrade" THEN <<compose, state>> ELSE @]
    /\ last' = NoReport
Report(result) == [result |-> result, ver |-> job.ver, was |-> job.was]

\* Of the ways to end, the two that upgrade.sh announces an outcome with are kept.
Ends(result) ==
    /\ job' = NoJob
    /\ last' = IF result \in {"upgraded", "rolled back"} THEN Report(result) ELSE last
    /\ UNCHANGED scripts

-----------------------------------------------------------------------------
(* Registration, by install.sh and by hydrate.sh                           *)

\* curl posts, once the public address has been found.
SendPost ==
    /\ At("post")
    /\ \E r \in Reqs : Post(r, job.tok, EdgeKey)
                       /\ Goes([job EXCEPT !.pc = "wait", !.req = r])
    /\ UNCHANGED <<bounds, disk, machine>>

\* 201 in time: the answer is parsed.
Registered ==
    /\ At("wait") /\ req[job.req].ans = "created"
    /\ Goes([job EXCEPT !.pc = "compose", !.node = req[job.req].node, !.req = NoReqId])
    /\ Retire(job.req)
    /\ UNCHANGED <<disk, machine>>

\* An error status: curl -f fails and so does the script.
Refused ==
    /\ At("wait") /\ req[job.req].pc = "done" /\ req[job.req].ans # "created"
    /\ Retire(job.req)
    /\ Ends("refused")
    /\ UNCHANGED <<disk, machine>>

\* curl gives up after 15 or 30 seconds, or the answer is lost; the request
\* goes its way.
TimedOut ==
    /\ At("wait")
    /\ Ends("died")
    /\ UNCHANGED <<registryVars, disk, machine>>

\* The templates are fetched and rendered, one file after the other.
RenderCompose ==
    /\ At("compose")
    /\ compose' = job.ver
    /\ To("Caddyfile")
    /\ UNCHANGED <<registryVars, conf, state, prev, seal, machine>>
AfterFile(f) == CASE f = "Caddyfile" -> "xray"
                  [] f = "xray"      -> "coturn"
                  [] f = "coturn"    -> IF Script("hydrate") THEN "dns" ELSE "state"
RenderConf(f) ==
    /\ At(f)
    /\ conf' = [conf EXCEPT ![f] = job.node]
    /\ To(AfterFile(f))
    /\ UNCHANGED <<registryVars, compose, state, prev, seal, machine>>

\* docker compose up -d.  install.sh then waits for a certificate and for a
\* green healthcheck, but goes on without them.
ComposeUp ==
    /\ At("up")
    /\ up' = TRUE
    /\ To(IF Script("hydrate") THEN "cert" ELSE "edge")
    /\ UNCHANGED <<registryVars, disk, env, baked, dns>>

\* systemctl enable --now, in the order of the script; the edge unit runs
\* docker compose up again.
EnableEdge ==
    /\ At("edge")
    /\ up' = TRUE
    /\ To(IF Script("hydrate") THEN "seal" ELSE "certwatch")
    /\ UNCHANGED <<registryVars, disk, env, baked, dns>>
EnableWatch ==
    /\ At("certwatch")
    /\ IF Script("hydrate") THEN To("edge") ELSE Ends("installed")
    /\ UNCHANGED <<registryVars, disk, machine>>

\* What set -e and die make of a command that fails.  Containers that do not
\* come up leave the old ones behind, or none.
CanDie == {"ports", "post", "compose", "up", "cert", "certwatch", "edge", "pull",
           "repull", "reup", "bake"}
Dies ==
    /\ job.pc \in CanDie
    /\ ~(At("reup") /\ ~Script("rollback"))
    /\ Ends("died")
    /\ up' \in (IF job.pc \in {"up", "edge", "reup"} THEN {up, FALSE} ELSE {up})
    /\ UNCHANGED <<registryVars, disk, env, baked, dns>>

-----------------------------------------------------------------------------
(* install.sh                                                              *)

\* --token, --manual-config or --bake, as root, with its arguments in order.
StartInstall ==
    /\ \E t \in Tokens \cup {NoToken}, v \in FirstTags, how \in {"install", "bake"} :
         Start(how, "ports", t, v)
    /\ UNCHANGED <<registryVars, disk, machine>>

\* Preflight wants ports 80, 443, 3478 and 5349 free, so nothing is running;
\* then docker, the addresses and the images.
Preflight ==
    /\ At("ports") /\ ~up
    /\ IF Script("bake") THEN To("bake")
       ELSE IF job.tok # NoToken THEN To("post")
       ELSE Goes([job EXCEPT !.pc = "compose", !.node = Manual])
    /\ UNCHANGED <<registryVars, disk, machine>>

\* install.env, written after the templates.
PersistState ==
    /\ At("state")
    /\ state' = job.ver
    /\ To("up")
    /\ UNCHANGED <<registryVars, compose, conf, prev, seal, machine>>

\* --bake: units and scripts only; hydrate runs on the first boot of a clone.
Bake ==
    /\ At("bake")
    /\ baked' = TRUE
    /\ Ends("baked")
    /\ UNCHANGED <<registryVars, disk, env, up, dns>>

-----------------------------------------------------------------------------
(* hydrate.sh                                                              *)

StartHydrate ==
    /\ env # NoToken
    /\ \E v \in FirstTags, pc \in {"teardown", "check"} : Start("hydrate", pc, env, v)
    /\ UNCHANGED <<registryVars, disk, machine>>

\* --reseed: units off, containers down, then the sentinel.
Teardown ==
    /\ At("teardown")
    /\ up' = FALSE
    /\ To("unseal")
    /\ UNCHANGED <<registryVars, disk, env, baked, dns>>
Unseal ==
    /\ At("unseal")
    /\ seal' = NoSeal
    /\ To("check")
    /\ UNCHANGED <<registryVars, compose, conf, state, prev, machine>>

\* The hash in the sentinel decides; another one is removed.
AlreadyHydrated ==
    /\ At("check") /\ seal = [tok |-> job.tok, ver |-> job.ver]
    /\ Ends("sealed")
    /\ UNCHANGED <<registryVars, disk, machine>>
Rehydrate_SealsFirst ==                                              \* mutant
    /\ At("check") /\ seal # [tok |-> job.tok, ver |-> job.ver]
    /\ seal' = [tok |-> job.tok, ver |-> job.ver]
    /\ To("post")
    /\ UNCHANGED <<registryVars, compose, conf, state, prev, machine>>
Rehydrate ==
    /\ At("check") /\ seal # [tok |-> job.tok, ver |-> job.ver]
    /\ seal' = NoSeal
    /\ To("post")
    /\ UNCHANGED <<registryVars, compose, conf, state, prev, machine>>

\* dig: a wrong answer ends the script, with a token spent and files rendered.
CheckDns ==
    /\ At("dns")
    /\ IF dns THEN To("up") ELSE Ends("dns mismatch")
    /\ UNCHANGED <<registryVars, disk, machine>>

\* The certificate is in place within 120 seconds.
CertReady ==
    /\ At("cert")
    /\ To("certwatch")
    /\ UNCHANGED <<registryVars, disk, machine>>

\* The sentinel, last.
WriteSeal ==
    /\ At("seal")
    /\ seal' = [tok |-> job.tok, ver |-> job.ver]
    /\ Ends("sealed")
    /\ UNCHANGED <<registryVars, compose, conf, state, prev, machine>>

-----------------------------------------------------------------------------
(* upgrade.sh                                                              *)

\* The target is pinned or defaults to latest; --check changes nothing.  The
\* DNS preflight of v0.1 to v0.2 sees only a pinned target.
StartUpgrade ==
    /\ compose # None /\ state # None
    /\ \E v \in Versions \ {state} :
         /\ <<state, v>> \in Reseeds => dns
         /\ Start("upgrade", "backup", NoToken, v)
    /\ UNCHANGED <<registryVars, disk, machine>>

BackupCompose ==
    /\ At("backup")
    /\ prev' = <<compose, prev[2]>>
    /\ To("backup state")
    /\ UNCHANGED <<registryVars, compose, conf, state, seal, machine>>
BackupState ==
    /\ At("backup state")
    /\ prev' = <<prev[1], state>>
    /\ To("rewrite")
    /\ UNCHANGED <<registryVars, compose, conf, state, seal, machine>>
RewriteCompose ==
    /\ At("rewrite")
    /\ compose' = job.ver
    /\ To("rewrite state")
    /\ UNCHANGED <<registryVars, conf, state, prev, seal, machine>>
RewriteState ==
    /\ At("rewrite state")
    /\ state' = job.ver
    /\ To("pull")
    /\ UNCHANGED <<registryVars, compose, conf, prev, seal, machine>>

\* A pull that fails ends the script where it stands.
Pull ==
    /\ At("pull")
    /\ To("recreate")
    /\ UNCHANGED <<registryVars, disk, machine>>

\* A failed up goes back at once, a red healthcheck pulls the old images first.
Recreate ==
    /\ At("recreate")
    /\ \/ up' = TRUE /\ To("health")
       \/ up' \in {up, FALSE} /\ To("restore and up")
    /\ UNCHANGED <<registryVars, disk, env, baked, dns>>

\* healthcheck.sh --local wants running containers and, for check 9, the name.
\* Green is reported as "upgraded to" the target, and a v0.1 to v0.2 upgrade then
\* goes on as hydrate --reseed, which takes its own default for the tag; without
\* a token hydrate dies and only a warning is left.
Green == up /\ dns
Reseed == <<job.was[2], job.ver>> \in Reseeds /\ env # NoToken
Health ==
    /\ At("health")
    /\ \/ /\ Green /\ Reseed
          /\ last' = Report("upgraded")
          /\ job' = [NoJob EXCEPT !.script = "hydrate", !.pc = "teardown", !.tok = env,
                                  !.ver = Latest]
          /\ UNCHANGED scripts
       \/ Green /\ ~Reseed /\ Ends("upgraded")
       \/ To("restore")
    /\ UNCHANGED <<registryVars, disk, machine>>

\* cp -a of both files; also the first half of --rollback.
RestoreCompose_Only ==                                               \* mutant
    /\ job.pc \in {"restore", "restore and up"}
    /\ compose' = prev[1]
    /\ To(IF At("restore") THEN "repull" ELSE "reup")
    /\ UNCHANGED <<registryVars, conf, state, prev, seal, machine>>
RestoreCompose ==
    /\ job.pc \in {"restore", "restore and up"}
    /\ compose' = prev[1]
    /\ To(IF At("restore") THEN "restore state" ELSE "restore state and up")
    /\ UNCHANGED <<registryVars, conf, state, prev, seal, machine>>
RestoreState ==
    /\ job.pc \in {"restore state", "restore state and up"}
    /\ state' = prev[2]
    /\ To(IF At("restore state") THEN "repull" ELSE "reup")
    /\ UNCHANGED <<registryVars, compose, conf, prev, seal, machine>>
Repull ==
    /\ At("repull")
    /\ To("reup")
    /\ UNCHANGED <<registryVars, disk, machine>>

\* "|| true" in an upgrade; in --rollback a failure is fatal, and a
\* healthcheck has the last word.
Reup ==
    /\ At("reup")
    /\ \/ up' = TRUE
       \/ Script("upgrade") /\ up' \in {up, FALSE}
    /\ IF Script("upgrade") THEN Ends("rolled back") ELSE To("rehealth")
    /\ UNCHANGED <<registryVars, disk, env, baked, dns>>
Rehealth ==
    /\ At("rehealth")
    /\ (Green /\ Ends("restored")) \/ Ends("died")
    /\ UNCHANGED <<registryVars, disk, machine>>

StartRollback ==
    /\ compose # None /\ state # None
    /\ prev[1] # None /\ prev[2] # None
    /\ Start("rollback", "restore", NoToken, None)
    /\ UNCHANGED <<registryVars, disk, machine>>

-----------------------------------------------------------------------------
(* The operator, systemd and the machine                                   *)

\* hydrate.env is written by cloud-init, and again when a token is rotated.
SetToken ==
    /\ job = NoJob
    /\ env' \in Tokens \ {env}
    /\ UNCHANGED <<registryVars, disk, baked, up, dns, job, last, scripts>>
FixDns ==
    /\ ~dns /\ dns' = TRUE
    /\ UNCHANGED <<registryVars, disk, env, baked, up, job, last, scripts>>

\* oxpulse-partner-edge.service, at boot or by hand.
ServiceStart ==
    /\ job = NoJob /\ compose # None /\ ~up /\ up' = TRUE
    /\ UNCHANGED <<registryVars, disk, env, baked, dns, job, last, scripts>>
ServiceStop ==
    /\ job = NoJob /\ up /\ up' = FALSE
    /\ UNCHANGED <<registryVars, disk, env, baked, dns, job, last, scripts>>

\* The script is killed, by a restart of the machine for instance; on a baked
\* node without a sentinel the next boot runs hydrate.  Containers come back
\* as they were (restart: unless-stopped).
Crash ==
    /\ job # NoJob
    /\ job' = IF baked /\ seal = NoSeal /\ env # NoToken
              THEN [NoJob EXCEPT !.script = "hydrate", !.pc = "check", !.tok = env,
                                 !.ver = Latest]
              ELSE NoJob
    /\ last' = IF job' = NoJob THEN last ELSE NoReport
    /\ UNCHANGED <<registryVars, disk, machine, scripts>>

\* The server's side; an answer somebody waits for is taken by the script.
Registry ==
    /\ \/ \E r \in Reqs : Handle(r) \/ (job.req # r /\ Retire(r))
       \/ Admin
       \/ Stranger
    /\ UNCHANGED edgeVars

Registering == SendPost \/ Registered \/ Refused \/ TimedOut \/ RenderCompose
               \/ (\E f \in Files : RenderConf(f))
Starting == ComposeUp \/ EnableEdge \/ EnableWatch \/ Dies
Install == StartInstall \/ Preflight \/ PersistState \/ Bake
Hydrate == StartHydrate \/ Teardown \/ Unseal \/ AlreadyHydrated \/ Rehydrate \/ CheckDns
           \/ CertReady \/ WriteSeal
Upgrade == StartUpgrade \/ BackupCompose \/ BackupState \/ RewriteCompose \/ RewriteState
           \/ Pull \/ Recreate \/ Health
Rollback == StartRollback \/ RestoreCompose \/ RestoreState \/ Repull \/ Reup \/ Rehealth
Outside == SetToken \/ FixDns \/ ServiceStart \/ ServiceStop \/ Crash

Next == Registry \/ Registering \/ Starting \/ Install \/ Hydrate \/ Upgrade \/ Rollback
        \/ Outside

Spec == Init /\ [][Next]_vars

-----------------------------------------------------------------------------
(* Properties                                                              *)

\* A sentinel is never ahead of the registry: its token has been spent, on the
\* node that the registry has for this edge, through every kill, lost answer,
\* rotation and reseed (hydrate.sh:252), unless the operator deactivated it.
SealedIsRegistered ==
    seal # NoSeal => /\ tokens[seal.tok].used
                     /\ tokens[seal.tok].node \in {nodes[EdgeKey]} \cup gone

\* The credentials in each file belong to the node the registry has for this
\* edge, however often it was registered, with whichever token, and wherever a
\* rendering was cut short (register.rs:125, hydrate.sh:207), unless the operator
\* deactivated it or brought his own configuration.
ConfIsRegistered == \A f \in Files : conf[f] \in {None, Manual, nodes[EdgeKey]} \cup gone

\* What upgrade.sh says is so on the disk, whatever earlier scripts were killed
\* half-way and until another one starts (upgrade.sh:101-132): "rolled back" means
\* that both files are as they were when it began, "upgraded to" that both have
\* the new tag.  Where it goes on to reseed, that holds until hydrate renders
\* docker-compose.yml: from then on the compose file has hydrate's default tag
\* (hydrate.sh:20) while install.env keeps the target, and nothing else.
Unrendered == {"teardown", "unseal", "check", "post", "wait", "compose"}
Reseeding == <<last.was[2], last.ver>> \in Reseeds
ReportIsTrue ==
    /\ last.result = "upgraded" =>
           /\ state = last.ver
           /\ compose = last.ver \/ (Reseeding /\ job.pc \notin Unrendered /\ compose = Latest)
    /\ last.result = "rolled back" => <<compose, state>> = last.was
=============================================================================
