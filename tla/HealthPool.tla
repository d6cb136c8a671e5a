---------------------------- MODULE HealthPool ----------------------------
(***************************************************************************)
(* What the TURN pool promises to those who read it (turn_pool.rs:45: no   *)
(* reader sees a torn mix of old and new entries): a list never changes    *)
(* but in the health flags of its servers, one at a time, and a reload     *)
(* replaces the list as a whole.  A server that the old list has not is    *)
(* taken for healthy; of the others nothing is promised.  TurnPool, with   *)
(* its probes and its copying, implements this.                            *)
(***************************************************************************)
EXTENDS Naturals, FiniteSets

CONSTANTS Urls,       \* URLs of TURN servers
          Configs,    \* the lists that are configured, as sets of URLs
          MaxReloads  \* bound: reloads

VARIABLES
    flags,   \* flags[g][u]: the health flag of u in the g-th list
    cur      \* the list in place

poolVars == <<flags, cur>>

Generations == 0 .. MaxReloads + 1
NoFlags == [u \in {} |-> TRUE]

PoolInit ==
    /\ \E cfg \in Configs : flags = [g \in Generations |-> IF g = 1 THEN [u \in cfg |-> TRUE]
                                                                     ELSE NoFlags]
    /\ cur = 1

\* A probe, also one that works on a list that has been replaced.
Flip(g, u) ==
    /\ u \in DOMAIN flags[g]
    /\ flags' = [flags EXCEPT ![g][u] = ~@]
    /\ cur' = cur

Install(cfg) ==
    /\ cur <= MaxReloads
    /\ \E fresh \in [cfg -> BOOLEAN] :
         /\ \A u \in cfg \ DOMAIN flags[cur] : fresh[u]
         /\ flags' = [flags EXCEPT ![cur + 1] = fresh]
    /\ cur' = cur + 1

PoolNext == \/ \E g \in 1 .. cur, u \in Urls : Flip(g, u)
            \/ \E cfg \in Configs : Install(cfg)

PoolSpec == PoolInit /\ [][PoolNext]_poolVars

=============================================================================
