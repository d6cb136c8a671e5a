---------------------------- MODULE ServerProofs ----------------------------
(***************************************************************************)
(* Theorems about the server, for any number of processes on the database, *)
(* any migrations, any addresses and any faults.                           *)
(*                                                                         *)
(* What a text is for and what a database has are the author's and the     *)
(* operator's business; what is assumed about them is a hypothesis of the  *)
(* theorem that needs it, and MCServer has TLC evaluate it.                *)
(***************************************************************************)
EXTENDS Server, FiniteSetTheorems, FunctionTheorems, TLAPS

-----------------------------------------------------------------------------
(* Start-up                                                                *)

bootState == <<sql, dbVars, bootVars>>

BootTypes ==
    /\ sql \in Releases /\ recorded \subseteq Names
    /\ boot \in [Servers -> {"down", "tracker", "seed", "check", "apply", "serving"}]
    /\ at \in [Servers -> 1 .. Len(MIGRATIONS) + 1]
    /\ todo \in [Servers -> Seq(Seq(STRING))]

\* Nothing is recorded that is not there, nor will be by Seed.
Applied == \A m \in recorded \cup SEEDED : Purpose[m] \subseteq schema

\* A process has passed recorded migrations only, and what is left of the one
\* it is at makes what the schema still lacks.
PassedRecorded(s) ==
    boot[s] \in {"check", "apply", "serving"} =>
        \A i \in 1 .. Len(MIGRATIONS) : i < at[s] => MIGRATIONS[i] \in recorded
RestMakes(s) ==
    boot[s] = "apply" => /\ at[s] <= Len(MIGRATIONS)
                         /\ Purpose[Current(s)] \subseteq schema \cup Makes(todo[s])
AtEnds(s) == /\ boot[s] \in {"tracker", "seed"} => at[s] = 1
             /\ boot[s] = "serving" => at[s] > Len(MIGRATIONS)

BootInv == /\ BootTypes /\ Applied
           /\ \A s \in Servers : PassedRecorded(s) /\ RestMakes(s) /\ AtEnds(s)

\* A sequence of statements makes what its head and its tail make.
LEMMA MakesHeadTail ==
    ASSUME NEW stmts \in Seq(Seq(STRING)), stmts # <<>>, Head(stmts) \in Statements
    PROVE  Makes(stmts) \subseteq Effects[Head(stmts)].makes \cup Makes(Tail(stmts))
<1> SUFFICES ASSUME NEW i \in 1 .. Len(stmts), stmts[i] \in Statements,
                    NEW x \in Effects[stmts[i]].makes
             PROVE  x \in Effects[Head(stmts)].makes \cup Makes(Tail(stmts))
  BY DEF Makes
<1>1. CASE i = 1 BY <1>1
<1>2. CASE i # 1
  <2>1. i - 1 \in 1 .. Len(Tail(stmts)) /\ Tail(stmts)[i - 1] = stmts[i] BY <1>2
  <2>2. QED BY <2>1 DEF Makes
<1>3. QED BY <1>1, <1>2

\* No statements make nothing.
LEMMA MakesNothing == Makes(<<>>) = {}
BY DEF Makes

\* A process that is down when the server starts satisfies the invariant.
LEMMA BootInvInit == ASSUME Provided PROVE MigrateInit => BootInv
BY ReleaseAssumption, DatabaseAssumption
   DEF MigrateInit, Provided, Has, BootInv, BootTypes, Applied, PassedRecorded, RestMakes, AtEnds

\* Every step of a start-up keeps it.
LEMMA BootInvNext ==
    ASSUME SplitsRight PROVE BootInv /\ [MigrateNext]_bootState => BootInv'
<1> SUFFICES ASSUME BootInv, [MigrateNext]_bootState PROVE BootInv'
  OBVIOUS
<1> USE ReleaseAssumption DEF BootInv
<1>1. CASE UNCHANGED bootState
  BY <1>1 DEF bootState, dbVars, bootVars, BootTypes, Applied, PassedRecorded, RestMakes,
              AtEnds, Current
<1>2. ASSUME NEW s \in Servers, BootStep(s) \/ Killed(s) PROVE BootInv'
  <2> USE DEF Goto, dbVars, bootVars
  <2>1. CASE Start(s) \/ Killed(s) \/ EnsureTracker(s) \/ Refused(s)
    <3>1. boot' = [boot EXCEPT ![s] = boot'[s]] /\ boot'[s] \in {"down", "tracker", "seed"}
      BY <2>1 DEF Start, Killed, EnsureTracker, Refused, BootTypes
    <3>2. BootTypes' /\ Applied'
      <4>1. sql' = sql /\ recorded' = recorded /\ schema' = schema
        BY <2>1 DEF Start, Killed, EnsureTracker, Refused
      <4>2. 1 \in 1 .. Len(MIGRATIONS) + 1 /\ <<>> \in Seq(Seq(STRING))
        OBVIOUS
      <4>3. /\ at' = at \/ at' = [at EXCEPT ![s] = 1]
            /\ todo' = todo \/ todo' = [todo EXCEPT ![s] = <<>>]
        BY <2>1 DEF Start, Killed, EnsureTracker, Refused
      <4>4. /\ at' \in [Servers -> 1 .. Len(MIGRATIONS) + 1]
            /\ todo' \in [Servers -> Seq(Seq(STRING))]
        BY ZenonT(40), <4>2, <4>3 DEF BootTypes
      <4>5. QED BY <3>1, <4>1, <4>4 DEF BootTypes, Applied
    <3>3. ASSUME NEW r \in Servers PROVE (PassedRecorded(r) /\ RestMakes(r) /\ AtEnds(r))'
      <4>1. CASE r = s
        BY <2>1, <3>1, <4>1 DEF Start, Killed, EnsureTracker, Refused, BootTypes, PassedRecorded,
                                RestMakes, AtEnds
      <4>2. CASE r # s
        BY <2>1, <4>2 DEF Start, Killed, EnsureTracker, Refused, BootTypes, PassedRecorded,
                          RestMakes, AtEnds, Current
      <4>3. QED BY <4>1, <4>2
    <3>4. QED BY <3>2, <3>3
  <2>2. CASE Seed(s)
    <3>1. BootTypes' /\ Applied'
      BY <2>2 DEF Seed, BootTypes, Applied
    <3>2. ASSUME NEW r \in Servers PROVE (PassedRecorded(r) /\ RestMakes(r) /\ AtEnds(r))'
      <4>1. CASE r = s
        BY <2>2, <4>1 DEF Seed, BootTypes, PassedRecorded, RestMakes, AtEnds
      <4>2. CASE r # s
        BY <2>2, <4>2 DEF Seed, BootTypes, PassedRecorded, RestMakes, AtEnds, Current
      <4>3. QED BY <4>1, <4>2
    <3>3. QED BY <3>1, <3>2
  <2>3. CASE Skip(s)
    <3>1. BootTypes' /\ Applied'
      BY <2>3 DEF Skip, BootTypes, Applied
    <3>2. ASSUME NEW r \in Servers PROVE (PassedRecorded(r) /\ RestMakes(r) /\ AtEnds(r))'
      <4>1. CASE r = s
        BY <2>3, <4>1 DEF Skip, BootTypes, PassedRecorded, RestMakes, AtEnds, Current
      <4>2. CASE r # s
        BY <2>3, <4>2 DEF Skip, BootTypes, PassedRecorded, RestMakes, AtEnds, Current
      <4>3. QED BY <4>1, <4>2
    <3>3. QED BY <3>1, <3>2
  <2>4. CASE Begin(s)
    <3>1. Parsed[sql][Current(s)] \in Seq(Seq(STRING))
          /\ Purpose[Current(s)] \subseteq Makes(Parsed[sql][Current(s)])
      BY <2>4 DEF Begin, BootTypes, SplitsRight, Current
    <3>2. BootTypes' /\ Applied'
      BY <2>4, <3>1 DEF Begin, BootTypes, Applied
    <3>3. ASSUME NEW r \in Servers PROVE (PassedRecorded(r) /\ RestMakes(r) /\ AtEnds(r))'
      BY <2>4, <3>1 DEF Begin, BootTypes, PassedRecorded, RestMakes, AtEnds, Current
    <3>4. QED BY <3>2, <3>3
  <2>5. CASE Execute(s)
    <3> DEFINE stmt == Head(todo[s])
    <3>1. todo[s] \in Seq(Seq(STRING)) /\ todo[s] # <<>> /\ stmt \in Statements
      BY <2>5 DEF Execute, Accepted, BootTypes
    <3>2. Makes(todo[s]) \subseteq Effects[stmt].makes \cup Makes(Tail(todo[s]))
      BY <3>1, MakesHeadTail
    <3>3. BootTypes' /\ Applied'
      BY <2>5, <3>1 DEF Execute, BootTypes, Applied
    <3>4. ASSUME NEW r \in Servers PROVE (PassedRecorded(r) /\ RestMakes(r) /\ AtEnds(r))'
      <4>1. schema \cup Effects[stmt].makes = schema' BY <2>5 DEF Execute
      <4>2. boot' = boot /\ at' = at /\ recorded' = recorded /\ Current(r)' = Current(r)
        BY <2>5 DEF Execute, Current
      <4>3. PassedRecorded(r)' /\ AtEnds(r)'
        BY <4>2 DEF PassedRecorded, AtEnds
      <4>4. CASE r = s
        <5>1. todo'[r] = Tail(todo[s])
          BY <2>5, <4>4 DEF Execute, BootTypes
        <5>2. QED BY <3>2, <4>1, <4>2, <4>3, <4>4, <5>1 DEF RestMakes
      <4>5. CASE r # s
        <5>1. todo'[r] = todo[r]
          BY <2>5, <4>5 DEF Execute, BootTypes
        <5>2. QED BY <4>1, <4>2, <4>3, <5>1 DEF RestMakes
      <4>6. QED BY <4>4, <4>5
    <3>5. QED BY <3>3, <3>4
  <2>6. CASE Record(s)
    <3>1. at[s] \in 1 .. Len(MIGRATIONS) /\ Purpose[Current(s)] \subseteq schema
      BY <2>6, MakesNothing DEF Record, BootTypes, RestMakes
    <3>2. BootTypes' /\ Applied'
      <4>1. Current(s) \in Names
        BY <3>1 DEF Current
      <4>2. /\ recorded' = recorded \cup {Current(s)} /\ schema' = schema /\ sql' = sql
            /\ boot' = [boot EXCEPT ![s] = "check"] /\ at' = [at EXCEPT ![s] = @ + 1]
            /\ todo' = todo
        BY <2>6 DEF Record
      <4>3. at[s] + 1 \in 1 .. Len(MIGRATIONS) + 1
        BY <3>1
      <4>4. BootTypes'
        BY <4>1, <4>2, <4>3 DEF BootTypes
      <4>5. Applied'
        BY <3>1, <4>2 DEF Applied
      <4>6. QED BY <4>4, <4>5
    <3>3. ASSUME NEW r \in Servers PROVE (PassedRecorded(r) /\ RestMakes(r) /\ AtEnds(r))'
      BY SMTT(30), <2>6, <3>1 DEF Record, BootTypes, PassedRecorded, RestMakes, AtEnds, Current
    <3>4. QED BY <3>2, <3>3
  <2>7. CASE Serve(s)
    <3>1. BootTypes' /\ Applied'
      BY <2>7 DEF Serve, BootTypes, Applied
    <3>2. ASSUME NEW r \in Servers PROVE (PassedRecorded(r) /\ RestMakes(r) /\ AtEnds(r))'
      BY <2>7 DEF Serve, BootTypes, PassedRecorded, RestMakes, AtEnds, Current
    <3>3. QED BY <3>1, <3>2
  <2>8. QED BY <1>2, <2>1, <2>2, <2>3, <2>4, <2>5, <2>6, <2>7 DEF BootStep
<1>3. QED BY <1>1, <1>2 DEF MigrateNext

\* What the server does besides starting changes nothing of the start-up.
LEMMA StartsUpOnly == [Next]_vars => [MigrateNext]_bootState
BY DEF Next, vars, memory, migrateVars, bootState, dbVars, bootVars, Boot, Kill, Time, Limited,
       Page, Events, Store, Outage, HangUp, Offers, MigrateNext

\* In a process that serves, what any migration is for is there.
LEMMA ServingIsMigrated == BootInv => RecordedIsApplied /\ ServesMigrated
<1> SUFFICES ASSUME BootInv PROVE RecordedIsApplied /\ ServesMigrated
  OBVIOUS
<1>1. RecordedIsApplied BY DEF BootInv, Applied, RecordedIsApplied
<1>2. ASSUME NEW s \in Servers, boot[s] = "serving", NEW i \in 1 .. Len(MIGRATIONS)
      PROVE  MIGRATIONS[i] \in recorded
  BY <1>2, ReleaseAssumption DEF BootInv, BootTypes, PassedRecorded, AtEnds
<1>3. QED BY <1>1, <1>2 DEF ServesMigrated, RecordedIsApplied, Names

\* The start-up invariant holds of the server as a whole.
LEMMA BootInvariant == ASSUME SplitsRight, Provided PROVE Spec => []BootInv
<1>1. Init => BootInv BY BootInvInit DEF Init
<1>2. BootInv /\ [Next]_vars => BootInv' BY BootInvNext, StartsUpOnly
<1>3. QED BY <1>1, <1>2, PTL DEF Spec

\* migrate.rs:4: a name that is recorded has been applied, whatever processes
\* were killed between its statements or ran them side by side.
THEOREM RecordedMeansApplied ==
    ASSUME SplitsRight, Provided PROVE Spec => []RecordedIsApplied
BY BootInvariant, ServingIsMigrated, PTL

\* main.rs: the listener is bound behind migrate::run, so a process that answers
\* requests has all of the schema.
THEOREM ServesMigratedOnly ==
    ASSUME SplitsRight, Provided PROVE Spec => []ServesMigrated
BY BootInvariant, ServingIsMigrated, PTL

(* Restarts: what is left of a migration that was cut off.                 *)

\* What is left when the first statements of a text are done.
Left(stmts, done, rest) ==
    /\ done \in Nat /\ done = Len(stmts) - Len(rest)
    /\ \A i \in 1 .. Len(rest) : rest[i] = stmts[done + i]

\* What is left of the migration at hand is the end of its text, and what its
\* beginning makes is there.
TakenUp(s) ==
    boot[s] = "apply" =>
        LET stmts == Parsed[sql][Current(s)]
            done == Len(stmts) - Len(todo[s])
        IN /\ Left(stmts, done, todo[s])
           /\ \A j \in 1 .. done : Effects[stmts[j]].makes \subseteq schema

\* A start-up of a good release takes up what is left.
OrderInv == sql \notin Faulty => \A s \in Servers : TakenUp(s)

\* The next statement is the one behind those that are done.
LEMMA LeftNext ==
    ASSUME NEW stmts \in Seq(Seq(STRING)), NEW rest \in Seq(Seq(STRING)), NEW done,
           Left(stmts, done, rest), rest # <<>>
    PROVE  /\ done + 1 \in 1 .. Len(stmts) /\ Head(rest) = stmts[done + 1]
           /\ Left(stmts, done + 1, Tail(rest))
<1> USE DEF Left
<1>1. Len(rest) \in Nat \ {0} /\ Len(stmts) \in Nat /\ Len(Tail(rest)) = Len(rest) - 1
  OBVIOUS
<1>2. Head(rest) = rest[1] /\ 1 \in 1 .. Len(rest)
  BY <1>1
<1>3. ASSUME NEW i \in 1 .. Len(Tail(rest)) PROVE Tail(rest)[i] = stmts[done + 1 + i]
  <2>1. Tail(rest)[i] = rest[i + 1] /\ i + 1 \in 1 .. Len(rest)
    BY <1>1
  <2>2. rest[i + 1] = stmts[done + (i + 1)]
    BY <2>1
  <2>3. done + (i + 1) = done + 1 + i
    OBVIOUS
  <2> QED
    BY <2>1, <2>2, <2>3
<1> QED
  BY <1>1, <1>2, <1>3

LEMMA OrderInvNext ==
    ASSUME SplitsRight, BootInv, OrderInv, [MigrateNext]_bootState
    PROVE  OrderInv'
<1> USE ReleaseAssumption
<1>0. BootTypes BY DEF BootInv
<1>1. CASE UNCHANGED bootState
  BY <1>1 DEF bootState, dbVars, bootVars, OrderInv, TakenUp, Current
<1>2. ASSUME NEW s \in Servers, BootStep(s) \/ Killed(s), sql \notin Faulty,
             NEW r \in Servers, boot'[r] = "apply"
      PROVE  TakenUp(r)'
  <2>1. TakenUp(r) /\ TakenUp(s)
    BY <1>2 DEF OrderInv, BootStep, Start, EnsureTracker, Seed, Skip, Begin, Execute,
       Refused, Record, Serve, Killed
  <2>2. sql' = sql /\ schema \subseteq schema'
    BY <1>2 DEF BootStep, Start, EnsureTracker, Seed, Skip, Begin, Execute,
       Refused, Record, Serve, Killed, dbVars
  <2>3. CASE r # s \/ ~(Begin(s) \/ Execute(s))
    <3>1. boot[r] = "apply" /\ at'[r] = at[r] /\ todo'[r] = todo[r]
      BY <1>0, <1>2, <2>3 DEF BootTypes, BootStep, Start, EnsureTracker, Seed, Skip, Begin,
         Execute, Refused, Record, Serve, Killed, Goto
    <3>2. Current(r)' = Current(r)
      BY <3>1 DEF Current
    <3>3. QED
      BY <2>1, <2>2, <3>1, <3>2 DEF TakenUp
  <2>4. CASE r = s /\ Begin(s)
    <3>1. todo'[s] = Parsed[sql][Current(s)] /\ Current(s)' = Current(s)
      BY <1>0, <2>4 DEF Begin, BootTypes, Current
    <3>2. Parsed[sql][Current(s)] \in Seq(Seq(STRING))
      BY <1>0, <2>4 DEF SplitsRight, BootTypes, Begin, Current
    <3> DEFINE stmts == Parsed[sql][Current(s)]
    <3>3. (Parsed[sql][Current(s)])' = stmts
      BY <2>2, <3>1
    <3> HIDE DEF stmts
    <3>4. Len(stmts) - Len(stmts) = 0 /\ Left(stmts, 0, stmts)
      BY <3>2 DEF Left, stmts
    <3> QED
      BY <2>4, <3>1, <3>3, <3>4 DEF TakenUp, stmts
  <2>5. CASE r = s /\ Execute(s)
    <3> DEFINE stmts == Parsed[sql][Current(s)]
               done == Len(stmts) - Len(todo[s])
    <3>1. /\ boot[s] = "apply" /\ todo[s] # <<>> /\ at' = at /\ todo'[s] = Tail(todo[s])
          /\ schema' = schema \cup Effects[Head(todo[s])].makes
      BY <1>0, <2>5 DEF Execute, BootTypes
    <3>2. todo[s] \in Seq(Seq(STRING))
      BY <1>0 DEF BootTypes
    <3>3. stmts \in Seq(Seq(STRING)) /\ Current(s)' = Current(s)
      <4>1. at[s] \in 1 .. Len(MIGRATIONS)
        BY <1>0, <3>1 DEF BootTypes, BootInv, RestMakes
      <4>2. Current(s) \in Names /\ Current(s)' = Current(s)
        BY <3>1, <4>1 DEF Current
      <4> QED
        BY <1>0, <4>2 DEF SplitsRight, BootTypes
    <3>4. /\ Left(stmts, done, todo[s])
          /\ \A j \in 1 .. done : Effects[stmts[j]].makes \subseteq schema
      BY <2>1, <3>1 DEF TakenUp
    <3>5. stmts = Parsed[sql][Current(s)]
      OBVIOUS
    <3> HIDE DEF stmts, done
    <3>6. /\ done + 1 \in 1 .. Len(stmts) /\ Head(todo[s]) = stmts[done + 1]
          /\ Left(stmts, done + 1, todo'[s])
      BY <3>1, <3>2, <3>3, <3>4, LeftNext
    <3>7. \A j \in 1 .. done + 1 : Effects[stmts[j]].makes \subseteq schema'
      <4> TAKE j \in 1 .. done + 1
      <4>1. CASE j \in 1 .. done
        BY <2>2, <3>4, <4>1
      <4>2. CASE j = done + 1
        BY <3>1, <3>6, <4>2
      <4>3. done \in Nat
        BY <3>4 DEF Left
      <4> QED
        BY <4>1, <4>2, <4>3
    <3>8. done + 1 = Len(stmts) - Len(todo'[s])
      BY <3>6 DEF Left
    <3>9. (Parsed[sql][Current(s)])' = stmts
      BY <2>2, <3>3, <3>5
    <3> QED
      BY <2>5, <3>6, <3>7, <3>8, <3>9 DEF TakenUp
  <2>6. QED
    BY <2>3, <2>4, <2>5
<1>3. sql' = sql
  BY DEF MigrateNext, bootState, BootStep, Start, EnsureTracker, Seed, Skip, Begin, Execute,
     Refused, Record, Serve, Killed
<1>4. QED
  BY <1>1, <1>2, <1>3 DEF MigrateNext, OrderInv, TakenUp

\* The statement at hand finds what it refers to.
LEMMA OrderIsAccepted ==
    ASSUME StatementsInOrder, SplitsRight, BootInv, OrderInv
    PROVE  NoCrashLoop
<1> SUFFICES ASSUME sql \notin Faulty, NEW s \in Servers, boot[s] = "apply", todo[s] # <<>>
             PROVE  Accepted(Head(todo[s]))
  BY DEF NoCrashLoop
<1> USE ReleaseAssumption
<1> DEFINE stmts == Parsed[sql][Current(s)]
           done == Len(stmts) - Len(todo[s])
<1>1. at[s] \in 1 .. Len(MIGRATIONS) /\ sql \in Releases \ Faulty
  BY DEF BootInv, BootTypes, RestMakes
<1>0. todo[s] \in Seq(Seq(STRING))
  BY DEF BootInv, BootTypes, RestMakes
<1>2. stmts \in Seq(Seq(STRING))
  BY <1>1 DEF SplitsRight, Current
<1>3. /\ Left(stmts, done, todo[s])
      /\ \A j \in 1 .. done : Effects[stmts[j]].makes \subseteq schema
  BY DEF OrderInv, TakenUp
<1> HIDE DEF stmts, done
<1>5. Head(todo[s]) = stmts[done + 1] /\ done + 1 \in 1 .. Len(stmts)
  BY <1>0, <1>2, <1>3, LeftNext
<1>6. (done + 1) - 1 = done
  BY <1>3 DEF Left
<1>7. /\ stmts[done + 1] \in Statements
      /\ Effects[stmts[done + 1]].needs
           \subseteq (UNION {Purpose[MIGRATIONS[j]] : j \in 1 .. at[s] - 1})
                       \cup UNION {Effects[stmts[j]].makes : j \in 1 .. done}
  <2>1. \A k \in 1 .. Len(stmts) :
          /\ stmts[k] \in Statements
          /\ Effects[stmts[k]].needs
               \subseteq (UNION {Purpose[MIGRATIONS[j]] : j \in 1 .. at[s] - 1})
                           \cup UNION {Effects[stmts[j]].makes : j \in 1 .. k - 1}
    BY <1>1 DEF StatementsInOrder, InOrder, Current, stmts
  <2> QED
    BY <1>5, <1>6, <2>1
<1>8. \A j \in 1 .. at[s] - 1 : Purpose[MIGRATIONS[j]] \subseteq schema
  <2> TAKE j \in 1 .. at[s] - 1
  <2>1. MIGRATIONS[j] \in recorded
    <3>1. \A i \in 1 .. Len(MIGRATIONS) : i < at[s] => MIGRATIONS[i] \in recorded
      BY DEF BootInv, PassedRecorded
    <3>2. j \in 1 .. Len(MIGRATIONS) /\ j < at[s]
      BY <1>1
    <3> QED
      BY <3>1, <3>2
  <2> QED
    BY <2>1 DEF BootInv, Applied
<1>9. Effects[stmts[done + 1]].needs \subseteq schema
  BY <1>3, <1>7, <1>8
<1> QED
  BY <1>5, <1>7, <1>9 DEF Accepted

\* migrate.rs:222-252: a release whose statements are good is never refused one,
\* wherever the attempts before this one ended, on every database that earlier
\* releases leave.
THEOREM GoodReleasesStart ==
    ASSUME SplitsRight, Provided, StatementsInOrder PROVE Spec => []NoCrashLoop
<1>1. Init => OrderInv
  BY DEF Init, MigrateInit, OrderInv, TakenUp
<1>2. BootInv /\ OrderInv /\ [Next]_vars => OrderInv'
  BY OrderInvNext, StartsUpOnly
<1>3. BootInv /\ OrderInv => NoCrashLoop
  BY OrderIsAccepted
<1>4. QED
  BY <1>1, <1>2, <1>3, BootInvariant, PTL DEF Spec

-----------------------------------------------------------------------------
(* Visitors                                                                *)

Posts == [left : Nat, visitor : Nat, cookie : Nat, life : Nat]
\* The events that have arrived: each with the cookie it was sent with.
Sent == rows \cup (IF batch.left > 0 THEN {[batch EXCEPT !.left = 0]} ELSE {})

VisitTypes ==
    /\ jar \in Nat /\ nextId \in Nat \ {0} /\ lives \in Nat /\ overlapped \in BOOLEAN
    /\ load \in [Loads -> [pc : {"idle", "sent", "answered"}, spa : BOOLEAN,
                           hasCookie : BOOLEAN, setCookie : Nat]]
    /\ batch \in Posts /\ rows \subseteq Posts

\* Pages that do not overlap: one at a time is without a cookie, and none is
\* once the browser has one.
OneBare ==
    ~overlapped => /\ \A k, l \in Loads : Bare(k) /\ Bare(l) => k = l
                   /\ jar # NULL => \A l \in Loads : ~Bare(l)
BareGets == \A l \in Loads : load[l].setCookie # NULL => Bare(l)

\* A cookie stays what it is until it expires, and so do the ids of what was
\* sent with it.
OfThisLife(p) == p.life <= lives /\ (p.life = lives /\ p.cookie # NULL => p.cookie = jar)
SameLife ==
    ~overlapped => /\ \A p \in Sent : OfThisLife(p)
                   /\ \A p, q \in Sent : p.life = q.life /\ NULL \notin {p.cookie, q.cookie}
                                           => p.cookie = q.cookie
Carried == \A p \in Sent : p.visitor = p.cookie \/ (bare /\ p.visitor = NULL)

VisitInv == VisitTypes /\ OneBare /\ BareGets /\ SameLife /\ Carried

\* Two lists of at most one part, one behind the other.
LEMMA Joined ==
    ASSUME NEW a, NEW b
    PROVE  /\ <<a>> \o <<>> = <<a>> /\ <<>> \o <<b>> = <<b>> /\ <<>> \o <<>> = <<>>
           /\ DOMAIN (<<a>> \o <<b>>) = 1 .. 2 /\ (<<a>> \o <<b>>)[2] = b
           /\ DOMAIN <<a>> = 1 .. 1 /\ <<a>>[1] = a /\ DOMAIN <<b>> = 1 .. 1 /\ <<b>>[1] = b
OBVIOUS

\* The header has the browser's id if it has one ...
LEMMA HeaderHasVid == RequestHasVid <=> jar # NULL
<1> DEFINE other == Part("", NULL)
           own == Part("ox_vid", jar)
<1>1. Header = (IF bare THEN <<other>> ELSE <<>>) \o (IF jar # NULL THEN <<own>> ELSE <<>>)
  BY DEF Header
<1>2. own.name = "ox_vid" /\ own.value = jar /\ other.value = NULL
  BY DEF Part
<1> HIDE DEF own, other
<1>3. CASE jar # NULL
  <2>1. \E i \in DOMAIN Header : Header[i] = own
    <3>1. CASE bare
      BY <1>1, <1>3, <3>1, Joined, 2 \in 1 .. 2
    <3>2. CASE ~bare
      BY <1>1, <1>3, <3>2, Joined, 1 \in 1 .. 1
    <3> QED
      BY <3>1, <3>2
  <2> QED
    BY <1>2, <1>3, <2>1 DEF RequestHasVid
<1>4. CASE jar = NULL
  <2>1. \A i \in DOMAIN Header : Header[i] = other
    BY <1>1, <1>4, Joined
  <2> QED
    BY <1>2, <1>4, <2>1 DEF RequestHasVid
<1> QED
  BY <1>3, <1>4

\* ... and the endpoint finds it, unless a part without "=" is before it.
LEMMA FoundCookie == ExtractVisitorCookie = jar \/ (bare /\ ExtractVisitorCookie = NULL)
<1>1. CASE jar = NULL
  BY <1>1 DEF ExtractVisitorCookie
<1>2. CASE jar # NULL /\ ~bare
  <2> DEFINE own == Part("ox_vid", jar)
  <2>1. Header = <<>> \o <<own>>
    BY <1>2 DEF Header
  <2>0. own.name = "ox_vid" /\ own.value = jar
    BY DEF Part
  <2> HIDE DEF own
  <2>2. 1 \in DOMAIN Header /\ Header[1].name = "ox_vid" /\ Header[1].value = jar
    BY <2>0, <2>1, Joined, 1 \in 1 .. 1
  <2>3. ASSUME NEW j \in 1 .. 1 PROVE HasName(Header[j])
    <3>1. j = 1
      OBVIOUS
    <3> QED
      BY <2>2, <3>1 DEF HasName
  <2> QED
    BY <1>2, <2>2, <2>3 DEF ExtractVisitorCookie
<1> QED
  BY <1>1, <1>2 DEF ExtractVisitorCookie

\* What pages do keeps it.
LEMMA PageKeeps ==
    ASSUME VisitInv, PageStep, UNCHANGED eventVars PROVE VisitInv'
<1> USE DEF VisitInv
<1>0. Sent' = Sent /\ bare' = bare /\ batch' = batch /\ rows' = rows
  BY DEF Sent, eventVars, PageStep, Request, Answer, Response, Expire
<1>1. ASSUME NEW l \in Loads, NEW kind \in PathKinds, Request(l, kind) PROVE VisitInv'
  <2> DEFINE new == [pc |-> "sent", spa |-> Spa(kind),
                     hasCookie |-> Spa(kind) /\ RequestHasVid, setCookie |-> NULL]
  <2>1. /\ load[l].pc = "idle" /\ load' = [load EXCEPT ![l] = new]
        /\ overlapped' = (overlapped \/ (Spa(kind) /\ ~RequestHasVid /\ \E k \in Loads : Bare(k)))
        /\ jar' = jar /\ nextId' = nextId /\ lives' = lives
    BY <1>1 DEF Request
  <2>2. new \in [pc : {"idle", "sent", "answered"}, spa : BOOLEAN,
                 hasCookie : BOOLEAN, setCookie : Nat]
    BY DEF Spa, NULL, RequestHasVid
  <2>3. VisitTypes'
    BY <1>0, <2>1, <2>2 DEF VisitTypes
  <2>4. \A k \in Loads : Bare(k)' <=> IF k = l THEN Spa(kind) /\ ~RequestHasVid ELSE Bare(k)
    BY <2>1 DEF VisitTypes, Bare
  <2>5. OneBare'
    BY <2>1, <2>4, HeaderHasVid DEF OneBare
  <2>6. BareGets'
    BY <2>1, <2>4 DEF BareGets, VisitTypes
  <2>7. SameLife' /\ Carried'
    BY <1>0, <2>1 DEF SameLife, Carried, OfThisLife
  <2> QED
    BY <2>3, <2>5, <2>6, <2>7
<1>2. ASSUME NEW l \in Loads, NEW success \in BOOLEAN, Answer(l, success) PROVE VisitInv'
  <2>1. /\ load[l].pc = "sent" /\ jar' = jar /\ lives' = lives /\ overlapped' = overlapped
        /\ \/ /\ load' = [load EXCEPT ![l].pc = "answered"] /\ nextId' = nextId
           \/ /\ Bare(l) /\ nextId' = nextId + 1
              /\ load' = [load EXCEPT ![l].pc = "answered", ![l].setCookie = nextId]
    BY <1>2 DEF Answer, Bare
  <2>2. VisitTypes'
    BY <1>0, <2>1 DEF VisitTypes
  <2>3. \A k \in Loads : Bare(k)' <=> Bare(k)
    BY <2>1 DEF VisitTypes, Bare
  <2>4. OneBare'
    BY <2>1, <2>3 DEF OneBare
  <2>5. BareGets'
    BY <2>1, <2>3 DEF BareGets, VisitTypes
  <2>6. SameLife' /\ Carried'
    BY <1>0, <2>1 DEF SameLife, Carried, OfThisLife
  <2> QED
    BY <2>2, <2>4, <2>5, <2>6
<1>3. ASSUME NEW l \in Loads, Response(l) PROVE VisitInv'
  <2>1. /\ load' = [load EXCEPT ![l] = NoLoad] /\ nextId' = nextId /\ lives' = lives
        /\ overlapped' = overlapped
        /\ jar' = IF load[l].setCookie # NULL THEN load[l].setCookie ELSE jar
    BY <1>3 DEF Response
  <2>2. VisitTypes'
    BY <1>0, <2>1 DEF VisitTypes, NoLoad, NULL
  <2>3. \A k \in Loads : Bare(k)' <=> k # l /\ Bare(k)
    BY <2>1 DEF VisitTypes, Bare, NoLoad
  <2>4. ~overlapped /\ load[l].setCookie # NULL => jar = NULL
    BY DEF BareGets, OneBare
  <2>5. OneBare'
    BY <2>1, <2>3 DEF OneBare, BareGets
  <2>6. BareGets'
    BY <2>1, <2>3 DEF BareGets, VisitTypes, NoLoad
  <2>7. SameLife' /\ Carried'
    BY <1>0, <2>1, <2>4 DEF SameLife, Carried, OfThisLife
  <2> QED
    BY <2>2, <2>5, <2>6, <2>7
<1>4. CASE Expire
  <2>1. /\ jar' = NULL /\ lives' = lives + 1 /\ load' = load /\ nextId' = nextId
        /\ overlapped' = overlapped /\ \A l \in Loads : load[l].pc = "idle"
    BY <1>4 DEF Expire
  <2>2. VisitTypes'
    BY <1>0, <2>1 DEF VisitTypes, NULL
  <2>3. \A k \in Loads : ~Bare(k)' /\ ~Bare(k)
    BY <2>1 DEF Bare
  <2>4. OneBare' /\ BareGets'
    BY <2>1, <2>3 DEF OneBare, BareGets
  <2>5. \A p \in Sent : OfThisLife(p) => OfThisLife(p)'
    BY <2>1 DEF Sent, VisitTypes, Posts, OfThisLife
  <2>6. SameLife' /\ Carried'
    BY <1>0, <2>1, <2>5 DEF SameLife, Carried
  <2> QED
    BY <2>2, <2>4, <2>6
<1> QED
  BY <1>1, <1>2, <1>3, <1>4 DEF PageStep

\* What the endpoint stores came with the cookie of its sender.
LEMMA EventsKeep ==
    ASSUME VisitInv, UNCHANGED pageVars,
           \/ \E deviceOk \in BOOLEAN, size \in 0 .. BatchSize + 1 : Ingest(deviceOk, size)
           \/ \E fits, shape \in BOOLEAN : Insert(fits, shape)
           \/ \E in \in BOOLEAN : InsertCut(in)
           \/ batch' = NoBatch /\ rows' = rows
           \/ UNCHANGED <<batch, rows>>
    PROVE  VisitInv'
<1> USE VisitorAssumption DEF VisitInv
<1> DEFINE new == [left |-> 0, visitor |-> ExtractVisitorCookie, cookie |-> jar, life |-> lives]
<1>1. ExtractVisitorCookie \in Nat /\ new \in Posts
  BY FoundCookie DEF VisitTypes, NULL, Posts
<1>2. batch' \in Posts /\ rows' \subseteq Posts /\ Sent' \subseteq Sent \cup {new}
  <2>1. CASE \E deviceOk \in BOOLEAN, size \in 0 .. BatchSize + 1 : Ingest(deviceOk, size)
    <3>1. PICK deviceOk \in BOOLEAN, size \in 0 .. BatchSize + 1 : Ingest(deviceOk, size)
      BY <2>1
    <3>2. rows' = rows /\ (batch' = batch \/ batch' = [new EXCEPT !.left = size])
      BY <3>1 DEF Ingest
    <3> QED
      BY <1>1, <3>2 DEF VisitTypes, Posts, Sent
  <2>2. CASE (\E fits, shape \in BOOLEAN : Insert(fits, shape)) \/ \E in \in BOOLEAN : InsertCut(in)
    <3>1. /\ batch.left > 0 /\ batch' = [batch EXCEPT !.left = @ - 1]
          /\ rows' = rows \/ rows' = rows \cup {[batch EXCEPT !.left = 0]}
      BY <2>2 DEF Insert, InsertCut, Stored, Refuses, Row
    <3>2. [batch' EXCEPT !.left = 0] = [batch EXCEPT !.left = 0]
      BY <3>1 DEF VisitTypes, Posts
    <3>3. [batch EXCEPT !.left = 0] \in Posts /\ batch' \in Posts
      BY <3>1 DEF VisitTypes, Posts
    <3> QED
      BY <3>1, <3>2, <3>3 DEF VisitTypes, Sent
  <2>3. CASE batch' = NoBatch /\ rows' = rows
    BY <2>3 DEF NoBatch, VisitTypes, Posts, NULL, Sent
  <2>4. CASE UNCHANGED <<batch, rows>>
    BY <2>4 DEF VisitTypes, Sent
  <2> QED
    BY <2>1, <2>2, <2>3, <2>4
<1>3. /\ jar' = jar /\ bare' = bare /\ load' = load /\ nextId' = nextId /\ lives' = lives
      /\ overlapped' = overlapped
  BY DEF pageVars
<1>4. VisitTypes' /\ OneBare' /\ BareGets'
  BY <1>2, <1>3 DEF VisitTypes, OneBare, BareGets, Bare
<1>5. SameLife'
  <2>1. SameLife => (~overlapped =>
         /\ \A p \in Sent \cup {new} : OfThisLife(p)
         /\ \A p, q \in Sent \cup {new} : p.life = q.life /\ NULL \notin {p.cookie, q.cookie}
                                           => p.cookie = q.cookie)
    <3>1. new.life = lives /\ new.cookie = jar
      OBVIOUS
    <3>2. lives <= lives
      BY DEF VisitTypes
    <3> HIDE DEF new
    <3> QED
      BY <3>1, <3>2 DEF SameLife, OfThisLife
  <2> QED
    BY <1>2, <1>3, <2>1 DEF SameLife, OfThisLife
<1>6. Carried'
  BY <1>2, <1>3, FoundCookie DEF Carried
<1> QED
  BY <1>4, <1>5, <1>6

\* The steps of the server are those.
LEMMA VisitInvNext == ASSUME VisitInv, [Next]_vars PROVE VisitInv'
<1>1. CASE Page
  BY <1>1, PageKeeps DEF Page, PageStep, Request, Answer, Response, Expire
<1>2. CASE Events
  BY <1>2, EventsKeep DEF Events, Ingest
<1>3. CASE Store \/ Outage
  <2>1. (CallEvents \subseteq schema) \in BOOLEAN
    OBVIOUS
  <2> QED
    BY <1>3, <2>1, EventsKeep DEF Store, Outage, Insert, InsertCut
<1>4. CASE \/ UNCHANGED vars \/ Time \/ Limited \/ Offers \/ HangUp
           \/ \E s \in Servers : Boot(s) \/ Kill(s)
  <2>1. UNCHANGED pageVars /\ (UNCHANGED <<batch, rows>> \/ (batch' = NoBatch /\ rows' = rows))
    BY <1>4 DEF vars, memory, visitVars, eventVars, Time, Limited, Offers, Boot, Kill, HangUp, Abandon
  <2> QED
    BY <2>1, EventsKeep
<1> QED
  BY <1>1, <1>2, <1>3, <1>4 DEF Next

LEMMA VisitInvariant == Spec => []VisitInv
<1>1. Init => VisitInv
  <2> SUFFICES ASSUME VisitInit PROVE VisitInv
    BY DEF Init
  <2>1. NoBatch \in Posts /\ NoBatch.left = 0
    BY DEF NoBatch, Posts, NULL
  <2>2. VisitTypes
    <3>1. NoLoad \in [pc : {"idle", "sent", "answered"}, spa : BOOLEAN,
                      hasCookie : BOOLEAN, setCookie : Nat]
      BY DEF NoLoad, NULL
    <3>2. load \in [Loads -> [pc : {"idle", "sent", "answered"}, spa : BOOLEAN,
                              hasCookie : BOOLEAN, setCookie : Nat]]
      <4> HIDE DEF NoLoad
      <4> QED
        BY <3>1 DEF VisitInit
    <3>3. overlapped \in BOOLEAN
      BY Zenon DEF VisitInit
    <3>5. jar = 0 /\ nextId = 1 /\ lives = 0
      BY DEF VisitInit, NULL
    <3>4. batch \in Posts /\ rows \subseteq Posts
      BY <2>1 DEF VisitInit
    <3> QED
      BY <3>2, <3>3, <3>4, <3>5 DEF VisitTypes
  <2>3. Sent = {}
    BY <2>1 DEF VisitInit, Sent
  <2>4. \A l \in Loads : ~Bare(l) /\ load[l].setCookie = NULL
    BY DEF VisitInit, NoLoad, Bare
  <2> QED
    BY <2>2, <2>3, <2>4 DEF VisitInv, OneBare, BareGets, SameLife, Carried
<1> QED
  BY <1>1, VisitInvNext, PTL DEF Spec

\* visitor.rs:32: "a stable id is never overwritten with a fresh one".
THEOREM StableId == Spec => []OneIdPerBrowser
<1>1. VisitInv => OneIdPerBrowser
  <2> SUFFICES ASSUME VisitInv, ~overlapped PROVE
        /\ \A r, s \in rows : r.life = s.life /\ NULL \notin {r.visitor, s.visitor}
                                => r.visitor = s.visitor
        /\ \A r \in rows : r.visitor = r.cookie \/ (bare /\ r.visitor = NULL)
    BY DEF OneIdPerBrowser
  <2>1. rows \subseteq Sent
    BY DEF Sent
  <2> QED
    BY <2>1 DEF VisitInv, SameLife, Carried
<1> QED
  BY <1>1, VisitInvariant, PTL

-----------------------------------------------------------------------------
(* Events                                                                  *)

EventInv == events \in [sent : Nat, stored : Nat, unfit : Nat, lost : Nat] /\ EventsLand

\* A step takes an event from the batch to what has become of it.  The INSERT of
\* one that fits finds its columns.
LEMMA EventInvNext ==
    ASSUME EventsMigrated
    PROVE  ServesMigrated /\ VisitInv /\ EventInv /\ [Next]_vars => EventInv'
<1> SUFFICES ASSUME ServesMigrated, VisitInv, EventInv, [Next]_vars PROVE EventInv'
  OBVIOUS
<1>0. batch \in Posts
  BY DEF VisitInv, VisitTypes
<1> USE DEF EventInv, EventsLand
<1>1. CASE Store
  <2>1. CallEvents \subseteq schema
    BY <1>1, FrontAssumption DEF Store, ServesMigrated, EventsMigrated
  <2>2. PICK fits \in BOOLEAN : Insert(fits, CallEvents \subseteq schema)
    BY <1>1 DEF Store
  <2>3. /\ batch.left > 0 /\ batch' = [batch EXCEPT !.left = @ - 1]
        /\ \/ events' = [events EXCEPT !.stored = @ + 1]
           \/ events' = [events EXCEPT !.unfit = @ + 1]
    BY <2>1, <2>2 DEF Insert, Stored, Refuses
  <2> QED
    BY <1>0, <2>3 DEF Posts
<1>2. CASE Outage
  <2>1. PICK in \in BOOLEAN : InsertCut(in)
    BY <1>2 DEF Outage
  <2>2. /\ batch.left > 0 /\ batch' = [batch EXCEPT !.left = @ - 1]
        /\ \/ events' = [events EXCEPT !.stored = @ + 1]
           \/ events' = [events EXCEPT !.lost = @ + 1]
    BY <2>1 DEF InsertCut, Stored
  <2> QED
    BY <1>0, <2>2 DEF Posts
<1>3. CASE Abandon
  BY <1>0, <1>3 DEF Abandon, NoBatch, Posts
<1>4. CASE Events
  <2>1. PICK deviceOk \in BOOLEAN, size \in 0 .. BatchSize + 1 : Ingest(deviceOk, size)
    BY <1>4 DEF Events
  <2>2. batch.left = 0 /\ size \in Nat
    BY <2>1, VisitorAssumption DEF Ingest
  <2>3. CASE batch'.left = size /\ events' = Sending(size)
    BY <2>2, <2>3 DEF Sending
  <2>4. CASE UNCHANGED <<batch, events>>
    BY <2>4
  <2> QED
    BY <2>1, <2>3, <2>4 DEF Ingest
<1>5. CASE UNCHANGED <<batch, events>>
  BY <1>5
<1>6. Abandon \/ UNCHANGED <<batch, events>> \/ Store \/ Outage \/ Events
  <2>1. CASE UNCHANGED vars \/ Time \/ Limited \/ Offers
    BY <2>1 DEF vars, memory, visitVars, eventVars, Time, Limited, Offers
  <2>2. CASE HangUp \/ \E s \in Servers : Boot(s) \/ Kill(s)
    BY <2>2 DEF HangUp, Boot, Kill, memory, visitVars, eventVars
  <2>3. CASE Page
    BY <2>3 DEF Page, PageStep, Request, Answer, Response, Expire, eventVars
  <2> QED
    BY <2>1, <2>2, <2>3 DEF Next
<1> QED
  BY <1>1, <1>2, <1>3, <1>4, <1>5, <1>6

\* analytics.rs:54-78: of the events of a batch none is lost but to its own data, an
\* outage, a kill or its client; the server never answers before the columns that
\* the INSERT names are there, so none is lost for its shape.
THEOREM EventsLandAlways ==
    ASSUME SplitsRight, Provided, EventsMigrated PROVE Spec => []EventsLand
<1>1. Init => EventInv
  BY DEF Init, VisitInit, NoBatch, Sending, EventInv, EventsLand
<1>2. Spec => []ServesMigrated
  BY ServesMigratedOnly
<1>3. ServesMigrated /\ VisitInv /\ EventInv /\ [Next]_vars => EventInv'
  BY EventInvNext
<1>4. EventInv => EventsLand
  BY DEF EventInv
<1> QED
  BY <1>1, <1>2, <1>3, <1>4, VisitInvariant, PTL DEF Spec

-----------------------------------------------------------------------------
(* Quotas                                                                  *)

\* A bucket is full again no later than one interval behind the tolerance,
\* counted from now, and from the first refusal since it last let one pass.
QuotaInv ==
    /\ clock \in 0 .. MaxClock
    /\ tat \in [Endpoints -> [IPs -> Nat]] /\ since \in [Endpoints -> [IPs -> 0 .. Never]]
    /\ \A e \in Endpoints, ip \in IPs :
         /\ tat[e][ip] <= clock + Tolerance(e) + Interval(e)
         /\ since[e][ip] # Never => tat[e][ip] <= since[e][ip] + Tolerance(e) + Interval(e)

\* The numbers make_limiter computes.
LEMMA QuotaTypes ==
    \A e \in Endpoints : Interval(e) \in Nat \ {0} /\ Tolerance(e) \in Nat
<1> TAKE e \in Endpoints
<1>1. PerMinute[e] \in Nat \ {0} /\ MINUTE \in Nat \ {0} /\ PerMinute[e] <= MINUTE
  BY QuotaAssumption
<1>2. Interval(e) \in Nat \ {0} BY <1>1 DEF Interval
<1>3. Burst(e) \in Nat \ {0} BY <1>1 DEF Burst
<1>4. Tolerance(e) \in Nat
  <2>1. \A a, b \in Nat : a * b \in Nat OBVIOUS
  <2>2. Burst(e) - 1 \in Nat BY <1>3
  <2>3. QED BY <1>2, <2>1, <2>2 DEF Tolerance
<1>5. QED BY <1>2, <1>4

\* What endpoints do, and time, keep the bounds.
LEMMA QuotaNext ==
    ASSUME QuotaInv, Tick \/ \E e \in Endpoints, ip \in IPs : Pass(e, ip) \/ TooManyRequests(e, ip)
    PROVE  QuotaInv'
<1> USE WindowAssumption, QuotaTypes DEF QuotaInv, Never
<1>1. CASE Tick
  BY <1>1 DEF Tick
<1>2. ASSUME NEW e \in Endpoints, NEW ip \in IPs, Pass(e, ip) PROVE QuotaInv'
  BY <1>2 DEF Pass, Conforms
<1>3. ASSUME NEW e \in Endpoints, NEW ip \in IPs, TooManyRequests(e, ip) PROVE QuotaInv'
  BY <1>3 DEF TooManyRequests
<1>4. QED BY <1>1, <1>2, <1>3

\* The server's steps are those, a new process, or have to do with neither.
LEMMA QuotaInvNext == traffic \in Traffics /\ QuotaInv /\ [Next]_vars => QuotaInv'
<1> SUFFICES ASSUME traffic \in Traffics, QuotaInv, [Next]_vars PROVE QuotaInv'
  OBVIOUS
<1>1. CASE UNCHANGED <<clock, tat, since>>
  BY <1>1, QuotaTypes DEF QuotaInv
<1>2. ASSUME NEW s \in Servers, Kill(s) PROVE QuotaInv'
  <2>1. CASE UNCHANGED limitVars BY <2>1, <1>1 DEF limitVars
  <2>2. CASE NewProcess /\ UNCHANGED clock
    BY SMTT(30), <2>2, QuotaTypes, WindowAssumption DEF NewProcess, QuotaInv, Never
  <2>3. QED BY <1>2, <2>1, <2>2 DEF Kill
<1>3. CASE Time
  BY <1>3, QuotaNext DEF Time
<1>4. CASE Limited
  <2>1. CASE \E c \in Callers : JoinStep(c, traffic.from) \/ RegisterStep(c, traffic.from)
    BY <2>1, <1>1 DEF JoinStep, JoinCall, JoinCount, Janitor, JanitorDone, JoinDecide, ClearOne,
                      RetainOne, Return, RegisterStep, RegisterCall, RegisterDecide
  <2>2. CASE traffic.kind \in Endpoints /\ EndpointStep(traffic.kind, traffic.from)
    <3>1. traffic.from \subseteq IPs BY TrafficAssumption
    <3>2. PICK xff \in traffic.from \cup {NoIP}, peer \in traffic.from \cup {NoIP} :
            LET ip == EndpointIP(xff, peer)
            IN ip # NoIP /\ (Pass(traffic.kind, ip) \/ TooManyRequests(traffic.kind, ip))
      BY <2>2 DEF EndpointStep
    <3>3. EndpointIP(xff, peer) \in IPs BY <3>1, <3>2 DEF EndpointIP
    <3>4. QED BY <2>2, <3>2, <3>3, QuotaNext
  <2>3. QED BY <1>4, <2>1, <2>2 DEF Limited
<1>5. QED
  BY <1>1, <1>2, <1>3, <1>4
     DEF Next, Boot, Page, Events, Store, Outage, HangUp, Offers, memory, limitVars, vars

\* rate_limit.rs: Retry-After is "the minimum wait before at least one token is
\* restored", so who waits that long is let through.
THEOREM RetryAfterHelps == Spec => []RetryHelps
<1>1. Init => QuotaInv
  BY QuotaTypes, WindowAssumption DEF Init, LimitInit, QuotaInv, Never
<1>2. QuotaInv => RetryHelps
  BY QuotaTypes, WindowAssumption DEF QuotaInv, RetryHelps, RetryAfter, Conforms, Never
<1>3. Init => traffic \in Traffics BY DEF Init
<1>4. traffic \in Traffics /\ [Next]_vars => (traffic \in Traffics)'
  BY DEF Next, vars, Boot, Kill, Time, Limited, Page, Events, Store, Outage, HangUp, Offers
<1>5. QED BY <1>1, <1>2, <1>3, <1>4, QuotaInvNext, PTL DEF Spec

-----------------------------------------------------------------------------
(* Maps of addresses                                                       *)

Pcs == {"idle", "timed", "janitor", "clear", "retain", "decide", "admitted", "refused"}
CallTypes ==
    /\ call \in [Callers -> [pc : Pcs, ip : IPs \cup {NoIP}, now : 0 .. MaxClock,
                             left : SUBSET IPs]]
    /\ clock \in 0 .. MaxClock /\ traffic \in Traffics
    /\ \A c \in Callers : call[c].pc # "idle" => call[c].ip \in traffic.from
    /\ joinCalls \in 0 .. JOIN_JANITOR_EVERY - 1

\* Addresses that are in a map have called.
MapTypes ==
    /\ IsFiniteSet(DOMAIN joinHits) /\ DOMAIN joinHits \subseteq traffic.from
    /\ IsFiniteSet(DOMAIN regHits) /\ Cardinality(DOMAIN regHits) <= MAP_SIZE_CAP

\* Calls that are counted and may still make an entry, and those of them that
\* have the janitor's turn and have not gone past the cap.
Pending == {c \in Callers : call[c].pc \in {"janitor", "clear", "retain", "decide"}}
Stalled == {c \in Callers : call[c].pc \in {"janitor", "clear"}}
\* Calls that went past the janitor's turn since it was last taken.
Passed == IF joinCalls = 0 THEN JOIN_JANITOR_EVERY - 1 ELSE joinCalls - 1

Size(ips) == Cardinality(ips) + Cardinality(Pending)
Room(turns) == Cardinality(Callers) + JOIN_JANITOR_EVERY * turns + Passed

\* Since the map was last seen below its cap or cleared, the janitor's turn has
\* come so many times, and each turn is held by a caller of its own.
Turns(turns, turn) ==
    /\ turns \in Nat /\ turn \in [Callers -> Int]
    /\ \A n \in 1 .. turns : \E c \in Stalled : turn[c] = n
    /\ \A c \in Stalled : turn[c] <= turns
    /\ turns = Cardinality(Callers) => Passed = 0
    /\ Size(DOMAIN joinHits) <= JOIN_MAP_SIZE_CAP - 1 + Room(turns)
    /\ \A c \in Callers : call[c].pc = "clear" =>
         Size(DOMAIN joinHits \ call[c].left) <= Room(turns - turn[c])

MapInv == CallTypes /\ MapTypes /\ \E turns, turn : Turns(turns, turn)

\* What the proofs use of numbers.
LEMMA NextOf ==
    ASSUME NEW e \in Nat \ {0}, NEW k \in 0 .. e - 1
    PROVE  (k + 1) % e = IF k = e - 1 THEN 0 ELSE k + 1
<1>1. ASSUME NEW n \in Nat, n < e PROVE n % e = n
  BY <1>1
<1>2. e % e = 0
  OBVIOUS
<1> QED
  BY <1>1, <1>2

LEMMA Products ==
    ASSUME NEW e \in Nat \ {0}
    PROVE  /\ \A a \in Int : e * (a + 1) = e * a + e /\ e * a \in Int
           /\ \A a \in Nat : e * a >= 0
           /\ \A a, b \in Nat : a < b => e * a + e - 1 - a + b <= e * b
<1>1. ASSUME NEW a \in Nat, NEW b \in Nat, a < b PROVE e * a + e - 1 - a + b <= e * b
  <2> DEFINE x == e - 1
             y == b - a - 1
  <2>1. x \in Nat /\ y \in Nat
    BY <1>1
  <2>2. x * y >= 0
    <3> HIDE DEF x, y
    <3> QED
      BY <2>1
  <2> QED
    BY <1>1, <2>2
<1> QED
  BY <1>1

LEMMA PendingSizes ==
    /\ IsFiniteSet(Pending) /\ Cardinality(Pending) \in 0 .. Cardinality(Callers)
    /\ IsFiniteSet(Stalled) /\ Cardinality(Stalled) \in 0 .. Cardinality(Pending)
    /\ Cardinality(Callers) \in Nat
<1>1. Pending \in SUBSET Callers /\ Stalled \in SUBSET Pending
  BY DEF Pending, Stalled
<1>2. IsFiniteSet(Pending) /\ Cardinality(Pending) <= Cardinality(Callers)
  BY <1>1, CallerAssumption, FS_Subset
<1>3. IsFiniteSet(Stalled) /\ Cardinality(Stalled) <= Cardinality(Pending)
  BY <1>1, <1>2, FS_Subset
<1> QED
  BY <1>2, <1>3, CallerAssumption, FS_CardinalityType

LEMMA Smaller ==
    ASSUME NEW S, NEW T, IsFiniteSet(T), S \subseteq T
    PROVE  /\ IsFiniteSet(S) /\ Cardinality(S) \in Nat /\ Cardinality(T) \in Nat
           /\ Cardinality(S) <= Cardinality(T)
BY FS_Subset, FS_CardinalityType

LEMMA OneMore ==
    ASSUME NEW S, NEW x, IsFiniteSet(S)
    PROVE  /\ IsFiniteSet(S \cup {x}) /\ Cardinality(S) \in Nat /\ Cardinality(S \cup {x}) \in Nat
           /\ Cardinality(S \cup {x}) <= Cardinality(S) + 1
           /\ x \notin S => Cardinality(S \cup {x}) = Cardinality(S) + 1
           /\ x \in S => Cardinality(S \ {x}) = Cardinality(S) - 1
<1>1. Cardinality(S) \in Nat
  BY FS_CardinalityType
<1>2. /\ IsFiniteSet(S \cup {x})
      /\ Cardinality(S \cup {x}) = IF x \in S THEN Cardinality(S) ELSE Cardinality(S) + 1
  BY FS_AddElement
<1>3. Cardinality(S \ {x}) = IF x \in S THEN Cardinality(S) - 1 ELSE Cardinality(S)
  BY FS_RemoveElement
<1> QED
  BY <1>1, <1>2, <1>3

\* Each turn is held by a caller of its own.
LEMMA TurnsAreHeld ==
    ASSUME NEW turns, NEW turn, Turns(turns, turn)
    PROVE  turns <= Cardinality(Stalled)
<1> DEFINE held == {c \in Stalled : turn[c] \in 1 .. turns}
           which == [c \in held |-> turn[c]]
<1>1. turns \in Nat /\ \A n \in 1 .. turns : \E c \in held : which[c] = n
  BY DEF Turns
<1>2. which \in Surjection(held, 1 .. turns)
  BY <1>1 DEF Surjection
<1>3. IsFiniteSet(held) /\ Cardinality(held) <= Cardinality(Stalled)
  BY PendingSizes, Smaller
<1>4. Cardinality(1 .. turns) <= Cardinality(held)
  <2> HIDE DEF held, which
  <2> QED
    BY <1>2, <1>3, FS_Surjection
<1>5. Cardinality(1 .. turns) = turns
  BY <1>1, FS_Interval
<1>6. Cardinality(held) \in Nat
  BY <1>3, FS_CardinalityType
<1> QED
  BY <1>1, <1>3, <1>4, <1>5, <1>6, PendingSizes

LEMMA RoomIs ==
    ASSUME joinCalls \in 0 .. JOIN_JANITOR_EVERY - 1
    PROVE  /\ Passed \in 0 .. JOIN_JANITOR_EVERY - 1
           /\ \A a \in Int : Room(a) \in Int
           /\ \A a \in Nat : Room(a) >= Cardinality(Callers)
BY WindowAssumption, PendingSizes, Products DEF Passed, Room

\* Steps that count no call and make no entry.
LEMMA TurnsKept ==
    ASSUME NEW turns, NEW turn, Turns(turns, turn), IsFiniteSet(DOMAIN joinHits),
           joinCalls \in 0 .. JOIN_JANITOR_EVERY - 1, joinCalls' = joinCalls,
           Pending' = Pending, Stalled' = Stalled, DOMAIN joinHits' \subseteq DOMAIN joinHits,
           \A c \in Callers : call'[c].pc = "clear" =>
               /\ call[c].pc = "clear"
               /\ DOMAIN joinHits' \ call'[c].left \subseteq DOMAIN joinHits \ call[c].left
    PROVE  Turns(turns, turn)'
<1>1. Passed' = Passed /\ \A a : Room(a)' = Room(a)
  BY DEF Passed, Room
<1>2. Size(DOMAIN joinHits)' <= Size(DOMAIN joinHits)
  BY Smaller, PendingSizes DEF Size
<1>3. turns \in Nat /\ turn \in [Callers -> Int]
  BY DEF Turns
<1>4. Size(DOMAIN joinHits)' <= JOIN_MAP_SIZE_CAP - 1 + Room(turns)
  <2>1. Size(DOMAIN joinHits)' \in Int /\ Size(DOMAIN joinHits) \in Int /\ Room(turns) \in Int
    BY <1>3, RoomIs, Smaller, PendingSizes DEF Size
  <2> QED
    BY <1>2, <2>1, WindowAssumption DEF Turns
<1>5. ASSUME NEW c \in Callers, call'[c].pc = "clear"
      PROVE  Size(DOMAIN joinHits \ call[c].left)' <= Room(turns - turn[c])
  <2>1. call[c].pc = "clear" /\ Size(DOMAIN joinHits \ call[c].left) <= Room(turns - turn[c])
    BY <1>5 DEF Turns
  <2>2. IsFiniteSet(DOMAIN joinHits \ call[c].left)
    BY Smaller
  <2>3. Cardinality(DOMAIN joinHits' \ call'[c].left)
          <= Cardinality(DOMAIN joinHits \ call[c].left)
        /\ Cardinality(DOMAIN joinHits' \ call'[c].left) \in Nat
        /\ Cardinality(DOMAIN joinHits \ call[c].left) \in Nat
    BY <1>5, <2>2, Smaller
  <2>4. Room(turns - turn[c]) \in Int
    BY <1>3, RoomIs
  <2> QED
    BY <2>1, <2>3, <2>4, PendingSizes DEF Size
<1> QED
  BY <1>1, <1>3, <1>4, <1>5 DEF Turns

\* A call makes its entry.
LEMMA TurnsDecide ==
    ASSUME NEW turns, NEW turn, Turns(turns, turn), IsFiniteSet(DOMAIN joinHits),
           joinCalls \in 0 .. JOIN_JANITOR_EVERY - 1, joinCalls' = joinCalls,
           NEW c \in Pending, NEW ip,
           Pending' = Pending \ {c}, Stalled' = Stalled,
           DOMAIN joinHits' \subseteq DOMAIN joinHits \cup {ip},
           \A d \in Callers : call'[d].pc = "clear" =>
               call[d].pc = "clear" /\ call'[d].left = call[d].left
    PROVE  Turns(turns, turn)'
<1>1. Passed' = Passed /\ \A a : Room(a)' = Room(a)
  BY DEF Passed, Room
<1>2. /\ turns \in Nat /\ turn \in [Callers -> Int]
  BY DEF Turns
<1>3. Cardinality(Pending') = Cardinality(Pending) - 1 /\ Cardinality(Pending) \in Nat
  BY PendingSizes, OneMore
<1>4. ASSUME NEW S, NEW T, T \subseteq S \cup {ip}, IsFiniteSet(S)
      PROVE  /\ Cardinality(T) + Cardinality(Pending') <= Cardinality(S) + Cardinality(Pending)
             /\ Cardinality(T) + Cardinality(Pending') \in Int
             /\ Cardinality(S) + Cardinality(Pending) \in Int
  <2>1. IsFiniteSet(S \cup {ip}) /\ Cardinality(S \cup {ip}) <= Cardinality(S) + 1
        /\ Cardinality(S) \in Nat
    BY <1>4, OneMore
  <2>2. Cardinality(T) <= Cardinality(S \cup {ip}) /\ Cardinality(T) \in Nat
        /\ Cardinality(S \cup {ip}) \in Nat
    BY <1>4, <2>1, Smaller
  <2> QED
    BY <1>3, <2>1, <2>2
<1>5. Size(DOMAIN joinHits)' <= JOIN_MAP_SIZE_CAP - 1 + Room(turns)
  <2>1. Room(turns) \in Int
    BY <1>2, RoomIs
  <2>2. DOMAIN joinHits' \subseteq DOMAIN joinHits \cup {ip} /\ IsFiniteSet(DOMAIN joinHits)
    OBVIOUS
  <2>3. /\ Size(DOMAIN joinHits) <= JOIN_MAP_SIZE_CAP - 1 + Room(turns)
        /\ JOIN_MAP_SIZE_CAP \in Nat
    BY WindowAssumption DEF Turns
  <2>4. Size(DOMAIN joinHits)' <= Size(DOMAIN joinHits)
        /\ Size(DOMAIN joinHits)' \in Int /\ Size(DOMAIN joinHits) \in Int
    BY <1>4, <2>2 DEF Size
  <2> QED
    BY <2>1, <2>3, <2>4
<1>6. ASSUME NEW d \in Callers, call'[d].pc = "clear"
      PROVE  Size(DOMAIN joinHits \ call[d].left)' <= Room(turns - turn[d])
  <2>1. /\ call'[d].left = call[d].left
        /\ Size(DOMAIN joinHits \ call[d].left) <= Room(turns - turn[d])
    BY <1>6 DEF Turns
  <2>2. IsFiniteSet(DOMAIN joinHits \ call[d].left)
    BY Smaller
  <2> DEFINE S == DOMAIN joinHits \ call[d].left
             T == DOMAIN joinHits' \ call'[d].left
  <2>3. T \subseteq S \cup {ip}
    BY <2>1
  <2>4. Room(turns - turn[d]) \in Int
    BY <1>2, RoomIs
  <2>5. Cardinality(T) + Cardinality(Pending') <= Cardinality(S) + Cardinality(Pending)
        /\ Cardinality(T) + Cardinality(Pending') \in Int
        /\ Cardinality(S) + Cardinality(Pending) \in Int
    <3> HIDE DEF S, T
    <3> QED
      BY <1>4, <2>2, <2>3 DEF S
  <2> QED
    BY <2>1, <2>4, <2>5 DEF Size
<1> QED
  BY <1>1, <1>2, <1>5, <1>6 DEF Turns

\* A call is counted.
LEMMA TurnsCount ==
    ASSUME NEW turns, NEW turn, Turns(turns, turn), IsFiniteSet(DOMAIN joinHits),
           joinCalls \in 0 .. JOIN_JANITOR_EVERY - 1,
           joinCalls' = (joinCalls + 1) % JOIN_JANITOR_EVERY,
           NEW c \in Callers \ Pending, Pending' = Pending \cup {c},
           Stalled' = IF joinCalls = 0 THEN Stalled \cup {c} ELSE Stalled,
           joinHits' = joinHits,
           \A d \in Callers : call'[d].pc = "clear" =>
               d # c /\ call[d].pc = "clear" /\ call'[d].left = call[d].left
    PROVE  \E t, f : Turns(t, f)'
<1>1. /\ turns \in Nat /\ turn \in [Callers -> Int] /\ JOIN_JANITOR_EVERY \in Nat \ {0}
      /\ JOIN_MAP_SIZE_CAP \in Nat
  BY WindowAssumption DEF Turns
<1>2. Cardinality(Pending') = Cardinality(Pending) + 1 /\ Cardinality(Pending) \in Nat
  BY PendingSizes, OneMore
<1>3. Cardinality(Pending') <= Cardinality(Callers)
  BY CallerAssumption, Smaller DEF Pending
<1>4. turns < Cardinality(Callers)
  BY <1>1, <1>2, <1>3, PendingSizes, TurnsAreHeld
<1>5. joinCalls' = IF joinCalls = JOIN_JANITOR_EVERY - 1 THEN 0 ELSE joinCalls + 1
  BY <1>1, NextOf
<1>6. ASSUME NEW S, IsFiniteSet(S)
      PROVE  Size(S)' = Size(S) + 1 /\ Size(S) \in Int
  BY <1>2, <1>6, FS_CardinalityType DEF Size
<1>7. CASE joinCalls # 0
  <2>1. Passed' = Passed + 1 /\ Passed \in Int
    BY <1>1, <1>5, <1>7 DEF Passed
  <2>2. \A a \in Int : Room(a)' = Room(a) + 1 /\ Room(a) \in Int
    BY <1>1, <2>1, PendingSizes, Products DEF Room
  <2>3. Size(DOMAIN joinHits)' <= JOIN_MAP_SIZE_CAP - 1 + Room(turns)'
    BY <1>1, <1>6, <2>2 DEF Turns
  <2>4. ASSUME NEW d \in Callers, call'[d].pc = "clear"
        PROVE  Size(DOMAIN joinHits \ call[d].left)' <= Room(turns - turn[d])'
    <3>1. /\ call'[d].left = call[d].left /\ IsFiniteSet(DOMAIN joinHits \ call[d].left)
          /\ Size(DOMAIN joinHits \ call[d].left) <= Room(turns - turn[d])
      BY <2>4, Smaller DEF Turns
    <3>2. turns - turn[d] \in Int
      BY <1>1
    <3> DEFINE S == DOMAIN joinHits \ call[d].left
    <3>3. Size(DOMAIN joinHits \ call[d].left)' = Size(S)'
      BY <3>1
    <3> QED
      BY <1>6, <2>2, <3>1, <3>2, <3>3
  <2>5. Turns(turns, turn)'
    BY <1>1, <1>4, <1>7, <2>3, <2>4 DEF Turns
  <2> QED
    BY <2>5
<1>8. CASE joinCalls = 0
  <2>1. Passed = JOIN_JANITOR_EVERY - 1 /\ Passed' = 0
    BY <1>1, <1>5, <1>8 DEF Passed
  <2>2. \A a \in Int : Room(a + 1)' = Room(a) + 1 /\ Room(a) \in Int
    BY <1>1, <2>1, PendingSizes, Products DEF Room
  <2>3. Size(DOMAIN joinHits)' <= JOIN_MAP_SIZE_CAP - 1 + Room(turns + 1)'
    BY <1>1, <1>6, <2>2 DEF Turns
  <2>4. PICK next \in [Callers -> Int] :
          next[c] = turns + 1 /\ \A d \in Callers \ {c} : next[d] = turn[d]
    <3>1. [turn EXCEPT ![c] = turns + 1] \in [Callers -> Int]
      BY <1>1
    <3> QED
      BY <1>1, <3>1
  <2>5. ASSUME NEW d \in Callers, call'[d].pc = "clear"
        PROVE  Size(DOMAIN joinHits \ call[d].left)' <= Room(turns + 1 - next[d])'
    <3>1. /\ call'[d].left = call[d].left /\ IsFiniteSet(DOMAIN joinHits \ call[d].left)
          /\ Size(DOMAIN joinHits \ call[d].left) <= Room(turns - turn[d]) /\ d # c
      BY <2>5, Smaller DEF Turns
    <3>2. turns - turn[d] \in Int /\ turns + 1 - next[d] = turns - turn[d] + 1
      BY <1>1, <2>4, <3>1
    <3> DEFINE S == DOMAIN joinHits \ call[d].left
    <3>3. Size(DOMAIN joinHits \ call[d].left)' = Size(S)'
      BY <3>1
    <3> QED
      BY <1>6, <2>2, <3>1, <3>2, <3>3
  <2>6. \A d \in Stalled : d \in Callers /\ d # c
    BY DEF Stalled, Pending
  <2>7. \A n \in 1 .. turns + 1 : \E d \in Stalled' : next[d] = n
    BY <1>1, <1>8, <2>4, <2>6 DEF Turns
  <2>8. \A d \in Stalled' : next[d] <= turns + 1
    BY <1>1, <1>8, <2>4, <2>6 DEF Turns
  <2>9. turns + 1 \in Nat /\ (turns + 1 = Cardinality(Callers) => Passed = 0)'
    BY <1>1, <2>1
  <2>10. \A d \in Callers : call'[d].pc = "clear" =>
           Size(DOMAIN joinHits \ call[d].left)' <= Room(turns + 1 - next[d])'
    BY <2>5
  <2>11. Turns(turns + 1, next)'
    BY <2>3, <2>4, <2>7, <2>8, <2>9, <2>10 DEF Turns
  <2> QED
    BY <2>11
<1> QED
  BY <1>7, <1>8

\* The map was seen below the cap, or is clear: the turns up to that one, and
\* that one, do not count any more.
LEMMA TurnsAgain ==
    ASSUME NEW turns, NEW turn, Turns(turns, turn), IsFiniteSet(DOMAIN joinHits),
           joinCalls \in 0 .. JOIN_JANITOR_EVERY - 1, joinCalls' = joinCalls,
           NEW c \in Stalled, Pending' = Pending, Stalled' = Stalled \ {c}, joinHits' = joinHits,
           Size(DOMAIN joinHits) <= JOIN_MAP_SIZE_CAP - 1 + Room(turns - turn[c]),
           \A d \in Callers : call'[d].pc = "clear" =>
               d # c /\ call[d].pc = "clear" /\ call'[d].left = call[d].left
    PROVE  \E t, f : Turns(t, f)'
<1>1. turns \in Nat /\ turn \in [Callers -> Int] /\ c \in Callers /\ turn[c] <= turns
  BY DEF Turns, Stalled
<1>2. Passed' = Passed /\ \A a : Room(a)' = Room(a)
  BY DEF Passed, Room
<1>3. \A S : Size(S)' = Size(S)
  BY DEF Size
<1>4. turns <= Cardinality(Callers)
  BY <1>1, TurnsAreHeld, PendingSizes
<1>5. ASSUME NEW d \in Callers, call'[d].pc = "clear"
      PROVE  Size(DOMAIN joinHits \ call[d].left)' <= Room(turns - turn[d])'
  <2>1. /\ call'[d].left = call[d].left
        /\ Size(DOMAIN joinHits \ call[d].left) <= Room(turns - turn[d])
    BY <1>5 DEF Turns
  <2> DEFINE S == DOMAIN joinHits \ call[d].left
  <2>2. Size(DOMAIN joinHits \ call[d].left)' = Size(S)'
    BY <2>1
  <2> QED
    BY <1>2, <1>3, <2>1, <2>2
<1>6. CASE turn[c] <= 0
  <2>1. \A n \in 1 .. turns : \E d \in Stalled' : turn[d] = n
    BY <1>1, <1>6 DEF Turns
  <2>2. \A d \in Stalled' : turn[d] <= turns
    BY DEF Turns
  <2>3. Size(DOMAIN joinHits)' <= JOIN_MAP_SIZE_CAP - 1 + Room(turns)'
    BY <1>2, <1>3 DEF Turns
  <2>4. Turns(turns, turn)'
    BY <1>1, <1>2, <1>5, <2>1, <2>2, <2>3 DEF Turns
  <2> QED
    BY <2>4
<1>7. CASE turn[c] > 0
  <2> DEFINE rest == turns - turn[c]
  <2>1. PICK next \in [Callers -> Int] : \A d \in Callers : next[d] = turn[d] - turn[c]
    <3>1. [d \in Callers |-> turn[d] - turn[c]] \in [Callers -> Int]
      BY <1>1
    <3> QED
      BY <3>1
  <2>2. rest \in Nat /\ rest < Cardinality(Callers)
    BY <1>1, <1>4, <1>7, PendingSizes
  <2>3. ASSUME NEW n \in 1 .. rest PROVE \E d \in Stalled' : next[d] = n
    <3>1. n + turn[c] \in 1 .. turns
      BY <1>1, <1>7, <2>2
    <3>2. PICK d \in Stalled : turn[d] = n + turn[c]
      BY <3>1 DEF Turns
    <3>3. d \in Callers /\ d # c
      BY <1>1, <3>2 DEF Stalled
    <3> QED
      BY <1>1, <2>1, <3>2, <3>3
  <2>4. ASSUME NEW d \in Stalled' PROVE next[d] <= rest
    <3>1. d \in Stalled /\ d \in Callers
      BY DEF Stalled
    <3> QED
      BY <1>1, <2>1, <3>1 DEF Turns
  <2>5. \A d \in Callers : rest - next[d] = turns - turn[d]
    BY <1>1, <2>1
  <2>6. Size(DOMAIN joinHits)' <= JOIN_MAP_SIZE_CAP - 1 + Room(rest)'
    BY <1>2, <1>3
  <2>7. PICK r \in Nat : r = rest
    BY <2>2
  <2> HIDE DEF rest
  <2>8. \A d \in Callers : call'[d].pc = "clear" =>
          Size(DOMAIN joinHits \ call[d].left)' <= Room(r - next[d])'
    BY <1>5, <2>5, <2>7
  <2>9. Turns(r, next)'
    BY <2>1, <2>2, <2>3, <2>4, <2>6, <2>7, <2>8 DEF Turns
  <2> QED
    BY <2>9
<1> QED
  BY <1>1, <1>6, <1>7

\* A janitor that sees the map at its cap is to clear all of it.
LEMMA TurnsClear ==
    ASSUME NEW turns, NEW turn, Turns(turns, turn), IsFiniteSet(DOMAIN joinHits),
           joinCalls \in 0 .. JOIN_JANITOR_EVERY - 1, joinCalls' = joinCalls,
           NEW c \in Stalled, Pending' = Pending, Stalled' = Stalled, joinHits' = joinHits,
           DOMAIN joinHits \subseteq call'[c].left,
           \A d \in Callers \ {c} : call'[d].pc = "clear" =>
               call[d].pc = "clear" /\ call'[d].left = call[d].left
    PROVE  Turns(turns, turn)'
<1>1. turns \in Nat /\ turn \in [Callers -> Int] /\ c \in Callers /\ turn[c] <= turns
  BY DEF Turns, Stalled
<1>2. Passed' = Passed /\ \A a : Room(a)' = Room(a)
  BY DEF Passed, Room
<1>3. \A S : Size(S)' = Size(S)
  BY DEF Size
<1>4. ASSUME NEW d \in Callers, call'[d].pc = "clear"
      PROVE  Size(DOMAIN joinHits \ call[d].left)' <= Room(turns - turn[d])'
  <2>1. CASE d # c
    <3>1. /\ call'[d].left = call[d].left
          /\ Size(DOMAIN joinHits \ call[d].left) <= Room(turns - turn[d])
      BY <1>4, <2>1 DEF Turns
    <3> DEFINE S == DOMAIN joinHits \ call[d].left
    <3>2. Size(DOMAIN joinHits \ call[d].left)' = Size(S)'
      BY <3>1
    <3> QED
      BY <1>2, <1>3, <3>1, <3>2
  <2>2. CASE d = c
    <3>1. (DOMAIN joinHits \ call[d].left)' = {}
      BY <2>2
    <3>2. Size({}) <= Cardinality(Callers) /\ Size({}) \in Int
      BY PendingSizes, FS_EmptySet DEF Size
    <3>3. Size(DOMAIN joinHits \ call[d].left)' = Size({})'
      BY <3>1
    <3>4. turns - turn[d] \in Nat
      BY <1>1, <2>2
    <3>5. Room(turns - turn[d]) >= Cardinality(Callers) /\ Room(turns - turn[d]) \in Int
      BY <3>4, RoomIs
    <3> QED
      BY <1>2, <1>3, <3>2, <3>3, <3>5, PendingSizes
  <2> QED
    BY <2>1, <2>2
<1>5. Size(DOMAIN joinHits)' <= JOIN_MAP_SIZE_CAP - 1 + Room(turns)'
  BY <1>2, <1>3 DEF Turns
<1> QED
  BY <1>1, <1>2, <1>4, <1>5 DEF Turns

LEMMA BoundFollows == MapInv => MapBounded
<1> SUFFICES ASSUME MapInv PROVE MapBounded
  OBVIOUS
<1>1. PICK turns, turn : Turns(turns, turn)
  BY DEF MapInv
<1> DEFINE callers == Cardinality(Callers)
           e == JOIN_JANITOR_EVERY
           map == Cardinality(DOMAIN joinHits)
           pending == Cardinality(Pending)
<1>2. /\ turns \in Nat /\ map \in Nat /\ e \in Nat \ {0} /\ Passed \in 0 .. e - 1
      /\ JOIN_MAP_SIZE_CAP \in Nat
  BY <1>1, WindowAssumption, RoomIs, FS_CardinalityType DEF MapInv, CallTypes, MapTypes, Turns
<1>3. callers \in Nat /\ pending \in Nat /\ turns <= pending /\ pending <= callers
  BY <1>1, <1>2, PendingSizes, TurnsAreHeld
<1>4. map + pending <= JOIN_MAP_SIZE_CAP - 1 + (callers + e * turns + Passed)
  BY <1>1 DEF Turns, Size, Room
<1>5. turns = callers => Passed = 0
  BY <1>1 DEF Turns
<1> HIDE DEF callers, e, map, pending
<1>6. e * turns \in Int /\ e * callers \in Int /\ callers * e = e * callers
  BY <1>2, <1>3
<1>7. map <= JOIN_MAP_SIZE_CAP - 1 + e * callers
  <2>1. CASE turns = callers
    <3>1. pending = callers
      BY <1>2, <1>3, <2>1
    <3> QED
      BY <1>2, <1>3, <1>4, <1>5, <1>6, <2>1, <3>1
  <2>2. CASE turns < callers
    <3>1. e * turns + e - 1 - turns + callers <= e * callers
      BY <1>2, <1>3, <2>2, Products
    <3> QED
      BY <1>2, <1>3, <1>4, <1>6, <3>1
  <2> QED
    BY <1>2, <1>3, <2>1, <2>2
<1> QED
  BY <1>6, <1>7 DEF MapInv, MapTypes, MapBounded, callers, e, map

\* What expires of an address without an entry makes none.
LEMMA NothingKept == ASSUME NEW now PROVE DropExpired(<<>>, now) = <<>>
BY DEF DropExpired

\* A limiter's step changes the entry of one caller.
LEMMA CallTypesKept ==
    ASSUME CallTypes, clock' = clock, traffic' = traffic,
           NEW c \in Callers, NEW now \in [pc : Pcs, ip : IPs \cup {NoIP}, now : 0 .. MaxClock,
                                           left : SUBSET IPs],
           call' = [call EXCEPT ![c] = now], now.pc # "idle" => now.ip \in traffic.from,
           joinCalls' \in 0 .. JOIN_JANITOR_EVERY - 1
    PROVE  CallTypes'
BY DEF CallTypes

LEMMA JoinKeeps ==
    ASSUME MapInv, NEW c \in Callers, JoinStep(c, traffic.from), traffic' = traffic
    PROVE  MapInv'
<1>1. PICK turns, turn : Turns(turns, turn)
  BY DEF MapInv
<1> DEFINE Call == [pc : Pcs, ip : IPs \cup {NoIP}, now : 0 .. MaxClock, left : SUBSET IPs]
<1>2. /\ call[c] \in Call /\ call \in [Callers -> Call] /\ traffic.from \subseteq IPs
      /\ joinCalls \in 0 .. JOIN_JANITOR_EVERY - 1
      /\ IsFiniteSet(DOMAIN joinHits) /\ DOMAIN joinHits \subseteq traffic.from
      /\ call[c].pc # "idle" => call[c].ip \in traffic.from
  BY TrafficAssumption DEF MapInv, CallTypes, MapTypes
<1>3. clock' = clock /\ regHits' = regHits
  BY DEF JoinStep, JoinCall, JoinCount, Janitor, JanitorDone, JoinDecide, ClearOne, RetainOne,
     Return, regVars
<1>4. ASSUME call' = [call EXCEPT ![c] = call'[c]], call'[c] \in Call,
             call'[c].pc # "idle" => call'[c].ip \in traffic.from,
             joinCalls' \in 0 .. JOIN_JANITOR_EVERY - 1,
             IsFiniteSet(DOMAIN joinHits'), DOMAIN joinHits' \subseteq traffic.from,
             \E t, f : Turns(t, f)'
      PROVE  MapInv'
  <2>1. PICK now \in Call : now = call'[c]
    BY <1>4
  <2>2. CallTypes'
    BY <1>3, <1>4, <2>1, CallTypesKept DEF MapInv
  <2>3. MapTypes'
    BY <1>3, <1>4 DEF MapInv, MapTypes
  <2> QED
    BY <1>4, <2>2, <2>3 DEF MapInv
<1>5. ASSUME NEW real \in traffic.from \cup {NoIP}, NEW xff \in traffic.from \cup {NoIP},
             NEW peer \in traffic.from, JoinCall(c, real, xff, peer)
      PROVE  MapInv'
  <2>1. /\ call[c].pc = "idle" /\ joinHits' = joinHits /\ joinCalls' = joinCalls
        /\ call' = [call EXCEPT ![c].pc = "timed", ![c].now = clock,
                                ![c].ip = JoinIP(real, xff, peer)]
    BY <1>5 DEF JoinCall, joinVars
  <2>2. JoinIP(real, xff, peer) \in traffic.from
    BY DEF JoinIP
  <2>3. /\ call' = [call EXCEPT ![c] = call'[c]] /\ call'[c].pc = "timed"
        /\ call'[c].ip \in traffic.from
    BY <1>2, <2>1, <2>2
  <2>4. call'[c] \in Call
    BY <1>2, <2>1, <2>2 DEF MapInv, CallTypes, Pcs
  <2>5. Pending' = Pending /\ Stalled' = Stalled
    BY <1>2, <2>1, <2>3 DEF Pending, Stalled
  <2>6. \A d \in Callers : call'[d].pc = "clear" => call'[d] = call[d]
    BY <1>2, <2>1, <2>3
  <2>7. Turns(turns, turn)'
    BY <1>1, <1>2, <2>1, <2>5, <2>6, TurnsKept
  <2> QED
    BY <1>2, <1>4, <2>1, <2>3, <2>4, <2>7
<1>6. CASE JoinCount(c)
  <2>1. /\ call[c].pc = "timed" /\ joinHits' = joinHits
        /\ joinCalls' = (joinCalls + 1) % JOIN_JANITOR_EVERY
        /\ call' = [call EXCEPT ![c].pc = IF joinCalls = 0 THEN "janitor" ELSE "decide"]
    BY <1>6 DEF JoinCount, Place
  <2>2. /\ call' = [call EXCEPT ![c] = call'[c]] /\ call'[c].ip = call[c].ip
        /\ call'[c].pc = IF joinCalls = 0 THEN "janitor" ELSE "decide"
    BY <1>2, <2>1
  <2>3. call'[c] \in Call
    BY <1>2, <2>1 DEF Pcs
  <2>4. /\ c \in Callers \ Pending /\ Pending' = Pending \cup {c}
        /\ Stalled' = IF joinCalls = 0 THEN Stalled \cup {c} ELSE Stalled
    BY <1>2, <2>1, <2>2 DEF Pending, Stalled
  <2>5. \A d \in Callers : call'[d].pc = "clear" => d # c /\ call'[d] = call[d]
    BY <1>2, <2>2
  <2>6. \E t, f : Turns(t, f)'
    BY <1>1, <1>2, <2>1, <2>4, <2>5, TurnsCount
  <2>7. joinCalls' \in 0 .. JOIN_JANITOR_EVERY - 1
    BY <1>2, <2>1, NextOf, WindowAssumption
  <2> QED
    BY <1>2, <1>4, <2>1, <2>2, <2>3, <2>6, <2>7
<1>7. CASE Janitor(c, traffic.from)
  <2>1. /\ call[c].pc = "janitor" /\ joinHits' = joinHits /\ joinCalls' = joinCalls
        /\ call' = [call EXCEPT ![c].left = traffic.from,
                     ![c].pc = IF Cardinality(DOMAIN joinHits) >= JOIN_MAP_SIZE_CAP
                               THEN "clear" ELSE "retain"]
    BY <1>7 DEF Janitor, joinVars
  <2>2. /\ call' = [call EXCEPT ![c] = call'[c]] /\ call'[c].ip = call[c].ip
        /\ call'[c].left = traffic.from
        /\ call'[c].pc = IF Cardinality(DOMAIN joinHits) >= JOIN_MAP_SIZE_CAP
                         THEN "clear" ELSE "retain"
    BY <1>2, <2>1
  <2>3. call'[c] \in Call
    BY <1>2, <2>1 DEF Pcs
  <2>4. c \in Stalled /\ Pending' = Pending
    BY <1>2, <2>1, <2>2 DEF Pending, Stalled
  <2>5. \A d \in Callers \ {c} : call'[d] = call[d]
    BY <1>2, <2>2
  <2>6. CASE Cardinality(DOMAIN joinHits) >= JOIN_MAP_SIZE_CAP
    <3>1. Stalled' = Stalled
      BY <1>2, <2>1, <2>2, <2>6 DEF Stalled
    <3>2. Turns(turns, turn)'
      BY <1>1, <1>2, <2>1, <2>2, <2>4, <2>5, <3>1, TurnsClear
    <3> QED
      BY <1>2, <1>4, <2>1, <2>2, <2>3, <3>2
  <2>7. CASE ~(Cardinality(DOMAIN joinHits) >= JOIN_MAP_SIZE_CAP)
    <3>1. Stalled' = Stalled \ {c} /\ call'[c].pc = "retain"
      BY <1>2, <2>1, <2>2, <2>7 DEF Stalled
    <3>2. Size(DOMAIN joinHits) <= JOIN_MAP_SIZE_CAP - 1 + Room(turns - turn[c])
      <4>1. turns - turn[c] \in Nat
        BY <1>1, <2>4 DEF Turns, Stalled
      <4>2. Room(turns - turn[c]) >= Cardinality(Callers) /\ Room(turns - turn[c]) \in Int
        BY <1>2, <4>1, RoomIs
      <4>3. Cardinality(DOMAIN joinHits) \in Nat
        BY <1>2, FS_CardinalityType
      <4>4. Cardinality(Pending) <= Cardinality(Callers) /\ Cardinality(Pending) \in Nat
            /\ Cardinality(Callers) \in Nat
        BY PendingSizes
      <4>5. Cardinality(DOMAIN joinHits) <= JOIN_MAP_SIZE_CAP - 1
        BY <2>7, <4>3, WindowAssumption
      <4> QED
        BY <4>2, <4>3, <4>4, <4>5, WindowAssumption DEF Size
    <3>3. \E t, f : Turns(t, f)'
      BY <1>1, <1>2, <2>1, <2>4, <2>5, <3>1, <3>2, TurnsAgain
    <3> QED
      BY <1>2, <1>4, <2>1, <2>2, <2>3, <3>3
  <2> QED
    BY <2>6, <2>7
<1>8. ASSUME NEW ip \in IPs, ClearOne(c, ip) \/ RetainOne(c, ip) PROVE MapInv'
  <2>1. /\ call[c].pc \in {"clear", "retain"} /\ joinCalls' = joinCalls
        /\ call' = [call EXCEPT ![c].left = @ \ {ip}]
    BY <1>8 DEF ClearOne, RetainOne, Swept
  <2>2. /\ call' = [call EXCEPT ![c] = call'[c]] /\ call'[c].ip = call[c].ip
        /\ call'[c].pc = call[c].pc /\ call'[c].left = call[c].left \ {ip}
    BY <1>2, <2>1
  <2>3. call'[c] \in Call
    BY <1>2, <2>1
  <2>4. Pending' = Pending /\ Stalled' = Stalled
    BY <1>2, <2>2 DEF Pending, Stalled
  <2>5. /\ DOMAIN joinHits' \subseteq DOMAIN joinHits
        /\ call[c].pc = "clear" => DOMAIN joinHits' = DOMAIN joinHits \ {ip}
    <3>1. CASE ClearOne(c, ip)
      BY <3>1 DEF ClearOne, Without
    <3>2. CASE RetainOne(c, ip)
      <4> DEFINE hits == DropExpired(Entry(joinHits, ip), call[c].now)
      <4>1. /\ call[c].pc = "retain"
            /\ joinHits' = IF hits = <<>> THEN Without(joinHits, ip) ELSE With(joinHits, ip, hits)
        BY <3>2 DEF RetainOne
      <4>2. ip \notin DOMAIN joinHits => hits = <<>>
        BY NothingKept DEF Entry
      <4> HIDE DEF hits
      <4> QED
        BY <4>1, <4>2 DEF Without, With
    <3> QED
      BY <1>8, <3>1, <3>2
  <2>6. \A d \in Callers : call'[d].pc = "clear" =>
          /\ call[d].pc = "clear"
          /\ DOMAIN joinHits' \ call'[d].left \subseteq DOMAIN joinHits \ call[d].left
    <3> TAKE d \in Callers
    <3>1. CASE d = c
      BY <2>2, <2>5, <3>1
    <3>2. CASE d # c
      <4>1. call'[d] = call[d]
        BY <1>2, <2>2, <3>2
      <4> QED
        BY <2>5, <4>1
    <3> QED
      BY <3>1, <3>2
  <2>7. Turns(turns, turn)'
    BY <1>1, <1>2, <2>1, <2>4, <2>5, <2>6, TurnsKept
  <2>8. IsFiniteSet(DOMAIN joinHits') /\ DOMAIN joinHits' \subseteq traffic.from
    BY <1>2, <2>5, Smaller
  <2> QED
    BY <1>2, <1>4, <2>1, <2>2, <2>3, <2>7, <2>8
<1>9. CASE JanitorDone(c)
  <2>1. /\ call[c].pc \in {"clear", "retain"} /\ call[c].left = {} /\ joinHits' = joinHits
        /\ joinCalls' = joinCalls /\ call' = [call EXCEPT ![c].pc = "decide"]
    BY <1>9 DEF JanitorDone, Place, joinVars
  <2>2. /\ call' = [call EXCEPT ![c] = call'[c]] /\ call'[c].ip = call[c].ip
        /\ call'[c].pc = "decide"
    BY <1>2, <2>1
  <2>3. call'[c] \in Call
    BY <1>2, <2>1 DEF Pcs
  <2>4. Pending' = Pending
    BY <1>2, <2>1, <2>2 DEF Pending
  <2>5. \A d \in Callers : call'[d].pc = "clear" => d # c /\ call'[d] = call[d]
    BY <1>2, <2>2
  <2>6. CASE call[c].pc = "clear"
    <3>1. c \in Stalled /\ Stalled' = Stalled \ {c}
      BY <1>2, <2>2, <2>6 DEF Stalled
    <3>2. Size(DOMAIN joinHits) <= JOIN_MAP_SIZE_CAP - 1 + Room(turns - turn[c])
      <4>1. DOMAIN joinHits \ call[c].left = DOMAIN joinHits
        BY <2>1
      <4>2. Size(DOMAIN joinHits \ call[c].left) <= Room(turns - turn[c])
        BY <1>1, <2>6 DEF Turns
      <4>3. turns - turn[c] \in Int
        BY <1>1 DEF Turns
      <4>4. Room(turns - turn[c]) \in Int
        BY <1>2, <4>3, RoomIs
      <4>5. Cardinality(DOMAIN joinHits) \in Nat
        BY <1>2, FS_CardinalityType
      <4>6. Size(DOMAIN joinHits) \in Int
        BY <4>5, PendingSizes DEF Size
      <4> QED
        BY <4>1, <4>2, <4>4, <4>6, WindowAssumption
    <3>3. \E t, f : Turns(t, f)'
      BY <1>1, <1>2, <2>1, <2>4, <2>5, <3>1, <3>2, TurnsAgain
    <3> QED
      BY <1>2, <1>4, <2>1, <2>2, <2>3, <3>3
  <2>7. CASE call[c].pc = "retain"
    <3>1. Stalled' = Stalled
      BY <1>2, <2>2, <2>7 DEF Stalled
    <3>2. Turns(turns, turn)'
      BY <1>1, <1>2, <2>1, <2>4, <2>5, <3>1, TurnsKept
    <3> QED
      BY <1>2, <1>4, <2>1, <2>2, <2>3, <3>2
  <2> QED
    BY <2>1, <2>6, <2>7
<1>10. CASE JoinDecide(c)
  <2> DEFINE ip == call[c].ip
  <2>1. /\ call[c].pc = "decide" /\ joinCalls' = joinCalls
        /\ \E pc \in {"refused", "admitted"} : call' = [call EXCEPT ![c].pc = pc]
        /\ \E hits : joinHits' = With(joinHits, ip, hits)
    BY <1>10 DEF JoinDecide, Place
  <2>2. /\ call' = [call EXCEPT ![c] = call'[c]] /\ call'[c].ip = ip
        /\ call'[c].pc \in {"refused", "admitted"}
    BY <1>2, <2>1
  <2>3. call'[c] \in Call
    BY <1>2, <2>1 DEF Pcs
  <2>4. c \in Pending /\ Pending' = Pending \ {c} /\ Stalled' = Stalled
    BY <1>2, <2>1, <2>2 DEF Pending, Stalled
  <2>5. \A d \in Callers : call'[d].pc = "clear" => call'[d] = call[d]
    BY <1>2, <2>2
  <2>6. DOMAIN joinHits' = DOMAIN joinHits \cup {ip} /\ ip \in traffic.from
    BY <1>2, <2>1 DEF With
  <2>7. PICK addr : addr = ip
    OBVIOUS
  <2>8. Turns(turns, turn)'
    BY <1>1, <1>2, <2>1, <2>4, <2>5, <2>6, <2>7, TurnsDecide
  <2>9. IsFiniteSet(DOMAIN joinHits') /\ DOMAIN joinHits' \subseteq traffic.from
    <3>1. IsFiniteSet(DOMAIN joinHits \cup {addr})
      BY <1>2, OneMore
    <3> QED
      BY <1>2, <2>6, <2>7, <3>1
  <2> QED
    BY <1>2, <1>4, <2>1, <2>2, <2>3, <2>6, <2>8, <2>9
<1>11. CASE Return(c)
  <2>1. /\ call[c].pc \in {"admitted", "refused"} /\ joinHits' = joinHits
        /\ joinCalls' = joinCalls /\ call' = [call EXCEPT ![c] = Idle]
    BY <1>11 DEF Return, joinVars
  <2>2. call' = [call EXCEPT ![c] = call'[c]] /\ call'[c] = Idle
    BY <1>2, <2>1
  <2>3. Idle \in Call /\ Idle.pc = "idle"
    BY WindowAssumption DEF Idle, Pcs
  <2>4. Pending' = Pending /\ Stalled' = Stalled
    BY <1>2, <2>1, <2>2, <2>3 DEF Pending, Stalled
  <2>5. \A d \in Callers : call'[d].pc = "clear" => call'[d] = call[d]
    BY <1>2, <2>2, <2>3
  <2>6. Turns(turns, turn)'
    BY <1>1, <1>2, <2>1, <2>4, <2>5, TurnsKept
  <2> QED
    BY <1>2, <1>4, <2>1, <2>2, <2>3, <2>6
<1> QED
  BY <1>5, <1>6, <1>7, <1>8, <1>9, <1>10, <1>11 DEF JoinStep

\* Registrations make no entry in the map of joins, nor a call of its kind.
LEMMA RegisterKeeps ==
    ASSUME MapInv, NEW c \in Callers, RegisterStep(c, traffic.from), traffic' = traffic
    PROVE  MapInv'
<1>1. PICK turns, turn : Turns(turns, turn)
  BY DEF MapInv
<1> DEFINE Call == [pc : Pcs, ip : IPs \cup {NoIP}, now : 0 .. MaxClock, left : SUBSET IPs]
<1>2. /\ call[c] \in Call /\ call \in [Callers -> Call] /\ traffic.from \subseteq IPs
      /\ joinCalls \in 0 .. JOIN_JANITOR_EVERY - 1 /\ clock \in 0 .. MaxClock
      /\ IsFiniteSet(DOMAIN joinHits) /\ DOMAIN joinHits \subseteq traffic.from
      /\ IsFiniteSet(DOMAIN regHits) /\ Cardinality(DOMAIN regHits) <= MAP_SIZE_CAP
      /\ call[c].pc # "idle" => call[c].ip \in traffic.from
  BY TrafficAssumption DEF MapInv, CallTypes, MapTypes
<1>3. clock' = clock /\ joinHits' = joinHits /\ joinCalls' = joinCalls
  BY DEF RegisterStep, RegisterCall, RegisterDecide, Return, joinVars
<1>4. ASSUME NEW now \in Call, call' = [call EXCEPT ![c] = now],
             now.pc # "idle" => now.ip \in traffic.from,
             {now.pc, call[c].pc} \subseteq {"idle", "timed", "admitted", "refused"},
             IsFiniteSet(DOMAIN regHits'), Cardinality(DOMAIN regHits') <= MAP_SIZE_CAP
      PROVE  MapInv'
  <2>1. CallTypes'
    BY <1>2, <1>3, <1>4, CallTypesKept DEF MapInv
  <2>2. MapTypes'
    BY <1>2, <1>3, <1>4 DEF MapTypes
  <2>3. call'[c] = now /\ \A d \in Callers \ {c} : call'[d] = call[d]
    BY <1>2, <1>4
  <2>4. Pending' = Pending /\ Stalled' = Stalled
    BY <1>4, <2>3 DEF Pending, Stalled
  <2>5. \A d \in Callers : call'[d].pc = "clear" => call'[d] = call[d]
    BY <1>4, <2>3
  <2>6. Turns(turns, turn)'
    BY <1>1, <1>2, <1>3, <2>4, <2>5, TurnsKept
  <2> QED
    BY <2>1, <2>2, <2>6 DEF MapInv
<1>5. ASSUME NEW trusted \in BOOLEAN, NEW xff \in traffic.from \cup {NoIP},
             NEW body \in traffic.from \cup {NoIP}, NEW localhost \in traffic.from,
             RegisterCall(c, trusted, xff, body, localhost)
      PROVE  MapInv'
  <2>1. /\ call[c].pc = "idle" /\ regHits' = regHits
        /\ call' = [call EXCEPT ![c].pc = "timed", ![c].now = clock,
                                ![c].ip = RegisterIP(trusted, xff, body, localhost)]
    BY <1>5 DEF RegisterCall, regVars
  <2>2. RegisterIP(trusted, xff, body, localhost) \in traffic.from
    BY DEF RegisterIP
  <2>3. PICK ip \in traffic.from : ip = RegisterIP(trusted, xff, body, localhost)
    BY <2>2
  <2>4. PICK now \in Call : now = [call[c] EXCEPT !.pc = "timed", !.now = clock, !.ip = ip]
    BY <1>2, <2>3 DEF Pcs
  <2>5. call' = [call EXCEPT ![c] = now] /\ now.pc = "timed" /\ now.ip = ip
    BY <1>2, <2>1, <2>3, <2>4
  <2> QED
    BY <1>2, <1>4, <2>1, <2>3, <2>5
<1>6. CASE RegisterDecide(c)
  <2> DEFINE map == IF Full THEN EmptyMap ELSE Janitored
  <2>1. /\ call[c].pc = "timed"
        /\ \E pc \in {"refused", "admitted"} : call' = [call EXCEPT ![c].pc = pc]
        /\ \E hits : regHits' = With(map, call[c].ip, hits)
    BY <1>6 DEF RegisterDecide, Place
  <2>2. PICK pc \in {"refused", "admitted"} : call' = [call EXCEPT ![c].pc = pc]
    BY <2>1
  <2>3. PICK now \in Call : now = [call[c] EXCEPT !.pc = pc]
    BY <1>2 DEF Pcs
  <2>4. call' = [call EXCEPT ![c] = now] /\ now.pc = pc /\ now.ip = call[c].ip
    BY <1>2, <2>2, <2>3
  <2>5. DOMAIN Janitored \subseteq DOMAIN regHits
    BY DEF Janitored, NonEmpty
  <2>6. /\ IsFiniteSet(DOMAIN map) /\ Cardinality(DOMAIN map) \in Nat
        /\ Cardinality(DOMAIN map) <= MAP_SIZE_CAP - 1
    <3>1. CASE Full
      <4>1. DOMAIN map = {}
        BY <3>1 DEF EmptyMap
      <4> HIDE DEF map
      <4> QED
        BY <4>1, FS_EmptySet, WindowAssumption
    <3>2. CASE ~Full
      <4>1. map = Janitored
        BY <3>2
      <4>2. IsFiniteSet(DOMAIN Janitored) /\ Cardinality(DOMAIN Janitored) \in Nat
        BY <1>2, <2>5, Smaller
      <4>3. ~(Cardinality(DOMAIN Janitored) >= MAP_SIZE_CAP)
        BY <3>2 DEF Full
      <4> QED
        BY <4>1, <4>2, <4>3, WindowAssumption
    <3> QED
      BY <3>1, <3>2
  <2> HIDE DEF map
  <2>7. DOMAIN regHits' = DOMAIN map \cup {call[c].ip}
    BY <2>1 DEF With
  <2>8. PICK ip : ip = call[c].ip
    OBVIOUS
  <2>9. /\ IsFiniteSet(DOMAIN map \cup {ip})
        /\ Cardinality(DOMAIN map \cup {ip}) <= Cardinality(DOMAIN map) + 1
        /\ Cardinality(DOMAIN map \cup {ip}) \in Nat
    BY <2>6, OneMore
  <2>10. IsFiniteSet(DOMAIN regHits') /\ Cardinality(DOMAIN regHits') <= MAP_SIZE_CAP
    BY <2>6, <2>7, <2>8, <2>9, WindowAssumption
  <2> QED
    BY <1>2, <1>4, <2>1, <2>4, <2>10
<1>7. CASE Return(c)
  <2>1. /\ call[c].pc \in {"admitted", "refused"} /\ regHits' = regHits
        /\ call' = [call EXCEPT ![c] = Idle]
    BY <1>7 DEF Return, regVars
  <2>2. Idle \in Call /\ Idle.pc = "idle"
    BY WindowAssumption DEF Idle, Pcs
  <2>3. PICK now \in Call : now = Idle
    BY <2>2
  <2> QED
    BY <1>2, <1>4, <2>1, <2>2, <2>3
<1> QED
  BY <1>5, <1>6, <1>7 DEF RegisterStep

\* A new process starts with empty maps.
NewMaps ==
    /\ clock \in 0 .. MaxClock /\ traffic \in Traffics
    /\ call = [c \in Callers |-> Idle] /\ joinHits = EmptyMap /\ regHits = EmptyMap
    /\ joinCalls = 0

LEMMA NewMapsAreFit == NewMaps => MapInv
<1> SUFFICES ASSUME NewMaps PROVE MapInv
  OBVIOUS
<1> USE DEF NewMaps
<1>1. Idle \in [pc : Pcs, ip : IPs \cup {NoIP}, now : 0 .. MaxClock, left : SUBSET IPs]
      /\ Idle.pc = "idle"
  BY WindowAssumption DEF Idle, Pcs
<1>2. \A c \in Callers : call[c] = Idle
  OBVIOUS
<1>3. CallTypes
  <2>1. call \in [Callers -> [pc : Pcs, ip : IPs \cup {NoIP}, now : 0 .. MaxClock,
                              left : SUBSET IPs]]
    BY <1>1
  <2> QED
    BY <1>1, <1>2, <2>1, WindowAssumption DEF CallTypes
<1>4. DOMAIN joinHits = {} /\ DOMAIN regHits = {}
  BY DEF EmptyMap
<1>5. MapTypes
  BY <1>4, FS_EmptySet, WindowAssumption DEF MapTypes
<1>6. Pending = {} /\ Stalled = {}
  BY <1>1, <1>2 DEF Pending, Stalled
<1>7. Passed = JOIN_JANITOR_EVERY - 1
  BY DEF Passed
<1>8. Size(DOMAIN joinHits) = 0
  BY <1>4, <1>6, FS_EmptySet DEF Size
<1>9. PICK turn \in [Callers -> Int] : \A c \in Callers : turn[c] = 0
  <2>1. [c \in Callers |-> 0] \in [Callers -> Int]
    OBVIOUS
  <2> QED
    BY <2>1
<1>10. Room(0) \in Nat
  BY <1>7, WindowAssumption, PendingSizes, Products DEF Room
<1>11. Cardinality(Callers) # 0
  BY CallerAssumption, FS_EmptySet
<1>12. Turns(0, turn)
  BY <1>1, <1>2, <1>6, <1>8, <1>9, <1>10, <1>11, WindowAssumption DEF Turns
<1> QED
  BY <1>3, <1>5, <1>12 DEF MapInv

\* The server's steps are those, a new process, or have to do with neither map.
LEMMA MapInvNext == ASSUME MapInv, [Next]_vars PROVE MapInv'
<1>1. traffic' = traffic /\ clock \in 0 .. MaxClock /\ traffic \in Traffics
  BY DEF Next, vars, Boot, Kill, Time, Limited, Page, Events, Store, Outage, HangUp, Offers, MapInv,
     CallTypes
<1>2. ASSUME UNCHANGED <<joinVars, regVars, call>>, clock' \in 0 .. MaxClock PROVE MapInv'
  <2>1. PICK turns, turn : Turns(turns, turn)
    BY DEF MapInv
  <2>2. Pending' = Pending /\ Stalled' = Stalled
    BY <1>2 DEF Pending, Stalled
  <2>3. joinHits' = joinHits /\ joinCalls' = joinCalls /\ regHits' = regHits /\ call' = call
    BY <1>2 DEF joinVars, regVars
  <2>4. Turns(turns, turn)'
    BY <2>1, <2>2, <2>3, TurnsKept DEF MapInv, CallTypes, MapTypes
  <2> QED
    BY <1>1, <1>2, <2>3, <2>4 DEF MapInv, CallTypes, MapTypes
<1>3. ASSUME NEW s \in Servers, Kill(s) PROVE MapInv'
  <2>1. CASE s = Front
    <3>1. NewMaps'
      BY <1>1, <1>3, <2>1 DEF Kill, NewProcess, NewMaps
    <3> QED
      BY <3>1, NewMapsAreFit, PTL
  <2>2. CASE s # Front
    BY <1>1, <1>2, <1>3, <2>2 DEF Kill, limitVars
  <2> QED
    BY <2>1, <2>2
<1>4. CASE Time
  BY <1>1, <1>2, <1>4, WindowAssumption DEF Time, Tick
<1>5. CASE Limited
  <2>1. CASE \E c \in Callers : JoinStep(c, traffic.from) \/ RegisterStep(c, traffic.from)
    BY <1>1, <2>1, JoinKeeps, RegisterKeeps
  <2>2. CASE traffic.kind \in Endpoints /\ EndpointStep(traffic.kind, traffic.from)
    BY <1>1, <1>2, <2>2 DEF EndpointStep, Pass, TooManyRequests
  <2> QED
    BY <1>5, <2>1, <2>2 DEF Limited
<1>6. CASE UNCHANGED limitVars
  BY <1>1, <1>2, <1>6 DEF limitVars
<1> QED
  BY <1>3, <1>4, <1>5, <1>6
     DEF Next, Boot, Page, Events, Store, Outage, HangUp, Offers, memory, vars

\* signaling/rate_limit.rs:75, partner_registry/rate_limit.rs:57: however many
\* addresses call, the maps hold no more than the caps and what goes past the
\* janitor's turns; a call that is held up in one does not undo it.
THEOREM MapsAreBounded == Spec => []MapBounded
<1>1. Init => MapInv
  BY NewMapsAreFit, WindowAssumption DEF Init, LimitInit, NewMaps
<1>2. MapInv /\ [Next]_vars => MapInv'
  BY MapInvNext
<1>3. QED
  BY <1>1, <1>2, BoundFollows, PTL DEF Spec

-----------------------------------------------------------------------------
(* Offers of relays                                                        *)

\* The servers that a sort puts in front of u.
AheadOf(u, servers) == {v \in servers : Ahead(v, u)}

LEMMA AheadIsAnOrder ==
    ASSUME NEW u \in Urls, NEW v \in Urls, NEW w \in Urls
    PROVE  /\ ~Ahead(u, u)
           /\ u # v => Ahead(u, v) \/ Ahead(v, u)
           /\ Ahead(u, v) /\ Ahead(v, w) => Ahead(u, w)
<1>1. \A x \in Urls : ServerCfg[x].priority \in Nat /\ ServerCfg[x].place \in Nat
  BY ListsAssumption
<1>2. ~Ahead(u, u)
  BY <1>1 DEF Ahead
<1>3. u # v => Ahead(u, v) \/ Ahead(v, u)
  <2>1. u # v => ServerCfg[u].place # ServerCfg[v].place
    BY ListsAssumption
  <2> QED
    BY <1>1, <2>1 DEF Ahead
<1>4. Ahead(u, v) /\ Ahead(v, w) => Ahead(u, w)
  BY <1>1 DEF Ahead
<1> QED
  BY <1>2, <1>3, <1>4

\* A server's rank is a number of its own.
LEMMA Ranks ==
    ASSUME NEW servers \in SUBSET Urls
    PROVE  /\ IsFiniteSet(servers) /\ Cardinality(servers) \in Nat
           /\ \A u \in servers : 1 + Cardinality(AheadOf(u, servers)) \in 1 .. Cardinality(servers)
           /\ \A u, v \in servers :
                Cardinality(AheadOf(u, servers)) = Cardinality(AheadOf(v, servers)) => u = v
<1>1. IsFiniteSet(servers) /\ Cardinality(servers) \in Nat
  BY ListsAssumption, FS_Subset, FS_CardinalityType
<1>2. ASSUME NEW S, NEW T \in SUBSET servers, S \in SUBSET T, S # T
      PROVE  Cardinality(S) < Cardinality(T) /\ Cardinality(S) \in Nat /\ Cardinality(T) \in Nat
  <2>1. IsFiniteSet(S) /\ IsFiniteSet(T)
    BY <1>1, <1>2, FS_Subset
  <2>2. /\ Cardinality(S) <= Cardinality(T)
        /\ Cardinality(S) = Cardinality(T) => S = T
    BY <1>2, <2>1, FS_Subset
  <2> QED
    BY <1>2, <2>1, <2>2, FS_CardinalityType
<1>3. ASSUME NEW u \in servers
      PROVE  1 + Cardinality(AheadOf(u, servers)) \in 1 .. Cardinality(servers)
  <2>1. AheadOf(u, servers) \in SUBSET servers /\ AheadOf(u, servers) # servers
    BY <1>3, AheadIsAnOrder DEF AheadOf
  <2> QED
    BY <1>1, <1>2, <2>1
<1>4. ASSUME NEW u \in servers, NEW v \in servers, Ahead(u, v)
      PROVE  Cardinality(AheadOf(u, servers)) < Cardinality(AheadOf(v, servers))
             /\ Cardinality(AheadOf(u, servers)) \in Nat
             /\ Cardinality(AheadOf(v, servers)) \in Nat
  <2>1. AheadOf(u, servers) \in SUBSET AheadOf(v, servers)
    BY <1>4, AheadIsAnOrder DEF AheadOf
  <2>2. u \in AheadOf(v, servers) /\ u \notin AheadOf(u, servers)
    BY <1>4, AheadIsAnOrder DEF AheadOf
  <2>3. AheadOf(v, servers) \in SUBSET servers
    BY DEF AheadOf
  <2> QED
    BY <1>2, <2>1, <2>2, <2>3
<1>5. ASSUME NEW u \in servers, NEW v \in servers,
             Cardinality(AheadOf(u, servers)) = Cardinality(AheadOf(v, servers))
      PROVE  u = v
  <2>1. CASE u # v
    <3>1. CASE Ahead(u, v)
      BY <1>4, <1>5, <3>1
    <3>2. CASE Ahead(v, u)
      BY <1>4, <1>5, <3>2
    <3> QED
      BY <2>1, <3>1, <3>2, AheadIsAnOrder
  <2> QED
    BY <2>1
<1> QED
  BY <1>1, <1>3, <1>5

\* The sort of a set of servers lists each of them and no other.
LEMMA SortLists ==
    ASSUME NEW servers \in SUBSET Urls
    PROVE  /\ SortByPriority(servers) \in Seq(servers)
           /\ \A u \in servers : \E i \in DOMAIN SortByPriority(servers) :
                SortByPriority(servers)[i] = u
<1> DEFINE n == Cardinality(servers)
           rank == [u \in servers |-> 1 + Cardinality(AheadOf(u, servers))]
<1>1. IsFiniteSet(servers) /\ n \in Nat
  BY Ranks
<1>2. rank \in [servers -> 1 .. n] /\ \A u, v \in servers : rank[u] = rank[v] => u = v
  <2>1. \A u \in servers : rank[u] = 1 + Cardinality(AheadOf(u, servers))
                           /\ rank[u] \in 1 .. n /\ Cardinality(AheadOf(u, servers)) \in Nat
    <3> TAKE u \in servers
    <3>1. IsFiniteSet(AheadOf(u, servers))
      BY <1>1, FS_Subset DEF AheadOf
    <3> QED
      BY <3>1, Ranks, FS_CardinalityType
  <2>2. \A u, v \in servers : rank[u] = rank[v] => u = v
    BY <2>1, Ranks
  <2> QED
    BY <2>1, <2>2
<1>3. rank \in Surjection(servers, 1 .. n)
  <2>1. rank \in Injection(servers, 1 .. n)
    <3> HIDE DEF rank
    <3> QED
      BY <1>2 DEF Injection, IsInjective
  <2>2. IsFiniteSet(1 .. n) /\ Cardinality(1 .. n) = n
    BY <1>1, FS_Interval
  <2> HIDE DEF rank
  <2> QED
    BY <2>1, <2>2, FS_Injection
<1>4. SortByPriority(servers) =
        [k \in 1 .. n |-> CHOOSE u \in servers : 1 + Cardinality(AheadOf(u, servers)) = k]
  BY DEF SortByPriority, AheadOf
<1>0. \A u \in servers : rank[u] = 1 + Cardinality(AheadOf(u, servers))
  OBVIOUS
<1> HIDE DEF rank
<1>5. ASSUME NEW k \in 1 .. n
      PROVE  SortByPriority(servers)[k] \in servers /\ rank[SortByPriority(servers)[k]] = k
  <2>1. \E u \in servers : rank[u] = k
    BY <1>3 DEF Surjection
  <2> QED
    BY <1>0, <1>4, <2>1
<1>6. SortByPriority(servers) \in Seq(servers)
  BY <1>1, <1>4, <1>5
<1>7. ASSUME NEW u \in servers
      PROVE  \E i \in DOMAIN SortByPriority(servers) : SortByPriority(servers)[i] = u
  <2>1. rank[u] \in 1 .. n /\ rank[u] \in DOMAIN SortByPriority(servers)
    BY <1>2, <1>4
  <2>2. SortByPriority(servers)[rank[u]] = u
    BY <1>2, <1>5, <2>1
  <2> QED
    BY <2>1, <2>2
<1> QED
  BY <1>6, <1>7

\* What is offered of the pool: each healthy server and no other, those of the
\* caller's region in front.
LEMMA OrderLists ==
    ASSUME NEW servers \in SUBSET Urls, NEW hint, NEW q, q = OrderByGeo(servers, hint)
    PROVE  /\ q \in Seq(servers) /\ \A u \in servers : \E i \in DOMAIN q : q[i] = u
           /\ \A i, j \in DOMAIN q : Near(q[j], hint) /\ ~Near(q[i], hint) => j < i
<1> DEFINE near == {u \in servers : Near(u, hint)}
           far == servers \ near
<1>1. CASE hint = <<>>
  <2>1. \A u \in Urls : Near(u, hint)
    <3> TAKE u \in Urls
    <3> DEFINE region == ServerCfg[u].region
               s == [i \in DOMAIN region |-> LowerCase[region[i]]]
    <3>1. region \in Seq(STRING)
      BY ListsAssumption
    <3>2. Len(s) = Len(region) /\ Len(region) \in Nat /\ SubSeq(s, 1, 0) = <<>> /\ Len(<<>>) = 0
      BY <3>1
    <3> QED
      BY <1>1, <3>2 DEF Near, StartsWith, Lower
  <2>2. q = SortByPriority(servers)
    BY <1>1 DEF OrderByGeo
  <2> QED
    BY <2>1, <2>2, SortLists
<1>2. CASE hint # <<>>
  <2> DEFINE a == SortByPriority(near)
             b == SortByPriority(far)
  <2>1. q = a \o b
    BY <1>2 DEF OrderByGeo
  <2>2. /\ a \in Seq(near) /\ \A u \in near : \E i \in DOMAIN a : a[i] = u
        /\ b \in Seq(far) /\ \A u \in far : \E i \in DOMAIN b : b[i] = u
    BY SortLists
  <2> HIDE DEF a, b
  <2>3. /\ Len(a) \in Nat /\ Len(b) \in Nat /\ DOMAIN q = 1 .. Len(a) + Len(b)
        /\ DOMAIN a = 1 .. Len(a) /\ DOMAIN b = 1 .. Len(b)
        /\ \A i \in DOMAIN a : q[i] = a[i] /\ a[i] \in near
        /\ \A i \in DOMAIN b : q[Len(a) + i] = b[i] /\ b[i] \in far
    BY <2>1, <2>2
  <2>4. ASSUME NEW i \in DOMAIN q
        PROVE  i \in DOMAIN a \/ (i > Len(a) /\ i - Len(a) \in DOMAIN b
                                  /\ q[i] = b[i - Len(a)])
    <3>1. CASE i > Len(a)
      <4>1. i - Len(a) \in DOMAIN b /\ Len(a) + (i - Len(a)) = i
        BY <2>3, <3>1
      <4> QED
        BY <2>3, <3>1, <4>1
    <3> QED
      BY <2>3, <3>1
  <2>5. q \in Seq(servers)
    BY <2>1, <2>2
  <2>6. ASSUME NEW u \in servers PROVE \E i \in DOMAIN q : q[i] = u
    <3>1. CASE u \in near
      BY <2>2, <2>3, <3>1
    <3>2. CASE u \in far
      <4>1. PICK i \in DOMAIN b : b[i] = u
        BY <2>2, <3>2
      <4>2. Len(a) + i \in DOMAIN q /\ q[Len(a) + i] = u
        BY <2>3, <4>1
      <4> QED
        BY <4>2
    <3> QED
      BY <3>1, <3>2
  <2>7. ASSUME NEW i \in DOMAIN q, NEW j \in DOMAIN q, Near(q[j], hint), ~Near(q[i], hint)
        PROVE  j < i
    <3>1. j \in DOMAIN a
      BY <2>3, <2>4, <2>7
    <3>2. i > Len(a)
      BY <2>3, <2>4, <2>7
    <3> QED
      BY <2>3, <3>1, <3>2
  <2> QED
    BY <2>5, <2>6, <2>7
<1> QED
  BY <1>1, <1>2

\* Of the entries of an answer the one with a credential has the relays.
RelaysTold ==
    \A turnUrls : offer.ice = IceServers(turnUrls, STUN_URLS) => Offered = turnUrls

LEMMA OfferedUrls == RelaysTold
<1> SUFFICES ASSUME NEW turnUrls, offer.ice = IceServers(turnUrls, STUN_URLS)
             PROVE  Offered = turnUrls
  BY DEF RelaysTold
<1> DEFINE stun == [urls |-> STUN_URLS, credential |-> FALSE]
           turn == [urls |-> turnUrls, credential |-> TRUE]
<1>2. turn.credential /\ ~stun.credential /\ turn.urls = turnUrls
  OBVIOUS
<1> HIDE DEF stun, turn
<1>3. CASE turnUrls = <<>>
  <2>1. offer.ice \in {<<stun>>, <<>>}
    BY <1>3, Joined DEF IceServers, stun
  <2>2. Relays = {}
    BY <1>2, <2>1 DEF Relays
  <2> QED
    BY <1>3, <2>2 DEF Offered
<1>4. CASE turnUrls # <<>>
  <2>1. offer.ice \in {<<stun>> \o <<turn>>, <<turn>>}
    BY <1>4, Joined DEF IceServers, stun, turn
  <2>2. \E i \in DOMAIN offer.ice : offer.ice[i] = turn
    BY <2>1, Joined
  <2>3. \A i \in DOMAIN offer.ice : offer.ice[i] \in {stun, turn}
    BY <2>1, Joined
  <2>4. \A i \in Relays : offer.ice[i] = turn
    BY <1>2, <2>3 DEF Relays
  <2>5. Relays # {}
    BY <1>2, <2>2 DEF Relays
  <2> QED
    BY <1>2, <2>4, <2>5 DEF Offered
<1> QED
  BY <1>3, <1>4

\* The lists of the pool, and what a request that reads one has found: it has
\* seen the flag of each server that was healthy all along or has yet to, and
\* what it has found healthy was so at some time.
PoolTypes ==
    /\ cur \in 1 .. MaxReloads + 1 /\ DOMAIN flags = Generations
    /\ \A g \in Generations : DOMAIN flags[g] \subseteq Urls
RequestTypes ==
    /\ env.turn \in TURN_URLS
    /\ DOMAIN offerReq = {"pc", "list", "unread", "healthy", "hint"}
    /\ offerReq.pc \in {"idle", "reading", "answered"}
HasRead ==
    LET up == Up(flags[offerReq.list])
    IN /\ offerReq.list \in 1 .. cur /\ offerReq.unread \subseteq DOMAIN flags[offerReq.list]
       /\ offerReq.healthy \subseteq Urls \cap seen
       /\ steady \subseteq up \cap (offerReq.healthy \cup offerReq.unread) /\ up \subseteq seen

OfferInv ==
    /\ PoolTypes /\ RequestTypes /\ OfferSound
    /\ offerReq.pc # "answered" => offer = NoOffer
    /\ offerReq.pc = "reading" => HasRead

\* An answer other than 200 offers nothing.
LEMMA NothingOffered == offer.status # 200 => OfferSound
BY DEF OfferSound

LEMMA AskKeeps ==
    ASSUME OfferInv, NEW region, NEW country, Ask(region, country) PROVE OfferInv'
<1> USE DEF OfferInv
<1>1. flags' = flags /\ cur' = cur /\ env' = env /\ PoolTypes'
  BY DEF Ask, poolVars, PoolTypes, Generations
<1>2. CASE env.secret
  <2>1. /\ offerReq' = [pc |-> "reading", list |-> cur, unread |-> DOMAIN flags[cur],
                        healthy |-> {}, hint |-> GeoHint(region, country)]
        /\ offer' = NoOffer /\ steady' = Up(flags[cur]) /\ seen' = Up(flags[cur])
    BY <1>2 DEF Ask
  <2>2. RequestTypes'
    BY <1>1, <2>1 DEF RequestTypes
  <2>3. HasRead'
    <3>1. offerReq'.list = cur /\ offerReq'.unread = DOMAIN flags[cur] /\ offerReq'.healthy = {}
      BY <2>1
    <3> QED
      BY <1>1, <2>1, <3>1 DEF HasRead, Up, PoolTypes
  <2>4. OfferSound'
    BY <2>1 DEF OfferSound, NoOffer
  <2> QED
    BY <1>1, <2>1, <2>2, <2>3, <2>4
<1>3. CASE ~env.secret
  <2>1. offerReq' = [NoRequest EXCEPT !.pc = "answered"]
        /\ offer' = [NoOffer EXCEPT !.status = 503]
    BY <1>3 DEF Ask
  <2>2. RequestTypes' /\ offerReq'.pc = "answered"
    BY <1>1, <2>1 DEF RequestTypes, NoRequest
  <2>3. OfferSound'
    BY <2>1 DEF OfferSound, NoOffer
  <2> QED
    BY <1>1, <2>2, <2>3
<1> QED
  BY <1>2, <1>3

LEMMA ReadFlagKeeps ==
    ASSUME OfferInv, NEW u, ReadFlag(u) PROVE OfferInv'
<1> USE DEF OfferInv
<1>1. /\ flags' = flags /\ cur' = cur /\ env' = env /\ offer' = offer
      /\ steady' = steady /\ seen' = seen /\ PoolTypes'
  BY DEF ReadFlag, poolVars, PoolTypes, Generations
<1>2. /\ offerReq.pc = "reading" /\ u \in offerReq.unread /\ HasRead
      /\ offerReq' = [offerReq EXCEPT
                        !.unread = @ \ {u},
                        !.healthy = IF flags[offerReq.list][u] THEN @ \cup {u} ELSE @]
  BY DEF ReadFlag
<1>3. /\ RequestTypes' /\ offerReq'.pc = "reading" /\ offerReq'.list = offerReq.list
      /\ offerReq'.unread = offerReq.unread \ {u}
      /\ offerReq'.healthy = IF flags[offerReq.list][u] THEN offerReq.healthy \cup {u}
                                                        ELSE offerReq.healthy
  BY <1>1, <1>2 DEF RequestTypes
<1>4. offerReq.list \in Generations /\ DOMAIN flags[offerReq.list] \subseteq Urls
  BY <1>2, ListsAssumption DEF HasRead, PoolTypes, Generations
<1>5. CASE flags[offerReq.list][u]
  <2>1. offerReq'.healthy = offerReq.healthy \cup {u}
    BY <1>3, <1>5
  <2>2. u \in Up(flags[offerReq.list])
    BY <1>2, <1>5 DEF HasRead, Up
  <2>3. HasRead'
    BY <1>1, <1>2, <1>3, <1>4, <2>1, <2>2 DEF HasRead
  <2>4. OfferSound'
    BY <1>1, <1>2 DEF OfferSound, NoOffer
  <2> QED
    BY <1>1, <1>2, <1>3, <2>3, <2>4
<1>6. CASE ~flags[offerReq.list][u]
  <2>1. offerReq'.healthy = offerReq.healthy
    BY <1>3, <1>6
  <2>2. u \notin Up(flags[offerReq.list])
    BY <1>6 DEF Up
  <2>3. HasRead'
    BY <1>1, <1>2, <1>3, <2>1, <2>2 DEF HasRead
  <2>4. OfferSound'
    BY <1>1, <1>2 DEF OfferSound, NoOffer
  <2> QED
    BY <1>1, <1>2, <1>3, <2>3, <2>4
<1> QED
  BY <1>5, <1>6

\* The answer, of what has been read.
LEMMA AnswerKeeps == ASSUME OfferInv, Answer200 PROVE OfferInv'
<1> USE DEF OfferInv
<1>1. /\ flags' = flags /\ cur' = cur /\ env' = env /\ steady' = steady /\ seen' = seen
      /\ PoolTypes'
  BY DEF Answer200, poolVars, PoolTypes, Generations
<1>2. /\ offerReq.pc = "reading" /\ offerReq.unread = {} /\ HasRead
      /\ offerReq' = [offerReq EXCEPT !.pc = "answered"]
      /\ offer' = [status |-> 200, ice |-> IceServers(TurnUrls, STUN_URLS),
                   policy |-> DecideIceTransportPolicy(TurnUrls = <<>>, offerReq.hint)]
  BY DEF Answer200
<1>3. RequestTypes' /\ offerReq'.pc = "answered" /\ offerReq'.hint = offerReq.hint
  BY <1>1, <1>2 DEF RequestTypes
<1>4. PICK urls : urls = TurnUrls
  OBVIOUS
<1>5. PICK hint : hint = offerReq.hint
  OBVIOUS
<1>6. Offered' = urls
  <2>1. offer'.ice = IceServers(urls, STUN_URLS)
    BY <1>2, <1>4
  <2>2. RelaysTold'
    BY OfferedUrls, PTL
  <2> QED
    BY <2>1, <2>2 DEF RelaysTold
<1>7. offer'.policy = "relay" => urls # <<>>
  BY <1>2, <1>4 DEF DecideIceTransportPolicy
<1>8. /\ offerReq.healthy \subseteq Urls \cap seen /\ steady \subseteq offerReq.healthy
  BY <1>2 DEF HasRead
<1>9. OfferSound'
  <2>1. CASE offerReq.healthy # {}
    <3>1. urls = OrderByGeo(offerReq.healthy, hint)
      BY <1>4, <1>5, <2>1 DEF TurnUrls
    <3>2. PICK servers \in SUBSET Urls : servers = offerReq.healthy
      BY <1>8
    <3>3. urls = OrderByGeo(servers, hint)
      BY <3>1, <3>2
    <3>4. /\ urls \in Seq(servers) /\ \A u \in servers : \E i \in DOMAIN urls : urls[i] = u
          /\ \A i, j \in DOMAIN urls : Near(urls[j], hint) /\ ~Near(urls[i], hint) => j < i
      BY <3>3, OrderLists
    <3>5. {urls[i] : i \in DOMAIN urls} = servers
      BY <3>4
    <3> QED
      BY <1>1, <1>3, <1>5, <1>6, <1>8, <2>1, <3>2, <3>4, <3>5 DEF OfferSound
  <2>2. CASE offerReq.healthy = {}
    <3>1. urls = env.turn /\ steady = {} /\ urls \in Seq(Seq(STRING))
      BY <1>4, <1>8, <2>2, ListsAssumption DEF TurnUrls, RequestTypes
    <3>2. urls # <<>> => {urls[i] : i \in DOMAIN urls} # {}
      <4>1. urls # <<>> => 1 \in DOMAIN urls
        BY <3>1
      <4> QED
        BY <4>1
    <3>3. steady' = {} /\ Offered' = env'.turn
      BY <1>1, <1>6, <3>1
    <3>4. offer'.policy = "relay" => {Offered'[i] : i \in DOMAIN Offered'} # {}
      BY <1>6, <1>7, <3>2
    <3> QED
      BY <3>3, <3>4 DEF OfferSound
  <2> QED
    BY <2>1, <2>2
<1> QED
  BY <1>1, <1>3, <1>9

\* The flags change, or a list comes behind the one that is read.
LEMMA PoolKeeps ==
    ASSUME OfferInv, offerReq.pc # "answered", PoolStep PROVE OfferInv'
<1> USE DEF OfferInv
<1>1. env' = env /\ offerReq' = offerReq /\ offer' = offer /\ offer = NoOffer
      /\ RequestTypes' /\ OfferSound'
  BY DEF PoolStep, RequestTypes, OfferSound, NoOffer
<1>2. /\ PoolTypes' /\ cur <= cur'
      /\ \A g \in 1 .. cur : DOMAIN flags'[g] = DOMAIN flags[g]
  <2>1. CASE \E g \in 1 .. cur, u \in Urls : Flip(g, u)
    <3>1. PICK g \in 1 .. cur, u \in Urls : Flip(g, u)
      BY <2>1
    <3>2. cur' = cur /\ DOMAIN flags' = DOMAIN flags
          /\ \A h \in Generations : DOMAIN flags'[h] = DOMAIN flags[h]
      BY <3>1 DEF Flip, PoolTypes
    <3> QED
      BY <3>2, ListsAssumption DEF PoolTypes, Generations
  <2>2. CASE \E cfg \in Configs : Install(cfg)
    <3>1. PICK cfg \in Configs : Install(cfg)
      BY <2>2
    <3>2. PICK fresh \in [cfg -> BOOLEAN] : flags' = [flags EXCEPT ![cur + 1] = fresh]
      BY <3>1 DEF Install
    <3>3. cur <= MaxReloads /\ cur' = cur + 1
      BY <3>1 DEF Install
    <3>4. cfg \subseteq Urls /\ DOMAIN fresh = cfg /\ DOMAIN flags' = DOMAIN flags
          /\ \A h \in Generations : flags'[h] = IF h = cur + 1 THEN fresh ELSE flags[h]
      BY <3>2, ListsAssumption DEF PoolTypes
    <3> QED
      BY <3>3, <3>4, ListsAssumption DEF PoolTypes, Generations
  <2> QED
    BY <2>1, <2>2 DEF PoolStep, PoolNext
<1>3. CASE offerReq.pc = "reading"
  <2>1. /\ steady' = steady \cap Up(flags'[offerReq.list])
        /\ seen' = seen \cup Up(flags'[offerReq.list])
    BY <1>3 DEF PoolStep
  <2>2. HasRead /\ cur \in Nat /\ cur' \in Nat
    BY <1>2, <1>3, ListsAssumption DEF PoolTypes
  <2>3. Up(flags[offerReq.list])' = Up(flags'[offerReq.list])
    BY <1>1 DEF Up
  <2>4. HasRead'
    BY <1>1, <1>2, <2>1, <2>2, <2>3 DEF HasRead
  <2> QED
    BY <1>1, <1>2, <2>4
<1> QED
  BY <1>1, <1>2, <1>3

\* A process begins with the list of its configuration and no request.
NewOffers ==
    /\ \E cfg \in SUBSET Urls : flags = [g \in Generations |-> IF g = 1 THEN [u \in cfg |-> TRUE]
                                                                       ELSE NoFlags]
    /\ cur = 1 /\ env.turn \in TURN_URLS /\ offerReq = NoRequest /\ offer = NoOffer

LEMMA NewOffersAreSound == NewOffers => OfferInv
<1> SUFFICES ASSUME NewOffers PROVE OfferInv
  OBVIOUS
<1>1. PoolTypes
  <2>1. PICK cfg \in SUBSET Urls :
          flags = [g \in Generations |-> IF g = 1 THEN [u \in cfg |-> TRUE] ELSE NoFlags]
    BY DEF NewOffers
  <2>2. DOMAIN NoFlags = {}
    BY DEF NoFlags
  <2>3. \A g \in Generations : DOMAIN flags[g] = IF g = 1 THEN cfg ELSE {}
    BY <2>1, <2>2
  <2> QED
    BY <2>1, <2>3, ListsAssumption DEF PoolTypes, NewOffers
<1> QED
  BY <1>1 DEF NewOffers, OfferInv, RequestTypes, NoRequest, OfferSound, NoOffer

LEMMA OfferInvNext == ASSUME OfferInv, [Next]_vars PROVE OfferInv'
<1>1. CASE UNCHANGED offerVars
  <2>1. Offered' = Offered
    BY <1>1 DEF offerVars, Offered, Relays
  <2>2. OfferSound'
    BY <1>1, <2>1 DEF offerVars, OfferInv, OfferSound
  <2>3. PoolTypes' /\ RequestTypes' /\ HasRead' = HasRead
    BY <1>1 DEF offerVars, poolVars, OfferInv, PoolTypes, RequestTypes, HasRead, Up
  <2> QED
    BY <1>1, <2>2, <2>3 DEF offerVars, OfferInv
<1>2. ASSUME NEW s \in Servers, Kill(s), s = Front PROVE OfferInv'
  <2>1. /\ flags' = [g \in Generations |->
                       IF g = 1 THEN [u \in DOMAIN flags[cur] |-> TRUE] ELSE NoFlags]
        /\ cur' = 1 /\ env' = env /\ offerReq' = NoRequest /\ offer' = NoOffer
    BY <1>2 DEF Kill, NewPool
  <2>2. DOMAIN flags[cur] \in SUBSET Urls /\ env.turn \in TURN_URLS
    BY ListsAssumption DEF OfferInv, PoolTypes, RequestTypes, Generations
  <2>3. PICK cfg \in SUBSET Urls : cfg = DOMAIN flags[cur]
    BY <2>2
  <2>4. NewOffers'
    BY <2>1, <2>2, <2>3 DEF NewOffers
  <2> QED
    BY <2>4, NewOffersAreSound, PTL
<1>3. CASE Offers
  BY <1>3, AskKeeps, ReadFlagKeeps, AnswerKeeps, PoolKeeps DEF Offers, OfferStep
<1> QED
  BY <1>1, <1>2, <1>3
     DEF Next, Boot, Kill, Time, Limited, Page, Events, Store, Outage, HangUp, memory, vars

\* router.rs: "we always degrade open rather than break": whatever probes and
\* reloads do while the flags are read, the offer is the servers that were
\* healthy, near ones first, or the static relays, and no relay is demanded
\* where none is offered.
THEOREM OffersAreSound == Spec => []OfferSound
<1>1. Init => OfferInv
  <2>1. Init => NewOffers
    BY ListsAssumption DEF Init, OfferInit, PoolInit, NewOffers
  <2> QED
    BY <2>1, NewOffersAreSound
<1>2. OfferInv /\ [Next]_vars => OfferInv'
  BY OfferInvNext
<1>3. OfferInv => OfferSound
  BY DEF OfferInv
<1>4. QED
  BY <1>1, <1>2, <1>3, PTL DEF Spec

=============================================================================
