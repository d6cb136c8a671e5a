------------------------------ MODULE MCServer ------------------------------
(* Instances of Server for TLC: the repository's four migrations, and       *)
(* releases whose texts use what the splitter knows.                        *)
EXTENDS Server, TLC

CONSTANTS s1, s2, i1, i2, i3, i4, c1, c2

Order == <<"001", "20260417", "20260418", "20260419">>
Seeds == {"001", "20260417"}
TagWords == {"body"}

CreateEvents == <<"create", " ", "call_events", " ", "'", "'">>
AddSource    == <<"alter", " ", "call_events", "\n", "source">>
IndexEvents  == <<"index", " ", "call_events">>
CreateTokens == <<"create", " ", "partner_tokens">>
IndexTokens  == <<"index", " ", "partner_tokens">>
CreateNodes  == <<"create", " ", "partner_nodes">>
IndexNodes   == <<"index", " ", "partner_nodes">>
AddVisitor   == <<"alter", " ", "call_events", " ", "visitor_id">>
IndexVisitor == <<"index", " ", "visitor_id">>

\* What a later release may add to its third migration.
Quoted   == <<"update", " ", "'", "a", ";", "'", "'", ";", "'", "\"", ";", "\"">>
Function == <<"do", " ", "$", "body", "$", ";", "$", "$", ";", "$", "body", "$">>
Plain    == <<"do", "$", "$", "'", ";", "$", "$">>
Price    == <<"update", " ", "$", "body", " ", "$">>

Does(needs, makes) == [needs |-> needs, makes |-> makes]
RepoEffects ==
    CreateEvents :> Does({}, {"call_events"})
    @@ AddSource :> Does({"call_events"}, {"source"})
    @@ IndexEvents :> Does({"call_events", "source"}, {"idx_events"})
    @@ CreateTokens :> Does({}, {"partner_tokens"})
    @@ IndexTokens :> Does({"partner_tokens"}, {"idx_tokens"})
    @@ CreateNodes :> Does({}, {"partner_nodes"})
    @@ IndexNodes :> Does({"partner_nodes"}, {"idx_nodes"})
    @@ AddVisitor :> Does({"call_events"}, {"visitor_id"})
    @@ IndexVisitor :> Does({"visitor_id"}, {"idx_visitor"})
    @@ Quoted :> Does({"partner_nodes"}, {"quoted"})
    @@ Function :> Does({"partner_nodes"}, {"function"})
    @@ Plain :> Does({}, {})
    @@ Price :> Does({}, {})

RepoObjects == {"call_events", "source", "idx_events", "partner_tokens", "idx_tokens",
                "partner_nodes", "idx_nodes", "visitor_id", "idx_visitor", "quoted", "function"}
RepoPurpose == "001" :> {"call_events", "source", "idx_events"}
               @@ "20260417" :> {"partner_tokens", "idx_tokens"}
               @@ "20260418" :> {"partner_nodes", "idx_nodes"}
               @@ "20260419" :> {"visitor_id", "idx_visitor"}
EventObjects == {"call_events", "source", "visitor_id"}

Line(words) == <<"-", "-", " ">> \o words \o <<"\n">>
Block(words) == <<"/", "*">> \o words \o <<"*", "/">>

\* The texts of the repository: a comment with quotes and a semicolon, and a
\* last statement with and without its semicolon.
RepoTexts ==
    "001" :> CreateEvents \o <<";", "\n">> \o AddSource \o <<";">> \o IndexEvents \o <<";">>
    @@ "20260417" :> Line(<<"value", "-", "at">>) \o CreateTokens \o <<";", "\n">> \o IndexTokens \o <<";">>
    @@ "20260418" :> CreateNodes \o <<";", "\n">> \o Line(<<"\"", "'", "30", "'", "\"", ";">>)
                       \o IndexNodes \o <<";">>
    @@ "20260419" :> Line(<<"=">>) \o <<"\n">> \o AddVisitor \o <<";", "\n">> \o IndexVisitor

Extended(more) == [RepoTexts EXCEPT !["20260418"] = @ \o more]
GoodTexts == {RepoTexts,
              Extended(Block(<<";", "*", "'">>) \o Quoted \o <<";", " ", ";">>),
              Extended(Function \o <<";">> \o Plain \o <<";">> \o Line(<<>>) \o Price)}
BadTexts == {Extended(Line(<<"$">>) \o <<"misspelt", ";">>)}
AllTexts == GoodTexts \cup BadTexts

\* A database of a release before the tracker, also one whose last migration
\* ended half way, and one that is up to date.
Old == {"call_events", "source", "idx_events", "partner_tokens", "idx_tokens"}
Provisioned == {[tracker |-> FALSE, recorded |-> {}, schema |-> Old],
                [tracker |-> TRUE, recorded |-> Seeds, schema |-> Old \cup {"partner_nodes"}],
                [tracker |-> TRUE, recorded |-> {Order[i] : i \in 1 .. 4},
                 schema |-> RepoObjects \ {"quoted", "function"}]}
WithFresh == Provisioned \cup {[tracker |-> FALSE, recorded |-> {}, schema |-> {}]}

Quotas == [e \in Endpoints |-> IF e = "turn-credentials" THEN 3 ELSE 4]
Sends(kind, from, until, faults) ==
    [kind |-> kind, from |-> from, until |-> until, faults |-> faults]
Nothing == {Sends("none", {}, 0, 1)}
\* Few addresses over some time, and many at once.
Everything == Nothing \cup {Sends("pages", {}, 0, 1),
                            Sends("join", {i1, i2}, 2, 0), Sends("join", IPs, 0, 0),
                            Sends("register", {i1, i2}, 3, 0), Sends("register", {i1, i2, i3}, 0, 0),
                            Sends("turn-credentials", {i1, i2}, 12, 0), Sends("event", {i1, i2}, 12, 1),
                            Sends("offers", {}, 0, 0)}

\* TURN_SERVERS: what is no triple, has no number, no region or no URL is
\* skipped; two servers have the same priority and one a region in capitals.
Lowered == [c \in {"r", "u", "d", "e", ":", " "} |-> c] @@ "R" :> "r" @@ "D" :> "d"
Numbers == <<"1">> :> 1 @@ <<"2">> :> 2
TurnServers == <<<<" ", "d", "e", ":", "2", ":", "u", ":", "d">>,
                 <<"r", "u">>, <<>>, <<"r", ":", "u">>, <<":", "1", ":", "u">>,
                 <<"r", ":", "r", ":", "u">>, <<"r", ":", "1", ":">>,
                 <<"R", "u", ":", "2", ":", "u", ":", "r", " ">>,
                 <<"d", ":", "1", ":", "u">>>>
ParsedServers == ParseTurnServers(TurnServers)

PoolCfg == <<"u", ":", "d">> :> [region |-> <<"d", "e">>, priority |-> 2, place |-> 1]
           @@ <<"u", ":", "r">> :> [region |-> <<"R", "u">>, priority |-> 2, place |-> 2]
           @@ <<"u">> :> [region |-> <<"d">>, priority |-> 1, place |-> 3]
PoolUrls == {<<"u", ":", "d">>, <<"u", ":", "r">>, <<"u">>}
PoolConfigs == {PoolUrls, {<<"u">>}}
StaticTurn == {<<<<"u", ":", "e">>>>, <<>>}
StaticStun == <<<<"e">>>>
ForceRelay == <<<<"r">>>>
Countries == {<<"R", "u">>, <<>>}

\* The constants of the run are what the parsers make of such an environment.
ASSUME EnvironmentAssumption ==
    /\ PoolUrls = {ParsedServers[i].url : i \in DOMAIN ParsedServers}
    /\ \A i \in DOMAIN ParsedServers :
         PoolCfg[ParsedServers[i].url] = [region |-> ParsedServers[i].region,
                                    priority |-> ParsedServers[i].priority, place |-> i]
    /\ StaticTurn = {Csv(<<<<" ", "u", ":", "e", " ">>, <<" ">>>>), Csv(<<<<>>>>)}
    /\ StaticStun = Csv(<<<<"e">>>>)
    /\ ForceRelay = CsvLower(<<<<"R">>, <<>>>>)

\* What the theorems suppose of releases and databases: only the empty database
\* is against it.  Whether the longer texts are in order depends on the
\* splitter, and is left to NoCrashLoop.
ASSUME HypothesesAssumption ==
    SplitsRight /\ InOrder(RepoTexts) /\ EventsMigrated
    /\ \A db \in WithFresh : Has(db) <=> db \in Provisioned

Symmetric == Permutations(Callers) \cup Permutations({i1, i2})
=============================================================================
