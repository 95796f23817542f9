---------------------------- MODULE RoutingProofs ----------------------------
(* Proofs about Routing: who may be planned on what, for every task type,    *)
(* every set of installed agents and every history of limits.                *)
EXTENDS Routing, TLAPS

-----------------------------------------------------------------------------
(* The invariant.  An agent with time left of its cooldown says that it is   *)
(* out, which the fallback looks at; only agents with limits are ever marked.*)

UsageFits ==
    /\ usage \in [Delegates -> [status : {"available", "exhausted"}, left : Nat]]
    /\ \A agent \in Delegates : usage[agent].left > 0 => usage[agent].status = "exhausted"

\* A step that was started is on an agent whose CLI is there.
WorkFits ==
    /\ work \in [Actors -> [phase : {"idle", "git", "running"}, provider : Agents \cup {NoProvider}]]
    /\ \A actor \in Actors : work[actor].phase # "idle" => work[actor].provider \in Agents

HooksFit == hooks \subseteq Delegates \X (Nat \ {0})

RouteInv == installed \subseteq Agents /\ UsageFits /\ WorkFits /\ HooksFit

LEMMA RouteInit == Init => RouteInv
BY InstallationsAssumption
   DEF Init, RouteInv, UsageFits, WorkFits, HooksFit, Fresh, Idle, Agents

LEMMA ChosenFits ==
  ASSUME RouteInv, NEW actor \in Actors, NEW provider, Chosen(actor, provider)
  PROVE  WorkFits'
<1>1. CASE Busy(provider) \/ provider \notin installed
  BY <1>1 DEF Chosen, RouteInv, WorkFits, Idle
<1>2. CASE provider \in Agents /\ work' = [work EXCEPT ![actor] = [phase |-> "git", provider |-> provider]]
  BY <1>2 DEF RouteInv, WorkFits
<1> QED
  BY <1>1, <1>2 DEF Chosen, RouteInv

LEMMA HookFits ==
  ASSUME RouteInv, Hook
  PROVE  UsageFits' /\ HooksFit'
<1>1. PICK told \in hooks : /\ usage' = Mark(usage, told[1], "exhausted", told[2])
                            /\ hooks' = hooks \ {told}
  BY DEF Hook
<1>2. told[1] \in Delegates /\ told[2] \in Nat \ {0}
  BY <1>1 DEF RouteInv, HooksFit
<1>3. usage' = [usage EXCEPT ![told[1]] = [status |-> "exhausted", left |-> told[2]]]
  BY <1>1 DEF Mark
<1>4. UsageFits'
  BY <1>2, <1>3 DEF RouteInv, UsageFits
<1> QED
  BY <1>1, <1>4 DEF RouteInv, HooksFit

LEMMA TickFits ==
  ASSUME RouteInv, Tick
  PROVE  UsageFits'
<1>1. usage' = [agent \in Delegates |->
                  [usage[agent] EXCEPT !.left = IF @ > 0 THEN @ - 1 ELSE 0]]
  BY DEF Tick
<1>2. ASSUME NEW agent \in Delegates
      PROVE  /\ usage'[agent] \in [status : {"available", "exhausted"}, left : Nat]
             /\ usage'[agent].left > 0 => usage'[agent].status = "exhausted"
  BY <1>1, <1>2 DEF RouteInv, UsageFits
<1> QED
  BY <1>1, <1>2 DEF UsageFits

LEMMA ExitFits ==
  ASSUME RouteInv, NEW actor \in Actors, Exit(actor)
  PROVE  WorkFits' /\ HooksFit'
<1>1. WorkFits'
  BY DEF Exit, RouteInv, WorkFits, Idle
<1>2. ASSUME NEW wait \in Limits(work[actor].provider),
             hooks' = hooks \cup {<<work[actor].provider, wait>>}
      PROVE  HooksFit'
  <2>1. work[actor].provider \in Agents
    BY DEF Exit, RouteInv, WorkFits
  <2>2. work[actor].provider \in Delegates /\ wait \in Nat \ {0}
    BY <1>2, <2>1, WaitsAssumption DEF Limits, Agents
  <2> QED
    BY <1>2, <2>2 DEF RouteInv, HooksFit
<1> QED
  BY <1>1, <1>2 DEF Exit, RouteInv, HooksFit

LEMMA RouteStep == RouteInv /\ [Next]_vars => RouteInv'
<1> SUFFICES ASSUME RouteInv, [Next]_vars PROVE RouteInv'
  OBVIOUS
<1> USE DEF RouteInv
<1>1. ASSUME NEW r \in Routings, SetRouting(r) PROVE RouteInv'
  BY <1>1 DEF SetRouting, UsageFits, WorkFits, HooksFit
<1>2. ASSUME NEW goal \in Goals, StartSequence(goal) PROVE RouteInv'
  BY <1>2 DEF StartSequence, UsageFits, WorkFits, HooksFit
<1>3. CASE SequenceStep
  BY <1>3, ChosenFits DEF SequenceStep, Actors, UsageFits, HooksFit
<1>4. CASE SkipStep
  BY <1>4 DEF SkipStep, UsageFits, WorkFits, HooksFit
<1>5. ASSUME NEW step \in Steps, UserStep(step) PROVE RouteInv'
  BY <1>5, ChosenFits DEF UserStep, Actors, UsageFits, HooksFit
<1>6. ASSUME NEW provider \in Providers, Reroute(provider) PROVE RouteInv'
  BY <1>6, ChosenFits DEF Reroute, Actors, UsageFits, HooksFit
<1>7. ASSUME NEW actor \in Actors, Spawn(actor) PROVE RouteInv'
  BY <1>7 DEF Spawn, Idle, UsageFits, WorkFits, HooksFit
<1>8. ASSUME NEW actor \in Actors, Exit(actor) PROVE RouteInv'
  BY <1>8, ExitFits DEF Exit, UsageFits
<1>9. CASE Hook
  BY <1>9, HookFits DEF Hook, WorkFits
<1>10. CASE Tick
  BY <1>10, TickFits DEF Tick, WorkFits, HooksFit
<1>11. CASE UNCHANGED vars
  BY <1>11 DEF vars, UsageFits, WorkFits, HooksFit
<1> QED
  BY <1>1, <1>2, <1>3, <1>4, <1>5, <1>6, <1>7, <1>8, <1>9, <1>10, <1>11 DEF Next

LEMMA RouteInvariance == Spec => []RouteInv
BY RouteInit, RouteStep, PTL DEF Spec

-----------------------------------------------------------------------------
(* The fallback chain.                                                       *)

Usable(agent, there, used) == EffectiveStatus(agent, there, used) = "available"

\* What the choice of Resolve comes to for the two agents with a chain of three.
LEMMA ResolveAlong ==
  ASSUME NEW there, NEW used, NEW first, NEW second, Chain(first) = <<first, second, "claude">>
  PROVE  Resolve(first, there, used) =
           IF Usable(first, there, used) THEN first
           ELSE IF Usable(second, there, used) THEN second ELSE "claude"
<1> DEFINE chain == <<first, second, "claude">>
           Works(i) == EffectiveStatus(chain[i], there, used) = "available"
           Taken(i) == Works(i) /\ \A j \in 1 .. i - 1 : ~Works(j)
           taken == CHOOSE i \in 1 .. 3 : Taken(i)
<1>1. Works(3) /\ (Works(1) <=> Usable(first, there, used))
        /\ (Works(2) <=> Usable(second, there, used))
  BY DEF EffectiveStatus, Usable
<1>2. Resolve(first, there, used) = chain[taken]
  <2>1. DOMAIN chain = 1 .. 3
    OBVIOUS
  <2> QED
    BY <2>1 DEF Resolve
<1>3. taken \in 1 .. 3 /\ Taken(taken)
  <2>1. \E i \in 1 .. 3 : Taken(i)
    <3>1. CASE Works(1)
      BY <3>1
    <3>2. CASE ~Works(1) /\ Works(2)
      <4>1. Taken(2)
        BY <3>2
      <4> QED
        BY <4>1
    <3>3. CASE ~Works(1) /\ ~Works(2)
      <4>1. Taken(3)
        BY <1>1, <3>3
      <4> QED
        BY <4>1
    <3> QED
      BY <3>1, <3>2, <3>3
  <2> HIDE DEF Taken
  <2> QED
    BY <2>1
<1>4. taken = IF Works(1) THEN 1 ELSE IF Works(2) THEN 2 ELSE 3
  BY <1>3
<1> HIDE DEF taken
<1> QED
  BY <1>1, <1>2, <1>4

LEMMA ResolveClaude ==
  ASSUME NEW preferred, Chain(preferred) = <<"claude">>, NEW there, NEW used
  PROVE  Resolve(preferred, there, used) = "claude"
<1> DEFINE Works(i) == EffectiveStatus(<<"claude">>[i], there, used) = "available"
           Taken(i) == Works(i) /\ \A j \in 1 .. i - 1 : ~Works(j)
           taken == CHOOSE i \in DOMAIN <<"claude">> : Taken(i)
<1>1. Taken(1) /\ DOMAIN <<"claude">> = {1}
  BY DEF EffectiveStatus
<1>2. Resolve(preferred, there, used) = <<"claude">>[taken]
  BY DEF Resolve
<1> HIDE DEF Taken
<1>3. taken = 1
  BY <1>1
<1> HIDE DEF taken
<1> QED
  BY <1>2, <1>3

\* Codex and Antigravity stand in for each other, Claude for both; nobody
\* stands in for Claude.
LEMMA Resolves ==
  ASSUME NEW there, NEW used
  PROVE  /\ Resolve("codex", there, used) =
              IF Usable("codex", there, used) THEN "codex"
              ELSE IF Usable("antigravity", there, used) THEN "antigravity" ELSE "claude"
         /\ Resolve("antigravity", there, used) =
              IF Usable("antigravity", there, used) THEN "antigravity"
              ELSE IF Usable("codex", there, used) THEN "codex" ELSE "claude"
         /\ \A agent : agent \notin Delegates => Resolve(agent, there, used) = "claude"
<1>1. \A agent : agent \notin Delegates => Chain(agent) = <<"claude">>
  BY DEF Chain, Delegates
<1>2. Chain("codex") = <<"codex", "antigravity", "claude">>
  BY DEF Chain
<1>3. Chain("antigravity") = <<"antigravity", "codex", "claude">>
  BY DEF Chain
<1> QED
  BY <1>1, <1>2, <1>3, ResolveAlong, ResolveClaude

-----------------------------------------------------------------------------
(* The plan of a stage.                                                      *)

\* The provider of a planned stage, by the agent of the stage.
ProviderOf(agent, there, used) ==
    IF agent = "omlx" THEN NoProvider ELSE Resolve(agent, there, used)

\* A stage goes to the agent its chain resolves to, degraded or not: what is
\* left over for the branch "degraded" was never resolved to.
LEMMA StagePlanned ==
  ASSUME NEW stage, NEW type, NEW there, NEW used
  PROVE  LET entry == DispatchStage(stage, type, there, used)
         IN  /\ ProviderFor(entry) = ProviderOf(stage.agent, there, used)
             /\ Default(entry.persona, stage.persona) = stage.persona
<1> DEFINE effective == Resolve(stage.agent, there, used)
           moved == IF effective = stage.agent THEN stage ELSE Stage(effective, NoPersona)
           entry == DispatchStage(stage, type, there, used)
<1>1. CASE stage.agent = "omlx"
  BY <1>1 DEF DispatchStage, ProviderFor, ProviderOf, Default
<1>2. CASE stage.agent # "omlx"
  <2>1. entry = ResolveStage(moved, type, there)
    BY <1>2 DEF DispatchStage
  <2>2. moved.agent = effective /\ moved.persona \in {stage.persona, NoPersona}
    BY DEF Stage
  <2>3. /\ entry.agent = moved.agent /\ entry.persona = moved.persona
        /\ entry.via = "degraded" => \/ moved.agent \notin {"codex", "antigravity", "claude"}
                                     \/ moved.agent \in {"codex", "antigravity"} \ there
    <3> HIDE DEF moved, entry
    <3>1. \A via, model :
            LET e == [agent |-> moved.agent, persona |-> moved.persona, via |-> via, model |-> model]
            IN  e.agent = moved.agent /\ e.persona = moved.persona /\ e.via = via
      OBVIOUS
    <3> QED
      BY <2>1, <3>1 DEF ResolveStage
  <2>4. effective \in {"codex", "antigravity", "claude"}
    BY <1>2, Resolves DEF Delegates
  <2>5. effective \in {"codex", "antigravity"} => effective \in there
    BY <1>2, Resolves DEF Delegates, Usable, EffectiveStatus
  <2>6. ProviderFor(entry) = effective
    BY <2>2, <2>3, <2>4, <2>5 DEF ProviderFor
  <2> QED
    BY <1>2, <2>2, <2>3, <2>6 DEF ProviderOf, Default
<1> QED
  BY <1>1, <1>2

LEMMA EntryPlanned ==
  ASSUME NEW route, NEW i \in DOMAIN route.stages, NEW there, NEW used
  PROVE  LET entry == Plan(route, there, used)[i]
         IN  /\ entry.provider = ProviderOf(route.stages[i].agent, there, used)
             /\ entry.persona = route.stages[i].persona
<1>1. Plan(route, there, used)[i] =
        LET entry == DispatchStage(route.stages[i], route.type, there, used)
        IN  [provider |-> ProviderFor(entry), model |-> entry.model, via |-> entry.via,
             persona |-> Default(entry.persona, route.stages[i].persona)]
  BY DEF Plan
<1> QED
  BY <1>1, StagePlanned

-----------------------------------------------------------------------------
(* The route table.                                                          *)

\* A stage that keeps the engineer's work with Claude.
EngineersStage(stage) == Implements(stage) => stage.agent = "claude"

LEMMA NoEngineer == NoPersona # "principal-engineer"
BY DEF NoPersona

\* Only Claude is an engineer, in every row of the table.
LEMMA RowEngineers ==
  ASSUME NEW type \in TaskTypes
  PROVE  RowOf(type).persona = "principal-engineer" =>
           RowOf(type).primary = "claude" /\ RowOf(type).decision # "CODEX_THEN_ANTIGRAVITY"
<1>1. RowOf(type) \in RouteRows
  BY DEF RowOf, TaskTypes
<1>2. \A row \in RouteRows : row.persona = "principal-engineer" =>
                                row.primary = "claude" /\ row.decision # "CODEX_THEN_ANTIGRAVITY"
  <2>1. \A d, a, p, types : /\ Row(d, a, p, types).persona = p /\ Row(d, a, p, types).primary = a
                            /\ Row(d, a, p, types).decision = d
    BY DEF Row
  <2> QED
    BY <2>1, NoEngineer DEF RouteRows
<1> QED
  BY <1>1, <1>2

\* ... and so in every list of stages that a row may lead to, with a monitor
\* or without.
LEMMA StagesEngineers ==
  ASSUME NEW decision, NEW primary, NEW persona,
         persona = "principal-engineer" =>
           primary = "claude" /\ decision # "CODEX_THEN_ANTIGRAVITY"
  PROVE  LET stages == Stages(decision, primary, persona)
             watched == Append(stages, Monitor)
         IN  /\ \A i \in DOMAIN stages : EngineersStage(stages[i])
             /\ \A i \in DOMAIN watched : EngineersStage(watched[i])
<1> DEFINE stages == Stages(decision, primary, persona)
           control == Stage("codex", Default(persona, "xcode-controller"))
           known == {Monitor, Stage(primary, persona),
                        Stage("claude", Default(persona, "principal-engineer")),
                        Stage("claude", "principal-engineer"),
                        Stage("codex", "qa-runner"), Stage("codex", "git-steward"),
                        Stage("codex", "research-synthesizer"),
                        Stage("antigravity", "simulator-qa-analyst"),
                        Stage("antigravity", "browser-qa-operator"),
                        Stage("antigravity", "frontend-visual-reviewer"),
                        Stage("antigravity", "web-researcher")}
<1>1. \A agent, other :
        (other = "principal-engineer" => agent = "claude") => EngineersStage(Stage(agent, other))
  BY DEF Stage, EngineersStage, Implements
<1>2. EngineersStage(Monitor)
  BY <1>1, NoEngineer DEF Monitor
<1> DEFINE possible == IF decision = "CODEX_THEN_ANTIGRAVITY" THEN known \cup {control} ELSE known
<1>3. decision = "CODEX_THEN_ANTIGRAVITY" => EngineersStage(control)
  BY <1>1 DEF Default
<1>4. \A stage \in possible : EngineersStage(stage)
  BY <1>1, <1>2, <1>3
<1>5. stages \in Seq(possible)
  <2>1. /\ \A a \in possible : <<a>> \in Seq(possible)
        /\ \A a, b \in possible : <<a, b>> \in Seq(possible)
        /\ \A a, b, c, d \in possible : <<a, b, c, d>> \in Seq(possible)
        /\ \A a, b, c, d, e \in possible : <<a, b, c, d, e>> \in Seq(possible)
    <3> HIDE DEF possible
    <3> QED
      OBVIOUS
  <2>2. known \subseteq possible /\ (decision = "CODEX_THEN_ANTIGRAVITY" => control \in possible)
    OBVIOUS
  <2>3. /\ {Monitor, Stage(primary, persona)} \subseteq possible
        /\ Stage("claude", Default(persona, "principal-engineer")) \in possible
        /\ Stage("claude", "principal-engineer") \in possible
        /\ \A other \in {"qa-runner", "git-steward", "research-synthesizer"} :
             Stage("codex", other) \in possible
        /\ \A other \in {"simulator-qa-analyst", "browser-qa-operator", "frontend-visual-reviewer",
                        "web-researcher"} : Stage("antigravity", other) \in possible
    BY <2>2
  <2> HIDE DEF possible
  <2> QED
    BY <2>1, <2>2, <2>3 DEF Stages
<1> HIDE DEF possible, stages
<1>6. \A i \in DOMAIN stages : EngineersStage(stages[i])
  BY <1>4, <1>5
<1>7. /\ DOMAIN Append(stages, Monitor) = 1 .. Len(stages) + 1
      /\ \A i \in 1 .. Len(stages) + 1 :
           Append(stages, Monitor)[i] = IF i = Len(stages) + 1 THEN Monitor ELSE stages[i]
  BY <1>5
<1>8. \A i \in DOMAIN Append(stages, Monitor) : EngineersStage(Append(stages, Monitor)[i])
  BY <1>2, <1>5, <1>6, <1>7
<1> QED
  BY <1>6, <1>8 DEF stages

LEMMA RouteEngineers ==
  ASSUME NEW route \in AllRoutes
  PROVE  \A i \in DOMAIN route.stages : EngineersStage(route.stages[i])
<1>1. PICK type \in TaskTypes, long \in BOOLEAN : route = Route(type, "explicit", long)
  BY DEF AllRoutes
<1> DEFINE row == RowOf(type)
<1>2. \E decision :
        LET stages == Stages(decision, row.primary, row.persona)
        IN  /\ row.persona = "principal-engineer" => decision # "CODEX_THEN_ANTIGRAVITY"
            /\ route.stages \in {stages, Append(stages, Monitor)}
  <2>1. \A d \in DOMAIN MonitorUpgrade : MonitorUpgrade[d] # "CODEX_THEN_ANTIGRAVITY"
    BY DEF MonitorUpgrade
  <2> QED
    BY <1>1, <2>1, RowEngineers DEF Route
<1> QED
  BY <1>2, RowEngineers, StagesEngineers

-----------------------------------------------------------------------------
(* The theorems.                                                             *)

\* Claude never loses an implementing stage and no other stage becomes one,
\* for every task type, every installation and every state of the limits.
THEOREM ImplementationStaysWithClaude == Spec => []ClaudeKeepsImplementation
<1>1. ClaudeKeepsImplementation
  <2> SUFFICES ASSUME NEW route \in AllRoutes, NEW i \in DOMAIN route.stages
               PROVE  LET entry == Plan(route, installed, usage)[i]
                      IN  Implements(route.stages[i]) \/ Implements(entry)
                            => entry.provider = "claude"
    BY DEF ClaudeKeepsImplementation
  <2>1. Implements(route.stages[i]) => route.stages[i].agent = "claude"
    BY RouteEngineers DEF EngineersStage
  <2>2. ProviderOf("claude", installed, usage) = "claude"
    BY Resolves DEF ProviderOf, Delegates
  <2> QED
    BY <2>1, <2>2, EntryPlanned DEF Implements
<1> QED
  BY <1>1, PTL

\* The advice of a health: a delegate only when Claude is red, and then one
\* that is not, if there is one.
LEMMA AdviceIsSound ==
  ASSUME NEW health \in [Providers -> {"green", "yellow", "red"}],
         health[Recommend(health, "balanced").selected] = "red"
  PROVE  \A p \in Providers : health[p] = "red"
<1> DEFINE used == [agent \in Delegates |->
                      IF agent # "omlx" /\ health[agent] = "red"
                      THEN [status |-> "exhausted", left |-> 1] ELSE Fresh[agent]]
           there == {"codex", "antigravity"}
<1>1. \A agent \in there : Usable(agent, there, used) <=> health[agent] # "red"
  BY DEF Usable, EffectiveStatus, Fresh, Delegates
<1>2. Resolve("codex", there, used) =
        IF health["codex"] # "red" THEN "codex"
        ELSE IF health["antigravity"] # "red" THEN "antigravity" ELSE "claude"
  <2> HIDE DEF used
  <2> QED
    BY <1>1, Resolves
<1>3. BestDelegate(health) = IF Resolve("codex", there, used) = "claude" THEN "codex"
                             ELSE Resolve("codex", there, used)
  BY DEF BestDelegate
<1>4. Recommend(health, "balanced").selected =
        IF health["claude"] = "red" THEN BestDelegate(health) ELSE "claude"
  BY DEF Recommend
<1> QED
  BY <1>2, <1>3, <1>4 DEF Providers, Agents, Delegates

\* A planned stage is never given to an agent that is missing or cooling down;
\* a delegated one comes to Claude only when Codex and Antigravity are both
\* out; and the advice names a red provider only when all of them are.
THEOREM ClaudeComesLast == Spec => []ClaudeIsLast
<1>1. RouteInv => ClaudeIsLast
  <2> SUFFICES ASSUME RouteInv PROVE ClaudeIsLast
    OBVIOUS
  <2>1. \A agent \in {"codex", "antigravity"} : Usable(agent, installed, usage) <=> ~Out(agent)
    BY DEF RouteInv, UsageFits, Usable, EffectiveStatus, Out, Delegates
  <2>2. ASSUME NEW route \in AllRoutes, NEW i \in DOMAIN route.stages
        PROVE  LET provider == Plan(route, installed, usage)[i].provider
               IN  /\ provider \in {"codex", "antigravity"} => ~Out(provider)
                   /\ (route.stages[i].agent \in {"codex", "antigravity"} /\ provider = "claude")
                          => Out("codex") /\ Out("antigravity")
    <3> DEFINE agent == route.stages[i].agent
    <3>1. Plan(route, installed, usage)[i].provider = ProviderOf(agent, installed, usage)
      BY EntryPlanned
    <3>2. CASE agent = "codex"
      BY <2>1, <3>1, <3>2, Resolves DEF ProviderOf
    <3>3. CASE agent = "antigravity"
      BY <2>1, <3>1, <3>3, Resolves DEF ProviderOf
    <3>4. CASE agent \notin {"codex", "antigravity"}
      BY <3>1, <3>4, Resolves DEF ProviderOf, Delegates, NoProvider
    <3> QED
      BY <3>2, <3>3, <3>4
  <2> QED
    BY <2>2, AdviceIsSound DEF ClaudeIsLast
<1> QED
  BY <1>1, RouteInvariance, PTL
=============================================================================
