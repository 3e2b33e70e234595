------------------------------- MODULE Wizard --------------------------------
(***************************************************************************)
(* The wizard of the desktop: Plan, Hardware, Optimize and Deploy, over the   *)
(* store they share (App.tsx, planner/state.ts).  The pages keep no state of   *)
(* their own but the hardware they asked for when they were opened; what they  *)
(* show is computed from the store by PlannerMath.                            *)
(*                                                                          *)
(* The store outlives the choice it was made for: the requirements, the model  *)
(* and the options for the server are chosen on different pages, in any order  *)
(* and again, since the step rail leads to every page at any time.            *)
(***************************************************************************)
EXTENDS PlannerMath

CONSTANTS Catalog,      \* the models of the catalog, in its order
          Machines,     \* the machines the desktop may run on: cards and memory
          None,
          TypeChoice, SizeChoice, ContextChoice, UserChoice, TtftChoice, KvChoice,
          FamilyChoice, FlagChoice, LayerChoice, \* what the controls offer, of all they could
          HelpChoice    \* the combinations of answers of the Help dialog

Quants == {"fp16", "bf16", "fp8", "q8", "q4", "q3"}

ASSUME WizardAssumption == None \notin Machines

\* An entry of the catalog (types.ts).
ModelEntry ==
    [id : STRING, type : STRING, license : STRING, family : STRING,
     params : Nat, totalParams : Nat, numLayers : Nat, numKvHeads : Nat,
     hiddenSize : Nat, numAttentionHeads : Nat \ {0}, maxContext : Nat,
     quantOptions : Seq(Quants) \ {<<>>}, ggufFiles : SUBSET Quants,
     gated : BOOLEAN, structuredOutput : BOOLEAN, multilingual : BOOLEAN,
     longContextProven : BOOLEAN, popularityRank : Nat]

\* Each has an id of its own, by which findModel looks it up.
ASSUME CatalogAssumption ==
    /\ Catalog \in Seq(ModelEntry)
    /\ \A i, j \in 1 .. Len(Catalog) : Catalog[i].id = Catalog[j].id => i = j

\* A snapshot's card: its index and its memory.
Card == [index : Nat, vram : Nat]

ASSUME MachinesAssumption == Machines \subseteq [gpus : Seq(Card), ram : Nat]

\* What the controls offer is what they may set a requirement or option to.
ASSUME ControlsAssumption ==
    /\ ContextChoice \cup UserChoice \cup TtftChoice \cup LayerChoice \subseteq Nat
    /\ FlagChoice \subseteq {"commercialOk", "notGated", "needStructuredOutput", "needMultilingual"}
    /\ HelpChoice \subseteq [workload : STRING, licensing : STRING, users : Nat, context : Nat]

VARIABLES
    overlay,  \* the welcome screen: shown, waiting for the list of models, gone
    step,     \* None: the dashboard
    catalog,  \* whether the catalog has arrived
    req,      \* requirements
    selected, \* index of the selected model, 0 for none
    config,   \* serveConfig
    hw,       \* the hardware the open page knows, None until the snapshot is there
    machine   \* the machine (it does not change)

vars == <<overlay, step, catalog, req, selected, config, hw, machine>>

Step == {"plan", "hardware", "optimize", "deploy"}
Model == Catalog[selected]
Snapshot == HardwareFromSnapshot(machine)

DEFAULT_REQUIREMENTS ==
    [types |-> {"text-generation"}, context |-> 32, concurrency |-> 5, ttftMs |-> 300,
     kvElement |-> "fp16", commercialOk |-> TRUE, notGated |-> FALSE,
     needStructuredOutput |-> FALSE, needMultilingual |-> FALSE, sizeRanges |-> {}, preferFamily |-> None]

Init ==
    /\ overlay = "shown" /\ step = None /\ catalog = "loading"
    /\ req = DEFAULT_REQUIREMENTS /\ selected = 0
    /\ config = [quant |-> "q4", ctxSize |-> 4, nGpuLayers |-> 999, split |-> NoSplit]
    /\ hw = None /\ machine \in Machines

Families == {Catalog[i].family : i \in 1 .. Len(Catalog)}
-----------------------------------------------------------------------------
(* App.tsx *)

LoadCatalog ==
    /\ catalog = "loading"
    /\ catalog' \in {"loaded", "failed"}
    /\ UNCHANGED <<overlay, step, req, selected, config, hw, machine>>

\* Which page is on screen: an error of the catalog takes the place of all.
On(page) == overlay = "gone" /\ step = page /\ catalog # "failed"

DismissStart ==
    /\ overlay = "shown" /\ overlay' = "asked"
    /\ UNCHANGED <<step, catalog, req, selected, config, hw, machine>>

\* No model on disk, or no answer: the wizard opens at its first page.
StartAnswered(installed) ==
    /\ overlay = "asked" /\ overlay' = "gone"
    /\ step' = IF installed THEN step ELSE "plan"
    /\ hw' = IF installed THEN hw ELSE None
    /\ UNCHANGED <<catalog, req, selected, config, machine>>

\* A page that is opened asks for the hardware again.
SetStep(page) ==
    /\ overlay = "gone" /\ page # step
    /\ step = None => page = "plan"
    /\ step' = page /\ hw' = None
    /\ UNCHANGED <<overlay, catalog, req, selected, config, machine>>

SnapshotArrives ==
    /\ step \in {"plan", "optimize", "deploy"} /\ hw = None
    /\ hw' = Snapshot
    /\ UNCHANGED <<overlay, step, catalog, req, selected, config, machine>>

\* Mutant: the quantisation of the model before is kept.
QuantKept(model, quant) == quant

\* The effect that runs whenever the model or the quantisation has changed.
QuantFor(model, quant) ==
    IF \E i \in 1 .. Len(model.quantOptions) : model.quantOptions[i] = quant
    THEN quant ELSE SmallestQuant(model)
-----------------------------------------------------------------------------
(* PlanExplorer: FilterPanel, HelpMeChoose, ResultsList. *)

Toggle(set, x) == IF x \in set THEN set \ {x} ELSE set \cup {x}

\* What one control of the panel makes of the requirements.
FilterOffers ==
    {[req EXCEPT !.types = Toggle(@, t)] : t \in TypeChoice}
    \cup {[req EXCEPT !.sizeRanges = Toggle(@, s)] : s \in SizeChoice}
    \cup {[req EXCEPT !.context = c] : c \in ContextChoice}
    \cup {[req EXCEPT !.concurrency = n] : n \in UserChoice}
    \cup {[req EXCEPT !.ttftMs = t] : t \in TtftChoice}
    \cup {[req EXCEPT !.preferFamily = f] : f \in FamilyChoice}
    \cup {[req EXCEPT ![flag] = ~@] : flag \in FlagChoice}

FilterPanel ==
    /\ On("plan") /\ catalog = "loaded"
    /\ req' \in FilterOffers \ {req}
    /\ UNCHANGED <<overlay, step, catalog, selected, config, hw, machine>>

Reset ==
    /\ On("plan") /\ catalog = "loaded"
    /\ req' = DEFAULT_REQUIREMENTS /\ selected' = 0
    /\ UNCHANGED <<overlay, step, catalog, config, hw, machine>>

\* The patch of the answers is merged into the requirements: a field it does
\* not mention keeps what an earlier answer or filter has put there.
Apply(a) ==
    [req EXCEPT
        !.types = CASE a.workload = "reasoning" -> {"reasoning", "text-generation"}
                    [] a.workload = "code" -> {"code"}
                    [] OTHER -> {"text-generation"},
        !.needMultilingual = @ \/ a.workload = "multilingual-docs",
        !.commercialOk = (a.licensing = "product"),
        !.notGated = @ \/ a.licensing = "product",
        !.concurrency = a.users, !.context = a.context]

HelpMeChoose ==
    /\ On("plan") /\ catalog = "loaded"
    /\ \E a \in HelpChoice : req' = Apply(a)
    /\ UNCHANGED <<overlay, step, catalog, selected, config, hw, machine>>

Ranked == RankAll(req, Catalog)
Shown(rows) == AtPositions(rows, {i \in 1 .. Len(rows) : ExcludedBy(rows[i], req) = {}})
Included == Shown(Ranked)

\* The colour of a model's badge, best first; 0 while the hardware is unknown.
FitBadge(model, hardware) ==
    LET v == ComputeVram(model, SmallestQuant(model), req.kvElement, req.context, req.concurrency)
        plan == PlanPlacement(v, hardware)
    IN CASE plan.mode = "single-gpu" -> IF 10 * v.total > 7 * BestCap(hardware) THEN "tight fit" ELSE "runs"
         [] plan.mode = "multi-gpu" -> "runs across"
         [] plan.mode = "partial-offload" -> "trim context"
         [] plan.mode = "cpu-only" -> "mostly CPU"
         [] plan.mode = "no-fit" -> "needs more VRAM"

\* Only the rows of included models are buttons.
SelectModel(i) ==
    /\ On("plan") /\ catalog = "loaded" /\ ExcludedBy(Catalog[i], req) = {}
    /\ selected' = i
    /\ config' = [config EXCEPT !.quant = QuantFor(Catalog[i], @)]
    /\ UNCHANGED <<overlay, step, catalog, req, hw, machine>>

\* The dashboard's list of models on disk selects one, too, and opens the wizard.
ServeOther(i) ==
    /\ overlay = "gone" /\ step = None /\ catalog = "loaded"
    /\ selected' = i /\ step' = "plan" /\ hw' = None
    /\ config' = [config EXCEPT !.quant = QuantFor(Catalog[i], @)]
    /\ UNCHANGED <<overlay, catalog, req, machine>>

\* DetailPane leads on only once a model is selected; the step rail always does.
ContinueToHardware ==
    /\ On("plan") /\ catalog = "loaded" /\ selected # 0
    /\ step' = "hardware" /\ hw' = None
    /\ UNCHANGED <<overlay, catalog, req, selected, config, machine>>
-----------------------------------------------------------------------------
(* HardwareExplorer: WhatIfSliders, TierCards, BreakEvenCard. *)

Tiers == PickTiers(Model, SmallestQuant(Model), req)
MeetsSla(tier) == tier.expectedTtftMs <= req.ttftMs /\ tier.supportedConcurrency >= req.concurrency
BreakEven(tiers, requests) == SelfHostVsApiBreakEven(tiers[2].config.total, requests)
SelfHostWins(figures) == figures.apiMonthly >= figures.selfHostMonthly

WhatIfSliders ==
    /\ On("hardware") /\ selected # 0
    /\ req' \in ({[req EXCEPT !.concurrency = n] : n \in UserChoice}
                 \cup {[req EXCEPT !.context = c] : c \in ContextChoice \cap 4 .. 128}
                 \cup {[req EXCEPT !.kvElement = k] : k \in KvChoice}) \ {req}
    /\ UNCHANGED <<overlay, step, catalog, selected, config, hw, machine>>
-----------------------------------------------------------------------------
(* OptimizeExplorer: QuantCard, ContextCard, GpuPlacementCard. *)

\* Only quantisations with a file are offered, if the catalog lists files.
AvailableQuants(model) ==
    {q \in {model.quantOptions[i] : i \in 1 .. Len(model.quantOptions)} :
        model.ggufFiles = {} \/ q \in model.ggufFiles}

PickQuant(q) ==
    /\ On("optimize") /\ selected # 0 /\ q \in AvailableQuants(Model)
    /\ config' = [config EXCEPT !.quant = QuantFor(Model, q)]
    /\ UNCHANGED <<overlay, step, catalog, req, selected, hw, machine>>

PickContext(n) ==
    /\ On("optimize") /\ selected # 0 /\ n <= Model.maxContext
    /\ config' = [config EXCEPT !.ctxSize = n]
    /\ UNCHANGED <<overlay, step, catalog, req, selected, hw, machine>>

\* The memory for one user of the chosen context, as the server will have it.
ServedVram == ComputeVram(Model, config.quant, "fp16", config.ctxSize, 1)
AutoPlan == PlanPlacement(ServedVram, hw)

\* PlacementSummary tells it in a line, once there is a snapshot.
Summary ==
    CASE hw = None -> "detecting"
      [] hw # None /\ hw.gpus = <<>> -> "no GPU"
      [] OTHER -> AutoPlan.mode

OffloadControl(n) ==
    /\ On("optimize") /\ selected # 0
    /\ config' = [config EXCEPT !.nGpuLayers = n]
    /\ UNCHANGED <<overlay, step, catalog, req, selected, hw, machine>>

EvenSplit(n) == [i \in 1 .. n |-> Round(100, n)]

\* The shares in effect: those chosen, those of the plan, or even ones.
EffectiveShares ==
    CASE config.split # NoSplit -> config.split.shares
      [] config.split = NoSplit /\ AutoPlan.mode = "multi-gpu" -> AutoPlan.tensorSplit
      [] OTHER -> EvenSplit(Len(hw.gpus))

\* A mode of one's own freezes the shares of the moment; "auto" lets go of them.
SplitControl(mode) ==
    /\ On("optimize") /\ selected # 0 /\ hw # None /\ Len(hw.gpus) > 1
    /\ config' = [config EXCEPT !.split =
            IF mode = "auto" THEN NoSplit
            ELSE [mode |-> mode, shares |-> EffectiveShares,
                  mainGpu |-> IF @ # NoSplit THEN @.mainGpu ELSE hw.gpus[ArgMax(EffectiveShares)].index]]
    /\ UNCHANGED <<overlay, step, catalog, req, selected, hw, machine>>

ResetAuto ==
    /\ On("optimize") /\ selected # 0
    /\ config' = [config EXCEPT !.split = NoSplit, !.nGpuLayers = 999]
    /\ UNCHANGED <<overlay, step, catalog, req, selected, hw, machine>>
-----------------------------------------------------------------------------
(* DeployExplorer.buildServeOpts: what the server is started with.  The start  *)
(* may come before the snapshot, and is then without a split.                 *)

ServeSplit ==
    CASE config.split # NoSplit -> config.split
      [] config.split = NoSplit /\ hw = None -> NoSplit
      [] OTHER -> PlacementToServeSplit(AutoPlan)

ServeOpts == [model |-> selected, quant |-> config.quant, ctxSize |-> config.ctxSize,
              nGpuLayers |-> config.nGpuLayers, split |-> ServeSplit]
-----------------------------------------------------------------------------
Next ==
    \/ LoadCatalog \/ DismissStart \/ \E installed \in BOOLEAN : StartAnswered(installed)
    \/ \E page \in Step \cup {None} : SetStep(page)
    \/ SnapshotArrives
    \/ FilterPanel \/ Reset \/ HelpMeChoose
    \/ \E i \in 1 .. Len(Catalog) : SelectModel(i) \/ ServeOther(i)
    \/ ContinueToHardware \/ WhatIfSliders
    \/ \E q \in Quants : PickQuant(q)
    \/ \E n \in ContextChoice : PickContext(n)
    \/ \E n \in LayerChoice : OffloadControl(n)
    \/ \E mode \in {"auto", "layer", "row"} : SplitControl(mode)
    \/ ResetAuto

Spec == Init /\ [][Next]_vars
-----------------------------------------------------------------------------
SplitOptions == [mode : {"auto", "layer", "row"}, shares : Seq(0 .. 100), mainGpu : Nat]

ServeConfig == [quant : Quants, ctxSize : Nat, nGpuLayers : Nat, split : SplitOptions]

Requirements ==
    [types : SUBSET (TypeChoice \cup {"text-generation", "reasoning", "code"}),
     context : Nat, concurrency : Nat, ttftMs : Nat, kvElement : KvChoice \cup {"fp16"},
     commercialOk : BOOLEAN, notGated : BOOLEAN, needStructuredOutput : BOOLEAN,
     needMultilingual : BOOLEAN, sizeRanges : SUBSET SizeChoice, preferFamily : FamilyChoice \cup {None}]

TypeOK ==
    /\ overlay \in {"shown", "asked", "gone"} /\ step \in Step \cup {None}
    /\ catalog \in {"loading", "loaded", "failed"} /\ selected \in 0 .. Len(Catalog)
    /\ req \in Requirements
    /\ config \in ServeConfig
    /\ machine \in Machines /\ (hw = None \/ hw = Snapshot)

\* The quantisation the server would be started with is one the selected model
\* has, whatever was chosen for the model before it (App.tsx's effect).
QuantOfModel ==
    selected # 0 => \E i \in 1 .. Len(Model.quantOptions) : Model.quantOptions[i] = config.quant

\* The three recommendations get larger, and each holds the workload with the
\* room its tier promises if any configuration of the catalog does (pickTiers).
TiersHold(tiers) ==
    LET need == Tenths(ComputeVram(Model, SmallestQuant(Model), req.kvElement,
                                   req.context, req.concurrency).total)
    IN /\ \A t \in 1 .. 2 :
            \/ tiers[t].config.total < tiers[t + 1].config.total
            \/ LargerThan(ALL_CONFIGS, tiers[t].config) = {}
       /\ \A t \in 1 .. 3 :
            \/ tiers[t].config = CPU_CONFIG
            \/ Fitting(ALL_CONFIGS, tiers[t].label, need) # {} => Fits(tiers[t].config, tiers[t].label, need)

\* At the positions of the slider (hundreds) about the volume the card names,
\* hosting oneself wins just when that is reached; below it by four requests or
\* less the rounded figures may be equal (BreakEvenCard, cost.ts).
FiguresAgree(tiers) ==
    LET named == BreakEven(tiers, 5000).breakEven
        above == 100 * Ceiling(named, 100)
    IN /\ SelfHostWins(BreakEven(tiers, above))
       /\ above - 100 \in 0 .. named - 4 => ~SelfHostWins(BreakEven(tiers, above - 100))

\* The Hardware page's recommendations hold, and its card's two figures agree.
HardwareHolds ==
    step = "hardware" /\ selected # 0 => LET tiers == Tiers IN TiersHold(tiers) /\ FiguresAgree(tiers)

Covers(larger, smaller) ==
    /\ larger.ram >= smaller.ram
    /\ \E f \in [1 .. Len(smaller.gpus) -> 1 .. Len(larger.gpus)] :
          /\ \A i, j \in 1 .. Len(smaller.gpus) : f[i] = f[j] => i = j
          /\ \A i \in 1 .. Len(smaller.gpus) : larger.gpus[f[i]].vram >= smaller.gpus[i].vram

\* Where the model lives: on one card, on the cards in some way, in memory, nowhere.
Rung(badge) ==
    CASE badge \in {"runs", "tight fit"} -> 1
      [] badge \in {"runs across", "trim context"} -> 2
      [] badge = "mostly CPU" -> 3
      [] badge = "needs more VRAM" -> 4

\* No model is judged worse on a machine that has all that another has, and
\* more (the severity ladder of planPlacement).
UpgradeNeverHurts ==
    \A m \in {n \in Machines \ {machine} : Covers(n, machine)} : \A i \in 1 .. Len(Catalog) :
        Rung(FitBadge(Catalog[i], HardwareFromSnapshot(m))) <= Rung(FitBadge(Catalog[i], Snapshot))

\* The rows that can be selected are the included models, each once, the best
\* score first, and of equal ones the more popular (rankAll).
ListedRight(rows) ==
    /\ {rows[i] : i \in DOMAIN rows} = {m \in {Catalog[i] : i \in DOMAIN Catalog} : ExcludedBy(m, req) = {}}
    /\ \A i, j \in DOMAIN rows : i < j =>
          /\ rows[i] # rows[j] /\ Score(rows[i], req) >= Score(rows[j], req)
          /\ Score(rows[i], req) = Score(rows[j], req) => Popularity(rows[i]) <= Popularity(rows[j])
RankedRight == ListedRight(Included)

\* An automatic split gives no card more of the weights than it has room for,
\* but for the rounding of the shares (placementToServeSplit).
SplitFits ==
    config.split = NoSplit /\ ServeSplit # NoSplit =>
        /\ Len(ServeSplit.shares) = Len(hw.gpus)
        /\ \A i \in 1 .. Len(hw.gpus) :
              100 * Usable(hw)[i] >= (ServeSplit.shares[i] - 1) * ServedVram.weights

\* What the planner computes holds: the Plan page lists the right models in the
\* right order, its badges keep to the machine, and so does the server's split.
PlannerHolds ==
    /\ step = "plan" /\ catalog = "loaded" /\ hw = None => RankedRight
    /\ step = "plan" /\ catalog = "loaded" /\ hw # None => UpgradeNeverHurts
    /\ step = "deploy" /\ selected # 0 /\ hw # None => SplitFits
=============================================================================
