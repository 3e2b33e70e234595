----------------------------- MODULE PlannerMath -----------------------------
(***************************************************************************)
(* The planner's arithmetic: the memory a model needs (vram.ts), where it     *)
(* would run on a machine (hardware.ts, placement.ts), how well it meets       *)
(* requirements (rank.ts), which hardware to recommend for it (sizing.ts), and *)
(* what renting that hardware costs against an API (cost.ts).                 *)
(*                                                                          *)
(* The code computes with floating-point numbers.  Here parameters are tenths  *)
(* of a billion, memory is whole megabytes, contexts are thousands of tokens,  *)
(* money is cents, percentages are whole; what the code rounds for display is   *)
(* rounded in the same way, to tenths of a gigabyte.                          *)
(***************************************************************************)
EXTENDS Integers, Sequences, FiniteSets

CONSTANTS Gpus,     \* the cards of gpus.json, in the file's order
          Providers \* the providers of cloud-pricing.json, each a sequence of instances

\* An entry of gpus.json and one of cloud-pricing.json.
GpuEntry == [id : STRING, vendor : STRING, tier : STRING, vram : Nat, computeClass : STRING]
CloudInstance == [gpu : STRING, count : Nat, onDemand : Nat, reserved : Nat]

ASSUME GpusAssumption == Gpus \in Seq(GpuEntry)
ASSUME ProvidersAssumption == Providers \in Seq(Seq(CloudInstance))

Larger(a, b) == IF a >= b THEN a ELSE b
Ceiling(a, b) == (a + b - 1) \div b
Round(a, b) == (2 * a + b) \div (2 * b)
Total(s) == LET sum[i \in 0 .. Len(s)] == IF i = 0 THEN 0 ELSE sum[i - 1] + s[i] IN sum[Len(s)]
Tenths(mb) == Round(10 * mb, 1024)

\* Reductions that keep the first best index.
ArgMax(s) ==
    CHOOSE i \in 1 .. Len(s) :
        (\A j \in 1 .. Len(s) : s[i] >= s[j]) /\ \A j \in 1 .. i - 1 : s[i] > s[j]
ArgMin(s) == ArgMax([i \in 1 .. Len(s) |-> -s[i]])

\* The members of a finite set S in the order R, a set of pairs.
InOrder(S, R) ==
    [k \in 1 .. Cardinality(S) |-> CHOOSE x \in S : Cardinality({y \in S : <<y, x>> \in R}) = k - 1]

\* What filter leaves of s: the elements at the positions in S.
AtPositions(s, S) ==
    LET order == InOrder(S, {p \in {<<i, j>> : i, j \in S} : p[1] < p[2]})
    IN [k \in 1 .. Cardinality(S) |-> s[order[k]]]
-----------------------------------------------------------------------------
(* vram.ts *)

\* In tenths of a byte.
BytesPerParam(quant) ==
    CASE quant \in {"fp16", "bf16"} -> 20
      [] quant \in {"fp8", "q8"} -> 10
      [] quant = "q4" -> 5
      [] quant = "q3" -> 4

BytesPerKvElement(kv) == IF kv = "fp16" THEN 2 ELSE 1

IsEncoderOnly(type) == type \in {"embedding", "reranker"}

\* 10^7 bytes are 9537 thousandths of a megabyte.
ComputeVram(model, quant, kv, context, users) ==
    LET weights == (model.totalParams * BytesPerParam(quant) * 9537) \div 1000
        headDim == model.hiddenSize \div model.numAttentionHeads
        perToken == IF IsEncoderOnly(model.type) THEN 0
                    ELSE 2 * model.numLayers * model.numKvHeads * headDim * BytesPerKvElement(kv)
        cache == (perToken \div 1024) * context * users
        overhead == ((weights + cache) * 12) \div 100
    IN [weights |-> weights, kvCache |-> cache, total |-> weights + cache + overhead]

SmallestQuant(model) ==
    model.quantOptions[ArgMin([i \in 1 .. Len(model.quantOptions) |-> BytesPerParam(model.quantOptions[i])])]
-----------------------------------------------------------------------------
(* hardware.ts: a card without memory of its own does not count. *)

HardwareFromSnapshot(snap) ==
    [gpus |-> AtPositions(snap.gpus, {i \in 1 .. Len(snap.gpus) : snap.gpus[i].vram > 0}), ram |-> snap.ram]
-----------------------------------------------------------------------------
(* placement.ts *)

PER_GPU_OVERHEAD == 512
RAM_OS_RESERVE == 2048

Plan(mode, gpus, split, used) ==
    [mode |-> mode, gpuIndices |-> gpus, tensorSplit |-> split, used |-> used]

Caps(hw) == [i \in 1 .. Len(hw.gpus) |-> hw.gpus[i].vram]
Usable(hw) == [i \in 1 .. Len(hw.gpus) |-> Larger(0, hw.gpus[i].vram - PER_GPU_OVERHEAD)]
UsableRam(hw) == Larger(0, hw.ram - RAM_OS_RESERVE)
\* Mutant: the first card is taken for the largest.
BestCapFirst(hw) == IF hw.gpus = <<>> THEN 0 ELSE Caps(hw)[1]

BestCap(hw) == IF hw.gpus = <<>> THEN 0 ELSE Caps(hw)[ArgMax(Caps(hw))]

Aggregate(hw) == IF Len(hw.gpus) > 1 THEN Total(Usable(hw)) ELSE 0

\* Shares of the cards, in per cent.
Split(hw) ==
    [i \in 1 .. Len(hw.gpus) |->
        IF Aggregate(hw) = 0 THEN 0 ELSE Round(100 * Usable(hw)[i], Aggregate(hw))]

\* What decides is where the weights fit; the total only tells whether the
\* full context fits with them.
PlanPlacement(v, hw) ==
    LET best == BestCap(hw)
        index == [i \in 1 .. Len(hw.gpus) |-> hw.gpus[i].index]
    IN CASE hw.gpus # <<>> /\ v.weights <= best /\ v.total <= best ->
                Plan("single-gpu", <<index[ArgMax(Caps(hw))]>>, <<>>, v.total)
         [] hw.gpus # <<>> /\ v.weights <= best /\ v.total > best ->
                Plan("partial-offload", <<index[ArgMax(Caps(hw))]>>, <<>>, v.total)
         [] v.weights > best /\ Len(hw.gpus) > 1 /\ v.weights <= Aggregate(hw) ->
                Plan("multi-gpu", index, Split(hw), v.total)
         [] OTHER ->
                Plan(IF v.weights <= UsableRam(hw) THEN "cpu-only" ELSE "no-fit", <<>>, <<>>, v.total)

\* How far the largest pool of memory is from the weights, when nothing fits.
Shortfall(v, hw) ==
    LET gpus == IF Len(hw.gpus) > 1 THEN Total(Caps(hw)) ELSE BestCap(hw)
    IN v.weights - Larger(gpus, UsableRam(hw))

NoSplit == [mode |-> "auto", shares |-> <<>>, mainGpu |-> 0]

PlacementToServeSplit(plan) ==
    IF plan.mode # "multi-gpu" THEN NoSplit
    ELSE [mode |-> "layer", shares |-> plan.tensorSplit, mainGpu |-> plan.gpuIndices[ArgMax(plan.tensorSplit)]]
-----------------------------------------------------------------------------
(* rank.ts *)

InSizeRange(params, range) ==
    CASE range = "lt-4b" -> params < 40
      [] range = "4b-14b" -> params >= 40 /\ params < 140
      [] range = "14b-32b" -> params >= 140 /\ params < 320
      [] range = "32b-70b" -> params >= 320 /\ params < 700
      [] range = "gt-70b" -> params >= 700

\* Why a model is excluded: the hard filters it does not pass.
ExcludedBy(model, req) ==
    {why \in {"type", "license", "gated", "context", "structured", "multilingual", "size"} :
        \/ why = "type" /\ req.types # {} /\ model.type \notin req.types
        \/ why = "license" /\ req.commercialOk /\ model.license = "non-commercial"
        \/ why = "gated" /\ req.notGated /\ model.gated
        \/ why = "context" /\ req.context > model.maxContext
        \/ why = "structured" /\ req.needStructuredOutput /\ ~model.structuredOutput
        \/ why = "multilingual" /\ req.needMultilingual /\ ~model.multilingual
        \/ why = "size" /\ req.sizeRanges # {} /\ \A r \in req.sizeRanges : ~InSizeRange(model.params, r)}

Points(test, points) == IF test THEN points ELSE 0

\* In tenths of a point.  popularityRank is 0 for a model without one.
SoftScore(model, req) ==
    LET v == ComputeVram(model, SmallestQuant(model), req.kvElement, req.context, req.concurrency)
        room == model.maxContext
        want == Larger(req.context, 1)
    IN 500 + (CASE room >= 4 * want -> 120
                [] room < 4 * want /\ room >= 2 * want -> 80
                [] room < 2 * want /\ 4 * room >= 5 * want -> 40
                [] OTHER -> 0)
       + Points(model.structuredOutput, 40) + Points(model.multilingual, 20)
       + Points(model.longContextProven /\ req.context >= 32, 60)
       + (CASE model.license = "open" -> 80
            [] model.license = "community" /\ req.commercialOk -> 30
            [] OTHER -> 0)
       + Points(req.preferFamily = model.family, 100)
       - Points(req.sizeRanges = {} /\ model.params >= 700, 60)
       - Points(req.sizeRanges = {} /\ model.params <= 40, 20)
       - Points(Tenths(v.total) > 1600, 80) + Points(Tenths(v.total) <= 800, 40)
       + Points(model.popularityRank > 0, Larger(0, 60 - 3 * model.popularityRank))

Score(model, req) ==
    IF ExcludedBy(model, req) # {} THEN 0
    ELSE LET points == Round(Larger(0, SoftScore(model, req)), 10)
         IN IF points > 100 THEN 100 ELSE points

Popularity(model) == IF model.popularityRank = 0 THEN 99 ELSE model.popularityRank

\* What rankAll sorts a model by.
Verdict(model, req) ==
    [ok |-> ExcludedBy(model, req) = {}, score |-> Score(model, req), popularity |-> Popularity(model)]

\* Included before excluded, then by score, then by popularity.
RanksBefore(a, b) ==
    \/ a.ok /\ ~b.ok
    \/ (a.ok <=> b.ok) /\ a.score > b.score
    \/ (a.ok <=> b.ok) /\ a.score = b.score /\ a.popularity < b.popularity

\* Array.sort is stable: models that compare equal keep the catalog's order.
RankAll(req, models) ==
    LET verdict == [i \in 1 .. Len(models) |-> Verdict(models[i], req)]
        Before(i, j) == \/ RanksBefore(verdict[i], verdict[j])
                        \/ i < j /\ ~RanksBefore(verdict[j], verdict[i])
        order == InOrder(1 .. Len(models), {p \in {<<i, j>> : i, j \in 1 .. Len(models)} : Before(p[1], p[2])})
    IN [i \in 1 .. Len(models) |-> models[order[i]]]
-----------------------------------------------------------------------------
(* sizing.ts *)

CPU_VIABLE_LIMIT == 80 \* tenths of a gigabyte
CPU_CONFIG == [gpu |-> [vendor |-> "CPU", computeClass |-> "cpu"], count |-> 0, place |-> 0,
               total |-> 0, headroom |-> 0]
GPU_COUNT_OPTIONS == <<1, 2, 4, 8>>
HEADROOM(label) == CASE label = "minimum" -> 92 [] label = "recommended" -> 65 [] label = "high-end" -> 45

Allowed(gpu, count) == (gpu.tier = "consumer" => count = 1) /\ (gpu.tier = "workstation" => count <= 2)

\* Every configuration.  The code sorts them by their memory, those of equal
\* memory by the place at which they were generated; "first" means in that order.
ALL_CONFIGS ==
    {[gpu |-> Gpus[p[1]], count |-> GPU_COUNT_OPTIONS[p[2]], place |-> 4 * p[1] + p[2],
      total |-> Gpus[p[1]].vram * GPU_COUNT_OPTIONS[p[2]], headroom |-> 0] :
        p \in {q \in (1 .. Len(Gpus)) \X (1 .. Len(GPU_COUNT_OPTIONS)) :
                    Allowed(Gpus[q[1]], GPU_COUNT_OPTIONS[q[2]])}}

Sorted(c, d) == c.total < d.total \/ (c.total = d.total /\ c.place <= d.place)
FirstOf(configs) == CHOOSE c \in configs : \A d \in configs : Sorted(c, d)
LastOf(configs) == CHOOSE c \in configs : \A d \in configs : Sorted(d, c)

\* The room a configuration leaves; need is in tenths of a gigabyte.
Leaving(config, need) == [config EXCEPT !.headroom = 10 * config.total - need]

Fits(config, label, need) == 10 * need <= config.total * HEADROOM(label)
Fitting(configs, label, need) == {c \in configs : Fits(c, label, need)}
LargerThan(configs, config) == {c \in configs : c.total > config.total}

MinimumConfig(configs, need) ==
    LET fitting == Fitting(configs, "minimum", need)
    IN CASE need <= CPU_VIABLE_LIMIT -> CPU_CONFIG
         [] need > CPU_VIABLE_LIMIT /\ fitting # {} -> Leaving(FirstOf(fitting), need)
         [] OTHER -> LastOf(configs)

\* Mutant: a tier may repeat the one below it.
StepUpMaybe(configs, label, below, need) ==
    LET fitting == Fitting(configs, label, need)
    IN IF fitting # {} THEN Leaving(FirstOf(fitting), need) ELSE below

\* A tier above another: what its headroom asks for if that is larger, else the
\* next larger configuration, else what there is.
StepUp(configs, label, below, need) ==
    LET fitting == Fitting(configs, label, need)
        larger == LargerThan(configs, below)
    IN CASE fitting # {} /\ FirstOf(fitting).total > below.total -> Leaving(FirstOf(fitting), need)
         [] fitting # {} /\ FirstOf(fitting).total <= below.total /\ larger = {} -> Leaving(FirstOf(fitting), need)
         [] fitting = {} /\ larger = {} -> below
         [] OTHER -> Leaving(FirstOf(larger), need)

TierConfigs(configs, need) ==
    LET low == MinimumConfig(configs, need)
        mid == StepUp(configs, "recommended", low, need)
    IN [minimum |-> low, recommended |-> mid, highEnd |-> StepUp(configs, "high-end", mid, need)]

TTFT_BASE_MS(class) ==
    CASE class = "ada-consumer" -> 240
      [] class = "ampere-workstation" -> 200
      [] class \in {"blackwell-consumer", "ada-datacenter"} -> 180
      [] class = "ampere-datacenter" -> 90
      [] class = "hopper-datacenter" -> 60
      [] OTHER -> 200

EstimateTtftMs(gpu, model, quant, context) ==
    IF gpu.vendor = "CPU"
    THEN Round(1800 * Larger(35, model.params) * (IF context >= 32 THEN 15 ELSE 10), 700)
    ELSE LET ctxFactor == CASE context >= 64 -> 14 [] context \in 16 .. 63 -> 11 [] OTHER -> 10
             quantFactor == IF quant \in {"fp16", "bf16"} THEN 13 ELSE 10
         IN Round(TTFT_BASE_MS(gpu.computeClass) * Larger(70, model.params) * ctxFactor * quantFactor, 14000)

\* The users a configuration has memory for: what is left over, in caches of one.
EstimateConcurrency(config, model, quant, req, need) ==
    LET free == 10 * config.total - need
        perUser == Tenths(ComputeVram(model, quant, req.kvElement, req.context, 1).kvCache)
    IN CASE config.gpu.vendor = "CPU" -> 1
         [] config.gpu.vendor # "CPU" /\ (free <= 0 \/ perUser <= 0) -> req.concurrency
         [] OTHER -> req.concurrency + free \div perUser

RecommendedSystemRam(config) ==
    LET sizes == {32, 64, 128, 256, 384, 512, 1024, 2048}
        enough == {s \in sizes : s >= 2 * config.total}
    IN CASE config.gpu.vendor = "CPU" -> 16
         [] config.gpu.vendor # "CPU" /\ enough # {} -> CHOOSE s \in enough : \A t \in enough : s <= t
         [] OTHER -> 256 * Ceiling(2 * config.total, 256)

RecommendedCpuCores(label, config) ==
    CASE label = "minimum" -> 8 [] label = "recommended" -> 12 * config.count [] OTHER -> 16 * config.count

RecommendedDisk(label) ==
    CASE label = "minimum" -> 100 [] label = "recommended" -> 200 [] OTHER -> 500

NoteForTier(label, config, req, ttft, users) ==
    CASE config.gpu.vendor = "CPU" -> "runs on CPU"
      [] config.gpu.vendor # "CPU" /\ label = "minimum" ->
            CASE ttft > req.ttftMs -> "TTFT may miss"
              [] ttft <= req.ttftMs /\ users < req.concurrency -> "tight at peak"
              [] OTHER -> "just fits"
      [] config.gpu.vendor # "CPU" /\ label = "recommended" -> "meets your SLA"
      [] OTHER -> "absorbs peak load"

BuildTier(label, config, model, quant, req, need) ==
    LET ttft == EstimateTtftMs(config.gpu, model, quant, req.context)
        users == EstimateConcurrency(config, model, quant, req, need)
    IN [label |-> label, config |-> config,
        systemRam |-> RecommendedSystemRam(config), cpuCores |-> RecommendedCpuCores(label, config),
        disk |-> RecommendedDisk(label), expectedTtftMs |-> ttft, supportedConcurrency |-> users,
        note |-> NoteForTier(label, config, req, ttft, users)]

PickTiers(model, quant, req) ==
    LET need == Tenths(ComputeVram(model, quant, req.kvElement, req.context, req.concurrency).total)
        picked == TierConfigs(ALL_CONFIGS, need)
    IN <<BuildTier("minimum", picked.minimum, model, quant, req, need),
         BuildTier("recommended", picked.recommended, model, quant, req, need),
         BuildTier("high-end", picked.highEnd, model, quant, req, need)>>
-----------------------------------------------------------------------------
(* cost.ts *)

HoursPerMonth == 730  \* of USAGE_HOURS_PER_MONTH, what the pages use: 24x7
StorageMonthly == 40

\* FRONTIER_API_PER_M_TOKENS with REQUEST_TOKEN_PROFILE, in thousandths of a
\* dollar for a request a day over a month.
ApiPerDailyRequest == LET perRequest == (1000 * 5) \div 2 + 500 * 5 IN (30 * perRequest) \div 1000

GetGpu(id) == Gpus[CHOOSE i \in 1 .. Len(Gpus) : Gpus[i].id = id]
InstanceVram(inst) == GetGpu(inst.gpu).vram * inst.count

NoInstance == [reserved |-> -1]

\* The first of the cheapest on demand among a provider's instances that are large enough.
PickCloudInstance(required, provider) ==
    LET big == {i \in 1 .. Len(provider) : InstanceVram(provider[i]) >= required}
        Cheaper(i, j) == provider[i].onDemand < provider[j].onDemand
    IN IF big = {} THEN NoInstance
       ELSE provider[CHOOSE i \in big : \A j \in big : Cheaper(i, j) \/ (~Cheaper(j, i) /\ i <= j)]

CloudCost(inst) == Round(inst.reserved * HoursPerMonth, 100) + StorageMonthly

\* What the code compares: no provider at all costs nothing.
SelfHostVsApiBreakEven(required, requests) ==
    LET offers == {PickCloudInstance(required, Providers[p]) : p \in 1 .. Len(Providers)} \ {NoInstance}
        costs == {CloudCost(inst) : inst \in offers}
        selfHost == IF costs = {} THEN 0 ELSE CHOOSE c \in costs : \A d \in costs : c <= d
    IN [apiMonthly |-> Round(ApiPerDailyRequest * requests, 1000),
        selfHostMonthly |-> selfHost,
        breakEven |-> Ceiling(1000 * selfHost, ApiPerDailyRequest)]
=============================================================================
