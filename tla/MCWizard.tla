------------------------------ MODULE MCWizard -------------------------------
(* Four models, five machines and the price lists of the repository for TLC. *)
EXTENDS Wizard

MCModel(id, type, params, total, layers, kvHeads, hidden, heads, ctx, quants, files, licence, gated) ==
    [id |-> id, type |-> type, params |-> params, totalParams |-> total, numLayers |-> layers,
     numKvHeads |-> kvHeads, hiddenSize |-> hidden, numAttentionHeads |-> heads, maxContext |-> ctx,
     quantOptions |-> quants, ggufFiles |-> files, license |-> licence, gated |-> gated,
     structuredOutput |-> params > 100, multilingual |-> ~gated, longContextProven |-> gated,
     family |-> type, popularityRank |-> IF gated THEN 1 ELSE 0]

\* A small model, a large one, one of experts, and an embedding model without q4.
MCCatalog ==
    <<MCModel("small", "text-generation", 148, 148, 40, 8, 5120, 40, 128, <<"fp16", "q8", "q4">>, {"q8", "q4"}, "open", FALSE),
      MCModel("large", "text-generation", 706, 706, 80, 8, 8192, 64, 128, <<"fp16", "q8", "q4", "q3">>, {"q8", "q4"}, "community", TRUE),
      MCModel("experts", "text-generation", 370, 6710, 61, 128, 7168, 128, 128, <<"fp8", "q4">>, {"q4"}, "non-commercial", FALSE),
      MCModel("embedding", "embedding", 6, 6, 28, 8, 1024, 16, 32, <<"fp16", "q8">>, {"q8"}, "open", FALSE)>>

MCCards(sizes) == [i \in 1 .. Len(sizes) |-> [index |-> i - 1, vram |-> 1024 * sizes[i]]]
MCMachines ==
    {[gpus |-> MCCards(<<>>), ram |-> 16384],
     [gpus |-> MCCards(<<24>>), ram |-> 16384],
     [gpus |-> MCCards(<<8, 24>>), ram |-> 32768],
     [gpus |-> MCCards(<<24, 0, 12>>), ram |-> 65536],
     [gpus |-> MCCards(<<24, 80>>), ram |-> 524288]}

MCGpu(id, vendor, tier, vram, class) ==
    [id |-> id, vendor |-> vendor, tier |-> tier, vram |-> vram, computeClass |-> class]
MCGpus ==
    <<MCGpu("rtx-4070-ti-super-16", "NVIDIA", "consumer", 16, "ada-consumer"),
      MCGpu("rtx-4090-24", "NVIDIA", "consumer", 24, "ada-consumer"),
      MCGpu("rtx-5090-32", "NVIDIA", "consumer", 32, "blackwell-consumer"),
      MCGpu("a6000-48", "NVIDIA", "workstation", 48, "ampere-workstation"),
      MCGpu("l40s-48", "NVIDIA", "datacenter", 48, "ada-datacenter"),
      MCGpu("a100-80", "NVIDIA", "datacenter", 80, "ampere-datacenter"),
      MCGpu("h100-80", "NVIDIA", "datacenter", 80, "hopper-datacenter"),
      MCGpu("h200-141", "NVIDIA", "datacenter", 141, "hopper-datacenter")>>

MCInstance(gpu, count, onDemand, reserved) ==
    [gpu |-> gpu, count |-> count, onDemand |-> onDemand, reserved |-> reserved]
MCProviders ==
    <<<<MCInstance("l40s-48", 1, 186, 82), MCInstance("l40s-48", 4, 1049, 465),
        MCInstance("a100-80", 8, 4096, 2200), MCInstance("h100-80", 8, 9832, 5200)>>,
      <<MCInstance("a100-80", 1, 393, 210), MCInstance("a100-80", 8, 3148, 1690),
        MCInstance("h100-80", 8, 8474, 4500)>>,
      <<MCInstance("a100-80", 1, 367, 195), MCInstance("a100-80", 8, 3277, 1760),
        MCInstance("h100-80", 8, 9832, 5200)>>,
      <<MCInstance("a100-80", 1, 179, 140), MCInstance("a100-80", 8, 1432, 1150),
        MCInstance("h100-80", 1, 249, 200), MCInstance("h100-80", 8, 1992, 1600)>>,
      <<MCInstance("rtx-4090-24", 1, 69, 69), MCInstance("l40s-48", 1, 99, 85),
        MCInstance("a100-80", 1, 189, 150), MCInstance("h100-80", 1, 299, 245)>>>>

\* Two of the questions matter to what happens to earlier answers.
MCHelpChoice ==
    {[workload |-> "multilingual-docs", licensing |-> "product", users |-> 5, context |-> 32],
     [workload |-> "code", licensing |-> "internal", users |-> 200, context |-> 128]}
=============================================================================
