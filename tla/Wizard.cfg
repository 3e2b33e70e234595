\* Four models, five machines, a few positions of each control.
CONSTANTS
  Catalog <- MCCatalog
  Machines <- MCMachines
  Gpus <- MCGpus
  Providers <- MCProviders
  HelpChoice <- MCHelpChoice
  None = None
  TypeChoice = {"text-generation"}
  SizeChoice = {}
  ContextChoice = {4, 128}
  UserChoice = {200}
  TtftChoice = {}
  KvChoice = {}
  FamilyChoice = {}
  FlagChoice = {"notGated"}
  LayerChoice = {0}
SPECIFICATION Spec
INVARIANTS QuantOfModel HardwareHolds PlannerHolds
CHECK_DEADLOCK FALSE
