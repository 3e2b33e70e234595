\* Two models, two views of the page.
CONSTANTS
  Model = {m1, m2}
  NoModel = NoModel
  MaxViews = 2
  MaxWorkers = 1
SPECIFICATION DeploySpec
PROPERTIES NeverStranded
CHECK_DEADLOCK FALSE
