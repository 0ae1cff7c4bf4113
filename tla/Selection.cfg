SPECIFICATION SelectionSpec
CONSTANTS
  almond = almond
  cashew = cashew
  peanut = peanut
  NotANumber = NotANumber
  Priority <- Order
  Scenes <- SomeScenes
  OffsetFiles <- SomeFiles
  DefaultOffsets <- Defaults
  Box <- Workspace
  Conf_gate = 40
  Min_depth = 20
  Cluster_dist_threshold = 100
  Candidate_offset = 250
  Push_z_offset = 30
  Push_scale <- OneAndAHalf
  Pre_grasp_margin = 120
  Pre_grasp_min = 150
  Pre_grasp_max = 800
INVARIANTS PickableIffCounted RejectsDoNotMatter PushFrees GraspFits
