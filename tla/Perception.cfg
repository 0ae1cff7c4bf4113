SPECIFICATION Spec
CONSTANTS
  a1 = a1
  a2 = a2
  c1 = c1
  NotANumber = NotANumber
  Nuts <- ThreeNuts
  Class <- Classes3
  Place <- Places
  Jitter <- Jitters
  Faint <- ThreeNuts
  ThresholdFiles <- Files
  Fallback_px = 30
  Num_capture_frames = 2
  Capture_timeout = 4
  Window = 1
  ColourLag = 0
  DepthLag = 0
  DepthMayStall = FALSE
  PixelRows <- Rows
  Min_depth_camera = 50
  Max_depth_camera = 1500
  CameraHeight = 400
  Depth_offset <- MinusFive
  Min_depth_base = 2
INVARIANTS ColourOfThisScene DepthOfThisScene OneObjectPerNut HolesAreNotNuts
PROPERTIES Answers
