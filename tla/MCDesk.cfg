CONSTANTS
  Callers = {"c"}  Torques <- Requests  NaN = NaN  Peak = 8  FullScale = 32767
  EvdevSlots = {0, 1, 2}  Foreign = {0}  Budget = 5
  Wheels = {1, 2}  Classic = {2}  MaxKeys = 6  MaxPresses = 1  MaxPlugs = 1
  Width = 4  EffectSlots = 1  Forces = {0, 1}  Depth = 2  MaxCreates = 2  MaxAsks = 5
  MaxFaults = 1
  Features <- Table  Entities <- Parts  MaxEntities = 8
  Interfaces = {{1}, {16, 17}, {17, 18}}  Effects = {0, 6}  MaxLost = 2
  Rpms = {0, 1, 2}  Redlines = {0, 2}
  Attachable <- AnyWheel  Prefixes = {"p"}  Threads = {"t1", "t2"}  MaxClicks = 2
  Pids = {1, 2, 3}  Polls = 1  MaxProbes = 2  MaxStarts = 4
  Titles = {"rf2", "iracing", "assetto", "evo", "raceroom"}  MaxFrames = 5  Pace = 1
  Decay = 2  Major = 3  Steps <- TestRows  MaxRuns = 2
  Leds = 4  Swatches = 4  Cols = 2  Digits = 2  MaxOutside = 1
  Hundred = 5  RawMax = 12  IntMin = 2  IntMax = 9  IntStep = 3  Variants = 3
  TextLen = 2  NameSlots = 3
  LightSlots = {0, 1}  WindowClicks = 4  MaxTouches = 1
  CurveFull = 6  CurveHundred = 3  CurveStep = 1  MaxPoints = 4
  OldFile <- OldFiles  NewFile <- NewFiles  HandLines <- Lines
  MaxEdits = 2  MaxHand = 1  ProgramStarts = 2
  LAYOUTS <- Layouts  PRESETS <- Presets  SAMPLE <- Sample  NumDigits = 2
  OledText = 8  OledCount = 3  TypedKeys = {"x", " ", "9", "{"}  Texts <- FieldTexts
  ScreenLen = 3  ScreenKeys = 6  NSlots = 2  WorkerClicks = 3
SPECIFICATION Spec
INVARIANTS  SamplesTrue WheelFollowsHost ProbeHarmless PromptsAnswerable
  PageSettles   EditTakes SetupOfManagedWheel SweepFlagTruthful TestsEndQuiet
 
CHECK_DEADLOCK FALSE
