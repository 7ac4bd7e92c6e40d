SPECIFICATION FairSpec
CONSTANTS
  Kinds = {"dd", "g923"}
  Games = {"synth", "quiet", "native", "off"}
  Quiet = {"quiet"}
  Disabled = {"off"}
  Native = {"native"}
  Marked = {"native"}
  LedsOn = TRUE
  Lockable = TRUE
  Silence = 2
  Standby = 2
  Precedence = 1
  MaxGen = 1
  Retry = 1
  MaxDt = 1
  Faults = TRUE
INVARIANTS LeaseCoversFeeding LightsApart
PROPERTY SilenceReleasesWheel
