\* One pipeline, every configuration, any number of killed jobs.  One job may
\* lose a state write, before, between or after the files it concerns, or one
\* finished job may be retried.
SPECIFICATION Spec
CONSTANTS
  Subsystems = {"audition", "build", "security", "review", "publish", "release", "reconcile"}
  Absent = Absent
  NoFile = NoFile
  None = None
  ZeroDoc = FALSE
  Forge = "gitlab"
  Modes = {"image", "reconcile"}
  Builds = {"image", "nothing", "none"}
  Required = {{"security"}}
  MaxMishaps = 1
INVARIANT PipelineSafe
PROPERTIES BlockedNeverBuilt AlwaysNarrated
CHECK_DEADLOCK FALSE
