\* A run of up to two steps, a reload or activation and a changed package before or after it.
SPECIFICATION Spec
CONSTANTS
  Catalog <- SmallCatalog
  HighRisk = {"write_file"}
  Profiles <- SmallProfiles
  Configs <- SmallConfigs
  Packages <- TwoPackages
  SkillOf <- OneSkill
  MaxEdits = 1
  Limits = {0, 2}
  MaxRuns = 1
  MaxChanges = 1
INVARIANTS
  GateHolds
  StepsAreBounded
  TraceAgrees
  SurfaceIsRegistry
PROPERTY DisabledStaysDisabled
