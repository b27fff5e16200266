SPECIFICATION Spec
CONSTANTS
  Snapshots = {"s", "t"}
  Contents = {"good", "bad"}
  Sound = {"good"}
  Validators = {"v", "w"}
  SnapshotAttempts = 3
  MaxFaults = 2
  Patches = {"p"}
  Sources = {"s"}
  Cleaners = {"c", "d"}
  LifecycleAttempts = 2
  MaxHolds = 1
  Times = {1, 2, 3}
  Exporters = {"x", "y"}
  MaxRecords = 2
CHECK_DEADLOCK FALSE
INVARIANTS HeadsAreSound DeletionIsClean ExportIsEvidence
PROPERTIES VerdictsStand ServicesFinish
