SPECIFICATION Spec
CONSTANTS
  None = None
  Tabs = {t1, t2}
  Widgets = {"network_bus", "container_table"}
  Presets <- MCPresets
  Customs = {c1, c2}
  Columns = {"name", "cpu"}
  DefaultColumns = {"name"}
  InitialWidgets = {"container_table"}
  FallbackWidgets = {"container_table"}
  MaxChanges = 3
  MaxFaults = 1
SYMMETRY MCSymmetry
INVARIANTS TypeOK StoredIsShown
PROPERTIES LostOnlyByStaleTabs
CHECK_DEADLOCK FALSE
