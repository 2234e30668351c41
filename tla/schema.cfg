CONSTANTS
  Processes = {p1, p2}
  Nobody = Nobody
  Ids = {1, 2}
  Date <- Days
  Shapes <- FirstShapes
  Artifact <- Exported
  MaxStarts = 3
SYMMETRY ProcessSymmetry
SPECIFICATION SchemaSpec
INVARIANT PartsWhole MentionFresh
CHECK_DEADLOCK FALSE
