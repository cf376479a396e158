\* Three start states, three commands, two steps of length six.
CONSTANTS
  H6 = 1
  PerM = 2
  PerIx = 1
  PerIy = 3
  PerIz = 1
  G = 5
  Controls <- MCControls
  Starts <- MCStarts
  Steps = 2
SPECIFICATION Spec
INVARIANTS IInv PayloadIsStage
PROPERTIES StepIsRungeKutta
CHECK_DEADLOCK FALSE
