SPECIFICATION Spec
CONSTANTS
  Sigs = {0, 4, 9, 10, 18, 19}
  Handled = {4, 10}
  Masks <- MCMasks
  MaxNesting = 1
INVARIANTS
  NoFatalInUserMode
  StoppedDoesNotRun
  CarefulHandlersReturn

  
  
CHECK_DEADLOCK FALSE
