SPECIFICATION Spec
CONSTANTS
  NClients = 2
  NPorts = 1
  TableSizes = {1, 2}
  Cap = 2
  MaxErrs = 1
PROPERTY ToTheRightClient


CHECK_DEADLOCK FALSE
