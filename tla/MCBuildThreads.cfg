SPECIFICATION Spec
CONSTANTS
  j1 = j1
  j2 = j2
  b1 = b1
  a1 = a1
  a2 = a2
  None = None
  Jobs = {j1, j2}
  Builders = {b1}
  Attempts = {a1, a2}
  Commanded = {j1, j2}
  PackagesOnly = {j2}
  TimeoutTicks = 1
 
PROPERTIES ImageOfCurrentAttempt
SYMMETRY Symmetry
