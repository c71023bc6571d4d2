SPECIFICATION Spec
CONSTANTS
  j1 = j1
  b1 = b1
  a1 = a1
  a2 = a2
  None = None
  Jobs = {j1}
  Builders = {b1}
  Attempts = {a1, a2}
  Commanded = {}
  PackagesOnly = {}
  TimeoutTicks = 1
PROPERTIES StaleFailureIgnored
