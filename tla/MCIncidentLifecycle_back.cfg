SPECIFICATION Spec
CONSTANTS
  Incidents = {1}
  Findings = {f1}
  Calls = {c1, c2}
  Patches = {p1}
  MaxAttempts = 1
  NoIncident = NoIncident
  NoFinding = NoFinding
PROPERTIES
  NeverGoesBack
