\* Two requests at a time, of two agents, over three challenges and tokens.
SPECIFICATION Spec
CONSTANTS
  ann = ann  bob = bob  key = key  c1 = c1  c2 = c2
  Agents = {ann, bob}
  Keys = {key}
  Counting = {key}
  Held <- MCHeld
  Nobody = Nobody
  Calls = {c1, c2}
  NonceBound = 3
  SignatureBound = 2
SYMMETRY Symmetry
INVARIANTS ProvenByStepUp
PROPERTIES AdmittedRightly SpentByOwner
CHECK_DEADLOCK FALSE
