\* Crashes, lost marks, false errors, and calls that outlive their time.
SPECIFICATION Spec
CONSTANTS
  keyed = keyed  keyless = keyless  draft = draft  w1 = w1  w2 = w2
  Threads = {keyed, keyless, draft}
  Keyless = {keyless}
  Drafts = {draft}
  Callers <- TwoCallers
  NoThread = NoThread
  FaultBound = 2
SYMMETRY Symmetry
INVARIANTS OneSenderAtATime NeverFalseSent NoSpuriousCopy
PROPERTY SentIsFinal
CHECK_DEADLOCK FALSE
