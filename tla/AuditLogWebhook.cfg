\* The webhook handler's own logger: its caller writes to the logged receipt.
SPECIFICATION Spec
CONSTANTS
  Writers = {webhook}
  Mutators = {webhook}
  Loops = {TRUE}
  MaxEntries = 3
INVARIANT VerifiesUntampered
CHECK_DEADLOCK FALSE
