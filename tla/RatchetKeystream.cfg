\* Two Python holders and a Rust one, two bytes per epoch, three epochs.
CONSTANTS
  PyHolders = {alice, bob}
  RsHolders = {rust}
  EpochBytes = 2
  MaxEpoch = 2
  Nobody = Nobody
SPECIFICATION RatchetSpec
INVARIANTS
  RatchetTypeOK
  OnOneTape
  ForwardOnly
