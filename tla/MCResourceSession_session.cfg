\* Two windows, two resources, two activations and two idles; no symmetry,
\* since liveness is checked.
CONSTANTS
  w1 = w1
  w2 = w2
  Windows = {w1, w2}
  NumResources = 2
  MaxGeneration = 4
SPECIFICATION FairSpec
INVARIANTS
  ActiveIffActivated
  EveryLeaseHasAnOwner
PROPERTIES
  SupersededReleases
  ActivationConverges
