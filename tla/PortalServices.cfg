CONSTANTS
  Tasks = {t1, t2}
  Starters = {b1}
SPECIFICATION Spec
SYMMETRY Symmetry
INVARIANTS HttpsFollowsPortal DnsFollowsPortal BeaconYields
