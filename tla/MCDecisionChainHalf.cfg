\* The claim that a persist that fails leaves no half state.
CONSTANTS
  boot = boot
  reboot = reboot
  second = second
  third = third
  guest = guest
  Jobs = {boot, reboot, second, third, guest}
  Bootstraps = {boot, reboot}
  Previous <- Lineage
  Seeded = Seeded
  Computed <- Days
  Nothing = Nothing
SPECIFICATION Spec
CHECK_DEADLOCK FALSE
INVARIANTS
  NoHalfState
