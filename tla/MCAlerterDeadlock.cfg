\* Is one deadlock alerted once?
SPECIFICATION Spec
CONSTANTS
  t1 = t1  t2 = t2
  Targets = {t1}  Keys = {t1}
  Masked <- MCMasked  HostOf <- MCHostOf  Hosts <- MCHosts
  Watched = {"deadlocks"}
  Cooldown = 2  Timeout = 1
  MaxDeadlocks = 2
  Setups <- MCFull
PROPERTY OneAlertPerDeadlock
