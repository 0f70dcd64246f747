\* Two targets that share a host, one replication and one status rule.
SPECIFICATION Spec
CONSTANTS
  t1 = t1  t2 = t2
  Targets = {t1, t2}  Keys = {t1, t2}
  Masked <- MCMasked  HostOf <- MCHostOf  Hosts <- MCHosts
  Watched = {"repl_lag", "history_list"}
  Cooldown = 3  Timeout = 1
  MaxDeadlocks = 0
  Setups <- MCSetups
INVARIANT TypeOK
INVARIANT RecordsArePosted
INVARIANT PostingBounded
PROPERTY WebhookSpacing
