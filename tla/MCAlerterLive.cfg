\* Two targets that share their key and their host, a deadlock counter each, and
\* a rule of either query; every channel set up.
SPECIFICATION FairSpec
CONSTANTS
  t1 = t1  t2 = t2
  Targets = {t1, t2}  Keys = {t1}
  Masked <- MCOneKey  HostOf <- MCHostOf  Hosts <- MCHosts
  Watched = {"repl_stopped", "conn_exhaustion", "deadlocks"}
  Cooldown = 2  Timeout = 1
  MaxDeadlocks = 1
  Setups <- MCFull
PROPERTY WebhookReminds
PROPERTY GrafanaReminds
