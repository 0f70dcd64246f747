------------------------------ MODULE Sampling ------------------------------
(***************************************************************************)
(* One poll of one server, as the order of the collectors in serve.go and  *)
(* poll in engine.go make it: every collector with plain gauges, and every *)
(* query of Evaluate, looks at the server at a moment of its own, and the  *)
(* server changes in between (src/internal/collector,                      *)
(* src/internal/alerter/evaluator.go).  A gauge is only ever set: what a   *)
(* query does not yield stays as it was.                                   *)
(*                                                                         *)
(* A server offers                                                         *)
(*   status   SHOW GLOBAL STATUS, as a function on the names it knows      *)
(*   numbers  the numeric global variables that have a gauge; switches,    *)
(*            those that are ON or something else                          *)
(*   rows     its replica status: io, sql, lag, read, exec, the numbers    *)
(*            with -1 for one that is missing or no number                 *)
(*   binlogs  its binary logs by size, in a sequence that is empty where   *)
(*            logging is off: <<sizes>>                                    *)
(*   gtids    gtid_executed and gtid_purged, as the source ids of their    *)
(*            intervals                                                    *)
(*   group    the number of its group members, and what it counts of them  *)
(*            if it is one, likewise <<[members, stats]>> or <<>>          *)
(*                                                                         *)
(* The gauges are those of one instance label, which no other target has.  *)
(***************************************************************************)
EXTENDS Integers, SequencesExt

CONSTANTS
  Servers,     \* [name -> state]: the states a server can be in
  MaxChanges,  \* bound: changes of the server
  MaxLosses    \* bound: queries that fail

ASSUME SamplingAssumption == MaxChanges \in Nat /\ MaxLosses \in Nat

\* The tables of gauges that show a status variable as it is.
StatusKeys ==
  [connections |-> {"Threads_connected", "Threads_running", "Threads_cached", "Max_used_connections",
                    "Connections", "Aborted_connects", "Aborted_clients"},
   queries |-> {"Queries", "Questions", "Slow_queries", "Select_full_join", "Sort_merge_passes",
                "Com_select", "Com_insert", "Com_update", "Com_delete"},
   innodb |-> {"pages_total", "pages_free", "pages_dirty", "pages_data", "bytes_data", "bytes_dirty",
               "row_lock_waits", "deadlocks", "history_list_length"},
   cache |-> {"Binlog_cache_use", "Binlog_cache_disk_use"}]

\* The global variables that have a gauge: those that are numbers, and switches.
VariableKeys ==
  [numbers |-> {"max_connections", "innodb_buffer_pool_size"},
   switches |-> {"read_only", "super_read_only", "gtid_mode"}]

StatusNames == UNION {StatusKeys[table] : table \in DOMAIN StatusKeys}
VariableNames == VariableKeys.numbers \cup VariableKeys.switches

\* The gauges of a member of a group, and those that the list of logs fills.
GroupKeys == {"gr_queue", "gr_conflicts", "gr_flow"}
LogKeys == {"binlog_count", "binlog_size"}

\* The gauges that are no variable of the server.
Derived == {"hit_ratio", "repl_lag", "repl_running", "repl_io", "repl_sql", "behind_bytes",
            "gtid_executed", "gtid_purged", "gr_members"} \cup LogKeys \cup GroupKeys

Gauges == StatusNames \cup VariableNames \cup Derived

\* What a server offers are numbers and lists.  A status variable has no name of
\* a global variable, and no more reads go to disk than are requested.
ASSUME ServersAssumption ==
  \A n \in DOMAIN Servers :
    LET s == Servers[n]
    IN  /\ \A k \in DOMAIN s.status : s.status[k] \in Nat
        /\ DOMAIN s.status \cap (VariableNames \cup Derived) = {}
        /\ {"reads", "read_requests"} \subseteq DOMAIN s.status =>
             s.status["reads"] <= s.status["read_requests"]
        /\ DOMAIN s.numbers \subseteq VariableKeys.numbers
        /\ \A v \in DOMAIN s.numbers : s.numbers[v] \in Nat
        /\ DOMAIN s.switches \subseteq VariableKeys.switches
        /\ s.rows # <<>> => /\ 1 \in DOMAIN s.rows /\ s.rows[1].lag \in Nat \cup {-1}
                            /\ s.rows[1].read \in Nat \cup {-1} /\ s.rows[1].exec \in Nat \cup {-1}
        /\ s.binlogs # <<>> => 1 \in DOMAIN s.binlogs /\ s.binlogs[1] \in Seq(Nat)
        /\ DOMAIN s.gtids = {"gtid_executed", "gtid_purged"}
        /\ \A g \in DOMAIN s.gtids : s.gtids[g] \in Seq(ToSet(s.gtids[g]))
        /\ s.group # <<>> => /\ 1 \in DOMAIN s.group
                             /\ s.group[1].members \in Nat
                             /\ LET stats == s.group[1].stats
                                IN  stats # <<>> => 1 \in DOMAIN stats /\ stats[1] \in [GroupKeys -> Nat]

VARIABLES
  server,    \* the server now
  step,      \* how far the poll is, in Steps
  gauges,    \* the gauges of this instance that exist
  cut,       \* history: those of LogKeys are of a list whose stream broke
  found,     \* the rules this poll's evaluation has fired
  held,      \* the status Evaluate holds while it reads the variables
  missed,    \* history: steps of this poll whose query failed
  seen,      \* history: what the server was during this poll,
  ever,      \*   and since the start
  changes, losses

vars == <<server, step, gauges, cut, found, held, missed, seen, ever, changes, losses>>

Steps == <<"connections", "replication", "innodb", "queries", "binlog_logs", "binlog_cache",
           "globalvars", "gtid", "group_members", "group_stats", "repl_rules", "status_rules", "vars_rules">>

Init ==
  /\ server \in DOMAIN Servers
  /\ step = 1 /\ gauges = <<>> /\ cut = FALSE /\ found = {} /\ held = <<>>
  /\ missed = {} /\ seen = {server} /\ ever = {server}
  /\ changes = 0 /\ losses = 0

(***************************************************************************)
(* What the collectors set.                                                *)
(***************************************************************************)
\* One gauge, and the gauges of new set over those of old.
Gauge(name, value) == [g \in {name} |-> value]
Over(new, old) == [g \in DOMAIN new \cup DOMAIN old |-> IF g \in DOMAIN new THEN new[g] ELSE old[g]]

\* Mutant: a variable that is missing is taken for zero, as a Go map gives it.
SetMissing(s, table) ==
  [k \in StatusKeys[table] |-> IF k \in DOMAIN s.status THEN s.status[k] ELSE 0]

SetStatus(s, table) == Restrict(s.status, StatusKeys[table] \cap DOMAIN s.status)

StatusOrZero(s, key) == IF key \in DOMAIN s.status THEN s.status[key] ELSE 0

\* Mutant: the quotient is taken the wrong way round.
SwappedRatio(s) ==
  LET reads == StatusOrZero(s, "reads")
      requests == StatusOrZero(s, "read_requests")
  IN  IF reads > 0 THEN Gauge("hit_ratio", 100 - (100 * requests) \div reads) ELSE <<>>

\* In percent; a missing or zero number of requests leaves it out.
HitRatio(s) ==
  LET reads == StatusOrZero(s, "reads")
      requests == StatusOrZero(s, "read_requests")
  IN  IF requests > 0 THEN Gauge("hit_ratio", (100 * (requests - reads)) \div requests) ELSE <<>>

BoolToFloat(b) == IF b THEN 1 ELSE 0

\* A server without a row is not a replica, and nothing is set.  The positions
\* may be of two files, and their difference negative.
Replication(s) ==
  IF s.rows = <<>> THEN <<>>
  ELSE LET r == s.rows[1]
           io == BoolToFloat(r.io = "Yes")
           sql == BoolToFloat(r.sql = "Yes")
       IN  [g \in {"repl_io", "repl_sql", "repl_running"}
                  \cup {h \in {"repl_lag"} : r.lag >= 0}
                  \cup {h \in {"behind_bytes"} : r.read >= 0 /\ r.exec >= 0} |->
              CASE g = "repl_lag"     -> r.lag
                [] g = "repl_io"      -> io
                [] g = "repl_sql"     -> sql
                [] g = "repl_running" -> BoolToFloat(io = 1 /\ sql = 1)
                [] OTHER              -> r.read - r.exec]

TotalSize(logs) == FoldLeft(LAMBDA sum, size : sum + size, 0, logs)
BinlogLogs(logs) ==
  [g \in LogKeys |-> IF g = "binlog_count" THEN Len(logs) ELSE TotalSize(logs)]

GlobalVars(s) == Over(s.numbers, [v \in DOMAIN s.switches |-> BoolToFloat(s.switches[v] = "ON")])

countGTIDSets(gtids) == Cardinality(ToSet(gtids))

\* An empty set is passed over.
GTID(s) ==
  [g \in {h \in {"gtid_executed", "gtid_purged"} : s.gtids[h] # <<>>} |-> countGTIDSets(s.gtids[g])]

\* A server that is no member has no row there.
GroupStats(s) ==
  IF s.group = <<>> \/ s.group[1].stats = <<>> THEN <<>> ELSE s.group[1].stats[1]

Sets(collector, s) ==
  CASE collector = "connections"   -> SetStatus(s, "connections")
    [] collector = "replication"   -> Replication(s)
    [] collector = "innodb"        -> Over(SetStatus(s, "innodb"), HitRatio(s))
    [] collector = "queries"       -> SetStatus(s, "queries")
    [] collector = "binlog_logs"   -> BinlogLogs(s.binlogs[1])
    [] collector = "binlog_cache"  -> SetStatus(s, "cache")
    [] collector = "globalvars"    -> GlobalVars(s)
    [] collector = "gtid"          -> GTID(s)
    [] collector = "group_members" -> Gauge("gr_members", s.group[1].members)
    [] OTHER                       -> GroupStats(s)

(***************************************************************************)
(* The rules; a ratio is compared by cross-multiplication.                 *)
(***************************************************************************)
ReplRules(s) ==
  IF s.rows = <<>> THEN {}
  ELSE {rule \in {"repl_stopped", "repl_lag"} :
          LET r == s.rows[1] IN
          IF rule = "repl_stopped" THEN r.io # "Yes" \/ r.sql # "Yes" ELSE r.lag > 30}

\* Mutant: the threshold itself counts as a breach.
LongHistory(length) == length >= 1000

HistoryTooLong(length) == length > 1000

StatusRules(status) ==
  LET has(key) == key \in DOMAIN status
  IN  {rule \in {"buffer_pool", "deadlocks", "history_list"} :
         CASE rule = "buffer_pool"  -> /\ has("pages_total") /\ has("pages_free")
                                       /\ status["pages_total"] > 0
                                       /\ 10 * status["pages_free"] < status["pages_total"]
           [] rule = "deadlocks"    -> has("deadlocks") /\ status["deadlocks"] > 0
           [] rule = "history_list" -> /\ has("history_list_length")
                                       /\ HistoryTooLong(status["history_list_length"])}

ConnRule(status, numbers) ==
  IF /\ "max_connections" \in DOMAIN numbers /\ numbers["max_connections"] > 0
     /\ "Threads_connected" \in DOMAIN status
     /\ 100 * status["Threads_connected"] > 80 * numbers["max_connections"]
  THEN {"conn_exhaustion"} ELSE {}

(***************************************************************************)
(* The steps of a poll, each one query.                                    *)
(***************************************************************************)
At(name) == step <= Len(Steps) /\ Steps[step] = name
Collecting == step < 11
Now == Servers[server]

Answered(n) == step' = step + n /\ UNCHANGED <<missed, losses>>
Lost(n) ==
  /\ losses < MaxLosses /\ losses' = losses + 1
  /\ missed' = missed \cup {Steps[i] : i \in step..(step + n - 1)} /\ step' = step + n

\* Two collectors ask for something a server may not have, and then ask again.
Guarding == At("binlog_logs") \/ At("group_members")
NotOffered == (At("binlog_logs") /\ Now.binlogs = <<>>) \/ (At("group_members") /\ Now.group = <<>>)

Collect ==
  /\ Collecting /\ ~NotOffered
  /\ Answered(1) /\ gauges' = Over(Sets(Steps[step], Now), gauges)
  /\ cut' = (cut /\ ~At("binlog_logs"))
  /\ UNCHANGED <<server, found, held, seen, ever, changes>>

\* Without its first answer such a collector does not get to its second query.
CollectFails ==
  /\ Collecting /\ Lost(IF Guarding THEN 2 ELSE 1)
  /\ UNCHANGED <<server, gauges, cut, found, held, seen, ever, changes>>

\* The stream of the binary logs breaks after n of them.  These are shown, and the
\* cache is asked about all the same; only then is the error looked at.
LogsBreak ==
  /\ At("binlog_logs") /\ ~NotOffered
  /\ \E n \in 0..Len(Now.binlogs[1]) :
       gauges' = Over(BinlogLogs(SubSeq(Now.binlogs[1], 1, n)), gauges)
  /\ Lost(1) /\ cut' = TRUE
  /\ UNCHANGED <<server, found, held, seen, ever, changes>>

\* Without binary logs, or a group, the query is an error, but no failure.
SkipCollector ==
  /\ NotOffered /\ Answered(2)
  /\ UNCHANGED <<server, gauges, cut, found, held, seen, ever, changes>>

EvaluateReplication ==
  /\ At("repl_rules")
  /\ \/ Answered(1) /\ found' = ReplRules(Now)
     \/ Lost(1) /\ UNCHANGED found
  /\ UNCHANGED <<server, gauges, cut, held, seen, ever, changes>>

\* Without a status there are no more rules.
EvaluateStatus ==
  /\ At("status_rules")
  /\ \/ Answered(1) /\ held' = <<Now.status>>
     \/ Lost(2) /\ UNCHANGED held
  /\ UNCHANGED <<server, gauges, cut, found, seen, ever, changes>>

\* The rules that need no variables are tried whether or not they were read, and
\* the one that does on the variables read before a stream broke.
EvaluateVars ==
  /\ At("vars_rules")
  /\ \/ Answered(1) /\ found' = found \cup StatusRules(held[1]) \cup ConnRule(held[1], Now.numbers)
     \/ /\ Lost(1)
        /\ \E read \in SUBSET DOMAIN Now.numbers :
             found' = found \cup StatusRules(held[1])
                            \cup ConnRule(held[1], Restrict(Now.numbers, read))
  /\ UNCHANGED <<server, gauges, cut, held, seen, ever, changes>>

NextPoll ==
  /\ step > Len(Steps) /\ step' = 1
  /\ found' = {} /\ held' = <<>> /\ missed' = {} /\ seen' = {server}
  /\ UNCHANGED <<server, gauges, cut, ever, changes, losses>>

Change ==
  /\ changes < MaxChanges /\ changes' = changes + 1
  /\ \E s \in DOMAIN Servers \ {server} :
       server' = s /\ seen' = seen \cup {s} /\ ever' = ever \cup {s}
  /\ UNCHANGED <<step, gauges, cut, found, held, missed, losses>>

Next ==
  \/ Collect \/ CollectFails \/ LogsBreak \/ SkipCollector
  \/ EvaluateReplication \/ EvaluateStatus \/ EvaluateVars
  \/ NextPoll \/ Change

Spec == Init /\ [][Next]_vars

(***************************************************************************)
(* Properties.                                                             *)
(***************************************************************************)
Rules == {"repl_stopped", "repl_lag", "buffer_pool", "deadlocks", "history_list", "conn_exhaustion"}

SamplingTypeOK ==
  /\ server \in DOMAIN Servers /\ step \in 1..(Len(Steps) + 1)
  /\ \A g \in DOMAIN gauges : gauges[g] \in Int
  /\ "hit_ratio" \in DOMAIN gauges => gauges["hit_ratio"] \in 0..100
  /\ cut \in BOOLEAN /\ found \subseteq Rules /\ Len(held) <= 1 /\ missed \subseteq ToSet(Steps)
  /\ server \in seen /\ seen \subseteq ever /\ ever \subseteq DOMAIN Servers
  /\ changes \in 0..MaxChanges /\ losses \in 0..MaxLosses

\* Which step sets a gauge, and the value a server has for it, if any.
OwnerOf(g) ==
  CASE g \in StatusKeys.connections \cup StatusKeys.queries ->
         IF g \in StatusKeys.queries THEN "queries" ELSE "connections"
    [] g \in StatusKeys.innodb \cup {"hit_ratio"}            -> "innodb"
    [] g \in StatusKeys.cache                                -> "binlog_cache"
    [] g \in LogKeys                                         -> "binlog_logs"
    [] g \in {"repl_lag", "repl_io", "repl_sql", "repl_running", "behind_bytes"} -> "replication"
    [] g \in {"gtid_executed", "gtid_purged"}                -> "gtid"
    [] g = "gr_members"                                      -> "group_members"
    [] g \in GroupKeys                                       -> "group_stats"
    [] OTHER                                                 -> "globalvars"

\* The part of a sequence the code looks at.
First(seq) == {seq[i] : i \in DOMAIN seq \cap {1}}

\* The hit ratio is the greatest number of percent that does not exceed it.
Offered(s, g) ==
  CASE g \in DOMAIN s.status   -> {s.status[g]}
    [] g \in DOMAIN s.numbers  -> {s.numbers[g]}
    [] g \in DOMAIN s.switches -> {IF s.switches[g] = "ON" THEN 1 ELSE 0}
    [] g = "repl_lag"          -> {r.lag : r \in First(s.rows)} \ {-1}
    [] g = "repl_running"      -> {IF {r.io, r.sql} = {"Yes"} THEN 1 ELSE 0 : r \in First(s.rows)}
    [] g = "repl_io"           -> {IF r.io = "Yes" THEN 1 ELSE 0 : r \in First(s.rows)}
    [] g = "repl_sql"          -> {IF r.sql = "Yes" THEN 1 ELSE 0 : r \in First(s.rows)}
    [] g = "behind_bytes"      -> {r.read - r.exec : r \in {q \in First(s.rows) :
                                                           -1 \notin {q.read, q.exec}}}
    [] g = "binlog_count"      -> {Len(logs) : logs \in First(s.binlogs)}
    [] g = "binlog_size"       -> {SumFunction(logs) : logs \in First(s.binlogs)}
    [] g \in DOMAIN s.gtids    -> {Cardinality(ToSet(s.gtids[g]))} \ {0}
    [] g = "gr_members"        -> {group.members : group \in First(s.group)}
    [] g \in GroupKeys         -> {stats[g] : stats \in
                                     UNION {First(group.stats) : group \in First(s.group)}}
    [] g = "hit_ratio" /\ StatusOrZero(s, "read_requests") > 0 ->
         LET requests == s.status["read_requests"]
             hits == requests - StatusOrZero(s, "reads")
         IN  {h \in 0..100 : h * requests <= 100 * hits /\ 100 * hits < (h + 1) * requests}
    [] OTHER                   -> {}

\* The cache of the binary logs is only asked about where there are some.
Asked(s, g) == g \in StatusKeys.cache => s.binlogs # <<>>

\* Constant, so that it is computed once.
Owner == [g \in Gauges |-> OwnerOf(g)]
Offers == [s \in DOMAIN Servers |-> [g \in Gauges |-> Offered(Servers[s], g)]]

OfferedBy(states, g) == UNION {Offers[s][g] : s \in states}

\* The lists of binary logs that a query for them may yield, to its end or not.
Parts(logs) == {SubSeq(logs, 1, n) : n \in 0..Len(logs)}
ListsOf(s) == IF cut THEN UNION {Parts(logs) : logs \in First(s.binlogs)} ELSE First(s.binlogs)

\* However the server changes between the queries of a poll, whichever of them
\* fail and whichever variables it lacks: no gauge shows a value the server never
\* had, but for the count and the size of the binary logs, which are of the first
\* logs of one list it had when the stream of the list broke, and of the whole
\* list when not.  And after the collectors a gauge shows a value the server had
\* during this poll, unless its query failed or the server had no such value at
\* some moment of it (or, for the cache of the binary logs, no logs).
StaleIsExplained ==
  /\ \A g \in DOMAIN gauges \ LogKeys : gauges[g] \in OfferedBy(ever, g)
  /\ DOMAIN gauges \cap LogKeys # {} =>
       \E s \in ever : \E logs \in ListsOf(Servers[s]) :
         /\ LogKeys \subseteq DOMAIN gauges
         /\ gauges["binlog_count"] = Len(logs) /\ gauges["binlog_size"] = SumFunction(logs)
  /\ ~Collecting => \A g \in Gauges :
       Owner[g] \notin missed /\ (\A s \in seen : Asked(Servers[s], g) /\ Offers[s][g] # {}) =>
         g \in DOMAIN gauges /\ gauges[g] \in OfferedBy(seen, g)

Above(g, bound) == g \in DOMAIN gauges /\ gauges[g] > bound
GaugeIs(g, value) == g \in DOMAIN gauges /\ gauges[g] = value

\* The rules as one would write them on the gauges.
GaugeRules ==
  {rule \in Rules :
     CASE rule = "repl_stopped"    -> GaugeIs("repl_running", 0)
       [] rule = "repl_lag"        -> Above("repl_lag", 30)
       [] rule = "deadlocks"       -> Above("deadlocks", 0)
       [] rule = "history_list"    -> Above("history_list_length", 1000)
       [] rule = "buffer_pool"     -> /\ Above("pages_total", 0) /\ "pages_free" \in DOMAIN gauges
                                      /\ 10 * gauges["pages_free"] < gauges["pages_total"]
       [] rule = "conn_exhaustion" -> /\ Above("max_connections", 0)
                                      /\ Above("Threads_connected", (8 * gauges["max_connections"]) \div 10)}

\* The gauges that GaugeRules looks at.
RuleGauges == {"repl_running", "repl_lag", "deadlocks", "history_list_length", "pages_total",
               "pages_free", "max_connections", "Threads_connected"}

\* Collectors and rules read the same variables in code of their own.  If the
\* server holds still for a poll and no query fails, the rules fired are those
\* the gauges themselves call for, unless one of the gauges the rules look at is
\* left over from a time when the server had a value for it.  If the query for
\* the variables fails, before or after some were read, only the rule on
\* connections may be missing.
AlertsMatchMetrics ==
  LET leftOver == \E g \in DOMAIN gauges \cap RuleGauges : Offers[server][g] = {}
  IN  step > Len(Steps) /\ seen = {server} /\ ~leftOver =>
        /\ missed = {} => found = GaugeRules
        /\ missed = {"vars_rules"} => found \in {GaugeRules, GaugeRules \ {"conn_exhaustion"}}
=============================================================================
