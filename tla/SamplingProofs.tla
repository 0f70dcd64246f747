--------------------------- MODULE SamplingProofs ---------------------------
(***************************************************************************)
(* What is proved of a poll on a server that changes meanwhile, for every  *)
(* set of states the server can be in: first, that what each collector     *)
(* sets is what the server offers, gauge by gauge; then the inductive      *)
(* invariant (SamplingInv), which says of every gauge, not only after the  *)
(* collectors but as soon as its own step is over, what it may show.       *)
(***************************************************************************)
EXTENDS Sampling, FoldProofs, SequenceTheorems

(***************************************************************************)
(* The loop over the binary logs adds their sizes up.                      *)
(***************************************************************************)
LEMMA LogsAddUp ==
  ASSUME NEW logs \in Seq(Nat)
  PROVE  TotalSize(logs) = SumFunction(logs) /\ TotalSize(logs) \in Nat
<1> DEFINE N == Len(logs)
           H == [i \in 1..N |-> [n \in Nat |-> n + logs[i]]]
           Eq(g) == g = [s \in SUBSET DOMAIN logs |->
                           IF s = {} THEN 0 ELSE g[s \ {Max(s)}] + logs[Max(s)]]
           it == CHOOSE g : Eq(g)
<1>1. N \in Nat /\ DOMAIN logs = 1..N /\ logs \in [1..N -> Nat]
  OBVIOUS
<1>2. H \in [1..N -> [Nat -> Nat]]
  BY <1>1
<1>3. \A s \in SUBSET (1..N) : s # {} => Max(s) \in 1..N
  BY <1>1, MaxIn
<1>4. \E g : Eq(g)
  <2>1. PICK g \in [SUBSET (1..N) -> Nat] : FoldsBy(g, N, 0, H)
    <3> HIDE DEF N, H
    <3>1. QED
      BY <1>1, <1>2, FoldExists
  <2>2. ASSUME NEW s \in SUBSET (1..N)
        PROVE  g[s] = IF s = {} THEN 0 ELSE g[s \ {Max(s)}] + logs[Max(s)]
    BY <1>3, <2>1 DEF FoldsBy
  <2>3. QED
    BY <1>1, <2>2
<1>5. Eq(it)
  <2> HIDE DEF Eq
  <2>1. QED
    BY <1>4, Zenon
<1>6. IsFold(it, N, Nat, 0, H)
  <2> HIDE DEF it
  <2>1. QED
    BY <1>1, <1>3, <1>5 DEF IsFold
<1>7. TotalSize(logs) = it[1..N]
  BY <1>1, Zenon DEF TotalSize, FoldLeft, MapThenFoldSet
<1>8. PICK v : IsChain(v, N, Nat, 0, H) /\ v[N] = it[1..N]
  <2> DEFINE A == Nat
             zero == 0
  <2>1. zero \in A /\ IsFold(it, N, A, zero, H) /\ H \in [1..N -> [A -> A]]
    BY <1>2, <1>6
  <2> HIDE DEF N, H, it, A, zero
  <2>2. \E v : IsChain(v, N, A, zero, H) /\ v[N] = it[1..N]
    BY <1>1, <2>1, FoldChain
  <2>3. QED
    BY <2>2 DEF A, zero
<1>9. v \in [0..N -> Nat] /\ v[0] = 0 /\ \A i \in 1..N : v[i] = logs[i] + v[i - 1]
  <2>1. ASSUME NEW i \in 1..N PROVE v[i] = logs[i] + v[i - 1]
    <3>1. i - 1 \in 0..N
      BY <1>1
    <3>2. v[i - 1] \in Nat /\ v[i] = H[i][v[i - 1]] /\ logs[i] \in Nat
      BY <1>1, <1>8, <3>1 DEF IsChain
    <3>3. v[i] = v[i - 1] + logs[i]
      BY <3>2
    <3> HIDE DEF H
    <3>4. QED
      BY <3>2, <3>3
  <2>2. QED
    BY <1>8, <2>1 DEF IsChain
<1>10. SumFunction(logs) = v[N]
  <2> HIDE DEF N
  <2>1. QED
    BY <1>1, <1>9, SumOfSeq
<1>11. v[N] \in Nat
  BY <1>1, <1>9
<1>12. QED
  BY <1>7, <1>8, <1>10, <1>11

(***************************************************************************)
(* What a server offers, by kind of gauge.                                 *)
(***************************************************************************)
LEMMA NamesDiffer ==
  /\ StatusNames = StatusKeys.connections \cup StatusKeys.queries \cup StatusKeys.innodb
                   \cup StatusKeys.cache
  /\ StatusNames \cap VariableNames = {} /\ StatusNames \cap Derived = {}
  /\ VariableNames \cap Derived = {} /\ VariableKeys.numbers \cap VariableKeys.switches = {}
<1>1. StatusNames = StatusKeys.connections \cup StatusKeys.queries \cup StatusKeys.innodb
                    \cup StatusKeys.cache
  BY DEF StatusNames, StatusKeys
<1>2. StatusNames \cap VariableNames = {}
  BY <1>1 DEF StatusKeys, VariableNames, VariableKeys
<1>3. StatusNames \cap Derived = {}
  BY <1>1 DEF StatusKeys, Derived, LogKeys, GroupKeys
<1>4. VariableNames \cap Derived = {} /\ VariableKeys.numbers \cap VariableKeys.switches = {}
  BY DEF VariableNames, VariableKeys, Derived, LogKeys, GroupKeys
<1>5. QED
  BY <1>1, <1>2, <1>3, <1>4

\* A variable is offered as it is, if the server has it.
LEMMA OffersVariable ==
  ASSUME NEW n \in DOMAIN Servers, NEW g
  PROVE  LET s == Servers[n] IN
         /\ g \in DOMAIN s.status => Offered(s, g) = {s.status[g]} /\ s.status[g] \in Nat
         /\ g \in DOMAIN s.numbers => /\ g \in VariableNames /\ s.numbers[g] \in Nat
                                      /\ Offered(s, g) = {s.numbers[g]}
         /\ g \in DOMAIN s.switches =>
              /\ g \in VariableNames /\ g \notin DOMAIN s.numbers
              /\ Offered(s, g) = {IF s.switches[g] = "ON" THEN 1 ELSE 0}
         /\ g \in StatusNames /\ g \notin DOMAIN s.status => Offered(s, g) = {}
         /\ g \in VariableNames /\ g \notin DOMAIN s.numbers \cup DOMAIN s.switches =>
              Offered(s, g) = {}
<1> DEFINE s == Servers[n]
<1>1. /\ \A k \in DOMAIN s.status : s.status[k] \in Nat
      /\ DOMAIN s.status \cap (VariableNames \cup Derived) = {}
      /\ DOMAIN s.numbers \subseteq VariableKeys.numbers
      /\ \A v \in DOMAIN s.numbers : s.numbers[v] \in Nat
      /\ DOMAIN s.switches \subseteq VariableKeys.switches
      /\ DOMAIN s.gtids = {"gtid_executed", "gtid_purged"}
  BY ServersAssumption
<1>2. VariableKeys.numbers \subseteq VariableNames /\ VariableKeys.switches \subseteq VariableNames
  BY DEF VariableNames
<1> HIDE DEF s
<1>3. CASE g \in DOMAIN s.status
  <2>1. g \notin DOMAIN s.numbers /\ g \notin DOMAIN s.switches /\ g \notin Derived
    BY <1>1, <1>2, <1>3
  <2>2. Offered(s, g) = {s.status[g]}
    BY <1>1, <1>3, <2>1 DEF Offered, Derived, LogKeys, GroupKeys
  <2>3. QED
    BY <1>1, <1>3, <2>1, <2>2 DEF s
<1>4. CASE g \in DOMAIN s.numbers
  <2>1. g \in VariableKeys.numbers /\ g \in VariableNames
    BY <1>1, <1>2, <1>4
  <2>2. /\ g \notin DOMAIN s.status /\ g \notin DOMAIN s.switches
        /\ g \notin StatusNames /\ g \notin Derived
    BY <1>1, <2>1, NamesDiffer
  <2>3. Offered(s, g) = {s.numbers[g]}
    BY <1>1, <1>4, <2>2 DEF Offered, Derived, LogKeys, GroupKeys
  <2>4. QED
    BY <1>1, <1>4, <2>1, <2>2, <2>3 DEF s
<1>5. CASE g \in DOMAIN s.switches
  <2>1. g \in VariableKeys.switches /\ g \in VariableNames
    BY <1>1, <1>2, <1>5
  <2>2. /\ g \notin DOMAIN s.status /\ g \notin DOMAIN s.numbers
        /\ g \notin StatusNames /\ g \notin Derived
    BY <1>1, <2>1, NamesDiffer
  <2>3. Offered(s, g) = {IF s.switches[g] = "ON" THEN 1 ELSE 0}
    BY <1>1, <1>5, <2>2 DEF Offered, Derived, LogKeys, GroupKeys
  <2>4. QED
    BY <1>5, <2>1, <2>2, <2>3 DEF s
<1>6. CASE g \in StatusNames \cup VariableNames
           /\ g \notin DOMAIN s.status \cup DOMAIN s.numbers \cup DOMAIN s.switches
  <2>1. g \notin Derived
    BY <1>6, NamesDiffer
  <2>2. Offered(s, g) = {}
    BY <1>1, <1>6, <2>1 DEF Offered, Derived, LogKeys, GroupKeys
  <2>3. QED
    BY <1>6, <2>2 DEF s
<1>7. QED
  BY <1>3, <1>4, <1>5, <1>6 DEF s

\* The first element of what is empty, or has one.
LEMMA FirstOf ==
  ASSUME NEW list, list # <<>> => 1 \in DOMAIN list
  PROVE  First(list) = IF list = <<>> THEN {} ELSE {list[1]}
BY DEF First

StatsOf(s) == UNION {First(group.stats) : group \in First(s.group)}

LEMMA OffersDerived ==
  ASSUME NEW n \in DOMAIN Servers, NEW g \in Derived
  PROVE  LET s == Servers[n] IN
         Offered(s, g) =
           CASE g = "repl_lag"     -> {r.lag : r \in First(s.rows)} \ {-1}
             [] g = "repl_running" -> {IF {r.io, r.sql} = {"Yes"} THEN 1 ELSE 0 : r \in First(s.rows)}
             [] g = "repl_io"      -> {IF r.io = "Yes" THEN 1 ELSE 0 : r \in First(s.rows)}
             [] g = "repl_sql"     -> {IF r.sql = "Yes" THEN 1 ELSE 0 : r \in First(s.rows)}
             [] g = "behind_bytes" ->
                  {r.read - r.exec : r \in {q \in First(s.rows) : -1 \notin {q.read, q.exec}}}
             [] g = "binlog_count" -> {Len(logs) : logs \in First(s.binlogs)}
             [] g = "binlog_size"  -> {SumFunction(logs) : logs \in First(s.binlogs)}
             [] g \in {"gtid_executed", "gtid_purged"} -> {Cardinality(ToSet(s.gtids[g]))} \ {0}
             [] g = "gr_members"   -> {group.members : group \in First(s.group)}
             [] g \in {"gr_queue", "gr_conflicts", "gr_flow"} -> {stats[g] : stats \in StatsOf(s)}
             [] g = "hit_ratio"    ->
                  LET requests == s.status["read_requests"]
                      hits == requests - StatusOrZero(s, "reads")
                  IN  IF StatusOrZero(s, "read_requests") > 0
                      THEN {h \in 0..100 : h * requests <= 100 * hits /\ 100 * hits < (h + 1) * requests}
                      ELSE {}
<1> DEFINE s == Servers[n]
<1>1. /\ g \notin DOMAIN s.status /\ g \notin DOMAIN s.numbers /\ g \notin DOMAIN s.switches
      /\ DOMAIN s.gtids = {"gtid_executed", "gtid_purged"}
  BY ServersAssumption, NamesDiffer DEF VariableNames
<1> HIDE DEF s
<1>2. QED
  BY <1>1 DEF Offered, Derived, LogKeys, GroupKeys, StatsOf, s

(***************************************************************************)
(* Which collector a gauge belongs to, and what the collectors set.        *)
(***************************************************************************)
LEMMA OwnersAre ==
  ASSUME NEW g \in Gauges
  PROVE  /\ OwnerOf(g) = "connections" => g \in StatusKeys.connections
         /\ OwnerOf(g) = "queries" => g \in StatusKeys.queries
         /\ OwnerOf(g) = "innodb" => g \in StatusKeys.innodb \cup {"hit_ratio"}
         /\ OwnerOf(g) = "binlog_cache" => g \in StatusKeys.cache
         /\ OwnerOf(g) = "binlog_logs" => g \in LogKeys
         /\ OwnerOf(g) = "replication" =>
              g \in {"repl_lag", "repl_io", "repl_sql", "repl_running", "behind_bytes"}
         /\ OwnerOf(g) = "gtid" => g \in {"gtid_executed", "gtid_purged"}
         /\ OwnerOf(g) = "group_members" => g = "gr_members"
         /\ OwnerOf(g) = "group_stats" => g \in GroupKeys
         /\ OwnerOf(g) = "globalvars" => g \in VariableNames
         /\ OwnerOf(g) \in {"connections", "queries", "innodb", "binlog_cache", "binlog_logs",
                            "replication", "gtid", "group_members", "group_stats", "globalvars"}
<1>1. g \in StatusNames \cup VariableNames \cup Derived
  BY DEF Gauges
<1>2. QED
  BY <1>1, NamesDiffer DEF OwnerOf, Derived, LogKeys, GroupKeys

LEMMA LogsOwned == \A g \in LogKeys : OwnerOf(g) = "binlog_logs"
<1> SUFFICES ASSUME NEW g \in LogKeys PROVE OwnerOf(g) = "binlog_logs"
  OBVIOUS
<1>1. g \notin StatusNames
  BY NamesDiffer DEF Derived
<1>2. QED
  BY <1>1, NamesDiffer DEF OwnerOf, LogKeys, GroupKeys

\* A collector sets gauges to what the server offers, and leaves out none of its
\* own that the server has.
Tells(collector, s) ==
  /\ \A g \in DOMAIN Sets(collector, s) : g \in Gauges /\ Sets(collector, s)[g] \in Offered(s, g)
  /\ \A g \in Gauges : OwnerOf(g) = collector /\ Asked(s, g) /\ Offered(s, g) # {} =>
                         g \in DOMAIN Sets(collector, s)

\* The four tables of status variables.
LEMMA StatusTells ==
  ASSUME NEW n \in DOMAIN Servers, NEW table \in DOMAIN StatusKeys
  PROVE  LET s == Servers[n] IN
         /\ \A g \in DOMAIN SetStatus(s, table) :
              g \in Gauges /\ SetStatus(s, table)[g] \in Offered(s, g)
         /\ \A g \in StatusKeys[table] : Offered(s, g) # {} => g \in DOMAIN SetStatus(s, table)
<1> DEFINE s == Servers[n]
           keys == StatusKeys[table]
<1>1. keys \subseteq StatusNames
  BY DEF StatusNames
<1>2. /\ DOMAIN SetStatus(s, table) = keys \cap DOMAIN s.status
      /\ \A g \in keys \cap DOMAIN s.status : SetStatus(s, table)[g] = s.status[g]
  BY DEF SetStatus, Restrict
<1> HIDE DEF s, keys
<1>3. ASSUME NEW g \in DOMAIN SetStatus(s, table)
      PROVE  g \in Gauges /\ SetStatus(s, table)[g] \in Offered(s, g)
  <2>1. g \in keys /\ g \in DOMAIN s.status /\ SetStatus(s, table)[g] = s.status[g]
    BY <1>2, <1>3
  <2>2. Offered(s, g) = {s.status[g]}
    BY <2>1, OffersVariable DEF s
  <2>3. QED
    BY <1>1, <2>1, <2>2 DEF Gauges
<1>4. ASSUME NEW g \in keys, Offered(s, g) # {} PROVE g \in DOMAIN SetStatus(s, table)
  BY <1>1, <1>2, <1>4, OffersVariable DEF s
<1>5. QED
  BY <1>3, <1>4 DEF s, keys

\* The quotient is the percentage that the hit ratio is defined by.
LEMMA Percent ==
  ASSUME NEW r \in Nat, NEW q \in Nat, r <= q, q > 0
  PROVE  LET h == (100 * (q - r)) \div q
         IN  h \in 0..100 /\ h * q <= 100 * (q - r) /\ 100 * (q - r) < (h + 1) * q
OBVIOUS

LEMMA RatioTells ==
  ASSUME NEW n \in DOMAIN Servers
  PROVE  LET s == Servers[n] IN
         /\ \A g \in DOMAIN HitRatio(s) : g = "hit_ratio" /\ HitRatio(s)[g] \in Offered(s, g)
         /\ Offered(s, "hit_ratio") # {} => "hit_ratio" \in DOMAIN HitRatio(s)
<1> DEFINE s == Servers[n]
           r == StatusOrZero(s, "reads")
           q == StatusOrZero(s, "read_requests")
<1>1. r \in Nat /\ q \in Nat /\ (q > 0 => r <= q /\ q = s.status["read_requests"])
  BY ServersAssumption DEF StatusOrZero
<1>2. "hit_ratio" \in Derived
  BY DEF Derived
<1>3. CASE q > 0
  <2> DEFINE h == (100 * (q - r)) \div q
  <2>1. DOMAIN HitRatio(s) = {"hit_ratio"} /\ HitRatio(s)["hit_ratio"] = h
    BY <1>3 DEF HitRatio, Gauge
  <2>2. Offered(s, "hit_ratio") = {x \in 0..100 : x * q <= 100 * (q - r) /\ 100 * (q - r) < (x + 1) * q}
    BY <1>1, <1>2, <1>3, OffersDerived
  <2>3. h \in 0..100 /\ h * q <= 100 * (q - r) /\ 100 * (q - r) < (h + 1) * q
    <3> HIDE DEF r, q
    <3>1. QED
      BY <1>1, <1>3, Percent
  <2> HIDE DEF h, r, q, s
  <2>4. HitRatio(s)["hit_ratio"] \in Offered(s, "hit_ratio")
    BY <2>1, <2>2, <2>3
  <2>5. QED
    BY <2>1, <2>4 DEF s
<1>4. CASE ~(q > 0)
  <2>1. HitRatio(s) = <<>>
    BY <1>4 DEF HitRatio
  <2>2. Offered(s, "hit_ratio") = {}
    BY <1>2, <1>4, OffersDerived
  <2>3. QED
    BY <2>1, <2>2
<1>5. QED
  BY <1>3, <1>4

LEMMA InnodbTells == ASSUME NEW n \in DOMAIN Servers PROVE Tells("innodb", Servers[n])
<1> DEFINE s == Servers[n]
           ratio == HitRatio(s)
           status == SetStatus(s, "innodb")
<1>1. "innodb" \in DOMAIN StatusKeys
  BY DEF StatusKeys
<1>2. /\ \A g \in DOMAIN status : g \in Gauges /\ status[g] \in Offered(s, g)
      /\ \A g \in StatusKeys.innodb : Offered(s, g) # {} => g \in DOMAIN status
  BY <1>1, StatusTells
<1>3. /\ \A g \in DOMAIN ratio : g = "hit_ratio" /\ ratio[g] \in Offered(s, g)
      /\ Offered(s, "hit_ratio") # {} => "hit_ratio" \in DOMAIN ratio
  BY RatioTells
<1>4. Sets("innodb", s) = Over(status, ratio)
  BY DEF Sets
<1>5. "hit_ratio" \in Gauges
  BY DEF Gauges, Derived
<1> HIDE DEF s, ratio, status
<1>6. /\ DOMAIN Over(status, ratio) = DOMAIN status \cup DOMAIN ratio
      /\ \A g \in DOMAIN status \cup DOMAIN ratio :
           Over(status, ratio)[g] = IF g \in DOMAIN status THEN status[g] ELSE ratio[g]
  BY DEF Over
<1>7. Tells("innodb", s)
  <2>1. ASSUME NEW g \in DOMAIN Sets("innodb", s)
        PROVE  g \in Gauges /\ Sets("innodb", s)[g] \in Offered(s, g)
    BY <1>2, <1>3, <1>4, <1>5, <1>6, <2>1
  <2>2. ASSUME NEW g \in Gauges, OwnerOf(g) = "innodb", Offered(s, g) # {}
        PROVE  g \in DOMAIN Sets("innodb", s)
    <3>1. g \in StatusKeys.innodb \cup {"hit_ratio"}
      BY <2>2, OwnersAre
    <3>2. QED
      BY <1>2, <1>3, <1>4, <1>6, <2>2, <3>1
  <2>3. QED
    BY <2>1, <2>2, Zenon DEF Tells
<1>8. QED
  BY <1>7 DEF s

LEMMA TablesTell ==
  ASSUME NEW n \in DOMAIN Servers
  PROVE  /\ Tells("connections", Servers[n]) /\ Tells("queries", Servers[n])
         /\ Tells("binlog_cache", Servers[n])
<1> DEFINE s == Servers[n]
<1>1. {"connections", "queries", "cache"} \subseteq DOMAIN StatusKeys
  BY DEF StatusKeys
<1>2. /\ Sets("connections", s) = SetStatus(s, "connections")
      /\ Sets("queries", s) = SetStatus(s, "queries")
      /\ Sets("binlog_cache", s) = SetStatus(s, "cache")
  BY DEF Sets
<1>3. \A table \in DOMAIN StatusKeys :
        /\ \A g \in DOMAIN SetStatus(s, table) : g \in Gauges /\ SetStatus(s, table)[g] \in Offered(s, g)
        /\ \A g \in StatusKeys[table] : Offered(s, g) # {} => g \in DOMAIN SetStatus(s, table)
  BY StatusTells
<1> HIDE DEF s
<1>4. Tells("connections", s)
  BY <1>1, <1>2, <1>3, OwnersAre DEF Tells
<1>5. Tells("queries", s)
  BY <1>1, <1>2, <1>3, OwnersAre DEF Tells
<1>6. Tells("binlog_cache", s)
  BY <1>1, <1>2, <1>3, OwnersAre DEF Tells
<1>7. QED
  BY <1>4, <1>5, <1>6 DEF s

LEMMA GlobalVarsTells == ASSUME NEW n \in DOMAIN Servers PROVE Tells("globalvars", Servers[n])
<1> DEFINE s == Servers[n]
<1>1. Sets("globalvars", s) = GlobalVars(s)
  BY DEF Sets
<1>2. /\ DOMAIN GlobalVars(s) = DOMAIN s.numbers \cup DOMAIN s.switches
      /\ \A g \in DOMAIN s.numbers : GlobalVars(s)[g] = s.numbers[g]
      /\ \A g \in DOMAIN s.switches :
           g \notin DOMAIN s.numbers => GlobalVars(s)[g] = IF s.switches[g] = "ON" THEN 1 ELSE 0
  BY DEF GlobalVars, Over, BoolToFloat
<1>3. VariableNames \subseteq Gauges
  BY DEF Gauges
<1>4. ASSUME NEW g \in DOMAIN GlobalVars(s)
      PROVE  g \in Gauges /\ GlobalVars(s)[g] \in Offered(s, g)
  <2>1. CASE g \in DOMAIN s.numbers
    BY <1>2, <1>3, <2>1, OffersVariable
  <2>2. CASE g \in DOMAIN s.switches
    BY <1>2, <1>3, <2>2, OffersVariable
  <2>3. QED
    BY <1>2, <1>4, <2>1, <2>2
<1>5. ASSUME NEW g \in Gauges, OwnerOf(g) = "globalvars", Offered(s, g) # {}
      PROVE  g \in DOMAIN GlobalVars(s)
  BY <1>2, <1>5, OwnersAre, OffersVariable
<1>6. QED
  BY <1>1, <1>4, <1>5 DEF Tells

\* A replica has all of these but the lag, which may be unknown.
LEMMA ReplicationTells == ASSUME NEW n \in DOMAIN Servers PROVE Tells("replication", Servers[n])
<1> DEFINE s == Servers[n]
           names == {"repl_lag", "repl_io", "repl_sql", "repl_running", "behind_bytes"}
<1>1. Sets("replication", s) = Replication(s)
  BY DEF Sets
<1>2. names \subseteq Derived /\ names \subseteq Gauges
  BY DEF Derived, Gauges, LogKeys, GroupKeys
<1>3. s.rows # <<>> => /\ 1 \in DOMAIN s.rows /\ s.rows[1].lag \in Nat \cup {-1}
                       /\ s.rows[1].read \in Nat \cup {-1} /\ s.rows[1].exec \in Nat \cup {-1}
  BY ServersAssumption
<1>4. First(s.rows) = IF s.rows = <<>> THEN {} ELSE {s.rows[1]}
  BY <1>3, FirstOf
<1>5. CASE s.rows = <<>>
  <2>1. \A g \in names : Offered(s, g) = {}
    BY <1>2, <1>4, <1>5, OffersDerived
  <2>2. DOMAIN Replication(s) = {}
    BY <1>5 DEF Replication
  <2> HIDE DEF s
  <2>3. QED
    BY <1>1, <2>1, <2>2, OwnersAre DEF Tells, s
<1>6. CASE s.rows # <<>>
  <2> DEFINE r == s.rows[1]
             placed == r.read >= 0 /\ r.exec >= 0
  <2>1. /\ DOMAIN Replication(s) = {"repl_io", "repl_sql", "repl_running"}
                                   \cup {h \in {"repl_lag"} : r.lag >= 0}
                                   \cup {h \in {"behind_bytes"} : placed}
        /\ Replication(s)["repl_io"] = IF r.io = "Yes" THEN 1 ELSE 0
        /\ Replication(s)["repl_sql"] = IF r.sql = "Yes" THEN 1 ELSE 0
        /\ Replication(s)["repl_running"] = IF {r.io, r.sql} = {"Yes"} THEN 1 ELSE 0
        /\ placed => Replication(s)["behind_bytes"] = r.read - r.exec
        /\ r.lag >= 0 => Replication(s)["repl_lag"] = r.lag
    BY <1>6 DEF Replication, BoolToFloat
  <2>2. /\ Offered(s, "repl_io") = {IF r.io = "Yes" THEN 1 ELSE 0}
        /\ Offered(s, "repl_sql") = {IF r.sql = "Yes" THEN 1 ELSE 0}
        /\ Offered(s, "repl_running") = {IF {r.io, r.sql} = {"Yes"} THEN 1 ELSE 0}
        /\ Offered(s, "behind_bytes") = IF placed THEN {r.read - r.exec} ELSE {}
        /\ Offered(s, "repl_lag") = {r.lag} \ {-1}
    <3>1. First(s.rows) = {r}
      BY <1>4, <1>6
    <3> HIDE DEF r
    <3>2. Offered(s, "repl_io") = {IF r.io = "Yes" THEN 1 ELSE 0}
      BY <1>2, <3>1, OffersDerived
    <3>3. Offered(s, "repl_sql") = {IF r.sql = "Yes" THEN 1 ELSE 0}
      BY <1>2, <3>1, OffersDerived
    <3>4. Offered(s, "repl_running") = {IF {r.io, r.sql} = {"Yes"} THEN 1 ELSE 0}
      <4> DEFINE Running(row) == IF {row.io, row.sql} = {"Yes"} THEN 1 ELSE 0
      <4>1. Offered(s, "repl_running") = {Running(row) : row \in First(s.rows)}
        BY <1>2, OffersDerived
      <4> HIDE DEF Running
      <4>2. Offered(s, "repl_running") = {Running(r)}
        BY <3>1, <4>1
      <4>3. QED
        BY <4>2 DEF Running
    <3>5. Offered(s, "behind_bytes") = IF placed THEN {r.read - r.exec} ELSE {}
      <4> DEFINE Diff(row) == row.read - row.exec
                 known == {q \in First(s.rows) : -1 \notin {q.read, q.exec}}
      <4>1. Offered(s, "behind_bytes") = {Diff(row) : row \in known}
        BY <1>2, OffersDerived
      <4>2. known = IF placed THEN {r} ELSE {}
        <5>1. placed <=> -1 \notin {r.read, r.exec}
          BY <1>3, <1>6 DEF r
        <5>2. QED
          BY <3>1, <5>1
      <4> HIDE DEF Diff, known, placed
      <4>3. Offered(s, "behind_bytes") = IF placed THEN {Diff(r)} ELSE {}
        BY <4>1, <4>2
      <4>4. QED
        BY <4>3 DEF Diff
    <3>6. Offered(s, "repl_lag") = {r.lag} \ {-1}
      BY <1>2, <3>1, OffersDerived
    <3>7. QED
      BY <3>2, <3>3, <3>4, <3>5, <3>6
  <2>3. r.lag \in Nat \cup {-1}
    BY <1>3, <1>6
  <2> HIDE DEF r, s, placed
  <2>4. ASSUME NEW g \in DOMAIN Replication(s) PROVE Replication(s)[g] \in Offered(s, g)
    <3>1. CASE g = "repl_lag"
      BY <2>1, <2>2, <2>4, <3>1
    <3>2. CASE g = "repl_running"
      BY <2>1, <2>2, <3>2
    <3>3. CASE g \in {"repl_io", "repl_sql", "behind_bytes"}
      BY <2>1, <2>2, <3>3
    <3>4. QED
      BY <2>1, <2>4, <3>1, <3>2, <3>3
  <2>5. DOMAIN Replication(s) \subseteq names
    BY <2>1
  <2>6. \A g \in names : Offered(s, g) # {} => g \in DOMAIN Replication(s)
    BY <2>1, <2>2, <2>3
  <2>7. \A g \in Gauges : OwnerOf(g) = "replication" => g \in names
    BY OwnersAre
  <2> HIDE DEF names
  <2>8. Tells("replication", s)
    BY <1>1, <1>2, <2>4, <2>5, <2>6, <2>7 DEF Tells
  <2>9. QED
    BY <2>8 DEF s
<1>7. QED
  BY <1>5, <1>6

\* Asked of a server with binary logs.
LEMMA LogsTell ==
  ASSUME NEW n \in DOMAIN Servers, Servers[n].binlogs # <<>>
  PROVE  Tells("binlog_logs", Servers[n])
<1> DEFINE s == Servers[n]
           logs == s.binlogs[1]
           names == {"binlog_count", "binlog_size"}
<1>1. Sets("binlog_logs", s) = BinlogLogs(logs)
  BY DEF Sets
<1>2. names \subseteq Derived /\ names \subseteq Gauges
  BY DEF Derived, Gauges, LogKeys, GroupKeys
<1>3. 1 \in DOMAIN s.binlogs /\ logs \in Seq(Nat) /\ s.binlogs # <<>>
  BY ServersAssumption
<1>4. First(s.binlogs) = {logs}
  BY <1>3, FirstOf
<1>5. TotalSize(logs) = SumFunction(logs)
  BY <1>3, LogsAddUp
<1>6. /\ DOMAIN BinlogLogs(logs) = names /\ BinlogLogs(logs)["binlog_count"] = Len(logs)
      /\ BinlogLogs(logs)["binlog_size"] = TotalSize(logs)
  BY DEF BinlogLogs, LogKeys
<1> HIDE DEF logs
<1>7. Offered(s, "binlog_count") = {Len(logs)} /\ Offered(s, "binlog_size") = {SumFunction(logs)}
  <2>1. Offered(s, "binlog_count") = {Len(l) : l \in First(s.binlogs)}
    BY <1>2, OffersDerived
  <2>2. Offered(s, "binlog_size") = {SumFunction(l) : l \in First(s.binlogs)}
    BY <1>2, OffersDerived
  <2> HIDE DEF s
  <2>3. QED
    BY <1>4, <2>1, <2>2
<1>8. \A g \in Gauges : OwnerOf(g) = "binlog_logs" => g \in names
  BY OwnersAre DEF LogKeys
<1>9. \A g \in names : BinlogLogs(logs)[g] \in Offered(s, g)
  BY <1>5, <1>6, <1>7
<1> HIDE DEF s, names
<1>10. Tells("binlog_logs", s)
  BY <1>1, <1>2, <1>6, <1>8, <1>9 DEF Tells
<1>11. QED
  BY <1>10 DEF s

\* An empty set of transactions is passed over, any other has a source.
LEMMA SourcesCounted ==
  ASSUME NEW S, NEW ids \in Seq(S)
  PROVE  Cardinality(ToSet(ids)) \in Nat /\ (Cardinality(ToSet(ids)) = 0 <=> ids = <<>>)
<1>1. IsFiniteSet(ToSet(ids))
  <2> DEFINE f == [i \in 1..Len(ids) |-> ids[i]]
  <2>1. ToSet(ids) = {ids[i] : i \in 1..Len(ids)}
    BY DEF ToSet
  <2>2. IsFiniteSet(1..Len(ids))
    BY FS_Interval
  <2>3. f \in Surjection(1..Len(ids), ToSet(ids))
    BY <2>1 DEF Surjection
  <2> HIDE DEF f
  <2>4. QED
    BY <2>2, <2>3, FS_Surjection
<1>2. ToSet(ids) = {} <=> ids = <<>>
  <2>1. CASE Len(ids) = 0
    <3>1. ids = <<>> /\ DOMAIN ids = {}
      BY <2>1
    <3>2. QED
      BY <3>1 DEF ToSet
  <2>2. CASE Len(ids) # 0
    <3>1. 1 \in DOMAIN ids /\ ids # <<>>
      BY <2>2
    <3>2. QED
      BY <3>1 DEF ToSet
  <2>3. QED
    BY <2>1, <2>2
<1>3. QED
  BY <1>1, <1>2, FS_CardinalityType, FS_EmptySet

LEMMA GTIDTells == ASSUME NEW n \in DOMAIN Servers PROVE Tells("gtid", Servers[n])
<1> DEFINE s == Servers[n]
           names == {"gtid_executed", "gtid_purged"}
<1>1. Sets("gtid", s) = GTID(s)
  BY DEF Sets
<1>2. names \subseteq Derived /\ names \subseteq Gauges
  BY DEF Derived, Gauges, LogKeys, GroupKeys
<1>3. \A g \in names : Cardinality(ToSet(s.gtids[g])) = 0 <=> s.gtids[g] = <<>>
  BY ServersAssumption, SourcesCounted
<1>4. /\ DOMAIN GTID(s) = {g \in names : s.gtids[g] # <<>>}
      /\ \A g \in DOMAIN GTID(s) : GTID(s)[g] = Cardinality(ToSet(s.gtids[g]))
  BY DEF GTID, countGTIDSets
<1>5. \A g \in names : Offered(s, g) = {Cardinality(ToSet(s.gtids[g]))} \ {0}
  BY <1>2, OffersDerived
<1>6. \A g \in Gauges : OwnerOf(g) = "gtid" => g \in names
  BY OwnersAre
<1> HIDE DEF s, names
<1>7. Tells("gtid", s)
  BY <1>1, <1>2, <1>3, <1>4, <1>5, <1>6 DEF Tells
<1>8. QED
  BY <1>7 DEF s

\* What a server in a group counts, if it is a member.
LEMMA StatsAre ==
  ASSUME NEW n \in DOMAIN Servers
  PROVE  LET group == Servers[n].group IN
         StatsOf(Servers[n]) = IF group = <<>> \/ group[1].stats = <<>> THEN {} ELSE {group[1].stats[1]}
<1> DEFINE group == Servers[n].group
<1>1. group # <<>> => 1 \in DOMAIN group /\ (group[1].stats # <<>> => 1 \in DOMAIN group[1].stats)
  BY ServersAssumption
<1>2. First(group) = IF group = <<>> THEN {} ELSE {group[1]}
  BY <1>1, FirstOf
<1>3. group # <<>> => First(group[1].stats) = IF group[1].stats = <<>> THEN {} ELSE {group[1].stats[1]}
  BY <1>1, FirstOf
<1>4. StatsOf(Servers[n]) = UNION {First(member.stats) : member \in First(group)}
  BY DEF StatsOf
<1> HIDE DEF group
<1>5. QED
  BY <1>2, <1>3, <1>4 DEF group

\* Asked of a server in a group, and of any server.
LEMMA GroupTells ==
  ASSUME NEW n \in DOMAIN Servers
  PROVE  /\ Servers[n].group # <<>> => Tells("group_members", Servers[n])
         /\ Tells("group_stats", Servers[n])
<1> DEFINE s == Servers[n]
<1>1. /\ Sets("group_members", s) = Gauge("gr_members", s.group[1].members)
      /\ Sets("group_stats", s) = GroupStats(s)
  BY DEF Sets
<1>2. {"gr_members"} \cup GroupKeys \subseteq Derived /\ {"gr_members"} \cup GroupKeys \subseteq Gauges
  BY DEF Derived, Gauges
<1>3. First(s.group) = IF s.group = <<>> THEN {} ELSE {s.group[1]}
  BY ServersAssumption, FirstOf
<1>4. /\ Offered(s, "gr_members") = {x.members : x \in First(s.group)}
      /\ \A g \in GroupKeys : Offered(s, g) = {stats[g] : stats \in StatsOf(s)}
  BY <1>2, OffersDerived DEF GroupKeys
<1>5. \A g \in Gauges : /\ OwnerOf(g) = "group_members" => g = "gr_members"
                        /\ OwnerOf(g) = "group_stats" => g \in GroupKeys
  BY OwnersAre
<1>6. StatsOf(s) = IF s.group = <<>> \/ s.group[1].stats = <<>> THEN {} ELSE {s.group[1].stats[1]}
  BY StatsAre
<1>7. GroupStats(s) # <<>> => DOMAIN GroupStats(s) = GroupKeys
  BY ServersAssumption DEF GroupStats
<1> HIDE DEF s
<1>8. s.group # <<>> => Tells("group_members", s)
  BY <1>1, <1>2, <1>3, <1>4, <1>5 DEF Tells, Gauge
<1>9. CASE s.group = <<>> \/ s.group[1].stats = <<>>
  <2>1. GroupStats(s) = <<>> /\ \A g \in GroupKeys : Offered(s, g) = {}
    BY <1>4, <1>6, <1>9 DEF GroupStats
  <2>2. Tells("group_stats", s)
    BY <1>1, <1>5, <2>1 DEF Tells
  <2>3. QED
    BY <1>8, <2>2 DEF s
<1>10. CASE s.group # <<>> /\ s.group[1].stats # <<>>
  <2>1. /\ GroupStats(s) = s.group[1].stats[1] /\ DOMAIN GroupStats(s) = GroupKeys
        /\ \A g \in GroupKeys : Offered(s, g) = {s.group[1].stats[1][g]}
    <3>1. DOMAIN s.group[1].stats[1] = GroupKeys
      BY <1>10, ServersAssumption DEF s
    <3>2. QED
      BY <1>4, <1>6, <1>10, <3>1 DEF GroupStats
  <2>2. Tells("group_stats", s)
    BY <1>1, <1>2, <1>5, <2>1 DEF Tells
  <2>3. QED
    BY <1>8, <2>2 DEF s
<1>11. QED
  BY <1>9, <1>10

Collectors == {Steps[i] : i \in 1..10}

LEMMA StepsLength == Len(Steps) = 13 /\ DOMAIN Steps = 1..13
BY DEF Steps

LEMMA StepNames ==
  /\ Steps[1] = "connections" /\ Steps[2] = "replication" /\ Steps[3] = "innodb"
  /\ Steps[4] = "queries" /\ Steps[5] = "binlog_logs" /\ Steps[6] = "binlog_cache"
  /\ Steps[7] = "globalvars" /\ Steps[8] = "gtid" /\ Steps[9] = "group_members"
  /\ Steps[10] = "group_stats" /\ Steps[11] = "repl_rules" /\ Steps[12] = "status_rules"
  /\ Steps[13] = "vars_rules"
BY DEF Steps

LEMMA OneToTen ==
  ASSUME NEW i \in 1..10
  PROVE  \/ i = 1 \/ i = 2 \/ i = 3 \/ i = 4 \/ i = 5
         \/ i = 6 \/ i = 7 \/ i = 8 \/ i = 9 \/ i = 10
OBVIOUS

\* No collector, and no query for rules before it, is the one for the variables.
LEMMA OtherSteps == \A i \in 1..12 : Steps[i] # "vars_rules"
<1> SUFFICES ASSUME NEW i \in 1..12 PROVE Steps[i] # "vars_rules"
  OBVIOUS
<1>1. i \in 1..10 \/ i = 11 \/ i = 12
  OBVIOUS
<1>2. QED
  BY <1>1, OneToTen, StepNames

LEMMA CollectorsAre ==
  Collectors = {"connections", "replication", "innodb", "queries", "binlog_logs", "binlog_cache",
                "globalvars", "gtid", "group_members", "group_stats"}
<1> DEFINE names == {"connections", "replication", "innodb", "queries", "binlog_logs", "binlog_cache",
                     "globalvars", "gtid", "group_members", "group_stats"}
<1>1. ASSUME NEW c \in Collectors PROVE c \in names
  <2>1. PICK i \in 1..10 : c = Steps[i]
    BY DEF Collectors
  <2>2. QED
    BY <2>1, OneToTen, StepNames, Zenon
<1>2. ASSUME NEW c \in names PROVE c \in Collectors
  BY StepNames DEF Collectors
<1>3. QED
  BY <1>1, <1>2

\* No other collector sets a gauge of the list of logs.
LEMMA OnlyLogs ==
  ASSUME NEW n \in DOMAIN Servers, NEW c \in Collectors \ {"binlog_logs"}
  PROVE  DOMAIN Sets(c, Servers[n]) \cap LogKeys = {}
<1> DEFINE s == Servers[n]
<1>1. StatusNames \cap LogKeys = {} /\ VariableNames \cap LogKeys = {} /\ LogKeys \subseteq Derived
  BY NamesDiffer DEF Derived
<1>2. \A table \in DOMAIN StatusKeys : DOMAIN SetStatus(s, table) \subseteq StatusNames
  BY DEF SetStatus, Restrict, StatusNames
<1>3. {"connections", "queries", "innodb", "cache"} \subseteq DOMAIN StatusKeys
  BY DEF StatusKeys
<1>4. c \in {"connections", "queries", "binlog_cache"} => DOMAIN Sets(c, s) \subseteq StatusNames
  BY <1>2, <1>3 DEF Sets
<1>5. DOMAIN HitRatio(s) \subseteq {"hit_ratio"}
  BY DEF HitRatio, Gauge
<1>6. c = "innodb" => DOMAIN Sets(c, s) \subseteq StatusNames \cup {"hit_ratio"}
  BY <1>2, <1>3, <1>5 DEF Sets, Over
<1>7. c = "replication" =>
        DOMAIN Sets(c, s) \subseteq {"repl_lag", "repl_io", "repl_sql", "repl_running", "behind_bytes"}
  BY DEF Sets, Replication
<1>8. c = "globalvars" => DOMAIN Sets(c, s) \subseteq VariableNames
  <2>1. DOMAIN s.numbers \subseteq VariableNames /\ DOMAIN s.switches \subseteq VariableNames
    BY ServersAssumption DEF VariableNames
  <2>2. QED
    BY <2>1 DEF Sets, GlobalVars, Over
<1>9. c = "gtid" => DOMAIN Sets(c, s) \subseteq {"gtid_executed", "gtid_purged"}
  BY DEF Sets, GTID
<1>10. c = "group_members" => DOMAIN Sets(c, s) \subseteq {"gr_members"}
  BY DEF Sets, Gauge
<1>11. c = "group_stats" => DOMAIN Sets(c, s) \subseteq GroupKeys
  BY ServersAssumption DEF Sets, GroupStats
<1>12. c \in {"connections", "replication", "innodb", "queries", "binlog_cache",
              "globalvars", "gtid", "group_members", "group_stats"}
  BY CollectorsAre
<1> HIDE DEF s
<1>13. QED
  BY <1>1, <1>4, <1>6, <1>7, <1>8, <1>9, <1>10, <1>11, <1>12 DEF LogKeys, GroupKeys, s

\* What any step of the collectors makes of a server it is not skipped for.
LEMMA CollectorsTell ==
  ASSUME NEW n \in DOMAIN Servers, NEW c \in Collectors,
         c = "binlog_logs" => Servers[n].binlogs # <<>>,
         c = "group_members" => Servers[n].group # <<>>
  PROVE  Tells(c, Servers[n])
<1>1. c \in {"connections", "replication", "innodb", "queries", "binlog_logs", "binlog_cache",
             "globalvars", "gtid", "group_members", "group_stats"}
  BY CollectorsAre
<1>2. QED
  BY <1>1, TablesTell, ReplicationTells, InnodbTells, LogsTell, GlobalVarsTells, GTIDTells,
     GroupTells, Zenon

\* And what no collector is asked for: without logs, or a group, none of the
\* gauges of the two steps that are left out is owed.
LEMMA NothingOwed ==
  ASSUME NEW n \in DOMAIN Servers, NEW g \in Gauges
  PROVE  /\ Servers[n].binlogs = <<>> /\ OwnerOf(g) = "binlog_logs" => Offered(Servers[n], g) = {}
         /\ Servers[n].binlogs = <<>> /\ OwnerOf(g) = "binlog_cache" => ~Asked(Servers[n], g)
         /\ Servers[n].group = <<>> /\ OwnerOf(g) \in {"group_members", "group_stats"} =>
              Offered(Servers[n], g) = {}
<1> DEFINE s == Servers[n]
<1>1. {"binlog_count", "binlog_size", "gr_members"} \cup GroupKeys \subseteq Derived
  BY DEF Derived, LogKeys
<1>2. /\ OwnerOf(g) = "binlog_logs" => g \in {"binlog_count", "binlog_size"}
      /\ OwnerOf(g) = "binlog_cache" => g \in StatusKeys.cache
      /\ OwnerOf(g) = "group_members" => g = "gr_members"
      /\ OwnerOf(g) = "group_stats" => g \in GroupKeys
  BY OwnersAre DEF LogKeys
<1>3. ASSUME s.binlogs = <<>>, g \in {"binlog_count", "binlog_size"} PROVE Offered(s, g) = {}
  <2>1. First(s.binlogs) = {}
    BY <1>3, FirstOf
  <2>2. QED
    BY <1>1, <1>3, <2>1, OffersDerived
<1>4. ASSUME s.group = <<>>, g = "gr_members" PROVE Offered(s, g) = {}
  <2>1. First(s.group) = {}
    BY <1>4, FirstOf
  <2>2. QED
    BY <1>1, <1>4, <2>1, OffersDerived
<1>5. ASSUME s.group = <<>>, g \in GroupKeys PROVE Offered(s, g) = {}
  <2>1. StatsOf(s) = {}
    BY <1>5, StatsAre
  <2>2. Offered(s, g) = {stats[g] : stats \in StatsOf(s)}
    BY <1>1, <1>5, OffersDerived DEF GroupKeys
  <2>3. QED
    BY <2>1, <2>2
<1>6. s.binlogs = <<>> /\ g \in StatusKeys.cache => ~Asked(s, g)
  BY DEF Asked
<1> HIDE DEF s
<1>7. QED
  BY <1>2, <1>3, <1>4, <1>5, <1>6 DEF s

\* What is offered is a number, and a percentage as the hit ratio.
LEMMA OffersNumbers ==
  ASSUME NEW n \in DOMAIN Servers, NEW g \in Gauges
  PROVE  /\ Offered(Servers[n], g) \subseteq Int
         /\ g = "hit_ratio" => Offered(Servers[n], g) \subseteq 0..100
<1> DEFINE s == Servers[n]
<1>1. CASE g \in StatusNames \cup VariableNames
  <2>1. g # "hit_ratio"
    BY <1>1, NamesDiffer DEF Derived
  <2>2. CASE g \in DOMAIN s.status \cup DOMAIN s.numbers
    BY <2>1, <2>2, OffersVariable
  <2>3. CASE g \in DOMAIN s.switches
    BY <2>1, <2>3, OffersVariable
  <2>4. CASE g \notin DOMAIN s.status \cup DOMAIN s.numbers \cup DOMAIN s.switches
    BY <1>1, <2>1, <2>4, OffersVariable
  <2>5. QED
    BY <2>2, <2>3, <2>4
<1>2. CASE g \in Derived
  <2>1. /\ s.rows # <<>> => /\ 1 \in DOMAIN s.rows /\ s.rows[1].lag \in Nat \cup {-1}
                            /\ s.rows[1].read \in Nat \cup {-1} /\ s.rows[1].exec \in Nat \cup {-1}
        /\ s.binlogs # <<>> => 1 \in DOMAIN s.binlogs /\ s.binlogs[1] \in Seq(Nat)
        /\ \A x \in {"gtid_executed", "gtid_purged"} : s.gtids[x] \in Seq(ToSet(s.gtids[x]))
        /\ s.group # <<>> => 1 \in DOMAIN s.group /\ s.group[1].members \in Nat
    BY ServersAssumption
  <2>2. First(s.rows) \subseteq {s.rows[1]} /\ (First(s.rows) # {} => s.rows # <<>>)
    BY <2>1, FirstOf
  <2>3. First(s.binlogs) \subseteq {s.binlogs[1]} /\ (First(s.binlogs) # {} => s.binlogs # <<>>)
    BY <2>1, FirstOf
  <2>4. First(s.group) \subseteq {s.group[1]} /\ (First(s.group) # {} => s.group # <<>>)
    BY <2>1, FirstOf
  <2>5. CASE g \in {"repl_lag", "repl_running", "repl_io", "repl_sql", "behind_bytes"}
    <3>1. CASE g = "repl_lag"
      <4>1. Offered(s, g) = {r.lag : r \in First(s.rows)} \ {-1}
        BY <1>2, <3>1, OffersDerived
      <4>2. QED
        BY <2>1, <2>2, <3>1, <4>1
    <3>2. CASE g \in {"repl_running", "repl_io", "repl_sql"}
      <4> DEFINE Both(r) == IF {r.io, r.sql} = {"Yes"} THEN 1 ELSE 0
      <4>1. g = "repl_running" => Offered(s, g) = {Both(r) : r \in First(s.rows)}
        BY <1>2, OffersDerived
      <4>2. \A r : Both(r) \in {0, 1}
        OBVIOUS
      <4> HIDE DEF Both
      <4>3. g = "repl_io" => Offered(s, g) \subseteq {0, 1}
        BY <1>2, OffersDerived
      <4>4. g = "repl_sql" => Offered(s, g) \subseteq {0, 1}
        BY <1>2, OffersDerived
      <4>5. Offered(s, g) \subseteq {0, 1}
        BY <3>2, <4>1, <4>2, <4>3, <4>4
      <4>6. QED
        BY <3>2, <4>5
    <3>3. CASE g = "behind_bytes"
      <4>1. Offered(s, g) =
              {r.read - r.exec : r \in {q \in First(s.rows) : -1 \notin {q.read, q.exec}}}
        BY <1>2, <3>3, OffersDerived
      <4>2. QED
        BY <2>1, <2>2, <3>3, <4>1
    <3>4. QED
      BY <2>5, <3>1, <3>2, <3>3
  <2>6. CASE g = "binlog_count"
    BY <1>2, <2>1, <2>3, <2>6, OffersDerived
  <2>7. CASE g = "binlog_size"
    <3>1. \A logs \in First(s.binlogs) : SumFunction(logs) \in Nat
      BY <2>1, <2>3, LogsAddUp
    <3>2. Offered(s, g) = {SumFunction(logs) : logs \in First(s.binlogs)}
      BY <1>2, <2>7, OffersDerived
    <3>3. QED
      BY <2>7, <3>1, <3>2
  <2>8. CASE g \in {"gtid_executed", "gtid_purged"}
    <3>1. Cardinality(ToSet(s.gtids[g])) \in Nat
      BY <2>1, <2>8, SourcesCounted
    <3>2. Offered(s, g) \subseteq {Cardinality(ToSet(s.gtids[g]))}
      BY <1>2, <2>8, OffersDerived
    <3>3. QED
      BY <2>8, <3>1, <3>2
  <2>9. CASE g = "gr_members"
    <3>1. Offered(s, g) = {x.members : x \in First(s.group)}
      BY <1>2, <2>9, OffersDerived
    <3>2. QED
      BY <2>1, <2>4, <2>9, <3>1
  <2>10. CASE g = "hit_ratio"
    <3> DEFINE requests == s.status["read_requests"]
               hits == requests - StatusOrZero(s, "reads")
               Between(h) == h * requests <= 100 * hits /\ 100 * hits < (h + 1) * requests
    <3>1. Offered(s, g) = IF StatusOrZero(s, "read_requests") > 0 THEN {h \in 0..100 : Between(h)} ELSE {}
      BY <1>2, <2>10, OffersDerived
    <3> HIDE DEF Between
    <3>2. QED
      BY <3>1
  <2>11. CASE g \in GroupKeys
    <3>1. Offered(s, g) = {stats[g] : stats \in StatsOf(s)}
      BY <1>2, <2>11, OffersDerived DEF GroupKeys
    <3>2. \A stats \in StatsOf(s) : stats \in [GroupKeys -> Nat]
      BY StatsAre, ServersAssumption
    <3>3. g # "hit_ratio"
      BY <2>11 DEF GroupKeys
    <3>4. QED
      BY <2>11, <3>1, <3>2, <3>3
  <2>12. QED
    BY <1>2, <2>5, <2>6, <2>7, <2>8, <2>9, <2>10, <2>11 DEF Derived, LogKeys
<1>3. QED
  BY <1>1, <1>2 DEF Gauges

(***************************************************************************)
(* The inductive invariant.  The poll may be anywhere, so what the run     *)
(* checks after the collectors is said of every gauge whose own collector  *)
(* is done; and what a rule found, after the query it found it in.         *)
(***************************************************************************)
Typed ==
  /\ server \in DOMAIN Servers /\ step \in 1..14
  /\ cut \in BOOLEAN /\ found \subseteq Rules /\ Len(held) <= 1 /\ missed \subseteq ToSet(Steps)
  /\ server \in seen /\ seen \subseteq ever /\ ever \subseteq DOMAIN Servers
  /\ changes \in 0..MaxChanges /\ losses \in 0..MaxLosses

Shown == /\ DOMAIN gauges \subseteq Gauges
         /\ \A g \in DOMAIN gauges \ LogKeys : gauges[g] \in OfferedBy(ever, g)

\* The lists that servers have, whole or in part.
Lists(broken, states) ==
  UNION {IF broken THEN UNION {Parts(logs) : logs \in First(Servers[n].binlogs)}
                   ELSE First(Servers[n].binlogs) : n \in states}

ShowList(shown, logs) ==
  /\ LogKeys \subseteq DOMAIN shown
  /\ shown["binlog_count"] = Len(logs) /\ shown["binlog_size"] = SumFunction(logs)

ListShown == DOMAIN gauges \cap LogKeys # {} => \E logs \in Lists(cut, ever) : ShowList(gauges, logs)

Done(collector) == \E i \in 1..10 : i < step /\ Steps[i] = collector

Owed(g) == Owner[g] \notin missed /\ \A s \in seen : Asked(Servers[s], g) /\ Offers[s][g] # {}

Fresh ==
  \A g \in Gauges : Done(Owner[g]) /\ Owed(g) => g \in DOMAIN gauges /\ gauges[g] \in OfferedBy(seen, g)

\* The rules a server breaches at one moment.
AllRules(s) == ReplRules(s) \cup StatusRules(s.status) \cup ConnRule(s.status, s.numbers)

Evaluated ==
  missed \subseteq {"vars_rules"} /\ seen = {server} =>
    /\ step \in {12, 13} => found = ReplRules(Now)
    /\ step = 13 => held = <<Now.status>>
    /\ step = 14 => \/ found = AllRules(Now)
                    \/ missed # {} /\ found = ReplRules(Now) \cup StatusRules(Now.status)

SamplingInv == Typed /\ Shown /\ ListShown /\ Fresh /\ Evaluated

\* Where the steps are that the actions name.
LEMMA InSteps == \A i \in 1..13 : Steps[i] \in ToSet(Steps)
BY StepsLength DEF ToSet

LEMMA Places ==
  ASSUME step \in 1..14
  PROVE  /\ At("binlog_logs") <=> step = 5
         /\ At("group_members") <=> step = 9
         /\ At("repl_rules") <=> step = 11
         /\ At("status_rules") <=> step = 12
         /\ At("vars_rules") <=> step = 13
<1>1. step <= Len(Steps) <=> step # 14
  BY StepsLength
<1>2. step \in 1..10 \/ step = 11 \/ step = 12 \/ step = 13 \/ step = 14
  OBVIOUS
<1>3. CASE step \in 1..10
  <2>1. /\ \/ step = 1 \/ step = 2 \/ step = 3 \/ step = 4 \/ step = 5
           \/ step = 6 \/ step = 7 \/ step = 8 \/ step = 9 \/ step = 10
        /\ step # 14 /\ step # 11 /\ step # 12 /\ step # 13
    BY <1>3, OneToTen
  <2>2. QED
    BY <1>1, <2>1, StepNames DEF At
<1>4. CASE step = 11 \/ step = 12 \/ step = 13 \/ step = 14
  BY <1>1, <1>4, StepNames DEF At
<1>5. QED
  BY <1>2, <1>3, <1>4

LEMMA OwnerOffers ==
  /\ \A g \in Gauges : Owner[g] = OwnerOf(g)
  /\ \A n \in DOMAIN Servers, g \in Gauges : Offers[n][g] = Offered(Servers[n], g)
BY DEF Owner, Offers

\* What is seen more has at least as much to offer.
LEMMA OfferedMore ==
  ASSUME NEW S, NEW T, S \subseteq T, NEW g
  PROVE  OfferedBy(S, g) \subseteq OfferedBy(T, g)
BY DEF OfferedBy

LEMMA FewerOwed ==
  ASSUME missed \subseteq missed', seen \subseteq seen', NEW g
  PROVE  Owed(g)' => Owed(g)
BY DEF Owed

LEMMA SamplingInit == Init => SamplingInv
<1> SUFFICES ASSUME Init PROVE SamplingInv
  OBVIOUS
<1>1. Typed
  <2>1. cut \in BOOLEAN
    BY DEF Init
  <2>2. QED
    BY <2>1, SamplingAssumption DEF Init, Typed, Rules
<1>2. Shown
  BY DEF Init, Shown
<1>3. Fresh
  <2>1. \A c : ~Done(c)
    BY DEF Init, Done
  <2>2. QED
    BY <2>1 DEF Fresh
<1>4. Evaluated
  BY DEF Init, Evaluated
<1>5. ListShown
  BY DEF Init, ListShown
<1>6. QED
  BY <1>1, <1>2, <1>3, <1>4, <1>5 DEF SamplingInv

LEMMA TypedStep == Typed /\ [Next]_vars => Typed'
<1> SUFFICES ASSUME Typed, [Next]_vars PROVE Typed'
  OBVIOUS
<1> USE DEF Typed
<1>0. SamplingAssumption
  BY SamplingAssumption
<1>1. CASE Collect
  <2>1. (cut /\ ~At("binlog_logs")) \in BOOLEAN
    BY DEF At
  <2>2. QED
    BY <1>1, <2>1 DEF Collect, Collecting, Answered
<1>2. CASE CollectFails
  <2> DEFINE n == IF Guarding THEN 2 ELSE 1
  <2>1. n \in {1, 2} /\ step \in 1..10
    BY <1>2 DEF CollectFails, Collecting
  <2> HIDE DEF n
  <2>2. Lost(n) /\ UNCHANGED <<server, gauges, cut, found, held, seen, ever, changes>>
    BY <1>2 DEF CollectFails, n
  <2>3. ASSUME NEW i \in step..(step + n - 1) PROVE Steps[i] \in ToSet(Steps)
    <3>1. i \in 1..13
      BY <2>1
    <3>2. QED
      BY <3>1, InSteps
  <2>4. QED
    BY <1>0, <2>1, <2>2, <2>3 DEF Lost
<1>3. CASE SkipCollector
  BY <1>3, Places DEF SkipCollector, NotOffered, Answered
<1>4. CASE EvaluateReplication
  <2>1. step = 11
    BY <1>4, Places DEF EvaluateReplication
  <2>2. ReplRules(Now) \subseteq Rules
    BY DEF ReplRules, Rules
  <2>3. \A i \in 11..11 : Steps[i] \in ToSet(Steps)
    BY InSteps
  <2>4. CASE Answered(1) /\ found' = ReplRules(Now)
    BY <1>4, <2>1, <2>2, <2>4 DEF EvaluateReplication, Answered
  <2>5. CASE Lost(1) /\ UNCHANGED found
    BY <1>0, <1>4, <2>1, <2>3, <2>5 DEF EvaluateReplication, Lost
  <2>6. QED
    BY <1>4, <2>4, <2>5 DEF EvaluateReplication
<1>5. CASE EvaluateStatus
  <2>1. step = 12
    BY <1>5, Places DEF EvaluateStatus
  <2>2. \A i \in 12..13 : Steps[i] \in ToSet(Steps)
    BY InSteps
  <2>3. CASE Answered(1) /\ held' = <<Now.status>>
    <3>1. Len(held') = 1
      BY <2>3
    <3>2. QED
      BY <1>5, <2>1, <2>3, <3>1 DEF EvaluateStatus, Answered
  <2>4. CASE Lost(2) /\ UNCHANGED held
    BY <1>0, <1>5, <2>1, <2>2, <2>4 DEF EvaluateStatus, Lost
  <2>5. QED
    BY <1>5, <2>3, <2>4 DEF EvaluateStatus
<1>6. CASE EvaluateVars
  <2>1. step = 13
    BY <1>6, Places DEF EvaluateVars
  <2>2. StatusRules(held[1]) \subseteq Rules /\ ConnRule(held[1], Now.numbers) \subseteq Rules
    BY DEF StatusRules, ConnRule, Rules
  <2>3. \A i \in 13..13 : Steps[i] \in ToSet(Steps)
    BY InSteps
  <2> DEFINE status == StatusRules(held[1])
             conn == ConnRule(held[1], Now.numbers)
  <2> HIDE DEF status, conn
  <2>4. CASE Answered(1) /\ found' = found \cup status \cup conn
    BY <1>6, <2>1, <2>2, <2>4 DEF EvaluateVars, Answered, status, conn
  <2>5. CASE Lost(1) /\ found' \subseteq Rules
    BY <1>0, <1>6, <2>1, <2>3, <2>5 DEF EvaluateVars, Lost
  <2>6. ASSUME NEW read, found' = found \cup status \cup ConnRule(held[1], Restrict(Now.numbers, read))
        PROVE  found' \subseteq Rules
    <3>1. ConnRule(held[1], Restrict(Now.numbers, read)) \subseteq Rules
      BY DEF ConnRule, Rules
    <3>2. QED
      BY <2>2, <2>6, <3>1 DEF status
  <2>7. QED
    BY <1>6, <2>4, <2>5, <2>6 DEF EvaluateVars, status, conn
<1>7. CASE NextPoll
  BY <1>7 DEF NextPoll
<1>8. CASE Change
  BY <1>0, <1>8 DEF Change, SamplingAssumption
<1>9. CASE UNCHANGED vars
  BY <1>9 DEF vars
<1>10. CASE LogsBreak
  <2>1. step = 5 /\ cut' = TRUE /\ Lost(1) /\ UNCHANGED <<server, found, held, seen, ever, changes>>
    BY <1>10, Places DEF LogsBreak
  <2>2. \A i \in 5..5 : Steps[i] \in ToSet(Steps)
    BY InSteps
  <2>3. QED
    BY <1>0, <2>1, <2>2 DEF Lost
<1>11. QED
  BY <1>1, <1>2, <1>3, <1>4, <1>5, <1>6, <1>7, <1>8, <1>9, <1>10 DEF Next

\* One collector's step, for a gauge.
LEMMA CollectSets ==
  ASSUME Typed, Collect
  PROVE  LET c == Steps[step] IN
         /\ Tells(c, Now) /\ step \in 1..10 /\ step' = step + 1
         /\ DOMAIN gauges' = DOMAIN Sets(c, Now) \cup DOMAIN gauges
         /\ \A g \in DOMAIN Sets(c, Now) : gauges'[g] = Sets(c, Now)[g]
         /\ \A g \in DOMAIN gauges \ DOMAIN Sets(c, Now) : gauges'[g] = gauges[g]
         /\ UNCHANGED <<server, found, held, missed, seen, ever>>
<1> DEFINE c == Steps[step]
<1>1. step \in 1..10 /\ step' = step + 1 /\ UNCHANGED <<server, found, held, missed, seen, ever>>
  BY DEF Typed, Collect, Collecting, Answered
<1>2. Tells(c, Now)
  <2>1. c \in Collectors /\ server \in DOMAIN Servers
    BY <1>1 DEF Collectors, Typed
  <2>2. c = "binlog_logs" => Now.binlogs # <<>>
    BY <1>1, StepsLength DEF Collect, NotOffered, At
  <2>3. c = "group_members" => Now.group # <<>>
    BY <1>1, StepsLength DEF Collect, NotOffered, At
  <2> HIDE DEF c
  <2>4. QED
    BY <2>1, <2>2, <2>3, CollectorsTell DEF Now
<1>3. gauges' = Over(Sets(c, Now), gauges)
  BY DEF Collect
<1> HIDE DEF c
<1>4. /\ DOMAIN gauges' = DOMAIN Sets(c, Now) \cup DOMAIN gauges
      /\ \A g \in DOMAIN Sets(c, Now) : gauges'[g] = Sets(c, Now)[g]
      /\ \A g \in DOMAIN gauges \ DOMAIN Sets(c, Now) : gauges'[g] = gauges[g]
  BY <1>3 DEF Over
<1>5. QED
  BY <1>1, <1>2, <1>4 DEF c

\* What a collector just read is among what the server has been.
LEMMA NowOffered ==
  ASSUME Typed, NEW g \in Gauges
  PROVE  /\ Offered(Now, g) = Offers[server][g]
         /\ Offers[server][g] \subseteq OfferedBy(seen, g)
         /\ Offers[server][g] \subseteq OfferedBy(ever, g)
BY OwnerOffers DEF Typed, Now, OfferedBy

\* A list whose stream breaks sets the two gauges of the list, and no other.
LEMMA BreakSets ==
  ASSUME Typed, LogsBreak
  PROVE  /\ step = 5 /\ step' = 6 /\ missed' = missed \cup {"binlog_logs"} /\ cut'
         /\ DOMAIN gauges' = LogKeys \cup DOMAIN gauges
         /\ \A g \in DOMAIN gauges \ LogKeys : gauges'[g] = gauges[g]
         /\ \E logs \in Lists(TRUE, {server}) : ShowList(gauges', logs)
         /\ UNCHANGED <<server, found, held, seen, ever>>
<1>1. step = 5 /\ Lost(1) /\ cut' = TRUE /\ UNCHANGED <<server, found, held, seen, ever>>
  BY Places DEF Typed, LogsBreak
<1>2. Now.binlogs # <<>> /\ server \in DOMAIN Servers
  BY DEF LogsBreak, NotOffered, Typed
<1> DEFINE whole == Now.binlogs[1]
<1>3. PICK n \in 0..Len(whole) : gauges' = Over(BinlogLogs(SubSeq(whole, 1, n)), gauges)
  BY DEF LogsBreak
<1> DEFINE logs == SubSeq(whole, 1, n)
<1>4. whole \in Seq(Nat) /\ First(Now.binlogs) = {whole}
  BY <1>2, ServersAssumption, FirstOf DEF Now
<1>5. logs \in Seq(Nat)
  <2> HIDE DEF whole
  <2>1. QED
    BY <1>4, SubSeqProperties
<1>6. TotalSize(logs) = SumFunction(logs)
  <2> HIDE DEF logs
  <2>1. QED
    BY <1>5, LogsAddUp
<1>7. logs \in Lists(TRUE, {server})
  BY <1>4 DEF Lists, Parts, Now
<1> HIDE DEF logs
<1>8. /\ DOMAIN gauges' = LogKeys \cup DOMAIN gauges
      /\ \A g \in DOMAIN gauges \ LogKeys : gauges'[g] = gauges[g]
      /\ gauges'["binlog_count"] = Len(logs) /\ gauges'["binlog_size"] = TotalSize(logs)
  BY <1>3 DEF Over, BinlogLogs, LogKeys, logs
<1>9. ShowList(gauges', logs)
  BY <1>6, <1>8 DEF ShowList
<1>10. step' = 6 /\ missed' = missed \cup {"binlog_logs"}
  <2>1. missed' = missed \cup {Steps[i] : i \in 5..5} /\ step' = 6
    BY <1>1 DEF Lost
  <2>2. {Steps[i] : i \in 5..5} = {"binlog_logs"}
    BY StepNames
  <2>3. QED
    BY <2>1, <2>2
<1>11. QED
  BY <1>1, <1>7, <1>8, <1>9, <1>10

LEMMA ShownStep == Typed /\ Shown /\ [Next]_vars => Shown'
<1> SUFFICES ASSUME Typed, Shown, [Next]_vars PROVE Shown'
  OBVIOUS
<1>0. ever \subseteq ever'
  BY DEF Next, vars, Collect, CollectFails, LogsBreak, SkipCollector, EvaluateReplication,
         EvaluateStatus, EvaluateVars, NextPoll, Change
<1>1. CASE Collect
  <2> DEFINE sets == Sets(Steps[step], Now)
  <2>1. /\ DOMAIN gauges' = DOMAIN sets \cup DOMAIN gauges /\ ever' = ever
        /\ \A g \in DOMAIN sets : gauges'[g] = sets[g]
        /\ \A g \in DOMAIN gauges \ DOMAIN sets : gauges'[g] = gauges[g]
        /\ Tells(Steps[step], Now)
    BY <1>1, CollectSets
  <2>2. \A g \in DOMAIN sets : g \in Gauges /\ sets[g] \in Offered(Now, g)
    BY <2>1 DEF Tells
  <2> HIDE DEF sets
  <2>3. \A g \in DOMAIN sets : g \in Gauges /\ sets[g] \in OfferedBy(ever, g)
    BY <2>2, NowOffered
  <2>4. QED
    BY <2>1, <2>3 DEF Shown, OfferedBy
<1>2. CASE UNCHANGED gauges
  <2>1. \A g \in DOMAIN gauges \ LogKeys : gauges[g] \in OfferedBy(ever', g)
    BY <1>0, OfferedMore DEF Shown
  <2>2. QED
    BY <1>2, <2>1 DEF Shown, OfferedBy
<1>3. CASE LogsBreak
  <2>1. LogKeys \subseteq Gauges
    BY DEF Gauges, Derived
  <2>2. QED
    BY <1>3, <2>1, BreakSets DEF Shown, OfferedBy
<1>4. Collect \/ LogsBreak \/ UNCHANGED gauges
  BY DEF Next, vars, CollectFails, SkipCollector, EvaluateReplication, EvaluateStatus,
         EvaluateVars, NextPoll, Change
<1>5. QED
  BY <1>1, <1>2, <1>3, <1>4

\* More servers have at least the lists of fewer.
LEMMA ListsMore ==
  ASSUME NEW S, NEW T, S \subseteq T, NEW broken
  PROVE  Lists(broken, S) \subseteq Lists(broken, T)
BY DEF Lists

LEMMA ListStep == Typed /\ ListShown /\ [Next]_vars => ListShown'
<1> SUFFICES ASSUME Typed, ListShown, [Next]_vars PROVE ListShown'
  OBVIOUS
<1>0. ever \subseteq ever' /\ server \in ever
  BY DEF Typed, Next, vars, Collect, CollectFails, LogsBreak, SkipCollector, EvaluateReplication,
         EvaluateStatus, EvaluateVars, NextPoll, Change
<1>1. CASE Collect /\ Steps[step] = "binlog_logs"
  <2> DEFINE logs == Now.binlogs[1]
             sets == BinlogLogs(logs)
  <2>1. At("binlog_logs") /\ server \in DOMAIN Servers
    BY <1>1, StepsLength DEF At, Typed, Collect, Collecting
  <2>2. Now.binlogs # <<>> /\ cut' = FALSE
    BY <1>1, <2>1 DEF Collect, NotOffered
  <2>3. logs \in Seq(Nat) /\ First(Now.binlogs) = {logs}
    BY <2>1, <2>2, ServersAssumption, FirstOf DEF Now
  <2>4. gauges' = Over(sets, gauges)
    BY <1>1 DEF Collect, Sets
  <2>5. logs \in Lists(FALSE, {server})
    BY <2>3 DEF Lists, Now
  <2> HIDE DEF logs
  <2>6. TotalSize(logs) = SumFunction(logs)
    BY <2>3, LogsAddUp
  <2>7. ShowList(gauges', logs)
    BY <2>4, <2>6 DEF ShowList, Over, BinlogLogs, LogKeys
  <2>8. logs \in Lists(FALSE, ever')
    BY <1>0, <2>5, ListsMore
  <2>9. QED
    BY <2>2, <2>7, <2>8 DEF ListShown, Lists
<1>2. CASE LogsBreak
  <2>1. PICK logs \in Lists(TRUE, {server}) : ShowList(gauges', logs)
    BY <1>2, BreakSets
  <2>2. logs \in Lists(TRUE, ever') /\ cut' = TRUE
    BY <1>0, <1>2, <2>1, ListsMore DEF LogsBreak
  <2>3. QED
    BY <2>1, <2>2 DEF ListShown, Lists
<1>3. CASE /\ cut' = cut /\ \A g \in LogKeys : g \in DOMAIN gauges' <=> g \in DOMAIN gauges
           /\ \A g \in LogKeys \cap DOMAIN gauges : gauges'[g] = gauges[g]
  <2>1. SUFFICES ASSUME DOMAIN gauges' \cap LogKeys # {}
                 PROVE  \E logs \in Lists(cut, ever') : ShowList(gauges', logs)
    BY <1>3 DEF ListShown, Lists
  <2>2. PICK logs \in Lists(cut, ever) : ShowList(gauges, logs)
    BY <1>3, <2>1 DEF ListShown
  <2>3. ShowList(gauges', logs)
    BY <1>3, <2>2 DEF ShowList, LogKeys
  <2>4. QED
    BY <1>0, <2>2, <2>3, ListsMore
<1>4. ASSUME Collect, Steps[step] # "binlog_logs"
      PROVE  /\ cut' = cut /\ \A g \in LogKeys : g \in DOMAIN gauges' <=> g \in DOMAIN gauges
             /\ \A g \in LogKeys \cap DOMAIN gauges : gauges'[g] = gauges[g]
  <2> DEFINE sets == Sets(Steps[step], Now)
  <2>1. /\ DOMAIN gauges' = DOMAIN sets \cup DOMAIN gauges /\ step \in 1..10
        /\ \A g \in DOMAIN gauges \ DOMAIN sets : gauges'[g] = gauges[g]
    BY <1>4, CollectSets
  <2>2. ~At("binlog_logs") /\ cut \in BOOLEAN
    BY <1>4 DEF At, Typed
  <2>3. cut' = cut
    BY <1>4, <2>2 DEF Collect
  <2>4. DOMAIN sets \cap LogKeys = {}
    <3>1. Steps[step] \in Collectors \ {"binlog_logs"} /\ server \in DOMAIN Servers
      BY <1>4, <2>1 DEF Collectors, Typed
    <3>2. QED
      BY <3>1, OnlyLogs DEF Now
  <2> HIDE DEF sets
  <2>5. QED
    BY <2>1, <2>3, <2>4
<1>5. Collect \/ LogsBreak \/ UNCHANGED <<gauges, cut>>
  BY DEF Next, vars, CollectFails, SkipCollector, EvaluateReplication, EvaluateStatus,
         EvaluateVars, NextPoll, Change
<1>6. QED
  BY <1>1, <1>2, <1>3, <1>4, <1>5

\* A step that takes no gauge, and ends with everything done that was owed,
\* leaves every gauge as fresh as it was.
LEMMA StaysFresh ==
  ASSUME Fresh, UNCHANGED gauges, missed \subseteq missed', seen \subseteq seen',
         \A g \in Gauges : Done(Owner[g])' /\ Owed(g)' => Done(Owner[g])
  PROVE  Fresh'
<1> SUFFICES ASSUME NEW g \in Gauges, Done(Owner[g])', Owed(g)'
             PROVE  g \in DOMAIN gauges' /\ gauges'[g] \in OfferedBy(seen', g)
  BY DEF Fresh, OfferedBy
<1>1. Done(Owner[g]) /\ Owed(g)
  BY FewerOwed
<1>2. g \in DOMAIN gauges /\ gauges[g] \in OfferedBy(seen, g)
  BY <1>1 DEF Fresh
<1>3. OfferedBy(seen, g) \subseteq OfferedBy(seen', g)
  BY OfferedMore
<1>4. QED
  BY <1>2, <1>3

LEMMA FreshStep == Typed /\ Fresh /\ [Next]_vars => Fresh'
<1> SUFFICES ASSUME Typed, Fresh, [Next]_vars PROVE Fresh'
  OBVIOUS
<1>1. CASE Collect
  <2> DEFINE c == Steps[step]
             sets == Sets(c, Now)
  <2>1. /\ step \in 1..10 /\ step' = step + 1 /\ seen' = seen /\ missed' = missed
        /\ DOMAIN gauges' = DOMAIN sets \cup DOMAIN gauges
        /\ \A g \in DOMAIN sets : gauges'[g] = sets[g]
        /\ \A g \in DOMAIN gauges \ DOMAIN sets : gauges'[g] = gauges[g]
        /\ Tells(c, Now)
    BY <1>1, CollectSets
  <2>2. ASSUME NEW g \in Gauges, Done(Owner[g])', Owed(g)
        PROVE  g \in DOMAIN gauges' /\ gauges'[g] \in OfferedBy(seen, g)
    <3>1. CASE g \in DOMAIN sets
      <4>1. sets[g] \in Offered(Now, g)
        BY <2>1, <3>1 DEF Tells
      <4> HIDE DEF sets, c
      <4>2. QED
        BY <2>1, <3>1, <4>1, NowOffered
    <3>2. CASE g \notin DOMAIN sets
      <4>1. Owner[g] # c
        <5>1. Asked(Now, g) /\ Offered(Now, g) # {}
          BY <2>2, OwnerOffers DEF Owed, Typed, Now
        <5>2. QED
          BY <2>1, <3>2, <5>1, OwnerOffers DEF Tells
      <4>2. Done(Owner[g])
        BY <2>1, <2>2, <4>1 DEF Done
      <4> HIDE DEF sets, c
      <4>3. QED
        BY <2>1, <2>2, <3>2, <4>2 DEF Fresh
    <3>3. QED
      BY <3>1, <3>2
  <2> HIDE DEF sets, c
  <2>3. QED
    BY <2>1, <2>2 DEF Fresh, Owed, OfferedBy
<1>2. CASE CollectFails
  <2> DEFINE n == IF Guarding THEN 2 ELSE 1
  <2>1. n \in {1, 2} /\ step \in 1..10
    BY <1>2 DEF CollectFails, Collecting, Typed
  <2> HIDE DEF n
  <2>2. /\ missed' = missed \cup {Steps[i] : i \in step..(step + n - 1)} /\ step' = step + n
        /\ UNCHANGED <<gauges, seen>>
    BY <1>2 DEF CollectFails, Lost, n
  <2>3. ASSUME NEW d, Done(d)', d \notin missed' PROVE Done(d)
    <3>1. PICK i \in 1..10 : i < step' /\ Steps[i] = d
      BY <2>3 DEF Done
    <3>2. i \notin step..(step + n - 1)
      BY <2>2, <2>3, <3>1
    <3>3. i < step
      BY <2>1, <2>2, <3>1, <3>2
    <3>4. QED
      BY <3>1, <3>3 DEF Done
  <2>4. \A g \in Gauges : Done(Owner[g])' /\ Owed(g)' => Done(Owner[g])
    BY <2>3 DEF Owed
  <2>5. QED
    BY <2>2, <2>4, StaysFresh
<1>3. CASE SkipCollector
  <2>1. /\ step' = step + 2 /\ UNCHANGED <<server, gauges, missed, seen>>
        /\ \/ step = 5 /\ Now.binlogs = <<>>
           \/ step = 9 /\ Now.group = <<>>
    BY <1>3, Places DEF Typed, SkipCollector, NotOffered, Answered
  <2>2. ASSUME NEW g \in Gauges, Done(Owner[g])', Owed(g)' PROVE Done(Owner[g])
    <3>1. Asked(Now, g) /\ Offered(Now, g) # {} /\ server \in DOMAIN Servers
      BY <2>1, <2>2, OwnerOffers DEF Owed, Typed, Now
    <3>2. /\ Now.binlogs = <<>> => Owner[g] \notin {"binlog_logs", "binlog_cache"}
          /\ Now.group = <<>> => Owner[g] \notin {"group_members", "group_stats"}
      BY <3>1, NothingOwed, OwnerOffers DEF Now
    <3>3. PICK i \in 1..10 : i < step + 2 /\ Steps[i] = Owner[g]
      BY <2>1, <2>2 DEF Done
    <3>4. i \notin {step, step + 1}
      BY <2>1, <3>2, <3>3, StepNames
    <3>5. i < step
      BY <2>1, <3>3, <3>4
    <3>6. QED
      BY <3>3, <3>5 DEF Done
  <2>3. QED
    BY <2>1, <2>2, StaysFresh
<1>4. CASE EvaluateReplication \/ EvaluateStatus \/ EvaluateVars
  <2>1. step >= 11 /\ UNCHANGED <<gauges, seen>> /\ missed \subseteq missed'
    BY <1>4, Places DEF Typed, EvaluateReplication, EvaluateStatus, EvaluateVars, Answered, Lost
  <2>2. \A d : Done(d)' => Done(d)
    BY <2>1 DEF Done, Typed
  <2>3. QED
    BY <2>1, <2>2, StaysFresh
<1>5. CASE NextPoll
  <2>1. \A d : ~Done(d)'
    BY <1>5 DEF NextPoll, Done
  <2>2. QED
    BY <2>1 DEF Fresh
<1>6. CASE Change \/ UNCHANGED vars
  <2>1. UNCHANGED <<gauges, missed, step>> /\ seen \subseteq seen'
    BY <1>6 DEF Change, vars
  <2>2. \A d : Done(d)' => Done(d)
    BY <2>1 DEF Done
  <2>3. QED
    BY <2>1, <2>2, StaysFresh
<1>7. CASE LogsBreak
  <2>1. /\ step = 5 /\ step' = 6 /\ missed' = missed \cup {"binlog_logs"} /\ seen' = seen
        /\ DOMAIN gauges' = LogKeys \cup DOMAIN gauges
        /\ \A g \in DOMAIN gauges \ LogKeys : gauges'[g] = gauges[g]
    BY <1>7, BreakSets
  <2>2. ASSUME NEW g \in Gauges, Done(Owner[g])', Owed(g)'
        PROVE  g \in DOMAIN gauges' /\ gauges'[g] \in OfferedBy(seen, g)
    <3>1. Owner[g] # "binlog_logs"
      BY <2>1, <2>2 DEF Owed
    <3>2. g \notin LogKeys
      BY <3>1, OwnerOffers, LogsOwned
    <3>3. Owed(g)
      BY <2>1, <2>2, FewerOwed
    <3>4. Done(Owner[g])
      <4>1. PICK i \in 1..10 : i < 6 /\ Steps[i] = Owner[g]
        BY <2>1, <2>2 DEF Done
      <4>2. i # 5
        BY <3>1, <4>1, StepNames
      <4>3. QED
        BY <2>1, <4>1, <4>2 DEF Done
    <3>5. QED
      BY <2>1, <3>2, <3>3, <3>4 DEF Fresh
  <2>3. QED
    BY <2>1, <2>2 DEF Fresh, OfferedBy
<1>8. QED
  BY <1>1, <1>2, <1>3, <1>4, <1>5, <1>6, <1>7 DEF Next

\* What was read before the stream broke decides the rule as all would, or not at all.
LEMMA PartlyRead ==
  ASSUME NEW status, NEW numbers, NEW read \in SUBSET DOMAIN numbers
  PROVE  ConnRule(status, Restrict(numbers, read)) \in {ConnRule(status, numbers), {}}
<1>1. /\ DOMAIN Restrict(numbers, read) = read
      /\ "max_connections" \in read =>
           Restrict(numbers, read)["max_connections"] = numbers["max_connections"]
  BY DEF Restrict
<1>2. QED
  BY <1>1 DEF ConnRule

\* A server that changes has been two servers.
LEMMA EvaluatedStep == Typed /\ Evaluated /\ [Next]_vars => Evaluated'
<1> SUFFICES ASSUME Typed, Evaluated, [Next]_vars, missed' \subseteq {"vars_rules"}, seen' = {server'}
             PROVE  /\ step' \in {12, 13} => found' = ReplRules(Now')
                    /\ step' = 13 => held' = <<Now'.status>>
                    /\ step' = 14 =>
                         \/ found' = AllRules(Now')
                         \/ missed' # {} /\ found' = ReplRules(Now') \cup StatusRules(Now'.status)
  BY DEF Evaluated, Now, AllRules
<1>0. \A i \in 1..12 : Steps[i] # "vars_rules"
  BY OtherSteps
<1>1. CASE Collect \/ CollectFails \/ LogsBreak \/ SkipCollector \/ NextPoll
  <2>1. step' <= 12 /\ (step' = 12 => ~(missed' \subseteq {"vars_rules"}))
    <3>1. CASE Collect
      BY <3>1, CollectSets
    <3>2. CASE CollectFails
      <4> DEFINE n == IF Guarding THEN 2 ELSE 1
      <4>1. n \in {1, 2} /\ step \in 1..10
        BY <3>2 DEF CollectFails, Collecting, Typed
      <4> HIDE DEF n
      <4>2. missed' = missed \cup {Steps[i] : i \in step..(step + n - 1)} /\ step' = step + n
        BY <3>2 DEF CollectFails, Lost, n
      <4>3. step \in step..(step + n - 1)
        BY <4>1
      <4>4. Steps[step] \in missed' /\ Steps[step] # "vars_rules"
        BY <1>0, <4>1, <4>2, <4>3
      <4>5. QED
        BY <4>1, <4>2, <4>4
    <3>3. CASE SkipCollector
      BY <3>3, Places DEF Typed, SkipCollector, NotOffered, Answered
    <3>4. CASE NextPoll
      BY <3>4 DEF NextPoll
    <3>5. CASE LogsBreak
      BY <3>5, BreakSets
    <3>6. QED
      BY <1>1, <3>1, <3>2, <3>3, <3>4, <3>5
  <2>2. step' \in Int
    BY <1>1 DEF Typed, Collect, CollectFails, LogsBreak, SkipCollector, NextPoll, Answered, Lost
  <2>3. step' \notin {12, 13, 14}
    BY <2>1, <2>2
  <2>4. QED
    BY <2>3
<1>2. CASE EvaluateReplication
  <2>1. step = 11 /\ UNCHANGED server
    BY <1>2, Places DEF Typed, EvaluateReplication
  <2>2. ~Lost(1)
    <3>1. Lost(1) => Steps[11] \in missed'
      BY <2>1 DEF Lost
    <3>2. Steps[11] # "vars_rules"
      BY StepNames
    <3>3. QED
      BY <3>1, <3>2
  <2>3. step' = 12 /\ found' = ReplRules(Now)
    BY <1>2, <2>1, <2>2 DEF EvaluateReplication, Answered
  <2>4. Now' = Now
    BY <2>1 DEF Now
  <2>5. QED
    BY <2>3, <2>4
<1>3. CASE EvaluateStatus
  <2>1. step = 12 /\ UNCHANGED <<server, seen, found>>
    BY <1>3, Places DEF Typed, EvaluateStatus
  <2>2. ~Lost(2)
    <3>1. Lost(2) => Steps[12] \in missed'
      BY <2>1 DEF Lost
    <3>2. Steps[12] # "vars_rules"
      BY StepNames
    <3>3. QED
      BY <3>1, <3>2
  <2>3. step' = 13 /\ held' = <<Now.status>> /\ missed' = missed
    BY <1>3, <2>1, <2>2 DEF EvaluateStatus, Answered
  <2>4. found = ReplRules(Now)
    BY <2>1, <2>3 DEF Evaluated
  <2>5. Now' = Now
    BY <2>1 DEF Now
  <2>6. QED
    BY <2>1, <2>3, <2>4, <2>5
<1>4. CASE EvaluateVars
  <2>1. step = 13 /\ UNCHANGED <<server, seen, held>>
    BY <1>4, Places DEF Typed, EvaluateVars
  <2>2. step' = 14 /\ missed \subseteq missed'
    BY <1>4, <2>1 DEF EvaluateVars, Answered, Lost
  <2>3. found = ReplRules(Now) /\ held[1] = Now.status
    BY <2>1, <2>2 DEF Evaluated
  <2>4. Now' = Now
    BY <2>1 DEF Now
  <2>5. CASE found' = found \cup StatusRules(held[1]) \cup ConnRule(held[1], Now.numbers)
    BY <2>2, <2>3, <2>4, <2>5 DEF AllRules
  <2>6. ASSUME Lost(1), NEW read \in SUBSET DOMAIN Now.numbers,
               found' = found \cup StatusRules(held[1])
                              \cup ConnRule(held[1], Restrict(Now.numbers, read))
        PROVE  \/ found' = AllRules(Now)
               \/ missed' # {} /\ found' = ReplRules(Now) \cup StatusRules(Now.status)
    <3>1. missed' # {}
      <4>1. 13 \in step..(step + 1 - 1)
        BY <2>1
      <4>2. Steps[13] \in missed'
        BY <2>6, <4>1 DEF Lost
      <4>3. QED
        BY <4>2
    <3>2. ConnRule(Now.status, Restrict(Now.numbers, read)) \in {ConnRule(Now.status, Now.numbers), {}}
      BY PartlyRead
    <3>3. QED
      BY <2>3, <2>6, <3>1, <3>2 DEF AllRules
  <2>7. QED
    BY <1>4, <2>2, <2>4, <2>5, <2>6 DEF EvaluateVars
<1>5. CASE Change
  <2>1. server' # server /\ server' \in seen' /\ server \in seen'
    BY <1>5 DEF Change, Typed
  <2>2. QED
    BY <2>1
<1>6. CASE UNCHANGED vars
  BY <1>6 DEF vars, Evaluated, Now, AllRules
<1>7. QED
  BY <1>1, <1>2, <1>3, <1>4, <1>5, <1>6 DEF Next

LEMMA SamplingStep == SamplingInv /\ [Next]_vars => SamplingInv'
BY TypedStep, ShownStep, ListStep, FreshStep, EvaluatedStep DEF SamplingInv

LEMMA AlwaysSamplingInv == Spec => []SamplingInv
BY SamplingInit, SamplingStep, PTL DEF Spec

LEMMA ListsAreSeq ==
  ASSUME NEW broken, NEW states \in SUBSET DOMAIN Servers, NEW logs \in Lists(broken, states)
  PROVE  logs \in Seq(Nat)
<1>1. PICK n \in states :
        logs \in IF broken THEN UNION {Parts(whole) : whole \in First(Servers[n].binlogs)}
                           ELSE First(Servers[n].binlogs)
  BY DEF Lists
<1>2. PICK whole \in First(Servers[n].binlogs) : logs = whole \/ logs \in Parts(whole)
  BY <1>1
<1>3. whole \in Seq(Nat)
  BY <1>2, ServersAssumption DEF First
<1>4. QED
  BY <1>2, <1>3, SubSeqProperties DEF Parts

\* The gauges are numbers because what is offered is.
LEMMA SamplingTypes == SamplingInv => SamplingTypeOK
<1> SUFFICES ASSUME SamplingInv PROVE SamplingTypeOK
  OBVIOUS
<1>1. ASSUME NEW g \in DOMAIN gauges \ LogKeys
      PROVE  gauges[g] \in Int /\ (g = "hit_ratio" => gauges[g] \in 0..100)
  <2>1. g \in Gauges /\ gauges[g] \in OfferedBy(ever, g)
    BY DEF SamplingInv, Shown
  <2>2. PICK n \in DOMAIN Servers : gauges[g] \in Offers[n][g]
    BY <2>1 DEF OfferedBy, SamplingInv, Typed
  <2>3. QED
    BY <2>1, <2>2, OwnerOffers, OffersNumbers
<1>2. ASSUME NEW g \in DOMAIN gauges \cap LogKeys PROVE gauges[g] \in Int
  <2>1. PICK logs \in Lists(cut, ever) : ShowList(gauges, logs)
    BY <1>2 DEF SamplingInv, ListShown
  <2>2. logs \in Seq(Nat)
    BY <2>1, ListsAreSeq DEF SamplingInv, Typed
  <2>3. Len(logs) \in Nat /\ SumFunction(logs) \in Nat
    BY <2>2, LogsAddUp
  <2>4. QED
    BY <1>2, <2>1, <2>3 DEF ShowList, LogKeys
<1>3. "hit_ratio" \notin LogKeys
  BY DEF LogKeys
<1>4. QED
  BY <1>1, <1>2, <1>3, StepsLength DEF SamplingInv, Typed, SamplingTypeOK

(***************************************************************************)
(* The rules and the gauges: after a poll of a server that held still, the *)
(* gauges are exactly what it offers.                                      *)
(***************************************************************************)
LEMMA CollectedAll ==
  ASSUME Typed, step >= 11, NEW g \in Gauges
  PROVE  Done(Owner[g])
<1>1. Owner[g] \in {Steps[i] : i \in 1..10}
  BY OwnersAre, OwnerOffers, StepNames
<1>2. PICK i \in 1..10 : Owner[g] = Steps[i]
  BY <1>1
<1>3. i < step
  BY DEF Typed
<1>4. QED
  BY <1>2, <1>3 DEF Done

HeldStill ==
  /\ step > Len(Steps) /\ missed \subseteq {"vars_rules"} /\ seen = {server}
  /\ ~(\E g \in DOMAIN gauges \cap RuleGauges : Offers[server][g] = {})

LEMMA RuledGauges ==
  /\ RuleGauges \subseteq Gauges \ StatusKeys.cache
  /\ RuleGauges \subseteq StatusNames \cup {"max_connections", "repl_running", "repl_lag"}
  /\ {"max_connections", "repl_running", "repl_lag"} \cap StatusNames = {}
<1>1. RuleGauges \subseteq StatusNames \cup {"max_connections", "repl_running", "repl_lag"}
  BY NamesDiffer DEF RuleGauges, StatusKeys
<1>2. "max_connections" \in VariableNames /\ {"repl_running", "repl_lag"} \subseteq Derived
  BY DEF VariableNames, VariableKeys, Derived
<1>3. {"max_connections", "repl_running", "repl_lag"} \cap StatusNames = {}
  BY <1>2, NamesDiffer
<1>4. RuleGauges \cap StatusKeys.cache = {}
  BY DEF RuleGauges, StatusKeys
<1>5. QED
  BY <1>1, <1>2, <1>3, <1>4 DEF Gauges

LEMMA GaugesExact ==
  ASSUME SamplingInv, HeldStill, NEW g \in RuleGauges
  PROVE  /\ g \in DOMAIN gauges <=> Offered(Now, g) # {}
         /\ g \in DOMAIN gauges => gauges[g] \in Offered(Now, g)
<1>0. g \in Gauges \ StatusKeys.cache
  BY RuledGauges
<1>1. Typed /\ Fresh /\ step >= 11 /\ server \in DOMAIN Servers
  BY StepsLength DEF SamplingInv, HeldStill, Typed
<1>2. Done(Owner[g])
  BY <1>0, <1>1, CollectedAll
<1>3. Offered(Now, g) = Offers[server][g]
  BY <1>0, <1>1, NowOffered
<1>4. Offers[server][g] # {} => Owed(g)
  <2>1. Owner[g] \in {Steps[i] : i \in 1..10}
    BY <1>0, OwnersAre, OwnerOffers, StepNames
  <2>2. PICK i \in 1..10 : Owner[g] = Steps[i]
    BY <2>1
  <2>3. Owner[g] # "vars_rules"
    BY <2>2, OtherSteps
  <2>4. Owner[g] \notin missed
    BY <2>3 DEF HeldStill
  <2>5. QED
    BY <1>0, <2>4 DEF HeldStill, Owed, Asked
<1>5. Owed(g) => g \in DOMAIN gauges /\ gauges[g] \in OfferedBy(seen, g)
  BY <1>0, <1>1, <1>2 DEF Fresh
<1>6. OfferedBy(seen, g) = Offers[server][g]
  BY DEF HeldStill, OfferedBy
<1>7. g \in DOMAIN gauges => Offers[server][g] # {}
  BY DEF HeldStill
<1>8. QED
  BY <1>3, <1>4, <1>5, <1>6, <1>7

\* In particular a variable is in the gauges as it is on the server.
LEMMA VariableExact ==
  ASSUME SamplingInv, HeldStill
  PROVE  /\ \A g \in StatusNames \cap RuleGauges :
              /\ g \in DOMAIN gauges <=> g \in DOMAIN Now.status
              /\ g \in DOMAIN gauges => gauges[g] = Now.status[g] /\ gauges[g] \in Nat
         /\ LET g == "max_connections" IN
              /\ g \in DOMAIN gauges <=> g \in DOMAIN Now.numbers
              /\ g \in DOMAIN gauges => gauges[g] = Now.numbers[g] /\ gauges[g] \in Nat
<1>1. server \in DOMAIN Servers /\ Now = Servers[server]
  BY DEF SamplingInv, Typed, Now
<1>2. ASSUME NEW g \in StatusNames \cap RuleGauges
      PROVE  /\ g \in DOMAIN gauges <=> g \in DOMAIN Now.status
             /\ g \in DOMAIN gauges => gauges[g] = Now.status[g] /\ gauges[g] \in Nat
  <2>2. /\ g \in DOMAIN gauges <=> Offered(Now, g) # {}
        /\ g \in DOMAIN gauges => gauges[g] \in Offered(Now, g)
    BY GaugesExact
  <2>3. /\ g \in DOMAIN Now.status => Offered(Now, g) = {Now.status[g]} /\ Now.status[g] \in Nat
        /\ g \notin DOMAIN Now.status => Offered(Now, g) = {}
    BY <1>1, OffersVariable
  <2>4. QED
    BY <2>2, <2>3
<1>3. LET g == "max_connections" IN
        /\ g \in DOMAIN gauges <=> g \in DOMAIN Now.numbers
        /\ g \in DOMAIN gauges => gauges[g] = Now.numbers[g] /\ gauges[g] \in Nat
  <2> DEFINE g == "max_connections"
  <2>1. g \in VariableNames /\ g \in VariableKeys.numbers /\ g \notin VariableKeys.switches
    BY DEF VariableNames, VariableKeys
  <2>2. g \in RuleGauges
    BY DEF RuleGauges
  <2> HIDE DEF g
  <2>3. /\ g \in DOMAIN gauges <=> Offered(Now, g) # {}
        /\ g \in DOMAIN gauges => gauges[g] \in Offered(Now, g)
    BY <2>2, GaugesExact
  <2>4. g \notin DOMAIN Now.switches
    BY <1>1, <2>1, ServersAssumption
  <2>5. /\ g \in DOMAIN Now.numbers => Offered(Now, g) = {Now.numbers[g]} /\ Now.numbers[g] \in Nat
        /\ g \notin DOMAIN Now.numbers => Offered(Now, g) = {}
    BY <1>1, <2>1, <2>4, OffersVariable
  <2>6. QED
    BY <2>3, <2>5 DEF g
<1>4. QED
  BY <1>2, <1>3

\* Of a replica, the threads and the lag.
LEMMA ReplicaExact ==
  ASSUME SamplingInv, HeldStill
  PROVE  /\ GaugeIs("repl_running", 0) <=>
              Now.rows # <<>> /\ (Now.rows[1].io # "Yes" \/ Now.rows[1].sql # "Yes")
         /\ Above("repl_lag", 30) <=> Now.rows # <<>> /\ Now.rows[1].lag > 30
<1>1. server \in DOMAIN Servers /\ Now = Servers[server]
  BY DEF SamplingInv, Typed, Now
<1>2. {"repl_running", "repl_lag"} \subseteq Derived
  BY DEF Derived
<1>3. {"repl_running", "repl_lag"} \subseteq RuleGauges
  BY DEF RuleGauges
<1> DEFINE r == Now.rows[1]
           run == IF {r.io, r.sql} = {"Yes"} THEN 1 ELSE 0
<1>4. Now.rows # <<>> => 1 \in DOMAIN Now.rows /\ r.lag \in Nat \cup {-1}
  BY <1>1, ServersAssumption
<1>5. First(Now.rows) = IF Now.rows = <<>> THEN {} ELSE {r}
  BY <1>4, FirstOf
<1>6. Offered(Now, "repl_running") = IF Now.rows = <<>> THEN {} ELSE {run}
  <2> DEFINE Both(row) == IF {row.io, row.sql} = {"Yes"} THEN 1 ELSE 0
  <2>1. Offered(Now, "repl_running") = {Both(row) : row \in First(Now.rows)}
    BY <1>1, <1>2, OffersDerived
  <2> HIDE DEF Both, r, run
  <2>2. Offered(Now, "repl_running") = IF Now.rows = <<>> THEN {} ELSE {Both(r)}
    BY <1>5, <2>1
  <2>3. QED
    BY <2>2 DEF Both, run
<1>7. Offered(Now, "repl_lag") = IF Now.rows = <<>> THEN {} ELSE {r.lag} \ {-1}
  <2>1. Offered(Now, "repl_lag") = {row.lag : row \in First(Now.rows)} \ {-1}
    BY <1>1, <1>2, OffersDerived
  <2> HIDE DEF r
  <2>2. QED
    BY <1>5, <2>1
<1>8. /\ "repl_running" \in DOMAIN gauges <=> Offered(Now, "repl_running") # {}
      /\ "repl_running" \in DOMAIN gauges => gauges["repl_running"] \in Offered(Now, "repl_running")
      /\ "repl_lag" \in DOMAIN gauges <=> Offered(Now, "repl_lag") # {}
      /\ "repl_lag" \in DOMAIN gauges => gauges["repl_lag"] \in Offered(Now, "repl_lag")
  BY <1>3, GaugesExact
<1>9. run = 0 <=> r.io # "Yes" \/ r.sql # "Yes"
  OBVIOUS
<1> HIDE DEF r, run
<1>10. GaugeIs("repl_running", 0) <=> Now.rows # <<>> /\ (r.io # "Yes" \/ r.sql # "Yes")
  BY <1>6, <1>8, <1>9 DEF GaugeIs
<1>11. Above("repl_lag", 30) <=> Now.rows # <<>> /\ r.lag > 30
  <2>1. CASE Now.rows = <<>>
    BY <1>7, <1>8, <2>1 DEF Above
  <2>2. CASE Now.rows # <<>> /\ r.lag = -1
    BY <1>7, <1>8, <2>2 DEF Above
  <2>3. CASE Now.rows # <<>> /\ r.lag \in Nat
    <3>1. Offered(Now, "repl_lag") = {r.lag}
      BY <1>7, <2>3
    <3>2. "repl_lag" \in DOMAIN gauges /\ gauges["repl_lag"] = r.lag
      BY <1>8, <3>1
    <3>3. QED
      BY <2>3, <3>2 DEF Above
  <2>4. QED
    BY <1>4, <2>1, <2>2, <2>3
<1>12. QED
  BY <1>10, <1>11 DEF r

\* Eighty percent, in whole connections.
LEMMA Eighty ==
  ASSUME NEW t \in Nat, NEW m \in Nat
  PROVE  100 * t > 80 * m <=> t > (8 * m) \div 10
OBVIOUS

LEMMA RulesExact == SamplingInv => AlertsMatchMetrics
<1> SUFFICES ASSUME SamplingInv, HeldStill
             PROVE  /\ missed = {} => found = GaugeRules
                    /\ found \in {GaugeRules, GaugeRules \ {"conn_exhaustion"}}
  BY DEF AlertsMatchMetrics, HeldStill
<1> DEFINE s == Now.status
           all == AllRules(Now)
<1>1. all = ReplRules(Now) \cup StatusRules(s) \cup ConnRule(s, Now.numbers)
  BY DEF AllRules
<1> HIDE DEF all
<1>2. {"deadlocks", "history_list_length", "pages_total", "pages_free", "Threads_connected"}
        \subseteq StatusNames \cap RuleGauges
  BY NamesDiffer DEF StatusKeys, RuleGauges
<1>3. "repl_stopped" \in all <=> "repl_stopped" \in GaugeRules
  BY <1>1, ReplicaExact DEF ReplRules, StatusRules, ConnRule, GaugeRules, Rules
<1>4. "repl_lag" \in all <=> "repl_lag" \in GaugeRules
  BY <1>1, ReplicaExact DEF ReplRules, StatusRules, ConnRule, GaugeRules, Rules
<1>5. "deadlocks" \in all <=> "deadlocks" \in GaugeRules
  <2>1. Above("deadlocks", 0) <=> "deadlocks" \in DOMAIN s /\ s["deadlocks"] > 0
    BY <1>2, VariableExact DEF Above
  <2> HIDE DEF s
  <2>2. QED
    BY <1>1, <2>1 DEF ReplRules, StatusRules, ConnRule, GaugeRules, Rules
<1>6. "history_list" \in all <=> "history_list" \in GaugeRules
  <2>1. Above("history_list_length", 1000) <=>
          "history_list_length" \in DOMAIN s /\ s["history_list_length"] > 1000
    BY <1>2, VariableExact DEF Above
  <2> HIDE DEF s
  <2>2. QED
    BY <1>1, <2>1 DEF ReplRules, StatusRules, ConnRule, GaugeRules, Rules, HistoryTooLong
<1>7. "buffer_pool" \in all <=> "buffer_pool" \in GaugeRules
  <2>1. /\ Above("pages_total", 0) /\ "pages_free" \in DOMAIN gauges
        /\ 10 * gauges["pages_free"] < gauges["pages_total"]
        <=> /\ "pages_total" \in DOMAIN s /\ "pages_free" \in DOMAIN s
            /\ s["pages_total"] > 0 /\ 10 * s["pages_free"] < s["pages_total"]
    BY <1>2, VariableExact DEF Above
  <2> HIDE DEF s
  <2>2. QED
    BY <1>1, <2>1 DEF ReplRules, StatusRules, ConnRule, GaugeRules, Rules
<1>8. "conn_exhaustion" \in all <=> "conn_exhaustion" \in GaugeRules
  <2> DEFINE t == s["Threads_connected"]
             m == Now.numbers["max_connections"]
  <2>1. /\ "max_connections" \in DOMAIN gauges <=> "max_connections" \in DOMAIN Now.numbers
        /\ "max_connections" \in DOMAIN gauges => gauges["max_connections"] = m /\ m \in Nat
        /\ "Threads_connected" \in DOMAIN gauges <=> "Threads_connected" \in DOMAIN s
        /\ "Threads_connected" \in DOMAIN gauges => gauges["Threads_connected"] = t /\ t \in Nat
    BY <1>2, VariableExact
  <2> HIDE DEF t, m, s
  <2>2. /\ Above("max_connections", 0)
        /\ Above("Threads_connected", (8 * gauges["max_connections"]) \div 10)
        <=> /\ "max_connections" \in DOMAIN Now.numbers /\ m > 0
            /\ "Threads_connected" \in DOMAIN s /\ 100 * t > 80 * m
    BY <2>1, Eighty DEF Above
  <2>3. QED
    BY <1>1, <2>2 DEF ReplRules, StatusRules, ConnRule, GaugeRules, Rules, t, m
<1>9. all \subseteq Rules /\ GaugeRules \subseteq Rules
  <2> HIDE DEF s
  <2>1. QED
    BY <1>1 DEF ReplRules, StatusRules, ConnRule, GaugeRules, Rules
<1>10. \A rule \in Rules : rule \in all <=> rule \in GaugeRules
  BY <1>3, <1>4, <1>5, <1>6, <1>7, <1>8 DEF Rules
<1>11. all = GaugeRules
  BY <1>9, <1>10, Zenon
<1>12. \/ found = all
       \/ missed # {} /\ found = ReplRules(Now) \cup StatusRules(s)
  BY StepsLength DEF SamplingInv, Evaluated, HeldStill, Typed, all
<1>13. ReplRules(Now) \cup StatusRules(s) = all \ {"conn_exhaustion"} \/ ReplRules(Now) \cup StatusRules(s) = all
  <2> HIDE DEF s
  <2>1. "conn_exhaustion" \notin ReplRules(Now) \cup StatusRules(s)
    BY DEF ReplRules, StatusRules
  <2>2. ConnRule(s, Now.numbers) \in {{}, {"conn_exhaustion"}}
    BY DEF ConnRule
  <2>3. QED
    BY <1>1, <2>1, <2>2
<1>14. QED
  BY <1>11, <1>12, <1>13

(***************************************************************************)
(* The theorems.                                                           *)
(***************************************************************************)
\* The poll is at one of its steps, the gauges are whole numbers and the hit
\* ratio (innodb.go) is a percentage, whatever the server reports.
THEOREM TypeCorrect == Spec => []SamplingTypeOK
BY AlwaysSamplingInv, SamplingTypes, PTL

\* However the server changes between the queries of a poll (engine.go) and
\* whichever of them fail: what a gauge shows the server has been, and during this
\* poll unless the query failed or the server had nothing to show; the gauges of
\* the binary logs (binlog.go) are of one list, cut off where its stream broke.
THEOREM GaugesTellTheTruth == Spec => []StaleIsExplained
<1>1. SamplingInv => StaleIsExplained
  <2> SUFFICES ASSUME SamplingInv PROVE StaleIsExplained
    OBVIOUS
  <2>1. \A g \in DOMAIN gauges \ LogKeys : gauges[g] \in OfferedBy(ever, g)
    BY DEF SamplingInv, Shown
  <2>2. ~Collecting => \A g \in Gauges : Done(Owner[g])
    BY CollectedAll DEF Collecting, SamplingInv, Typed
  <2>3. ASSUME DOMAIN gauges \cap LogKeys # {}
        PROVE  \E n \in ever : \E logs \in ListsOf(Servers[n]) : ShowList(gauges, logs)
    <3>1. PICK logs \in Lists(cut, ever) : ShowList(gauges, logs)
      BY <2>3 DEF SamplingInv, ListShown
    <3>2. PICK n \in ever : logs \in ListsOf(Servers[n])
      BY <3>1 DEF Lists, ListsOf
    <3>3. QED
      BY <3>1, <3>2
  <2>4. QED
    BY <2>1, <2>2, <2>3 DEF SamplingInv, Fresh, Owed, StaleIsExplained, ShowList
<1>2. QED
  BY <1>1, AlwaysSamplingInv, PTL

\* The rules (evaluator.go) and the collectors read the same variables in code of
\* their own: when the server holds still for a poll and nothing fails, the rules
\* fired are those one would write on the gauges; when only the query for the
\* variables fails, no other rule than that on connections is missing.
THEOREM AlertsFollowGauges == Spec => []AlertsMatchMetrics
BY AlwaysSamplingInv, RulesExact, PTL

=============================================================================
