---------------------------- MODULE MCSampling ----------------------------
\* A server in five states: a replica just at the thresholds, the same one just
\* over them, with a stopped thread, promoted to a source, and one that tells little.
EXTENDS Sampling

CONSTANTS calm, over, stopped, source, bare

Replica(io, lag, read, exec) ==
  <<[io |-> io, sql |-> "Yes", lag |-> lag, read |-> read, exec |-> exec]>>

GTIDs(executed, purged) == [gtid_executed |-> executed, gtid_purged |-> purged]
Member(members, queue) ==
  <<[members |-> members, stats |-> <<[g \in GroupKeys |-> IF g = "gr_queue" THEN queue ELSE 0]>>]>>
NoMember == <<[members |-> 0, stats |-> <<>>]>>

Status(threads, free, requests, dead, history) ==
  ("Threads_connected" :> threads) @@ ("Queries" :> 50) @@ ("Com_select" :> 40)
  @@ ("pages_total" :> 10) @@ ("pages_free" :> free)
  @@ ("reads" :> 1) @@ ("read_requests" :> requests) @@ ("deadlocks" :> dead)
  @@ ("history_list_length" :> history) @@ ("Binlog_cache_use" :> threads)

Calm ==
  [status |-> Status(8, 1, 2, 0, 1000), numbers |-> "max_connections" :> 10,
   switches |-> "read_only" :> "ON", rows |-> Replica("Yes", 30, 7, 5),
   binlogs |-> <<<<3, 4>>>>, gtids |-> GTIDs(<<"a">>, <<>>), group |-> Member(2, 0)]

MCServers ==
  (calm :> Calm)
  @@ (over :> [Calm EXCEPT !.status = Status(9, 0, 10, 1, 1001), !.rows = Replica("Yes", 31, 9, 5),
                           !.binlogs = <<<<3, 4, 5>>>>, !.group = NoMember,
                           !.gtids = GTIDs(<<"a", "b", "a">>, <<"a">>)])
  @@ (stopped :> [Calm EXCEPT !.rows = Replica("Connecting", -1, 2, 7), !.group = Member(1, 3),
                              !.binlogs = <<>>])
  @@ (source :> [Calm EXCEPT !.rows = <<>>, !.switches = "read_only" :> "OFF"])
  @@ (bare :> [status |-> "Threads_connected" :> 9, numbers |-> <<>>, switches |-> <<>>,
               rows |-> Replica("", -1, -1, -1), binlogs |-> <<>>,
               gtids |-> GTIDs(<<>>, <<>>), group |-> <<>>])
=============================================================================
