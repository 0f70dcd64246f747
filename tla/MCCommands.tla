----------------------------- MODULE MCCommands -----------------------------
\* An instance of Commands: for every command the fleets of one to three servers
\* on which what it makes of them can differ.
EXTENDS Commands

Both == {"SHOW REPLICA STATUS", "SHOW SLAVE STATUS"}
Base == [label |-> <<"h1", "3306">>, state |-> "up", speaks |-> Both, rows |-> <<>>,
         denied |-> {}, value |-> 0, setting |-> <<>>, text |-> <<>>]

States == {"bad", "down", "hung", "up"}
Dialects == SUBSET Both \ {{}}
Row(source, running, lag) == [source |-> source, running |-> running, lag |-> lag]

At(s, label) == [s EXCEPT !.label = label]
Two(S, T) == {<<At(s, <<"h1", "3306">>), At(t, <<"h2", "3306">>)>> : s \in S, t \in T}
Pairs(S) == Two(S, S)

NoFlags == [metric |-> "counter", warn |-> 0, crit |-> 0, all |-> FALSE]
MCFlags == [c \in {"check", "topology", "status", "report", "diff", "doctor", "innodb", "watch"} |->
  CASE c = "check" -> {[NoFlags EXCEPT !.metric = m, !.warn = w, !.crit = k] :
                         m \in {"counter", "repl-lag", "buffer-pool", "unknown"},
                         w \in 0..2, k \in 0..2}
    [] c = "diff"  -> {[NoFlags EXCEPT !.all = a] : a \in BOOLEAN}
    [] OTHER       -> {NoFlags}]

\* check: a value or a lag of 0 to 2, a NULL lag, no replica.
Checked == {[Base EXCEPT !.state = st] : st \in {"bad", "down", "hung"}}
           \cup {[Base EXCEPT !.value = v, !.rows = <<Row("h9", TRUE, v)>>, !.speaks = d] :
                   v \in 0..2, d \in {Both, {"SHOW SLAVE STATUS"}}}
           \cup {Base, [Base EXCEPT !.rows = <<Row("h9", FALSE, -1)>>]}

\* topology: three servers on three hosts, on two hosts, or two of them IPv6,
\* each following one host, none, or one its row does not name.
Placements == {<<<<"h1", "3306">>, <<"h2", "3306">>, <<"h3", "3306">>>>,
               <<<<"h1", "3306">>, <<"h1", "3307">>, <<"h2", "3306">>>>,
               <<<<"[::1]", "3306">>, <<"[::1]", "3307">>, <<"h2", "3306">>>>}
Follower == {<<>>, <<Row(NoHost, FALSE, -1)>>, <<Row("h1", TRUE, 0)>>, <<Row("h2", TRUE, 1)>>, <<Row("h3", FALSE, -1)>>}
Placed(labels) ==
  {f \in [1..3 -> {[Base EXCEPT !.state = st, !.rows = r] : st \in States, r \in Follower}] :
     \A i \in 1..3 : f[i].state # "up" => f[i].rows = <<>> \/ f[i].rows[1].source = "h1"}
Topologies == UNION {{[i \in 1..3 |-> At(f[i], labels[i])] : f \in Placed(labels)} : labels \in Placements}

\* status, report and doctor: replica or not, both dialects, a permission missing,
\* be it one that doctor does not ask for.
Plain == {[Base EXCEPT !.state = st] : st \in {"bad", "down", "hung"}}
         \cup {[Base EXCEPT !.rows = r, !.speaks = d] :
                 r \in {<<>>, <<Row("h9", TRUE, 0)>>, <<Row(NoHost, FALSE, -1)>>}, d \in Dialects}
Patients == {[Base EXCEPT !.state = st] : st \in States}
            \cup {[Base EXCEPT !.speaks = d, !.denied = p] :
                    d \in Dialects, p \in {{}, {"performance_schema"}, {"replica_status"}, {"PROCESS"}}}

\* diff: one variable with two values, empty or missing; labels that are shared.
Settings == {"x" :> "1", "x" :> "2", "x" :> "", <<>>}
Set == {[Base EXCEPT !.setting = g] : g \in Settings} \cup {[Base EXCEPT !.state = st] : st \in {"bad", "hung"}}
Configured ==
  {<<At(s, <<"h1", "3306">>), At(t, l), At(u, <<"h3", "3306">>)>> :
     s, t, u \in Set, l \in {<<"h1", "3306">>, <<"h2", "3306">>}}
  \cup {<<s>> : s \in Set}

\* innodb: texts of up to four blocks around two sections, and all orders of up
\* to four lines of the deadlock section.
Heading(name) == <<"---", name, "---">>
Blocks == {Heading("LOG"), Heading("SEMAPHORES"), Heading(" "), <<"---">>, <<"LOG">>, <<"">>}
DeadlockLines == {"TRANSACTION_1", "TRANSACTION_2", "WE_ROLL_BACK_1",
                  "WE_ROLL_BACK_2", "WAITING_FOR_THIS_LOCK", "UPDATE"}
Texts == {FlattenSeq(b) : b \in BoundedSeq(Blocks, 4)}
         \cup {Heading("LATEST_DETECTED_DEADLOCK") \o b : b \in BoundedSeq(DeadlockLines, 4)}
Inspected == {<<[Base EXCEPT !.text = t]>> : t \in Texts}
             \cup {<<[Base EXCEPT !.state = st]>> : st \in {"bad", "hung"}}

\* watch: one refused DSN and one server.
Watched == {<<[Base EXCEPT !.state = "bad"], [Base EXCEPT !.state = st, !.rows = r]>> :
              st \in {"bad", "hung", "up"}, r \in {<<>>, <<Row("h9", TRUE, 0)>>}}

MCFleets == ("check" :> Pairs(Checked)) @@ ("topology" :> Topologies)
            @@ ("status" :> Pairs(Plain)) @@ ("report" :> Two(Plain, {Base}))
            @@ ("diff" :> Configured) @@ ("doctor" :> Pairs(Patients))
            @@ ("innodb" :> Inspected) @@ ("watch" :> Watched)
=============================================================================
