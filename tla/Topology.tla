----------------------------- MODULE Topology -----------------------------
(***************************************************************************)
(* `mysqlpulse topology` (src/internal/cli/topology.go): every server is   *)
(* asked whom it replicates from; the graph is put together afterwards by  *)
(* comparing those hosts with the hosts in the labels.                     *)
(***************************************************************************)
EXTENDS Sweep

\* A row whose Source_Host and Master_Host are empty, which is not a replica's:
\* the code gives up on it without trying the other statement.
queryReplInfo(s, lost) ==
  LET rows == ReplicaRows(s, lost)
  IN  IF rows # <<>> /\ rows[1].source = NoHost THEN <<>> ELSE rows

\* The GTID set is only shown and is left out.
TopologyNode(s, lost) ==
  LET rows == queryReplInfo(s, lost)
  IN  [instance |-> s.label,
       role |-> IF s.state = "bad" THEN "unknown"
                ELSE IF rows = <<>> THEN "source" ELSE "replica",
       source |-> IF rows = <<>> THEN NoHost ELSE rows[1].source,
       lag |-> IF rows = <<>> THEN -1 ELSE rows[1].lag,
       replicas |-> <<>>]

\* Mutant: the label is not cut at the port.
WholeLabel(instance) == instance[1] \o ":" \o instance[2]

\* Up to the first colon, which an IPv6 address has at once.
hostPart(instance) == IF instance[1] = "[::1]" THEN "[" ELSE instance[1]

\* No server has that for its host.
ASSUME TopologyAssumption == \A s \in Servers : s.rows # <<>> => s.rows[1].source # "["

Register(n, host, list) ==
  IF n.role = "replica" /\ n.source = host THEN Append(list, n.instance) ELSE list

replicaOf(nodes, host) == FoldLeft(LAMBDA list, n : Register(n, host, list), <<>>, nodes)

\* The second pass.  The lookup by the full label is left out: a Source_Host
\* has no port, so it finds nothing that the lookup by host does not.
Enrich(nodes, n) ==
  LET replicas == replicaOf(nodes, hostPart(n.instance))
  IN  CASE n.role = "source"                       -> [n EXCEPT !.replicas = replicas]
        [] n.role = "replica" /\ replicas # <<>>   -> [n EXCEPT !.role = "intermediate"]
        [] OTHER                                   -> n

discoverTopology == [i \in DOMAIN results |-> Enrich(results, results[i])]

(***************************************************************************)
(* Properties.                                                             *)
(***************************************************************************)
Host(s) == s.label[1]
Replicates(s) == s.rows # <<>> /\ s.rows[1].source # NoHost
Follows(s, host) == Replicates(s) /\ s.rows[1].source = host

\* The fleets on which hosts identify servers: by host names, one per host.
HostsIdentify ==
  \A i, j \in DOMAIN fleet : Host(fleet[i]) # "[::1]" /\
                             (Host(fleet[i]) = Host(fleet[j]) => i = j)

TrueRole(s) ==
  IF ~Replicates(s) THEN "source"
  ELSE IF \E r \in ToSet(fleet) : Follows(r, Host(s)) THEN "intermediate" ELSE "replica"

\* The graph is put together from what each server says of itself alone.  No
\* failure makes a source a replica, or lists a server under one whose host it
\* does not follow; and where nothing failed and hosts identify servers, every
\* role is right and every source lists exactly those that follow it.  A server
\* whose row names no host follows nobody, and counts as a source.
TopologyTellsTruth ==
  command = "topology" /\ stage = "ended" /\ results # <<>> =>
    LET nodes == discoverTopology
        Listed(i) == {j \in DOMAIN fleet : Contains(nodes[i].replicas, fleet[j].label)}
        Following(i) == {j \in DOMAIN fleet : Follows(fleet[j], Host(fleet[i]))}
    IN  /\ \A i \in DOMAIN fleet :
             nodes[i].role \in {"replica", "intermediate"} => Replicates(fleet[i])
        /\ \A i \in DOMAIN fleet : \A j \in Listed(i) :
             \E k \in Following(i) : fleet[k].label = fleet[j].label
        /\ failed = {} /\ HostsIdentify =>
             \A i \in DOMAIN fleet :
               /\ nodes[i].role = TrueRole(fleet[i])
               /\ nodes[i].role = "source" => Listed(i) = Following(i)
=============================================================================
