----------------------------- MODULE MCAlerter -----------------------------
\* Instances of Alerter: servers behind unix sockets, whose DSNs may differ in
\* their masked form or only in what MaskDSN hides, and whose hosts are all
\* "unknown".
EXTENDS Alerter

CONSTANTS t1, t2

MCHosts == {"unknown"}
MCHostOf == [t \in Targets |-> "unknown"]
MCMasked == [t \in Targets |-> t]
MCOneKey == [t \in Targets |-> t1]
\* All four channels; the webhook alone; a token without a chat; Grafana alone,
\* and behind a URL that does not parse.
MCSetups == {Channels, {"webhook"}, {"token", "grafana"}, {"grafana"}, {"grafana", "badurl"}}
MCFull == {Channels}
=============================================================================
