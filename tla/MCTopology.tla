------------------------------ MODULE MCTopology ------------------------------
(* A small instance of Topology for TLC. *)
EXTENDS Topology

CONSTANTS d1, d2, d3, b1, t1, t2, h1, h2, h3, n1, n2

\* d2 and d3 share an address; nobody has h3.
MCTable     == <<d1, d2, d3>>
MCAddressOf == [d \in {d1, d2, d3} |-> IF d = d1 THEN h1 ELSE h2]
MCSubnets   == [d \in {d1, d2, d3} |-> CASE d = d1 -> {n1} [] d = d2 -> {} [] d = d3 -> {n2}]
MCHomeOf    == [h \in Ips |-> n1]
MCMatching  == {<<d1, d2>>, <<d2, d1>>}
MCPresences == {{d1, d2, d3}, {d1, d2}}

\* The way from h1 to h2, whose addresses are on one machine, and the way back,
\* which the trace begins by naming its target.
ThereView == [answers |-> {h2}, mac |-> [h \in Ips |-> IF h \in {h1, h2} THEN {h1} ELSE {}],
              route |-> [h \in Ips |-> IF h = h2 THEN <<h3, h1, h2>> ELSE <<>>]]
BackView  == [answers |-> {h1}, mac |-> [h \in Ips |-> {}],
              route |-> [h \in Ips |-> IF h = h1 THEN <<h1, h2, h1>> ELSE <<>>]]
MCViews == {ThereView, BackView}

MCLists == {<<h3, h2, h1>>}

MCSelections == {Providers, {"traceroute_hop"}}
===============================================================================
