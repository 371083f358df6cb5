------------------------------ MODULE MCRecon ------------------------------
(* An instance of Recon for TLC: two names below the root that may share an *)
(* address, a foreign name, one that is no hostname and one that is no DNS  *)
(* name; tools that report names, shared addresses, foreign hosts and other *)
(* origins, alone and in pairs.                                             *)
EXTENDS Recon

MCNames     == {1, 2, 3, 4, 5}
MCAddresses == {11, 12}
MCExact     == {[host |-> 1, origin |-> 1, ip |-> 11]}

MCPipelines ==
  {Capabilities, Capabilities \ {"vulnerability_detection"},
   Capabilities \ {"subdomain_discovery", "vulnerability_detection"},
   Capabilities \ {"subdomain_discovery", "host_resolution"}}

MCDiscoveries == {{}, {1}, {1, 2}, {1, 3}, {2, 4}, {5}}
MCResolutions == {{0}, {0, 11}, {11}, {11, 12}}

Http(host, origin, ip, note) == [host |-> host, origin |-> origin, ip |-> ip, note |-> note]
MCRecords == {Http(1, 1, 11, 1), Http(1, 1, 11, 2), Http(2, 2, 11, 1), Http(1, 2, 99, 1),
              Http(11, 1, 99, 1), Http(3, 1, 12, 1)}
MCProbes  == {<<>>} \cup {<<r>> : r \in MCRecords} \cup
             {<<Http(1, 1, 11, 1), r>> : r \in MCRecords} \cup
             {<<Http(1, 1, 11, 1), Http(1, 2, 99, 1), Http(11, 1, 99, 1)>>}

Page(host, origin, path, note) ==
  [host |-> host, origin |-> origin, path |-> path, note |-> note]
MCCrawls == {{Page(1, 1, 1, 0)}, {Page(1, 1, 1, 0), Page(1, 1, 1, 1)},
             {Page(1, 1, 1, 0), Page(1, 1, 2, 0)}, {Page(1, 2, 1, 0), Page(12, 1, 1, 0)},
             {Page(3, 1, 1, 0), Page(2, 1, 1, 0)},
             {Page(1, 1, 1, 0), Page(1, 1, 2, 0), Page(11, 1, 1, 0)}}

Seen(host, path) == [source |-> [host |-> host, origin |-> 1, path |-> path], product |-> 1]
MCDetections == {{}, {Seen(1, 1)}, {Seen(1, 0), Seen(12, 1)}, {Seen(3, 1)}}

Hit(host) == [target |-> [host |-> host, origin |-> 1], template |-> 1]
MCScans == {{}, {Hit(1)}, {Hit(1), Hit(3)}}
============================================================================
