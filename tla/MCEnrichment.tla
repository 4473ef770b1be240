---------------------------- MODULE MCEnrichment ----------------------------
(***************************************************************************)
(* Service a with two signatures that are one resource; service b with the *)
(* URL of one of them, on another node; a server without a name that       *)
(* shares the port and the agent of b, and the URL of the other; a request *)
(* whose URL cannot be queried, made of an address over the loopback       *)
(* interface.                                                              *)
(***************************************************************************)
EXTENDS Enrichment

Get(url, port, agent, service, domain, host) ==
    [method |-> "GET", url |-> url, port |-> port, agent |-> agent,
     service |-> service, domain |-> domain, host |-> host, ip |-> ""]

MCRequest == 1 .. 5
MCFlow ==
    << Get("/orders/1", 8080, "agent1", "a", "", "node1"),
       Get("/orders/2", 8080, "agent1", "a", "", "node1"),
       Get("/orders/1", 8080, "agent2", "b", "b.example", "node2"),
       Get("/orders/2", 8080, "agent2", "", "", "vm2"),
       [Get("/users/{me}", 8080, "agent1", "", "10.0.0.1", "127.0.0.1") EXCEPT !.ip = "10.0.0.1"] >>

MCEndpoint == [u \in {MCFlow[r].url : r \in MCRequest} |-> u]
MCResource == [u \in DOMAIN MCEndpoint |-> IF u = "/users/{me}" THEN "users" ELSE "orders"]
MCDnsName  == {"b.example"}
MCAddress  == {"node1", "node2", "vm2", "10.0.0.1"}
MCValidUrl == {"/orders/1", "/orders/2"}
=============================================================================
