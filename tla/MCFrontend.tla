----------------------------- MODULE MCFrontend -----------------------------
(* A feed with a rejected message, events of two transactions and of none,  *)
(* two at one time; chains with repeated, backward, reflexive and dangling  *)
(* edges; an index whose pages match the queries differently.               *)
EXTENDS Frontend

Ev(ts, type, service, pid, duration, tx) ==
    [ts |-> ts, type |-> type, service |-> service, pid |-> pid, duration |-> duration, tx |-> tx]

MCEvent == <<
    Ev(1, "sys_read", "a", 1, 0, "T1"), Ev(2, "sched_switch", "b", 2, 2, "none"),
    Ev(2, "sys_write", "api-worker", 1, 9, "T2"), Ev(9, "tcp_send", "a", 3, 1, "T1") >>

MCFeed == << 1, 3, 0, 2, 4 >>

Edge(from, to, cause) == [from |-> from, to |-> to, cause |-> cause]

MCChains ==
    [T1 |-> { [nodes |-> <<1, 4>>, edges |-> << Edge(1, 4, "RTT"), Edge(4, 1, "RTT"), Edge(1, 4, "SEQ") >>],
              [nodes |-> <<1>>, edges |-> <<>>] },
     T2 |-> { [nodes |-> <<2, 3, 1>>, edges |-> << Edge(2, 3, "SCHED"), Edge(3, 2, "SEQ"),
                                                  Edge(3, 3, "SEQ"), Edge(9, 3, "SEQ") >>] }]

MCSessions == { {"stream", "graph"}, {"stream", "replay"}, {"stream", "settings"}, {"docs"} }

Entry(title, href) == [title |-> title, href |-> href]

MCFallback == << Entry("intro", 2), Entry("start", 4) >>
MCDocs     == { Entry("start", 4), Entry("replay", 3), Entry("intro", 2) }

MCMatch(entry, q) ==
    [exact |-> entry.title = q, starts |-> entry.title = q,
     title |-> entry.title = q \/ <<entry.title, q>> = <<"start", "re">>,
     section |-> FALSE, description |-> entry.title = "intro", href |-> entry.title = q,
     titleParts |-> IF <<entry.title, q>> = <<"replay", "re">> THEN 1 ELSE 0, descriptionParts |-> 0]

MCHome    == Entry("home", 0)
MCAbout   == Entry("about", 1)
MCCompare == Entry("compare", 5)
=============================================================================
