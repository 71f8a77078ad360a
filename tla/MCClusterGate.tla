---------------------------- MODULE MCClusterGate ----------------------------
(* Input lists for ClusterGate: one file of one or two statements, or two   *)
(* files, the second of which may be unreadable.                            *)
EXTENDS ClusterGate

Local == [kind |-> "local", body |-> "none"]
Cluster == [kind |-> "cluster", body |-> "none"]
Routines == {s \in Statement : s.kind \notin Plain}

MCInputs ==
  {<<File(TRUE, <<s>>)>> : s \in Statement}
    \cup {<<File(TRUE, <<s, t>>)>> : s \in {Local, [kind |-> "plpgsql", body |-> "local"]},
                                    t \in Routines}
    \cup {<<File(TRUE, <<s>>), File(readable, <<Local>>)>> :
            s \in {Local, Cluster}, readable \in BOOLEAN}
=============================================================================
