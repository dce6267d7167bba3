--------------------------- MODULE MCFormResource ----------------------------
(* FormResource on small worlds for TLC, beside the worlds of the Host's    *)
(* rules and of interleaved callers, in which no address is managed.        *)
EXTENDS FormResource, MCReferenceHost

\* One address, which another principal of the tenant also changes
Lane(name, ds, readers) ==
  [NoLane EXCEPT !.name = name, !.readers = readers, !.specs = {d.spec : d \in ds}]

Managed ==
  [World({As(Valued(Queue("q", <<>>), 2), Anne)}, {"apply", "delete"})
     EXCEPT !.lane = Lane("q", {Valued(Queue("q", <<>>), 1)}, {Alice, Anne})]

\* ... that sends a second Operation after the first has failed
Retried ==
  [World({As(Valued(Queue("q", <<>>), 2), Anne)}, {"apply"})
     EXCEPT !.operations = 2, !.recreated = 0, !.lane = Lane("q", {Valued(Queue("q", <<>>), 1)}, {Alice})]

\* ... whose relation points at a queue that is lost and created again
Drifted ==
  [World({As(Queue("r", <<>>), Anne)}, {"apply", "external"})
     EXCEPT !.lane = Lane("q", {Queue("q", <<"r">>)}, {Alice})]

ManagedWorlds ==
  RuleWorlds @@ ProtocolWorlds @@ "Managed" :> Managed @@ "Retried" :> Retried @@ "Drifted" :> Drifted
MCWorlds == ManagedWorlds
=============================================================================
