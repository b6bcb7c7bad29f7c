------------------------- MODULE MCGatewayDiscovery -------------------------
EXTENDS GatewayDiscovery

OneExtension == {[name |-> "e", ns |-> "a"]}

OneGateway == {[name |-> "g", ns |-> "b"]}

\* A target in the extension's own namespace, one in a named one, and junk.
MCSpecs == {[target |-> "g", ns |-> "", ready |-> TRUE],
            [target |-> "g", ns |-> "b", ready |-> FALSE], Malformed}

\* Listeners of every kind, none of use, and junk.
MCListenerSets ==
    {{[host |-> "wildcard", protocol |-> "HTTPS"],
      [host |-> "direct", protocol |-> "HTTP"],
      [host |-> "direct", protocol |-> "HTTPS"]},
     {[host |-> "none", protocol |-> "HTTP"]}, Undecodable}

=============================================================================
