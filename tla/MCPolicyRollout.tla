--------------------------- MODULE MCPolicyRollout --------------------------
(* PolicyRollout for TLC.                                                   *)
EXTENDS PolicyRollout

Profile(min, ciphers, groups) == [min |-> min, ciphers |-> ciphers, groups |-> groups]
Modern == Profile("VersionTLS13", {"aes13"}, <<>>)
Custom == Profile("VersionTLS12", {"aes", "rc4"}, <<"future", "x25519">>)
NoGroups == Profile("VersionTLS12", {"aes"}, <<"future">>)

\* The cluster's default; honoured, not honoured, partly usable and unusable.
MCPolicies ==
    {[spec |-> intermediateProfileSpec, adherence |-> ""],
     [spec |-> Modern, adherence |-> "Strict"],
     [spec |-> Modern, adherence |-> "Legacy"],
     [spec |-> Custom, adherence |-> "Strict"],
     [spec |-> NoGroups, adherence |-> "Strict"]}

\* The operator beside the operand's own namespace, and in it.
MCSettings ==
    {[namespace |-> "opendatahub", image |-> "related"],
     [namespace |-> DefaultOperandNamespace, image |-> ""]}

=============================================================================
