-------------------------- MODULE MCIntegrationKeys -------------------------
(* IntegrationKeys with interchangeable handlers and credentials.            *)
EXTENDS IntegrationKeys, TLC

Symmetry == Permutations(Credential) \cup Permutations(Handler)
              \cup Permutations(Key \ {FirstKey})
=============================================================================
