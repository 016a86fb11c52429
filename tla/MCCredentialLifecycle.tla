----------------------- MODULE MCCredentialLifecycle -----------------------
(* Instances of CredentialLifecycle for TLC. *)
EXTENDS CredentialLifecycle, TLC

RequestSymmetry ==
    Permutations(TokenRequests) \cup Permutations(CredentialRequests)
      \cup Permutations(NotificationRequests) \cup Permutations(ValidityRequests)
      \cup Permutations(Nonces)

============================================================================
