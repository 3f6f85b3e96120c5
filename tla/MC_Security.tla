------------------------------ MODULE MC_Security ------------------------------
(***************************************************************************)
(* Two identities: /alice, and /KEY/bob, whose KEY component comes before *)
(* the key id so that the names certificateNameToPublicKeyName gives for  *)
(* its certificates are not its keys.  The millisecond clock reaches 1 ms *)
(* and a second is 2 ms, so keys are made in the same and in different    *)
(* milliseconds, and certificates in the same second.                     *)
(***************************************************************************)
EXTENDS SelfVerifyPolicyManager

MCIdentities == {<<Comp("alice")>>, <<KEY, Comp("bob")>>}

=============================================================================
