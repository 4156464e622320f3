------------------------------ MODULE MCSessions ------------------------------
(* Instances of session provisioning for TLC. *)
EXTENDS SessionSafety, TLC

CONSTANTS u1, u2, known, own, shared

(* Two identities: the provider reports one email for both of them, and    *)
(* another email of the first one after it has been changed.               *)
TwoEmailsOf == (u1 :> {own, shared}) @@ (u2 :> {known, shared})

(* One identity whose profile never conflicts. *)
OneEmailOf == u1 :> {own}
=============================================================================
