------------------------------- MODULE MCTenants -------------------------------
(* An instance of TenantRequests for TLC. *)
EXTENDS TenantRequests, TLC

CONSTANTS ann, bob, ofAnn, ofBob, w1, w2

MCUserOf == (ofAnn :> ann) @@ (ofBob :> bob)

Request(kind, credential) ==
  [kind |-> kind, credential |-> credential, form |-> "valid",
   workspace |-> w1]

MCRequests ==
  {Request("CREATE", ofAnn), Request("CREATE", None),
   [Request("CREATE", None) EXCEPT !.form = "malformed"],
   [Request("CREATE", ofAnn) EXCEPT !.form = "invalid"],
   Request("LIST", ofAnn), Request("LIST", ofBob), Request("GET", ofBob),
   Request("ME", ofAnn), Request("READYZ", None)}
=============================================================================
