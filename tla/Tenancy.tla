-------------------------------- MODULE Tenancy --------------------------------
(***************************************************************************)
(* What workspace creation promises: a workspace comes into being in ONE   *)
(* step together with its owner's membership and the audit event of the    *)
(* request that created it, no request creates two, and it never vanishes. *)
(* Memberships change afterwards; the event does not.                      *)
(***************************************************************************)
CONSTANTS Users, Workspaces, RequestIds, MemberStates, None

VARIABLE tenant   \* a workspace with its memberships and creation event

Born(members, user, request) ==
  [row |-> TRUE, members |-> members,
   events |-> {[user |-> user, request |-> request]}]

CreateWorkspace(w, user, request) ==
  /\ tenant[w] = None
  /\ \A other \in Workspaces : tenant[other] # None =>
       \A event \in tenant[other].events : event.request # request
  /\ tenant' = [tenant EXCEPT ![w] =
       Born([u \in Users |-> IF u = user THEN "OWNER" ELSE "NONE"],
            user, request)]

ChangeMembership(w, user) ==
  /\ tenant[w] # None
  /\ \E state \in MemberStates :
       tenant' = [tenant EXCEPT ![w].members[user] = state]

Init == tenant = [w \in Workspaces |-> None]

Next ==
  \/ \E w \in Workspaces, user \in Users, request \in RequestIds :
       CreateWorkspace(w, user, request)
  \/ \E w \in Workspaces, user \in Users : ChangeMembership(w, user)

Spec == Init /\ [][Next]_tenant
=============================================================================
