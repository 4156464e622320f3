-------------------------------- MODULE MCReads --------------------------------
(* Instances of ConnectionReads for TLC. *)
EXTENDS ConnectionReads, TLC

CONSTANTS owner, builder, w1, p1, p2, c1, c2, c3, n1, clean

MCCanonicalize == clean :> clean
MCRolesOf == (owner :> {"OWNER"}) @@ (builder :> {"BUILDER", "VIEWER", None})

MCConnectionRank == (c1 :> 1) @@ (p1 :> 2)

(* The timestamps come in any order, so one order of the uuids is enough. *)
MCRank ==
  (c1 :> 2) @@ (c2 :> 3) @@ (c3 :> 1) @@ (p1 :> 5) @@ (p2 :> 4)

Mutation(kind) ==
  [kind |-> kind, user |-> owner, workspace |-> w1, project |-> p1,
   connection |-> c1, name |-> n1,
   access |-> [mode |-> "WORKSPACE", projects |-> {}],
   configuration |-> clean]

Query(kind) ==
  [kind |-> kind, user |-> builder, workspace |-> w1, connection |-> c1,
   project |-> p1, number |-> 1]

AllCreations ==
  {[Mutation("CREATE_CONNECTION") EXCEPT !.connection = c] :
     c \in {c1, c2, c3}}
  \cup {[Mutation("CREATE_PROJECT") EXCEPT !.project = p] : p \in {p1, p2}}

Publications ==
  {Mutation(kind) :
     kind \in {"CREATE_CONNECTION", "PUT_DRAFT", "PUBLISH", "ARCHIVE"}}

ListQueries == {Query("LIST_CONNECTIONS"), Query("LIST_PROJECTS"),
                Query("GET_PROJECT")}
ConfigurationQueries ==
  {Query("LIST_REVISIONS"), Query("GET_REVISION"), Query("GET_DRAFT"),
   Query("GET_CONNECTION")}
=============================================================================
