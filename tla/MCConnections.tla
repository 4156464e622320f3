---------------------------- MODULE MCConnections ----------------------------
(* Instances of ConnectionTransactions for TLC. *)
EXTENDS ConnectionSafety, TLC

CONSTANTS owner, builder, viewer, w1, w2, p1, p2, c1, c2, n1, n2

Provider == INSTANCE ProviderConfiguration

(* "  HTTPS://[::1]:443/a /" keeps the blank of its path on its first pass *)
(* through GenericHttpProvider and loses it on the second.                 *)
Submitted ==
  [form |-> "url", padded |-> TRUE, scheme |-> "HTTPS",
   credentials |-> FALSE, host |-> "ipv6", bracketed |-> TRUE,
   port |-> "443", path |-> <<"slash", "letter", "blank", "slash">>,
   query |-> "absent"]
Plaintext == [Submitted EXCEPT !.scheme = "http"]

Compiled(configurations) ==
  {Provider!Compile(c) : c \in configurations} \ {None}

MCConfigurations ==
  {Submitted, Plaintext} \cup Compiled({Submitted})
    \cup Compiled(Compiled({Submitted}))

MCCanonicalize == [c \in MCConfigurations |-> Provider!Compile(c)]

MCRolesOf == (owner :> {"OWNER", "VIEWER"}) @@ (builder :> {"BUILDER", None})
MCTwoRoles == (owner :> {"OWNER"}) @@ (builder :> {"BUILDER"})
MCFixedRolesOf == (owner :> {"OWNER"}) @@ (builder :> {"BUILDER", None})

SessionSymmetry == Permutations(Sessions)

(* Fields a request does not read have a fixed value. *)
Request(kind, user) ==
  [kind |-> kind, user |-> user, workspace |-> w1, project |-> p1,
   connection |-> c1, name |-> n1,
   access |-> [mode |-> "SELECTED_PROJECTS", projects |-> {}],
   configuration |-> Submitted]

Selected(projects) == [mode |-> "SELECTED_PROJECTS", projects |-> projects]
WorkspaceWide == [mode |-> "WORKSPACE", projects |-> {}]

PublicationOperations ==
  {Request("CREATE_CONNECTION", builder),
   Request("PUT_DRAFT", builder),
   [Request("PUT_DRAFT", builder) EXCEPT !.configuration = Plaintext],
   Request("PUBLISH", builder), Request("PUBLISH", owner),
   Request("DISABLE", owner), Request("ENABLE", owner),
   Request("ARCHIVE", owner)}

AccessOperations ==
  {[Request("CREATE_CONNECTION", builder) EXCEPT !.access = Selected({p1})],
   [Request("CREATE_CONNECTION", owner) EXCEPT !.access = WorkspaceWide],
   Request("CREATE_PROJECT", builder),
   [Request("CREATE_PROJECT", owner) EXCEPT !.project = p2,
                                            !.workspace = w2],
   [Request("REPLACE_ACCESS", builder) EXCEPT !.access = Selected({p1})],
   [Request("REPLACE_ACCESS", builder) EXCEPT !.access = WorkspaceWide],
   [Request("REPLACE_ACCESS", owner) EXCEPT !.access = WorkspaceWide],
   [Request("REPLACE_ACCESS", owner) EXCEPT !.access = Selected({p1, p2})],
   [Request("RENAME", owner) EXCEPT !.name = n2],
   [Request("RENAME", owner) EXCEPT !.workspace = w2],
   Request("RENAME", builder)}

(* Two connections over the same two projects. *)
ContentionOperations ==
  {[Request("CREATE_CONNECTION", owner) EXCEPT !.connection = c] :
     c \in {c1, c2}}
  \cup {[Request("REPLACE_ACCESS", u) EXCEPT
            !.connection = IF u = owner THEN c1 ELSE c2,
            !.access = Selected({p1, p2})] : u \in {owner, builder}}
  \cup {[Request("CREATE_PROJECT", owner) EXCEPT !.project = p] :
          p \in {p1, p2}}
=============================================================================
