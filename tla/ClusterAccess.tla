--------------------------- MODULE ClusterAccess ---------------------------
(***************************************************************************)
(* What the clients of the two clusters may do.  At start-up the process   *)
(* asks for rules on the MCP and on the workload cluster, long before and  *)
(* far away from the passes that live on them; a call that no rule grants  *)
(* would fail in every pass, some of them only in a deletion.              *)
(***************************************************************************)
EXTENDS VeleroReconciler

\* VerbAll.
Verbs == {"get", "list", "create", "update", "delete", "bind"}

\* Faulty variant of McpRules: the roles that are bound seem to be of no concern.
McpRulesWithoutRoles ==
  ({"namespaces", "serviceaccounts", "customresourcedefinitions", "deployments",
    "clusterrolebindings"} \X Verbs)
    \cup {<<"serviceaccounts/token", "create">>}

\* mcpPermissions and workloadPermissions.
McpRules ==
  ({"namespaces", "serviceaccounts", "customresourcedefinitions", "deployments",
    "clusterroles", "clusterrolebindings"} \X Verbs)
    \cup {<<"serviceaccounts/token", "create">>}
WorkloadRules ==
  {"namespaces", "secrets", "serviceaccounts", "deployments", "clusterroles",
   "clusterrolebindings"} \X Verbs

OnMcp(o) == o \in McpFixed \cup Crds

\* The resource of which an object is one.
Resource(o) ==
  CASE o \in Namespaces              -> "namespaces"
    [] o = "sa"                      -> "serviceaccounts"
    [] o \in Crds                    -> "customresourcedefinitions"
    [] o = "crb"                     -> "clusterrolebindings"
    [] o \in {"mcpDep", "dep"}       -> "deployments"
    [] o \in {"token"} \cup PullSecrets -> "secrets"

Granted(o, verb) ==
  <<Resource(o), verb>> \in (IF OnMcp(o) THEN McpRules ELSE WorkloadRules)

\* What the ReconcileFunc of o needs on the MCP besides the object: a token is
\* requested for the service account, and a role can be bound only by who may
\* bind it.
MayMutate(o) ==
  /\ o = "token" => Granted("sa", "get") /\ <<"serviceaccounts/token", "create">> \in McpRules
  /\ o = "crb"   => <<"clusterroles", "bind">> \in McpRules

\* Every call that the pass can make next is granted to the client it makes it
\* with: reading, creating or updating the object in an Apply, reading its
\* dependents, on whatever cluster, and deleting it in a Delete, and at last
\* listing and deleting pull secrets.
CallsPermitted ==
  /\ \A o \in todo : IsNext(o) =>
       IF mode = "apply"
         THEN /\ Granted(o, "get") /\ MayMutate(o)
              /\ Granted(o, IF store[o] = "absent" THEN "create" ELSE "update")
         ELSE IF DependentsOf(o) # {} /\ ~checked
                THEN \A d \in DependentsOf(o) : Granted(d, "get")
                ELSE Policy(o) = "delete" => Granted(o, "delete")
  /\ mode # "idle" /\ todo = {} /\ ~listed => <<"secrets", "list">> \in WorkloadRules
  /\ \A s \in redundant : Granted(s, "delete")
=============================================================================
