--------------------------- MODULE VeleroObjects ---------------------------
(***************************************************************************)
(* The managed objects of one Velero instance: what createObjectManager    *)
(* registers on the managed control plane (MCP) and on the workload        *)
(* cluster, in which order a pass visits them, which namespace holds each, *)
(* what depends on what, and what a deletion does to each.                 *)
(*                                                                         *)
(* An object is named by its role.  Labels, images and data are left out   *)
(* here; a CRD or a pull secret is any member of a constant set.           *)
(***************************************************************************)
EXTENDS Naturals

CONSTANTS
  Crds,          \* names of the embedded Velero CRDs (13 in crds.yaml)
  PullSecrets    \* names an image pull secret of the ProviderConfig can have

McpFixed      == {"mcpNs", "sa", "crb", "mcpDep"}
WorkloadFixed == {"token", "wlNs", "dep"}
Fixed         == McpFixed \cup WorkloadFixed

\* Objects of different roles never share an identity.
ASSUME NamesDistinct ==
  /\ Crds \cap Fixed = {}
  /\ PullSecrets \cap Fixed = {}
  /\ Crds \cap PullSecrets = {}

Objects == Fixed \cup Crds \cup PullSecrets

\* The objects registered when the ProviderConfig lists the secrets in pull.
Managed(pull) == Fixed \cup Crds \cup pull

(***************************************************************************)
(* The visiting order of a pass: the MCP cluster is added to the manager   *)
(* first, each cluster's objects in registration order.  The token secret  *)
(* is registered by the service account's Configure and therefore comes    *)
(* before the workload namespace that holds it.  CRDs among themselves and *)
(* pull secrets among themselves are visited in any order.                 *)
(***************************************************************************)
Rank(o) ==
  CASE o = "mcpNs"       -> 1
    [] o = "sa"          -> 2
    [] o \in Crds        -> 3
    [] o = "crb"         -> 4
    [] o = "mcpDep"      -> 5
    [] o = "token"       -> 6
    [] o = "wlNs"        -> 7
    [] o \in PullSecrets -> 8
    [] o = "dep"         -> 9

\* Faulty variants of Policy: everything is deleted; every namespace is kept.
DeleteAll(o)        == "delete"
KeepNamespaces(o)   == IF o \in {"mcpNs", "wlNs"} \cup Crds THEN "orphan" ELSE "delete"

\* DeletionPolicy: the MCP namespace and the CRDs hold end-user data.
Policy(o) == IF o = "mcpNs" \/ o \in Crds THEN "orphan" ELSE "delete"

\* Faulty variant of DependsOn: the dependency is not declared.
NoDependency(o) == {}

\* DependsOn: only the token secret declares a dependency.
DependsOn(o) == IF o = "token" THEN {"sa"} ELSE {}

\* getDependents: the registered objects that declare o as a dependency.
Dependents(o, registered) == {d \in registered : o \in DependsOn(d)}

\* The objects that live inside a namespace.
Contents(ns) ==
  CASE ns = "mcpNs" -> {"sa", "mcpDep"}
    [] ns = "wlNs"  -> {"token", "dep"} \cup PullSecrets
    [] OTHER        -> {}

Namespaces == {"mcpNs", "wlNs"}
=============================================================================
