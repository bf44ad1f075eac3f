# Verification of service-provider-velero

TLA+ models of the controller in `src/`, model-checked with TLC, and theorems
about them whose proofs TLAPS checks. Paths and line numbers below are relative
to the repository's root. `PROJECT.json` holds the exact map from definitions to
lines, the list of runs, the hazards, the findings and the theorems.

## 1. Inventory: the system and what makes it correct

The provider reconciles `Velero` resources of the onboarding cluster. For each it
keeps a set of objects on two clusters: the managed control plane (MCP), where
the user's backups, restores and CRDs live, and the workload cluster, where the
Velero server runs and talks to the MCP with a token.

| Component | Code | State it keeps | Operations | Modules |
| --- | --- | --- | --- | --- |
| Reconciler | `internal/controller/velero_controller.go` | none in memory; `Velero.status`, the instance-id label | `CreateOrUpdate`, `Delete`, `createObjectManager`, `ensureInstanceID` | `VeleroReconciler`, `VeleroLifecycle` |
| Resource manager | `pkg/resources/manager.go`, `managedobject.go` | the results of one pass, the in-memory objects | `Apply`, `Delete`, `reconcileObject`, `checkForDependents`, `AllDeleted`, statuses | `VeleroObjects`, `VeleroReconciler`, `TwoControllers` |
| Managed objects | `pkg/namespace`, `pkg/authn`, `pkg/authz`, `pkg/crds`, `pkg/deployment` | the objects on the clusters | a `ReconcileFunc`, a `StatusFunc`, a deletion policy and dependencies each | `VeleroObjects`, `VeleroReconciler`, `ServerRollout`, `PodSpec` |
| Secret sync and cleaner | `pkg/secret/secret.go` | copies of pull secrets in the instance namespace | `Configure`, `Cleanup` | `VeleroReconciler` (which copies exist), `ServerRollout` (their data) |
| Token refresh | `pkg/authn/serviceaccount.go` | token and expiration annotation of the token secret | the `ReconcileFunc` of the token secret | `TokenRefresh` |
| Version window, images | `velero_controller.go:173-259` | none | `validateRequestedVersion`, `resolveImages`, `resolveImage` | `ImageResolution` |
| Pod spec of the token | `pkg/authn/serviceaccount.go:156-226` | none | `TokenApplyFunc`, `applyToContainer`, `addOrReplace*` | `PodSpec`, `ImageResolution` |
| Instance identity | `pkg/instance/identity.go`, `pkg/meta/labels.go` | the instance-id label | `GetID`, `SetID`, `GenerateID`, `Namespace` | `InstanceIdentity` |
| API types | `api/v1alpha1` | Velero and ProviderConfig | accessors | fields as variables where they are read |
| Registration, clusters | `pkg/resources/managedcluster.go` | the objects of a pass, in order | `AddObject`, `GetHostAndPort` | `VeleroObjects`, `PodSpec` |
| Process wiring | `cmd/service-provider-velero/main.go` | none after start-up | permissions, leader election | `ClusterAccess`, `TwoControllers` |

How they interact. A runtime library outside of the repository calls
`CreateOrUpdate` or `Delete` with the Velero, the ProviderConfig and clients for
the clusters. Both build a manager and its objects anew (`createObjectManager`),
let the manager visit the objects one API call after the other, run the secret
cleaner and turn the results into a status or into the removal of the finalizer.
Nothing survives a pass but what is on the clusters.

What is hard here, and the correctness the models look at:

- *Passes are long and nothing is locked.* Between two calls of a pass users edit
  the Velero, operators edit the ProviderConfig, API servers finish deletions,
  somebody deletes an object, calls fail, the process dies. Deletion must be
  complete when it says so; Ready must be true when it is written.
- *The set of managed objects changes.* It is computed from the ProviderConfig of
  the pass; an object that leaves the set is found again only by the cleaner, or
  goes with its namespace.
- *Deletion has an order and exceptions.* The token secret goes before the service
  account; the MCP namespace and the CRDs stay, because they hold the user's data.
- *Creation has an order too, and the code does not follow it.* The token secret is
  visited before its namespace, so that a first pass always fails on it and the
  second repairs it. That it converges at all is a matter of liveness, and that
  Ready is not written for a secret that is going with an old namespace is a
  matter of what the deployment behind it reports.
- *Data is copied.* Pull secrets rotate, their sources go away, users write into the
  copies; the status of the server is read at the moment its template is written.
- *Two processes* may work on one Velero, because leader election is off by default.
- *Identity is a label.* It names the namespace on a workload cluster that all Veleros
  share, and users can edit it.
- *Time.* The token must be replaced before it expires, by passes that come at an
  interval, may be late, and may be refused.

The hazards at their lines, each with the properties that cover it, are in
`PROJECT.json` under `hazards`.

## 2. Modules

| Module | What it models |
| --- | --- |
| `VeleroObjects` | the managed objects: identity, visiting order, policy, dependencies, namespaces |
| `VeleroReconciler` | one Velero, the controller's passes, both clusters, users, operator, faults; safety, the parts of the inductive invariants, liveness |
| `VeleroLifecycle` | the abstract specification of what the provider promises of one Velero; implemented by `VeleroReconciler` |
| `ClusterAccess` | extends the core with the permissions requested at start-up |
| `TwoControllers` | composes the core with a second instance of its controller |
| `ServerRollout` | the data of a pull secret, the pod template and the pod behind the objects the core only knows to exist |
| `InstanceIdentity` | several Veleros on one workload cluster, their ids and namespaces |
| `TokenRefresh` | the token in time: expiry, refresh rule, volume refresh of the kubelet |
| `ImageResolution` | version window, look-up of images, images of the containers |
| `PodSpec` | the pod template and the injection of the token; operators only, used by `ImageResolution` |
| `MC*` | values of the constants for TLC |
| `VeleroReconcilerProofs`, `VeleroReadyProofs`, `VeleroRefinementProofs`, `TwoControllersProofs`, `TokenRefreshProofs`, `ServerRolloutProofs`, `InstanceIdentityProofs`, `ImageResolutionProofs` | theorems |

### VeleroReconciler

State. `life`, `hasID`, `spec`, `phase` are the Velero; `available`, `pull`, `source`
the ProviderConfig and the pull secrets it refers to; `store` says of each object
whether it is absent, live or terminating; `image` and `pod` are the image in the pod
template and the one that runs. The variables from `mode` to `redundant` are the memory
of the pass: what it read at its start, the objects it has not yet visited, its results,
the copies of pull secrets its cleaner has yet to delete. `released` and `tampered` are
history variables: why the finalizer of the last Velero went, and which objects somebody
other than the controller deleted.

Steps. One step is one API call with the computation around it. `StartApply` and
`StartDelete` are `createObjectManager`; `RejectApply`, `RejectDelete` and
`FailInstanceID` its error paths. `ApplyObject`, `ApplyRefused` and `ApplyFault` are
`reconcileObject` in an Apply: success, an error every attempt would give, and an
error of the call. `CheckDependents`, `RefuseDelete`, `DeleteObject` and
`DeleteFault` are the same in a deletion. When the read of the dependent fails,
`RefuseDelete` leaves the in-memory object of that dependent as it was (`ReadInto`).
The secret cleaner runs in both kinds of pass, in several calls: `ListCopies` reads the
instance namespace once, then each redundant copy of that list is deleted by name
(`DeleteCopy`), which may be after it went or after a foreign actor or the other
process touched it. Either call may fail (`ListFault`, `DeleteCopyFault`), and the pass
then carries on with the next copy and reports the error. `Cleanup` and `CleanupFault`
are the disjunctions of these steps. `FinishApply` and `FinishDelete` end the pass. A failed
call may have had its effect on the server. Visiting an object for Apply is one
step although `controllerutil.CreateOrUpdate` makes two calls: the update carries
the resource version that was read, and a create fails when the object appeared
meanwhile, so an interference is an error of the call. The check for dependents
and the deletion it guards are two steps, because nothing ties them together.

Left out of the core: the data of all objects but the image of the server
deployment, labels, the value of the instance id, `status.resources` but for the
phases, log and event messages. `ServerRollout` has the data of the pull secret and
the pod template, `InstanceIdentity` the id.

### VeleroLifecycle

The promise, without passes: objects appear only while a pass provides them (`Open`,
`Provide`, `Close`); a pass opens only for an accepted Velero that holds its
finalizer; user data is lost only through others; a Velero is released when nothing
but user data is left (`Release`), or abandoned when it is refused (`Abandon`).
`ImplementsLifecycle` in `VeleroReconciler` is the refinement: `life` maps to itself
with *active* called *held*, `owned` is every object that is not absent, `open` is a
pass in mode `apply`, `accepted` is `Valid(spec)`. That `Abandon` is needed at all is
finding 1.

### ClusterAccess

`McpRules` and `WorkloadRules` are the rules `main.go` requests. `CallsPermitted` says
of every call the pass in progress can make next that the client it uses has been
granted it, in the states the passes really reach.

### TwoControllers

The first process is `VeleroReconciler`; the second is another instance of its
controller (`B`), which shares every variable but those of the pass. It begins at
most `MaxPasses` passes. `overlap` records that an Apply and a Delete of the same
Velero were in progress at once. The model shows what that costs: without an overlap
the guarantees of one process hold for two; with one, a deletion can complete while
the other process still creates. User data is safe in any case. Two Applies at once
do no harm: a Ready that either of them writes is earned, all but the pull secrets,
which the cleaner of one may take from the other.

`LifecycleUnlessOverlap` measures two processes by the abstract life cycle. The mapping
is that of the core, but *open* is an Apply in progress in either process
(`Applying`). One step is excepted, `Premature`: the finalizer of a Velero goes after an
overlap, or while the other process is still in an Apply. The second happens without a
deletion pass, too, when a refused deletion drops the finalizer at once (`RejectDelete`).
Without the exception TLC finds that step; every other step of two processes is one of
the life cycle.

### ServerRollout

The pull secret has a source, a copy and versions of data that only grow; the
deployment has a template, a pod and `readyReplicas`, which the deployment controller
updates in its own time. Here `controllerutil.CreateOrUpdate` of the copy is three
calls: `GetCopy` reads it, `GetSource` is the read of the source in the
`ReconcileFunc`, `PutCopy` writes if something changed and is refused if the copy was
written in between. `Deploy` is one step, because its `ReconcileFunc` reads
nothing and overwrites the whole spec. An image may be on a node already
(`BecomeReady`), only `PullImage`, with the credentials the registry accepts, is
fair. `calm` records that the pass began with the roll-out at rest and nothing moved
since: only then Ready promises that the requested image runs, because the code does
not look at the observed generation.

### InstanceIdentity

Several Veleros, one workload cluster, one worker that runs their passes one after
the other. A Velero stands for the hash of its namespace and name. A pass is reduced
to the two objects the id matters for: the deployment on the MCP, whose selector is
immutable, and the namespace with the server in it. Labels can be removed, edited, or
brought along with a copied manifest. `written` records that somebody wrote an id
that is not the Velero's own; what holds without that (`Isolated`,
`NothingLeftBehind`) and what holds in spite of it (`ReadyAtHome`, `DeletionEnds`,
`IdentityHeals`) are separate properties.

### PodSpec

Volumes, mounts and environment variables are entries of a name and a value.
`AddOrReplace` is the three functions of that name, `TokenFunc` what `Configure` of the
service account returns, `ServerPod` the pod of the deployment before it.
`GetHost` and `GetPort` are `GetHostAndPort`. The URLs in `Urls` of `ImageResolution` are with and without scheme and port; a path
after the host is left out.

### What is external

The following is not code of this repository; it is modelled from how the code
uses it and marked `external` in the map.

- The runtime (opencontrolplane-runtime): adds `Velero.Finalizer` before it
  reconciles, calls `Delete` when a deletion timestamp is set, removes the finalizer
  when `Delete` returns an empty result and no error, writes the status, and hands
  the Velero out again after the poll interval, the requeue delay or a backoff.
- The API servers: a deleted object is terminating until its finalizers are done; a
  namespace until it is empty; nothing is created in a terminating namespace.
- Deployment controller and kubelet: strategy Recreate, the pod needs the token
  secret it mounts, a secret volume is refreshed with a delay.
- Users, the operator of the platform, and a foreign actor who deletes the objects
  in `Drift`. The foreign actor never touches what `Drift` does not list.

### TokenRefresh

Discrete time. `Reconcile` is the `ReconcileFunc` of the token secret: `MustRefresh`
and `NextReconcile` are its rule (`serviceaccount.go:135-137`). `Late` covers
everything that makes a pass end later than the poll interval says: the wait in the
work queue, failed attempts, the pass itself. `Delay` is the refresh of the secret
volume. With `MaySkip`, passes may be refused (`CreateOrUpdate` returns before
`Apply`); with `MayReplace`, the service account may be deleted and created again at any
time once there is a token, before or after the pod has started and more than once,
which voids its tokens while the annotation still promises an hour. `skipped` is a
history variable: whether a pass was ever refused.

The timing works only with enough room (`EnoughRoom`): the safeguard of the refresh rule
covers lateness and volume refresh, and every token outlives the poll interval and both.
Nothing in the code ensures that, so it is a premise of `ValidUnlessRefused`,
`ExpiryHeals` and `OutageIsBounded`; finding 3 is what happens without it. It does not
ask for lifetimes longer than poll interval and safeguard together: with a shorter one
every pass issues a new token, and the run has such a lifetime.

### ImageResolution

The request (version, plugins in order) and `availableImages` change in any order.
The version is a minor version and a flag for a pre-release: that is what the bounds
of the window, `>=1.16.0 <1.19.0`, can tell apart at their ends. Versions that do
not parse are refused like those outside of the window and left out. A plugin may be
requested twice: the pod then has two init containers of one name, the later of the two
requests decides for both, and `RunsAsRequested` says so.

### Faulty variants

Some definitions are preceded by one commented as a *faulty variant*, such as
`NoDependency` before `DependsOn`. Nothing uses it. It is the definition with a
plausible bug; with the bug in its place a property listed in `PROJECT.json`
under `mutants` is violated. They show that the properties depend on the code.

## 3. Runs

| Run | Configuration | What it shows |
| --- | --- | --- |
| `passes` | one CRD, one pull secret, an unsupported spec; a foreign actor on the CRD; at most 2 disturbances, of them at most 1 fault | `TypeOK`; `Inv` and `ReadyInv`, the inductive invariants of the proofs; `TokenGoesFirst`, `UserDataKept`, `ReadyIsEarned`, `ApplyRemovesOnlyStale`, `DeletionOnlyAdvances`; `CallsPermitted`; the refinement `ImplementsLifecycle` |
| `progress` | fair, one pull secret, 1 fault or 1 edit, foreign actor on the instance namespace and the service account | `DeletionCompletes`, `Converges`; `Inv` while others delete objects |
| `leak` | 1 edit | violation of `FinalizerGuarantee` |
| `pending_status` | no edit, no fault | violation of `PendingIsNotCreated` |
| `token` | poll 3, safeguard 4, lifetimes 6 and 9, late 1, delay 1, refused passes, replaced service accounts | `ValidUnlessRefused`, `TokenInv`, `OutageIsBounded`, `ExpiryHeals` |
| `poll_too_long` | poll 9, lifetime 6 | violation of `TokenAlwaysValid` |
| `token_of_refused` | refused passes | violation of `TokenAlwaysValid` |
| `images` | one plugin name, two locations, four versions at the ends of the window (1.16 and 1.19, each as pre-release and release), 2 entries, 2 plugins, also of the same name | `RunsAsRequested`, `RefusedForAReason`, `AppendingIsSafe`; `PodAuthenticates`, `InjectedOnce` |
| `window` | the same with one location | violation of `ServerInWindow` |
| `two_controllers` | no CRD, no pull secret, no faults; 1 pass of the second process | `CleanupUnlessOverlap`, `TokenFirstUnlessOverlap`, `ReadyUnlessOverlap`, `TwoKeepUserData`; the life cycle `LifecycleUnlessOverlap` |
| `rollout` | fair, two images, 1 rotation, 3 edits, 1 fault | `TypeOK`, `CopyIsRecent`, `ReadyAtRest`, `TemplateFollows`, `RolloutSettles` |
| `identity` | fair, two Veleros, 2 edits of labels, 1 fault | `TypeOK`, `Isolated`, `NothingLeftBehind`, `ReadyAtHome`, `DeletionEnds`, `IdentityHeals` |

Bounds. In the core `MaxFaults` bounds failed calls, crashes, pod failures and foreign
deletions, `MaxEdits` the edits, `MaxTogether` both; they may strike anywhere, and the
Velero may be deleted and created again without a bound. One CRD and one pull secret
are enough for interleavings: the code treats all CRDs alike and visits them
independently of one another, and the one pull secret may be listed or not in
either pass. Two edits are one to provide and one to take away; a fault and an edit
are the shortest way to objects that a pass made, lost track of and no longer lists.
What the bounds cut off, the theorems cover for the safety properties. In
`TwoControllers` each process has a full pass in progress against the other: one
pass of the second process meets every state of every pass of the first, and
what a pass of the second leaves behind meets any number of later ones of the first.
An Apply that meets what a deletion has left needs an edit of the request in between,
which multiplies the states beyond minutes: that part of `ReadyUnlessOverlap` rests on
`TwoReadyEarned` alone. In `ServerRollout`
three edits are a rotation, an upgrade and a write into the copy, in any order. In
`InstanceIdentity` two edits are one on each Velero or one and its undoing. In
`ImageResolution` two entries and two plugins make duplicates possible. In
`TokenRefresh` a lifetime of 6 is shorter than poll interval and safeguard together, 9 is
longer; time ends at `Horizon` = 25, after several refreshes of the longer lifetime.
No run switches the check for deadlocks off: there is always a user who may act or a
pass that may start.

Fairness. The work queue hands a Velero out again after every pass, after the requeue
delay, the poll interval or a backoff: the controller's steps are weakly fair
(`Controller`, `Pass`, `Visits`). With several Veleros the beginning of a pass of each
is strongly fair, because the queue is first in, first out and requeue delays do not
put one behind another for ever, while the worker is busy with others now and then.
Clusters finish deletions, namespace controllers empty terminating namespaces,
deployment controllers and kubelets work: weakly fair, a pull of an image only with
accepted credentials. There is no fairness for users, operators and faults; the
bounds on them are what makes them end. `DeletionCompletes` needs no premise.
`Converges` is stated under `<>[]Settled`: the Velero is requested, acceptable, and
the pull secrets it needs exist. `RolloutSettles` needs the source to stay,
`TemplateFollows` needs nothing: an upgrade reaches the template and a pod is made from
it also while every pass fails on a missing pull secret; whether that pod gets its
image and is ready is up to the copy, and so part of `RolloutSettles`. `DeletionEnds` and
`IdentityHeals` exclude the case that another Velero keeps using the same id.

`ReadyIsEarned` deserves a remark. Ready is written from statuses that were taken
during the pass, and an object deleted after its visit is not noticed; what the
property excludes is therefore only what the controller and the clusters do on their
own. It is about every write of Ready, also over an earlier Ready, and so is
`ReadyUnlessOverlap`. It says nothing of the image that runs; that is `ReadyAtRest`.

## 4. Findings

Five statements of the documentation and comments do not hold of the code. Each
has a run with a counterexample.

1. `leak`: when the version or a plugin of a Velero leaves `availableImages`, `Delete`
   returns what a finished deletion returns (`velero_controller.go:97-100`). The
   finalizer goes, all objects stay. README.md:174 says the finalizer ensures clean-up.
2. `pending_status`: a deletion pass never reads the objects it deletes, so it reports
   them as *not created yet* while they exist (`managedobject.go:41-46`).
3. `poll_too_long`: a poll interval longer than the lifetime of a token lets the token
   expire; the comment at `serviceaccount.go:131-134` says it is always refreshed in
   time. Nothing bounds `pollInterval`.
4. `token_of_refused`: a running server whose Velero is refused (version or plugin no
   longer listed, or an edited version outside of the window) loses its token when it
   expires, because refused passes do not reach the refresh.
5. `window`: images are kept in a map by name, so a plugin called `velero` replaces the
   image of the server with one outside of the window README.md:50 calls a hard gate.

## 5. Proofs

All theorems hold for every set of CRDs, pull secrets, specs, images and Veleros and
every bound, under the named assumptions of the modules: names of different roles are
different (`NamesDistinct`), supported specs are specs, `None` is none of the values it
stands beside, the nil map is no map of images (`NilIsNoMap`), the minor part of a version
is a natural number (`VersionShape`), bounds are natural numbers.

`VeleroReconcilerProofs`

- `TypeCorrect`: `Spec => []TypeOK`.
- `Safety`: `Spec => []Inv`. Of its parts, `CompleteCleanup` is what matters and is not
  inductive. A deletion completes when every registered object was found deleted, and
  a pull secret that is no longer registered can only be known to be gone because its
  namespace is: hence `NamespaceInv`, nothing exists in a namespace that does not. What
  was found deleted must stay so until the pass ends: `GoneInv`, which rests on the fact
  that only an Apply creates objects and that the mode cannot change inside a pass.
  That no Apply follows a removed finalizer is `ReleasedInv`.
- `TokenSafe`: `Spec => TokenGoesFirst`, from `CheckedInv`: between a successful check
  for dependents and the deletion it guards nobody creates the token secret.
- `UserDataSafe`: `Spec => UserDataKept`, from `UserDataInv`: a terminating MCP
  namespace or CRD was deleted by a foreign actor.

The proofs go by one lemma per group of actions and part of the invariant; the lemmas
on which effect a step has on `store` (`EveryStoreStep`, `NothingCreated`,
`DeleteStores`, `CleanupStores`) are shared by all parts and by the modules below. For
the types, `TypeParts` splits `TypeOK` into the groups of variables that actions leave
alone together, so that each action is looked at only in what it writes (`TypesKept`).

`VeleroReadyProofs`

- `ReadySafety`: `Spec => []ReadyInv`, and from it `ReadyEarned`: `Spec => ReadyIsEarned`.
  The invariant follows an Apply: what it saw ready is still there, or a foreign actor
  took it (`VisitedInv`), provided that the workload namespace was, or still can be,
  found live. The token secret is the exception (`TokenSeenInv`), since its visit comes
  before that of the namespace: it may be going with a namespace that is terminating,
  which the visit of the namespace then shows; or it is gone already, and
  then there is no pod (`PodInv`) and none can start, so the deployment is not
  ready. `VisitsInv` is the order of the visits. `ListInv` says that the list of the
  cleaner never holds a copy the pass wants, `CleanedInv` that a redundant copy that is
  still live is still on the list, unless a call failed.
- `ApplyIsGentle`: `Spec => ApplyRemovesOnlyStale`, from `ListInv`.
- `DeletionAdvances`: `Spec => DeletionOnlyAdvances`. No Apply begins for a Velero that is
  being deleted (`NoApplyOfDeleted`), and nothing but an Apply creates or restores an
  object (`EveryStoreStep`). It is the safety half of `DeletionCompletes`: what is left to
  the model checker is that the steps that remain are taken.
- `Permitted`: `Spec => []CallsPermitted`. The rules cover every object of every set of
  CRDs and pull secrets on the cluster it is on (`AllGranted`).

`VeleroRefinementProofs`

- `Refinement`: `Spec => ImplementsLifecycle`. Initial states map to initial states, and
  every step to a step or a stutter; the finish of a deletion to `Release`, which needs
  `CompleteCleanup` and `Inv` of the core, a refused deletion to `Abandon`, an object
  that disappears to `Lose`, which needs to know that only foreign actors delete user
  data.

`TwoControllersProofs`

- `TwoSafety`: `TwoSpec => []TwoInv`, and from it `TwoCleanup`, `TwoTokenSafe` and
  `TwoUserDataSafe`, which state the three properties of `TwoControllers`. A step is
  looked at in two ways: `SharedStep` is its effect on the clusters, whoever takes it;
  `Moves` is what it does to the pass of the process and to the Velero, stated of the
  pass variables of either process, so that one lemma serves both (`MoverKnows`,
  `MoverTogether`). `Knows` says that what a process found deleted stays so, and that
  its check for dependents stays true, unless there was an overlap; `Together` that no
  Apply outlives a deletion without one. User data needs no more than the effects.
- `TwoReadySafety`: `TwoSpec => []TwoReady`, and from it `TwoReadyEarned`:
  `TwoSpec => ReadyUnlessOverlap`. `ReadyInv` of one process is not enough, since the
  objects it has seen ready are now also written by the other, and a namespace may be
  terminating that a deletion of the other has left behind. The pass of either process is
  a record (`PassA`, `PassB`), so that every lemma serves both: `Works` is a step of a
  process, `Gentle` what all steps but those of a deletion do to the clusters. A pass
  believes what it saw ready to be there (`Believes`), with the same exception for the
  token secret as in `TokenSeenInv` and one more way out of it, that the other process
  creates the secret again (`GentleLoses`). The belief survives gentle steps of others
  (`OnlookerBelieves`) and steps of the pass itself (`WorkerBelieves`); a step of the
  other that is not gentle belongs to a deletion and is an overlap by `Together`.
- `TwoRefinement`: `TwoSpec => LifecycleUnlessOverlap`. A step of a process is reduced to
  what the life cycle can see of it (`Sees`, `FirstSees`, `SecondSees`): the modes of both
  processes, the Velero, and how the set of objects changes; `ProcessRefines` then maps
  each such view to a step, a stutter or `Premature`. It needs `LifecycleInv`: a
  terminating object with user data was deleted by a foreign actor and so is in `Drift`,
  and who deletes does so for a Velero that is being deleted or gone. That nothing but
  user data is left when the finalizer goes follows from `Knows` and `NamespaceInv` of
  `TwoSafety`.

`TokenRefreshProofs`. The theorems hold for all durations; `EnoughRoom` is a premise of
the properties themselves.

- `TypeCorrect`, and `TokenSafety`: `Spec => []TokenInv`. `Outlives`, which alone
  needs the room, says that after an accepted pass the token in the secret lives until the
  pod can have its successor, `Void` that a void token was issued before its service account was replaced.
- `TokenValid`, `TokenHeals`, `OutageBound`: `ValidUnlessRefused`, `ExpiryHeals` and
  `OutageIsBounded` follow from it.

`ServerRolloutProofs`

- `TypeCorrect`: `Spec => []TypeOK`.
- `CopyRecent`: `Spec => []CopyIsRecent`, by `SourceInv` (the source is gone or as new as
  the registry knows; what was read is no older than the pass; a write nobody saw is
  refused) and `RecentInv` (from the visit of the copy on, the copy stays recent).
- `ReadyIsTrue`: `Spec => ReadyAtRest`, by `RestInv`: the pass is calm only as long as
  the roll-out is at rest, since whatever moves the pod, its status or the template ends
  the calm.

`InstanceIdentityProofs`

- `TypeCorrect`: `Spec => []TypeOK`.
- `IsolatedAlways` and `NothingLeft`, by `OwnInv`: while no foreign id is written,
  everything of a Velero goes by its own id, also after the label was removed and set
  again, and a deletion that has found nothing leaves nothing.
- `ReadyIsHome`: `Spec => ReadyAtHome`, by `HomeInv`: what an Apply has visited without
  an error is where it works until it ends.

`ImageResolutionProofs`

- `TypeCorrect`: `Spec => []TypeOK`, for requests and configurations of any length.
- `Runs` and `Refused`: `Spec => []RunsAsRequested` and `Spec => []RefusedForAReason`.
  `AcceptedMeaning` reduces acceptance to the window and to an offer for every requested
  component; that needs to know that the map of images exists, hence that every name has
  a last component (`LastExists`, `LastOfIsRequested`) and that the first offer of a
  component is listed for it (`FirstIsFirst`, `Resolved`). `WindowMeaning` turns the
  order of versions into the releases and pre-releases of the window.
- `Gate`: the server runs a version of the window in every accepted request whose plugins
  have other names. Finding 5 is what happens without that condition.
- `Appending`: `Spec => AppendingIsSafe`. A longer configuration offers what the shorter
  did at the same positions, so the first offer is the same (`FirstOfMore`).
- `InjectionIsIdempotent`: for every pod, `TokenFunc` applied twice is `TokenFunc` applied
  once. It rests on what `AddOrReplace` preserves of a sequence. `PodStable`:
  `Spec => []InjectedOnce`, from it and `TypeCorrect`.
- `InjectionIsComplete`: for every well-formed pod and every URL, the injected pod is
  well-formed and each of its containers authenticates: names stay unique (`AddedNames`),
  and the three additions to a container do not undo each other (`ContainerComplete`).
  `Authenticated`: `Spec => []PodAuthenticates`, from it and from what becomes of the URLs
  an MCP can have (`HostAndPort`).

Only model-checked: liveness (`DeletionCompletes`, `Converges`, `TemplateFollows`,
`RolloutSettles`, `DeletionEnds`, `IdentityHeals`), which is out of reach of the prover.
Every safety invariant and action property of the passing runs is a theorem.

## 6. Not modelled

- Generated code, CRD manifests, test code, log formatting: nothing to decide.
- The rest of `main.go`: flags, schemes, certificates, metrics, probes; fixed at start-up.
- Specs of CRDs and of the role binding: constants every Apply writes. A pass overwrites
  them as it does the template in `ServerRollout`.
- Reading the expiration annotation: an annotation that is missing or cannot be parsed
  counts as no expiration (`exp` = 0 in `TokenRefresh`); formats are left out.
- Version strings beyond the minor version and the flag for a pre-release, URLs with a
  path, and image pull secrets that share a name with another managed secret, such as
  the token secret (`NamesDistinct`).
- `status.resources` of the Velero, apart from the phases that decide its own.

## 7. Order of the development

The core (`VeleroObjects`, `VeleroReconciler`) and its proofs came first, then
`TokenRefresh`, `ImageResolution`, the abstract `VeleroLifecycle` with its refinement,
and the compositions and neighbours of the core: `ClusterAccess`, `TwoControllers`,
`ServerRollout`, `InstanceIdentity`, `PodSpec`; then the theorems about images, pods and
the Ready of two processes. What would come next is more than one
overlapping pass of the second process under faults, which is larger than TLC covers in
minutes; the theorems of `TwoControllersProofs` already speak of it. The refinement of the
life cycle by two processes came last.
