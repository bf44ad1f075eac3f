-------------------------- MODULE VeleroReconciler --------------------------
(***************************************************************************)
(* One Velero resource, the controller that reconciles it, and the two     *)
(* clusters its objects live on.                                           *)
(*                                                                         *)
(* The controller works in passes.  A pass reads the Velero and the        *)
(* ProviderConfig once, then visits the managed objects one API call after *)
(* the other (Manager.Apply or Manager.Delete), runs the secret cleaner    *)
(* and writes the status.  Everything else moves between any two of those  *)
(* calls: users edit the Velero and the ProviderConfig, API servers finish *)
(* deletions, a foreign actor removes an object, the pod rolls out, a call *)
(* fails, the controller process dies.                                     *)
(*                                                                         *)
(* One step is one API call with the computation around it.  For Apply     *)
(* that is the Get/mutate/Create-or-Update of controllerutil.CreateOrUpdate *)
(* taken together: the write carries the resourceVersion of the read, so   *)
(* an interfering write turns it into an error, which is a fault here.     *)
(***************************************************************************)
EXTENDS VeleroObjects, FiniteSets

CONSTANTS
  Specs,        \* what a user can request: a version with its plugins
  Supported,    \* those inside the version window of the controller
  Drift,        \* objects that somebody other than the controller deletes
  MaxFaults,    \* bound on failed calls, crashes, pod failures, foreign deletes
  MaxEdits,     \* bound on edits of the Velero spec and of the ProviderConfig
  MaxTogether,  \* bound on all of these together
  None          \* no image

ASSUME SupportedSpecs == Supported \subseteq Specs
ASSUME DriftObjects   == Drift \subseteq Objects
ASSUME NoneIsNoSpec   == None \notin Specs
ASSUME Bounds         == {MaxFaults, MaxEdits, MaxTogether} \subseteq Nat

VARIABLES
  \* The Velero on the onboarding cluster.
  life,       \* "absent", "new" (no finalizer yet), "active" or "deleting"
  hasID,      \* the instance-id label is set
  spec,       \* spec.version and spec.plugins
  phase,      \* status.phase, "Unset" before the first pass
  released,   \* why the finalizer of the last Velero went: "complete" when
              \* every object was reported deleted, "rejected" when the
              \* requested version was refused, "no" while it is held
  \* The ProviderConfig and its neighbours on the platform cluster.
  available,  \* the specs all of whose images availableImages lists
  pull,       \* imagePullSecrets
  source,     \* pull secrets that exist in the namespace of the controller
  \* The MCP and the workload cluster.
  store,      \* each object: "absent", "live" or "terminating"
  image,      \* the image in the pod template of the server deployment
  pod,        \* the image of the ready server pod
  tampered,   \* objects a foreign actor deleted, until they are recreated
  \* The pass in progress.
  mode,       \* "idle", "apply" or "delete"
  snapSpec,   \* the Velero spec as the pass read it
  snapPull,   \* imagePullSecrets as the pass read them
  todo,       \* objects still to visit
  checked,    \* checkForDependents succeeded for the object being deleted
  gone,       \* objects whose OperationResult is OperationResultDeleted
  failed,     \* some result carries an error
  seen,       \* the phase GetStatus reports for the in-memory object
  listed,     \* the secret cleaner has listed the copies of pull secrets
  redundant,  \* copies it has on its list to delete
  \* Bounds.
  faults, edits

crVars     == <<life, hasID, spec, phase, released>>
configVars == <<available, pull, source>>
storeVars  == <<store, image, pod, tampered>>
passVars   == <<mode, snapSpec, snapPull, todo, checked, gone, failed, seen,
                listed, redundant>>
boundVars  == <<faults, edits>>
vars       == <<crVars, configVars, storeVars, passVars, boundVars>>

States == {"absent", "live", "terminating"}
ObjectPhases == {"Pending", "Progressing", "Ready", "Terminating"}

-----------------------------------------------------------------------------
(***************************************************************************)
(* What the code computes from what it read.                               *)
(***************************************************************************)

\* createObjectManager accepts the spec: validateRequestedVersion and
\* resolveImages both succeed.
Valid(s) == s \in Supported /\ s \in available

\* The phase an in-memory object reports that was never read from the API:
\* no UID, no status and, for a deployment, replicas defaulting to one.
Unread(o) == IF o \in {"dep", "mcpDep"} THEN "Progressing" ELSE "Pending"

\* Faulty variants of Status: no StatusFunc; a deletionTimestamp nobody reads.
StatusWithoutFunc(o, s)    == "Unknown"
StatusIgnoringDelete(o, s) == IF s = "absent" THEN Unread(o) ELSE "Ready"

\* The phase an object in state s reports when the API returned it.  The
\* deployment on the MCP wants zero pods, the server deployment wants one.
Status(o, s) ==
  CASE s = "absent"      -> Unread(o)
    [] s = "terminating" -> "Terminating"
    [] s = "live"        -> IF o = "dep" /\ pod = None THEN "Progressing"
                                                       ELSE "Ready"

\* The object whose turn it is: clusters in order, objects in order.
IsNext(o) == o \in todo /\ \A p \in todo : Rank(o) <= Rank(p)

\* The API server creates an object only in a namespace that is not
\* terminating; an existing one can be updated.
Writable(o) ==
  \/ store[o] # "absent"
  \/ \A ns \in Namespaces : o \in Contents(ns) => store[ns] = "live"

\* The ReconcileFunc of o can succeed: a pull secret is copied from its
\* source; a token is requested for the service account unless the existing
\* one lives long enough.
Reconcilable(o) ==
  CASE o \in PullSecrets -> o \in source
    [] o = "token"       -> store["token"] # "absent" \/ store["sa"] # "absent"
    [] OTHER             -> TRUE

\* The ReconcileFunc of o can fail although no call is faulty: the source is
\* missing, or a new token is due and there is no service account.
Refusable(o) ==
  CASE o \in PullSecrets -> o \notin source
    [] o = "token"       -> store["sa"] = "absent"
    [] OTHER             -> FALSE

\* Faulty variants of Stale: the secrets to keep are forgotten; no cleaner runs.
AllCopies == {s \in PullSecrets : store[s] # "absent"}
NoneStale == {}

\* Managed secrets in the instance namespace that are neither wanted by the
\* ProviderConfig of this pass nor the token.
Stale == {s \in PullSecrets \ snapPull : store[s] # "absent"}

AllReady == \A o \in Managed(snapPull) : seen[o] = "Ready"

\* Faulty variants of AllDeleted: a requested deletion counts; an orphaned
\* object does not.
AllRequested   == todo = {}
AllButOrphaned == Managed(snapPull) \subseteq {o \in gone : Policy(o) = "delete"}

AllDeleted == Managed(snapPull) \subseteq gone

Room  == faults + edits < MaxTogether
Fault == faults < MaxFaults /\ Room /\ faults' = faults + 1
Edit  == edits < MaxEdits /\ Room /\ edits' = edits + 1

-----------------------------------------------------------------------------
Init ==
  /\ life = "absent" /\ hasID = FALSE /\ spec \in Specs
  /\ phase = "Unset" /\ released = "no"
  /\ available = Supported /\ pull \in SUBSET PullSecrets /\ source = PullSecrets
  /\ store = [o \in Objects |-> "absent"]
  /\ image = None /\ pod = None /\ tampered = {}
  /\ mode = "idle" /\ snapSpec = None /\ snapPull = {} /\ todo = {}
  /\ checked = FALSE /\ gone = {} /\ failed = FALSE
  /\ listed = FALSE /\ redundant = {}
  /\ seen = [o \in Objects |-> Unread(o)]
  /\ faults = 0 /\ edits = 0

-----------------------------------------------------------------------------
(***************************************************************************)
(* Users of the onboarding cluster and the operator of the platform.       *)
(***************************************************************************)

CreateVelero ==
  /\ life = "absent" /\ mode = "idle"
  /\ life' = "new" /\ hasID' = FALSE /\ spec' \in Specs
  /\ phase' = "Unset" /\ released' = "no"
  /\ UNCHANGED <<configVars, storeVars, passVars, boundVars>>

\* Without a finalizer the API server removes the Velero at once.
RequestDelete ==
  /\ life \in {"new", "active"}
  /\ life' = IF life = "new" THEN "absent" ELSE "deleting"
  /\ UNCHANGED <<hasID, spec, phase, released, configVars, storeVars, passVars,
                 boundVars>>

EditSpec ==
  /\ life # "absent" /\ Edit
  /\ spec' \in Specs \ {spec}
  /\ UNCHANGED <<life, hasID, phase, released, configVars, storeVars, passVars,
                 faults>>

EditAvailable ==
  /\ Edit
  /\ \E s \in Supported :
       available' = IF s \in available THEN available \ {s} ELSE available \cup {s}
  /\ UNCHANGED <<pull, source, crVars, storeVars, passVars, faults>>

EditPull ==
  /\ Edit
  /\ pull' \in (SUBSET PullSecrets) \ {pull}
  /\ UNCHANGED <<available, source, crVars, storeVars, passVars, faults>>

EditSource ==
  /\ Edit
  /\ \E s \in PullSecrets :
       source' = IF s \in source THEN source \ {s} ELSE source \cup {s}
  /\ UNCHANGED <<available, pull, crVars, storeVars, passVars, faults>>

User == CreateVelero \/ RequestDelete \/ EditSpec
Operator == EditAvailable \/ EditPull \/ EditSource

-----------------------------------------------------------------------------
(***************************************************************************)
(* The API servers and the kubelet of the two clusters, and the foreign    *)
(* actor of Drift.                                                         *)
(***************************************************************************)

\* A deleted object disappears; a namespace only after everything in it.
Finalize(o) ==
  /\ store[o] = "terminating"
  /\ \A c \in Contents(o) : store[c] = "absent"
  /\ store' = [store EXCEPT ![o] = "absent"]
  /\ image' = IF o = "dep" THEN None ELSE image
  /\ pod'   = IF o = "dep" THEN None ELSE pod
  /\ UNCHANGED <<tampered, crVars, configVars, passVars, boundVars>>

\* The namespace controller deletes what a terminating namespace holds.
Sweep(o) ==
  \E ns \in Namespaces :
    /\ o \in Contents(ns)
    /\ store[ns] = "terminating" /\ store[o] = "live"
    /\ store' = [store EXCEPT ![o] = "terminating"]
    /\ tampered' = IF ns \in tampered THEN tampered \cup {o} ELSE tampered
    /\ UNCHANGED <<image, pod, crVars, configVars, passVars, boundVars>>

\* Strategy Recreate: the old pod stops, then the new one starts.  It mounts
\* the token secret, which is not optional.
RollOut ==
  /\ store["dep"] = "live" /\ pod # image
  /\ \/ pod # None /\ pod' = None
     \/ pod = None /\ store["token"] # "absent" /\ pod' = image
  /\ UNCHANGED <<store, image, tampered, crVars, configVars, passVars, boundVars>>

PodFails ==
  /\ pod # None /\ Fault /\ pod' = None
  /\ UNCHANGED <<store, image, tampered, crVars, configVars, passVars, edits>>

Tamper(o) ==
  /\ o \in Drift /\ store[o] = "live" /\ Fault
  /\ store' = [store EXCEPT ![o] = "terminating"]
  /\ tampered' = tampered \cup {o}
  /\ UNCHANGED <<image, pod, crVars, configVars, passVars, edits>>

Clusters == (\E o \in Objects : Finalize(o) \/ Sweep(o)) \/ RollOut
Foreign  == PodFails \/ \E o \in Objects : Tamper(o)

-----------------------------------------------------------------------------
(***************************************************************************)
(* The controller: what happens before a pass.                             *)
(***************************************************************************)

\* The runtime adds the finalizer before it first calls the reconciler.
AddFinalizer ==
  /\ mode = "idle" /\ life = "new" /\ life' = "active"
  /\ UNCHANGED <<hasID, spec, phase, released, configVars, storeVars, passVars,
                 boundVars>>

\* createObjectManager returns ErrInvalidUserInput.  An unsupported version is
\* refused before ensureInstanceID, an unavailable one after it.
RejectApply ==
  /\ mode = "idle" /\ life = "active" /\ ~Valid(spec)
  /\ hasID' = (hasID \/ spec \in Supported)
  /\ phase' = "Progressing"
  /\ UNCHANGED <<life, spec, released, configVars, storeVars, passVars, boundVars>>

\* The same in Delete: the error is dropped, the result is that of a finished
\* deletion, and the runtime removes the finalizer.
RejectDelete ==
  /\ mode = "idle" /\ life = "deleting" /\ ~Valid(spec)
  /\ life' = "absent" /\ released' = "rejected"
  /\ hasID' = (hasID \/ spec \in Supported)
  /\ phase' = "Terminating"
  /\ UNCHANGED <<spec, configVars, storeVars, passVars, boundVars>>

\* ensureInstanceID fails to update the Velero; the error is returned and the
\* runtime retries.
FailInstanceID ==
  /\ mode = "idle" /\ life \in {"active", "deleting"}
  /\ spec \in Supported /\ ~hasID /\ Fault
  /\ phase' = IF life = "active" THEN "Progressing" ELSE "Terminating"
  /\ UNCHANGED <<life, hasID, spec, released, configVars, storeVars, passVars,
                 edits>>

\* createObjectManager succeeds: the instance id is set and the objects are
\* registered from the spec and the ProviderConfig as they are now.
StartPass(m) ==
  /\ mode = "idle" /\ Valid(spec)
  /\ mode' = m /\ hasID' = TRUE
  /\ snapSpec' = spec /\ snapPull' = pull /\ todo' = Managed(pull)
  /\ UNCHANGED <<checked, gone, failed, seen, listed, redundant, life, spec, phase,
                 released, configVars, storeVars, boundVars>>

\* Faulty variant of StartApply: the deletion timestamp is not looked at.
ApplyAlways == life \in {"active", "deleting"} /\ StartPass("apply")

StartApply  == life = "active"   /\ StartPass("apply")
StartDelete == life = "deleting" /\ StartPass("delete")

-----------------------------------------------------------------------------
(***************************************************************************)
(* The controller: Manager.Apply, one object at a time.  An error is       *)
(* recorded and the pass goes on.                                          *)
(***************************************************************************)

\* Faulty variant of Visited: the first error ends the visits.
StopAtError(o) ==
  /\ todo' = IF failed' THEN {} ELSE todo \ {o}
  /\ UNCHANGED <<mode, snapSpec, snapPull, listed, redundant>>

\* An error of the object does not keep the pass from the next one.
Visited(o) ==
  /\ todo' = todo \ {o}
  /\ UNCHANGED <<mode, snapSpec, snapPull, listed, redundant>>

\* The effect of a successful CreateOrUpdate on the cluster.
Written(o) ==
  /\ store' = [store EXCEPT ![o] = IF @ = "absent" THEN "live" ELSE @]
  /\ tampered' = IF store[o] = "absent" THEN tampered \ {o} ELSE tampered
  /\ image' = IF o = "dep" THEN snapSpec ELSE image
  /\ pod' = pod

ApplyObject(o) ==
  /\ mode = "apply" /\ IsNext(o)
  /\ Writable(o) /\ Reconcilable(o)
  /\ Written(o)
  /\ seen' = [seen EXCEPT ![o] = Status(o, store'[o])]
  /\ UNCHANGED <<checked, gone, failed, crVars, configVars, boundVars>>
  /\ Visited(o)

\* What the in-memory object reports after an error: nothing was read, the
\* object was read, or (replicas = 0 already set) the create itself failed.
SeenOnError(o) ==
  {Unread(o), Status(o, store[o])} \cup (IF o = "mcpDep" THEN {"Ready"} ELSE {})

ApplyRefused(o) ==
  /\ mode = "apply" /\ IsNext(o)
  /\ ~Writable(o) \/ Refusable(o)
  /\ failed' = TRUE
  /\ \E p \in SeenOnError(o) : seen' = [seen EXCEPT ![o] = p]
  /\ Visited(o)
  /\ UNCHANGED <<checked, gone, crVars, configVars, storeVars, boundVars>>

\* A call fails, with or without its effect on the server.
ApplyFault(o) ==
  /\ mode = "apply" /\ IsNext(o) /\ Fault
  /\ \/ UNCHANGED storeVars
     \/ Writable(o) /\ Reconcilable(o) /\ Written(o)
  /\ failed' = TRUE
  /\ \E p \in SeenOnError(o) : seen' = [seen EXCEPT ![o] = p]
  /\ Visited(o)
  /\ UNCHANGED <<checked, gone, crVars, configVars, edits>>

-----------------------------------------------------------------------------
(***************************************************************************)
(* The controller: Manager.Delete, one object at a time.                   *)
(***************************************************************************)

DependentsOf(o) == Dependents(o, Managed(snapPull))

\* checkForDependents reads the dependents into their in-memory objects.  It
\* succeeds when none of them exists any more ...
CheckDependents(o) ==
  /\ mode = "delete" /\ IsNext(o) /\ ~checked
  /\ DependentsOf(o) # {}
  /\ \A d \in DependentsOf(o) : store[d] = "absent"
  /\ checked' = TRUE
  /\ UNCHANGED <<mode, snapSpec, snapPull, todo, gone, failed, seen, listed,
                 redundant, crVars, configVars, storeVars, boundVars>>

ReadInto(D) ==
  seen' = [p \in Objects |-> IF p \in D THEN Status(p, store[p]) ELSE seen[p]]

\* ... and otherwise o is skipped with an error.  A dependent whose read fails
\* keeps its in-memory object.
RefuseDelete(o) ==
  /\ mode = "delete" /\ IsNext(o) /\ ~checked
  /\ \/ /\ \E d \in DependentsOf(o) : store[d] # "absent"
        /\ ReadInto(DependentsOf(o)) /\ UNCHANGED faults
     \/ /\ Fault
        /\ \E D \in SUBSET DependentsOf(o) : D # DependentsOf(o) /\ ReadInto(D)
  /\ failed' = TRUE
  /\ Visited(o)
  /\ UNCHANGED <<checked, gone, edits, crVars, configVars, storeVars>>

MayDelete(o) ==
  /\ mode = "delete" /\ IsNext(o)
  /\ checked \/ DependentsOf(o) = {}

\* Orphaned objects and objects the API server does not find count as
\* deleted; of the others the deletion is requested.
DeleteObject(o) ==
  /\ MayDelete(o)
  /\ IF Policy(o) = "orphan" \/ store[o] = "absent"
       THEN gone' = gone \cup {o} /\ UNCHANGED store
       ELSE gone' = gone /\ store' = [store EXCEPT ![o] = "terminating"]
  /\ checked' = FALSE
  /\ UNCHANGED <<failed, seen, image, pod, tampered, crVars, configVars, boundVars>>
  /\ Visited(o)

\* The call fails, with or without its effect on the server.
DeleteFault(o) ==
  /\ MayDelete(o) /\ Policy(o) = "delete" /\ Fault
  /\ \/ UNCHANGED store
     \/ store[o] # "absent" /\ store' = [store EXCEPT ![o] = "terminating"]
  /\ failed' = TRUE /\ checked' = FALSE
  /\ Visited(o)
  /\ UNCHANGED <<gone, seen, image, pod, tampered, crVars, configVars, edits>>

-----------------------------------------------------------------------------
(***************************************************************************)
(* The controller: what ends a pass.                                       *)
(***************************************************************************)

\* secretCleaner.Cleanup lists the managed secrets of the instance namespace
\* and keeps the redundant ones to delete; it runs in a deletion as well.
ListCopies ==
  /\ mode # "idle" /\ todo = {} /\ ~listed
  /\ listed' = TRUE /\ redundant' = Stale
  /\ UNCHANGED <<mode, snapSpec, snapPull, todo, checked, gone, failed, seen,
                 crVars, configVars, storeVars, boundVars>>

\* Without a list nothing is deleted.
ListFault ==
  /\ mode # "idle" /\ todo = {} /\ ~listed /\ Fault
  /\ listed' = TRUE /\ failed' = TRUE
  /\ UNCHANGED <<mode, snapSpec, snapPull, todo, checked, gone, seen, redundant,
                 crVars, configVars, storeVars, edits>>

\* Then it deletes them one by one, by name, whatever has become of them since:
\* a copy that is not there any more counts as deleted.
Unlist(s) ==
  /\ mode # "idle" /\ todo = {} /\ listed
  /\ s \in redundant /\ redundant' = redundant \ {s}
  /\ UNCHANGED <<mode, snapSpec, snapPull, todo, checked, gone, seen, listed,
                 image, pod, tampered, crVars, configVars>>

WithoutCopy(s) == [store EXCEPT ![s] = IF @ = "absent" THEN @ ELSE "terminating"]

DeleteCopy(s) ==
  /\ Unlist(s)
  /\ store' = WithoutCopy(s)
  /\ UNCHANGED <<failed, boundVars>>

\* A failed deletion, with or without its effect, does not keep it from the next.
DeleteCopyFault(s) ==
  /\ Unlist(s) /\ Fault
  /\ store' \in {store, WithoutCopy(s)}
  /\ failed' = TRUE /\ UNCHANGED edits

Cleanup      == ListCopies \/ \E s \in PullSecrets : DeleteCopy(s)
CleanupFault == ListFault \/ \E s \in PullSecrets : DeleteCopyFault(s)
Cleaned      == listed /\ redundant = {}

\* The manager and its objects are built anew for every pass.
EndPass ==
  /\ mode' = "idle" /\ snapSpec' = None /\ snapPull' = {} /\ todo' = {}
  /\ checked' = FALSE /\ gone' = {} /\ failed' = FALSE
  /\ listed' = FALSE /\ redundant' = {}
  /\ seen' = [o \in Objects |-> Unread(o)]

\* Faulty variant of FinishApply: Ready whatever the results say.
FinishAnyway ==
  /\ mode = "apply" /\ Cleaned /\ EndPass /\ phase' = "Ready"
  /\ UNCHANGED <<life, hasID, spec, released, configVars, storeVars, boundVars>>

\* The end of CreateOrUpdate and the status update of the runtime.
FinishApply ==
  /\ mode = "apply" /\ Cleaned /\ EndPass
  /\ phase' = IF ~failed /\ AllReady THEN "Ready" ELSE "Progressing"
  /\ UNCHANGED <<life, hasID, spec, released, configVars, storeVars, boundVars>>

\* The end of Delete: with everything deleted the runtime removes the
\* finalizer and the Velero disappears, otherwise the pass is repeated.
FinishDelete ==
  /\ mode = "delete" /\ Cleaned /\ EndPass
  /\ IF ~failed /\ AllDeleted
       THEN life' = "absent" /\ released' = "complete" /\ UNCHANGED phase
       ELSE phase' = "Terminating" /\ UNCHANGED <<life, released>>
  /\ UNCHANGED <<hasID, spec, configVars, storeVars, boundVars>>

\* The controller dies or the last write is lost; in-memory state is gone.
Crash ==
  /\ mode # "idle" /\ Fault /\ EndPass
  /\ UNCHANGED <<edits, crVars, configVars, storeVars>>

ApplyPass  == \/ \E o \in Objects : ApplyObject(o) \/ ApplyRefused(o) \/ ApplyFault(o)
              \/ FinishApply
DeletePass == \/ \E o \in Objects : \/ CheckDependents(o) \/ RefuseDelete(o)
                                    \/ DeleteObject(o) \/ DeleteFault(o)
              \/ FinishDelete
Before     == \/ AddFinalizer \/ RejectApply \/ RejectDelete \/ FailInstanceID
              \/ StartApply \/ StartDelete

Controller == \/ Before \/ ApplyPass \/ DeletePass \/ Cleanup \/ CleanupFault

Next == User \/ Operator \/ Clusters \/ Foreign \/ Controller \/ Crash

(***************************************************************************)
(* The work queue hands a Velero out again after every pass: after the     *)
(* requeue delay, after the poll interval or, on an error, with backoff.   *)
(* The clusters finish deletions and roll out pods.  Users, operators and  *)
(* faults owe nothing.                                                     *)
(***************************************************************************)
Fairness ==
  /\ WF_vars(Controller)
  /\ WF_vars(RollOut)
  /\ \A o \in Objects : WF_vars(Finalize(o)) /\ WF_vars(Sweep(o))

Spec == Init /\ [][Next]_vars
FairSpec == Spec /\ Fairness

-----------------------------------------------------------------------------
TypeOK ==
  /\ life \in {"absent", "new", "active", "deleting"} /\ hasID \in BOOLEAN
  /\ spec \in Specs /\ phase \in {"Unset", "Progressing", "Ready", "Terminating"}
  /\ released \in {"no", "complete", "rejected"}
  /\ available \subseteq Supported
  /\ pull \subseteq PullSecrets /\ source \subseteq PullSecrets
  /\ store \in [Objects -> States]
  /\ image \in Specs \cup {None} /\ pod \in Specs \cup {None}
  /\ tampered \subseteq Objects
  /\ mode \in {"idle", "apply", "delete"}
  /\ snapSpec \in Specs \cup {None} /\ snapPull \subseteq PullSecrets
  /\ todo \subseteq Objects /\ checked \in BOOLEAN /\ gone \subseteq Objects
  /\ failed \in BOOLEAN /\ seen \in [Objects -> ObjectPhases]
  /\ listed \in BOOLEAN /\ redundant \subseteq PullSecrets
  /\ faults \in 0..MaxFaults /\ edits \in 0..MaxEdits

\* The namespace of o is being deleted and takes o with it.
Swept(o) == \E ns \in Namespaces : o \in Contents(ns) /\ store[ns] = "terminating"

\* The objects that hold or define data of the end user, and the others.
UserData  == {"mcpNs"} \cup Crds
Deletable == Objects \ UserData

(***************************************************************************)
(* Safety.                                                                 *)
(***************************************************************************)

\* When Delete reports completion and the finalizer goes, no deletable object
\* is left on either cluster: not one created by an earlier pass whose results
\* were lost, nor a pull secret that a changed ProviderConfig no longer lists,
\* whatever failed or was edited on the way.
CompleteCleanup ==
  released = "complete" => \A o \in Deletable : store[o] = "absent"

\* README.md:174, "A finalizer ensures the Service Provider managed resources
\* like `Deployments` etc. are cleaned-up": a Velero that is gone has left no
\* deletable object behind, for whatever reason its finalizer was removed.
FinalizerGuarantee ==
  released # "no" => \A o \in Deletable : store[o] = "absent"

\* Delete never requests the deletion of the service account while the token
\* secret exists: the check is one call, the delete another, and other actors
\* and earlier passes move around them.
TokenGoesFirst ==
  [][mode = "delete" /\ store["sa"] = "live" /\ store'["sa"] = "terminating"
       => store["token"] = "absent" \/ "sa" \in tampered']_vars

\* End-user data survives: neither a pass nor the clean-up after a Velero ever
\* takes away the MCP namespace or a CRD; only a foreign actor does.
UserDataKept ==
  [][\A o \in UserData :
       store[o] # "absent" /\ o \notin tampered
         => store'[o] = "live" \/ o \in tampered']_vars

\* Ready is only written, for the first time or again, when every object the pass
\* registered is on its cluster and no redundant pull secret is, but for what a
\* foreign actor took.
ReadyIsEarned ==
  [][FinishApply /\ phase' = "Ready"
       => /\ \A o \in Managed(snapPull) : store[o] = "live" \/ o \in tampered
          /\ \A s \in PullSecrets \ snapPull : store[s] # "live"]_vars

\* Outside of a deletion the controller takes no object from the instance but
\* pull secrets the ProviderConfig of the pass does not list.
ApplyRemovesOnlyStale ==
  [][\A o \in Objects :
       mode = "apply" /\ store[o] = "live" /\ store'[o] = "terminating"
         => o \in tampered' \/ o \in PullSecrets \ snapPull
            \/ Swept(o)]_vars

\* A deletion only advances: once the Apply pass it caught under way is over, no
\* Apply begins again, nothing is created and no deletion is taken back, so that
\* every object only goes from there to terminating to gone until the finalizer
\* is removed, whatever is edited, fails or is retried.
DeletionOnlyAdvances ==
  [][life = "deleting" /\ mode # "apply"
       => /\ mode' # "apply"
          /\ \A o \in Objects : store'[o] # store[o]
                                 => store[o] = "live" \/ store'[o] = "absent"]_vars

\* The message of SimpleStatus for the phase Pending, "Resource has not been
\* created yet.", is true of every object a deletion pass is about to report.
PendingIsNotCreated ==
  mode = "delete" /\ Cleaned
    => \A o \in Managed(snapPull) : seen[o] = "Pending" => store[o] = "absent"

-----------------------------------------------------------------------------
(***************************************************************************)
(* Why the safety properties hold: the parts of an inductive invariant.    *)
(***************************************************************************)

\* Nothing exists in a namespace that does not.
NamespaceInv ==
  \A ns \in Namespaces :
    store[ns] = "absent" => \A c \in Contents(ns) : store[c] = "absent"

\* Only a foreign actor ever deletes an object with user data.
UserDataInv == \A o \in UserData : store[o] = "terminating" => o \in tampered

\* What a deletion pass has found deleted stays so until the pass is over.
GoneInv ==
  /\ mode = "delete" => life = "deleting"
  /\ mode # "delete" => gone = {}
  /\ \A o \in gone \cap Deletable : store[o] = "absent"

\* A successful check for dependents stays true until the delete it guards.
CheckedInv == checked => mode = "delete" /\ store["token"] = "absent"

\* A Velero whose finalizer is gone is not reconciled any more.
ReleasedInv == released # "no" => life = "absent" /\ mode = "idle"

\* A finished deletion leaves no deletable object, and none comes back.
Inv ==
  /\ NamespaceInv /\ UserDataInv /\ GoneInv /\ CheckedInv /\ ReleasedInv
  /\ CompleteCleanup

\* Why Ready is earned: the parts of an invariant of Apply passes.  What a pass
\* saw ready stays there but for a foreign actor or a namespace on its way out.
Earned(o) == store[o] = "live" \/ o \in tampered

\* A pod goes with its deployment.
PodInv == store["dep"] = "absent" => pod = None

\* The visits go by rank, the cleaner comes last.
VisitsInv ==
  /\ mode = "idle" => ~listed
  /\ mode = "apply" => /\ todo \subseteq Managed(snapPull)
                       /\ "wlNs" \in todo => {"dep"} \cup snapPull \subseteq todo
                       /\ listed => todo = {}

\* The pass may still report Ready, as far as errors and the namespace go.
Hopeful == mode = "apply" /\ ~failed /\ ("wlNs" \in todo \/ seen["wlNs"] = "Ready")

SeenReady(o) == o \in Managed(snapPull) \ todo /\ seen[o] = "Ready"

VisitedInv ==
  Hopeful => \A o \in Objects \ {"token"} : SeenReady(o) => Earned(o)

\* The token secret is visited before its namespace and may go with one that is
\* terminating since an earlier deletion; then the server cannot start.
TokenSeenInv ==
  Hopeful /\ SeenReady("token") =>
    \/ Earned("token")
    \/ store["wlNs"] = "terminating" /\ "wlNs" \notin tampered /\ "wlNs" \in todo
    \/ store["token"] = "absent" /\ pod = None /\ ("dep" \in todo \/ seen["dep"] # "Ready")

\* What the cleaner has on its list the pass does not want, although the list was
\* taken earlier, and what the pass does not want is on the list or gone.
ListInv ==
  /\ redundant # {} => listed
  /\ redundant \subseteq PullSecrets \ snapPull

CleanedInv ==
  mode = "apply" /\ listed /\ ~failed
    => \A s \in PullSecrets \ snapPull : store[s] = "live" => s \in redundant

ReadyInv ==
  PodInv /\ VisitsInv /\ VisitedInv /\ TokenSeenInv /\ ListInv /\ CleanedInv

(***************************************************************************)
(* What a Velero goes through, seen from outside.                          *)
(***************************************************************************)
LifeBar == CASE life = "active"   -> "held"
             [] life = "deleting" -> "ending"
             [] OTHER             -> life

Lifecycle == INSTANCE VeleroLifecycle
               WITH life     <- LifeBar,
                    owned    <- {o \in Objects : store[o] # "absent"},
                    open     <- mode = "apply",
                    accepted <- Valid(spec),
                    Foreign  <- Drift

\* The passes of the controller, with all that happens between their calls,
\* keep the promise of VeleroLifecycle: nothing is created but by an Apply that
\* began for an accepted Velero, the finalizer goes only when nothing is left
\* or the Velero is refused.
ImplementsLifecycle == Lifecycle!Spec

(***************************************************************************)
(* Liveness.                                                               *)
(***************************************************************************)

\* A deletion comes to its end, through errors, crashes and namespaces that
\* take their time.
DeletionCompletes == life = "deleting" ~> life = "absent"

Settled ==
  /\ life = "active" /\ Valid(spec) /\ pull \subseteq source

Converged ==
  /\ phase = "Ready" /\ pod = spec
  /\ \A o \in Managed(pull) : store[o] = "live"
  /\ \A s \in PullSecrets \ pull : store[s] = "absent"

\* A Velero that can be provided and stays undisturbed is provided: all objects
\* exist, redundant pull secrets are gone, the requested image runs, the status
\* says Ready and keeps saying so, whatever state was there before.
Converges == <>[]Settled => <>[]Converged
=============================================================================
