--------------------------- MODULE ServerRollout ---------------------------
(***************************************************************************)
(* What is in the objects of the workload cluster that VeleroReconciler    *)
(* only knows to exist: the data of a copied pull secret, the pod template *)
(* of the server deployment, and the pod that follows it.                  *)
(*                                                                         *)
(* A pass copies the pull secret from the platform cluster, rewrites the   *)
(* whole spec of the deployment and reports what readyReplicas says at     *)
(* that moment.  Between its calls the credentials rotate, their source is *)
(* removed, users change the requested image, the copy or the template,    *)
(* calls fail, the process dies, and the deployment controller and the     *)
(* kubelet work at their own pace.                                         *)
(***************************************************************************)
EXTENDS Naturals

CONSTANTS
  Images,       \* images the Velero can ask for
  MaxRotations, \* bound on the rotations of the credentials
  MaxEdits,     \* bound on edits by users and on rotations
  MaxFaults,    \* bound on failed calls, crashes and pod failures
  None          \* no image

ASSUME Bounds       == {MaxRotations, MaxEdits, MaxFaults} \subseteq Nat
ASSUME NoneIsNoImage == None \notin Images

\* Versions of the data of the pull secret: nothing, those in rotation, and
\* what a user writes over the copy.
Nothing  == 0
Garbage  == MaxRotations + 2
Versions == Nothing..Garbage

VARIABLES
  want,      \* the image of the server the Velero asks for
  newest,    \* the credentials the registry accepts
  source,    \* data of the pull secret on the platform cluster
  copy,      \* data of its copy in the instance namespace
  template,  \* image in the pod template, None while there is no deployment
  pod,       \* image of the server pod, None while there is no pod
  ready,     \* the server pod is ready
  counted,   \* status.readyReplicas of the deployment
  phase,     \* status.phase of the Velero
  \* The pass in progress.
  at,        \* "idle", or the call that is next
  snap,      \* the image as the pass read it
  readCopy,  \* the copy as CreateOrUpdate read it
  moved,     \* the copy was written since: its resourceVersion is another
  readSource,\* the source as the mutate function read it
  failed,    \* some result carries an error
  replicas,  \* readyReplicas as the call for the deployment returned it
  \* History, for the properties.
  floor,     \* the source when the pass began
  touched,   \* a user wrote the copy since the pass began
  calm,      \* the pass began with the server at rest and nothing moved since
  \* Bounds.
  edits, faults

wantVars   == <<want, newest, source>>
serverVars == <<pod, ready, counted>>
passVars   == <<at, snap, readCopy, readSource, failed, replicas>>
boundVars  == <<edits, faults>>
vars == <<wantVars, copy, template, serverVars, phase, passVars, moved, floor,
          touched, calm, boundVars>>

Edit  == edits < MaxEdits /\ edits' = edits + 1 /\ UNCHANGED faults
Fault == faults < MaxFaults /\ faults' = faults + 1 /\ UNCHANGED edits

Init ==
  /\ want \in Images /\ newest = 1 /\ source = 1
  /\ copy = Nothing /\ template = None
  /\ pod = None /\ ready = FALSE /\ counted = 0 /\ phase = "Unset"
  /\ at = "idle" /\ snap = None /\ readCopy = Nothing /\ readSource = Nothing
  /\ moved = FALSE /\ failed = FALSE /\ replicas = 0
  /\ floor = Nothing /\ touched = FALSE /\ calm = FALSE
  /\ edits = 0 /\ faults = 0

-----------------------------------------------------------------------------
(***************************************************************************)
(* Users, the operator and the registry.                                   *)
(***************************************************************************)

AskFor ==
  /\ Edit /\ want' \in Images \ {want}
  /\ UNCHANGED <<newest, source, copy, template, serverVars, phase, passVars,
                 moved, floor, touched, calm>>

\* New credentials, in the registry and in the source at once.
Rotate ==
  /\ Edit /\ newest <= MaxRotations
  /\ newest' = newest + 1 /\ source' = newest + 1
  /\ UNCHANGED <<want, copy, template, serverVars, phase, passVars, moved, floor,
                 touched, calm>>

RemoveSource ==
  /\ Edit /\ source # Nothing /\ source' = Nothing
  /\ UNCHANGED <<want, newest, copy, template, serverVars, phase, passVars, moved,
                 floor, touched, calm>>

\* A user deletes the copy or writes into it.
TouchCopy ==
  /\ Edit /\ copy # Nothing /\ copy' \in {Nothing, Garbage} \ {copy}
  /\ moved' = TRUE /\ touched' = TRUE
  /\ UNCHANGED <<wantVars, template, serverVars, phase, passVars, floor, calm>>

TouchTemplate ==
  /\ Edit /\ template # None /\ template' \in Images \ {template} /\ calm' = FALSE
  /\ UNCHANGED <<wantVars, copy, serverVars, phase, passVars, moved, floor, touched>>

Users == AskFor \/ Rotate \/ RemoveSource \/ TouchCopy \/ TouchTemplate

-----------------------------------------------------------------------------
(***************************************************************************)
(* The deployment controller and the kubelet.                              *)
(***************************************************************************)

elsewhere == <<wantVars, copy, template, phase, passVars, moved, floor, touched>>

\* Strategy Recreate: the pod of another template goes first.
StopPod ==
  /\ pod # None /\ pod # template
  /\ pod' = None /\ ready' = FALSE /\ calm' = FALSE
  /\ UNCHANGED <<counted, elsewhere, boundVars>>

CreatePod ==
  /\ template # None /\ pod = None
  /\ pod' = template /\ ready' = FALSE /\ calm' = FALSE
  /\ UNCHANGED <<counted, elsewhere, boundVars>>

BecomeReady ==
  /\ pod # None /\ ~ready /\ ready' = TRUE /\ calm' = FALSE
  /\ UNCHANGED <<pod, counted, elsewhere, boundVars>>

\* The image is pulled with the credentials of the copy.  It may also be on
\* the node already: BecomeReady alone.
PullImage == copy = newest /\ BecomeReady

PodFails ==
  /\ ready /\ Fault /\ ready' = FALSE /\ calm' = FALSE
  /\ UNCHANGED <<pod, counted, elsewhere>>

CountReplicas ==
  /\ counted # (IF ready THEN 1 ELSE 0)
  /\ counted' = IF ready THEN 1 ELSE 0
  /\ calm' = FALSE
  /\ UNCHANGED <<pod, ready, elsewhere, boundVars>>

Cluster == StopPod \/ CreatePod \/ BecomeReady \/ PodFails \/ CountReplicas

-----------------------------------------------------------------------------
(***************************************************************************)
(* A pass.                                                                 *)
(***************************************************************************)

AtRest == pod \in {None, template} /\ counted = (IF ready THEN 1 ELSE 0)

BeginPass ==
  /\ at = "idle" /\ at' = "getCopy"
  /\ snap' = want /\ failed' = FALSE
  /\ readCopy' = Nothing /\ readSource' = Nothing /\ replicas' = 0
  /\ floor' = source /\ touched' = FALSE /\ moved' = FALSE
  /\ calm' = AtRest
  /\ UNCHANGED <<wantVars, copy, template, serverVars, phase, boundVars>>

\* controllerutil.CreateOrUpdate reads the object ...
GetCopy ==
  /\ at = "getCopy" /\ at' = "getSource"
  /\ readCopy' = copy /\ moved' = FALSE
  /\ UNCHANGED <<snap, readSource, failed, replicas, wantVars, copy, template,
                 serverVars, phase, floor, touched, calm, boundVars>>

\* Faulty variants of AfterCopy: an error ends the visits; it ends the pass.
ToTheEnd == "finish"
Aborted  == "aborted"

\* An error does not keep the pass from the next object.
AfterCopy == "deploy"

\* ... calls the ReconcileFunc, which reads the source from the platform
\* cluster and fails without it ...
GetSource ==
  /\ at = "getSource"
  /\ readSource' = source
  /\ IF source = Nothing THEN at' = AfterCopy /\ failed' = TRUE
                         ELSE at' = "putCopy" /\ UNCHANGED failed
  /\ UNCHANGED <<snap, readCopy, replicas, wantVars, copy, template, serverVars,
                 phase, moved, floor, touched, calm, boundVars>>

\* Faulty variant of MustWrite: an existing copy is left alone.
OnlyCreate == readCopy = Nothing

\* The mutated object differs from the one that was read.
MustWrite == readCopy # readSource

\* ... and writes what has changed; a write to an object that somebody else
\* has written since is refused.
PutCopy ==
  /\ at = "putCopy" /\ at' = "deploy"
  /\ copy'   = IF MustWrite /\ ~moved THEN readSource ELSE copy
  /\ failed' = (failed \/ (MustWrite /\ moved))
  /\ UNCHANGED <<snap, readCopy, readSource, replicas, wantVars, template,
                 serverVars, phase, moved, floor, touched, calm, boundVars>>

\* The ReconcileFunc of the deployment rewrites the whole spec.
NewTemplate == snap

\* The status comes with the answer: readyReplicas of whatever pod there is.
Deploy ==
  /\ at = "deploy" /\ at' = "finish"
  /\ template' = NewTemplate /\ replicas' = counted
  /\ calm' = (calm /\ template' = template)
  /\ UNCHANGED <<snap, readCopy, readSource, failed, wantVars, copy, serverVars,
                 phase, moved, floor, touched, boundVars>>

\* A call fails, with or without its effect.
CallFails ==
  /\ Fault /\ failed' = TRUE
  /\ \/ /\ at \in {"getCopy", "getSource", "putCopy"} /\ at' = AfterCopy
        /\ UNCHANGED template
        /\ \/ UNCHANGED copy
           \/ at = "putCopy" /\ MustWrite /\ ~moved /\ copy' = readSource
     \/ /\ at = "deploy" /\ at' = "finish" /\ UNCHANGED copy
        /\ \/ UNCHANGED template
           \/ template' = NewTemplate
  /\ calm' = (calm /\ template' = template)
  /\ UNCHANGED <<snap, readCopy, readSource, replicas, wantVars, serverVars, phase,
                 moved, floor, touched>>

\* Faulty variants of AllReady: any deployment counts as ready; it should have
\* no pod, like the one on the MCP.
AnyDeployment == template # None
WantsNone     == replicas = 0

\* StatusFunc of the deployment, which wants one replica.
AllReady == replicas = 1

\* All other objects are there.
FinishPass ==
  /\ at = "finish" /\ at' = "idle"
  /\ phase' = IF ~failed /\ AllReady THEN "Ready" ELSE "Progressing"
  /\ UNCHANGED <<snap, readCopy, readSource, failed, replicas, wantVars, copy,
                 template, serverVars, moved, floor, touched, calm, boundVars>>

Crash ==
  /\ Fault /\ at # "idle" /\ at' = "idle"
  /\ UNCHANGED <<snap, readCopy, readSource, failed, replicas, wantVars, copy,
                 template, serverVars, phase, moved, floor, touched, calm>>

Pass == BeginPass \/ GetCopy \/ GetSource \/ PutCopy \/ Deploy \/ FinishPass

Next == Users \/ Cluster \/ Pass \/ CallFails \/ Crash

\* The work queue repeats passes; the deployment controller and the kubelet do
\* their work, a pull only with credentials the registry accepts.
Fairness ==
  /\ WF_vars(Pass)
  /\ WF_vars(StopPod) /\ WF_vars(CreatePod) /\ WF_vars(CountReplicas)
  /\ WF_vars(PullImage)

Spec == Init /\ [][Next]_vars /\ Fairness

-----------------------------------------------------------------------------
TypeOK ==
  /\ want \in Images /\ newest \in 1..MaxRotations + 1
  /\ {source, copy, readCopy, readSource, floor} \subseteq Versions
  /\ {template, pod, snap} \subseteq Images \cup {None}
  /\ {ready, moved, failed, touched, calm} \subseteq BOOLEAN
  /\ {counted, replicas} \subseteq {0, 1}
  /\ phase \in {"Unset", "Ready", "Progressing"}
  /\ at \in {"idle", "getCopy", "getSource", "putCopy", "deploy", "finish"}
  /\ edits \in 0..MaxEdits /\ faults \in 0..MaxFaults

\* A pass that reports no error has copied data at least as new as the source
\* was when the pass began, whatever was rotated or written in between; only a
\* user who wrote the copy during the pass can have left something else there.
CopyIsRecent ==
  at = "finish" /\ ~failed /\ ~touched => floor <= copy /\ copy # Garbage

\* Why: the source is gone or as new as the registry knows, what was read is no
\* older than the pass, and an unseen write would have been refused.
SourceInv ==
  /\ source \in {Nothing, newest} /\ floor <= newest
  /\ moved => touched
  /\ at \in {"getSource", "putCopy"} => moved \/ readCopy = copy
  /\ at = "putCopy" => floor <= readSource /\ readSource <= newest
RecentInv ==
  at \in {"deploy", "finish"} /\ ~failed /\ ~touched => floor <= copy /\ copy # Garbage

\* readyReplicas may be that of the old pod, so the pass that changes the image
\* can report Ready.  A pass that finds the roll-out at rest and leaves it so
\* tells the truth: Ready means that the image it was asked for is running.
ReadyAtRest ==
  [][FinishPass /\ calm /\ phase' = "Ready" => ready /\ pod = snap]_vars

\* The deployment gets the image asked for, and the pod follows or waits for its
\* image, also when the source of the pull secret is gone and every pass fails.
TemplateFollows ==
  \A i \in Images : <>[](want = i) => <>[](template = i /\ pod = i)

\* Once the source stays, every copy that is missing, outdated or overwritten is
\* replaced, the pod that waits for its image starts and the status says Ready.
RolloutSettles == <>[](source # Nothing) => <>[](copy = source /\ ready /\ phase = "Ready")
=============================================================================
