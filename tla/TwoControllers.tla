--------------------------- MODULE TwoControllers ---------------------------
(***************************************************************************)
(* Two processes of the provider at work on one Velero.  Leader election   *)
(* is a flag that is off by default, so a rolling update of the provider,  *)
(* or a second replica, has two processes run passes at the same time.     *)
(* They share the clusters, the Velero and the ProviderConfig and nothing  *)
(* else: each keeps its own pass in memory.                                *)
(*                                                                         *)
(* The first process is VeleroReconciler with its environment; the second  *)
(* is another instance of its controller, with a pass of its own, and      *)
(* begins a bounded number of passes, as the process does that a rolling   *)
(* update is about to end.                                                 *)
(***************************************************************************)
EXTENDS VeleroReconciler

CONSTANT MaxPasses   \* bound on the passes of the second process
ASSUME PassBound == MaxPasses \in Nat

VARIABLES
  \* The pass of the second process.
  modeB, snapSpecB, snapPullB, todoB, checkedB, goneB, failedB, seenB, listedB,
  redundantB,
  \* History: an Apply and a Delete of this Velero were in progress at once.
  overlap,
  \* Bound: the passes the second process has begun.
  passes

passBVars == <<modeB, snapSpecB, snapPullB, todoB, checkedB, goneB, failedB,
               seenB, listedB, redundantB>>
twoVars   == <<vars, passBVars, overlap, passes>>

B == INSTANCE VeleroReconciler
       WITH mode <- modeB, snapSpec <- snapSpecB, snapPull <- snapPullB,
            todo <- todoB, checked <- checkedB, gone <- goneB,
            failed <- failedB, seen <- seenB, listed <- listedB,
            redundant <- redundantB

TwoInit ==
  /\ Init
  /\ modeB = "idle" /\ snapSpecB = None /\ snapPullB = {} /\ todoB = {}
  /\ checkedB = FALSE /\ goneB = {} /\ failedB = FALSE
  /\ listedB = FALSE /\ redundantB = {}
  /\ seenB = [o \in Objects |-> Unread(o)]
  /\ overlap = FALSE /\ passes = 0

\* The user creates a Velero of the same name when no pass of the last is left.
Recreate ==
  /\ modeB = "idle" /\ CreateVelero
  /\ overlap' = FALSE
  /\ UNCHANGED <<passBVars, passes>>

Track == overlap' = (overlap \/ {mode', modeB'} = {"apply", "delete"})

First ==
  /\ Controller \/ Crash
  /\ UNCHANGED <<passBVars, passes>> /\ Track

Second ==
  /\ B!Controller \/ B!Crash
  /\ IF modeB = "idle" /\ modeB' # "idle"
       THEN passes < MaxPasses /\ passes' = passes + 1
       ELSE UNCHANGED passes
  /\ UNCHANGED passVars /\ Track

Others ==
  /\ RequestDelete \/ EditSpec \/ Operator \/ Clusters \/ Foreign
  /\ UNCHANGED <<passBVars, overlap, passes>>

TwoNext == Recreate \/ First \/ Second \/ Others

TwoSpec == TwoInit /\ [][TwoNext]_twoVars

-----------------------------------------------------------------------------
\* Two processes that delete the same Velero at once clean up completely,
\* although each may remove the finalizer under the other; only an Apply that
\* is still under way in one of them while the other deletes can leave objects.
CleanupUnlessOverlap ==
  released = "complete" /\ ~overlap => \A o \in Deletable : store[o] = "absent"

\* Neither of them deletes the service account under a token secret, not on
\* the check the other has made, unless an Apply brings the secret back.
TokenFirstUnlessOverlap ==
  [][store["sa"] = "live" /\ store'["sa"] = "terminating"
       => store["token"] = "absent" \/ overlap \/ "sa" \in tampered']_twoVars

\* A Ready that either of two processes writes, for the first time or again, is
\* earned, although each works on what the other creates, and one may begin where
\* the other has left a deletion unfinished.  Pull secrets are left out: the processes may have read different
\* ProviderConfigs, and the cleaner of one takes what the other has copied.
ReadyUnlessOverlap ==
  [][(FinishApply \/ B!FinishApply) /\ phase' = "Ready" /\ ~overlap
       => \A o \in Objects \ PullSecrets : Earned(o)]_twoVars

\* No overlap of passes ever costs user data.
TwoKeepUserData ==
  [][\A o \in UserData :
       store[o] # "absent" /\ o \notin tampered
         => store'[o] = "live" \/ o \in tampered']_twoVars

(***************************************************************************)
(* What the Velero goes through, seen from outside, when two processes     *)
(* provide it: objects are provided while an Apply of either runs.         *)
(***************************************************************************)
Applying == "apply" \in {mode, modeB}

TwoLifecycle == INSTANCE VeleroLifecycle
                  WITH life     <- LifeBar,
                       owned    <- {o \in Objects : store[o] # "absent"},
                       open     <- Applying,
                       accepted <- Valid(spec),
                       Foreign  <- Drift

\* The finalizer goes under an Apply, or after one that overlapped the deletion.
Premature == life = "deleting" /\ life' = "absent" /\ (overlap \/ Applying)

\* Two processes keep the promise of VeleroLifecycle but for this one step: an
\* Apply of either begins only for an accepted Velero that is not being deleted,
\* nothing is created but by an Apply, user data is lost only through others, and
\* the finalizer goes when nothing else is left or the Velero is refused.
LifecycleUnlessOverlap ==
  /\ TwoLifecycle!Init
  /\ [][TwoLifecycle!Next \/ Premature]_(TwoLifecycle!vars)
=============================================================================
