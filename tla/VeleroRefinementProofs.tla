----------------------- MODULE VeleroRefinementProofs -----------------------
(***************************************************************************)
(* VeleroReconciler implements VeleroLifecycle, for every set of CRDs,     *)
(* pull secrets and specs and for every bound on faults and edits.         *)
(***************************************************************************)
EXTENDS VeleroReconcilerProofs

\* The objects that exist, and what the refinement makes of the variables.
Owned == {o \in Objects : store[o] # "absent"}
SameOwned == \A o \in Objects : store'[o] = "absent" <=> store[o] = "absent"

\* A step that neither creates nor removes an object leaves the set as it is.
LEMMA OwnedStays ==
  ASSUME SameOwned
  PROVE  Owned' = Owned
BY DEF SameOwned, Owned

\* Objects with user data that were taken from the Velero were taken by the
\* foreign actor itself.
DriftInv == tampered \cap UserData \subseteq Drift

\* Sweeping a namespace takes no user data.
LEMMA DriftStep ==
  ASSUME TypeOK, Next, DriftInv
  PROVE  DriftInv'
<1>1. ASSUME NEW o \in Objects, Finalize(o)
      PROVE  DriftInv'
  BY <1>1 DEF Finalize, DriftInv, UserData
<1>2. ASSUME NEW o \in Objects, Sweep(o)
      PROVE  DriftInv'
  <2>1. o \notin UserData
    BY <1>2, ObjectFacts DEF Sweep, Deletable
  <2>2. tampered' \in {tampered, tampered \cup {o}}
    BY <1>2 DEF Sweep
  <2> QED
    BY <2>1, <2>2 DEF DriftInv, UserData
<1>3. ASSUME NEW o \in Objects, Tamper(o)
      PROVE  DriftInv'
  BY <1>3 DEF Tamper, DriftInv, UserData
<1>4. ASSUME NEW o \in Objects, Written(o)
      PROVE  DriftInv'
  BY <1>4 DEF Written, DriftInv, UserData
<1>5. CASE tampered' = tampered
  BY <1>5 DEF DriftInv, UserData
<1> QED
  BY <1>1, <1>2, <1>3, <1>4, <1>5, EveryStoreStep DEF StoreStep, DeletionRequested

\* Initially there is no Velero and no object.
LEMMA InitRefines == Init => Lifecycle!Init
BY DEF Init, Lifecycle!Init, LifeBar, Valid

\* The users and the operator.
LEMMA UserRefines ==
  ASSUME TypeOK, User \/ Operator
  PROVE  [Lifecycle!Next]_(Lifecycle!vars)
<1> USE DEF crVars, configVars, storeVars, passVars, LifeBar, Lifecycle!vars
<1>1. CASE CreateVelero
  <2>1. Lifecycle!Create
    BY <1>1 DEF CreateVelero, Lifecycle!Create, Valid
  <2> QED
    BY <2>1 DEF Lifecycle!Next
<1>2. CASE RequestDelete
  <2>1. Lifecycle!Withdraw \/ Lifecycle!End
    BY <1>2 DEF RequestDelete, Lifecycle!Withdraw, Lifecycle!End, Valid
  <2> QED
    BY <2>1 DEF Lifecycle!Next
<1>3. CASE EditSpec \/ EditAvailable
  <2>1. Lifecycle!Change
    BY <1>3 DEF EditSpec, EditAvailable, Lifecycle!Change, Valid
  <2> QED
    BY <2>1 DEF Lifecycle!Next
<1>4. CASE EditPull \/ EditSource
  BY <1>4 DEF EditPull, EditSource, Valid
<1> QED
  BY <1>1, <1>2, <1>3, <1>4 DEF User, Operator

\* A step that changes nothing a reader of VeleroLifecycle sees.
Hidden == SameOwned /\ UNCHANGED <<life, spec, available>> /\ (mode' = "apply" <=> mode = "apply")

\* Such a step is a stutter of VeleroLifecycle.
LEMMA HiddenStutters ==
  ASSUME Hidden
  PROVE  UNCHANGED Lifecycle!vars
<1>1. {o \in Objects : store[o] # "absent"}' = {o \in Objects : store[o] # "absent"}
  BY OwnedStays DEF Hidden, Owned
<1>2. LifeBar' = LifeBar
  BY DEF Hidden, LifeBar
<1>3. Valid(spec)' = Valid(spec) /\ (mode = "apply")' = (mode = "apply")
  BY DEF Hidden, Valid
<1> QED
  BY <1>1, <1>2, <1>3 DEF Lifecycle!vars

\* The clusters and the foreign actor: what disappears was deleted by somebody
\* who may.
LEMMA ClustersRefine ==
  ASSUME TypeOK, Inv, DriftInv, Clusters \/ Foreign
  PROVE  [Lifecycle!Next]_(Lifecycle!vars)
<1> USE DEF crVars, configVars, passVars
<1>1. ASSUME NEW o \in Objects, Finalize(o)
      PROVE  [Lifecycle!Next]_(Lifecycle!vars)
  <2>1. o \in Owned /\ Owned' = Owned \ {o}
    BY <1>1 DEF Finalize, Owned, TypeOK
  <2>2. o \in UserData => o \in Drift
    BY <1>1 DEF Finalize, Inv, UserDataInv, DriftInv
  <2>3. LifeBar' = LifeBar /\ Valid(spec)' = Valid(spec) /\ (mode = "apply")' = (mode = "apply")
    BY <1>1 DEF Finalize, LifeBar, Valid
  <2>4. Lifecycle!Lose
    BY <2>1, <2>2, <2>3 DEF Owned, Lifecycle!Lose
  <2> QED
    BY <2>4 DEF Lifecycle!Next
<1>2. ASSUME NEW o \in Objects, Sweep(o) \/ Tamper(o)
      PROVE  Hidden
  BY <1>2 DEF Sweep, Tamper, Hidden, SameOwned, TypeOK
<1>3. CASE RollOut \/ PodFails
  <2>1. Hidden
    BY <1>3 DEF RollOut, PodFails, Hidden, SameOwned
  <2> QED
    BY <2>1, HiddenStutters
<1> QED
  BY <1>1, <1>2, <1>3, HiddenStutters DEF Clusters, Foreign

\* What precedes a pass: the finalizer, refusals, the snapshot.
LEMMA BeforeRefines ==
  ASSUME TypeOK, Before
  PROVE  [Lifecycle!Next]_(Lifecycle!vars)
<1> USE DEF crVars, configVars, storeVars, passVars, LifeBar, Lifecycle!vars
<1>1. CASE AddFinalizer
  <2>1. Lifecycle!Hold
    BY <1>1 DEF AddFinalizer, Lifecycle!Hold, Valid
  <2> QED
    BY <2>1 DEF Lifecycle!Next
<1>2. CASE RejectDelete
  <2>1. Lifecycle!Abandon
    BY <1>2 DEF RejectDelete, Lifecycle!Abandon, Valid
  <2> QED
    BY <2>1 DEF Lifecycle!Next
<1>3. CASE StartApply
  <2>1. Lifecycle!Open
    BY <1>3 DEF StartApply, StartPass, Lifecycle!Open, Valid
  <2> QED
    BY <2>1 DEF Lifecycle!Next
<1>4. CASE RejectApply \/ FailInstanceID \/ StartDelete
  <2>1. Hidden
    BY <1>4 DEF RejectApply, FailInstanceID, StartDelete, StartPass, Hidden, SameOwned
  <2> QED
    BY <2>1, HiddenStutters
<1> QED
  BY <1>1, <1>2, <1>3, <1>4 DEF Before

\* A pass provides objects one by one; a deletion pass only requests.
LEMMA VisitsRefine ==
  ASSUME TypeOK, NEW o \in Objects,
         \/ ApplyObject(o) \/ ApplyRefused(o) \/ ApplyFault(o)
         \/ CheckDependents(o) \/ RefuseDelete(o) \/ DeleteObject(o) \/ DeleteFault(o)
  PROVE  [Lifecycle!Next]_(Lifecycle!vars)
<1> USE DEF crVars, configVars, Visited
<1>1. CASE (ApplyObject(o) \/ ApplyFault(o)) /\ Written(o)
  <2>1. Owned' = Owned \cup {o}
    BY <1>1 DEF Written, Owned, TypeOK
  <2>2. LifeBar' = LifeBar /\ Valid(spec)' = Valid(spec) /\ mode = "apply" /\ mode' = "apply"
    BY <1>1 DEF ApplyObject, ApplyFault, LifeBar, Valid
  <2>3. Lifecycle!Provide
    BY <2>1, <2>2 DEF Owned, Lifecycle!Provide
  <2> QED
    BY <2>3 DEF Lifecycle!Next
<1>2. CASE (ApplyFault(o) /\ ~Written(o)) \/ ApplyRefused(o)
  <2>1. Hidden
    BY <1>2 DEF ApplyFault, ApplyRefused, Hidden, SameOwned, storeVars
  <2> QED
    BY <2>1, HiddenStutters
<1>3. CASE CheckDependents(o) \/ RefuseDelete(o)
  <2>1. Hidden
    BY <1>3 DEF CheckDependents, RefuseDelete, Hidden, SameOwned, storeVars
  <2> QED
    BY <2>1, HiddenStutters
<1>4. CASE DeleteObject(o) \/ DeleteFault(o)
  <2>1. store' = store \/ (store[o] # "absent" /\ store' = [store EXCEPT ![o] = "terminating"])
    BY <1>4 DEF DeleteObject, DeleteFault
  <2>2. SameOwned
    BY <2>1 DEF SameOwned, TypeOK
  <2>3. Hidden
    <3>1. UNCHANGED <<life, spec, available, mode>>
      BY <1>4 DEF DeleteObject, DeleteFault
    <3> QED
      BY <2>2, <3>1 DEF Hidden
  <2> QED
    BY <2>3, HiddenStutters
<1> QED
  BY <1>1, <1>2, <1>3, <1>4 DEF ApplyObject

\* The cleaner only requests deletions, and what ends a pass closes it.  The
\* finalizer goes after a pass that found everything deletable gone.
LEMMA EndRefines ==
  ASSUME TypeOK, Inv, Cleanup \/ CleanupFault \/ FinishApply \/ FinishDelete \/ Crash
  PROVE  [Lifecycle!Next]_(Lifecycle!vars)
<1> USE DEF crVars, configVars, storeVars
<1>1. CASE Cleanup \/ CleanupFault
  <2>1. PICK D \in SUBSET PullSecrets : DeletionRequested(D)
    BY <1>1, CleanupStores
  <2>2. SameOwned
    BY <2>1 DEF SameOwned, DeletionRequested
  <2>3. UNCHANGED <<life, spec, available, mode>>
    BY <1>1 DEF Cleanup, CleanupFault, ListCopies, ListFault, DeleteCopy,
       DeleteCopyFault, Unlist
  <2>4. Hidden
    BY <2>2, <2>3 DEF Hidden
  <2> QED
    BY <2>4, HiddenStutters
<1>2. CASE (FinishApply \/ Crash) /\ mode = "apply"
  <2>1. Lifecycle!Close
    BY <1>2 DEF FinishApply, Crash, EndPass, Lifecycle!Close, LifeBar, Valid
  <2> QED
    BY <2>1 DEF Lifecycle!Next
<1>3. CASE FinishDelete /\ life' = "absent" /\ AllDeleted
  <2>1. life = "deleting" /\ mode = "delete"
    BY <1>3 DEF FinishDelete, Inv, GoneInv
  <2>2. {o \in Objects : store[o] # "absent"} \subseteq UserData
    BY <1>3, NothingLeft DEF Inv, Deletable
  <2>3. Lifecycle!Release
    BY <1>3, <2>1, <2>2 DEF FinishDelete, EndPass, Lifecycle!Release, LifeBar, Valid
  <2> QED
    BY <2>3 DEF Lifecycle!Next
<1>4. CASE ((FinishDelete /\ life' = life) \/ Crash) /\ mode = "delete"
  <2>1. Hidden
    BY <1>4 DEF FinishDelete, Crash, EndPass, Hidden, SameOwned
  <2> QED
    BY <2>1, HiddenStutters
<1> QED
  BY <1>1, <1>2, <1>3, <1>4 DEF FinishApply, FinishDelete, Crash, TypeOK

\* ImplementsLifecycle for every instance: initial states are initial states,
\* and every call of a pass, every act of a user and every move of the clusters
\* is a step of VeleroLifecycle or none.
THEOREM Refinement == Spec => ImplementsLifecycle
<1>1. Init => Lifecycle!Init /\ DriftInv
  BY InitRefines DEF Init, DriftInv
<1>2. TypeOK /\ DriftInv /\ [Next]_vars => DriftInv'
  <2> SUFFICES ASSUME TypeOK, DriftInv, [Next]_vars PROVE DriftInv'
    OBVIOUS
  <2>1. CASE UNCHANGED vars
    BY <2>1 DEF vars, storeVars, DriftInv, UserData
  <2> QED
    BY <2>1, DriftStep
<1>3. TypeOK /\ Inv /\ DriftInv /\ [Next]_vars => [Lifecycle!Next]_(Lifecycle!vars)
  <2> SUFFICES ASSUME TypeOK, Inv, DriftInv, [Next]_vars
               PROVE  [Lifecycle!Next]_(Lifecycle!vars)
    OBVIOUS
  <2>1. CASE UNCHANGED vars
    <3>1. Hidden
      BY <2>1 DEF vars, crVars, configVars, storeVars, passVars, Hidden, SameOwned
    <3> QED
      BY <3>1, HiddenStutters
  <2>2. CASE Next
    BY <2>2, UserRefines, ClustersRefine, BeforeRefines, VisitsRefine, EndRefines
       DEF Next, Controller, ApplyPass, DeletePass
  <2> QED
    BY <2>1, <2>2
<1> QED
  BY <1>1, <1>2, <1>3, TypeCorrect, Safety, PTL DEF Spec, ImplementsLifecycle, Lifecycle!Spec
=============================================================================
