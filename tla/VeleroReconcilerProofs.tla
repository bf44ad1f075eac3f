----------------------- MODULE VeleroReconcilerProofs -----------------------
(***************************************************************************)
(* Theorems about VeleroReconciler, for every set of CRDs, pull secrets    *)
(* and specs and for every bound on faults and edits.                      *)
(***************************************************************************)
EXTENDS VeleroReconciler, TLAPS

(***************************************************************************)
(* The static facts about the managed objects that the proofs use.         *)
(***************************************************************************)

\* Where objects are and what their names cannot be.
LEMMA ObjectFacts ==
  /\ Namespaces \subseteq Objects /\ UserData \subseteq Objects
  /\ Fixed \subseteq Objects /\ PullSecrets \subseteq Objects
  /\ \A ns \in Namespaces : Contents(ns) \subseteq Deletable \ Namespaces
  /\ "mcpNs" \in UserData /\ "sa" \in Objects /\ "token" \in Objects
  /\ "sa" \notin PullSecrets /\ UserData \cap PullSecrets = {}
  /\ \A o \in Objects : Policy(o) = "delete" <=> o \in Deletable
  /\ \A o \in Objects : Policy(o) \in {"delete", "orphan"}
BY NamesDistinct
   DEF Namespaces, Objects, UserData, Fixed, Contents, Deletable, McpFixed,
       WorkloadFixed, Policy

\* Everything that can be deleted is registered or lies in the namespace of
\* the instance.
LEMMA DeletableIsCovered ==
  ASSUME NEW S \in SUBSET PullSecrets
  PROVE  /\ Managed(S) \subseteq Objects
         /\ "wlNs" \in Managed(S) \cap Deletable
         /\ \A o \in Deletable : o \in Managed(S) \/ o \in Contents("wlNs")
BY NamesDistinct
   DEF Managed, Objects, UserData, Fixed, Contents, Deletable, McpFixed, WorkloadFixed

\* The token secret is the one dependent, and the service account what it
\* depends on.
LEMMA TheDependent ==
  ASSUME snapPull \subseteq PullSecrets, NEW o \in Objects
  PROVE  DependentsOf(o) = IF o = "sa" THEN {"token"} ELSE {}
BY NamesDistinct
   DEF DependentsOf, Dependents, DependsOn, Managed, Objects, Fixed, McpFixed,
       WorkloadFixed

\* The phase reported for an object is a phase.
LEMMA PhaseTypes ==
  ASSUME NEW o \in Objects
  PROVE  /\ Unread(o) \in ObjectPhases
         /\ \A s \in States : Status(o, s) \in ObjectPhases
BY DEF Unread, Status, ObjectPhases, States

-----------------------------------------------------------------------------
(***************************************************************************)
(* Type correctness.                                                       *)
(***************************************************************************)

\* A step has the types of TypeOK when it has them variable group by variable
\* group, and a group it leaves alone keeps them.
CrTypes ==
  /\ life \in {"absent", "new", "active", "deleting"} /\ hasID \in BOOLEAN
  /\ spec \in Specs /\ phase \in {"Unset", "Progressing", "Ready", "Terminating"}
  /\ released \in {"no", "complete", "rejected"}

ConfigTypes ==
  available \subseteq Supported /\ pull \subseteq PullSecrets /\ source \subseteq PullSecrets

ClusterTypes ==
  /\ store \in [Objects -> States]
  /\ image \in Specs \cup {None} /\ pod \in Specs \cup {None}
  /\ tampered \subseteq Objects

SnapTypes ==
  /\ mode \in {"idle", "apply", "delete"}
  /\ snapSpec \in Specs \cup {None} /\ snapPull \subseteq PullSecrets

ResultTypes ==
  /\ todo \subseteq Objects /\ checked \in BOOLEAN /\ gone \subseteq Objects
  /\ failed \in BOOLEAN /\ listed \in BOOLEAN /\ redundant \subseteq PullSecrets

CountTypes == faults \in 0..MaxFaults /\ edits \in 0..MaxEdits

LEMMA TypeParts ==
  /\ TypeOK <=> /\ CrTypes /\ ConfigTypes /\ ClusterTypes /\ SnapTypes /\ ResultTypes
                /\ CountTypes /\ seen \in [Objects -> ObjectPhases]
  /\ TypeOK' <=> /\ CrTypes' /\ ConfigTypes' /\ ClusterTypes' /\ SnapTypes' /\ ResultTypes'
                 /\ CountTypes' /\ seen' \in [Objects -> ObjectPhases]
<1>1. TypeOK <=> /\ CrTypes /\ ConfigTypes /\ ClusterTypes /\ SnapTypes /\ ResultTypes
                 /\ CountTypes /\ seen \in [Objects -> ObjectPhases]
  BY Zenon DEF TypeOK, CrTypes, ConfigTypes, ClusterTypes, SnapTypes, ResultTypes, CountTypes
<1>2. TypeOK' <=> /\ CrTypes' /\ ConfigTypes' /\ ClusterTypes' /\ SnapTypes' /\ ResultTypes'
                  /\ CountTypes' /\ seen' \in [Objects -> ObjectPhases]
  BY Zenon DEF TypeOK, CrTypes, ConfigTypes, ClusterTypes, SnapTypes, ResultTypes, CountTypes
<1> QED
  BY <1>1, <1>2

LEMMA TypesKept ==
  /\ CrTypes /\ UNCHANGED crVars => CrTypes'
  /\ ConfigTypes /\ UNCHANGED configVars => ConfigTypes'
  /\ ClusterTypes /\ UNCHANGED storeVars => ClusterTypes'
  /\ SnapTypes /\ UNCHANGED <<mode, snapSpec, snapPull>> => SnapTypes'
  /\ CountTypes /\ UNCHANGED boundVars => CountTypes'
<1>1. CrTypes /\ UNCHANGED crVars => CrTypes'
  BY DEF CrTypes, crVars
<1>2. ConfigTypes /\ UNCHANGED configVars => ConfigTypes'
  BY DEF ConfigTypes, configVars
<1>3. ClusterTypes /\ UNCHANGED storeVars => ClusterTypes'
  BY DEF ClusterTypes, storeVars
<1>4. SnapTypes /\ UNCHANGED <<mode, snapSpec, snapPull>> => SnapTypes'
  BY DEF SnapTypes
<1>5. CountTypes /\ UNCHANGED boundVars => CountTypes'
  BY DEF CountTypes, boundVars
<1> QED
  BY <1>1, <1>2, <1>3, <1>4, <1>5

\* The in-memory objects report phases, before and after they are visited.
LEMMA SeenTypes ==
  ASSUME TypeOK, NEW o \in Objects
  PROVE  /\ [p \in Objects |-> Unread(p)] \in [Objects -> ObjectPhases]
         /\ SeenOnError(o) \subseteq ObjectPhases
BY PhaseTypes DEF TypeOK, SeenOnError, ObjectPhases

\* A write keeps the types of the clusters.
LEMMA WrittenTypes ==
  ASSUME TypeOK, NEW o \in Objects, Written(o)
  PROVE  /\ store' \in [Objects -> States] /\ store'[o] \in States
         /\ image' \in Specs \cup {None} /\ pod' \in Specs \cup {None}
         /\ tampered' \subseteq Objects
BY DEF TypeOK, Written, States

\* Users, operators, clusters and foreign actors keep the types.
LEMMA TypeEnvironment ==
  ASSUME TypeOK, User \/ Operator \/ Clusters \/ Foreign
  PROVE  TypeOK'
<1> USE SupportedSpecs, NoneIsNoSpec, Bounds
    DEF TypeOK, crVars, configVars, storeVars, passVars, boundVars
<1>1. CASE CreateVelero
  BY <1>1 DEF CreateVelero
<1>2. CASE RequestDelete
  BY <1>2 DEF RequestDelete
<1>3. CASE EditSpec
  BY <1>3 DEF EditSpec, Edit, Room
<1>4. CASE EditAvailable
  BY <1>4 DEF EditAvailable, Edit, Room
<1>5. CASE EditPull
  BY <1>5 DEF EditPull, Edit, Room
<1>6. CASE EditSource
  BY <1>6 DEF EditSource, Edit, Room
<1>7. ASSUME NEW o \in Objects, Finalize(o)
      PROVE  TypeOK'
  BY <1>7 DEF Finalize, States
<1>8. ASSUME NEW o \in Objects, Sweep(o)
      PROVE  TypeOK'
  BY <1>8 DEF Sweep, States
<1>9. CASE RollOut
  BY <1>9 DEF RollOut
<1>10. CASE PodFails
  BY <1>10 DEF PodFails, Fault, Room
<1>11. ASSUME NEW o \in Objects, Tamper(o)
       PROVE  TypeOK'
  BY <1>11 DEF Tamper, Fault, Room, States
<1> QED
  BY <1>1, <1>2, <1>3, <1>4, <1>5, <1>6, <1>7, <1>8, <1>9, <1>10, <1>11
     DEF User, Operator, Clusters, Foreign

\* The controller keeps the types outside of the visit of an object.
LEMMA TypeFrame ==
  ASSUME TypeOK, Before \/ Cleanup \/ CleanupFault \/ FinishApply
                        \/ FinishDelete \/ Crash
  PROVE  TypeOK'
<1> USE SupportedSpecs, NoneIsNoSpec, Bounds
    DEF TypeOK, crVars, configVars, storeVars, passVars, boundVars
<1>1. CASE AddFinalizer
  BY <1>1 DEF AddFinalizer
<1>2. CASE RejectApply
  BY <1>2 DEF RejectApply
<1>3. CASE RejectDelete
  BY <1>3 DEF RejectDelete
<1>4. CASE FailInstanceID
  BY <1>4 DEF FailInstanceID, Fault, Room
<1>5. ASSUME NEW m \in {"apply", "delete"}, StartPass(m)
      PROVE  TypeOK'
  BY <1>5, DeletableIsCovered DEF StartPass
<1>6. CASE ListCopies \/ ListFault
  <2> HIDE DEF TypeOK
  <2>1. redundant' \subseteq PullSecrets
    BY <1>6, TypeParts DEF ListCopies, ListFault, Stale, ResultTypes
  <2>2. ResultTypes'
    BY <1>6, <2>1, TypeParts DEF ListCopies, ListFault, ResultTypes
  <2>3. CrTypes' /\ ConfigTypes' /\ ClusterTypes' /\ SnapTypes'
    BY <1>6, TypeParts, TypesKept DEF ListCopies, ListFault
  <2>4. CountTypes' /\ seen' \in [Objects -> ObjectPhases]
    BY <1>6, TypeParts DEF ListCopies, ListFault, Fault, Room, CountTypes
  <2> QED
    BY <2>2, <2>3, <2>4, TypeParts
<1>7. ASSUME NEW s \in PullSecrets, DeleteCopy(s) \/ DeleteCopyFault(s)
      PROVE  TypeOK'
  <2> HIDE DEF TypeOK
  <2>1. Unlist(s) /\ WithoutCopy(s) \in [Objects -> States]
    BY <1>7, TypeParts, ObjectFacts
       DEF DeleteCopy, DeleteCopyFault, WithoutCopy, ClusterTypes, States
  <2>2. ClusterTypes'
    BY <1>7, <2>1, TypeParts DEF DeleteCopy, DeleteCopyFault, Unlist, ClusterTypes
  <2>3. ResultTypes'
    BY <1>7, <2>1, TypeParts DEF DeleteCopy, DeleteCopyFault, Unlist, ResultTypes
  <2>4. CrTypes' /\ ConfigTypes' /\ SnapTypes' /\ seen' \in [Objects -> ObjectPhases]
    BY <2>1, TypeParts, TypesKept DEF Unlist
  <2>5. CountTypes'
    BY <1>7, TypeParts DEF DeleteCopy, DeleteCopyFault, Fault, Room, CountTypes
  <2> QED
    BY <2>2, <2>3, <2>4, <2>5, TypeParts
<1>8. CASE EndPass /\ life' \in {life, "absent"}
           /\ UNCHANGED <<hasID, spec, configVars, storeVars, edits>>
           /\ phase' \in {phase, "Ready", "Progressing", "Terminating"}
           /\ released' \in {released, "complete"}
           /\ (UNCHANGED faults \/ Fault)
  <2> HIDE DEF TypeOK
  <2>1. seen' \in [Objects -> ObjectPhases]
    BY <1>8, PhaseTypes DEF EndPass
  <2>2. CountTypes'
    BY <1>8, TypeParts DEF CountTypes, Fault, Room
  <2>3. CrTypes'
    BY <1>8, TypeParts DEF CrTypes
  <2>4. ConfigTypes' /\ ClusterTypes'
    BY <1>8, TypeParts, TypesKept
  <2>5. SnapTypes' /\ ResultTypes'
    BY <1>8 DEF EndPass, SnapTypes, ResultTypes
  <2> QED
    BY <2>1, <2>2, <2>3, <2>4, <2>5, TypeParts
<1>9. FinishApply \/ FinishDelete \/ Crash
      => EndPass /\ life' \in {life, "absent"}
           /\ UNCHANGED <<hasID, spec, configVars, storeVars, edits>>
           /\ phase' \in {phase, "Ready", "Progressing", "Terminating"}
           /\ released' \in {released, "complete"}
           /\ (UNCHANGED faults \/ Fault)
  BY DEF FinishApply, FinishDelete, Crash
<1> QED
  BY <1>1, <1>2, <1>3, <1>4, <1>5, <1>6, <1>7, <1>8, <1>9
     DEF Before, StartApply, StartDelete, Cleanup, CleanupFault

\* The controller keeps the types when it visits an object.
LEMMA TypeVisits ==
  ASSUME TypeOK, NEW o \in Objects,
         \/ ApplyObject(o) \/ ApplyRefused(o) \/ ApplyFault(o)
         \/ CheckDependents(o) \/ RefuseDelete(o) \/ DeleteObject(o) \/ DeleteFault(o)
  PROVE  TypeOK'
<1> USE Bounds DEF TypeOK, crVars, configVars, storeVars, passVars, boundVars
<1>1. CASE ApplyObject(o)
  <2>1. Written(o) /\ seen' = [seen EXCEPT ![o] = Status(o, store'[o])]
    BY <1>1 DEF ApplyObject
  <2>2. store'[o] \in States
    BY <2>1, WrittenTypes
  <2>3. seen' \in [Objects -> ObjectPhases]
    BY <2>1, <2>2, PhaseTypes
  <2> QED
    BY <1>1, <2>3, WrittenTypes DEF ApplyObject, Visited
<1>2. CASE ApplyRefused(o)
  BY <1>2, SeenTypes DEF ApplyRefused, Visited
<1>3. CASE ApplyFault(o)
  BY <1>3, SeenTypes, WrittenTypes DEF ApplyFault, Visited, Fault, Room
<1>4. CASE CheckDependents(o)
  BY <1>4 DEF CheckDependents
<1>5. CASE RefuseDelete(o)
  <2>1. seen' \in [Objects -> ObjectPhases]
    BY <1>5, PhaseTypes DEF RefuseDelete, ReadInto
  <2> QED
    BY <1>5, <2>1 DEF RefuseDelete, Visited, Fault, Room
<1>6. CASE DeleteObject(o)
  <2> HIDE DEF TypeOK
  <2>1. ClusterTypes'
    BY <1>6, TypeParts DEF DeleteObject, ClusterTypes, States
  <2>2. gone' \subseteq Objects /\ failed' = failed /\ checked' = FALSE
    BY <1>6, TypeParts DEF DeleteObject, ResultTypes
  <2>3. todo' = todo \ {o} /\ UNCHANGED <<mode, snapSpec, snapPull, listed, redundant>>
    BY <1>6 DEF DeleteObject, Visited
  <2>4. ResultTypes'
    BY <2>2, <2>3, TypeParts DEF ResultTypes
  <2>5. CrTypes' /\ ConfigTypes' /\ CountTypes' /\ SnapTypes'
    BY <1>6, <2>3, TypeParts, TypesKept DEF DeleteObject
  <2>6. seen' \in [Objects -> ObjectPhases]
    BY <1>6, TypeParts DEF DeleteObject
  <2> QED
    BY <2>1, <2>4, <2>5, <2>6, TypeParts
<1>7. CASE DeleteFault(o)
  <2> HIDE DEF TypeOK
  <2>1. ClusterTypes'
    BY <1>7, TypeParts DEF DeleteFault, ClusterTypes, States
  <2>2. gone' = gone /\ failed' = TRUE /\ checked' = FALSE
    BY <1>7 DEF DeleteFault
  <2>3. todo' = todo \ {o} /\ UNCHANGED <<mode, snapSpec, snapPull, listed, redundant>>
    BY <1>7 DEF DeleteFault, Visited
  <2>4. ResultTypes'
    BY <2>2, <2>3, TypeParts DEF ResultTypes
  <2>5. CrTypes' /\ ConfigTypes' /\ SnapTypes'
    BY <1>7, <2>3, TypeParts, TypesKept DEF DeleteFault
  <2>6. CountTypes'
    BY <1>7, TypeParts DEF DeleteFault, Fault, Room, CountTypes
  <2>7. seen' \in [Objects -> ObjectPhases]
    BY <1>7, TypeParts DEF DeleteFault
  <2> QED
    BY <2>1, <2>4, <2>5, <2>6, <2>7, TypeParts
<1> QED
  BY <1>1, <1>2, <1>3, <1>4, <1>5, <1>6, <1>7

\* Every variable keeps its type in every behaviour.
THEOREM TypeCorrect == Spec => []TypeOK
<1>1. Init => TypeOK
  <2>1. Init => /\ seen \in [Objects -> ObjectPhases] /\ store \in [Objects -> States]
                /\ faults \in 0..MaxFaults /\ edits \in 0..MaxEdits
    BY PhaseTypes, Bounds DEF Init, States
  <2> QED
    BY <2>1, SupportedSpecs DEF Init, TypeOK
<1>2. TypeOK /\ [Next]_vars => TypeOK'
  <2> SUFFICES ASSUME TypeOK, [Next]_vars PROVE TypeOK'
    OBVIOUS
  <2>1. CASE UNCHANGED vars
    BY <2>1 DEF vars, crVars, configVars, storeVars, passVars, boundVars, TypeOK
  <2>2. CASE Next
    BY <2>2, TypeEnvironment, TypeFrame, TypeVisits
       DEF Next, Controller, ApplyPass, DeletePass
  <2> QED
    BY <2>1, <2>2
<1> QED
  BY <1>1, <1>2, PTL DEF Spec

-----------------------------------------------------------------------------
(***************************************************************************)
(* The ways in which a step changes the clusters.                          *)
(***************************************************************************)

\* The controller requests the deletion of existing objects without user data.
DeletionRequested(D) ==
  /\ \A o \in D : store[o] # "absent"
  /\ store' = [o \in Objects |-> IF o \in D THEN "terminating" ELSE store[o]]
  /\ tampered' = tampered

StoreStep ==
  \/ UNCHANGED <<store, tampered>>
  \/ \E o \in Objects : Finalize(o) \/ Sweep(o) \/ Tamper(o)
  \/ mode = "apply" /\ \E o \in Objects : Writable(o) /\ Written(o)
  \/ \E D \in SUBSET Deletable : DeletionRequested(D)

\* One call of a deletion pass requests the deletion of at most one object,
\* never of one with user data.
LEMMA DeleteStores ==
  ASSUME TypeOK, NEW o \in Objects, DeleteObject(o) \/ DeleteFault(o)
  PROVE  StoreStep
<1>1. tampered' = tampered
  BY DEF DeleteObject, DeleteFault
<1>2. \/ store' = store
      \/ /\ o \in Deletable /\ store[o] # "absent"
         /\ store' = [store EXCEPT ![o] = "terminating"]
  BY ObjectFacts DEF DeleteObject, DeleteFault
<1>3. CASE store' = store
  BY <1>1, <1>3 DEF StoreStep
<1>4. CASE /\ o \in Deletable /\ store[o] # "absent"
           /\ store' = [store EXCEPT ![o] = "terminating"]
  <2>1. DeletionRequested({o})
    BY <1>1, <1>4 DEF DeletionRequested, TypeOK
  <2> QED
    BY <1>4, <2>1 DEF StoreStep
<1> QED
  BY <1>2, <1>3, <1>4

\* A call of the cleaner requests the deletion of at most one copy of a pull
\* secret, one that exists, whenever its list was taken.
LEMMA CleanupStores ==
  ASSUME TypeOK, Cleanup \/ CleanupFault
  PROVE  \E D \in SUBSET PullSecrets : DeletionRequested(D)
<1>1. tampered' = tampered
  BY DEF Cleanup, CleanupFault, ListCopies, ListFault, DeleteCopy, DeleteCopyFault,
     Unlist, storeVars
<1>2. CASE store' = store
  <2>1. DeletionRequested({})
    BY <1>1, <1>2 DEF DeletionRequested, TypeOK
  <2> QED
    BY <2>1
<1>3. CASE store' # store
  <2>1. PICK s \in PullSecrets : store' = WithoutCopy(s)
    BY <1>3 DEF Cleanup, CleanupFault, ListCopies, ListFault, DeleteCopy,
       DeleteCopyFault, storeVars
  <2>2. s \in Objects /\ store \in [Objects -> States]
    BY ObjectFacts DEF TypeOK
  <2>3. store[s] # "absent" /\ store' = [store EXCEPT ![s] = "terminating"]
    BY <1>3, <2>1, <2>2 DEF WithoutCopy
  <2>4. DeletionRequested({s})
    BY <1>1, <2>2, <2>3 DEF DeletionRequested
  <2> QED
    BY <2>4
<1> QED
  BY <1>2, <1>3

\* Every step changes the clusters in one of these ways.
LEMMA EveryStoreStep ==
  ASSUME TypeOK, Next
  PROVE  StoreStep
<1> USE DEF storeVars
<1>1. CASE User \/ Operator
  BY <1>1 DEF User, Operator, CreateVelero, RequestDelete, EditSpec,
     EditAvailable, EditPull, EditSource, StoreStep
<1>2. CASE Clusters \/ Foreign
  BY <1>2 DEF Clusters, Foreign, RollOut, PodFails, StoreStep
<1>3. CASE Before \/ FinishApply \/ FinishDelete \/ Crash
  BY <1>3 DEF Before, AddFinalizer, RejectApply, RejectDelete, FailInstanceID,
     StartApply, StartDelete, StartPass, FinishApply, FinishDelete, Crash, StoreStep
<1>4. ASSUME NEW o \in Objects, ApplyObject(o) \/ ApplyRefused(o) \/ ApplyFault(o)
      PROVE  StoreStep
  BY <1>4 DEF ApplyObject, ApplyRefused, ApplyFault, StoreStep
<1>5. ASSUME NEW o \in Objects, CheckDependents(o) \/ RefuseDelete(o)
      PROVE  StoreStep
  BY <1>5 DEF CheckDependents, RefuseDelete, StoreStep
<1>6. CASE Cleanup \/ CleanupFault
  <2>1. PullSecrets \subseteq Deletable
    BY ObjectFacts DEF Deletable
  <2> QED
    BY <1>6, <2>1, CleanupStores DEF StoreStep
<1> QED
  BY <1>1, <1>2, <1>3, <1>4, <1>5, <1>6, DeleteStores
     DEF Next, Controller, ApplyPass, DeletePass

\* Only an Apply pass creates objects.
LEMMA NothingCreated ==
  ASSUME TypeOK, Next, mode # "apply", NEW o \in Objects, store[o] = "absent"
  PROVE  store'[o] = "absent"
<1>1. StoreStep
  BY EveryStoreStep
<1>2. ASSUME NEW p \in Objects, Finalize(p) \/ Sweep(p) \/ Tamper(p)
      PROVE  store'[o] = "absent"
  BY <1>2 DEF Finalize, Sweep, Tamper, TypeOK
<1>3. ASSUME NEW D \in SUBSET Deletable, DeletionRequested(D)
      PROVE  store'[o] = "absent"
  BY <1>3 DEF DeletionRequested
<1> QED
  BY <1>1, <1>2, <1>3 DEF StoreStep

-----------------------------------------------------------------------------
(***************************************************************************)
(* The inductive invariant.                                                *)
(***************************************************************************)

\* What is in a namespace goes before it and comes after it.
LEMMA NamespaceStep ==
  ASSUME TypeOK, Next, NamespaceInv
  PROVE  NamespaceInv'
<1> SUFFICES ASSUME NEW ns \in Namespaces, store'[ns] = "absent",
                    NEW c \in Contents(ns)
             PROVE  store'[c] = "absent"
  BY DEF NamespaceInv
<1>1. ns \in Objects /\ c \in Objects /\ c # ns /\ c \notin Namespaces
  BY ObjectFacts DEF Deletable
<1>2. store[ns] = "absent" => store[c] = "absent"
  BY DEF NamespaceInv
<1>3. ASSUME NEW o \in Objects, Finalize(o)
      PROVE  store'[c] = "absent"
  BY <1>1, <1>2, <1>3 DEF Finalize, TypeOK
<1>4. ASSUME NEW o \in Objects, Sweep(o) \/ Tamper(o)
      PROVE  store'[c] = "absent"
  BY <1>1, <1>2, <1>4 DEF Sweep, Tamper, TypeOK
<1>5. ASSUME NEW o \in Objects, Writable(o), Written(o)
      PROVE  store'[c] = "absent"
  BY <1>1, <1>2, <1>5 DEF Writable, Written, TypeOK
<1>6. ASSUME NEW D \in SUBSET Deletable, DeletionRequested(D)
      PROVE  store'[c] = "absent"
  BY <1>1, <1>2, <1>6 DEF DeletionRequested
<1>7. CASE UNCHANGED <<store, tampered>>
  BY <1>2, <1>7
<1> QED
  BY <1>3, <1>4, <1>5, <1>6, <1>7, EveryStoreStep DEF StoreStep

\* Only Tamper deletes an object with user data, and only its re-creation
\* forgets that.
LEMMA UserDataStep ==
  ASSUME TypeOK, Next, UserDataInv
  PROVE  UserDataInv'
<1> SUFFICES ASSUME NEW o \in UserData, store'[o] = "terminating"
             PROVE  o \in tampered'
  BY DEF UserDataInv
<1>1. o \in Objects /\ o \notin Deletable
  BY ObjectFacts DEF Deletable
<1>2. store[o] = "terminating" => o \in tampered
  BY DEF UserDataInv
<1>3. ASSUME NEW p \in Objects, Finalize(p)
      PROVE  o \in tampered'
  BY <1>1, <1>2, <1>3 DEF Finalize, TypeOK
<1>4. ASSUME NEW p \in Objects, Sweep(p)
      PROVE  o \in tampered'
  <2>1. p # o
    BY <1>1, <1>4, ObjectFacts DEF Sweep
  <2> QED
    BY <1>1, <1>2, <1>4, <2>1 DEF Sweep, TypeOK
<1>5. ASSUME NEW p \in Objects, Tamper(p)
      PROVE  o \in tampered'
  BY <1>1, <1>2, <1>5 DEF Tamper, TypeOK
<1>6. ASSUME NEW p \in Objects, Written(p)
      PROVE  o \in tampered'
  BY <1>1, <1>2, <1>6 DEF Written, TypeOK
<1>7. ASSUME NEW D \in SUBSET Deletable, DeletionRequested(D)
      PROVE  o \in tampered'
  BY <1>1, <1>2, <1>7 DEF DeletionRequested
<1>8. CASE UNCHANGED <<store, tampered>>
  BY <1>2, <1>8
<1> QED
  BY <1>3, <1>4, <1>5, <1>6, <1>7, <1>8, EveryStoreStep DEF StoreStep

\* A step of anybody but the controller leaves the pass and a released Velero
\* alone, and ends the life of no Velero that holds a finalizer.
LEMMA OthersStep ==
  ASSUME User \/ Operator \/ Clusters \/ Foreign
  PROVE  /\ UNCHANGED passVars
         /\ life = "deleting" => life' = "deleting"
         /\ released' = released \/ released' = "no"
         /\ released' # "no" /\ life = "absent" => life' = "absent"
<1> USE DEF crVars, passVars
<1>1. CASE User
  BY <1>1 DEF User, CreateVelero, RequestDelete, EditSpec
<1>2. CASE Operator
  BY <1>2 DEF Operator, EditAvailable, EditPull, EditSource
<1>3. CASE Clusters
  BY <1>3 DEF Clusters, Finalize, Sweep, RollOut
<1>4. CASE Foreign
  BY <1>4 DEF Foreign, PodFails, Tamper
<1> QED
  BY <1>1, <1>2, <1>3, <1>4


\* A pass starts with nothing deleted and nothing checked, for a Velero that
\* holds its finalizer.
LEMMA BeforeStep ==
  ASSUME Before
  PROVE  /\ mode = "idle" /\ UNCHANGED <<checked, gone>>
         /\ mode' # "idle" => life' = life /\ released' = released /\ life # "absent"
         /\ mode' \in {"idle", "apply", "delete"}
         /\ mode' = "delete" => life = "deleting"
         /\ released' = released \/ life' = "absent"
         /\ life # "absent"
<1> USE DEF crVars, passVars
<1>1. CASE AddFinalizer \/ RejectApply \/ RejectDelete \/ FailInstanceID
  BY <1>1 DEF AddFinalizer, RejectApply, RejectDelete, FailInstanceID
<1>2. CASE StartApply \/ StartDelete
  BY <1>2 DEF StartApply, StartDelete, StartPass
<1> QED
  BY <1>1, <1>2 DEF Before

\* The calls of an Apply pass keep the pass going and find nothing deleted.
LEMMA ApplyStep ==
  ASSUME NEW o \in Objects, ApplyObject(o) \/ ApplyRefused(o) \/ ApplyFault(o)
  PROVE  /\ mode = "apply" /\ mode' = "apply"
         /\ UNCHANGED <<checked, gone, life, released>>
BY DEF ApplyObject, ApplyRefused, ApplyFault, Visited, crVars

\* The calls of a deletion pass keep the pass going, and those that count an
\* object as deleted found it absent or keep it for its user data.
LEMMA DeleteStep ==
  ASSUME NEW o \in Objects,
         \/ CheckDependents(o) \/ RefuseDelete(o)
         \/ DeleteObject(o) \/ DeleteFault(o)
  PROVE  /\ mode = "delete" /\ mode' = "delete" /\ UNCHANGED <<life, released>>
         /\ \/ gone' = gone
            \/ /\ gone' = gone \cup {o} /\ store' = store
               /\ o \in Deletable => store[o] = "absent"
BY ObjectFacts
   DEF CheckDependents, RefuseDelete, DeleteObject, DeleteFault, Visited,
       MayDelete, crVars, storeVars

\* The cleaner leaves the results of the pass alone.
LEMMA CleanupStep ==
  ASSUME Cleanup \/ CleanupFault
  PROVE  mode # "idle" /\ UNCHANGED <<mode, checked, gone, life, released>>
BY DEF Cleanup, CleanupFault, ListCopies, ListFault, DeleteCopy, DeleteCopyFault,
       Unlist, crVars

\* The end of a pass, planned or not, forgets its results.
LEMMA EndStep ==
  ASSUME FinishApply \/ FinishDelete \/ Crash
  PROVE  /\ mode # "idle" /\ mode' = "idle" /\ checked' = FALSE /\ gone' = {}
         /\ \/ UNCHANGED <<life, released>>
            \/ /\ FinishDelete /\ AllDeleted /\ mode = "delete"
               /\ life' = "absent" /\ released' = "complete"
               /\ store' = store
BY DEF FinishApply, FinishDelete, Crash, EndPass, crVars, storeVars

\* The results of a deletion pass stay true while it runs.
LEMMA GoneStep ==
  ASSUME TypeOK, Next, GoneInv
  PROVE  GoneInv'
<1>1. CASE User \/ Operator \/ Clusters \/ Foreign
  <2>1. UNCHANGED <<mode, gone>> /\ (life = "deleting" => life' = "deleting")
    BY <1>1, OthersStep DEF passVars
  <2>2. \A o \in gone \cap Deletable : store'[o] = "absent"
    BY <2>1, NothingCreated DEF GoneInv, TypeOK
  <2> QED
    BY <2>1, <2>2 DEF GoneInv, Deletable
<1>2. CASE Before
  BY <1>2, BeforeStep DEF GoneInv
<1>3. ASSUME NEW o \in Objects, ApplyObject(o) \/ ApplyRefused(o) \/ ApplyFault(o)
      PROVE  GoneInv'
  BY <1>3, ApplyStep DEF GoneInv
<1>4. ASSUME NEW o \in Objects,
             \/ CheckDependents(o) \/ RefuseDelete(o)
             \/ DeleteObject(o) \/ DeleteFault(o)
      PROVE  GoneInv'
  <2>1. mode = "delete" /\ mode' = "delete" /\ life' = life
    BY <1>4, DeleteStep
  <2>2. \A p \in gone \cap Deletable : store'[p] = "absent"
    BY <2>1, NothingCreated DEF GoneInv, TypeOK
  <2>3. \A p \in gone' \cap Deletable : store'[p] = "absent"
    BY <1>4, <2>2, DeleteStep
  <2> QED
    BY <2>1, <2>3 DEF GoneInv, Deletable
<1>5. CASE Cleanup \/ CleanupFault
  <2>1. mode # "idle" /\ UNCHANGED <<mode, gone, life>>
    BY <1>5, CleanupStep
  <2>2. CASE mode = "apply"
    BY <2>1, <2>2 DEF GoneInv
  <2>3. CASE mode # "apply"
    <3>1. \A o \in gone \cap Deletable : store'[o] = "absent"
      BY <2>3, NothingCreated DEF GoneInv, TypeOK
    <3> QED
      BY <2>1, <3>1 DEF GoneInv, Deletable
  <2> QED
    BY <2>2, <2>3
<1>6. CASE FinishApply \/ FinishDelete \/ Crash
  BY <1>6, EndStep DEF GoneInv
<1> QED
  BY <1>1, <1>2, <1>3, <1>4, <1>5, <1>6
     DEF Next, Controller, ApplyPass, DeletePass

\* Between the check and the delete the token secret does not come back.
LEMMA CheckedStep ==
  ASSUME TypeOK, Next, CheckedInv
  PROVE  CheckedInv'
<1>1. "token" \in Objects
  BY ObjectFacts
<1>2. ASSUME checked, mode' = mode PROVE store'["token"] = "absent"
  BY <1>1, <1>2, NothingCreated DEF CheckedInv
<1>3. CASE User \/ Operator \/ Clusters \/ Foreign
  BY <1>2, <1>3, OthersStep DEF CheckedInv, passVars
<1>4. CASE Before
  BY <1>4, BeforeStep DEF CheckedInv
<1>5. ASSUME NEW o \in Objects, ApplyObject(o) \/ ApplyRefused(o) \/ ApplyFault(o)
      PROVE  CheckedInv'
  BY <1>5, ApplyStep DEF CheckedInv
<1>6. ASSUME NEW o \in Objects, CheckDependents(o)
      PROVE  CheckedInv'
  <2>1. DependentsOf(o) = {"token"}
    BY <1>6, TheDependent DEF CheckDependents, TypeOK
  <2> QED
    BY <1>6, <2>1 DEF CheckDependents, CheckedInv, storeVars
<1>7. ASSUME NEW o \in Objects, RefuseDelete(o)
      PROVE  CheckedInv'
  BY <1>7 DEF RefuseDelete, CheckedInv
<1>8. ASSUME NEW o \in Objects, DeleteObject(o) \/ DeleteFault(o)
      PROVE  CheckedInv'
  BY <1>8 DEF DeleteObject, DeleteFault, CheckedInv
<1>9. CASE Cleanup \/ CleanupFault
  BY <1>2, <1>9, CleanupStep DEF CheckedInv
<1>10. CASE FinishApply \/ FinishDelete \/ Crash
  BY <1>10, EndStep DEF CheckedInv
<1> QED
  BY <1>3, <1>4, <1>5, <1>6, <1>7, <1>8, <1>9, <1>10
     DEF Next, Controller, ApplyPass, DeletePass

\* Once its finalizer is gone, no pass runs for a Velero.
LEMMA ReleasedStep ==
  ASSUME TypeOK, Next, ReleasedInv
  PROVE  ReleasedInv'
<1>1. CASE User \/ Operator \/ Clusters \/ Foreign
  BY <1>1, OthersStep DEF ReleasedInv, passVars
<1>2. CASE Before
  BY <1>2, BeforeStep DEF ReleasedInv, TypeOK
<1>3. ASSUME NEW o \in Objects, ApplyObject(o) \/ ApplyRefused(o) \/ ApplyFault(o)
      PROVE  ReleasedInv'
  BY <1>3, ApplyStep DEF ReleasedInv
<1>4. ASSUME NEW o \in Objects,
             \/ CheckDependents(o) \/ RefuseDelete(o)
             \/ DeleteObject(o) \/ DeleteFault(o)
      PROVE  ReleasedInv'
  BY <1>4, DeleteStep DEF ReleasedInv
<1>5. CASE Cleanup \/ CleanupFault
  BY <1>5, CleanupStep DEF ReleasedInv
<1>6. CASE FinishApply \/ FinishDelete \/ Crash
  BY <1>6, EndStep DEF ReleasedInv
<1> QED
  BY <1>1, <1>2, <1>3, <1>4, <1>5, <1>6
     DEF Next, Controller, ApplyPass, DeletePass

\* When every registered object counts as deleted, no deletable object exists:
\* what is not registered lies in the namespace of the instance, which is.
LEMMA NothingLeft ==
  ASSUME TypeOK, NamespaceInv, GoneInv, AllDeleted
  PROVE  \A o \in Deletable : store[o] = "absent"
<1>1. \A o \in Managed(snapPull) \cap Deletable : store[o] = "absent"
  BY DEF AllDeleted, GoneInv
<1>2. snapPull \in SUBSET PullSecrets
  BY DEF TypeOK
<1>3. store["wlNs"] = "absent"
  BY <1>1, <1>2, DeletableIsCovered
<1>4. \A o \in Contents("wlNs") : store[o] = "absent"
  BY <1>3 DEF NamespaceInv, Namespaces
<1> QED
  BY <1>1, <1>2, <1>4, DeletableIsCovered

\* A deletion is only reported complete at the end of a pass that found
\* everything deleted.
LEMMA CompletionStep ==
  ASSUME Next, released # "complete", released' = "complete"
  PROVE  FinishDelete /\ AllDeleted /\ mode = "delete" /\ store' = store
<1>1. ~(User \/ Operator \/ Clusters \/ Foreign)
  BY OthersStep
<1>2. ~Before
  BY DEF Before, AddFinalizer, RejectApply, RejectDelete, FailInstanceID,
         StartApply, StartDelete, StartPass
<1>3. ~(Cleanup \/ CleanupFault)
  BY CleanupStep
<1>4. ASSUME NEW o \in Objects,
             \/ ApplyObject(o) \/ ApplyRefused(o) \/ ApplyFault(o)
             \/ CheckDependents(o) \/ RefuseDelete(o)
             \/ DeleteObject(o) \/ DeleteFault(o)
      PROVE  FALSE
  BY <1>4, ApplyStep, DeleteStep
<1> QED
  BY <1>1, <1>2, <1>3, <1>4, EndStep DEF Next, Controller, ApplyPass, DeletePass

\* A completed deletion has cleaned up, and nothing comes back.
LEMMA CleanupDoneStep ==
  ASSUME TypeOK, Next, NamespaceInv, GoneInv, ReleasedInv, CompleteCleanup
  PROVE  CompleteCleanup'
<1> SUFFICES ASSUME released' = "complete", NEW o \in Deletable
             PROVE  store'[o] = "absent"
  BY DEF CompleteCleanup, Deletable
<1>1. CASE released = "complete"
  <2>1. mode = "idle" /\ store[o] = "absent"
    BY <1>1 DEF ReleasedInv, CompleteCleanup
  <2> QED
    BY <2>1, NothingCreated DEF Deletable
<1>2. CASE released # "complete"
  BY <1>2, CompletionStep, NothingLeft
<1> QED
  BY <1>1, <1>2

\* The safety invariant: completed deletions are complete, for any number of
\* CRDs and pull secrets, through any faults, crashes, edits and foreign
\* deletions.
THEOREM Safety == Spec => []Inv
<1>1. Init => Inv
  BY ObjectFacts
     DEF Init, Inv, NamespaceInv, UserDataInv, GoneInv, CheckedInv, ReleasedInv,
         CompleteCleanup, Deletable
<1>2. TypeOK /\ Inv /\ [Next]_vars => Inv'
  <2> SUFFICES ASSUME TypeOK, Inv, [Next]_vars PROVE Inv'
    OBVIOUS
  <2>1. CASE UNCHANGED vars
    BY <2>1
       DEF vars, crVars, configVars, storeVars, passVars, boundVars, Inv,
           NamespaceInv, UserDataInv, GoneInv, CheckedInv, ReleasedInv,
           CompleteCleanup
  <2>2. CASE Next
    BY <2>2, NamespaceStep, UserDataStep, GoneStep, CheckedStep, ReleasedStep,
       CleanupDoneStep DEF Inv
  <2> QED
    BY <2>1, <2>2
<1> QED
  BY <1>1, <1>2, TypeCorrect, PTL DEF Spec

\* Completed deletions leave nothing deletable behind.
COROLLARY CleanupCorrect == Spec => []CompleteCleanup
<1>1. Inv => CompleteCleanup
  BY DEF Inv
<1> QED
  BY <1>1, Safety, PTL

-----------------------------------------------------------------------------
(***************************************************************************)
(* The action properties.                                                  *)
(***************************************************************************)

\* Data of the end user is never deleted by the controller, nor by the
\* namespaces it deletes.
THEOREM UserDataSafe == Spec => UserDataKept
<1>1. ASSUME TypeOK, Inv, [Next]_vars, NEW o \in UserData,
             store[o] # "absent", o \notin tampered
      PROVE  store'[o] = "live" \/ o \in tampered'
  <2>1. o \in Objects /\ store[o] = "live"
    BY <1>1, ObjectFacts DEF Inv, UserDataInv, TypeOK, States
  <2>2. CASE UNCHANGED vars
    BY <2>1, <2>2 DEF vars, storeVars
  <2>3. CASE Next
    <3>1. UserDataInv'
      BY <1>1, <2>3, UserDataStep DEF Inv
    <3>2. store'[o] # "absent"
      <4>1. ASSUME NEW p \in Objects, Finalize(p) \/ Sweep(p) \/ Tamper(p)
            PROVE  store'[o] # "absent"
        BY <1>1, <2>1, <4>1 DEF Finalize, Sweep, Tamper, TypeOK
      <4>2. ASSUME NEW p \in Objects, Written(p)
            PROVE  store'[o] # "absent"
        BY <1>1, <2>1, <4>2 DEF Written, TypeOK
      <4>3. ASSUME NEW D \in SUBSET Deletable, DeletionRequested(D)
            PROVE  store'[o] # "absent"
        BY <2>1, <4>3 DEF DeletionRequested
      <4>4. StoreStep
        BY <1>1, <2>3, EveryStoreStep
      <4> QED
        BY <2>1, <4>1, <4>2, <4>3, <4>4 DEF StoreStep
    <3>3. store'[o] \in States
      BY <1>1, <2>1, <2>3, TypeEnvironment, TypeFrame, TypeVisits
         DEF Next, Controller, ApplyPass, DeletePass, TypeOK
    <3> QED
      BY <3>1, <3>2, <3>3 DEF UserDataInv, States
  <2> QED
    BY <1>1, <2>2, <2>3
<1>2. TypeOK /\ Inv /\ [Next]_vars
        => [\A o \in UserData :
              store[o] # "absent" /\ o \notin tampered
                => store'[o] = "live" \/ o \in tampered']_vars
  BY <1>1
<1> QED
  BY <1>2, TypeCorrect, Safety, PTL DEF Spec, UserDataKept

\* The service account is not deleted under a token secret.
THEOREM TokenSafe == Spec => TokenGoesFirst
<1>1. ASSUME TypeOK, Inv, Next, mode = "delete",
             store["sa"] = "live", store'["sa"] = "terminating"
      PROVE  store["token"] = "absent" \/ "sa" \in tampered'
  <2>1. "sa" \in Objects /\ "sa" \notin PullSecrets
    BY ObjectFacts
  <2>2. ASSUME NEW o \in Objects, DeleteObject(o) \/ DeleteFault(o)
        PROVE  store["token"] = "absent"
    <3>1. o = "sa"
      BY <1>1, <2>1, <2>2 DEF DeleteObject, DeleteFault, TypeOK
    <3>2. DependentsOf(o) = {"token"}
      BY <1>1, <3>1, TheDependent DEF TypeOK
    <3>3. checked
      BY <2>2, <3>2 DEF DeleteObject, DeleteFault, MayDelete
    <3> QED
      BY <1>1, <3>3 DEF Inv, CheckedInv
  <2>3. ASSUME NEW o \in Objects, Finalize(o) \/ Tamper(o)
        PROVE  "sa" \in tampered'
    BY <1>1, <2>1, <2>3 DEF Finalize, Tamper, TypeOK
  <2>4. ASSUME NEW o \in Objects, Sweep(o)
        PROVE  "sa" \in tampered'
    <3>1. o = "sa"
      BY <1>1, <2>1, <2>4 DEF Sweep, TypeOK
    <3>2. PICK ns \in Namespaces :
            /\ "sa" \in Contents(ns) /\ store[ns] = "terminating"
            /\ tampered' = IF ns \in tampered THEN tampered \cup {"sa"} ELSE tampered
      BY <2>4, <3>1 DEF Sweep
    <3>3. ns = "mcpNs"
      BY <2>1, <3>2 DEF Namespaces, Contents
    <3> QED
      BY <1>1, <3>2, <3>3, ObjectFacts DEF Inv, UserDataInv
  <2>5. ~Cleanup /\ ~CleanupFault
    BY <1>1, <2>1, CleanupStores DEF DeletionRequested
  <2>6. CASE store' = store
    BY <1>1, <2>6
  <2>7. CASE store' # store
    <3>1. \/ \E o \in Objects : \/ Finalize(o) \/ Sweep(o) \/ Tamper(o)
                               \/ DeleteObject(o) \/ DeleteFault(o)
      BY <1>1, <2>5, <2>7, ApplyStep
         DEF Next, User, Operator, Clusters, Foreign, Controller, Before,
             ApplyPass, DeletePass, CreateVelero, RequestDelete, EditSpec,
             EditAvailable, EditPull, EditSource, RollOut, PodFails,
             AddFinalizer, RejectApply, RejectDelete, FailInstanceID, StartApply,
             StartDelete, StartPass, FinishApply, FinishDelete, Crash,
             CheckDependents, RefuseDelete, storeVars
    <3> QED
      BY <2>2, <2>3, <2>4, <3>1
  <2> QED
    BY <2>6, <2>7
<1>2. TypeOK /\ Inv /\ [Next]_vars
        => [mode = "delete" /\ store["sa"] = "live" /\ store'["sa"] = "terminating"
              => store["token"] = "absent" \/ "sa" \in tampered']_vars
  BY <1>1
<1> QED
  BY <1>2, TypeCorrect, Safety, PTL DEF Spec, TokenGoesFirst
=============================================================================
