------------------------ MODULE TwoControllersProofs ------------------------
(***************************************************************************)
(* Theorems about two processes at work on one Velero, for every set of    *)
(* CRDs, pull secrets and specs and every bound.                           *)
(*                                                                         *)
(* A step of a process is looked at in two ways: by its effect on the      *)
(* clusters (SharedStep), which does not tell who takes it, and by what it *)
(* does to the pass and to the Velero (Moves), which is stated of the pass *)
(* variables of either process.                                            *)
(***************************************************************************)
EXTENDS TwoControllers, VeleroReadyProofs, VeleroRefinementProofs

StoreTypes == store \in [Objects -> States] /\ tampered \subseteq Objects

\* The pull secrets a pass registers.
Registered(sp) == sp \subseteq PullSecrets

-----------------------------------------------------------------------------
(***************************************************************************)
(* The effects of a step on the clusters.                                  *)
(***************************************************************************)

\* An object is created if it is absent, and kept otherwise.
Created(o) ==
  /\ store' = [store EXCEPT ![o] = IF @ = "absent" THEN "live" ELSE @]
  /\ tampered' = IF store[o] = "absent" THEN tampered \ {o} ELSE tampered

SharedStep ==
  \/ UNCHANGED <<store, tampered>>
  \/ \E o \in Objects : Finalize(o) \/ Sweep(o) \/ Tamper(o)
  \/ /\ mode = "apply" \/ modeB = "apply"
     /\ \E o \in Objects : Writable(o) /\ Created(o)
  \/ \E D \in SUBSET Deletable :
       DeletionRequested(D) /\ ("sa" \in D => checked \/ checkedB)

\* One object whose deletion is requested.
LEMMA OneDeletion ==
  ASSUME StoreTypes, NEW o \in Objects, o \in Deletable, store[o] # "absent",
         o = "sa" => checked \/ checkedB,
         store' = [store EXCEPT ![o] = "terminating"], tampered' = tampered
  PROVE  SharedStep
<1>1. DeletionRequested({o})
  BY DEF DeletionRequested, StoreTypes
<1> QED
  BY <1>1 DEF SharedStep

\* A pull secret that the cleaner of a process deletes, or finds deleted.
LEMMA CopyDeletion ==
  ASSUME StoreTypes, NEW s \in PullSecrets, store' \in {store, WithoutCopy(s)},
         tampered' = tampered
  PROVE  \E D \in SUBSET PullSecrets : DeletionRequested(D)
<1>1. s \in Objects
  BY ObjectFacts
<1>2. CASE store' = store
  <2>1. DeletionRequested({})
    BY <1>2 DEF DeletionRequested, StoreTypes
  <2> QED
    BY <2>1
<1>3. CASE store' # store
  <2>1. store[s] # "absent" /\ store' = [store EXCEPT ![s] = "terminating"]
    BY <1>1, <1>3 DEF WithoutCopy, StoreTypes
  <2>2. DeletionRequested({s})
    BY <1>1, <2>1 DEF DeletionRequested, StoreTypes
  <2> QED
    BY <2>2
<1> QED
  BY <1>2, <1>3

\* The cleaner of the first process requests deletions of pull secrets and leaves
\* the rest of the pass and the Velero alone.
LEMMA FirstCleans ==
  ASSUME StoreTypes, Cleanup \/ CleanupFault
  PROVE  /\ \E D \in SUBSET PullSecrets : DeletionRequested(D)
         /\ mode # "idle" /\ todo = {} /\ todo' = todo
         /\ failed' \/ failed' = failed
         /\ UNCHANGED <<mode, snapPull, checked, gone, seen>>
         /\ UNCHANGED <<crVars, configVars, pod>>
<1> USE DEF crVars, configVars, storeVars
<1>1. CASE ListCopies \/ ListFault
  <2>1. DeletionRequested({})
    BY <1>1 DEF DeletionRequested, StoreTypes, ListCopies, ListFault
  <2> QED
    BY <1>1, <2>1 DEF ListCopies, ListFault
<1>2. ASSUME NEW s \in PullSecrets, DeleteCopy(s) \/ DeleteCopyFault(s)
      PROVE  Unlist(s) /\ store' \in {store, WithoutCopy(s)} /\ (failed' \/ failed' = failed)
  BY <1>2 DEF DeleteCopy, DeleteCopyFault
<1>3. ASSUME NEW s \in PullSecrets, DeleteCopy(s) \/ DeleteCopyFault(s)
      PROVE  \E D \in SUBSET PullSecrets : DeletionRequested(D)
  BY <1>2, <1>3, CopyDeletion DEF Unlist
<1> QED
  BY <1>1, <1>2, <1>3 DEF Cleanup, CleanupFault, Unlist

\* So does that of the second.
LEMMA SecondCleans ==
  ASSUME StoreTypes, B!Cleanup \/ B!CleanupFault
  PROVE  /\ \E D \in SUBSET PullSecrets : DeletionRequested(D)
         /\ modeB # "idle" /\ todoB = {} /\ todoB' = todoB
         /\ failedB' \/ failedB' = failedB
         /\ UNCHANGED <<modeB, snapPullB, checkedB, goneB, seenB>>
         /\ UNCHANGED <<crVars, configVars, pod>>
<1> USE DEF crVars, configVars, B!crVars, B!configVars, B!storeVars
<1>1. CASE B!ListCopies \/ B!ListFault
  <2>1. DeletionRequested({})
    BY <1>1 DEF DeletionRequested, StoreTypes, B!ListCopies, B!ListFault
  <2> QED
    BY <1>1, <2>1 DEF B!ListCopies, B!ListFault
<1>2. ASSUME NEW s \in PullSecrets, B!DeleteCopy(s) \/ B!DeleteCopyFault(s)
      PROVE  /\ B!Unlist(s) /\ store' \in {store, WithoutCopy(s)}
             /\ failedB' \/ failedB' = failedB
  BY <1>2 DEF B!DeleteCopy, B!DeleteCopyFault, B!WithoutCopy, WithoutCopy
<1>3. ASSUME NEW s \in PullSecrets, B!DeleteCopy(s) \/ B!DeleteCopyFault(s)
      PROVE  \E D \in SUBSET PullSecrets : DeletionRequested(D)
  BY <1>2, <1>3, CopyDeletion DEF B!Unlist
<1> QED
  BY <1>1, <1>2, <1>3 DEF B!Cleanup, B!CleanupFault, B!Unlist

\* Pull secrets whose deletion is requested.
LEMMA CopiesDeletion ==
  ASSUME NEW D \in SUBSET PullSecrets, DeletionRequested(D)
  PROVE  SharedStep
<1>1. D \subseteq Deletable /\ "sa" \notin D
  BY ObjectFacts DEF Deletable
<1> QED
  BY <1>1 DEF SharedStep

\* The effects of the first process.
LEMMA FirstStores ==
  ASSUME StoreTypes, Registered(snapPull), Controller \/ Crash
  PROVE  SharedStep
<1> USE DEF storeVars
<1>1. CASE Before \/ FinishApply \/ FinishDelete \/ Crash
  BY <1>1 DEF Before, AddFinalizer, RejectApply, RejectDelete, FailInstanceID,
     StartApply, StartDelete, StartPass, FinishApply, FinishDelete, Crash,
     SharedStep
<1>2. ASSUME NEW o \in Objects, ApplyObject(o) \/ ApplyRefused(o) \/ ApplyFault(o)
      PROVE  SharedStep
  BY <1>2 DEF ApplyObject, ApplyRefused, ApplyFault, Written, Created,
     SharedStep
<1>3. ASSUME NEW o \in Objects, CheckDependents(o) \/ RefuseDelete(o)
      PROVE  SharedStep
  BY <1>3 DEF CheckDependents, RefuseDelete, SharedStep
<1>4. ASSUME NEW o \in Objects, DeleteObject(o) \/ DeleteFault(o)
      PROVE  SharedStep
  <2>1. tampered' = tampered
    BY <1>4 DEF DeleteObject, DeleteFault
  <2>2. \/ store' = store
        \/ /\ o \in Deletable /\ store[o] # "absent"
           /\ store' = [store EXCEPT ![o] = "terminating"]
    BY <1>4, ObjectFacts DEF DeleteObject, DeleteFault
  <2>3. o = "sa" => checked
    BY <1>4, TheDependent, ObjectFacts DEF DeleteObject, DeleteFault, MayDelete, Registered
  <2> QED
    BY <2>1, <2>2, <2>3, OneDeletion DEF SharedStep
<1>5. CASE Cleanup \/ CleanupFault
  BY <1>5, FirstCleans, CopiesDeletion
<1> QED
  BY <1>1, <1>2, <1>3, <1>4, <1>5 DEF Controller, ApplyPass, DeletePass

\* Both processes manage the same objects in the same way.
LEMMA SameObjects ==
  /\ B!Objects = Objects
  /\ \A o : B!Policy(o) = Policy(o)
  /\ \A o : B!Writable(o) <=> Writable(o)
  /\ \A S : B!Managed(S) = Managed(S)
<1>1. \A o : B!Contents(o) = Contents(o)
  BY DEF B!Contents, Contents
<1>2. B!Namespaces = Namespaces
  BY DEF B!Namespaces, Namespaces
<1> QED
  BY <1>1, <1>2
     DEF B!Objects, Objects, B!Fixed, Fixed, B!McpFixed, McpFixed, B!WorkloadFixed,
         WorkloadFixed, B!Policy, Policy, B!Writable, Writable, B!Managed, Managed

\* What the second process finds to depend on the service account.
LEMMA TheDependentOfB ==
  ASSUME Registered(snapPullB), NEW o \in Objects
  PROVE  B!DependentsOf(o) = IF o = "sa" THEN {"token"} ELSE {}
BY NamesDistinct, SameObjects
   DEF B!DependentsOf, B!Dependents, B!DependsOn, Managed, Fixed, McpFixed,
       WorkloadFixed, Registered

\* The effects of the second process.
LEMMA SecondStores ==
  ASSUME StoreTypes, Registered(snapPullB), B!Controller \/ B!Crash
  PROVE  SharedStep
<1> USE SameObjects DEF B!storeVars
<1>1. CASE B!Before \/ B!FinishApply \/ B!FinishDelete \/ B!Crash
  BY <1>1 DEF B!Before, B!AddFinalizer, B!RejectApply, B!RejectDelete, B!FailInstanceID,
     B!StartApply, B!StartDelete, B!StartPass, B!FinishApply, B!FinishDelete, B!Crash,
     SharedStep
<1>2. ASSUME NEW o \in Objects, B!ApplyObject(o) \/ B!ApplyRefused(o) \/ B!ApplyFault(o)
      PROVE  SharedStep
  BY <1>2 DEF B!ApplyObject, B!ApplyRefused, B!ApplyFault, B!Written, Created,
     SharedStep
<1>3. ASSUME NEW o \in Objects, B!CheckDependents(o) \/ B!RefuseDelete(o)
      PROVE  SharedStep
  BY <1>3 DEF B!CheckDependents, B!RefuseDelete, SharedStep
<1>4. ASSUME NEW o \in Objects, B!DeleteObject(o) \/ B!DeleteFault(o)
      PROVE  SharedStep
  <2>1. tampered' = tampered
    BY <1>4 DEF B!DeleteObject, B!DeleteFault
  <2>2. \/ store' = store
        \/ /\ o \in Deletable /\ store[o] # "absent"
           /\ store' = [store EXCEPT ![o] = "terminating"]
    BY <1>4, ObjectFacts DEF B!DeleteObject, B!DeleteFault
  <2>3. o = "sa" => checkedB
    BY <1>4, TheDependentOfB DEF B!DeleteObject, B!DeleteFault, B!MayDelete, Registered
  <2> QED
    BY <2>1, <2>2, <2>3, OneDeletion DEF SharedStep
<1>5. CASE B!Cleanup \/ B!CleanupFault
  BY <1>5, SecondCleans, CopiesDeletion
<1> QED
  BY <1>1, <1>2, <1>3, <1>4, <1>5 DEF B!Controller, B!ApplyPass, B!DeletePass

-----------------------------------------------------------------------------
(***************************************************************************)
(* What a step of a process does to its pass and to the Velero.  The       *)
(* arguments are the mode, the results, the snapshot and the check of the  *)
(* pass, before and after the step.                                        *)
(***************************************************************************)

\* A call of a pass: it counts as deleted what it found absent, and holds a
\* check it made itself.
Call(m, g, g1, sp, sp1, c, c1) ==
  /\ m # "idle" /\ sp1 = sp /\ UNCHANGED <<life, released>>
  /\ \/ g1 = g
     \/ /\ m = "delete" /\ store' = store
        /\ \E o \in Objects : g1 = g \cup {o} /\ (o \in Deletable => store[o] = "absent")
  /\ c1 => c \/ (m = "delete" /\ store' = store /\ store["token"] = "absent")

\* The end of a pass: the Velero goes when everything registered is deleted.
End(m, m1, g, g1, sp, sp1, c1) ==
  /\ m # "idle" /\ m1 = "idle" /\ g1 = {} /\ sp1 = {} /\ c1 = FALSE
  /\ \/ UNCHANGED <<life, released>>
     \/ /\ m = "delete" /\ Managed(sp) \subseteq g /\ store' = store
        /\ life' = "absent" /\ released' = "complete"

\* What happens to an idle process.
Begin(m, m1, g, g1, sp, sp1, c, c1) ==
  /\ m = "idle" /\ m1 \in {"idle", "apply", "delete"} /\ g1 = g /\ c1 = c
  /\ sp1 \in {sp, pull} /\ life # "absent"
  /\ IF m1 = "idle"
       THEN UNCHANGED released \/ (life' = "absent" /\ released' = "rejected")
       ELSE UNCHANGED <<life, released>>

Moves(m, m1, g, g1, sp, sp1, c, c1) ==
  /\ pull' = pull
  /\ \/ m1 = m /\ Call(m, g, g1, sp, sp1, c, c1)
     \/ End(m, m1, g, g1, sp, sp1, c1)
     \/ Begin(m, m1, g, g1, sp, sp1, c, c1)

\* The first process moves like this.
LEMMA FirstMoves ==
  ASSUME StoreTypes, Registered(snapPull), Controller \/ Crash
  PROVE  Moves(mode, mode', gone, gone',
               snapPull, snapPull', checked, checked')
<1> DEFINE M == Moves(mode, mode', gone, gone',
                      snapPull, snapPull', checked, checked')
<1> USE DEF crVars, configVars, storeVars
<1>1. CASE Before
  BY <1>1 DEF Before, AddFinalizer, RejectApply, RejectDelete, FailInstanceID,
     StartApply, StartDelete, StartPass, passVars, Moves, Begin
<1>2. ASSUME NEW o \in Objects, ApplyObject(o) \/ ApplyRefused(o) \/ ApplyFault(o)
      PROVE  M
  BY <1>2 DEF ApplyObject, ApplyRefused, ApplyFault, Visited, Moves, Call
<1>3. ASSUME NEW o \in Objects, CheckDependents(o)
      PROVE  M
  <2>1. store["token"] = "absent"
    BY <1>3, TheDependent, ObjectFacts DEF CheckDependents, Registered
  <2> QED
    BY <1>3, <2>1 DEF CheckDependents, Moves, Call
<1>4. ASSUME NEW o \in Objects, RefuseDelete(o)
      PROVE  M
  BY <1>4 DEF RefuseDelete, Visited, Moves, Call
<1>5. ASSUME NEW o \in Objects, DeleteObject(o) \/ DeleteFault(o)
      PROVE  M
  <2>1. /\ mode = "delete" /\ checked' = FALSE
        /\ UNCHANGED <<mode, snapPull, life, released, pull>>
    BY <1>5 DEF DeleteObject, DeleteFault, MayDelete, Visited
  <2>2. \/ gone' = gone
        \/ /\ store' = store /\ gone' = gone \cup {o}
           /\ o \in Deletable => store[o] = "absent"
    BY <1>5, ObjectFacts DEF DeleteObject, DeleteFault
  <2> QED
    BY <2>1, <2>2 DEF Moves, Call
<1>6. CASE Cleanup \/ CleanupFault
  BY <1>6, FirstCleans DEF Moves, Call
<1>7. CASE FinishApply \/ FinishDelete \/ Crash
  BY <1>7 DEF FinishApply, FinishDelete, Crash, EndPass, AllDeleted, Moves, End
<1> QED
  BY <1>1, <1>2, <1>3, <1>4, <1>5, <1>6, <1>7 DEF Controller, ApplyPass, DeletePass

\* The second process moves like this.
LEMMA SecondMoves ==
  ASSUME StoreTypes, Registered(snapPullB), B!Controller \/ B!Crash
  PROVE  Moves(modeB, modeB', goneB, goneB',
               snapPullB, snapPullB', checkedB, checkedB')
<1> DEFINE M == Moves(modeB, modeB', goneB, goneB',
                      snapPullB, snapPullB', checkedB, checkedB')
<1> USE SameObjects DEF B!crVars, B!configVars, B!storeVars
<1>1. CASE B!Before
  BY <1>1 DEF B!Before, B!AddFinalizer, B!RejectApply, B!RejectDelete, B!FailInstanceID,
     B!StartApply, B!StartDelete, B!StartPass, B!passVars, Moves, Begin
<1>2. ASSUME NEW o \in Objects, B!ApplyObject(o) \/ B!ApplyRefused(o) \/ B!ApplyFault(o)
      PROVE  M
  BY <1>2 DEF B!ApplyObject, B!ApplyRefused, B!ApplyFault, B!Visited, Moves, Call
<1>3. ASSUME NEW o \in Objects, B!CheckDependents(o)
      PROVE  M
  <2>1. store["token"] = "absent"
    BY <1>3, TheDependentOfB DEF B!CheckDependents, Registered
  <2> QED
    BY <1>3, <2>1 DEF B!CheckDependents, Moves, Call
<1>4. ASSUME NEW o \in Objects, B!RefuseDelete(o)
      PROVE  M
  BY <1>4 DEF B!RefuseDelete, B!Visited, Moves, Call
<1>5. ASSUME NEW o \in Objects, B!DeleteObject(o) \/ B!DeleteFault(o)
      PROVE  M
  <2>1. /\ modeB = "delete" /\ checkedB' = FALSE
        /\ UNCHANGED <<modeB, snapPullB, life, released, pull>>
    BY <1>5 DEF B!DeleteObject, B!DeleteFault, B!MayDelete, B!Visited
  <2>2. \/ goneB' = goneB
        \/ /\ store' = store /\ goneB' = goneB \cup {o}
           /\ o \in Deletable => store[o] = "absent"
    BY <1>5, ObjectFacts DEF B!DeleteObject, B!DeleteFault
  <2> QED
    BY <2>1, <2>2 DEF Moves, Call
<1>6. CASE B!Cleanup \/ B!CleanupFault
  BY <1>6, SecondCleans DEF crVars, configVars, Moves, Call
<1>7. CASE B!FinishApply \/ B!FinishDelete \/ B!Crash
  BY <1>7 DEF B!FinishApply, B!FinishDelete, B!Crash, B!EndPass, B!AllDeleted, Moves, End
<1> QED
  BY <1>1, <1>2, <1>3, <1>4, <1>5, <1>6, <1>7 DEF B!Controller, B!ApplyPass, B!DeletePass

-----------------------------------------------------------------------------
(***************************************************************************)
(* What the effects preserve.                                              *)
(***************************************************************************)

\* Every step has one of the effects.
LEMMA EverySharedStep ==
  ASSUME StoreTypes, Registered(snapPull), Registered(snapPullB), TwoNext
  PROVE  SharedStep
<1>1. CASE Recreate
  BY <1>1 DEF Recreate, CreateVelero, storeVars, SharedStep
<1>2. CASE First
  BY <1>2, FirstStores DEF First
<1>3. CASE Second
  BY <1>3, SecondStores DEF Second
<1>4. CASE Others
  BY <1>4 DEF Others, RequestDelete, EditSpec, Operator, EditAvailable, EditPull,
     EditSource, Clusters, Foreign, RollOut, PodFails, storeVars, SharedStep
<1> QED
  BY <1>1, <1>2, <1>3, <1>4 DEF TwoNext

\* Only an Apply creates objects.
LEMMA AbsentStays ==
  ASSUME StoreTypes, SharedStep, mode # "apply", modeB # "apply",
         NEW o \in Objects, store[o] = "absent"
  PROVE  store'[o] = "absent"
<1>1. ASSUME NEW p \in Objects, Finalize(p) \/ Sweep(p) \/ Tamper(p)
      PROVE  store'[o] = "absent"
  BY <1>1 DEF Finalize, Sweep, Tamper, StoreTypes
<1>2. ASSUME NEW D \in SUBSET Deletable, DeletionRequested(D)
      PROVE  store'[o] = "absent"
  BY <1>2 DEF DeletionRequested
<1> QED
  BY <1>1, <1>2 DEF SharedStep

\* Nothing exists in a namespace that does not.
LEMMA NamespacesHold ==
  ASSUME StoreTypes, SharedStep, NamespaceInv
  PROVE  NamespaceInv'
<1> SUFFICES ASSUME NEW ns \in Namespaces, store'[ns] = "absent",
                    NEW c \in Contents(ns)
             PROVE  store'[c] = "absent"
  BY DEF NamespaceInv
<1>1. ns \in Objects /\ c \in Objects /\ c # ns /\ c \notin Namespaces
  BY ObjectFacts DEF Deletable
<1>2. store[ns] = "absent" => store[c] = "absent"
  BY DEF NamespaceInv
<1>3. ASSUME NEW o \in Objects, Finalize(o)
      PROVE  store'[c] = "absent"
  BY <1>1, <1>2, <1>3 DEF Finalize, StoreTypes
<1>4. ASSUME NEW o \in Objects, Sweep(o) \/ Tamper(o)
      PROVE  store'[c] = "absent"
  BY <1>1, <1>2, <1>4 DEF Sweep, Tamper, StoreTypes
<1>5. ASSUME NEW o \in Objects, Writable(o), Created(o)
      PROVE  store'[c] = "absent"
  BY <1>1, <1>2, <1>5 DEF Writable, Created, StoreTypes
<1>6. ASSUME NEW D \in SUBSET Deletable, DeletionRequested(D)
      PROVE  store'[c] = "absent"
  BY <1>1, <1>2, <1>6 DEF DeletionRequested
<1>7. CASE UNCHANGED <<store, tampered>>
  BY <1>2, <1>7
<1> QED
  BY <1>3, <1>4, <1>5, <1>6, <1>7 DEF SharedStep

\* User data is only deleted by foreign actors.
SharedInv == StoreTypes /\ UserDataInv

\* No effect breaks that or takes user data that nobody else deletes.
LEMMA UserDataHolds ==
  ASSUME SharedInv, SharedStep
  PROVE  /\ SharedInv'
         /\ \A o \in UserData : store[o] # "absent" /\ o \notin tampered
              => store'[o] = "live" \/ o \in tampered'
<1> DEFINE Kept == /\ SharedInv'
                   /\ \A o \in UserData : store[o] # "absent" /\ o \notin tampered
                        => store'[o] = "live" \/ o \in tampered'
<1>1. ASSUME NEW o \in UserData
      PROVE  /\ o \in Objects /\ o \notin Deletable /\ store[o] \in States
             /\ store[o] = "terminating" => o \in tampered
  BY ObjectFacts DEF SharedInv, StoreTypes, UserDataInv, Deletable
<1> USE DEF SharedInv, StoreTypes, UserDataInv, States
<1>2. ASSUME NEW p \in Objects, Finalize(p)
      PROVE  Kept
  BY <1>1, <1>2 DEF Finalize
<1>3. ASSUME NEW p \in Objects, Sweep(p)
      PROVE  Kept
  <2>1. p \notin UserData
    BY <1>1, <1>3, ObjectFacts DEF Sweep
  <2> QED
    BY <1>1, <1>3, <2>1 DEF Sweep
<1>4. ASSUME NEW p \in Objects, Tamper(p)
      PROVE  Kept
  BY <1>1, <1>4 DEF Tamper
<1>5. ASSUME NEW p \in Objects, Created(p)
      PROVE  Kept
  BY <1>1, <1>5 DEF Created
<1>6. ASSUME NEW D \in SUBSET Deletable, DeletionRequested(D)
      PROVE  Kept
  BY <1>1, <1>6 DEF DeletionRequested
<1>7. CASE UNCHANGED <<store, tampered>>
  BY <1>1, <1>7
<1> QED
  BY <1>2, <1>3, <1>4, <1>5, <1>6, <1>7 DEF SharedStep

-----------------------------------------------------------------------------
(***************************************************************************)
(* The inductive invariant: what a process has found deleted stays so, and *)
(* what it has checked stays true, unless an Apply of the other process is *)
(* under way.                                                              *)
(***************************************************************************)

Knows(m, g, sp, c, st, ov) ==
  /\ Registered(sp) /\ (m # "delete" => g = {} /\ ~c)
  /\ ~ov => /\ \A o \in g \cap Deletable : st[o] = "absent"
            /\ c => st["token"] = "absent"

Together(m, n, st, ov, lf, rl) ==
  /\ ~ov => {m, n} # {"apply", "delete"}
  /\ rl = "complete"
       => /\ lf = "absent"
          /\ ~ov => /\ m # "apply" /\ n # "apply"
                    /\ \A o \in Deletable : st[o] = "absent"

TwoInv ==
  /\ SharedInv /\ NamespaceInv /\ pull \subseteq PullSecrets
  /\ Knows(mode, gone, snapPull, checked, store, overlap)
  /\ Knows(modeB, goneB, snapPullB, checkedB, store, overlap)
  /\ Together(mode, modeB, store, overlap, life, released)

\* Absent objects stay absent while a process deletes.
Quiet(m1) ==
  ~overlap' /\ m1 = "delete"
    => \A o \in Objects : store[o] = "absent" => store'[o] = "absent"

\* A process that moves keeps its knowledge true.
LEMMA MoverKnows ==
  ASSUME NEW m, NEW m1, NEW g, NEW g1, NEW sp, NEW sp1, NEW c, NEW c1,
         pull \subseteq PullSecrets, Moves(m, m1, g, g1, sp, sp1, c, c1),
         Knows(m, g, sp, c, store, overlap), overlap => overlap', Quiet(m1)
  PROVE  Knows(m1, g1, sp1, c1, store', overlap')
<1> USE ObjectFacts DEF Knows, Quiet, Registered, Deletable
<1>1. CASE m1 = m /\ Call(m, g, g1, sp, sp1, c, c1)
  BY <1>1 DEF Call
<1>2. CASE End(m, m1, g, g1, sp, sp1, c1)
  BY <1>2 DEF End
<1>3. CASE Begin(m, m1, g, g1, sp, sp1, c, c1)
  BY <1>3 DEF Begin
<1> QED
  BY <1>1, <1>2, <1>3 DEF Moves

\* So does one that does not move.
LEMMA OtherKnows ==
  ASSUME NEW n, NEW h, NEW sp, NEW c, Knows(n, h, sp, c, store, overlap),
         overlap => overlap', Quiet(n)
  PROVE  Knows(n, h, sp, c, store', overlap')
BY ObjectFacts DEF Knows, Quiet, Deletable

\* When everything registered was found deleted, nothing deletable is left.
LEMMA NothingLeftOf ==
  ASSUME NEW g, NEW sp, Registered(sp), NamespaceInv, Managed(sp) \subseteq g,
         \A o \in g \cap Deletable : store[o] = "absent"
  PROVE  \A o \in Deletable : store[o] = "absent"
<1>1. sp \in SUBSET PullSecrets
  BY DEF Registered
<1>2. store["wlNs"] = "absent"
  BY <1>1, DeletableIsCovered
<1>3. \A o \in Contents("wlNs") : store[o] = "absent"
  BY <1>2 DEF NamespaceInv, Namespaces
<1> QED
  BY <1>1, <1>3, DeletableIsCovered

\* A process that moves completes no deletion too early and none is undone.
LEMMA MoverTogether ==
  ASSUME NEW m, NEW m1, NEW g, NEW g1, NEW sp, NEW sp1, NEW c, NEW c1, NEW n,
         Moves(m, m1, g, g1, sp, sp1, c, c1), NamespaceInv,
         Knows(m, g, sp, c, store, overlap),
         Together(m, n, store, overlap, life, released),
         overlap' = (overlap \/ {m1, n} = {"apply", "delete"}),
         m # "apply" /\ n # "apply"
           => \A o \in Objects : store[o] = "absent" => store'[o] = "absent"
  PROVE  Together(m1, n, store', overlap', life', released')
<1> USE DEF Together
<1>1. CASE m1 = m /\ Call(m, g, g1, sp, sp1, c, c1)
  BY <1>1 DEF Call, Deletable
<1>2. CASE End(m, m1, g, g1, sp, sp1, c1)
  <2>1. CASE UNCHANGED <<life, released>>
    BY <1>2, <2>1 DEF End, Deletable
  <2>2. CASE /\ m = "delete" /\ Managed(sp) \subseteq g /\ store' = store
             /\ life' = "absent" /\ released' = "complete"
    <3>1. ~overlap' => n # "apply" /\ m1 = "idle" /\ ~overlap
      BY <1>2, <2>2 DEF End
    <3>2. ~overlap' => \A o \in Deletable : store'[o] = "absent"
      BY <2>2, <3>1, NothingLeftOf DEF Knows
    <3> QED
      BY <2>2, <3>1, <3>2
  <2> QED
    BY <1>2, <2>1, <2>2 DEF End
<1>3. CASE Begin(m, m1, g, g1, sp, sp1, c, c1)
  BY <1>3 DEF Begin
<1> QED
  BY <1>1, <1>2, <1>3 DEF Moves

\* The processes keep the invariant.
LEMMA ProcessStep ==
  ASSUME TwoInv, First \/ Second
  PROVE  TwoInv'
<1>1. SharedStep
  BY EverySharedStep DEF TwoInv, SharedInv, Knows, TwoNext
<1>2. SharedInv' /\ NamespaceInv'
  BY <1>1, UserDataHolds, NamespacesHold DEF TwoInv, SharedInv
<1>3. mode # "apply" /\ modeB # "apply"
        => \A o \in Objects : store[o] = "absent" => store'[o] = "absent"
  BY <1>1, AbsentStays DEF TwoInv, SharedInv
<1>4. overlap' = (overlap \/ {mode', modeB'} = {"apply", "delete"})
  BY DEF First, Second, Track
<1>5. CASE First
  <2>1. UNCHANGED <<modeB, snapPullB, goneB, checkedB>>
    BY <1>5 DEF First, passBVars
  <2>2. /\ Registered(snapPull) /\ NamespaceInv /\ pull \subseteq PullSecrets
        /\ Knows(mode, gone, snapPull, checked, store, overlap)
        /\ Knows(modeB, goneB, snapPullB, checkedB, store, overlap)
        /\ Together(mode, modeB, store, overlap, life, released)
    BY DEF TwoInv, Knows
  <2>3. Moves(mode, mode', gone, gone', snapPull, snapPull', checked, checked')
    BY <1>5, <2>2, FirstMoves DEF First, TwoInv, SharedInv
  <2>4. Quiet(mode') /\ Quiet(modeB)
    <3>1. ~overlap' /\ (mode' = "delete" \/ modeB = "delete") /\ mode # "apply"
            => modeB # "apply"
      BY <1>4, <2>1, <2>2 DEF Together
    <3>2. mode = "apply" /\ mode' = "delete" => FALSE
      BY <2>3 DEF Moves, Call, End, Begin
    <3>3. ~overlap' /\ modeB = "delete" => mode # "apply"
      BY <1>4, <2>1, <2>2 DEF Together
    <3> QED
      BY <1>3, <3>1, <3>2, <3>3 DEF Quiet
  <2>5. Knows(mode', gone', snapPull', checked', store', overlap')
    BY <1>4, <2>2, <2>3, <2>4, MoverKnows
  <2>6. Knows(modeB, goneB, snapPullB, checkedB, store', overlap')
    BY <1>4, <2>2, <2>4, OtherKnows
  <2>7. Together(mode', modeB, store', overlap', life', released')
    <3>1. overlap' = (overlap \/ {mode', modeB} = {"apply", "delete"})
      BY <1>4, <2>1
    <3> QED
      BY <1>3, <2>2, <2>3, <3>1, MoverTogether
  <2>8. pull' = pull
    BY <2>3 DEF Moves
  <2> QED
    BY <1>2, <2>1, <2>2, <2>5, <2>6, <2>7, <2>8 DEF TwoInv
<1>6. CASE Second
  <2>1. UNCHANGED <<mode, snapPull, gone, checked>>
    BY <1>6 DEF Second, passVars
  <2>2. /\ Registered(snapPullB) /\ NamespaceInv /\ pull \subseteq PullSecrets
        /\ Knows(mode, gone, snapPull, checked, store, overlap)
        /\ Knows(modeB, goneB, snapPullB, checkedB, store, overlap)
        /\ Together(modeB, mode, store, overlap, life, released)
    BY DEF TwoInv, Knows, Together
  <2>3. Moves(modeB, modeB', goneB, goneB', snapPullB, snapPullB', checkedB, checkedB')
    BY <1>6, <2>2, SecondMoves DEF Second, TwoInv, SharedInv
  <2>4. Quiet(modeB') /\ Quiet(mode)
    <3>1. ~overlap' /\ (modeB' = "delete" \/ mode = "delete") /\ modeB # "apply"
            => mode # "apply"
      BY <1>4, <2>1, <2>2 DEF Together
    <3>2. modeB = "apply" /\ modeB' = "delete" => FALSE
      BY <2>3 DEF Moves, Call, End, Begin
    <3>3. ~overlap' /\ mode = "delete" => modeB # "apply"
      BY <1>4, <2>1, <2>2 DEF Together
    <3> QED
      BY <1>3, <3>1, <3>2, <3>3 DEF Quiet
  <2>5. Knows(modeB', goneB', snapPullB', checkedB', store', overlap')
    BY <1>4, <2>2, <2>3, <2>4, MoverKnows
  <2>6. Knows(mode, gone, snapPull, checked, store', overlap')
    BY <1>4, <2>2, <2>4, OtherKnows
  <2>7. Together(mode, modeB', store', overlap', life', released')
    <3>1. overlap' = (overlap \/ {modeB', mode} = {"apply", "delete"})
      BY <1>4, <2>1
    <3>2. Together(modeB', mode, store', overlap', life', released')
      BY <1>3, <2>2, <2>3, <3>1, MoverTogether
    <3> QED
      BY <3>2 DEF Together
  <2>8. pull' = pull
    BY <2>3 DEF Moves
  <2> QED
    BY <1>2, <2>1, <2>2, <2>5, <2>6, <2>7, <2>8 DEF TwoInv
<1> QED
  BY <1>5, <1>6

\* So do users, operators and clusters, and a Velero created anew.
LEMMA OthersTogether ==
  ASSUME TwoInv, Recreate \/ Others
  PROVE  TwoInv'
<1>1. SharedStep
  BY EverySharedStep DEF TwoInv, SharedInv, Knows, TwoNext
<1>2. SharedInv' /\ NamespaceInv'
  BY <1>1, UserDataHolds, NamespacesHold DEF TwoInv, SharedInv
<1>3. CASE Recreate
  BY <1>2, <1>3 DEF Recreate, CreateVelero, configVars, storeVars, passVars, passBVars,
     TwoInv, Knows, Together
<1>4. CASE Others
  <2>1. /\ UNCHANGED <<passVars, passBVars, overlap>> /\ pull' \subseteq PullSecrets
        /\ released' = released /\ (life = "absent" => life' = "absent")
    BY <1>4 DEF Others, RequestDelete, EditSpec, Operator, EditAvailable, EditPull,
       EditSource, Clusters, Finalize, Sweep, RollOut, Foreign, PodFails, Tamper,
       crVars, configVars, TwoInv
  <2>2. mode # "apply" /\ modeB # "apply"
          => \A o \in Objects : store[o] = "absent" => store'[o] = "absent"
    BY <1>1, AbsentStays DEF TwoInv, SharedInv
  <2>3. Quiet(mode) /\ Quiet(modeB)
    BY <2>1, <2>2 DEF Quiet, TwoInv, Together
  <2>4. /\ Knows(mode, gone, snapPull, checked, store', overlap')
        /\ Knows(modeB, goneB, snapPullB, checkedB, store', overlap')
    BY <2>1, <2>3, OtherKnows DEF TwoInv
  <2>5. Together(mode, modeB, store', overlap', life', released')
    BY <2>1, <2>2 DEF TwoInv, Together, Deletable
  <2> QED
    BY <1>2, <2>1, <2>4, <2>5 DEF TwoInv, passVars, passBVars
<1> QED
  BY <1>3, <1>4

\* Two processes at any point of any two passes.
THEOREM TwoSafety == TwoSpec => []TwoInv
<1>1. TwoInit => TwoInv
  BY ObjectFacts
     DEF TwoInit, Init, TwoInv, SharedInv, StoreTypes, UserDataInv, States,
         NamespaceInv, Knows, Together, Registered, Deletable
<1>2. TwoInv /\ [TwoNext]_twoVars => TwoInv'
  <2>1. CASE UNCHANGED twoVars
    BY <2>1 DEF twoVars, vars, crVars, configVars, storeVars, passVars, passBVars,
       TwoInv, SharedInv, StoreTypes, UserDataInv, NamespaceInv, Knows, Together
  <2> QED
    BY <2>1, ProcessStep, OthersTogether DEF TwoNext
<1> QED
  BY <1>1, <1>2, PTL DEF TwoSpec

\* A deletion that one of two processes completes is complete, unless an Apply
\* of the other was under way.
THEOREM TwoCleanup == TwoSpec => []CleanupUnlessOverlap
<1>1. TwoInv => CleanupUnlessOverlap
  BY DEF TwoInv, Together, CleanupUnlessOverlap
<1> QED
  BY <1>1, TwoSafety, PTL

\* Of two processes that apply and delete one Velero at the same time neither
\* deletes the MCP namespace or a CRD.
THEOREM TwoUserDataSafe == TwoSpec => TwoKeepUserData
<1>1. TwoInv /\ [TwoNext]_twoVars
        => [\A o \in UserData :
              store[o] # "absent" /\ o \notin tampered
                => store'[o] = "live" \/ o \in tampered']_twoVars
  BY EverySharedStep, UserDataHolds DEF TwoInv, SharedInv, Knows
<1> QED
  BY <1>1, TwoSafety, PTL DEF TwoSpec, TwoKeepUserData

\* Neither process deletes the service account under a token secret, unless an
\* Apply of the other was under way.
THEOREM TwoTokenSafe == TwoSpec => TokenFirstUnlessOverlap
<1>1. ASSUME TwoInv, TwoNext, store["sa"] = "live", store'["sa"] = "terminating"
      PROVE  store["token"] = "absent" \/ overlap \/ "sa" \in tampered'
  <2>1. SharedStep /\ StoreTypes /\ "sa" \in Objects
    BY <1>1, EverySharedStep, ObjectFacts DEF TwoInv, SharedInv, Knows
  <2>2. ASSUME NEW o \in Objects, Finalize(o) \/ Tamper(o)
        PROVE  "sa" \in tampered'
    BY <1>1, <2>1, <2>2 DEF Finalize, Tamper, StoreTypes
  <2>3. ASSUME NEW o \in Objects, Sweep(o)
        PROVE  "sa" \in tampered'
    <3>1. o = "sa"
      BY <1>1, <2>1, <2>3 DEF Sweep, StoreTypes
    <3>2. PICK ns \in Namespaces :
            /\ "sa" \in Contents(ns) /\ store[ns] = "terminating"
            /\ tampered' = IF ns \in tampered THEN tampered \cup {"sa"} ELSE tampered
      BY <2>3, <3>1 DEF Sweep
    <3>3. ns = "mcpNs"
      BY <3>2, ObjectFacts DEF Namespaces, Contents
    <3> QED
      BY <1>1, <3>2, <3>3, ObjectFacts DEF TwoInv, SharedInv, UserDataInv
  <2>4. ASSUME NEW o \in Objects, Created(o)
        PROVE  FALSE
    BY <1>1, <2>1, <2>4 DEF Created, StoreTypes
  <2>5. ASSUME NEW D \in SUBSET Deletable, DeletionRequested(D),
               "sa" \in D => checked \/ checkedB
        PROVE  store["token"] = "absent" \/ overlap
    BY <1>1, <2>1, <2>5 DEF DeletionRequested, TwoInv, Knows
  <2> QED
    BY <1>1, <2>1, <2>2, <2>3, <2>4, <2>5 DEF SharedStep
<1>2. TwoInv /\ [TwoNext]_twoVars
        => [store["sa"] = "live" /\ store'["sa"] = "terminating"
              => store["token"] = "absent" \/ overlap \/ "sa" \in tampered']_twoVars
  BY <1>1
<1> QED
  BY <1>2, TwoSafety, PTL DEF TwoSpec, TokenFirstUnlessOverlap

-----------------------------------------------------------------------------
(***************************************************************************)
(* Ready.  What an Apply pass of either process believes of the objects it *)
(* has seen ready is so while the other applies as well.  A pass is a      *)
(* record here; p is a pass before a step and q the same pass after it.    *)
(***************************************************************************)

PassA == [mode |-> mode, todo |-> todo, seen |-> seen, failed |-> failed,
          listed |-> listed]
PassB == [mode |-> modeB, todo |-> todoB, seen |-> seenB, failed |-> failedB,
          listed |-> listedB]

\* The objects every pass registers.
Permanent == Objects \ PullSecrets

\* What the steps of environments and Apply passes do to the clusters.
Gentle ==
  \/ WorldMoves
  \/ pod' = pod /\ \E o \in Objects : Created(o)
  \/ pod' = pod /\ \E D \in SUBSET PullSecrets : DeletionRequested(D)

\* The object that is next in a pass.
NextIn(o, p) == o \in p.todo /\ \A x \in p.todo : Rank(o) <= Rank(x)

Succeeds(p, q) ==
  \E o \in Objects :
    /\ NextIn(o, p) /\ Created(o)
    /\ q.todo = p.todo \ {o} /\ q.seen = [p.seen EXCEPT ![o] = Status(o, store'[o])]
    /\ q.failed = p.failed /\ q.listed = p.listed

Fails(p, q) ==
  /\ q.failed
  /\ \/ \E o \in Objects : NextIn(o, p) /\ q.todo = p.todo \ {o} /\ q.listed = p.listed
     \/ q.todo = {}

Cleans(p, q) ==
  /\ p.todo = {} /\ q.todo = {} /\ q.seen = p.seen /\ q.failed = p.failed
  /\ \E D \in SUBSET PullSecrets : DeletionRequested(D)

Begins(p, q) ==
  /\ p.mode = "idle" /\ q.listed = p.listed
  /\ \E S \in SUBSET PullSecrets : q.todo = Managed(S)

\* A step of a process, as it looks to its pass and to the clusters.
Works(p, q) ==
  /\ pod' = pod /\ DOMAIN q.seen = Objects
  /\ Gentle \/ (p.mode = "delete" /\ \E D \in SUBSET Deletable : DeletionRequested(D))
  /\ \/ p.mode = "apply" /\ q.mode = "apply" /\ (Succeeds(p, q) \/ Fails(p, q) \/ Cleans(p, q))
     \/ q.mode = "apply" /\ Begins(p, q)
     \/ q.mode = "idle" /\ (q.listed => p.mode = "idle" /\ p.listed)
     \/ q.mode = "delete"

\* The first process works like this.
LEMMA FirstWorks ==
  ASSUME StoreTypes, Registered(snapPull), pull \subseteq PullSecrets,
         DOMAIN seen = Objects, mode \in {"idle", "apply", "delete"},
         Controller \/ Crash
  PROVE  Works(PassA, PassA')
<1> DEFINE W == Works(PassA, PassA')
<1>q. /\ PassA.mode = mode /\ PassA.todo = todo /\ PassA.seen = seen
      /\ PassA.failed = failed /\ PassA.listed = listed
      /\ PassA'.mode = mode' /\ PassA'.todo = todo' /\ PassA'.seen = seen'
      /\ PassA'.failed = failed' /\ PassA'.listed = listed'
  BY DEF PassA
<1>s. UNCHANGED <<store, tampered, pod>> => Gentle /\ pod' = pod
  BY DEF Gentle, WorldMoves
<1> HIDE DEF PassA
<1> USE <1>q, <1>s
<1>1. CASE Before
  <2>1. UNCHANGED <<store, tampered, pod, seen, listed>> /\ mode = "idle"
    BY <1>1 DEF Before, AddFinalizer, RejectApply, RejectDelete, FailInstanceID,
       StartApply, StartDelete, StartPass, passVars, storeVars
  <2>2. \/ mode' = "idle"
        \/ mode' = "delete"
        \/ mode' = "apply" /\ todo' = Managed(pull)
    BY <1>1 DEF Before, AddFinalizer, RejectApply, RejectDelete, FailInstanceID,
       StartApply, StartDelete, StartPass, passVars
  <2> QED
    BY <2>1, <2>2 DEF Works, Begins
<1>2. ASSUME NEW o \in Objects, ApplyObject(o)
      PROVE  W
  <2>1. /\ NextIn(o, PassA) /\ Created(o) /\ pod' = pod /\ mode = "apply"
        /\ todo' = todo \ {o} /\ seen' = [seen EXCEPT ![o] = Status(o, store'[o])]
        /\ failed' = failed /\ listed' = listed /\ mode' = mode
    BY <1>2 DEF ApplyObject, Written, Created, Visited, NextIn, IsNext
  <2> QED
    BY <2>1 DEF Works, Succeeds, Gentle
<1>3. ASSUME NEW o \in Objects, ApplyRefused(o) \/ ApplyFault(o)
      PROVE  W
  <2>1. /\ NextIn(o, PassA) /\ mode = "apply" /\ mode' = mode /\ DOMAIN seen' = Objects
        /\ todo' = todo \ {o} /\ failed' /\ listed' = listed
    BY <1>3 DEF ApplyRefused, ApplyFault, Visited, NextIn, IsNext
  <2>2. pod' = pod /\ (UNCHANGED <<store, tampered>> \/ Created(o))
    BY <1>3 DEF ApplyRefused, ApplyFault, Written, Created, storeVars
  <2> QED
    BY <2>1, <2>2 DEF Works, Fails, Gentle
<1>4. ASSUME NEW o \in Objects,
             CheckDependents(o) \/ RefuseDelete(o) \/ DeleteObject(o) \/ DeleteFault(o)
      PROVE  W
  <2>1. mode = "delete" /\ mode' = mode /\ pod' = pod /\ DOMAIN seen' = Objects
    BY <1>4 DEF CheckDependents, RefuseDelete, DeleteObject, DeleteFault, MayDelete,
       Visited, ReadInto, storeVars
  <2>2. \/ UNCHANGED <<store, tampered>>
        \/ /\ o \in Deletable /\ store[o] # "absent" /\ tampered' = tampered
           /\ store' = [store EXCEPT ![o] = "terminating"]
    BY <1>4, ObjectFacts
       DEF CheckDependents, RefuseDelete, DeleteObject, DeleteFault, storeVars
  <2>3. ASSUME o \in Deletable, store[o] # "absent", tampered' = tampered,
               store' = [store EXCEPT ![o] = "terminating"]
        PROVE  \E D \in SUBSET Deletable : DeletionRequested(D)
    <3>1. DeletionRequested({o})
      BY <2>3 DEF DeletionRequested, StoreTypes
    <3> QED
      BY <2>3, <3>1
  <2> QED
    BY <2>1, <2>2, <2>3 DEF Works
<1>5. CASE Cleanup \/ CleanupFault
  <2>1. \E D \in SUBSET PullSecrets : DeletionRequested(D)
    BY <1>5, FirstCleans
  <2>2. /\ UNCHANGED <<pod, mode, seen>> /\ todo = {} /\ todo' = {}
        /\ mode # "idle" /\ (failed' \/ failed' = failed)
    BY <1>5, FirstCleans
  <2>3. Gentle
    BY <2>1, <2>2 DEF Gentle
  <2>4. Fails(PassA, PassA') \/ Cleans(PassA, PassA')
    BY <2>1, <2>2 DEF Cleans, Fails
  <2> QED
    BY <2>2, <2>3, <2>4 DEF Works
<1>6. CASE FinishApply \/ FinishDelete \/ Crash
  BY <1>6 DEF FinishApply, FinishDelete, Crash, EndPass, storeVars, Works
<1> QED
  BY <1>1, <1>2, <1>3, <1>4, <1>5, <1>6 DEF Controller, ApplyPass, DeletePass

\* Both processes read the same phases and order and clean pull secrets only.
LEMMA SameViews ==
  /\ \A o : B!Rank(o) = Rank(o)
  /\ \A o, s : B!Status(o, s) = Status(o, s)
  /\ B!Stale \subseteq PullSecrets
BY DEF B!Rank, Rank, B!Status, Status, B!Unread, Unread, B!Stale

\* The second process works like this.
LEMMA SecondWorks ==
  ASSUME StoreTypes, Registered(snapPullB), pull \subseteq PullSecrets,
         DOMAIN seenB = Objects, modeB \in {"idle", "apply", "delete"},
         B!Controller \/ B!Crash
  PROVE  Works(PassB, PassB')
<1> DEFINE W == Works(PassB, PassB')
<1>q. /\ PassB.mode = modeB /\ PassB.todo = todoB /\ PassB.seen = seenB
      /\ PassB.failed = failedB /\ PassB.listed = listedB
      /\ PassB'.mode = modeB' /\ PassB'.todo = todoB' /\ PassB'.seen = seenB'
      /\ PassB'.failed = failedB' /\ PassB'.listed = listedB'
  BY DEF PassB
<1>s. UNCHANGED <<store, tampered, pod>> => Gentle /\ pod' = pod
  BY DEF Gentle, WorldMoves
<1> HIDE DEF PassB
<1> USE <1>q, <1>s, SameObjects, SameViews
<1>1. CASE B!Before
  <2>1. UNCHANGED <<store, tampered, pod, seenB, listedB>> /\ modeB = "idle"
    BY <1>1 DEF B!Before, B!AddFinalizer, B!RejectApply, B!RejectDelete, B!FailInstanceID,
       B!StartApply, B!StartDelete, B!StartPass, B!passVars, B!storeVars
  <2>2. \/ modeB' = "idle"
        \/ modeB' = "delete"
        \/ modeB' = "apply" /\ todoB' = Managed(pull)
    BY <1>1 DEF B!Before, B!AddFinalizer, B!RejectApply, B!RejectDelete, B!FailInstanceID,
       B!StartApply, B!StartDelete, B!StartPass, B!passVars
  <2> QED
    BY <2>1, <2>2 DEF Works, Begins
<1>2. ASSUME NEW o \in Objects, B!ApplyObject(o)
      PROVE  W
  <2>1. /\ NextIn(o, PassB) /\ Created(o) /\ pod' = pod /\ modeB = "apply"
        /\ todoB' = todoB \ {o} /\ seenB' = [seenB EXCEPT ![o] = Status(o, store'[o])]
        /\ failedB' = failedB /\ listedB' = listedB /\ modeB' = modeB
    BY <1>2 DEF B!ApplyObject, B!Written, Created, B!Visited, NextIn, B!IsNext
  <2> QED
    BY <2>1 DEF Works, Succeeds, Gentle
<1>3. ASSUME NEW o \in Objects, B!ApplyRefused(o) \/ B!ApplyFault(o)
      PROVE  W
  <2>1. /\ NextIn(o, PassB) /\ modeB = "apply" /\ modeB' = modeB /\ DOMAIN seenB' = Objects
        /\ todoB' = todoB \ {o} /\ failedB' /\ listedB' = listedB
    BY <1>3 DEF B!ApplyRefused, B!ApplyFault, B!Visited, NextIn, B!IsNext
  <2>2. pod' = pod /\ (UNCHANGED <<store, tampered>> \/ Created(o))
    BY <1>3 DEF B!ApplyRefused, B!ApplyFault, B!Written, Created, B!storeVars
  <2> QED
    BY <2>1, <2>2 DEF Works, Fails, Gentle
<1>4. ASSUME NEW o \in Objects,
             B!CheckDependents(o) \/ B!RefuseDelete(o) \/ B!DeleteObject(o) \/ B!DeleteFault(o)
      PROVE  W
  <2>1. modeB = "delete" /\ modeB' = modeB /\ pod' = pod /\ DOMAIN seenB' = Objects
    BY <1>4 DEF B!CheckDependents, B!RefuseDelete, B!DeleteObject, B!DeleteFault, B!MayDelete,
       B!Visited, B!ReadInto, B!storeVars
  <2>2. \/ UNCHANGED <<store, tampered>>
        \/ /\ o \in Deletable /\ store[o] # "absent" /\ tampered' = tampered
           /\ store' = [store EXCEPT ![o] = "terminating"]
    BY <1>4, ObjectFacts
       DEF B!CheckDependents, B!RefuseDelete, B!DeleteObject, B!DeleteFault, B!storeVars
  <2>3. ASSUME o \in Deletable, store[o] # "absent", tampered' = tampered,
               store' = [store EXCEPT ![o] = "terminating"]
        PROVE  \E D \in SUBSET Deletable : DeletionRequested(D)
    <3>1. DeletionRequested({o})
      BY <2>3 DEF DeletionRequested, StoreTypes
    <3> QED
      BY <2>3, <3>1
  <2> QED
    BY <2>1, <2>2, <2>3 DEF Works
<1>5. CASE B!Cleanup \/ B!CleanupFault
  <2>1. \E D \in SUBSET PullSecrets : DeletionRequested(D)
    BY <1>5, SecondCleans
  <2>2. /\ UNCHANGED <<pod, modeB, seenB>> /\ todoB = {} /\ todoB' = {}
        /\ modeB # "idle" /\ (failedB' \/ failedB' = failedB)
    BY <1>5, SecondCleans
  <2>3. Gentle
    BY <2>1, <2>2 DEF Gentle
  <2>4. Fails(PassB, PassB') \/ Cleans(PassB, PassB')
    BY <2>1, <2>2 DEF Cleans, Fails
  <2> QED
    BY <2>2, <2>3, <2>4 DEF Works
<1>6. CASE B!FinishApply \/ B!FinishDelete \/ B!Crash
  BY <1>6 DEF B!FinishApply, B!FinishDelete, B!Crash, B!EndPass, B!storeVars, Works
<1> QED
  BY <1>1, <1>2, <1>3, <1>4, <1>5, <1>6 DEF B!Controller, B!ApplyPass, B!DeletePass

-----------------------------------------------------------------------------
(***************************************************************************)
(* What a pass believes, as the invariant of one process has it in         *)
(* VisitedInv and TokenSeenInv, and why the steps of both keep it true.    *)
(***************************************************************************)

\* The pass may still report Ready.
Hoping(p) ==
  p.mode = "apply" /\ ~p.failed /\ ("wlNs" \in p.todo \/ p.seen["wlNs"] = "Ready")

Saw(o, p) == o \in Permanent \ p.todo /\ p.seen[o] = "Ready"

\* The workload namespace is on its way out and not visited yet, or it was and
\* took the token secret along; then the server does not become ready.
Leaving(p, st, tm) ==
  st["wlNs"] = "terminating" /\ "wlNs" \notin tm /\ "wlNs" \in p.todo
Lost(p, st, pd) ==
  st["token"] = "absent" /\ pd = None /\ ("dep" \in p.todo \/ p.seen["dep"] # "Ready")

There(o, st, tm) == st[o] = "live" \/ o \in tm

Believes(p, st, tm, pd) ==
  Hoping(p) =>
    /\ \A o \in Permanent \ {"token"} : Saw(o, p) => There(o, st, tm)
    /\ Saw("token", p) => \/ There("token", st, tm) \/ Leaving(p, st, tm)
                          \/ Lost(p, st, pd)

\* The visits go by rank, the cleaner comes last.
Ordered(p) ==
  /\ p.mode \in {"idle", "apply", "delete"} /\ DOMAIN p.seen = Objects
  /\ p.mode = "idle" => ~p.listed
  /\ p.mode = "apply" => /\ p.todo \subseteq Objects
                         /\ "wlNs" \in p.todo => "dep" \in p.todo
                         /\ p.listed => p.todo = {}

\* What is permanent, and where it is.
LEMMA PermanentFacts ==
  /\ Permanent \subseteq Objects /\ {"wlNs", "dep", "token"} \subseteq Permanent
  /\ \A S \in SUBSET PullSecrets : Permanent \subseteq Managed(S)
  /\ \A o \in Permanent : o \in Contents("wlNs") => o = "token" \/ o = "dep"
  /\ {"token", "dep"} \subseteq Contents("wlNs") /\ "wlNs" \in Namespaces
  /\ \A ns \in Namespaces : ns # "wlNs" => ns = "mcpNs"
BY NamesDistinct
   DEF Permanent, Objects, Fixed, McpFixed, WorkloadFixed, Managed, Namespaces, Contents

\* A pod ends with its deployment, whoever takes the step.
LEMMA PodHolds ==
  ASSUME StoreTypes, PodInv,
         \/ Gentle
         \/ pod' = pod /\ \E D \in SUBSET Deletable : DeletionRequested(D)
  PROVE  PodInv'
<1> "dep" \in Objects
  BY PermanentFacts
<1>1. CASE WorldMoves
  BY <1>1 DEF WorldMoves, Finalize, Sweep, Tamper, RollOut, PodFails, PodInv, StoreTypes
<1>2. ASSUME NEW o \in Objects, Created(o), pod' = pod
      PROVE  PodInv'
  BY <1>2 DEF Created, PodInv, StoreTypes
<1>3. ASSUME NEW D, DeletionRequested(D), pod' = pod
      PROVE  PodInv'
  BY <1>3 DEF DeletionRequested, PodInv
<1> QED
  BY <1>1, <1>2, <1>3 DEF Gentle

\* What is there is not taken by a gentle step, unless its namespace goes.
LEMMA GentleTakes ==
  ASSUME StoreTypes, UserDataInv, Gentle, NEW o \in Permanent, There(o, store, tampered),
         ~(store["wlNs"] = "terminating" /\ "wlNs" \notin tampered /\ o \in Contents("wlNs"))
  PROVE  There(o, store', tampered')
<1> o \in Objects /\ o \notin PullSecrets
  BY DEF Permanent
<1>1. CASE WorldMoves
  BY <1>1, WorldTakes DEF Earned, There, StoreTypes
<1>2. ASSUME NEW x \in Objects, Created(x)
      PROVE  There(o, store', tampered')
  BY <1>2 DEF Created, There, StoreTypes
<1>3. ASSUME NEW D \in SUBSET PullSecrets, DeletionRequested(D)
      PROVE  There(o, store', tampered')
  BY <1>3 DEF DeletionRequested, There
<1> QED
  BY <1>1, <1>2, <1>3 DEF Gentle

\* A namespace on its way out stays so, or is gone with what it held.
LEMMA GentleLeaves ==
  ASSUME StoreTypes, UserDataInv, PodInv, Gentle, NEW p, Leaving(p, store, tampered),
         Ordered(p), p.mode = "apply"
  PROVE  Leaving(p, store', tampered') \/ Lost(p, store', pod')
<1> USE PermanentFacts
<1>1. CASE Finalize("wlNs")
  <2>1. store["token"] = "absent" /\ store["dep"] = "absent" /\ pod' = pod
    BY <1>1 DEF Finalize
  <2>2. store'["token"] = "absent" /\ pod' = None
    BY <1>1, <2>1 DEF Finalize, PodInv, StoreTypes
  <2> QED
    BY <2>2 DEF Leaving, Lost, Ordered
<1>2. ASSUME NEW x \in Objects \ {"wlNs"}, Finalize(x) \/ Sweep(x) \/ Tamper(x)
      PROVE  Leaving(p, store', tampered')
  BY <1>2 DEF Finalize, Sweep, Tamper, Leaving, StoreTypes
<1>3. ~Sweep("wlNs") /\ ~Tamper("wlNs")
  BY ObjectFacts DEF Sweep, Tamper, Leaving
<1>4. CASE UNCHANGED <<store, tampered, pod>> \/ RollOut \/ PodFails
  BY <1>4 DEF RollOut, PodFails, Leaving
<1>5. ASSUME NEW x \in Objects, Created(x)
      PROVE  Leaving(p, store', tampered')
  BY <1>5 DEF Created, Leaving, StoreTypes
<1>6. ASSUME NEW D \in SUBSET PullSecrets, DeletionRequested(D)
      PROVE  Leaving(p, store', tampered')
  BY <1>6 DEF DeletionRequested, Leaving, Permanent
<1> QED
  BY <1>1, <1>2, <1>3, <1>4, <1>5, <1>6 DEF Gentle, WorldMoves

\* A lost token secret stays lost, or the other process brings it back.
LEMMA GentleLoses ==
  ASSUME StoreTypes, Gentle, NEW p, Lost(p, store, pod)
  PROVE  Lost(p, store', pod') \/ There("token", store', tampered')
<1> USE PermanentFacts
<1>1. ASSUME NEW x \in Objects, Finalize(x) \/ Sweep(x) \/ Tamper(x)
      PROVE  Lost(p, store', pod')
  BY <1>1 DEF Finalize, Sweep, Tamper, Lost, StoreTypes
<1>2. CASE UNCHANGED <<store, tampered, pod>> \/ RollOut \/ PodFails
  BY <1>2 DEF RollOut, PodFails, Lost
<1>3. ASSUME NEW x \in Objects, Created(x), pod' = pod
      PROVE  Lost(p, store', pod') \/ There("token", store', tampered')
  BY <1>3 DEF Created, Lost, There, StoreTypes
<1>4. ASSUME NEW D \in SUBSET PullSecrets, DeletionRequested(D), pod' = pod
      PROVE  Lost(p, store', pod')
  BY <1>4 DEF DeletionRequested, Lost, Permanent
<1> QED
  BY <1>1, <1>2, <1>3, <1>4 DEF Gentle, WorldMoves

\* A pass that does not move keeps believing what is so.
LEMMA OnlookerBelieves ==
  ASSUME StoreTypes, UserDataInv, PodInv, Gentle, NEW p, Ordered(p),
         Believes(p, store, tampered, pod)
  PROVE  Believes(p, store', tampered', pod')
<1> SUFFICES ASSUME Hoping(p)
             PROVE  /\ \A o \in Permanent \ {"token"} :
                         Saw(o, p) => There(o, store', tampered')
                    /\ Saw("token", p) => \/ There("token", store', tampered')
                                          \/ Leaving(p, store', tampered')
                                          \/ Lost(p, store', pod')
  BY DEF Believes
<1> USE PermanentFacts
<1>1. "wlNs" \notin p.todo
        => ~(store["wlNs"] = "terminating" /\ "wlNs" \notin tampered)
  <2>1. "wlNs" \notin p.todo => There("wlNs", store, tampered)
    BY DEF Believes, Hoping, Saw
  <2> QED
    BY <2>1 DEF There
<1>2. p.mode = "apply" /\ ("dep" \notin p.todo => "wlNs" \notin p.todo)
  BY DEF Hoping, Ordered
<1>3. ASSUME NEW o \in Permanent \ {"token"}, Saw(o, p)
      PROVE  There(o, store', tampered')
  <2>1. o \in Contents("wlNs") => "wlNs" \notin p.todo
    BY <1>2, <1>3 DEF Saw
  <2> QED
    BY <1>1, <1>3, <2>1, GentleTakes DEF Believes
<1>4. ASSUME Saw("token", p), There("token", store, tampered)
      PROVE  There("token", store', tampered') \/ Leaving(p, store', tampered')
               \/ Lost(p, store', pod')
  <2>1. CASE Leaving(p, store, tampered)
    BY <1>2, <2>1, GentleLeaves
  <2>2. CASE ~Leaving(p, store, tampered)
    BY <1>1, <1>4, <2>2, GentleTakes DEF Leaving
  <2> QED
    BY <2>1, <2>2
<1> QED
  BY <1>2, <1>3, <1>4, GentleLeaves, GentleLoses DEF Believes

\* The visits of a pass stay in order.
LEMMA WorkerOrdered ==
  ASSUME NEW p, NEW q, Ordered(p), Works(p, q)
  PROVE  Ordered(q)
<1> USE PermanentFacts
<1>1. CASE p.mode = "apply" /\ q.mode = "apply" /\ (Succeeds(p, q) \/ Fails(p, q))
  <2>1. ASSUME NEW o \in Objects, NextIn(o, p), q.todo = p.todo \ {o}
        PROVE  "wlNs" \in q.todo => "dep" \in q.todo
    <3>1. SUFFICES ASSUME "wlNs" \in p.todo, o # "wlNs" PROVE o # "dep"
      BY <1>1, <2>1 DEF Ordered
    <3>2. Rank("wlNs") = 7 /\ Rank("dep") = 9
      BY NamesDistinct DEF Rank, Fixed, McpFixed, WorkloadFixed
    <3> QED
      BY <2>1, <3>1, <3>2 DEF NextIn
  <2> QED
    BY <1>1, <2>1 DEF Works, Succeeds, Fails, NextIn, Ordered
<1>2. CASE p.mode = "apply" /\ q.mode = "apply" /\ Cleans(p, q)
  BY <1>2 DEF Works, Cleans, Ordered
<1>3. CASE q.mode = "apply" /\ Begins(p, q)
  BY <1>3, DeletableIsCovered DEF Works, Begins, Ordered
<1>4. CASE q.mode # "apply"
  BY <1>4 DEF Works, Ordered
<1> QED
  BY <1>1, <1>2, <1>3, <1>4 DEF Works

\* A visit that succeeds keeps what was seen before, and what it sees is so.
LEMMA VisitorBelieves ==
  ASSUME StoreTypes, PodInv, NEW p, NEW q, Ordered(p), p.mode = "apply",
         Succeeds(p, q), pod' = pod, Believes(p, store, tampered, pod)
  PROVE  Believes(q, store', tampered', pod')
<1> SUFFICES ASSUME Hoping(q)
             PROVE  /\ \A o \in Permanent \ {"token"} :
                         Saw(o, q) => There(o, store', tampered')
                    /\ Saw("token", q) => \/ There("token", store', tampered')
                                          \/ Leaving(q, store', tampered')
                                          \/ Lost(q, store', pod')
  BY DEF Believes
<1> USE PermanentFacts
<1>1. PICK x \in Objects :
        /\ NextIn(x, p) /\ Created(x)
        /\ q.todo = p.todo \ {x} /\ q.seen = [p.seen EXCEPT ![x] = Status(x, store'[x])]
        /\ q.failed = p.failed
  BY DEF Succeeds
<1>2. /\ q.seen[x] = Status(x, store'[x]) /\ store'[x] \in States
      /\ \A o \in Objects \ {x} : /\ q.seen[o] = p.seen[o] /\ store'[o] = store[o]
                                  /\ o \in tampered <=> o \in tampered'
  BY <1>1 DEF Created, StoreTypes, States, Ordered
<1>3. q.seen[x] = "Ready" => store'[x] = "live"
  BY <1>2 DEF Status, Unread, States
<1>4. Hoping(p)
  BY <1>1, <1>2 DEF Hoping, NextIn
<1>5. \A o \in Permanent \ {x} : Saw(o, q) => Saw(o, p)
  BY <1>1, <1>2 DEF Saw
<1>6. ASSUME NEW o \in Permanent \ {"token"}, Saw(o, q)
      PROVE  There(o, store', tampered')
  <2>1. CASE o = x
    BY <1>3, <1>6, <2>1 DEF Saw, There
  <2>2. CASE o # x
    BY <1>2, <1>4, <1>5, <1>6, <2>2 DEF Believes, There
  <2> QED
    BY <2>1, <2>2
<1>7. ASSUME Saw("token", q), x # "token"
      PROVE  \/ There("token", store', tampered')
             \/ Leaving(q, store', tampered')
             \/ Lost(q, store', pod')
  <2>1. CASE There("token", store, tampered)
    BY <1>2, <1>7, <2>1 DEF There
  <2>2. CASE Leaving(p, store, tampered)
    <3>1. x = "wlNs" => store'["wlNs"] = "terminating"
      BY <1>1, <2>2 DEF Created, Leaving, StoreTypes
    <3>2. x = "wlNs" => q.seen["wlNs"] # "Ready" /\ "wlNs" \notin q.todo
      BY <1>1, <1>2, <1>3, <3>1
    <3>3. x # "wlNs"
      BY <3>2 DEF Hoping
    <3> QED
      BY <1>1, <1>2, <2>2, <3>3 DEF Leaving
  <2>3. CASE Lost(p, store, pod)
    <3>1. x = "dep" => q.seen["dep"] # "Ready"
      BY <1>2, <2>3 DEF Status, Unread, States, Lost
    <3> QED
      BY <1>1, <1>2, <1>7, <2>3, <3>1 DEF Lost
  <2> QED
    BY <1>4, <1>5, <1>7, <2>1, <2>2, <2>3 DEF Believes
<1>8. Saw("token", q) /\ x = "token" => There("token", store', tampered')
  BY <1>3 DEF Saw, There
<1> QED
  BY <1>6, <1>7, <1>8

\* So a pass that moves believes what is so.
LEMMA WorkerBelieves ==
  ASSUME StoreTypes, UserDataInv, PodInv, NEW p, NEW q, Ordered(p), Works(p, q),
         Believes(p, store, tampered, pod)
  PROVE  Believes(q, store', tampered', pod')
<1> USE PermanentFacts
<1>1. CASE p.mode = "apply" /\ q.mode = "apply" /\ Succeeds(p, q)
  BY <1>1, VisitorBelieves DEF Works
<1>2. CASE p.mode = "apply" /\ q.mode = "apply" /\ Fails(p, q)
  BY <1>2 DEF Fails, Believes, Hoping
<1>3. CASE p.mode = "apply" /\ q.mode = "apply" /\ Cleans(p, q)
  <2>1. /\ Hoping(q) <=> Hoping(p)
        /\ \A o : Saw(o, q) <=> Saw(o, p)
    BY <1>3 DEF Cleans, Hoping, Saw
  <2>2. /\ \A o \in Permanent : store'[o] = store[o]
        /\ UNCHANGED <<tampered, pod>>
    BY <1>3 DEF Works, Cleans, DeletionRequested, Permanent
  <2> QED
    BY <1>3, <2>1, <2>2 DEF Believes, There, Leaving, Lost, Cleans
<1>4. CASE q.mode = "apply" /\ Begins(p, q)
  <2>1. \A o \in Permanent : ~Saw(o, q)
    BY <1>4 DEF Begins, Saw
  <2> QED
    BY <2>1 DEF Believes
<1>5. CASE q.mode # "apply"
  BY <1>5 DEF Believes, Hoping
<1> QED
  BY <1>1, <1>2, <1>3, <1>4, <1>5 DEF Works

-----------------------------------------------------------------------------
\* While no Apply overlaps a deletion, the passes believe what is so.
TwoReady ==
  /\ PodInv /\ Ordered(PassA) /\ Ordered(PassB)
  /\ ~overlap => /\ Believes(PassA, store, tampered, pod)
                 /\ Believes(PassB, store, tampered, pod)

\* A step of one process, p, leaves the other, r, right as well.
LEMMA ProcessBelieves ==
  ASSUME SharedInv, PodInv, NEW p, NEW q, NEW r, Works(p, q), Ordered(p), Ordered(r),
         p.mode = "delete" => r.mode # "apply",
         Believes(p, store, tampered, pod), Believes(r, store, tampered, pod)
  PROVE  Believes(q, store', tampered', pod') /\ Believes(r, store', tampered', pod')
<1>1. StoreTypes /\ UserDataInv
  BY DEF SharedInv
<1>2. Believes(q, store', tampered', pod')
  BY <1>1, WorkerBelieves
<1>3. CASE Gentle
  BY <1>1, <1>2, <1>3, OnlookerBelieves
<1>4. CASE ~Gentle
  <2>1. r.mode # "apply"
    BY <1>4 DEF Works
  <2> QED
    BY <1>2, <2>1 DEF Believes, Hoping
<1> QED
  BY <1>3, <1>4

\* Every step keeps that so.
LEMMA TwoReadyStep ==
  ASSUME TwoInv, TwoReady, TwoNext
  PROVE  TwoReady'
<1>1. /\ SharedInv /\ StoreTypes /\ UserDataInv /\ pull \subseteq PullSecrets
      /\ Registered(snapPull) /\ Registered(snapPullB)
      /\ ~overlap => {mode, modeB} # {"apply", "delete"}
  BY DEF TwoInv, SharedInv, Knows, Together
<1>2. /\ PassA.mode = mode /\ PassA.seen = seen
      /\ PassB.mode = modeB /\ PassB.seen = seenB
  BY DEF PassA, PassB
<1>3. CASE First
  <2>1. Works(PassA, PassA')
    BY <1>1, <1>2, <1>3, FirstWorks DEF TwoReady, Ordered, First
  <2>2. PassB' = PassB /\ (overlap => overlap')
    BY <1>3 DEF First, Track, passBVars, PassB
  <2>3. PodInv'
    BY <1>1, <2>1, PodHolds DEF TwoReady, Works
  <2>4. Ordered(PassA')
    BY <2>1, WorkerOrdered DEF TwoReady
  <2>5. ~overlap' => /\ Believes(PassA', store', tampered', pod')
                     /\ Believes(PassB, store', tampered', pod')
    BY <1>1, <1>2, <2>1, <2>2, ProcessBelieves DEF TwoReady
  <2> QED
    BY <2>2, <2>3, <2>4, <2>5 DEF TwoReady
<1>4. CASE Second
  <2>1. Works(PassB, PassB')
    BY <1>1, <1>2, <1>4, SecondWorks DEF TwoReady, Ordered, Second
  <2>2. PassA' = PassA /\ (overlap => overlap')
    BY <1>4 DEF Second, Track, passVars, PassA
  <2>3. PodInv'
    BY <1>1, <2>1, PodHolds DEF TwoReady, Works
  <2>4. Ordered(PassB')
    BY <2>1, WorkerOrdered DEF TwoReady
  <2>5. ~overlap' => /\ Believes(PassB', store', tampered', pod')
                     /\ Believes(PassA, store', tampered', pod')
    BY <1>1, <1>2, <2>1, <2>2, ProcessBelieves DEF TwoReady
  <2> QED
    BY <2>2, <2>3, <2>4, <2>5 DEF TwoReady
<1>5. CASE Others
  <2>1. WorldMoves /\ UNCHANGED <<overlap, passVars, passBVars>>
    BY <1>5 DEF Others, RequestDelete, EditSpec, Operator, EditAvailable, EditPull,
       EditSource, Clusters, Foreign, Finalize, Sweep, Tamper, RollOut, PodFails,
       WorldMoves, storeVars
  <2>2. PassA' = PassA /\ PassB' = PassB /\ Gentle
    BY <2>1 DEF PassA, PassB, passVars, passBVars, Gentle
  <2>3. PodInv'
    BY <1>1, <2>2, PodHolds DEF TwoReady
  <2>4. ~overlap' => /\ Believes(PassA, store', tampered', pod')
                     /\ Believes(PassB, store', tampered', pod')
    BY <1>1, <2>1, <2>2, OnlookerBelieves DEF TwoReady
  <2> QED
    BY <2>2, <2>3, <2>4 DEF TwoReady
<1>6. CASE Recreate
  <2>1. /\ mode = "idle" /\ modeB = "idle"
        /\ UNCHANGED <<store, tampered, pod, passVars, passBVars>>
    BY <1>6 DEF Recreate, CreateVelero, storeVars
  <2>2. PassA' = PassA /\ PassB' = PassB /\ PodInv'
    BY <2>1 DEF PassA, PassB, passVars, passBVars, PodInv, TwoReady
  <2>3. /\ Believes(PassA, store', tampered', pod')
        /\ Believes(PassB, store', tampered', pod')
    BY <1>2, <2>1 DEF Believes, Hoping
  <2> QED
    BY <2>2, <2>3 DEF TwoReady
<1> QED
  BY <1>3, <1>4, <1>5, <1>6 DEF TwoNext

\* What two passes believe at any of their points.
THEOREM TwoReadySafety == TwoSpec => []TwoReady
<1>1. TwoInit => TwoReady
  BY DEF TwoInit, Init, TwoReady, PodInv, PassA, PassB, Ordered, Believes, Hoping
<1>2. TwoInv /\ TwoReady /\ [TwoNext]_twoVars => TwoReady'
  <2>1. CASE UNCHANGED twoVars
    BY <2>1 DEF twoVars, vars, crVars, configVars, storeVars, passVars, passBVars,
       TwoReady, PodInv, PassA, PassB
  <2> QED
    BY <2>1, TwoReadyStep
<1> QED
  BY <1>1, <1>2, TwoSafety, PTL DEF TwoSpec

\* The pass that ends with Ready has seen everything ready, and cleaned up.
Content(p) ==
  /\ p.mode = "apply" /\ ~p.failed /\ p.listed
  /\ \A o \in Permanent : p.seen[o] = "Ready"

\* Only such a pass writes Ready.
LEMMA ReadyWriters ==
  ASSUME Registered(snapPull), Registered(snapPullB),
         FinishApply \/ B!FinishApply, phase' = "Ready"
  PROVE  Content(PassA) \/ Content(PassB)
<1>1. CASE FinishApply
  <2>1. mode = "apply" /\ listed /\ ~failed /\ AllReady
    BY <1>1 DEF FinishApply, Cleaned
  <2> QED
    BY <2>1, PermanentFacts DEF Content, PassA, AllReady, Registered
<1>2. CASE B!FinishApply
  <2>1. modeB = "apply" /\ listedB /\ ~failedB /\ B!AllReady
    BY <1>2 DEF B!FinishApply, B!Cleaned
  <2> QED
    BY <2>1, SameObjects, PermanentFacts DEF Content, PassB, B!AllReady, Registered
<1> QED
  BY <1>1, <1>2

\* What a content pass believes is there.
LEMMA ContentIsRight ==
  ASSUME NEW p, Ordered(p), Content(p), Believes(p, store, tampered, pod)
  PROVE  \A o \in Permanent : Earned(o)
<1> USE PermanentFacts
<1>1. p.todo = {} /\ Hoping(p) /\ \A o \in Permanent : Saw(o, p)
  BY DEF Content, Ordered, Hoping, Saw
<1>2. ~Leaving(p, store, tampered) /\ ~Lost(p, store, pod)
  BY <1>1 DEF Content, Leaving, Lost
<1> QED
  BY <1>1, <1>2 DEF Believes, There, Earned

\* A Ready of either of two processes is earned, unless one was applying what
\* the other was deleting.
THEOREM TwoReadyEarned == TwoSpec => ReadyUnlessOverlap
<1>1. ASSUME TwoInv, TwoReady, FinishApply \/ B!FinishApply, phase' = "Ready", ~overlap
      PROVE  \A o \in Objects \ PullSecrets : Earned(o)
  <2>1. Content(PassA) \/ Content(PassB)
    BY <1>1, ReadyWriters DEF TwoInv, Knows
  <2> QED
    BY <1>1, <2>1, ContentIsRight DEF TwoReady, Permanent
<1>2. TwoInv /\ TwoReady /\ [TwoNext]_twoVars
        => [(FinishApply \/ B!FinishApply) /\ phase' = "Ready" /\ ~overlap
              => \A o \in Objects \ PullSecrets : Earned(o)]_twoVars
  BY <1>1
<1> QED
  BY <1>2, TwoSafety, TwoReadySafety, PTL DEF TwoSpec, ReadyUnlessOverlap

-----------------------------------------------------------------------------
(***************************************************************************)
(* The life cycle.  What a process does to what a reader of                *)
(* VeleroLifecycle sees is stated of the pass variables of either process, *)
(* as above: m and m1 are its mode before and after the step.              *)
(***************************************************************************)

\* User data that was taken from the Velero was taken by the foreign actor.
LEMMA DriftHolds ==
  ASSUME SharedStep, DriftInv
  PROVE  DriftInv'
<1>1. ASSUME NEW o \in Objects, Finalize(o)
      PROVE  DriftInv'
  BY <1>1 DEF Finalize, DriftInv, UserData
<1>2. ASSUME NEW o \in Objects, Sweep(o)
      PROVE  DriftInv'
  <2>1. o \notin UserData
    BY <1>2, ObjectFacts DEF Sweep, Deletable
  <2>2. tampered' \in {tampered, tampered \cup {o}}
    BY <1>2 DEF Sweep
  <2> QED
    BY <2>1, <2>2 DEF DriftInv, UserData
<1>3. ASSUME NEW o \in Objects, Tamper(o)
      PROVE  DriftInv'
  BY <1>3 DEF Tamper, DriftInv, UserData
<1>4. ASSUME NEW o \in Objects, Created(o)
      PROVE  DriftInv'
  BY <1>4 DEF Created, DriftInv, UserData
<1>5. CASE tampered' = tampered
  BY <1>5 DEF DriftInv, UserData
<1> QED
  BY <1>1, <1>2, <1>3, <1>4, <1>5 DEF SharedStep, DeletionRequested

\* A call creates an object or none, the life of the Velero changes between
\* passes or when one ends, and then no object is created.
Sees(m, m1, g, sp) ==
  /\ UNCHANGED <<spec, available>>
  /\ \/ /\ m1 = m /\ m = "apply" /\ life' = life
        /\ \E o \in Objects : Owned' = Owned \cup {o}
     \/ /\ SameOwned
        /\ \/ m1 = m /\ life' = life
           \/ m1 = m /\ m = "idle" /\ life = "new" /\ life' = "active"
           \/ m1 = m /\ m = "idle" /\ life = "deleting" /\ life' = "absent" /\ ~Valid(spec)
           \/ m = "idle" /\ m1 = "apply" /\ life = "active" /\ life' = life /\ Valid(spec)
           \/ m = "idle" /\ m1 = "delete" /\ life = "deleting" /\ life' = life
           \/ m # "idle" /\ m1 = "idle" /\ life' = life
           \/ m = "delete" /\ m1 = "idle" /\ life' = "absent" /\ Managed(sp) \subseteq g

\* What is created exists, and what is deleted exists until it is gone.
LEMMA StoreOwned ==
  ASSUME StoreTypes
  PROVE  /\ store' = store => SameOwned
         /\ \A o \in Objects : Created(o) => Owned' = Owned \cup {o}
         /\ \A o \in Objects :
              store[o] # "absent" /\ store' = [store EXCEPT ![o] = "terminating"] => SameOwned
         /\ \A D : DeletionRequested(D) => SameOwned
<1>1. store' = store => SameOwned
  BY DEF SameOwned
<1>2. ASSUME NEW o \in Objects, Created(o)
      PROVE  Owned' = Owned \cup {o}
  BY <1>2 DEF Created, Owned, StoreTypes
<1>3. ASSUME NEW o \in Objects, store[o] # "absent",
             store' = [store EXCEPT ![o] = "terminating"]
      PROVE  SameOwned
  BY <1>3 DEF SameOwned, StoreTypes
<1>4. ASSUME NEW D, DeletionRequested(D)
      PROVE  SameOwned
  BY <1>4 DEF SameOwned, DeletionRequested
<1> QED
  BY <1>1, <1>2, <1>3, <1>4

\* The first process as the life cycle sees it.
LEMMA FirstSees ==
  ASSUME StoreTypes, Controller \/ Crash
  PROVE  Sees(mode, mode', gone, snapPull)
<1> DEFINE S == Sees(mode, mode', gone, snapPull)
<1> USE DEF crVars, configVars, storeVars
<1>1. CASE Before
  <2>1. SameOwned
    BY <1>1, StoreOwned DEF Before, AddFinalizer, RejectApply, RejectDelete,
       FailInstanceID, StartApply, StartDelete, StartPass
  <2> QED
    BY <1>1, <2>1 DEF Before, AddFinalizer, RejectApply, RejectDelete, FailInstanceID,
       StartApply, StartDelete, StartPass, passVars, Sees
<1>2. ASSUME NEW o \in Objects, ApplyObject(o) \/ ApplyRefused(o) \/ ApplyFault(o)
      PROVE  S
  <2>1. mode = "apply" /\ UNCHANGED <<mode, life, spec, available>>
    BY <1>2 DEF ApplyObject, ApplyRefused, ApplyFault, Visited
  <2>2. store' = store \/ Created(o)
    BY <1>2 DEF ApplyObject, ApplyRefused, ApplyFault, Written, Created
  <2> QED
    BY <2>1, <2>2, StoreOwned DEF Sees
<1>3. ASSUME NEW o \in Objects, CheckDependents(o) \/ RefuseDelete(o)
      PROVE  S
  <2>1. UNCHANGED <<mode, life, spec, available, store>>
    BY <1>3 DEF CheckDependents, RefuseDelete, Visited
  <2> QED
    BY <2>1, StoreOwned DEF Sees
<1>4. ASSUME NEW o \in Objects, DeleteObject(o) \/ DeleteFault(o)
      PROVE  S
  <2>1. UNCHANGED <<mode, life, spec, available>>
    BY <1>4 DEF DeleteObject, DeleteFault, Visited
  <2>2. \/ store' = store
        \/ store[o] # "absent" /\ store' = [store EXCEPT ![o] = "terminating"]
    BY <1>4 DEF DeleteObject, DeleteFault
  <2> QED
    BY <2>1, <2>2, StoreOwned DEF Sees
<1>5. CASE Cleanup \/ CleanupFault
  <2>1. SameOwned
    BY <1>5, FirstCleans, StoreOwned
  <2>2. UNCHANGED <<mode, life, spec, available>>
    BY <1>5, FirstCleans
  <2> QED
    BY <2>1, <2>2 DEF Sees
<1>6. CASE FinishApply \/ FinishDelete \/ Crash
  <2>1. SameOwned
    BY <1>6, StoreOwned DEF FinishApply, FinishDelete, Crash
  <2> QED
    BY <1>6, <2>1 DEF FinishApply, FinishDelete, Crash, EndPass, AllDeleted, Sees
<1> QED
  BY <1>1, <1>2, <1>3, <1>4, <1>5, <1>6 DEF Controller, ApplyPass, DeletePass

\* So is the second.
LEMMA SecondSees ==
  ASSUME StoreTypes, B!Controller \/ B!Crash
  PROVE  Sees(modeB, modeB', goneB, snapPullB)
<1> DEFINE S == Sees(modeB, modeB', goneB, snapPullB)
<1> USE SameObjects DEF B!crVars, B!configVars, B!storeVars
<1>1. CASE B!Before
  <2>1. SameOwned
    BY <1>1, StoreOwned DEF B!Before, B!AddFinalizer, B!RejectApply, B!RejectDelete,
       B!FailInstanceID, B!StartApply, B!StartDelete, B!StartPass
  <2> QED
    BY <1>1, <2>1 DEF B!Before, B!AddFinalizer, B!RejectApply, B!RejectDelete,
       B!FailInstanceID, B!StartApply, B!StartDelete, B!StartPass, B!passVars, B!Valid,
       Valid, Sees
<1>2. ASSUME NEW o \in Objects, B!ApplyObject(o) \/ B!ApplyRefused(o) \/ B!ApplyFault(o)
      PROVE  S
  <2>1. modeB = "apply" /\ UNCHANGED <<modeB, life, spec, available>>
    BY <1>2 DEF B!ApplyObject, B!ApplyRefused, B!ApplyFault, B!Visited
  <2>2. store' = store \/ Created(o)
    BY <1>2 DEF B!ApplyObject, B!ApplyRefused, B!ApplyFault, B!Written, Created
  <2> QED
    BY <2>1, <2>2, StoreOwned DEF Sees
<1>3. ASSUME NEW o \in Objects, B!CheckDependents(o) \/ B!RefuseDelete(o)
      PROVE  S
  <2>1. UNCHANGED <<modeB, life, spec, available, store>>
    BY <1>3 DEF B!CheckDependents, B!RefuseDelete, B!Visited
  <2> QED
    BY <2>1, StoreOwned DEF Sees
<1>4. ASSUME NEW o \in Objects, B!DeleteObject(o) \/ B!DeleteFault(o)
      PROVE  S
  <2>1. UNCHANGED <<modeB, life, spec, available>>
    BY <1>4 DEF B!DeleteObject, B!DeleteFault, B!Visited
  <2>2. \/ store' = store
        \/ store[o] # "absent" /\ store' = [store EXCEPT ![o] = "terminating"]
    BY <1>4 DEF B!DeleteObject, B!DeleteFault
  <2> QED
    BY <2>1, <2>2, StoreOwned DEF Sees
<1>5. CASE B!Cleanup \/ B!CleanupFault
  <2>1. SameOwned
    BY <1>5, SecondCleans, StoreOwned
  <2>2. UNCHANGED <<modeB, life, spec, available>>
    BY <1>5, SecondCleans DEF crVars, configVars
  <2> QED
    BY <2>1, <2>2 DEF Sees
<1>6. CASE B!FinishApply \/ B!FinishDelete \/ B!Crash
  <2>1. SameOwned
    BY <1>6, StoreOwned DEF B!FinishApply, B!FinishDelete, B!Crash
  <2> QED
    BY <1>6, <2>1 DEF B!FinishApply, B!FinishDelete, B!Crash, B!EndPass, B!AllDeleted, Sees
<1> QED
  BY <1>1, <1>2, <1>3, <1>4, <1>5, <1>6 DEF B!Controller, B!ApplyPass, B!DeletePass

\* A step that changes nothing a reader of the life cycle sees is a stutter of it.
LEMMA TwoStutter ==
  ASSUME SameOwned, UNCHANGED <<life, spec, available>>, Applying' = Applying
  PROVE  UNCHANGED TwoLifecycle!vars
<1>1. {o \in Objects : store[o] # "absent"}' = {o \in Objects : store[o] # "absent"}
  BY OwnedStays DEF Owned
<1>2. LifeBar' = LifeBar
  BY DEF LifeBar
<1>3. Valid(spec)' = Valid(spec)
  BY DEF Valid
<1> QED
  BY <1>1, <1>2, <1>3 DEF TwoLifecycle!vars

\* While a pass deletes, the Velero is on its way out or gone.
DeletesInv == "delete" \in {mode, modeB} => life \in {"deleting", "absent"}

\* A step of a process with mode m, next to one with mode n.
LEMMA ProcessRefines ==
  ASSUME NEW m, NEW m1, NEW n, NEW g, NEW sp, NEW c,
         {mode, modeB} = {m, n}, {mode', modeB'} = {m1, n},
         Sees(m, m1, g, sp), Knows(m, g, sp, c, store, overlap), NamespaceInv, DeletesInv
  PROVE  [TwoLifecycle!Next \/ Premature]_(TwoLifecycle!vars)
<1>1. (Applying <=> m = "apply" \/ n = "apply") /\ (Applying' <=> m1 = "apply" \/ n = "apply")
  BY DEF Applying
<1>2. Applying \in BOOLEAN /\ Applying' \in BOOLEAN
  BY DEF Applying
<1>3. Valid(spec)' = Valid(spec)
  BY DEF Sees, Valid
<1>4. SameOwned
        => {o \in Objects : store[o] # "absent"}' = {o \in Objects : store[o] # "absent"}
  BY OwnedStays DEF Owned
<1>5. CASE /\ m1 = m /\ m = "apply" /\ life' = life
           /\ \E o \in Objects : Owned' = Owned \cup {o}
  <2>1. LifeBar' = LifeBar /\ Applying /\ Applying' = Applying
    BY <1>1, <1>2, <1>5 DEF LifeBar
  <2>2. TwoLifecycle!Provide
    BY <1>3, <1>5, <2>1 DEF TwoLifecycle!Provide, Owned
  <2> QED
    BY <2>2 DEF TwoLifecycle!Next
<1>6. CASE SameOwned /\ life' = life /\ Applying' = Applying
  BY <1>6, TwoStutter DEF Sees
<1>7. CASE SameOwned /\ m1 = m /\ life = "new" /\ life' = "active"
  <2>1. LifeBar = "new" /\ LifeBar' = "held" /\ Applying' = Applying
    BY <1>1, <1>2, <1>7 DEF LifeBar
  <2>2. TwoLifecycle!Hold
    BY <1>3, <1>4, <1>7, <2>1 DEF TwoLifecycle!Hold
  <2> QED
    BY <2>2 DEF TwoLifecycle!Next
<1>8. CASE SameOwned /\ m1 = m /\ m = "idle" /\ life = "deleting" /\ life' = "absent" /\ ~Valid(spec)
  <2>1. CASE Applying
    BY <1>8, <2>1 DEF Premature
  <2>2. CASE ~Applying
    <3>1. LifeBar = "ending" /\ LifeBar' = "absent" /\ Applying' = Applying
      BY <1>1, <1>2, <1>8 DEF LifeBar
    <3>2. TwoLifecycle!Abandon
      BY <1>3, <1>4, <1>8, <2>2, <3>1 DEF TwoLifecycle!Abandon
    <3> QED
      BY <3>2 DEF TwoLifecycle!Next
  <2> QED
    BY <2>1, <2>2
<1>9. CASE /\ SameOwned /\ m1 = "apply" /\ life = "active" /\ life' = life /\ Valid(spec)
           /\ Applying' # Applying
  <2>1. LifeBar = "held" /\ LifeBar' = LifeBar /\ ~Applying /\ Applying' = TRUE
    BY <1>1, <1>2, <1>9 DEF LifeBar
  <2>2. TwoLifecycle!Open
    BY <1>3, <1>4, <1>9, <2>1 DEF TwoLifecycle!Open
  <2> QED
    BY <2>2 DEF TwoLifecycle!Next
<1>10. CASE SameOwned /\ m1 = "idle" /\ life' = life /\ Applying' # Applying
  <2>1. LifeBar' = LifeBar /\ Applying /\ Applying' = FALSE
    BY <1>1, <1>2, <1>10 DEF LifeBar
  <2>2. TwoLifecycle!Close
    BY <1>3, <1>4, <1>10, <2>1 DEF TwoLifecycle!Close
  <2> QED
    BY <2>2 DEF TwoLifecycle!Next
<1>11. CASE /\ SameOwned /\ m = "delete" /\ m1 = "idle" /\ life' = "absent"
            /\ Managed(sp) \subseteq g
  <2>1. life \in {"deleting", "absent"} /\ Applying' = Applying
    BY <1>1, <1>2, <1>11 DEF DeletesInv
  <2>2. CASE life = "absent"
    BY <1>11, <2>1, <2>2, TwoStutter DEF Sees
  <2>3. CASE life = "deleting" /\ (overlap \/ Applying)
    BY <1>11, <2>3 DEF Premature
  <2>4. CASE life = "deleting" /\ ~overlap /\ ~Applying
    <3>1. \A o \in Deletable : store[o] = "absent"
      BY <1>11, <2>4, NothingLeftOf DEF Knows
    <3>2. {o \in Objects : store[o] # "absent"} \subseteq UserData
      BY <3>1 DEF Deletable
    <3>3. LifeBar = "ending" /\ LifeBar' = "absent"
      BY <1>11, <2>4 DEF LifeBar
    <3>4. TwoLifecycle!Release
      BY <1>3, <1>4, <1>11, <2>1, <2>4, <3>2, <3>3 DEF TwoLifecycle!Release
    <3> QED
      BY <3>4 DEF TwoLifecycle!Next
  <2> QED
    BY <2>1, <2>2, <2>3, <2>4
<1> QED
  BY <1>1, <1>2, <1>5, <1>6, <1>7, <1>8, <1>9, <1>10, <1>11 DEF Sees

\* The users and the operator, whatever the processes are doing.
LEMMA TwoUserRefines ==
  ASSUME Recreate \/ ((RequestDelete \/ EditSpec \/ Operator) /\ UNCHANGED passBVars)
  PROVE  [TwoLifecycle!Next]_(TwoLifecycle!vars)
<1> USE DEF crVars, configVars, storeVars, passVars, passBVars
<1>1. CASE Recreate
  <2>1. LifeBar = "absent" /\ LifeBar' = "new" /\ ~Applying /\ Applying' = Applying
    BY <1>1 DEF Recreate, CreateVelero, LifeBar, Applying
  <2>2. TwoLifecycle!Create
    BY <1>1, <2>1 DEF Recreate, CreateVelero, TwoLifecycle!Create, Valid
  <2> QED
    BY <2>2 DEF TwoLifecycle!Next
<1>2. CASE RequestDelete /\ UNCHANGED passBVars
  <2>1. Applying' = Applying /\ Valid(spec)' = Valid(spec) /\ UNCHANGED store
    BY <1>2 DEF RequestDelete, Applying, Valid
  <2>2. \/ LifeBar = "new" /\ LifeBar' = "absent"
        \/ LifeBar = "held" /\ LifeBar' = "ending"
    BY <1>2 DEF RequestDelete, LifeBar
  <2>3. TwoLifecycle!Withdraw \/ TwoLifecycle!End
    BY <2>1, <2>2 DEF TwoLifecycle!Withdraw, TwoLifecycle!End
  <2> QED
    BY <2>3 DEF TwoLifecycle!Next
<1>3. CASE (EditSpec \/ EditAvailable) /\ UNCHANGED passBVars
  <2>1. Applying' = Applying /\ LifeBar' = LifeBar /\ UNCHANGED store
    BY <1>3 DEF EditSpec, EditAvailable, Applying, LifeBar
  <2>2. TwoLifecycle!Change
    BY <2>1 DEF TwoLifecycle!Change, Valid
  <2> QED
    BY <2>2 DEF TwoLifecycle!Next
<1>4. CASE (EditPull \/ EditSource) /\ UNCHANGED passBVars
  <2>1. Applying' = Applying /\ SameOwned /\ UNCHANGED <<life, spec, available>>
    BY <1>4 DEF EditPull, EditSource, Applying, SameOwned
  <2> QED
    BY <2>1, TwoStutter
<1> QED
  BY <1>1, <1>2, <1>3, <1>4 DEF Operator

\* The clusters and the foreign actor: what disappears was deleted by somebody
\* who may, whatever the processes are doing.
LEMMA TwoClustersRefine ==
  ASSUME StoreTypes, UserDataInv, DriftInv, Clusters \/ Foreign, UNCHANGED passBVars
  PROVE  [TwoLifecycle!Next]_(TwoLifecycle!vars)
<1> USE DEF crVars, configVars, passVars, passBVars
<1>1. Applying' = Applying /\ UNCHANGED <<life, spec, available>>
  BY DEF Clusters, Foreign, Finalize, Sweep, RollOut, PodFails, Tamper, Applying
<1>2. ASSUME NEW o \in Objects, Finalize(o)
      PROVE  [TwoLifecycle!Next]_(TwoLifecycle!vars)
  <2>1. o \in Owned /\ Owned' = Owned \ {o}
    BY <1>2 DEF Finalize, Owned, StoreTypes
  <2>2. o \in UserData => o \in Drift
    BY <1>2 DEF Finalize, UserDataInv, DriftInv
  <2>3. LifeBar' = LifeBar /\ Valid(spec)' = Valid(spec)
    BY <1>1 DEF LifeBar, Valid
  <2>4. TwoLifecycle!Lose
    BY <1>1, <2>1, <2>2, <2>3 DEF Owned, TwoLifecycle!Lose
  <2> QED
    BY <2>4 DEF TwoLifecycle!Next
<1>3. ASSUME NEW o \in Objects, Sweep(o) \/ Tamper(o)
      PROVE  SameOwned
  BY <1>3 DEF Sweep, Tamper, SameOwned, StoreTypes
<1>4. CASE RollOut \/ PodFails
  <2>1. SameOwned
    BY <1>4 DEF RollOut, PodFails, SameOwned
  <2> QED
    BY <1>1, <2>1, TwoStutter
<1> QED
  BY <1>1, <1>2, <1>3, <1>4, TwoStutter DEF Clusters, Foreign

\* What the refinement needs besides TwoInv.
LifecycleInv == DriftInv /\ DeletesInv

\* A step of either process is a step of the life cycle, and a deletion goes on
\* only for a Velero that is on its way out.
LEMMA TwoProcessesRefine ==
  ASSUME TwoInv, DeletesInv, First \/ Second
  PROVE  /\ [TwoLifecycle!Next \/ Premature]_(TwoLifecycle!vars)
         /\ DeletesInv'
<1>1. StoreTypes /\ NamespaceInv
  BY DEF TwoInv, SharedInv
<1>2. CASE First
  <2>1. modeB' = modeB
    BY <1>2 DEF First, passBVars
  <2>2. Sees(mode, mode', gone, snapPull)
    BY <1>1, <1>2, FirstSees DEF First
  <2>3. Knows(mode, gone, snapPull, checked, store, overlap)
    BY DEF TwoInv
  <2>4. DeletesInv'
    BY <2>1, <2>2 DEF DeletesInv, Sees
  <2> QED
    BY <1>1, <2>1, <2>2, <2>3, <2>4, ProcessRefines
<1>3. CASE Second
  <2>1. mode' = mode
    BY <1>3 DEF Second, passVars
  <2>2. Sees(modeB, modeB', goneB, snapPullB)
    BY <1>1, <1>3, SecondSees DEF Second
  <2>3. Knows(modeB, goneB, snapPullB, checkedB, store, overlap)
    BY DEF TwoInv
  <2>4. DeletesInv'
    BY <2>1, <2>2 DEF DeletesInv, Sees
  <2>5. {mode, modeB} = {modeB, mode} /\ {mode', modeB'} = {modeB', mode}
    BY <2>1
  <2> QED
    BY <1>1, <2>2, <2>3, <2>4, <2>5, ProcessRefines
<1> QED
  BY <1>2, <1>3

\* So is what everybody else does.
LEMMA TwoOthersRefine ==
  ASSUME TwoInv, LifecycleInv, Recreate \/ Others
  PROVE  /\ [TwoLifecycle!Next \/ Premature]_(TwoLifecycle!vars)
         /\ DeletesInv'
<1>1. CASE Recreate
  <2>1. DeletesInv'
    BY <1>1 DEF Recreate, CreateVelero, passVars, passBVars, DeletesInv
  <2> QED
    BY <1>1, <2>1, TwoUserRefines
<1>2. CASE Others
  <2>1. StoreTypes /\ UserDataInv /\ DriftInv
    BY DEF TwoInv, SharedInv, LifecycleInv
  <2>2. [TwoLifecycle!Next]_(TwoLifecycle!vars)
    BY <1>2, <2>1, TwoUserRefines, TwoClustersRefine DEF Others
  <2>3. UNCHANGED <<mode, modeB>> /\ (life \in {"deleting", "absent"} => life' \in {"deleting", "absent"})
    BY <1>2 DEF Others, RequestDelete, EditSpec, Operator, EditAvailable, EditPull,
       EditSource, Clusters, Finalize, Sweep, RollOut, Foreign, PodFails, Tamper,
       crVars, passVars, passBVars
  <2> QED
    BY <2>2, <2>3 DEF LifecycleInv, DeletesInv
<1> QED
  BY <1>1, <1>2

\* LifecycleUnlessOverlap for every instance: whatever two processes do to one
\* Velero in whatever order of their calls is a step of VeleroLifecycle or none,
\* but for a finalizer that goes under an Apply or after an overlap.
THEOREM TwoRefinement == TwoSpec => LifecycleUnlessOverlap
<1>1. TwoInit => TwoLifecycle!Init /\ LifecycleInv
  BY DEF TwoInit, Init, TwoLifecycle!Init, LifeBar, Valid, Applying, LifecycleInv,
         DriftInv, DeletesInv
<1>2. TwoInv /\ LifecycleInv /\ [TwoNext]_twoVars => LifecycleInv'
  <2> SUFFICES ASSUME TwoInv, LifecycleInv, [TwoNext]_twoVars PROVE LifecycleInv'
    OBVIOUS
  <2>1. CASE UNCHANGED twoVars
    BY <2>1 DEF twoVars, vars, crVars, storeVars, passVars, passBVars, LifecycleInv,
       DriftInv, DeletesInv, UserData
  <2>2. CASE TwoNext
    <3>1. DriftInv'
      BY <2>2, EverySharedStep, DriftHolds DEF TwoInv, SharedInv, Knows, LifecycleInv
    <3>2. DeletesInv'
      BY <2>2, TwoProcessesRefine, TwoOthersRefine DEF TwoNext, LifecycleInv
    <3> QED
      BY <3>1, <3>2 DEF LifecycleInv
  <2> QED
    BY <2>1, <2>2
<1>3. TwoInv /\ LifecycleInv /\ [TwoNext]_twoVars
        => [TwoLifecycle!Next \/ Premature]_(TwoLifecycle!vars)
  <2> SUFFICES ASSUME TwoInv, LifecycleInv, [TwoNext]_twoVars
               PROVE  [TwoLifecycle!Next \/ Premature]_(TwoLifecycle!vars)
    OBVIOUS
  <2>1. CASE UNCHANGED twoVars
    <3>1. SameOwned /\ UNCHANGED <<life, spec, available>> /\ Applying' = Applying
      BY <2>1 DEF twoVars, vars, crVars, configVars, storeVars, passVars, passBVars,
         SameOwned, Applying
    <3> QED
      BY <3>1, TwoStutter
  <2>2. CASE TwoNext
    BY <2>2, TwoProcessesRefine, TwoOthersRefine DEF TwoNext, LifecycleInv
  <2> QED
    BY <2>1, <2>2
<1> QED
  BY <1>1, <1>2, <1>3, TwoSafety, PTL DEF TwoSpec, LifecycleUnlessOverlap
=============================================================================
