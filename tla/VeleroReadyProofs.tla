------------------------- MODULE VeleroReadyProofs -------------------------
(***************************************************************************)
(* What a pass may call, what an Apply reports and what it removes, for    *)
(* every instance of VeleroReconciler: the permissions suffice, a phase    *)
(* Ready is earned, and only redundant pull secrets go.                    *)
(***************************************************************************)
EXTENDS ClusterAccess, VeleroReconcilerProofs

-----------------------------------------------------------------------------
(***************************************************************************)
(* The steps of an Apply pass.                                             *)
(***************************************************************************)

\* An object was visited without an error.
VisitedWell(o) ==
  /\ IsNext(o) /\ Written(o) /\ failed' = failed
  /\ seen' = [seen EXCEPT ![o] = Status(o, store'[o])]
  /\ todo' = todo \ {o}
  /\ UNCHANGED <<mode, snapPull, listed, redundant>>

\* The clusters and the foreign actor move.
WorldMoves ==
  \/ UNCHANGED <<store, tampered, pod>>
  \/ \E o \in Objects : Finalize(o) \/ Sweep(o) \/ Tamper(o)
  \/ RollOut \/ PodFails

\* The cleaner has listed the redundant copies or deleted one.
CleanedWell ==
  /\ todo = {} /\ listed' /\ failed' = failed
  /\ \/ redundant' = Stale /\ store' = store
     \/ /\ listed
        /\ \E s \in redundant : redundant' = redundant \ {s} /\ store' = WithoutCopy(s)
  /\ UNCHANGED <<mode, snapPull, todo, seen, pod, tampered>>

\* What is left of a pass after an error.
FailedVisit ==
  /\ failed' /\ UNCHANGED <<mode, snapPull>>
  /\ \/ \E o \in Objects : IsNext(o) /\ todo' = todo \ {o} /\ listed' = listed
     \/ todo = {} /\ todo' = todo

\* These are the steps that keep an Apply pass going.
LEMMA ApplySteps ==
  ASSUME Next, mode = "apply", mode' = "apply"
  PROVE  \/ WorldMoves /\ UNCHANGED passVars
         \/ \E o \in Objects : VisitedWell(o)
         \/ FailedVisit
         \/ CleanedWell
<1>1. CASE User \/ Operator
  BY <1>1 DEF User, Operator, CreateVelero, RequestDelete, EditSpec, EditAvailable,
     EditPull, EditSource, WorldMoves, storeVars
<1>2. CASE Clusters \/ Foreign
  BY <1>2 DEF Clusters, Foreign, Finalize, Sweep, Tamper, RollOut, PodFails, WorldMoves
<1>3. ASSUME NEW o \in Objects, ApplyObject(o)
      PROVE  VisitedWell(o)
  BY <1>3 DEF ApplyObject, Visited, VisitedWell
<1>4. ASSUME NEW o \in Objects, ApplyRefused(o) \/ ApplyFault(o)
      PROVE  FailedVisit
  BY <1>4 DEF ApplyRefused, ApplyFault, Visited, FailedVisit
<1>5. CASE Cleanup
  BY <1>5 DEF Cleanup, ListCopies, DeleteCopy, Unlist, CleanedWell, storeVars
<1>6. CASE CleanupFault
  BY <1>6 DEF CleanupFault, ListFault, DeleteCopyFault, Unlist, FailedVisit
<1>7. ~Before /\ ~FinishApply /\ ~FinishDelete /\ ~Crash
  BY BeforeStep, EndStep
<1>8. \A o \in Objects : /\ ~CheckDependents(o) /\ ~RefuseDelete(o)
                         /\ ~DeleteObject(o) /\ ~DeleteFault(o)
  BY DeleteStep
<1> QED
  BY <1>1, <1>2, <1>3, <1>4, <1>5, <1>6, <1>7, <1>8
     DEF Next, Controller, ApplyPass, DeletePass

\* An Apply pass begins with everything to visit and nothing cleaned.
LEMMA ApplyBegins ==
  ASSUME Next, mode # "apply", mode' = "apply"
  PROVE  mode = "idle" /\ listed' = listed /\ todo' = Managed(snapPull')
<1>1. ~(User \/ Operator \/ Clusters \/ Foreign) /\ ~Cleanup /\ ~CleanupFault
  BY OthersStep, CleanupStep DEF passVars
<1>2. ~FinishApply /\ ~FinishDelete /\ ~Crash
  BY EndStep
<1>3. ASSUME NEW o \in Objects,
             \/ ApplyObject(o) \/ ApplyRefused(o) \/ ApplyFault(o)
             \/ CheckDependents(o) \/ RefuseDelete(o) \/ DeleteObject(o) \/ DeleteFault(o)
      PROVE  FALSE
  BY <1>3, ApplyStep, DeleteStep
<1>4. Before
  BY <1>1, <1>2, <1>3 DEF Next, Controller, ApplyPass, DeletePass
<1> QED
  BY <1>4 DEF Before, AddFinalizer, RejectApply, RejectDelete, FailInstanceID,
     StartApply, StartDelete, StartPass, passVars

\* A call of the cleaner changes no object but one on its list, which was there.
LEMMA CleanupTakes ==
  ASSUME TypeOK, Cleanup \/ CleanupFault, NEW o \in Objects, store'[o] # store[o]
  PROVE  o \in redundant /\ store[o] # "absent" /\ store'[o] = "terminating"
<1>1. PICK s \in redundant : store' = WithoutCopy(s)
  BY DEF Cleanup, CleanupFault, ListCopies, ListFault, DeleteCopy, DeleteCopyFault,
     Unlist, storeVars
<1> QED
  BY <1>1 DEF WithoutCopy, TypeOK

\* The list of the cleaner is made once, only shrinks, and ends with the pass.
LEMMA ListSteps ==
  ASSUME Next
  PROVE  \/ UNCHANGED <<listed, redundant>> /\ (mode = "idle" \/ snapPull' = snapPull)
         \/ redundant' \subseteq redundant /\ (listed => listed') /\ snapPull' = snapPull
         \/ redundant' = Stale /\ listed' /\ snapPull' = snapPull
         \/ redundant' = {}
<1>1. CASE User \/ Operator \/ Clusters \/ Foreign
  BY <1>1, OthersStep DEF passVars
<1>2. CASE Before
  BY <1>2 DEF Before, AddFinalizer, RejectApply, RejectDelete, FailInstanceID,
     StartApply, StartDelete, StartPass, passVars
<1>3. ASSUME NEW o \in Objects,
             \/ ApplyObject(o) \/ ApplyRefused(o) \/ ApplyFault(o)
             \/ CheckDependents(o) \/ RefuseDelete(o) \/ DeleteObject(o) \/ DeleteFault(o)
      PROVE  UNCHANGED <<listed, redundant, snapPull>>
  BY <1>3 DEF ApplyObject, ApplyRefused, ApplyFault, CheckDependents, RefuseDelete,
     DeleteObject, DeleteFault, Visited
<1>4. CASE Cleanup \/ CleanupFault
  BY <1>4 DEF Cleanup, CleanupFault, ListCopies, ListFault, DeleteCopy,
     DeleteCopyFault, Unlist
<1>5. CASE FinishApply \/ FinishDelete \/ Crash
  BY <1>5 DEF FinishApply, FinishDelete, Crash, EndPass
<1> QED
  BY <1>1, <1>2, <1>3, <1>4, <1>5 DEF Next, Controller, ApplyPass, DeletePass

\* Where the roles are.
LEMMA Roles ==
  /\ "wlNs" \in Objects /\ "dep" \in Objects /\ "token" \in Objects
  /\ {"wlNs", "dep", "token"} \cap PullSecrets = {}
  /\ \A S \in SUBSET PullSecrets :
       Managed(S) \subseteq Objects /\ {"wlNs", "dep", "token"} \subseteq Managed(S)
  /\ \A o \in Objects : "wlNs" \in Namespaces /\ o \in Contents("wlNs")
                          => o = "token" \/ o = "dep" \/ o \in PullSecrets
  /\ Namespaces = {"mcpNs", "wlNs"}
BY NamesDistinct
   DEF Objects, Fixed, McpFixed, WorkloadFixed, Managed, Namespaces, Contents

\* The workload namespace comes before what it holds, but for the token secret.
LEMMA NamespaceFirst ==
  ASSUME TypeOK, VisitsInv, mode = "apply", NEW o \in Objects, IsNext(o)
  PROVE  "wlNs" \in todo \ {o} => {"dep"} \cup snapPull \subseteq todo \ {o}
<1> SUFFICES ASSUME "wlNs" \in todo, o # "wlNs"
             PROVE  {"dep"} \cup snapPull \subseteq todo \ {o}
  OBVIOUS
<1>1. Rank(o) <= 7
  BY Roles, NamesDistinct DEF IsNext, Rank, Fixed, McpFixed, WorkloadFixed
<1>2. \A p \in PullSecrets : Rank(p) = 8
  BY NamesDistinct DEF Rank, Fixed, McpFixed, WorkloadFixed
<1>3. Rank("dep") = 9
  BY NamesDistinct DEF Rank, Fixed, McpFixed, WorkloadFixed
<1>4. o # "dep" /\ o \notin PullSecrets
  BY <1>1, <1>2, <1>3
<1> QED
  BY <1>4 DEF VisitsInv, TypeOK

-----------------------------------------------------------------------------
(***************************************************************************)
(* The parts of ReadyInv, one after the other.                             *)
(***************************************************************************)

\* A pod ends with its deployment and starts only for one.
LEMMA PodStep ==
  ASSUME TypeOK, Next, PodInv
  PROVE  PodInv'
<1>1. "dep" \in Objects
  BY Roles
<1>2. CASE User \/ Operator
  BY <1>2 DEF User, Operator, CreateVelero, RequestDelete, EditSpec, EditAvailable,
     EditPull, EditSource, storeVars, PodInv
<1>3. CASE Clusters \/ Foreign
  BY <1>1, <1>3 DEF Clusters, Foreign, Finalize, Sweep, Tamper, RollOut, PodFails,
     PodInv, TypeOK
<1>4. CASE Before \/ FinishApply \/ FinishDelete \/ Crash
  BY <1>4 DEF Before, AddFinalizer, RejectApply, RejectDelete, FailInstanceID,
     StartApply, StartDelete, StartPass, FinishApply, FinishDelete, Crash, storeVars,
     PodInv
<1>5. ASSUME NEW o \in Objects, Written(o)
      PROVE  PodInv'
  BY <1>1, <1>5 DEF Written, PodInv, TypeOK
<1>6. ASSUME NEW o \in Objects,
             \/ ApplyObject(o) \/ ApplyRefused(o) \/ ApplyFault(o)
             \/ CheckDependents(o) \/ RefuseDelete(o)
      PROVE  PodInv'
  BY <1>5, <1>6 DEF ApplyObject, ApplyRefused, ApplyFault, CheckDependents,
     RefuseDelete, storeVars, PodInv
<1>7. ASSUME NEW o \in Objects, DeleteObject(o) \/ DeleteFault(o)
      PROVE  PodInv'
  <2>1. pod' = pod /\ (store'["dep"] = "absent" => store["dep"] = "absent")
    BY <1>1, <1>7 DEF DeleteObject, DeleteFault, TypeOK
  <2> QED
    BY <2>1 DEF PodInv
<1>8. CASE Cleanup \/ CleanupFault
  <2>1. pod' = pod
    BY <1>8 DEF Cleanup, CleanupFault, ListCopies, ListFault, DeleteCopy,
       DeleteCopyFault, Unlist, storeVars
  <2> QED
    BY <1>1, <1>8, <2>1, CleanupTakes DEF PodInv
<1> QED
  BY <1>2, <1>3, <1>4, <1>6, <1>7, <1>8 DEF Next, Controller, ApplyPass, DeletePass

\* Visits go by rank and end before the cleaner runs.
LEMMA VisitsStep ==
  ASSUME TypeOK, Next, VisitsInv
  PROVE  VisitsInv'
<1>1. CASE mode = "apply" /\ mode' = "apply"
  <2>1. CASE UNCHANGED passVars
    BY <1>1, <2>1 DEF passVars, VisitsInv, Managed
  <2>2. ASSUME NEW o \in Objects, VisitedWell(o)
        PROVE  VisitsInv'
    BY <1>1, <2>2, NamespaceFirst DEF VisitedWell, VisitsInv, Managed, IsNext
  <2>3. CASE FailedVisit
    <3>1. ASSUME NEW o \in Objects, IsNext(o), todo' = todo \ {o}, listed' = listed
          PROVE  VisitsInv'
      BY <1>1, <2>3, <3>1, NamespaceFirst DEF FailedVisit, VisitsInv, Managed, IsNext
    <3>2. CASE todo = {} /\ todo' = todo
      BY <1>1, <2>3, <3>2 DEF FailedVisit, VisitsInv, Managed
    <3> QED
      BY <2>3, <3>1, <3>2 DEF FailedVisit
  <2>4. CASE CleanedWell
    BY <1>1, <2>4 DEF CleanedWell, VisitsInv, Managed
  <2> QED
    BY <1>1, <2>1, <2>2, <2>3, <2>4, ApplySteps
<1>2. CASE mode # "apply" /\ mode' = "apply"
  <2>1. snapPull' \in SUBSET PullSecrets
    BY TypeEnvironment, TypeFrame, TypeVisits
       DEF Next, Controller, ApplyPass, DeletePass, TypeOK
  <2>2. {"dep"} \cup snapPull' \subseteq Managed(snapPull')
    BY <2>1, Roles DEF Managed
  <2> QED
    BY <1>2, <2>2, ApplyBegins DEF VisitsInv, Managed
<1>3. CASE mode' # "apply"
  <2>1. mode' = "idle" => ~listed'
    <3>1. CASE mode = "idle"
      <4>1. listed' = listed
        BY <3>1, OthersStep, ApplyStep, DeleteStep, CleanupStep, EndStep
           DEF Next, Controller, ApplyPass, DeletePass, passVars, Before, AddFinalizer,
               RejectApply, RejectDelete, FailInstanceID, StartApply, StartDelete,
               StartPass
      <4> QED
        BY <3>1, <4>1 DEF VisitsInv
    <3>2. CASE mode # "idle" /\ mode' = "idle"
      <4>1. FinishApply \/ FinishDelete \/ Crash
        BY <3>2, OthersStep, BeforeStep, ApplyStep, DeleteStep, CleanupStep
           DEF Next, Controller, ApplyPass, DeletePass, passVars
      <4> QED
        BY <4>1 DEF FinishApply, FinishDelete, Crash, EndPass
    <3> QED
      BY <3>1, <3>2
  <2> QED
    BY <1>3, <2>1 DEF VisitsInv
<1> QED
  BY <1>1, <1>2, <1>3

\* The list of the cleaner never holds what the pass wants.
LEMMA ListStep ==
  ASSUME TypeOK, Next, VisitsInv, ListInv
  PROVE  ListInv'
<1>1. mode = "idle" => redundant = {}
  BY DEF VisitsInv, ListInv
<1>2. Stale \subseteq PullSecrets \ snapPull
  BY DEF Stale
<1> QED
  BY <1>1, <1>2, ListSteps DEF ListInv

\* A redundant pull secret that is still there without an error is still on the
\* list, and no other is created.
LEMMA CleanedStep ==
  ASSUME TypeOK, Next, VisitsInv, CleanedInv
  PROVE  CleanedInv'
<1> SUFFICES ASSUME mode' = "apply", listed', ~failed', NEW s \in PullSecrets \ snapPull',
                    store'[s] = "live"
             PROVE  s \in redundant'
  BY DEF CleanedInv
<1>1. s \in Objects
  BY ObjectFacts
<1>2. mode = "apply"
  BY ApplyBegins DEF VisitsInv
<1>3. CASE WorldMoves /\ UNCHANGED passVars
  <2>1. store[s] = "live"
    BY <1>1, <1>3 DEF WorldMoves, Finalize, Sweep, Tamper, RollOut, PodFails, TypeOK
  <2> QED
    BY <1>2, <1>3, <2>1 DEF CleanedInv, passVars
<1>4. ASSUME NEW o \in Objects, VisitedWell(o)
      PROVE  FALSE
  BY <1>2, <1>4 DEF VisitedWell, IsNext, VisitsInv
<1>5. CASE CleanedWell
  <2>1. CASE redundant' = Stale /\ store' = store
    BY <1>5, <2>1 DEF CleanedWell, Stale
  <2>2. ASSUME listed, NEW c \in redundant,
               redundant' = redundant \ {c}, store' = WithoutCopy(c)
        PROVE  s \in redundant'
    <3>1. c # s /\ store[s] = "live"
      BY <1>1, <2>2 DEF WithoutCopy, TypeOK
    <3> QED
      BY <1>2, <1>5, <2>2, <3>1 DEF CleanedWell, CleanedInv
  <2> QED
    BY <1>5, <2>1, <2>2 DEF CleanedWell
<1> QED
  BY <1>2, <1>3, <1>4, <1>5, ApplySteps DEF FailedVisit

-----------------------------------------------------------------------------
\* What was seen ready goes only with a namespace that an earlier deletion
\* terminates, or by a foreign hand.
LEMMA WorldTakes ==
  ASSUME store \in [Objects -> States], UserDataInv, WorldMoves,
         NEW o \in Objects, Earned(o),
         ~(store["wlNs"] = "terminating" /\ "wlNs" \notin tampered /\ o \in Contents("wlNs"))
  PROVE  Earned(o)'
<1>1. ASSUME NEW p \in Objects, Finalize(p) \/ Tamper(p)
      PROVE  Earned(o)'
  BY <1>1 DEF Finalize, Tamper, Earned
<1>2. ASSUME NEW p \in Objects, Sweep(p)
      PROVE  Earned(o)'
  <2>1. PICK ns \in Namespaces :
          /\ p \in Contents(ns) /\ store[ns] = "terminating" /\ store[p] = "live"
          /\ store' = [store EXCEPT ![p] = "terminating"]
          /\ tampered' = IF ns \in tampered THEN tampered \cup {p} ELSE tampered
    BY <1>2 DEF Sweep
  <2>2. CASE p # o
    BY <2>1, <2>2 DEF Earned
  <2>3. CASE p = o
    <3>1. ns \in tampered
      BY <2>1, <2>3, Roles, ObjectFacts DEF UserDataInv
    <3> QED
      BY <2>1, <2>3, <3>1 DEF Earned
  <2> QED
    BY <2>2, <2>3
<1>3. CASE RollOut \/ PodFails \/ UNCHANGED <<store, tampered, pod>>
  BY <1>3 DEF RollOut, PodFails, Earned
<1> QED
  BY <1>1, <1>2, <1>3 DEF WorldMoves

\* While a pass is hopeful, its workload namespace was not seen terminating.
LEMMA NamespaceSound ==
  ASSUME TypeOK, VisitedInv, Hopeful, "wlNs" \notin todo
  PROVE  Earned("wlNs")
BY Roles DEF TypeOK, VisitedInv, Hopeful, SeenReady

\* A good visit keeps a pass as hopeful as it was, and what it saw ready is there.
LEMMA GoodVisit ==
  ASSUME TypeOK, NEW p \in Objects, VisitedWell(p), Hopeful'
  PROVE  /\ Hopeful
         /\ seen'[p] = "Ready" => store'[p] = "live"
         /\ \A o \in Objects \ {p} :
              /\ SeenReady(o)' => SeenReady(o)
              /\ Earned(o) => Earned(o)'
              /\ store'[o] = store[o] /\ seen'[o] = seen[o]
<1>1. Hopeful
  <2>1. CASE p = "wlNs"
    BY <2>1 DEF VisitedWell, IsNext, Hopeful
  <2>2. CASE p # "wlNs"
    BY <2>2, Roles DEF VisitedWell, Hopeful, TypeOK
  <2> QED
    BY <2>1, <2>2
<1>2. seen'[p] = "Ready" => store'[p] = "live"
  <2>1. seen'[p] = Status(p, store'[p]) /\ store'[p] \in States
    BY WrittenTypes DEF VisitedWell, TypeOK
  <2> QED
    BY <2>1 DEF Status, Unread, States
<1>3. ASSUME NEW o \in Objects \ {p}
      PROVE  /\ store'[o] = store[o] /\ seen'[o] = seen[o]
             /\ o \in tampered => o \in tampered'
  BY DEF VisitedWell, Written, TypeOK
<1>4. todo' = todo \ {p} /\ Managed(snapPull') = Managed(snapPull)
  BY DEF VisitedWell
<1> QED
  BY <1>1, <1>2, <1>3, <1>4 DEF SeenReady, Earned

\* The cleaner takes nothing the pass has registered.
LEMMA GoodCleanup ==
  ASSUME TypeOK, ListInv, CleanedWell, Hopeful'
  PROVE  /\ Hopeful
         /\ \A o \in Managed(snapPull) : store'[o] = store[o]
<1>1. \A o \in Managed(snapPull) : o \in Objects /\ o \notin redundant
  BY NamesDistinct DEF Managed, ListInv, TypeOK, Objects
<1>2. \A s \in redundant, o \in Objects : o # s => WithoutCopy(s)[o] = store[o]
  BY DEF WithoutCopy, TypeOK
<1> QED
  BY <1>1, <1>2 DEF CleanedWell, Hopeful

\* Objects that were seen ready are there, all but the token secret.
LEMMA VisitedStep ==
  ASSUME TypeOK, Next, UserDataInv, VisitsInv, VisitedInv, ListInv
  PROVE  VisitedInv'
<1> SUFFICES ASSUME Hopeful', NEW o \in Objects \ {"token"}, SeenReady(o)'
             PROVE  Earned(o)'
  BY DEF VisitedInv, Objects, Fixed, McpFixed, WorkloadFixed
<1>1. mode = "apply" /\ mode' = "apply"
  BY ApplyBegins DEF SeenReady, Hopeful
<1>2. CASE WorldMoves /\ UNCHANGED passVars
  <2>1. Hopeful /\ SeenReady(o)
    BY <1>2 DEF passVars, Hopeful, SeenReady, Managed
  <2>2. Earned(o)
    BY <2>1 DEF VisitedInv
  <2>3. o \in Contents("wlNs") => "wlNs" \notin todo
    BY <1>1, <2>1, Roles, NamesDistinct DEF SeenReady, VisitsInv, Managed
  <2>4. o \in Contents("wlNs") => Earned("wlNs")
    BY <2>1, <2>3, NamespaceSound
  <2> QED
    BY <1>2, <2>2, <2>4, WorldTakes DEF Earned, TypeOK
<1>3. ASSUME NEW p \in Objects, VisitedWell(p)
      PROVE  Earned(o)'
  <2>1. CASE p = o
    BY <1>3, <2>1, GoodVisit DEF SeenReady, Earned
  <2>2. CASE p # o
    BY <1>3, <2>2, GoodVisit DEF VisitedInv
  <2> QED
    BY <2>1, <2>2
<1>4. CASE CleanedWell
  <2>1. SeenReady(o) /\ o \in Managed(snapPull) /\ tampered' = tampered
    BY <1>4 DEF CleanedWell, SeenReady
  <2> QED
    BY <1>4, <2>1, GoodCleanup DEF VisitedInv, Earned
<1> QED
  BY <1>1, <1>2, <1>3, <1>4, ApplySteps DEF FailedVisit, Hopeful

\* The token secret of a terminating namespace goes with it, and then the server
\* does not become ready in this pass.
LEMMA TokenSeenStep ==
  ASSUME TypeOK, Next, UserDataInv, PodInv, VisitsInv, VisitedInv, TokenSeenInv, ListInv
  PROVE  TokenSeenInv'
<1> DEFINE Leaving == store["wlNs"] = "terminating" /\ "wlNs" \notin tampered /\ "wlNs" \in todo
           Lost    == /\ store["token"] = "absent" /\ pod = None
                      /\ "dep" \in todo \/ seen["dep"] # "Ready"
<1> SUFFICES ASSUME Hopeful', SeenReady("token")'
             PROVE  Earned("token")' \/ Leaving' \/ Lost'
  BY DEF TokenSeenInv
<1>1. mode = "apply" /\ mode' = "apply"
  BY ApplyBegins DEF SeenReady, Hopeful
<1>2. /\ "wlNs" \in Objects /\ "dep" \in Objects /\ "token" \in Objects
      /\ {"dep", "token"} \subseteq Contents("wlNs") /\ "wlNs" \in Namespaces
      /\ {"wlNs", "dep", "token"} \subseteq Managed(snapPull)
  BY Roles DEF Contents, TypeOK
<1>3. CASE WorldMoves /\ UNCHANGED passVars
  <2>1. Hopeful /\ SeenReady("token") /\ UNCHANGED <<todo, seen>>
    BY <1>3 DEF passVars, Hopeful, SeenReady, Managed
  <2>2. ASSUME Leaving PROVE Earned("token")' \/ Leaving' \/ Lost'
    <3>1. CASE Finalize("wlNs")
      <4>1. store["token"] = "absent" /\ store["dep"] = "absent" /\ pod' = pod
        BY <1>2, <3>1 DEF Finalize
      <4>2. pod = None
        BY <4>1 DEF PodInv
      <4>3. store'["token"] = "absent" /\ pod' = None
        BY <1>2, <3>1, <4>1, <4>2 DEF Finalize, TypeOK
      <4>4. "dep" \in todo'
        BY <1>1, <2>1, <2>2 DEF VisitsInv
      <4> QED
        BY <4>3, <4>4
    <3>2. ASSUME NEW p \in Objects \ {"wlNs"}, Finalize(p) \/ Sweep(p) \/ Tamper(p)
          PROVE  Leaving'
      BY <1>2, <2>1, <2>2, <3>2 DEF Finalize, Sweep, Tamper, TypeOK
    <3>3. ~Sweep("wlNs") /\ ~Tamper("wlNs")
      BY <2>2, ObjectFacts DEF Sweep, Tamper
    <3>4. CASE UNCHANGED <<store, tampered, pod>> \/ RollOut \/ PodFails
      BY <2>1, <2>2, <3>4 DEF RollOut, PodFails
    <3> QED
      BY <1>3, <3>1, <3>2, <3>3, <3>4 DEF WorldMoves
  <2>3. ASSUME Lost PROVE Lost'
    <3>1. ASSUME NEW p \in Objects, Finalize(p) \/ Sweep(p) \/ Tamper(p)
          PROVE  store'["token"] = "absent" /\ pod' = None
      BY <1>2, <2>3, <3>1 DEF Finalize, Sweep, Tamper, TypeOK
    <3>2. CASE UNCHANGED <<store, tampered, pod>> \/ RollOut \/ PodFails
      BY <2>1, <2>3, <3>2 DEF RollOut, PodFails
    <3> QED
      BY <1>3, <2>1, <2>3, <3>1, <3>2 DEF WorldMoves
  <2>4. ASSUME Earned("token") PROVE Earned("token")' \/ Leaving' \/ Lost'
    <3>1. CASE store["wlNs"] = "terminating" /\ "wlNs" \notin tampered
      <4>1. "wlNs" \in todo
        BY <2>1, <3>1, NamespaceSound DEF Earned
      <4> QED
        BY <2>2, <3>1, <4>1
    <3>2. CASE ~(store["wlNs"] = "terminating" /\ "wlNs" \notin tampered)
      BY <1>2, <1>3, <2>4, <3>2, WorldTakes DEF TypeOK
    <3> QED
      BY <3>1, <3>2
  <2> QED
    BY <2>1, <2>2, <2>3, <2>4 DEF TokenSeenInv
<1>4. ASSUME NEW p \in Objects, VisitedWell(p)
      PROVE  Earned("token")' \/ Leaving' \/ Lost'
  <2>1. CASE p = "token"
    BY <1>4, <2>1, GoodVisit DEF SeenReady, Earned
  <2>2. CASE p # "token"
    <3>1. SeenReady("token") /\ Hopeful
      BY <1>2, <1>4, <2>2, GoodVisit
    <3>2. Earned("token") => Earned("token")'
      BY <1>2, <1>4, <2>2, GoodVisit
    <3>3. ASSUME Leaving PROVE Leaving'
      <4>1. p # "wlNs"
        <5>1. SUFFICES ASSUME p = "wlNs" PROVE FALSE
          OBVIOUS
        <5>2. store'["wlNs"] = "terminating"
          BY <1>2, <1>4, <3>3, <5>1 DEF VisitedWell, Written, TypeOK
        <5>3. seen'["wlNs"] # "Ready" /\ "wlNs" \notin todo'
          BY <1>4, <5>1, <5>2, GoodVisit DEF VisitedWell
        <5> QED
          BY <5>3 DEF Hopeful
      <4>2. tampered' \subseteq tampered /\ todo' = todo \ {p}
        BY <1>4 DEF VisitedWell, Written
      <4>3. store'["wlNs"] = store["wlNs"]
        BY <1>2, <1>4, <4>1, GoodVisit
      <4> QED
        BY <3>3, <4>1, <4>2, <4>3
    <3>4. ASSUME Lost PROVE Lost'
      <4>1. store'["token"] = "absent" /\ pod' = None
        BY <1>2, <1>4, <2>2, <3>4, GoodVisit DEF VisitedWell, Written
      <4>2. CASE p = "dep"
        <5>1. seen'["dep"] = Status("dep", store'["dep"]) /\ store'["dep"] \in States
          BY <1>2, <1>4, <4>2, WrittenTypes DEF VisitedWell, TypeOK
        <5>2. seen'["dep"] # "Ready"
          BY <3>4, <5>1 DEF Status, Unread, States
        <5> QED
          BY <4>1, <5>2
      <4>3. CASE p # "dep"
        BY <1>2, <1>4, <3>4, <4>1, <4>3, GoodVisit DEF VisitedWell
      <4> QED
        BY <4>2, <4>3
    <3> QED
      BY <3>1, <3>2, <3>3, <3>4 DEF TokenSeenInv
  <2> QED
    BY <2>1, <2>2
<1>5. CASE CleanedWell
  <2>1. SeenReady("token") /\ Hopeful /\ UNCHANGED <<tampered, todo, seen, pod>>
    BY <1>5, GoodCleanup DEF CleanedWell, SeenReady
  <2>2. store'["token"] = store["token"] /\ store'["wlNs"] = store["wlNs"]
    BY <1>2, <1>5, GoodCleanup
  <2> QED
    BY <2>1, <2>2 DEF TokenSeenInv, Earned
<1> QED
  BY <1>1, <1>3, <1>4, <1>5, ApplySteps DEF FailedVisit, Hopeful

\* What an Apply pass believes is so: the invariant behind Ready.
THEOREM ReadySafety == Spec => []ReadyInv
<1>1. Init => ReadyInv
  BY DEF Init, ReadyInv, PodInv, VisitsInv, VisitedInv, TokenSeenInv, ListInv,
     CleanedInv, Hopeful
<1>2. TypeOK /\ Inv /\ ReadyInv /\ [Next]_vars => ReadyInv'
  <2> SUFFICES ASSUME TypeOK, Inv, ReadyInv, [Next]_vars PROVE ReadyInv'
    OBVIOUS
  <2>1. CASE UNCHANGED vars
    BY <2>1
       DEF vars, crVars, configVars, storeVars, passVars, boundVars, ReadyInv, PodInv,
           VisitsInv, VisitedInv, TokenSeenInv, ListInv, CleanedInv, Hopeful, SeenReady,
           Earned, Managed
  <2>2. CASE Next
    BY <2>2, PodStep, VisitsStep, VisitedStep, TokenSeenStep, ListStep,
       CleanedStep
       DEF ReadyInv, Inv
  <2> QED
    BY <2>1, <2>2
<1> QED
  BY <1>1, <1>2, TypeCorrect, Safety, PTL DEF Spec

\* Ready is only written, for the first time or again, when every registered
\* object is there and no redundant pull secret is.
THEOREM ReadyEarned == Spec => ReadyIsEarned
<1>1. ASSUME TypeOK, ReadyInv, FinishApply, phase' = "Ready"
      PROVE  /\ \A o \in Managed(snapPull) : store[o] = "live" \/ o \in tampered
             /\ \A s \in PullSecrets \ snapPull : store[s] # "live"
  <2>1. mode = "apply" /\ ~failed /\ AllReady /\ Cleaned
    BY <1>1 DEF FinishApply
  <2>2. todo = {} /\ {"wlNs", "dep", "token"} \subseteq Managed(snapPull)
    BY <1>1, <2>1, Roles DEF ReadyInv, VisitsInv, TypeOK, Cleaned
  <2>3. Hopeful /\ \A o \in Managed(snapPull) : SeenReady(o)
    BY <2>1, <2>2 DEF Hopeful, SeenReady, AllReady
  <2>4. Earned("token")
    BY <1>1, <2>1, <2>2, <2>3 DEF ReadyInv, TokenSeenInv, AllReady
  <2>5. \A o \in Managed(snapPull) : Earned(o)
    BY <1>1, <2>3, <2>4, Roles DEF ReadyInv, VisitedInv, TypeOK
  <2> QED
    BY <1>1, <2>1, <2>5 DEF ReadyInv, CleanedInv, Cleaned, Earned
<1>2. TypeOK /\ ReadyInv /\ [Next]_vars
        => [FinishApply /\ phase' = "Ready"
              => /\ \A o \in Managed(snapPull) : store[o] = "live" \/ o \in tampered
                 /\ \A s \in PullSecrets \ snapPull : store[s] # "live"]_vars
  BY <1>1
<1> QED
  BY <1>2, TypeCorrect, ReadySafety, PTL DEF Spec, ReadyIsEarned

\* An Apply pass requests no deletion but of redundant pull secrets.
THEOREM ApplyIsGentle == Spec => ApplyRemovesOnlyStale
<1>1. ASSUME TypeOK, ReadyInv, Next, NEW o \in Objects,
             mode = "apply", store[o] = "live", store'[o] = "terminating"
      PROVE  o \in tampered' \/ o \in PullSecrets \ snapPull \/ Swept(o)
  <2>1. ASSUME NEW p \in Objects, Finalize(p) \/ Sweep(p) \/ Tamper(p)
        PROVE  o \in tampered' \/ Swept(o)
    BY <1>1, <2>1 DEF Finalize, Sweep, Tamper, Swept, TypeOK
  <2>2. ASSUME NEW p \in Objects, Written(p)
        PROVE  FALSE
    BY <1>1, <2>2 DEF Written, TypeOK
  <2>3. CASE Cleanup \/ CleanupFault
    BY <1>1, <2>3, CleanupTakes DEF ReadyInv, ListInv
  <2>4. CASE FinishApply \/ FinishDelete \/ Crash
    BY <1>1, <2>4 DEF FinishApply, FinishDelete, Crash, storeVars
  <2>5. ASSUME NEW p \in Objects, ApplyObject(p) \/ ApplyRefused(p) \/ ApplyFault(p)
        PROVE  FALSE
    BY <1>1, <2>2, <2>5 DEF ApplyObject, ApplyRefused, ApplyFault, storeVars
  <2>6. CASE User \/ Operator \/ RollOut \/ PodFails
    BY <1>1, <2>6 DEF User, Operator, CreateVelero, RequestDelete, EditSpec,
       EditAvailable, EditPull, EditSource, RollOut, PodFails, storeVars
  <2> QED
    BY <1>1, <2>1, <2>3, <2>4, <2>5, <2>6, BeforeStep, DeleteStep
       DEF Next, Clusters, Foreign, Controller, ApplyPass, DeletePass
<1>2. TypeOK /\ ReadyInv /\ [Next]_vars
        => [\A o \in Objects :
              mode = "apply" /\ store[o] = "live" /\ store'[o] = "terminating"
                => o \in tampered' \/ o \in PullSecrets \ snapPull \/ Swept(o)]_vars
  BY <1>1
<1> QED
  BY <1>2, TypeCorrect, ReadySafety, PTL DEF Spec, ApplyRemovesOnlyStale

\* No Apply begins for a Velero that is being deleted.
LEMMA NoApplyOfDeleted ==
  ASSUME Next, life = "deleting", mode # "apply"
  PROVE  mode' # "apply"
<1> SUFFICES ASSUME mode' = "apply" PROVE FALSE
  OBVIOUS
<1>1. ~(User \/ Operator \/ Clusters \/ Foreign) /\ ~Cleanup /\ ~CleanupFault
  BY OthersStep, CleanupStep DEF passVars
<1>2. ~FinishApply /\ ~FinishDelete /\ ~Crash
  BY EndStep
<1>3. ASSUME NEW o \in Objects,
             \/ ApplyObject(o) \/ ApplyRefused(o) \/ ApplyFault(o)
             \/ CheckDependents(o) \/ RefuseDelete(o) \/ DeleteObject(o) \/ DeleteFault(o)
      PROVE  FALSE
  BY <1>3, ApplyStep, DeleteStep
<1>4. ~Before
  BY DEF Before, AddFinalizer, RejectApply, RejectDelete, FailInstanceID, StartApply,
     StartDelete, StartPass, passVars
<1> QED
  BY <1>1, <1>2, <1>3, <1>4 DEF Next, Controller, ApplyPass, DeletePass

\* A deletion never goes back: whoever moves, an object that changes was there
\* or is gone, and no Apply begins.
THEOREM DeletionAdvances == Spec => DeletionOnlyAdvances
<1>1. ASSUME TypeOK, Next, life = "deleting", mode # "apply", NEW o \in Objects,
             store'[o] # store[o]
      PROVE  store[o] = "live" \/ store'[o] = "absent"
  <2>1. StoreStep
    BY <1>1, EveryStoreStep
  <2>2. store[o] \in States
    BY <1>1 DEF TypeOK
  <2>3. ASSUME NEW p \in Objects, Finalize(p) \/ Sweep(p) \/ Tamper(p)
        PROVE  store[o] = "live" \/ store'[o] = "absent"
    BY <1>1, <2>3 DEF Finalize, Sweep, Tamper, TypeOK
  <2>4. ASSUME NEW D \in SUBSET Deletable, DeletionRequested(D)
        PROVE  store[o] = "live"
    BY <1>1, <2>2, <2>4 DEF DeletionRequested, States
  <2> QED
    BY <1>1, <2>1, <2>3, <2>4 DEF StoreStep
<1>2. TypeOK /\ [Next]_vars
        => [life = "deleting" /\ mode # "apply"
              => /\ mode' # "apply"
                 /\ \A o \in Objects : store'[o] # store[o]
                                        => store[o] = "live" \/ store'[o] = "absent"]_vars
  BY <1>1, NoApplyOfDeleted
<1> QED
  BY <1>2, TypeCorrect, PTL DEF Spec, DeletionOnlyAdvances

-----------------------------------------------------------------------------
(***************************************************************************)
(* The permissions.                                                        *)
(***************************************************************************)

\* Everything may be done to every object on the cluster it is on.
LEMMA AllGranted ==
  ASSUME NEW o \in Objects, NEW v \in Verbs
  PROVE  Granted(o, v)
<1>1. CASE o \in McpFixed \cup Crds
  BY <1>1, NamesDistinct
     DEF Granted, OnMcp, Resource, McpRules, Namespaces, McpFixed, Fixed, WorkloadFixed
<1>2. CASE o \in WorkloadFixed \cup PullSecrets
  BY <1>2, NamesDistinct
     DEF Granted, OnMcp, Resource, WorkloadRules, Namespaces, McpFixed, Fixed,
         WorkloadFixed
<1> QED
  BY <1>1, <1>2 DEF Objects, Fixed

\* No call of a pass lacks a permission, whatever CRDs and pull secrets there
\* are and whatever was registered when the pass began.
THEOREM Permitted == Spec => []CallsPermitted
<1>1. TypeOK => CallsPermitted
  <2> SUFFICES ASSUME TypeOK PROVE CallsPermitted
    OBVIOUS
  <2>1. \A o \in Objects, v \in Verbs : Granted(o, v)
    BY AllGranted
  <2>2. {"get", "create", "update", "delete"} \subseteq Verbs
    BY DEF Verbs
  <2>3. \A o \in Objects : MayMutate(o)
    BY <2>1, <2>2, ObjectFacts DEF MayMutate, McpRules, Verbs
  <2>4. ASSUME NEW o \in todo
        PROVE  o \in Objects /\ DependentsOf(o) \subseteq Objects
    BY <2>4, TheDependent, ObjectFacts DEF TypeOK
  <2>5. <<"secrets", "list">> \in WorkloadRules
    BY DEF WorkloadRules, Verbs
  <2>6. redundant \subseteq Objects
    BY ObjectFacts DEF TypeOK
  <2> HIDE DEF TypeOK
  <2> QED
    BY <2>1, <2>2, <2>3, <2>4, <2>5, <2>6 DEF CallsPermitted
<1> QED
  BY <1>1, TypeCorrect, PTL
=============================================================================
