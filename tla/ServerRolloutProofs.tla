------------------------ MODULE ServerRolloutProofs ------------------------
(***************************************************************************)
(* A copied pull secret is as recent as the pass that reports no error,    *)
(* and Ready is true of a roll-out at rest, for any number of rotations,   *)
(* edits, faults and crashes.                                              *)
(***************************************************************************)
EXTENDS ServerRollout, TLAPS

\* The numbers the proof computes with.
NumbersOK ==
  /\ newest \in 1..MaxRotations + 1
  /\ source \in Versions /\ copy \in Versions /\ readCopy \in Versions
  /\ readSource \in Versions /\ floor \in Versions

CopyInv == NumbersOK /\ SourceInv /\ RecentInv

\* Users and rotations: a copy that is written is no longer what was read.
LEMMA UsersStep ==
  ASSUME CopyInv, Users
  PROVE  CopyInv'
<1> USE Bounds DEF CopyInv, NumbersOK, SourceInv, RecentInv, passVars, Versions, Nothing, Garbage
<1>1. CASE AskFor
  BY <1>1 DEF AskFor
<1>2. CASE Rotate
  BY <1>2 DEF Rotate
<1>3. CASE RemoveSource
  BY <1>3 DEF RemoveSource
<1>4. CASE TouchCopy
  BY <1>4 DEF TouchCopy, wantVars
<1>5. CASE TouchTemplate
  BY <1>5 DEF TouchTemplate, wantVars
<1> QED
  BY <1>1, <1>2, <1>3, <1>4, <1>5 DEF Users

\* The deployment controller and the kubelet leave secrets alone.
LEMMA ClusterStep ==
  ASSUME CopyInv, Cluster
  PROVE  CopyInv'
<1>1. UNCHANGED elsewhere
  BY DEF Cluster, StopPod, CreatePod, BecomeReady, PodFails, CountReplicas
<1> QED
  BY <1>1 DEF elsewhere, wantVars, passVars, CopyInv, NumbersOK, SourceInv, RecentInv

\* One call of a pass after the other.
LEMMA PassStep ==
  ASSUME CopyInv, Pass \/ CallFails \/ Crash
  PROVE  CopyInv'
<1> USE Bounds
    DEF CopyInv, NumbersOK, SourceInv, RecentInv, wantVars, Versions, Nothing, Garbage
<1>1. CASE BeginPass
  BY <1>1 DEF BeginPass
<1>2. CASE GetCopy
  BY <1>2 DEF GetCopy
<1>3. CASE GetSource
  BY <1>3 DEF GetSource, AfterCopy
<1>4. CASE PutCopy
  BY <1>4 DEF PutCopy, MustWrite
<1>5. CASE Deploy
  BY <1>5 DEF Deploy
<1>6. CASE FinishPass
  BY <1>6 DEF FinishPass
<1>7. CASE CallFails
  BY <1>7 DEF CallFails, AfterCopy
<1>8. CASE Crash
  BY <1>8 DEF Crash
<1> QED
  BY <1>1, <1>2, <1>3, <1>4, <1>5, <1>6, <1>7, <1>8 DEF Pass

\* CopyIsRecent in every state: what a pass without an error leaves in the
\* instance namespace is at least as new as the source was when it began.
THEOREM CopyRecent == Spec => []CopyIsRecent
<1>1. Init => CopyInv
  BY Bounds
     DEF Init, CopyInv, NumbersOK, SourceInv, RecentInv, Versions, Nothing, Garbage
<1>2. CopyInv /\ [Next]_vars => CopyInv'
  <2> SUFFICES ASSUME CopyInv, [Next]_vars PROVE CopyInv'
    OBVIOUS
  <2>1. CASE UNCHANGED vars
    BY <2>1 DEF vars, wantVars, passVars, CopyInv, NumbersOK, SourceInv, RecentInv
  <2> QED
    BY <2>1, UsersStep, ClusterStep, PassStep DEF Next
<1>3. CopyInv => CopyIsRecent
  BY DEF CopyInv, RecentInv, CopyIsRecent
<1> QED
  BY <1>1, <1>2, <1>3, PTL DEF Spec

(***************************************************************************)
(* A roll-out at rest: whatever moves the pod, its status or its template  *)
(* ends the calm, so that what a calm pass read is still so at its end.    *)
(***************************************************************************)
RestInv ==
  /\ pod = None => ~ready
  /\ calm => AtRest
  /\ at = "finish" /\ calm /\ ~failed => template = snap /\ replicas = counted

\* No user but one who edits the template touches what the calm is about.
LEMMA UsersKeepRest ==
  ASSUME RestInv, Users
  PROVE  RestInv'
<1>1. CASE TouchTemplate
  BY <1>1 DEF TouchTemplate, serverVars, passVars, RestInv
<1>2. CASE AskFor \/ Rotate \/ RemoveSource \/ TouchCopy
  <2>1. UNCHANGED <<pod, ready, counted, template, calm, at, failed, snap, replicas>>
    BY <1>2 DEF AskFor, Rotate, RemoveSource, TouchCopy, serverVars, passVars
  <2> QED
    BY <2>1 DEF RestInv, AtRest
<1> QED
  BY <1>1, <1>2 DEF Users

\* The deployment controller and the kubelet end the calm.
LEMMA ClusterKeepsRest ==
  ASSUME RestInv, Cluster
  PROVE  RestInv'
<1>1. ~calm'
  BY DEF Cluster, StopPod, CreatePod, BecomeReady, PodFails, CountReplicas
<1>2. pod' = None => ~ready'
  BY DEF Cluster, StopPod, CreatePod, BecomeReady, PodFails, CountReplicas, RestInv
<1> QED
  BY <1>1, <1>2 DEF RestInv

\* A pass is calm from its start on, or never.
LEMMA PassKeepsRest ==
  ASSUME RestInv, Pass \/ CallFails \/ Crash
  PROVE  RestInv'
<1>1. UNCHANGED <<pod, ready, counted>>
  BY DEF Pass, BeginPass, GetCopy, GetSource, PutCopy, Deploy, FinishPass, CallFails, Crash,
     serverVars
<1>2. CASE BeginPass
  BY <1>1, <1>2 DEF BeginPass, RestInv, AtRest
<1>3. CASE GetCopy \/ GetSource \/ PutCopy \/ FinishPass \/ Crash
  <2>1. UNCHANGED <<template, calm>> /\ at' # "finish"
    BY <1>3 DEF GetCopy, GetSource, PutCopy, FinishPass, Crash, AfterCopy
  <2> QED
    BY <1>1, <2>1 DEF RestInv, AtRest
<1>4. CASE Deploy
  <2>1. calm' => calm /\ template' = template
    BY <1>4, Zenon DEF Deploy
  <2>2. template' = snap' /\ replicas' = counted'
    BY <1>1, <1>4 DEF Deploy, NewTemplate
  <2> QED
    BY <1>1, <2>1, <2>2 DEF RestInv, AtRest
<1>5. CASE CallFails
  <2>1. calm' => calm /\ template' = template
    BY <1>5, Zenon DEF CallFails
  <2>2. failed'
    BY <1>5 DEF CallFails
  <2> QED
    BY <1>1, <2>1, <2>2 DEF RestInv, AtRest
<1> QED
  BY <1>2, <1>3, <1>4, <1>5 DEF Pass

\* ReadyAtRest: a pass that finds the roll-out at rest and leaves it so reports
\* Ready only when the server runs the image the pass was asked for.
THEOREM ReadyIsTrue == Spec => ReadyAtRest
<1>1. Init => RestInv
  BY DEF Init, RestInv
<1>2. RestInv /\ [Next]_vars => RestInv'
  <2> SUFFICES ASSUME RestInv, [Next]_vars PROVE RestInv'
    OBVIOUS
  <2>1. CASE UNCHANGED vars
    BY <2>1 DEF vars, serverVars, passVars, RestInv, AtRest
  <2> QED
    BY <2>1, UsersKeepRest, ClusterKeepsRest, PassKeepsRest DEF Next
<1>3. ASSUME RestInv, FinishPass, calm, phase' = "Ready"
      PROVE  ready /\ pod = snap
  <2>1. at = "finish" /\ ~failed /\ replicas = 1
    BY <1>3 DEF FinishPass, AllReady
  <2>2. counted = 1 /\ template = snap /\ AtRest
    BY <1>3, <2>1 DEF RestInv
  <2>3. ready /\ pod \in {None, template}
    BY <2>2 DEF AtRest
  <2> QED
    BY <1>3, <2>2, <2>3 DEF RestInv
<1>4. RestInv /\ [Next]_vars => [FinishPass /\ calm /\ phase' = "Ready" => ready /\ pod = snap]_vars
  BY <1>3
<1> QED
  BY <1>1, <1>2, <1>4, PTL DEF Spec, ReadyAtRest

\* Every variable keeps its type: a copy only ever holds data that was in rotation,
\* nothing, or what a user wrote, and a pass knows no call but those of the code.
THEOREM TypeCorrect == Spec => []TypeOK
<1>1. Init => TypeOK
  <2>1. 0 \in 0..MaxEdits /\ 0 \in 0..MaxFaults /\ 1 \in 1..MaxRotations + 1
    BY Bounds
  <2>2. 0 \in Versions /\ 1 \in Versions
    BY Bounds DEF Versions, Nothing, Garbage
  <2> QED
    BY <2>1, <2>2 DEF Init, TypeOK, Nothing
<1>2. TypeOK /\ [Next]_vars => TypeOK'
  <2> SUFFICES ASSUME TypeOK, [Next]_vars PROVE TypeOK'
    OBVIOUS
  <2> USE Bounds DEF TypeOK, wantVars, serverVars, passVars, boundVars
  <2>1. CASE Users
    <3>1. Nothing \in Versions /\ Garbage \in Versions /\ \A n \in 1..MaxRotations + 1 : n \in Versions
      BY DEF Versions, Nothing, Garbage
    <3>2. CASE AskFor
      BY <3>2 DEF AskFor, Edit
    <3>3. CASE Rotate
      <4>1. newest' \in 1..MaxRotations + 1 /\ source' = newest'
        BY <3>3 DEF Rotate
      <4> QED
        BY <3>1, <3>3, <4>1 DEF Rotate, Edit
    <3>4. CASE RemoveSource
      BY <3>1, <3>4 DEF RemoveSource, Edit
    <3>5. CASE TouchCopy
      BY <3>1, <3>5 DEF TouchCopy, Edit
    <3>6. CASE TouchTemplate
      <4>1. template' \in Images /\ edits' \in 0..MaxEdits /\ faults' = faults
        BY <3>6 DEF TouchTemplate, Edit
      <4> QED
        BY <3>6, <4>1 DEF TouchTemplate
    <3> QED
      BY <2>1, <3>2, <3>3, <3>4, <3>5, <3>6 DEF Users
  <2>2. CASE Cluster
    <3>1. UNCHANGED elsewhere /\ ~calm'
      BY <2>2 DEF Cluster, StopPod, CreatePod, BecomeReady, PodFails, CountReplicas
    <3>2. calm' \in BOOLEAN /\ ready' \in BOOLEAN
      BY <2>2 DEF Cluster, StopPod, CreatePod, BecomeReady, PodFails, CountReplicas
    <3>3. pod' \in Images \cup {None} /\ counted' \in {0, 1}
      BY <2>2 DEF Cluster, StopPod, CreatePod, BecomeReady, PodFails, CountReplicas
    <3>4. edits' = edits /\ faults' \in 0..MaxFaults
      BY <2>2 DEF Cluster, StopPod, CreatePod, BecomeReady, PodFails, CountReplicas, Fault
    <3> QED
      BY <3>1, <3>2, <3>3, <3>4 DEF elsewhere
  <2>3. CASE BeginPass
    <3>1. calm' \in BOOLEAN
      BY <2>3, Zenon DEF BeginPass, AtRest
    <3>2. Nothing \in Versions
      BY DEF Versions, Nothing, Garbage
    <3> QED
      BY <2>3, <3>1, <3>2 DEF BeginPass
  <2>4. CASE GetCopy \/ GetSource
    BY <2>4 DEF GetCopy, GetSource, AfterCopy
  <2>5. CASE PutCopy
    BY <2>5 DEF PutCopy, MustWrite
  <2>6. CASE Deploy
    BY <2>6 DEF Deploy, NewTemplate
  <2>7. CASE FinishPass \/ Crash
    BY <2>7 DEF FinishPass, Crash, Fault
  <2>8. CASE CallFails
    BY <2>8 DEF CallFails, AfterCopy, NewTemplate, Fault
  <2>9. CASE UNCHANGED vars
    BY <2>9 DEF vars
  <2> QED
    BY <2>1, <2>2, <2>3, <2>4, <2>5, <2>6, <2>7, <2>8, <2>9 DEF Next, Pass
<1> QED
  BY <1>1, <1>2, PTL DEF Spec
=============================================================================
