----------------------- MODULE InstanceIdentityProofs -----------------------
(***************************************************************************)
(* Veleros that keep to their ids keep out of each other's way, however    *)
(* many share a workload cluster and whatever fails.                       *)
(***************************************************************************)
EXTENDS InstanceIdentity, TLAPS

\* The functions and the pass have the shape the actions expect.
ShapeOK ==
  /\ life \in [Veleros -> {"absent", "active", "deleting"}]
  /\ label \in [Veleros -> Ids \cup {None}]
  /\ selector \in [Veleros -> Ids \cup {None}]
  /\ space \in [Ids -> {"absent", "live", "terminating"}]
  /\ server \in [Ids -> Veleros \cup {None}]
  /\ who \in Veleros \cup {None} /\ id \in Ids \cup {None}
  /\ mode \in {"apply", "delete"}
  /\ step \in {"label", "mcp", "workload", "finish"}

OwnSafety == ShapeOK /\ OwnInv /\ NothingLeftBehind

\* Nobody but a pass moves a pass, and ids written by a user are recorded.
LEMMA UsersStep ==
  ASSUME OwnSafety, Users
  PROVE  OwnSafety'
<1> USE NoneIsNoVelero
    DEF OwnSafety, ShapeOK, OwnInv, NothingLeftBehind, Ids, clusterVars, passVars
<1>1. ASSUME NEW v \in Veleros, Create(v)
      PROVE  OwnSafety'
  <2>1. PICK l \in Ids \cup {None} :
          label' = [label EXCEPT ![v] = l] /\ written' = (written \/ l \notin {None, v})
    BY <1>1 DEF Create
  <2>2. ~written' => ~written /\ l \in {None, v}
    BY <2>1, Zenon
  <2>3. /\ life[v] = "absent" /\ who # v /\ life' = [life EXCEPT ![v] = "active"]
        /\ UNCHANGED <<selector, space, server, who, mode, step, id, failed, left>>
    BY <1>1 DEF Create
  <2>4. ShapeOK'
    BY <2>1, <2>3
  <2>5. OwnInv'
    BY <2>1, <2>2, <2>3
  <2>6. NothingLeftBehind'
    BY <2>2, <2>3
  <2> QED
    BY <2>4, <2>5, <2>6
<1>2. ASSUME NEW v \in Veleros, EditLabel(v)
      PROVE  OwnSafety'
  <2>1. PICK l \in Ids \cup {None} :
          label' = [label EXCEPT ![v] = l] /\ written' = (written \/ l \notin {None, v})
    BY <1>2 DEF EditLabel
  <2>2. ~written' => ~written /\ l \in {None, v}
    BY <2>1, Zenon
  <2>3. UNCHANGED <<life, selector, space, server, who, mode, step, id, failed, left>>
    BY <1>2 DEF EditLabel
  <2>4. ShapeOK'
    BY <2>1, <2>3
  <2>5. OwnInv'
    BY <2>1, <2>2, <2>3
  <2>6. NothingLeftBehind'
    BY <2>2, <2>3
  <2> QED
    BY <2>4, <2>5, <2>6
<1>3. ASSUME NEW v \in Veleros, RequestDelete(v)
      PROVE  OwnSafety'
  BY <1>3 DEF RequestDelete
<1> QED
  BY <1>1, <1>2, <1>3 DEF Users

\* A namespace goes with the server in it.
LEMMA TerminateStep ==
  ASSUME OwnSafety, NEW i \in Ids, Terminate(i)
  PROVE  OwnSafety'
BY NoneIsNoVelero
   DEF Terminate, OwnSafety, ShapeOK, OwnInv, NothingLeftBehind, Ids, objectVars, passVars

\* A pass takes the id of its Velero and works on what goes by it.
LEMMA VisitsStep ==
  ASSUME OwnSafety, Visits \/ \E v \in Veleros : Begin(v)
  PROVE  OwnSafety'
<1> USE NoneIsNoVelero
    DEF OwnSafety, ShapeOK, OwnInv, NothingLeftBehind, Ids, objectVars, clusterVars
<1>1. ASSUME NEW v \in Veleros, Begin(v)
      PROVE  OwnSafety'
  BY <1>1 DEF Begin
<1>2. CASE SetID
  BY <1>2 DEF SetID, GenerateID, EndPass
<1>3. CASE VisitMcp
  BY <1>3 DEF VisitMcp, Refused
<1>4. CASE VisitWorkload
  <2>1. /\ who # None /\ step = "workload" /\ step' = "finish"
        /\ UNCHANGED <<who, mode, id, selector, life, label, written>>
    BY <1>4 DEF VisitWorkload
  <2>2. CASE mode = "apply"
    <3>1. CASE space[id] = "terminating"
      BY <1>4, <2>1, <2>2, <3>1 DEF VisitWorkload
    <3>2. CASE space[id] # "terminating"
      <4>1. /\ space' = [space EXCEPT ![id] = "live"] /\ server' = [server EXCEPT ![id] = who]
            /\ left' = left
        BY <1>4, <2>2, <3>2 DEF VisitWorkload
      <4>2. ShapeOK'
        BY <2>1, <4>1
      <4>3. OwnInv' /\ NothingLeftBehind'
        BY <2>1, <2>2, <4>1
      <4> QED
        BY <4>2, <4>3
    <3> QED
      BY <3>1, <3>2
  <2>3. CASE mode = "delete"
    <3>1. /\ left' = (left \/ space[id] # "absent") /\ failed' = failed /\ server' = server
          /\ space' = IF space[id] = "absent" THEN space ELSE [space EXCEPT ![id] = "terminating"]
      BY <1>4, <2>3 DEF VisitWorkload
    <3>2. ~left' => ~left /\ space[id] = "absent"
      BY <3>1, Zenon
    <3>3. ShapeOK'
      BY <2>1, <3>1
    <3>4. OwnInv' /\ NothingLeftBehind'
      BY <2>1, <2>3, <3>1, <3>2
    <3> QED
      BY <3>3, <3>4
  <2> QED
    BY <2>2, <2>3
<1>5. CASE Finish
  BY <1>5 DEF Finish, EndPass, Complete
<1> QED
  BY <1>1, <1>2, <1>3, <1>4, <1>5 DEF Visits

\* A failed call leaves a pass that cannot complete, or none.
LEMMA ErrorsStep ==
  ASSUME OwnSafety, Errors
  PROVE  OwnSafety'
<1> USE NoneIsNoVelero
    DEF OwnSafety, ShapeOK, OwnInv, NothingLeftBehind, Ids, objectVars, clusterVars
<1>1. CASE SetIDFails
  BY <1>1 DEF SetIDFails, GenerateID, EndPass
<1>2. CASE VisitFails
  BY <1>2 DEF VisitFails
<1>3. CASE Crash
  BY <1>3 DEF Crash, EndPass
<1> QED
  BY <1>1, <1>2, <1>3 DEF Errors

\* The invariant behind both properties.
LEMMA OwnSafe == Spec => []OwnSafety
<1>1. Init => OwnSafety
  BY NoneIsNoVelero DEF Init, OwnSafety, ShapeOK, OwnInv, NothingLeftBehind, Ids
<1>2. OwnSafety /\ [Next]_vars => OwnSafety'
  <2> SUFFICES ASSUME OwnSafety, [Next]_vars PROVE OwnSafety'
    OBVIOUS
  <2>1. CASE UNCHANGED vars
    BY <2>1 DEF vars, objectVars, clusterVars, passVars, OwnSafety, ShapeOK, OwnInv,
       NothingLeftBehind, Ids
  <2> QED
    BY <2>1, UsersStep, TerminateStep, VisitsStep, ErrorsStep DEF Next
<1> QED
  BY <1>1, <1>2, PTL DEF Spec

\* Unless somebody writes the id of another Velero, no two Veleros ever meet in a
\* namespace of the workload cluster.
THEOREM IsolatedAlways == Spec => []Isolated
<1>1. OwnSafety => Isolated
  BY NoneIsNoVelero DEF OwnSafety, OwnInv, Isolated, Ids
<1> QED
  BY <1>1, OwnSafe, PTL

\* And none leaves a server or an MCP deployment behind.
THEOREM NothingLeft == Spec => []NothingLeftBehind
<1>1. OwnSafety => NothingLeftBehind
  BY DEF OwnSafety
<1> QED
  BY <1>1, OwnSafe, PTL

(***************************************************************************)
(* Ready is written at home, whatever users write into labels: what an     *)
(* Apply has visited without an error is where it works until it ends.     *)
(***************************************************************************)
HomeInv ==
  who # None =>
    /\ step # "label" => id # None
    /\ mode = "apply" /\ step \in {"workload", "finish"} /\ ~failed => selector[who] = id
    /\ mode = "apply" /\ step = "finish" /\ ~failed => server[id] = who /\ space[id] = "live"

\* Only the pass itself changes what it has visited; a namespace that is live
\* does not go.
LEMMA HomeStep ==
  ASSUME ShapeOK, HomeInv, [Next]_vars
  PROVE  HomeInv'
<1> USE NoneIsNoVelero DEF ShapeOK, HomeInv, Ids
<1>1. CASE Users \/ UNCHANGED vars
  <2>1. UNCHANGED <<who, mode, step, id, failed, selector, server, space>>
    BY <1>1 DEF Users, Create, EditLabel, RequestDelete, vars, clusterVars, passVars
  <2> QED
    BY <2>1
<1>2. ASSUME NEW i \in Ids, Terminate(i)
      PROVE  HomeInv'
  BY <1>2 DEF Terminate, passVars
<1>3. ASSUME NEW v \in Veleros, Begin(v)
      PROVE  HomeInv'
  BY <1>3 DEF Begin
<1>4. CASE SetID
  BY <1>4 DEF SetID, GenerateID, EndPass
<1>5. CASE VisitMcp
  <2>1. /\ who' = who /\ id' = id /\ mode' = mode /\ step' = "workload" /\ who \in Veleros
        /\ id # None
    BY <1>5 DEF VisitMcp
  <2>2. ASSUME mode = "apply", ~failed' PROVE selector'[who] = id
    <3>1. ~Refused
      BY <1>5, <2>2, Zenon DEF VisitMcp
    <3> QED
      BY <1>5, <2>1, <2>2, <3>1 DEF VisitMcp, Refused
  <2> QED
    BY <2>1, <2>2
<1>6. CASE VisitWorkload
  <2>1. /\ UNCHANGED <<who, mode, id, selector>> /\ step = "workload" /\ who \in Veleros
        /\ id \in Ids /\ id # None
    BY <1>6 DEF VisitWorkload
  <2>2. ASSUME mode = "apply", ~failed'
        PROVE  ~failed /\ server'[id] = who /\ space'[id] = "live"
    <3>1. ~failed /\ space[id] # "terminating"
      BY <1>6, <2>2, Zenon DEF VisitWorkload
    <3> QED
      BY <1>6, <2>1, <2>2, <3>1 DEF VisitWorkload
  <2> QED
    BY <2>1, <2>2
<1>7. CASE VisitFails
  BY <1>7 DEF VisitFails, clusterVars
<1>8. CASE Finish \/ SetIDFails \/ Crash
  BY <1>8 DEF Finish, SetIDFails, Crash, EndPass
<1> QED
  BY <1>1, <1>2, <1>3, <1>4, <1>5, <1>6, <1>7, <1>8 DEF Next, Visits, Errors

\* The phases a Velero can report.
PhaseOK == phase \in [Veleros -> {"Unset", "Progressing", "Ready", "Terminating"}]

\* Phases are those of the API.
LEMMA PhaseStep ==
  ASSUME ShapeOK, PhaseOK, [Next]_vars
  PROVE  PhaseOK'
<1> USE DEF PhaseOK
<1>1. CASE Users
  BY <1>1 DEF Users, Create, EditLabel, RequestDelete
<1>2. CASE Visits \/ Errors
  BY <1>2 DEF Visits, Errors, SetID, VisitMcp, VisitWorkload, Finish, SetIDFails, VisitFails,
     Crash, objectVars, Failing, ShapeOK
<1>3. CASE (\E v \in Veleros : Begin(v)) \/ (\E i \in Ids : Terminate(i)) \/ UNCHANGED vars
  BY <1>3 DEF Begin, Terminate, objectVars, vars
<1> QED
  BY <1>1, <1>2, <1>3 DEF Next

\* ReadyAtHome: a Velero is only reported Ready when its MCP deployment and its
\* own server go by the same id.
THEOREM ReadyIsHome == Spec => ReadyAtHome
<1>1. Init => HomeInv /\ PhaseOK
  BY DEF Init, HomeInv, PhaseOK
<1>2. OwnSafety /\ HomeInv /\ PhaseOK /\ [Next]_vars => HomeInv' /\ PhaseOK'
  BY HomeStep, PhaseStep DEF OwnSafety
<1>3. ASSUME HomeInv, PhaseOK, OwnSafety, Finish, mode = "apply", phase'[who] = "Ready"
      PROVE  selector[who] = id /\ server[id] = who /\ space[id] = "live"
  <2>1. who \in Veleros /\ step = "finish"
    BY <1>3 DEF Finish, OwnSafety, ShapeOK
  <2>2. ~failed
    BY <1>3, <2>1 DEF Finish, PhaseOK
  <2> QED
    BY <1>3, <2>1, <2>2 DEF HomeInv, Finish
<1> QED
  BY <1>1, <1>2, <1>3, OwnSafe, PTL DEF Spec, ReadyAtHome

\* Every variable keeps its type: a Velero reports no phase but those of the API,
\* and what a label or a selector holds is an id or nothing.
THEOREM TypeCorrect == Spec => []TypeOK
<1>1. Init => TypeOK
  <2> SUFFICES ASSUME Init PROVE TypeOK
    OBVIOUS
  <2> USE DEF Init
  <2>1. edits \in 0..MaxEdits /\ faults \in 0..MaxFaults
    BY Bounds
  <2>2. /\ life \in [Veleros -> {"absent", "active", "deleting"}]
        /\ label \in [Veleros -> Ids \cup {None}]
        /\ phase \in [Veleros -> {"Unset", "Progressing", "Ready", "Terminating"}]
    OBVIOUS
  <2>3. /\ selector \in [Veleros -> Ids \cup {None}]
        /\ space \in [Ids -> {"absent", "live", "terminating"}]
        /\ server \in [Ids -> Veleros \cup {None}]
    OBVIOUS
  <2>4. /\ who \in Veleros \cup {None} /\ mode \in {"apply", "delete"}
        /\ step \in {"label", "mcp", "workload", "finish"} /\ id \in Ids \cup {None}
        /\ {failed, left, written} \subseteq BOOLEAN
    OBVIOUS
  <2> QED
    BY <2>1, <2>2, <2>3, <2>4, Zenon DEF TypeOK
<1>2. TypeOK /\ [Next]_vars => TypeOK'
  <2> SUFFICES ASSUME TypeOK, [Next]_vars PROVE TypeOK'
    OBVIOUS
  <2> USE NoneIsNoVelero, Bounds DEF TypeOK, Ids, objectVars, clusterVars, passVars, boundVars
  <2>1. ASSUME NEW v \in Veleros, Create(v)
        PROVE  TypeOK'
    BY <2>1 DEF Create
  <2>2. ASSUME NEW v \in Veleros, EditLabel(v) \/ RequestDelete(v)
        PROVE  TypeOK'
    <3>1. CASE EditLabel(v)
      <4>1. /\ label' \in [Veleros -> Ids \cup {None}] /\ written' \in BOOLEAN
            /\ edits' \in 0..MaxEdits
        BY <3>1 DEF EditLabel
      <4> QED
        BY <3>1, <4>1 DEF EditLabel
    <3>2. CASE RequestDelete(v)
      BY <3>2 DEF RequestDelete
    <3> QED
      BY <2>2, <3>1, <3>2
  <2>3. ASSUME NEW i \in Ids, Terminate(i)
        PROVE  TypeOK'
    BY <2>3 DEF Terminate
  <2>4. ASSUME NEW v \in Veleros, Begin(v)
        PROVE  TypeOK'
    BY <2>4 DEF Begin
  <2>5. CASE SetID
    BY <2>5 DEF SetID, GenerateID, EndPass, Failing
  <2>6. CASE VisitMcp
    <3>1. selector' \in [Veleros -> Ids \cup {None}]
      BY <2>6 DEF VisitMcp
    <3>2. failed' \in BOOLEAN /\ left' \in BOOLEAN
      BY <2>6 DEF VisitMcp
    <3> QED
      BY <2>6, <3>1, <3>2 DEF VisitMcp
  <2>7. CASE VisitWorkload
    <3>1. /\ space' \in [Ids -> {"absent", "live", "terminating"}]
          /\ server' \in [Ids -> Veleros \cup {None}]
      BY <2>7 DEF VisitWorkload
    <3>2. failed' \in BOOLEAN /\ left' \in BOOLEAN
      BY <2>7 DEF VisitWorkload
    <3> QED
      BY <2>7, <3>1, <3>2 DEF VisitWorkload
  <2>8. CASE Finish
    BY <2>8 DEF Finish, EndPass, Complete
  <2>9. CASE SetIDFails
    BY <2>9 DEF SetIDFails, GenerateID, EndPass, Failing, Fault
  <2>10. CASE VisitFails
    BY <2>10 DEF VisitFails, Fault
  <2>11. CASE Crash
    BY <2>11 DEF Crash, EndPass, Fault
  <2>12. CASE UNCHANGED vars
    BY <2>12 DEF vars
  <2> QED
    BY <2>1, <2>2, <2>3, <2>4, <2>5, <2>6, <2>7, <2>8, <2>9, <2>10, <2>11, <2>12
       DEF Next, Users, Visits, Errors
<1> QED
  BY <1>1, <1>2, PTL DEF Spec
=============================================================================
