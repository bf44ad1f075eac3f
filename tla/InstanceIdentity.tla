-------------------------- MODULE InstanceIdentity --------------------------
(***************************************************************************)
(* Where a Velero lives.  Every Velero has a managed control plane of its  *)
(* own, but the servers of all of them share a workload cluster, each in   *)
(* the namespace named after the instance id of its Velero.  The id is a   *)
(* label: the first pass sets it to a hash of the namespace and the name   *)
(* of the Velero, and anybody who may edit the Velero can remove it, write *)
(* another one, or bring one along in a copied manifest.                   *)
(*                                                                         *)
(* A pass is reduced to the objects the id matters for: the deployment on  *)
(* the MCP, whose selector the API server does not let change, and the     *)
(* namespace on the workload cluster with the server in it.  One worker    *)
(* runs the passes of all Veleros, one after the other.                    *)
(***************************************************************************)
EXTENDS Naturals

CONSTANTS
  Veleros,    \* all of them on one workload cluster
  MaxEdits,   \* bound on the edits of labels
  MaxFaults,  \* bound on failed calls and crashes
  None        \* no Velero, no label

ASSUME Bounds         == {MaxEdits, MaxFaults} \subseteq Nat
ASSUME NoneIsNoVelero == None \notin Veleros

\* The hash tells Veleros apart, so a Velero can stand for its own id.
Ids == Veleros

VARIABLES
  \* The onboarding cluster.
  life,      \* of each Velero: "absent", "active" or "deleting"
  label,     \* its instance id, None without one
  phase,     \* status.phase
  \* The control planes and the workload cluster.
  selector,  \* id in the selector of the MCP deployment, None without one
  space,     \* of each id, its namespace: "absent", "live" or "terminating"
  server,    \* whose server the deployment in the namespace is
  \* The pass in progress.
  who,       \* the Velero, None between passes
  mode,      \* "apply" or "delete"
  step,      \* "label", "mcp", "workload" or "finish"
  id,        \* instance.GetID of the object in memory
  failed,    \* some result carries an error
  left,      \* an object was still there when its deletion was requested
  \* History: somebody wrote an id that is not the Velero's own.
  written,
  \* Bounds.
  edits, faults

objectVars  == <<life, label, phase>>
clusterVars == <<selector, space, server>>
passVars    == <<who, mode, step, id, failed, left>>
boundVars   == <<edits, faults>>
vars        == <<objectVars, clusterVars, passVars, written, boundVars>>

Fault == faults < MaxFaults /\ faults' = faults + 1 /\ UNCHANGED edits

\* Faulty variants of GenerateID: a hash of the name alone, where all Veleros
\* have the same name; an id that depends on when it is asked for.
NameOnly(v)  == CHOOSE w \in Veleros : TRUE
PerAttempt(v) == IF edits = 0 THEN v ELSE CHOOSE w \in Veleros : w # v

\* GenerateID: the same for every attempt, another for every Velero.
GenerateID(v) == v

Init ==
  /\ life = [v \in Veleros |-> "absent"] /\ label = [v \in Veleros |-> None]
  /\ phase = [v \in Veleros |-> "Unset"]
  /\ selector = [v \in Veleros |-> None]
  /\ space = [i \in Ids |-> "absent"] /\ server = [i \in Ids |-> None]
  /\ who = None /\ mode = "apply" /\ step = "finish" /\ id = None
  /\ failed = FALSE /\ left = FALSE /\ written = FALSE
  /\ edits = 0 /\ faults = 0

-----------------------------------------------------------------------------
(***************************************************************************)
(* Users.                                                                  *)
(***************************************************************************)

\* A manifest without an id, or one copied with the id it had elsewhere.
Create(v) ==
  /\ life[v] = "absent" /\ who # v
  /\ \E l \in Ids \cup {None} :
       /\ label' = [label EXCEPT ![v] = l]
       /\ written' = (written \/ l \notin {None, v})
       /\ IF l = None THEN UNCHANGED edits ELSE edits < MaxEdits /\ edits' = edits + 1
  /\ life' = [life EXCEPT ![v] = "active"]
  /\ phase' = [phase EXCEPT ![v] = "Unset"]
  /\ UNCHANGED <<clusterVars, passVars, faults>>

EditLabel(v) ==
  /\ life[v] # "absent" /\ edits < MaxEdits
  /\ \E l \in (Ids \cup {None}) \ {label[v]} :
       /\ label' = [label EXCEPT ![v] = l]
       /\ written' = (written \/ l \notin {None, v})
  /\ edits' = edits + 1
  /\ UNCHANGED <<life, phase, clusterVars, passVars, faults>>

RequestDelete(v) ==
  /\ life[v] = "active" /\ life' = [life EXCEPT ![v] = "deleting"]
  /\ UNCHANGED <<label, phase, clusterVars, passVars, written, boundVars>>

\* A namespace goes with all that is in it.
Terminate(i) ==
  /\ space[i] = "terminating"
  /\ space' = [space EXCEPT ![i] = "absent"]
  /\ server' = [server EXCEPT ![i] = None]
  /\ UNCHANGED <<selector, objectVars, passVars, written, boundVars>>

-----------------------------------------------------------------------------
(***************************************************************************)
(* The passes.                                                             *)
(***************************************************************************)

Begin(v) ==
  /\ who = None /\ life[v] # "absent"
  /\ who' = v /\ mode' = IF life[v] = "active" THEN "apply" ELSE "delete"
  /\ id' = label[v] /\ step' = IF label[v] = None THEN "label" ELSE "mcp"
  /\ failed' = FALSE /\ left' = FALSE
  /\ UNCHANGED <<objectVars, clusterVars, written, boundVars>>

\* Faulty variant of Failing: a phase the API does not have.
UnknownPhase == "Error"

\* The status a pass ends with when it ends with an error.
Failing == IF mode = "apply" THEN "Progressing" ELSE "Terminating"

\* Faulty variant of EndPass: the results are kept and reported again.
KeepResults == step' = "finish" /\ UNCHANGED <<who, id, mode, failed, left>>

EndPass == who' = None /\ id' = None /\ step' = "finish" /\ UNCHANGED <<mode, failed, left>>

\* ensureInstanceID writes the id; if the Velero was edited since the pass read
\* it, the update is refused and the pass ends.
SetID ==
  /\ who # None /\ step = "label"
  /\ IF label[who] = None
       THEN /\ label' = [label EXCEPT ![who] = GenerateID(who)]
            /\ id' = GenerateID(who) /\ step' = "mcp"
            /\ UNCHANGED <<who, mode, failed, left, phase>>
       ELSE /\ EndPass /\ phase' = [phase EXCEPT ![who] = Failing]
            /\ UNCHANGED label
  /\ UNCHANGED <<life, clusterVars, written, boundVars>>

\* The update fails, with or without its effect.
SetIDFails ==
  /\ who # None /\ step = "label" /\ Fault
  /\ \/ UNCHANGED label
     \/ label[who] = None /\ label' = [label EXCEPT ![who] = GenerateID(who)]
  /\ EndPass /\ phase' = [phase EXCEPT ![who] = Failing]
  /\ UNCHANGED <<life, clusterVars, written>>

\* Faulty variants of Refused: selectors can change; objects are only created.
NeverRefused == FALSE
OnlyCreate   == selector[who] # None

\* The selector of a deployment is immutable.
Refused == selector[who] \notin {None, id}

\* The deployment on the MCP has a fixed name, whatever the id.
VisitMcp ==
  /\ who # None /\ step = "mcp" /\ step' = "workload"
  /\ IF mode = "apply"
       THEN /\ selector' = IF selector[who] = None THEN [selector EXCEPT ![who] = id]
                                                   ELSE selector
            /\ failed' = (failed \/ Refused) /\ UNCHANGED left
       ELSE /\ selector' = [selector EXCEPT ![who] = None]
            /\ left' = (left \/ selector[who] # None) /\ UNCHANGED failed
  /\ UNCHANGED <<who, mode, id, space, server, objectVars, written, boundVars>>

\* The namespace of the id, with the server in it.
VisitWorkload ==
  /\ who # None /\ step = "workload" /\ step' = "finish"
  /\ IF mode = "apply"
       THEN /\ failed' = (failed \/ space[id] = "terminating") /\ UNCHANGED left
            /\ IF space[id] = "terminating"
                 THEN UNCHANGED <<space, server>>
                 ELSE /\ space'  = [space EXCEPT ![id] = "live"]
                      /\ server' = [server EXCEPT ![id] = who]
       ELSE /\ left' = (left \/ space[id] # "absent") /\ UNCHANGED <<failed, server>>
            /\ space' = IF space[id] = "absent" THEN space
                                                ELSE [space EXCEPT ![id] = "terminating"]
  /\ UNCHANGED <<who, mode, id, selector, objectVars, written, boundVars>>

\* A call fails without its effect, and the pass goes on.
VisitFails ==
  /\ who # None /\ Fault /\ failed' = TRUE
  /\ \/ step = "mcp" /\ step' = "workload"
     \/ step = "workload" /\ step' = "finish"
  /\ UNCHANGED <<who, mode, id, left, objectVars, clusterVars, written>>

\* Every object was found deleted.
Complete == ~failed /\ ~left

Finish ==
  /\ who # None /\ step = "finish" /\ EndPass
  /\ IF mode = "apply"
       THEN /\ phase' = [phase EXCEPT ![who] = IF failed THEN "Progressing" ELSE "Ready"]
            /\ UNCHANGED life
       ELSE /\ life' = IF Complete THEN [life EXCEPT ![who] = "absent"] ELSE life
            /\ phase' = [phase EXCEPT ![who] = "Terminating"]
  /\ UNCHANGED <<label, clusterVars, written, boundVars>>

Crash ==
  /\ who # None /\ Fault /\ EndPass
  /\ UNCHANGED <<objectVars, clusterVars, written>>

Users == \E v \in Veleros : Create(v) \/ EditLabel(v) \/ RequestDelete(v)
Visits == SetID \/ VisitMcp \/ VisitWorkload \/ Finish
Errors == SetIDFails \/ VisitFails \/ Crash

Next == \/ Users \/ Visits \/ Errors
        \/ \E v \in Veleros : Begin(v)
        \/ \E i \in Ids : Terminate(i)

\* The work queue serves every Velero again and again: the requeue delays leave
\* no Velero behind another.
Fairness ==
  /\ WF_vars(Visits)
  /\ \A v \in Veleros : SF_vars(Begin(v))
  /\ \A i \in Ids : WF_vars(Terminate(i))

Spec == Init /\ [][Next]_vars /\ Fairness

-----------------------------------------------------------------------------
TypeOK ==
  /\ life \in [Veleros -> {"absent", "active", "deleting"}]
  /\ label \in [Veleros -> Ids \cup {None}]
  /\ phase \in [Veleros -> {"Unset", "Progressing", "Ready", "Terminating"}]
  /\ selector \in [Veleros -> Ids \cup {None}]
  /\ space \in [Ids -> {"absent", "live", "terminating"}]
  /\ server \in [Ids -> Veleros \cup {None}]
  /\ who \in Veleros \cup {None} /\ mode \in {"apply", "delete"}
  /\ step \in {"label", "mcp", "workload", "finish"} /\ id \in Ids \cup {None}
  /\ {failed, left, written} \subseteq BOOLEAN
  /\ edits \in 0..MaxEdits /\ faults \in 0..MaxFaults

\* As long as nobody writes the id of another Velero, also when ids are removed,
\* every server is in a namespace that is its Velero's alone.
Isolated ==
  ~written => \A v \in Veleros, i \in Ids :
                server[i] = v => \A w \in Veleros \ {v} : label[w] # i

\* Nor does a Velero leave a server or a deployment behind when it goes: ids that
\* are lost and set again lead back to the same namespace.
NothingLeftBehind ==
  ~written => \A v \in Veleros :
                life[v] = "absent" => selector[v] = None /\ \A i \in Ids : server[i] # v

\* Why: without a written id everything of a Velero goes by its own.
OwnInv ==
  ~written =>
    /\ \A v \in Veleros : label[v] \in {None, v} /\ selector[v] \in {None, v}
    /\ \A i \in Ids : server[i] \in {None, i} /\ (space[i] = "absent" => server[i] = None)
    /\ who # None =>
         /\ life[who] # "absent"
         /\ step \in {"mcp", "workload", "finish"} => id = who
         /\ mode = "delete" /\ step \in {"workload", "finish"} /\ ~failed /\ ~left
              => selector[who] = None
         /\ mode = "delete" /\ step = "finish" /\ ~failed /\ ~left => server[who] = None

\* Whatever is written: a Velero is only reported Ready when its deployment on
\* the MCP and its server go by the same id, and the server is its own.
ReadyAtHome ==
  [][Finish /\ mode = "apply" /\ phase'[who] = "Ready"
       => selector[who] = id /\ server[id] = who /\ space[id] = "live"]_vars

\* Another Velero uses the id of v, or the one v gets when it has none.
Claimed(v) ==
  \E w \in Veleros \ {v} : life[w] # "absent" /\ label[w] \in {label[v], v}

\* A deletion ends, whatever was written into the label meanwhile and whatever
\* of other Veleros it takes along, unless others keep using its id.
DeletionEnds == \A v \in Veleros : ~<>[](life[v] = "deleting" /\ ~Claimed(v))

\* A Velero that lost its id, or had another one written over it, comes back as
\* soon as the label is removed or restored, if its MCP deployment is of its own
\* id and no other Velero uses that.
IdentityHeals ==
  \A v \in Veleros :
    <>[](/\ life[v] = "active" /\ label[v] \in {None, v} /\ ~Claimed(v)
         /\ selector[v] \in {None, v})
      => <>[](phase[v] = "Ready" /\ label[v] = v /\ server[v] = v)
=============================================================================
