-------------------------- MODULE VeleroLifecycle --------------------------
(***************************************************************************)
(* What the service provider promises of one Velero, whatever its passes   *)
(* look like: objects appear only while a pass provides them, a pass may   *)
(* begin only for an accepted Velero that nobody wants to delete, the      *)
(* Velero goes only when nothing but user data is left or when it was      *)
(* refused, and user data is lost only through others.                     *)
(***************************************************************************)
CONSTANTS
  Objects,   \* the objects a Velero can own
  UserData,  \* those that hold or define data of the end user
  Foreign    \* those that somebody else may delete

VARIABLES
  life,      \* "absent", "new", "held" or "ending"
  owned,     \* the objects that exist
  open,      \* objects are being provided
  accepted   \* the request can be provided

vars == <<life, owned, open, accepted>>

Init == life = "absent" /\ owned = {} /\ open = FALSE /\ accepted \in BOOLEAN

-----------------------------------------------------------------------------
Create ==
  /\ life = "absent" /\ ~open
  /\ life' = "new" /\ accepted' \in BOOLEAN
  /\ UNCHANGED <<owned, open>>

\* Nothing was provided yet, nothing has to go.
Withdraw == life = "new" /\ life' = "absent" /\ UNCHANGED <<owned, open, accepted>>

Hold == life = "new" /\ life' = "held" /\ UNCHANGED <<owned, open, accepted>>

End == life = "held" /\ life' = "ending" /\ UNCHANGED <<owned, open, accepted>>

Change == accepted' \in BOOLEAN /\ UNCHANGED <<life, owned, open>>

Open ==
  /\ life = "held" /\ accepted
  /\ ~open /\ open' = TRUE
  /\ UNCHANGED <<life, owned, accepted>>

Provide ==
  /\ open
  /\ \E o \in Objects : owned' = owned \cup {o}
  /\ UNCHANGED <<life, open, accepted>>

Close == open /\ open' = FALSE /\ UNCHANGED <<life, owned, accepted>>

\* Objects go one by one, as their clusters please.
Lose ==
  /\ \E o \in owned :
       /\ o \in UserData => o \in Foreign
       /\ owned' = owned \ {o}
  /\ UNCHANGED <<life, open, accepted>>

Release ==
  /\ life = "ending" /\ ~open /\ owned \subseteq UserData
  /\ life' = "absent"
  /\ UNCHANGED <<owned, open, accepted>>

\* What a Velero owns when it is refused is left to nobody.
Abandon ==
  /\ life = "ending" /\ ~open /\ ~accepted
  /\ life' = "absent"
  /\ UNCHANGED <<owned, open, accepted>>

Next ==
  \/ Create \/ Withdraw \/ Hold \/ End \/ Change
  \/ Open \/ Provide \/ Close \/ Lose
  \/ Release \/ Abandon

Spec == Init /\ [][Next]_vars
=============================================================================
