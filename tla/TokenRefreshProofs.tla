------------------------- MODULE TokenRefreshProofs -------------------------
(***************************************************************************)
(* When the token in the pod can be expired or void, and for how long, for *)
(* every poll interval, lifetime and delay that leave enough room.         *)
(***************************************************************************)
EXTENDS TokenRefresh, TLAPS

\* Every variable keeps its type.
THEOREM TypeCorrect == Spec => []TypeOK
<1>1. Init => TypeOK
  <2>1. Init => /\ now \in Nat /\ due \in Nat /\ exp \in Nat /\ mounted \in Nat
                /\ syncBy \in Nat /\ replaced \in Nat
    BY DEF Init
  <2>2. Init => /\ good \in BOOLEAN /\ podGood \in BOOLEAN
                /\ refused \in BOOLEAN /\ skipped \in BOOLEAN
    BY DEF Init
  <2> QED
    BY <2>1, <2>2 DEF TypeOK
<1>2. TypeOK /\ [Next]_vars => TypeOK'
  <2> SUFFICES ASSUME TypeOK, [Next]_vars PROVE TypeOK'
    OBVIOUS
  <2> USE Durations DEF TypeOK, tokenVars, podVars
  <2>1. CASE Reconcile
    <3>1. due' \in Nat /\ exp' \in Nat /\ syncBy' \in Nat
      BY <2>1 DEF Reconcile, Refresh
    <3>2. good' \in BOOLEAN /\ refused' \in BOOLEAN
      BY <2>1 DEF Reconcile, Refresh
    <3> QED
      BY <2>1, <3>1, <3>2 DEF Reconcile
  <2>2. CASE Skip
    BY <2>2 DEF Skip
  <2>3. CASE ReplaceServiceAccount
    BY <2>3 DEF ReplaceServiceAccount
  <2>4. CASE Sync
    BY <2>4 DEF Sync
  <2>5. CASE Tick
    BY <2>5 DEF Tick
  <2>6. CASE UNCHANGED vars
    BY <2>6 DEF vars
  <2> QED
    BY <2>1, <2>2, <2>3, <2>4, <2>5, <2>6 DEF Next
<1> QED
  BY <1>1, <1>2, PTL DEF Spec

\* No lifetime is longer than the longest.
LEMMA LongestIsLongest == Longest \in Nat /\ \A l \in Lifetimes : l <= Longest
<1>1. Longest \in Lifetimes /\ \A l \in Lifetimes : l <= Longest
  BY LongestLifetime DEF Longest
<1> QED
  BY <1>1, Durations

\* A token outlives the time by which the pod has its successor.
LEMMA OutlivesStep ==
  ASSUME EnoughRoom, TypeOK, Outlives, Next
  PROVE  Outlives'
<1> USE Durations DEF TypeOK, tokenVars, podVars
<1>1. CASE Reconcile /\ MustRefresh
  <2>1. PICK l \in Lifetimes : exp' = now + l
    BY <1>1 DEF Reconcile, Refresh
  <2>2. l \in Nat /\ Poll + Late + Delay < l
    BY <2>1 DEF EnoughRoom
  <2>3. /\ now' = now /\ due' = now + Poll /\ mounted' = mounted
        /\ podGood' = podGood /\ refused' = FALSE /\ skipped' = skipped
        /\ syncBy' = IF Running /\ InSync THEN now + Delay ELSE syncBy
    BY <1>1 DEF Reconcile, Refresh
  <2>4. now' <= due' + Late /\ exp' > 0 /\ due' + Late + Delay < exp'
    BY <2>1, <2>2, <2>3
  <2>5. Running' <=> Running
    BY <2>3 DEF Running
  <2>6. Running => now' <= syncBy'
    BY <2>3 DEF Outlives, Running
  <2>7. Running /\ ~skipped => syncBy' < mounted'
    <3>1. now <= due + Late /\ (~skipped => ~refused)
      BY DEF Outlives
    <3>2. CASE Running /\ InSync /\ ~skipped
      <4>1. due + Late + Delay < mounted
        BY <3>1, <3>2 DEF Outlives, Running, InSync
      <4> QED
        BY <2>3, <3>1, <3>2, <4>1
    <3>3. CASE Running /\ ~InSync /\ ~skipped
      BY <2>3, <3>3 DEF Outlives
    <3> QED
      BY <3>2, <3>3
  <2> QED
    BY <2>3, <2>4, <2>5, <2>6, <2>7 DEF Outlives
<1>2. CASE Reconcile /\ ~MustRefresh
  <2>1. exp # 0 /\ now + Poll + Margin <= exp
    BY <1>2 DEF MustRefresh, NextReconcile
  <2>2. /\ now' = now /\ due' = now + Poll /\ refused' = FALSE
        /\ UNCHANGED <<exp, good, mounted, podGood, syncBy, skipped>>
    BY <1>2 DEF Reconcile
  <2>3. due' + Late + Delay < exp'
    BY <2>1, <2>2 DEF EnoughRoom
  <2>4. (Running' <=> Running) /\ (InSync' <=> InSync)
    BY <2>2 DEF Running, InSync
  <2> QED
    BY <2>1, <2>2, <2>3, <2>4 DEF Outlives
<1>3. CASE Skip
  BY <1>3 DEF Skip, Outlives, Running, InSync
<1>4. CASE ReplaceServiceAccount
  BY <1>4 DEF ReplaceServiceAccount, Outlives, Running, InSync
<1>5. CASE Sync
  BY <1>5 DEF Sync, Outlives, Running, InSync
<1>6. CASE Tick
  BY <1>6 DEF Tick, Outlives, Running, InSync
<1> QED
  BY <1>1, <1>2, <1>3, <1>4, <1>5, <1>6 DEF Next

\* A void token was issued before its service account was replaced, so it is
\* soon over.
LEMMA VoidStep ==
  ASSUME TypeOK, Void, Next
  PROVE  Void'
<1> USE Durations, LongestIsLongest DEF TypeOK, Void, Running, tokenVars, podVars
<1>1. CASE Reconcile /\ MustRefresh
  <2>1. PICK l \in Lifetimes : exp' = now + l
    BY <1>1 DEF Reconcile, Refresh
  <2>2. l \in Nat /\ l <= Longest
    BY <2>1
  <2>3. good' = TRUE /\ UNCHANGED <<now, mounted, podGood, replaced>>
    BY <1>1 DEF Reconcile, Refresh
  <2> QED
    BY <2>1, <2>2, <2>3
<1>2. CASE Reconcile /\ ~MustRefresh
  BY <1>2 DEF Reconcile
<1>3. CASE Skip
  BY <1>3 DEF Skip
<1>4. CASE ReplaceServiceAccount
  BY <1>4 DEF ReplaceServiceAccount
<1>5. CASE Sync
  BY <1>5 DEF Sync
<1>6. CASE Tick
  BY <1>6 DEF Tick
<1> QED
  BY <1>1, <1>2, <1>3, <1>4, <1>5, <1>6 DEF Next

\* The inductive invariant.
THEOREM TokenSafety == Spec => []TokenInv
<1>1. Init => TokenInv
  BY Durations, LongestIsLongest DEF Init, TokenInv, Outlives, Void, Running
<1>2. TypeOK /\ TokenInv /\ [Next]_vars => TokenInv'
  <2>1. ASSUME TypeOK, TokenInv, UNCHANGED vars PROVE TokenInv'
    BY <2>1
       DEF vars, tokenVars, podVars, TokenInv, Outlives, Void, Running, InSync
  <2>2. ASSUME TypeOK, TokenInv, Next PROVE TokenInv'
    <3>1. EnoughRoom => Outlives'
      BY <2>2, OutlivesStep DEF TokenInv
    <3>2. Void'
      BY <2>2, VoidStep DEF TokenInv
    <3> QED
      BY <3>1, <3>2 DEF TokenInv, EnoughRoom
  <2> QED
    BY <2>1, <2>2
<1> QED
  BY <1>1, <1>2, TypeCorrect, PTL DEF Spec

\* The server never holds an expired token while no pass is refused, if there is
\* enough room: in sync it has the token of the secret, which has not expired, and
\* otherwise one that lives beyond syncBy.
THEOREM TokenValid == Spec => []ValidUnlessRefused
<1>1. TypeOK /\ TokenInv => ValidUnlessRefused
  <2> SUFFICES ASSUME TypeOK, TokenInv, EnoughRoom, ~skipped, Running PROVE now < mounted
    BY DEF ValidUnlessRefused, TokenAlwaysValid
  <2> USE Durations DEF TypeOK, TokenInv, Outlives
  <2>1. CASE InSync
    BY <2>1 DEF InSync
  <2>2. CASE ~InSync
    BY <2>2
  <2> QED
    BY <2>1, <2>2
<1> QED
  BY <1>1, TypeCorrect, TokenSafety, PTL

\* An expired token is gone when the first accepted pass after the refused ones has
\* had its volume refreshed, if there is enough room.
THEOREM TokenHeals == Spec => []ExpiryHeals
<1>1. TypeOK /\ TokenInv => ExpiryHeals
  <2> SUFFICES ASSUME TypeOK, TokenInv, EnoughRoom, Running, mounted <= now, ~refused
               PROVE  ~InSync /\ now <= syncBy
    BY DEF ExpiryHeals
  <2> USE Durations DEF TypeOK, TokenInv, Outlives
  <2>1. ASSUME InSync PROVE FALSE
    BY <2>1 DEF InSync
  <2>2. now <= syncBy
    BY <2>1
  <2> QED
    BY <2>1, <2>2
<1> QED
  BY <1>1, TypeCorrect, TokenSafety, PTL

\* The outage after a replacement of the service account ends within the longest
\* lifetime, if there is enough room.
THEOREM OutageBound == Spec => []OutageIsBounded
<1>1. TypeOK /\ TokenInv /\ ValidUnlessRefused => OutageIsBounded
  <2> SUFFICES ASSUME TypeOK, TokenInv, ValidUnlessRefused, EnoughRoom, Running, ~podGood,
                      ~skipped
               PROVE  now < replaced + Longest
    BY DEF OutageIsBounded
  <2>1. now < mounted
    BY DEF ValidUnlessRefused, TokenAlwaysValid
  <2>2. mounted <= replaced + Longest
    BY DEF TokenInv, Void
  <2> QED
    BY <2>1, <2>2, LongestIsLongest DEF TypeOK
<1> QED
  BY <1>1, TypeCorrect, TokenSafety, TokenValid, PTL
=============================================================================
