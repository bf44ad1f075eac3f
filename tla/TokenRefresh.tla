---------------------------- MODULE TokenRefresh ----------------------------
(***************************************************************************)
(* The token with which the Velero server on the workload cluster talks to *)
(* the managed control plane.  A pass issues it for the service account,   *)
(* puts it into a secret and notes its expiration; later passes issue a    *)
(* new one when the old one might not live until the pass after next.  The *)
(* kubelet brings the secret into the pod some time later.                 *)
(*                                                                         *)
(* Time is discrete and counts from 1; a token is good before its expiry.  *)
(***************************************************************************)
EXTENDS Naturals

CONSTANTS
  Poll,        \* pollInterval of the ProviderConfig
  Margin,      \* the safeguard of the code, one minute
  Lifetimes,   \* the lifetimes the API server may grant when asked for an hour
  Late,        \* how long after its due time a pass is over, retries included
  Delay,       \* how long the kubelet takes to refresh a secret volume
  MaySkip,     \* passes may be refused because the spec became unavailable
  MayReplace,  \* the service account may be replaced by a new one
  Horizon      \* bound on time

ASSUME Durations == /\ Poll \in Nat /\ Margin \in Nat /\ Late \in Nat
                    /\ Delay \in Nat /\ Horizon \in Nat
                    /\ Lifetimes \subseteq Nat \ {0}
ASSUME LongestLifetime == \E l \in Lifetimes : \A m \in Lifetimes : m <= l
ASSUME Switches  == MaySkip \in BOOLEAN /\ MayReplace \in BOOLEAN

VARIABLES
  now,       \* the clock
  due,       \* when the work queue hands the Velero out again
  exp,       \* the expiration annotated on the token secret, 0 without one
  good,      \* the service account of the token in the secret still exists
  mounted,   \* expiry of the token in the pod, 0 while there is no pod
  podGood,   \* the service account of the token in the pod still exists
  syncBy,    \* when the kubelet has brought the secret into the pod
  replaced,  \* when the service account was last replaced
  refused,   \* the last pass was refused
  \* History: some pass was refused.
  skipped

tokenVars == <<exp, good>>
podVars   == <<mounted, podGood, syncBy>>
vars      == <<now, due, tokenVars, podVars, replaced, refused, skipped>>

Running == mounted > 0
InSync  == mounted = exp /\ podGood = good

\* Faulty variants of NextReconcile: without the poll interval; without the
\* safeguard.
WithoutPoll   == now
WithoutMargin == now + Poll

\* nextReconcile of the ReconcileFunc of the token secret.
NextReconcile == now + Poll + Margin

\* Faulty variants of MustRefresh: after the fact; once and for all.
AfterExpiry == exp = 0 \/ exp < now
OnlyFirst   == exp = 0

\* A new token is issued when there is no expiration to read or it lies before
\* nextReconcile.
MustRefresh == exp = 0 \/ exp < NextReconcile

Init ==
  /\ now = 1 /\ due = 1
  /\ exp = 0 /\ good = FALSE
  /\ mounted = 0 /\ podGood = FALSE /\ syncBy = 0
  /\ replaced = 0 /\ refused = FALSE /\ skipped = FALSE

-----------------------------------------------------------------------------
\* generateToken and setTokenExpirationTime.
Refresh ==
  /\ \E l \in Lifetimes : exp' = now + l
  /\ good' = TRUE
  /\ syncBy' = IF Running /\ InSync THEN now + Delay ELSE syncBy

\* A pass that gets as far as the token secret; it may also be early, after an
\* event.  The next one is due after the poll interval.
Reconcile ==
  /\ IF MustRefresh THEN Refresh ELSE UNCHANGED <<tokenVars, syncBy>>
  /\ due' = now + Poll /\ refused' = FALSE
  /\ UNCHANGED <<now, mounted, podGood, replaced, skipped>>

\* createObjectManager refuses the Velero: no object is visited, no error is
\* returned, and the next pass is due after the poll interval.
Skip ==
  /\ MaySkip
  /\ due' = now + Poll /\ refused' = TRUE /\ skipped' = TRUE
  /\ UNCHANGED <<now, tokenVars, podVars, replaced>>

\* Someone deletes the service account and a pass creates it again, before the
\* pod has started or after, once or more: the tokens of the old one are void,
\* the annotation of the secret does not tell.
ReplaceServiceAccount ==
  /\ MayReplace /\ exp > 0
  /\ good' = FALSE /\ podGood' = FALSE /\ replaced' = now
  /\ UNCHANGED <<now, due, exp, mounted, syncBy, refused, skipped>>

\* The pod starts, or the kubelet refreshes its volume.
Sync ==
  /\ exp > 0 /\ ~InSync
  /\ mounted' = exp /\ podGood' = good
  /\ UNCHANGED <<now, due, tokenVars, syncBy, replaced, refused, skipped>>

\* Time passes, but neither beyond the time by which a pass is over nor beyond
\* the time by which the kubelet has refreshed the volume.
Tick ==
  /\ now < Horizon /\ now < due + Late
  /\ Running /\ ~InSync => now < syncBy
  /\ now' = now + 1
  /\ UNCHANGED <<due, tokenVars, podVars, replaced, refused, skipped>>

Next == Reconcile \/ Skip \/ ReplaceServiceAccount \/ Sync \/ Tick

Spec == Init /\ [][Next]_vars

-----------------------------------------------------------------------------
TypeOK ==
  /\ now \in Nat /\ due \in Nat /\ exp \in Nat
  /\ mounted \in Nat /\ syncBy \in Nat /\ replaced \in Nat
  /\ good \in BOOLEAN /\ podGood \in BOOLEAN /\ refused \in BOOLEAN
  /\ skipped \in BOOLEAN

\* "to make sure that the token is always refreshed in time"
\* (serviceaccount.go:131): the token in the pod never expires there.
TokenAlwaysValid == Running => now < mounted

\* The room the timing needs: the safeguard covers the lateness of a pass and the
\* refresh of the volume, and every token outlives the poll interval and both.
\* Nothing in the code sees to that.
EnoughRoom ==
  /\ Late + Delay < Margin
  /\ \A l \in Lifetimes : Poll + Late + Delay < l

\* With enough room, and as long as no pass is refused, the token in the pod never
\* expires there, also when the API server grants less than the poll interval and
\* the safeguard together, so that every pass issues a new one.
ValidUnlessRefused == EnoughRoom /\ ~skipped => TokenAlwaysValid

\* With enough room only refused passes let the token expire, and the first pass
\* after them puts that right as soon as the kubelet has refreshed the volume.
ExpiryHeals ==
  EnoughRoom /\ Running /\ mounted <= now => refused \/ (~InSync /\ now <= syncBy)

Longest == CHOOSE l \in Lifetimes : \A m \in Lifetimes : m <= l

\* A server that was left with the token of a service account that is gone has a
\* good one before the longest lifetime since the last replacement is over,
\* because with enough room the old one would have been refreshed by then.
OutageIsBounded ==
  EnoughRoom /\ Running /\ ~podGood /\ ~skipped => now < replaced + Longest

(***************************************************************************)
(* The inductive invariant behind these, given enough room: after an       *)
(* accepted pass the token in the secret lives until the pod can have its  *)
(* successor, and while none is refused so does the one in the pod; a void *)
(* token was issued before its service account was last replaced.          *)
(***************************************************************************)
Outlives ==
  /\ now <= due + Late
  /\ Running => exp > 0
  /\ ~refused /\ exp > 0 => due + Late + Delay < exp
  /\ Running /\ ~InSync => now <= syncBy
  /\ ~skipped => ~refused /\ (Running /\ ~InSync => syncBy < mounted)

Void ==
  /\ exp <= now + Longest /\ mounted <= now + Longest
  /\ exp > 0 /\ ~good => exp <= replaced + Longest
  /\ Running /\ ~podGood => mounted <= replaced + Longest

\* Both together; only the first needs the room.
TokenInv == (EnoughRoom => Outlives) /\ Void
=============================================================================
