----------------------- MODULE ImageResolutionProofs -----------------------
(***************************************************************************)
(* What is accepted runs as requested and what is refused is refused for a *)
(* reason, and the pod of every accepted Velero has the token, once, for   *)
(* any plugins, versions, locations and ProviderConfigs.                   *)
(***************************************************************************)
EXTENDS ImageResolution, SequenceTheorems, NaturalsInduction, WellFoundedInduction, TLAPS

-----------------------------------------------------------------------------
(***************************************************************************)
(* PodSpec: injecting the token gives every container what a client needs, *)
(* and injecting it twice is injecting it once, for every pod, whatever    *)
(* volumes, mounts and variables its containers have.                      *)
(***************************************************************************)

\* The first of some positions is one of them and none is before it.
LEMMA FirstIsFirst ==
  ASSUME NEW P, P \subseteq Nat, P # {}
  PROVE  First(P) \in P /\ \A j \in P : First(P) <= j
<1>1. \E i \in P : \A j \in P : ~(<<j, i>> \in OpToRel(<, Nat))
  BY WFMin, NatLessThanWellFounded, Zenon
<1>2. PICK i \in P : \A j \in P : ~(<<j, i>> \in OpToRel(<, Nat))
  BY <1>1
<1>3. ASSUME NEW j \in P PROVE i <= j
  <2>1. i \in Nat /\ j \in Nat
    BY <1>2, <1>3
  <2>2. ~(<<j, i>> \in OpToRel(<, Nat))
    BY <1>2, <1>3
  <2>3. ~(j < i)
    BY <2>1, <2>2, Zenon DEF OpToRel
  <2>4. \A a, b \in Nat : ~(b < a) => a <= b
    OBVIOUS
  <2> QED
    BY <2>1, <2>3, <2>4, Zenon
<1> QED
  BY <1>2, <1>3, Zenon DEF First

\* The first entry of the name of e is e.
Holds(entries, e) ==
  /\ Named(entries, e.name) # {}
  /\ entries[First(Named(entries, e.name))] = e

\* Where an entry already is, it is replaced by itself.
LEMMA HeldStays ==
  ASSUME NEW S, NEW s \in Seq(S), NEW e, Holds(s, e)
  PROVE  AddOrReplace(s, e) = s
BY DEF Holds, AddOrReplace

\* An entry is there once it was added or has replaced another, and the entries
\* of other names stay.
LEMMA Added ==
  ASSUME NEW S, NEW s \in Seq(S), NEW e \in S
  PROVE  /\ AddOrReplace(s, e) \in Seq(S)
         /\ Holds(AddOrReplace(s, e), e)
         /\ \A h : h.name # e.name /\ Holds(s, h) => Holds(AddOrReplace(s, e), h)
<1> DEFINE t == AddOrReplace(s, e)
           k == First(Named(s, e.name))
<1>1. CASE Named(s, e.name) = {}
  <2>1. t = Append(s, e) /\ t \in Seq(S) /\ Len(t) = Len(s) + 1
    BY <1>1 DEF AddOrReplace
  <2>2. Named(t, e.name) = {Len(s) + 1}
    BY <1>1, <2>1 DEF Named
  <2>3. First(Named(t, e.name)) = Len(s) + 1
    BY <2>2, FirstIsFirst, SMTT(30)
  <2>4. t[Len(s) + 1] = e /\ Named(t, e.name) # {}
    BY <2>1, <2>2
  <2>5. ASSUME NEW h, h.name # e.name, Holds(s, h)
        PROVE  Holds(t, h)
    <3>1. Named(t, h.name) = Named(s, h.name)
      BY <2>1, <2>5 DEF Named
    <3>2. Named(s, h.name) \subseteq Nat /\ Named(s, h.name) \subseteq 1..Len(s)
      BY DEF Named
    <3>3. First(Named(s, h.name)) \in 1..Len(s)
      BY <2>5, <3>2, FirstIsFirst DEF Holds
    <3> QED
      BY <2>1, <2>5, <3>1, <3>3 DEF Holds
  <2>6. Holds(t, e)
    BY <2>3, <2>4, Zenon DEF Holds
  <2> QED
    BY <2>1, <2>5, <2>6
<1>2. CASE Named(s, e.name) # {}
  <2>1. Named(s, e.name) \subseteq Nat
    BY DEF Named
  <2>2. k \in Named(s, e.name)
    BY <1>2, <2>1, FirstIsFirst
  <2>3. k \in 1..Len(s) /\ s[k].name = e.name
    BY <2>2 DEF Named
  <2>4. t = [s EXCEPT ![k] = e] /\ t \in Seq(S) /\ DOMAIN t = DOMAIN s
    BY <1>2, <2>3 DEF AddOrReplace
  <2>5. \A name : Named(t, name) = Named(s, name)
    BY <2>3, <2>4 DEF Named
  <2>6. Holds(t, e)
    <3>1. t[k] = e
      BY <2>3, <2>4
    <3>2. Named(t, e.name) = Named(s, e.name)
      BY <2>5
    <3> HIDE DEF t
    <3> QED
      BY <1>2, <3>1, <3>2, Zenon DEF Holds
  <2>7. ASSUME NEW h, h.name # e.name, Holds(s, h)
        PROVE  Holds(t, h)
    <3>1. Named(s, h.name) \subseteq Nat
      BY DEF Named
    <3>2. First(Named(s, h.name)) \in Named(s, h.name)
      BY <2>7, <3>1, FirstIsFirst DEF Holds
    <3>3. First(Named(s, h.name)) # k /\ First(Named(s, h.name)) \in DOMAIN s
      BY <2>3, <2>7, <3>2 DEF Named
    <3> QED
      BY <2>4, <2>5, <2>7, <3>3 DEF Holds
  <2> QED
    BY <2>4, <2>6, <2>7
<1> QED
  BY <1>1, <1>2

\* The pods and containers whose entries are in S.
Containers(S, I) == [image : I, mounts : Seq(S), env : Seq(S)]
Pods(S, I) ==
  [volumes : Seq(S), containers : Seq(Containers(S, I)), inits : Seq(Containers(S, I))]

\* The entries the injection brings.
Injected(url) == {TokenVolume, TokenMount, HostEnv(url), PortEnv(url)}

\* A container that has the mount and the two variables keeps them as they are.
LEMMA ContainerTwice ==
  ASSUME NEW S, NEW I, NEW url, Injected(url) \subseteq S,
         NEW c \in Containers(S, I)
  PROVE  ApplyToContainer(ApplyToContainer(c, url), url) = ApplyToContainer(c, url)
<1> DEFINE m == AddOrReplace(c.mounts, TokenMount)
           h == AddOrReplace(c.env, HostEnv(url))
           p == AddOrReplace(h, PortEnv(url))
<1>1. c.mounts \in Seq(S) /\ c.env \in Seq(S)
  BY DEF Containers
<1>2. TokenMount \in S /\ HostEnv(url) \in S /\ PortEnv(url) \in S
  BY DEF Injected
<1>3. HostEnv(url).name # PortEnv(url).name
  BY DEF HostEnv, PortEnv, Entry
<1>4. m \in Seq(S) /\ Holds(m, TokenMount)
  BY <1>1, <1>2, Added
<1>5. h \in Seq(S) /\ Holds(h, HostEnv(url))
  BY <1>1, <1>2, Added
<1>6. p \in Seq(S) /\ Holds(p, PortEnv(url)) /\ Holds(p, HostEnv(url))
  BY <1>2, <1>3, <1>5, Added
<1>7. AddOrReplace(m, TokenMount) = m
  BY <1>4, HeldStays
<1>8. AddOrReplace(p, HostEnv(url)) = p /\ AddOrReplace(p, PortEnv(url)) = p
  BY <1>6, HeldStays
<1>9. ApplyToContainer(c, url) = [c EXCEPT !.mounts = m, !.env = p]
  BY DEF ApplyToContainer
<1>10. ApplyToContainer(c, url) = [image |-> c.image, mounts |-> m, env |-> p]
  BY <1>9 DEF Containers
<1> HIDE DEF m, h, p
<1> QED
  BY <1>7, <1>8, <1>10 DEF ApplyToContainer

\* InjectedOnce for every pod, not only those of the deployment: what the
\* TokenApplyFunc has put into a pod, a second call leaves as it is.
THEOREM InjectionIsIdempotent ==
  ASSUME NEW S, NEW I, NEW url, NEW ps \in Pods(S, I)
  PROVE  TokenFunc(TokenFunc(ps, url), url) = TokenFunc(ps, url)
<1> DEFINE T == S \cup Injected(url)
           v == AddOrReplace(ps.volumes, TokenVolume)
           c == [i \in DOMAIN ps.containers |-> ApplyToContainer(ps.containers[i], url)]
           n == [i \in DOMAIN ps.inits |-> ApplyToContainer(ps.inits[i], url)]
<1>1. ps.volumes \in Seq(T) /\ TokenVolume \in T /\ Injected(url) \subseteq T
  BY DEF Pods, Injected
<1>2. AddOrReplace(v, TokenVolume) = v
  BY <1>1, Added, HeldStays
<1>3. Containers(S, I) \subseteq Containers(T, I)
  BY DEF Containers
<1>4. ps.containers \in Seq(Containers(S, I)) /\ ps.inits \in Seq(Containers(S, I))
  BY DEF Pods
<1>5. /\ \A i \in DOMAIN ps.containers : ps.containers[i] \in Containers(T, I)
      /\ \A i \in DOMAIN ps.inits : ps.inits[i] \in Containers(T, I)
  <2> HIDE DEF Containers, T
  <2> QED
    BY <1>3, <1>4
<1>6. /\ [i \in DOMAIN c |-> ApplyToContainer(c[i], url)] = c
      /\ [i \in DOMAIN n |-> ApplyToContainer(n[i], url)] = n
  <2>1. \A d \in Containers(T, I) :
          ApplyToContainer(ApplyToContainer(d, url), url) = ApplyToContainer(d, url)
    <3> HIDE DEF T
    <3> QED
      BY <1>1, ContainerTwice, SMTT(30)
  <2> HIDE DEF T
  <2>2. \A i \in DOMAIN c : ApplyToContainer(c[i], url) = c[i]
    BY <1>5, <2>1
  <2>3. \A i \in DOMAIN n : ApplyToContainer(n[i], url) = n[i]
    BY <1>5, <2>1
  <2>4. c = [i \in DOMAIN c |-> c[i]] /\ n = [i \in DOMAIN n |-> n[i]]
    OBVIOUS
  <2> HIDE DEF c, n
  <2> QED
    BY <2>2, <2>3, <2>4
<1>7. TokenFunc(ps, url) = [volumes |-> v, containers |-> c, inits |-> n]
  BY DEF TokenFunc
<1> HIDE DEF v, c, n
<1>8. TokenFunc([volumes |-> v, containers |-> c, inits |-> n], url)
        = [volumes |-> v, containers |-> c, inits |-> n]
  BY <1>2, <1>6 DEF TokenFunc
<1> QED
  BY <1>7, <1>8, Zenon

\* Adding or replacing an entry brings its name and no other, keeps different
\* names different, and leaves every other entry what it was.
LEMMA AddedNames ==
  ASSUME NEW S, NEW s \in Seq(S), NEW e \in S
  PROVE  LET t == AddOrReplace(s, e)
         IN  /\ \A n : Named(t, n) # {} <=> Named(s, n) # {} \/ n = e.name
             /\ Distinct(s) => Distinct(t)
             /\ \A i \in DOMAIN t : t[i] = e \/ \E j \in DOMAIN s : s[j] = t[i]
<1> DEFINE t == AddOrReplace(s, e)
           k == First(Named(s, e.name))
<1>1. CASE Named(s, e.name) = {}
  <2>1. /\ t = Append(s, e) /\ DOMAIN t = 1..(Len(s) + 1) /\ DOMAIN s = 1..Len(s)
        /\ Len(s) \in Nat
    BY <1>1 DEF AddOrReplace
  <2>2. t[Len(s) + 1] = e /\ \A i \in DOMAIN s : t[i] = s[i]
    BY <2>1
  <2>3. \A i \in DOMAIN t : i \in DOMAIN s \/ i = Len(s) + 1
    BY <2>1
  <2>4. DOMAIN s \subseteq DOMAIN t /\ Len(s) + 1 \in DOMAIN t
    BY <2>1
  <2>5. \A i \in DOMAIN s : s[i].name # e.name
    BY <1>1 DEF Named
  <2> HIDE DEF t
  <2>6. \A n : Named(t, n) # {} <=> Named(s, n) # {} \/ n = e.name
    BY <2>2, <2>3, <2>4 DEF Named
  <2>7. Distinct(s) => Distinct(t)
    BY <2>2, <2>3, <2>5 DEF Distinct
  <2>8. \A i \in DOMAIN t : t[i] = e \/ \E j \in DOMAIN s : s[j] = t[i]
    BY <2>2, <2>3
  <2> QED
    BY <2>6, <2>7, <2>8 DEF t
<1>2. CASE Named(s, e.name) # {}
  <2>1. Named(s, e.name) \subseteq Nat
    BY DEF Named
  <2>2. k \in Named(s, e.name)
    BY <1>2, <2>1, FirstIsFirst
  <2>3. k \in DOMAIN s /\ s[k].name = e.name
    BY <2>2 DEF Named
  <2>4. t = [s EXCEPT ![k] = e]
    BY <1>2 DEF AddOrReplace
  <2>5. /\ DOMAIN t = DOMAIN s /\ t[k] = e
        /\ \A i \in DOMAIN s : i # k => t[i] = s[i]
    BY <2>3, <2>4
  <2> HIDE DEF t, k
  <2>6. \A i \in DOMAIN s : t[i].name = s[i].name
    BY <2>3, <2>5
  <2>7. \A n : Named(t, n) # {} <=> Named(s, n) # {} \/ n = e.name
    BY <1>2, <2>5, <2>6 DEF Named
  <2>8. Distinct(s) => Distinct(t)
    BY <2>5, <2>6 DEF Distinct
  <2>9. \A i \in DOMAIN t : t[i] = e \/ \E j \in DOMAIN s : s[j] = t[i]
    BY <2>5
  <2> QED
    BY <2>7, <2>8, <2>9 DEF t
<1> QED
  BY <1>1, <1>2

\* A container keeps what it mounts and gets the mount of the token and the two
\* variables, each once.
LEMMA ContainerComplete ==
  ASSUME NEW S, NEW I, NEW url, Injected(url) \subseteq S,
         NEW c \in Containers(S, I), Distinct(c.mounts), Distinct(c.env)
  PROVE  LET d == ApplyToContainer(c, url)
         IN  /\ Distinct(d.mounts) /\ Distinct(d.env)
             /\ \A i \in DOMAIN d.mounts :
                  d.mounts[i] = TokenMount \/ \E j \in DOMAIN c.mounts : c.mounts[j] = d.mounts[i]
             /\ Authenticates(d, GetHost(url), GetPort(url))
<1> DEFINE m == AddOrReplace(c.mounts, TokenMount)
           h == AddOrReplace(c.env, HostEnv(url))
           p == AddOrReplace(h, PortEnv(url))
<1>1. c.mounts \in Seq(S) /\ c.env \in Seq(S)
  BY DEF Containers
<1>2. TokenMount \in S /\ HostEnv(url) \in S /\ PortEnv(url) \in S
  BY DEF Injected
<1>3. HostEnv(url).name # PortEnv(url).name
  BY DEF HostEnv, PortEnv, Entry
<1>4. Holds(m, TokenMount) /\ Distinct(m)
  BY <1>1, <1>2, Added, AddedNames
<1>5. \A i \in DOMAIN m : m[i] = TokenMount \/ \E j \in DOMAIN c.mounts : c.mounts[j] = m[i]
  BY <1>1, <1>2, AddedNames
<1>6. h \in Seq(S) /\ Holds(h, HostEnv(url)) /\ Distinct(h)
  BY <1>1, <1>2, Added, AddedNames
<1>7. Holds(p, PortEnv(url)) /\ Holds(p, HostEnv(url)) /\ Distinct(p) /\ p \in Seq(S)
  BY <1>2, <1>3, <1>6, Added, AddedNames
<1>8. m \in Seq(S)
  BY <1>1, <1>2, Added
<1>9. ASSUME NEW s \in Seq(S), NEW e, Holds(s, e)
      PROVE  \E i \in DOMAIN s : s[i] = e
  <2>1. Named(s, e.name) \subseteq Nat
    BY DEF Named
  <2>2. First(Named(s, e.name)) \in Named(s, e.name)
    BY <1>9, <2>1, FirstIsFirst DEF Holds
  <2>3. First(Named(s, e.name)) \in DOMAIN s
    BY <2>2 DEF Named
  <2> QED
    BY <1>9, <2>3 DEF Holds
<1>10. ApplyToContainer(c, url) = [image |-> c.image, mounts |-> m, env |-> p]
  <2>1. ApplyToContainer(c, url) = [c EXCEPT !.mounts = m, !.env = p]
    BY DEF ApplyToContainer
  <2> HIDE DEF m, p
  <2> QED
    BY <2>1 DEF Containers
<1> HIDE DEF m, h, p
<1>11. Authenticates([image |-> c.image, mounts |-> m, env |-> p], GetHost(url), GetPort(url))
  BY <1>4, <1>7, <1>8, <1>9 DEF Authenticates, HostEnv, PortEnv
<1> QED
  BY <1>4, <1>5, <1>7, <1>10, <1>11

\* PodAuthenticates for every pod that the API server takes: it takes the pod with
\* the token too, and every container of it, init containers as well, has the
\* mount and the variables of a client.
THEOREM InjectionIsComplete ==
  ASSUME NEW S, NEW I, NEW url, NEW ps \in Pods(S, I), WellFormed(ps)
  PROVE  /\ WellFormed(TokenFunc(ps, url))
         /\ \A c \in AllContainers(TokenFunc(ps, url)) :
              Authenticates(c, GetHost(url), GetPort(url))
<1> DEFINE T == S \cup Injected(url)
           v == AddOrReplace(ps.volumes, TokenVolume)
<1>1. ps.volumes \in Seq(T) /\ TokenVolume \in T /\ Injected(url) \subseteq T
  BY DEF Pods, Injected
<1>2. Containers(S, I) \subseteq Containers(T, I)
  BY DEF Containers
<1>3. AllContainers(ps) \subseteq Containers(T, I)
  <2>1. ps.containers \in Seq(Containers(S, I)) /\ ps.inits \in Seq(Containers(S, I))
    BY DEF Pods
  <2> HIDE DEF T
  <2> QED
    BY <1>2, <2>1 DEF AllContainers
<1>4. /\ TokenFunc(ps, url).volumes = v
      /\ AllContainers(TokenFunc(ps, url)) = {ApplyToContainer(c, url) : c \in AllContainers(ps)}
  <2> DEFINE c == [i \in DOMAIN ps.containers |-> ApplyToContainer(ps.containers[i], url)]
             n == [i \in DOMAIN ps.inits |-> ApplyToContainer(ps.inits[i], url)]
  <2>1. TokenFunc(ps, url) = [volumes |-> v, containers |-> c, inits |-> n]
    BY DEF TokenFunc
  <2>2. {c[i] : i \in DOMAIN c}
          = {ApplyToContainer(d, url) : d \in {ps.containers[i] : i \in DOMAIN ps.containers}}
    OBVIOUS
  <2>3. {n[i] : i \in DOMAIN n}
          = {ApplyToContainer(d, url) : d \in {ps.inits[i] : i \in DOMAIN ps.inits}}
    OBVIOUS
  <2> HIDE DEF c, n, v
  <2>4. AllContainers(TokenFunc(ps, url)) = {c[i] : i \in DOMAIN c} \cup {n[i] : i \in DOMAIN n}
    BY <2>1 DEF AllContainers
  <2> QED
    BY <2>1, <2>2, <2>3, <2>4 DEF AllContainers
<1>5. Distinct(v) /\ \A n : Named(v, n) # {} <=> Named(ps.volumes, n) # {} \/ n = TokenVolume.name
  BY <1>1, AddedNames DEF WellFormed
<1> HIDE DEF v, T
<1>6. TokenVolume.name = TokenMount.name
  BY DEF TokenVolume, TokenMount, Entry
<1>7. ASSUME NEW c \in AllContainers(ps)
      PROVE  LET d == ApplyToContainer(c, url)
             IN  /\ Distinct(d.mounts) /\ Distinct(d.env)
                 /\ \A i \in DOMAIN d.mounts : Named(v, d.mounts[i].name) # {}
                 /\ Authenticates(d, GetHost(url), GetPort(url))
  <2> DEFINE d == ApplyToContainer(c, url)
  <2>1. /\ Distinct(c.mounts) /\ Distinct(c.env)
        /\ \A i \in DOMAIN c.mounts : Named(ps.volumes, c.mounts[i].name) # {}
    BY <1>7 DEF WellFormed
  <2>2. c \in Containers(T, I)
    BY <1>3
  <2>3. /\ Distinct(d.mounts) /\ Distinct(d.env)
        /\ \A i \in DOMAIN d.mounts :
             d.mounts[i] = TokenMount \/ \E j \in DOMAIN c.mounts : c.mounts[j] = d.mounts[i]
        /\ Authenticates(d, GetHost(url), GetPort(url))
    BY <1>1, <2>1, <2>2, ContainerComplete
  <2> HIDE DEF d
  <2>4. \A i \in DOMAIN d.mounts : Named(v, d.mounts[i].name) # {}
    BY <1>5, <1>6, <2>1, <2>3
  <2> QED
    BY <2>3, <2>4 DEF d
<1> QED
  BY <1>4, <1>5, <1>7 DEF WellFormed

\* What may stand before a host, and what is none of its words.
Schemes      == {<<>>, <<"https://">>}
IsHost(host) == \A i \in DOMAIN host : host[i] \notin {"https://", ":"}

\* GetHostAndPort takes every URL apart: host is what stands before the first
\* colon, without "https://", port what stands behind it, and 443 without one.
LEMMA HostAndPort ==
  ASSUME NEW W, NEW prefix \in Schemes,
         NEW host \in Seq(W), IsHost(host), NEW port \in Seq(W)
  PROVE  /\ GetHost(prefix \o host) = host /\ GetPort(prefix \o host) = <<"443">>
         /\ GetHost(prefix \o host \o <<":">> \o port) = host
         /\ GetPort(prefix \o host \o <<":">> \o port) = port
<1> DEFINE V == W \cup {"https://", ":"}
           long == host \o <<":">> \o port
<1>1. /\ host \in Seq(V) /\ port \in Seq(V) /\ <<":">> \in Seq(V) /\ prefix \in Seq(V)
      /\ Len(host) \in Nat /\ Len(port) \in Nat
  <2>1. host \in Seq(V) /\ port \in Seq(V) /\ <<":">> \in Seq(V)
    OBVIOUS
  <2>2. <<>> \in Seq(V) /\ <<"https://">> \in Seq(V)
    OBVIOUS
  <2>3. Len(host) \in Nat /\ Len(port) \in Nat
    OBVIOUS
  <2>4. prefix \in Seq(V)
    BY <2>2, Zenon DEF Schemes
  <2> HIDE DEF V, long
  <2> QED
    BY <2>1, <2>3, <2>4
<1> HIDE DEF V
<1>2. /\ long \in Seq(V) /\ Len(long) = Len(host) + 1 + Len(port)
      /\ \A i \in 1..Len(host) : long[i] = host[i]
      /\ long[Len(host) + 1] = ":"
      /\ \A i \in 1..Len(port) : long[Len(host) + 1 + i] = port[i]
  BY <1>1
<1>3. prefix \o host \o <<":">> \o port = prefix \o long
  BY <1>1, SMTT(30)
<1> HIDE DEF long
<1>4. ASSUME NEW s \in Seq(V), s = <<>> \/ s[1] # "https://"
      PROVE  Input(prefix \o s) = s
  <2>1. CASE prefix = <<>>
    <3>1. prefix \o s = s
      BY <2>1
    <3> QED
      BY <1>4, <3>1 DEF Input
  <2>2. CASE prefix = <<"https://">>
    <3>1. prefix \o s # <<>> /\ (prefix \o s)[1] = "https://" /\ Tail(prefix \o s) = s
      BY <2>2
    <3> QED
      BY <3>1 DEF Input
  <2> QED
    BY <2>1, <2>2 DEF Schemes
<1>5. Input(prefix \o host) = host
  BY <1>1, <1>4 DEF IsHost
<1>6. Input(prefix \o long) = long
  <2>1. long[1] # "https://"
    <3>1. CASE Len(host) = 0
      BY <1>2, <3>1
    <3>2. CASE Len(host) # 0
      <4>1. 1 \in 1..Len(host) /\ 1 \in DOMAIN host
        BY <1>1, <3>2
      <4> QED
        BY <1>2, <4>1 DEF IsHost
    <3> QED
      BY <3>1, <3>2
  <2> QED
    BY <1>2, <1>4, <2>1
<1>7. Colons(prefix \o host) = {}
  BY <1>5 DEF Colons, IsHost
<1>8. First(Colons(prefix \o long)) = Len(host) + 1 /\ Colons(prefix \o long) # {}
  <2> DEFINE C == Colons(prefix \o long)
  <2>1. C = {i \in 1..Len(long) : long[i] = ":"}
    BY <1>2, <1>6 DEF Colons
  <2>2. Len(host) + 1 \in C /\ C \subseteq Nat
    BY <1>1, <1>2, <2>1
  <2>3. \A i \in C : Len(host) + 1 <= i
    <3>1. \A i \in 1..Len(host) : long[i] # ":"
      BY <1>1, <1>2, SMTT(30) DEF IsHost
    <3>2. \A i \in C : i \in Nat /\ 1 <= i /\ i \notin 1..Len(host)
      BY <1>1, <1>2, <2>1, <3>1
    <3> HIDE DEF C
    <3> QED
      BY <1>1, <3>2
  <2> HIDE DEF C
  <2>4. First(C) \in C /\ First(C) <= Len(host) + 1
    BY <2>2, FirstIsFirst
  <2>5. First(C) \in Nat /\ Len(host) + 1 <= First(C)
    BY <2>2, <2>3, <2>4
  <2>6. First(C) = Len(host) + 1
    BY <1>1, <2>4, <2>5
  <2> QED
    BY <2>2, <2>6 DEF C
<1>9. SubSeq(long, 1, Len(host)) = host
  BY <1>1, <1>2
<1>10. SubSeq(long, Len(host) + 2, Len(long)) = port
  <2> DEFINE k == Len(host)
             rest == SubSeq(long, k + 2, Len(long))
  <2>1. k \in Nat /\ Len(port) \in Nat /\ Len(long) = k + 1 + Len(port)
    BY <1>1, <1>2
  <2>2. \A i \in 1..Len(port) : long[k + 1 + i] = port[i]
    BY <1>2
  <2>3. long \in Seq(V)
    BY <1>2
  <2> HIDE DEF k, rest
  <2>4. \A i \in k + 2..Len(long) : long[i] \in V
    BY <2>1, <2>3, ElementOfSeq
  <2>5. /\ rest \in Seq(V)
        /\ Len(rest) = IF k + 2 <= Len(long) THEN Len(long) - (k + 2) + 1 ELSE 0
        /\ \A i \in 1..Len(long) - (k + 2) + 1 : rest[i] = long[(k + 2) + i - 1]
    <3>1. k + 2 \in Int /\ Len(long) \in Int
      BY <2>1
    <3> QED
      BY <2>4, <3>1, SubSeqProperties, SMTT(30) DEF rest
  <2>6. Len(rest) = Len(port)
    BY <2>1, <2>5
  <2>7. ASSUME NEW i \in 1..Len(port) PROVE rest[i] = port[i]
    <3>1. i \in 1..Len(long) - (k + 2) + 1 /\ (k + 2) + i - 1 = k + 1 + i
      BY <2>1
    <3> QED
      BY <2>2, <2>5, <3>1
  <2>8. rest = port
    <3>1. \A i \in 1..Len(rest) : rest[i] = port[i]
      BY <2>6, <2>7
    <3> QED
      BY <1>1, <2>5, <2>6, <3>1, SeqEqual, Zenon
  <2> QED
    BY <2>8 DEF rest, k
<1>11. (Len(host) + 1) - 1 = Len(host) /\ (Len(host) + 1) + 1 = Len(host) + 2
  BY <1>1
<1>12. GetHost(prefix \o host) = host /\ GetPort(prefix \o host) = <<"443">>
  BY <1>5, <1>7 DEF GetHost, GetPort
<1>13. GetHost(prefix \o long) = host /\ GetPort(prefix \o long) = port
  BY <1>6, <1>8, <1>9, <1>10, <1>11 DEF GetHost, GetPort
<1> QED
  BY <1>3, <1>12, <1>13

-----------------------------------------------------------------------------
(***************************************************************************)
(* ImageResolution: what is accepted, what runs and what is refused.       *)
(***************************************************************************)

\* Every variable keeps its type.
THEOREM TypeCorrect == Spec => []TypeOK
<1>1. Init => TypeOK
  BY DEF Init, TypeOK
<1>2. TypeOK /\ [Next]_vars => TypeOK'
  <2> SUFFICES ASSUME TypeOK, [Next]_vars PROVE TypeOK'
    OBVIOUS
  <2> USE DEF TypeOK
  <2>1. CASE RequestVersion
    BY <2>1 DEF RequestVersion
  <2>2. CASE RequestPlugins
    <3>1. CASE \E c \in Components : plugins' = Append(plugins, c)
      BY <2>2, <3>1 DEF RequestPlugins
    <3>2. CASE plugins # <<>> /\ plugins' = Front(plugins)
      <4>1. plugins' \in Seq(Components)
        <5>1. Len(plugins) \in Nat /\ Len(plugins) # 0
          BY <3>2
        <5> QED
          BY <3>2, <5>1 DEF Front
      <4> QED
        BY <2>2, <4>1 DEF RequestPlugins
    <3> QED
      BY <2>2, <3>1, <3>2 DEF RequestPlugins
  <2>3. CASE OfferMore
    BY <2>3 DEF OfferMore
  <2>4. CASE OfferLess
    <3>1. PICK i \in DOMAIN config : config' = RemoveAt(config, i)
      BY <2>4 DEF OfferLess
    <3>2. config' \in Seq(Entries)
      BY <3>1, SMTT(30) DEF RemoveAt
    <3> QED
      BY <2>4, <3>2 DEF OfferLess
  <2>5. CASE UNCHANGED vars
    BY <2>5 DEF vars
  <2> QED
    BY <2>1, <2>2, <2>3, <2>4, <2>5 DEF Next
<1> QED
  BY <1>1, <1>2, PTL DEF Spec

\* validateRequestedVersion, which compares the precedence of versions, lets
\* exactly the versions of Window pass.
LEMMA WindowMeaning ==
  ASSUME NEW v, v.minor \in Nat, v.pre \in BOOLEAN
  PROVE  InWindow(v) <=> Window(v)
BY DEF InWindow, Window, Precedence

\* Some positions have a last one: by FirstIsFirst, counted from the end.
LEMMA LastExists ==
  ASSUME NEW n \in Nat, NEW P \in SUBSET (1..n), P # {}
  PROVE  \E i \in P : \A j \in P : j <= i
<1> DEFINE Q == {n - i : i \in P}
<1>1. Q \subseteq Nat /\ Q # {}
  <2>1. \A i \in P : n - i \in Nat
    OBVIOUS
  <2>2. \E i \in P : TRUE
    OBVIOUS
  <2> QED
    BY <2>1, <2>2
<1>2. First(Q) \in Q /\ \A j \in Q : First(Q) <= j
  BY <1>1, FirstIsFirst
<1>3. PICK i \in P : First(Q) = n - i
  BY <1>2
<1>4. ASSUME NEW j \in P PROVE j <= i
  <2>1. n - i <= n - j
    BY <1>2, <1>3
  <2> QED
    BY <2>1
<1> QED
  BY <1>4

\* The components in the order resolveImages meets them: the server, then the
\* plugins.
LEMMA RequestedShape ==
  ASSUME TypeOK
  PROVE  /\ Requested \in Seq(Components) /\ Len(Requested) = Len(plugins) + 1
         /\ Requested[1] = Server /\ Server \in Components
         /\ \A i \in DOMAIN plugins : i + 1 \in DOMAIN Requested /\ Requested[i + 1] = plugins[i]
<1>1. Server \in Components
  BY DEF TypeOK, Server, Components, Names
<1> HIDE DEF Server
<1>2. plugins \in Seq(Components) /\ <<Server>> \in Seq(Components) /\ Len(<<Server>>) = 1
  BY <1>1 DEF TypeOK
<1> QED
  BY <1>1, <1>2 DEF Requested

\* The component that decides about a name is the last one requested with it.
LEMMA LastOfIsRequested ==
  ASSUME TypeOK, NEW k \in DOMAIN Requested
  PROVE  \E i \in DOMAIN Requested :
           /\ LastOf(Requested[k].name) = Requested[i] /\ Requested[i].name = Requested[k].name
           /\ \A j \in DOMAIN Requested : Requested[j].name = Requested[k].name => j <= i
<1> DEFINE P == {i \in DOMAIN Requested : Requested[i].name = Requested[k].name}
<1>1. Len(Requested) \in Nat /\ DOMAIN Requested = 1..Len(Requested)
  BY RequestedShape
<1>2. P \in SUBSET (1..Len(Requested)) /\ k \in P
  BY <1>1
<1>3. \E i \in P : \A j \in P : j <= i
  BY <1>1, <1>2, LastExists
<1>4. \E i \in DOMAIN Requested :
         /\ Requested[i].name = Requested[k].name
         /\ \A j \in DOMAIN Requested : Requested[j].name = Requested[k].name => j <= i
  BY <1>3
<1> QED
  BY <1>4, Zenon DEF LastOf

\* Where a component is offered, resolveImage finds an image ProviderConfig lists
\* for it, in the version requested.
LEMMA Resolved ==
  ASSUME TypeOK, NEW c \in Components, Offers(c, config) # {}
  PROVE  ResolveImage(c, config) \in Images /\ Listed(c, ResolveImage(c, config))
<1> DEFINE i == First(Offers(c, config))
<1>1. Offers(c, config) \subseteq Nat
  BY DEF TypeOK, Offers, Named
<1>2. i \in Offers(c, config)
  BY <1>1, FirstIsFirst
<1>3. /\ i \in DOMAIN config /\ config[i] \in Entries
      /\ config[i].name = c.name /\ c.version \in config[i].versions
  BY <1>2 DEF TypeOK, Offers, Named
<1>4. ResolveImage(c, config) = [image |-> config[i].image, tag |-> c.version]
  BY DEF ResolveImage
<1> HIDE DEF i
<1>5. config[i].image \in Locations /\ c.version \in Versions
  BY <1>3 DEF Entries, Components
<1>6. config[i] \in ToSet(config)
  BY <1>3 DEF ToSet
<1> QED
  BY <1>3, <1>4, <1>5, <1>6 DEF Images, Listed

\* With every component offered, the map of resolveImages has an image for each
\* name requested.
LEMMA ResolvedAll ==
  ASSUME TypeOK, \A c \in ToSet(Requested) : Offers(c, config) # {}
  PROVE  /\ ResolveImages \in [{c.name : c \in ToSet(Requested)} -> Images]
         /\ \A k \in DOMAIN Requested :
              ResolveImages[Requested[k].name]
                = ResolveImage(LastOf(Requested[k].name), config)
<1> DEFINE N == {c.name : c \in ToSet(Requested)}
<1>1. ResolveImages = [n \in N |-> ResolveImage(LastOf(n), config)]
  BY DEF ResolveImages
<1>2. \A k \in DOMAIN Requested : Requested[k].name \in N
  BY DEF ToSet
<1>3. ASSUME NEW n \in N
      PROVE  ResolveImage(LastOf(n), config) \in Images
  <2>1. PICK k \in DOMAIN Requested : n = Requested[k].name
    BY <1>3 DEF ToSet
  <2>2. PICK i \in DOMAIN Requested : LastOf(n) = Requested[i]
    BY <2>1, LastOfIsRequested
  <2>3. LastOf(n) \in Components /\ LastOf(n) \in ToSet(Requested)
    BY <2>2, RequestedShape DEF ToSet
  <2> QED
    BY <2>3, Resolved
<1> QED
  BY <1>1, <1>2, <1>3

\* createObjectManager gets past the version and the images exactly if the window
\* has the version and every component is offered.  A map of images is not nil.
LEMMA AcceptedMeaning ==
  ASSUME TypeOK
  PROVE  Accepted <=> /\ InWindow(version)
                      /\ \A c \in ToSet(Requested) : Offers(c, config) # {}
<1>1. CASE \A c \in ToSet(Requested) : Offers(c, config) # {}
  <2>1. ResolveImages \in [{c.name : c \in ToSet(Requested)} -> Images]
    BY <1>1, ResolvedAll
  <2>2. {c.name : c \in ToSet(Requested)} \subseteq Names
    <3>1. \A k \in DOMAIN Requested : Requested[k] \in Components
      BY RequestedShape
    <3>2. \A c \in Components : c.name \in Names
      BY DEF Components
    <3> QED
      BY <3>1, <3>2 DEF ToSet
  <2>3. ResolveImages # NoImages
    BY <2>1, <2>2, NilIsNoMap
  <2> QED
    BY <1>1, <2>3 DEF Accepted
<1>2. CASE ~\A c \in ToSet(Requested) : Offers(c, config) # {}
  <2>1. ResolveImages = NoImages
    BY <1>2 DEF ResolveImages
  <2> QED
    BY <1>2, <2>1 DEF Accepted
<1> QED
  BY <1>1, <1>2

\* RunsAsRequested in every state: in an accepted request every container has the
\* image and the version of the last component with the name of its own.
THEOREM Runs == Spec => []RunsAsRequested
<1>1. ASSUME TypeOK, Accepted
      PROVE  Window(version)
  <2>1. version \in Versions /\ InWindow(version)
    BY <1>1 DEF TypeOK, Accepted
  <2> QED
    BY <2>1, VersionShape, WindowMeaning
<1>2. ASSUME TypeOK, NEW i \in DOMAIN Requested
      PROVE  Container(i) = ResolveImages[Requested[i].name]
  <2>1. CASE i = 1
    BY <1>2, <2>1, RequestedShape DEF Container, ServerContainer, Server
  <2>2. CASE i # 1
    <3>1. Len(plugins) \in Nat /\ DOMAIN plugins = 1..Len(plugins)
      BY <1>2 DEF TypeOK
    <3>2. i \in 1..(Len(plugins) + 1)
      BY <1>2, RequestedShape
    <3>3. i - 1 \in DOMAIN plugins /\ (i - 1) + 1 = i
      BY <2>2, <3>1, <3>2
    <3>4. Requested[i] = plugins[i - 1]
      BY <1>2, <3>3, RequestedShape
    <3> QED
      BY <2>2, <3>3, <3>4 DEF Container, InitContainers
  <2> QED
    BY <2>1, <2>2
<1>3. ASSUME TypeOK, Accepted, NEW last \in DOMAIN Requested, NEW i \in DOMAIN Requested,
             LastOfItsName(last), Requested[i].name = Requested[last].name
      PROVE  Listed(Requested[last], Container(i))
  <2>1. \A c \in ToSet(Requested) : Offers(c, config) # {}
    BY <1>3, AcceptedMeaning
  <2>2. PICK m \in DOMAIN Requested :
          /\ LastOf(Requested[i].name) = Requested[m] /\ Requested[m].name = Requested[i].name
          /\ \A j \in DOMAIN Requested : Requested[j].name = Requested[i].name => j <= m
    BY <1>3, LastOfIsRequested
  <2>3. m <= last /\ last <= m
    BY <1>3, <2>2 DEF LastOfItsName
  <2>4. m \in Int /\ last \in Int
    BY <1>3, RequestedShape
  <2>5. LastOf(Requested[i].name) = Requested[last]
    BY <2>2, <2>3, <2>4
  <2>6. Requested[last] \in Components /\ Requested[last] \in ToSet(Requested)
    BY <1>3, RequestedShape DEF ToSet
  <2>7. Container(i) = ResolveImage(Requested[last], config)
    BY <1>2, <1>3, <2>1, <2>5, ResolvedAll
  <2> QED
    BY <1>3, <2>1, <2>6, <2>7, Resolved
<1>4. TypeOK => RunsAsRequested
  BY <1>1, <1>3 DEF RunsAsRequested
<1> QED
  BY <1>4, TypeCorrect, PTL

\* The gate of the window holds for every request that names no plugin after the
\* server; ServerInWindow, which README.md:50 promises of all, fails only with one.
GateHolds ==
  Accepted /\ (\A i \in DOMAIN plugins : plugins[i].name # "velero")
    => InWindow(ServerContainer.tag)

\* The server container runs the version that was checked, unless a plugin named
\* velero takes its place among the images.
THEOREM Gate == Spec => []GateHolds
<1>1. ASSUME TypeOK, Accepted, \A i \in DOMAIN plugins : plugins[i].name # "velero"
      PROVE  InWindow(ServerContainer.tag)
  <2>1. InWindow(version) /\ \A c \in ToSet(Requested) : Offers(c, config) # {}
    BY <1>1, AcceptedMeaning
  <2>2. /\ 1 \in DOMAIN Requested /\ Requested[1] = Server
        /\ Server.name = "velero" /\ Server.version = version
    BY <1>1, RequestedShape DEF Server, TypeOK
  <2>3. ASSUME NEW k \in DOMAIN Requested, Requested[k].name = "velero"
        PROVE  Requested[k] = Server
    <3>1. SUFFICES ASSUME k # 1 PROVE FALSE
      BY <2>2
    <3>2. k - 1 \in DOMAIN plugins /\ Requested[k] = plugins[k - 1]
      BY <1>1, <3>1, RequestedShape DEF TypeOK
    <3> QED
      BY <1>1, <2>3, <3>2
  <2>4. LastOf("velero") = Server
    BY <1>1, <2>2, <2>3, LastOfIsRequested
  <2>5. ServerContainer = ResolveImage(Server, config)
    BY <1>1, <2>1, <2>2, <2>4, ResolvedAll DEF ServerContainer
  <2> QED
    BY <2>1, <2>2, <2>5 DEF ResolveImage
<1>2. TypeOK => GateHolds
  BY <1>1 DEF GateHolds
<1> QED
  BY <1>2, TypeCorrect, PTL

\* RefusedForAReason in every state: what resolveImages refuses is in truth not
\* listed, and what validateRequestedVersion refuses is outside of the window.
THEOREM Refused == Spec => []RefusedForAReason
<1>1. ASSUME TypeOK, ~Accepted, Window(version)
      PROVE  \E c \in ToSet(Requested) :
               \A e \in ToSet(config) : e.name = c.name => c.version \notin e.versions
  <2>1. InWindow(version)
    <3>1. version \in Versions
      BY <1>1 DEF TypeOK
    <3> QED
      BY <1>1, <3>1, VersionShape, WindowMeaning
  <2>2. PICK c \in ToSet(Requested) : Offers(c, config) = {}
    BY <1>1, <2>1, AcceptedMeaning
  <2>3. ASSUME NEW e \in ToSet(config), e.name = c.name
        PROVE  c.version \notin e.versions
    <3>1. PICK i \in DOMAIN config : config[i] = e
      BY DEF ToSet
    <3> QED
      BY <2>2, <2>3, <3>1 DEF Offers, Named
  <2> QED
    BY <2>3
<1>2. TypeOK => RefusedForAReason
  BY <1>1 DEF RefusedForAReason
<1> QED
  BY <1>2, TypeCorrect, PTL

\* Positions after the given ones do not change which is the first.
LEMMA FirstOfMore ==
  ASSUME NEW P, NEW Q, Q \subseteq Nat, P \subseteq Q, P # {},
         \A i \in P, j \in Q \ P : i < j
  PROVE  First(Q) = First(P)
<1> DEFINE p == First(P)
           q == First(Q)
<1>1. P \subseteq Nat /\ Q # {}
  OBVIOUS
<1>2. p \in P /\ \A j \in P : p <= j
  BY <1>1, FirstIsFirst
<1>3. q \in Q /\ \A j \in Q : q <= j
  BY <1>1, FirstIsFirst
<1> HIDE DEF p, q
<1>4. p \in Nat /\ q \in Nat /\ q <= p
  BY <1>1, <1>2, <1>3
<1>5. q \in P
  <2>1. q \in Q \ P => p < q
    BY <1>2
  <2> QED
    BY <1>3, <1>4, <2>1
<1>6. p <= q
  BY <1>2, <1>5
<1> QED
  BY <1>4, <1>6 DEF p, q

\* AppendingIsSafe of every step: resolveImage takes the first offer, so an entry
\* the operator appends changes no image of an accepted Velero.
THEOREM Appending == Spec => AppendingIsSafe
<1>1. ASSUME TypeOK, TypeOK', Next, config # config', config = Front(config'), Accepted
      PROVE  ResolveImages' = ResolveImages
  <2>1. UNCHANGED <<version, plugins>>
    BY <1>1 DEF Next, RequestVersion, RequestPlugins, OfferMore, OfferLess
  <2>2. Requested' = Requested
    BY <2>1 DEF Requested, Server
  <2>3. /\ DOMAIN config \subseteq DOMAIN config'
        /\ Len(config) \in Nat /\ DOMAIN config = 1..Len(config)
        /\ Len(config') \in Nat /\ DOMAIN config' = 1..Len(config')
        /\ \A i \in DOMAIN config : config'[i] = config[i]
    BY <1>1 DEF TypeOK, Front
  <2>4. \A c \in ToSet(Requested) : Offers(c, config) # {}
    BY <1>1, AcceptedMeaning
  <2>5. ASSUME NEW c \in ToSet(Requested)
        PROVE  /\ Offers(c, config') # {}
               /\ ResolveImage(c, config') = ResolveImage(c, config)
    <3>1. /\ Offers(c, config) \subseteq Offers(c, config')
          /\ Offers(c, config) \subseteq DOMAIN config
          /\ Offers(c, config') \subseteq Nat
          /\ \A j \in Offers(c, config') \ Offers(c, config) : j \notin DOMAIN config
      BY <2>3 DEF Offers, Named
    <3>2. \A i \in Offers(c, config), j \in Offers(c, config') \ Offers(c, config) : i < j
      <4>1. \A i \in DOMAIN config, j \in DOMAIN config' \ DOMAIN config : i < j
        BY <2>3
      <4>2. Offers(c, config') \subseteq DOMAIN config'
        BY DEF Offers, Named
      <4> QED
        BY <3>1, <4>1, <4>2
    <3>3. First(Offers(c, config')) = First(Offers(c, config))
      BY <2>4, <3>1, <3>2, FirstOfMore
    <3>4. First(Offers(c, config)) \in DOMAIN config
      <4>1. First(Offers(c, config)) \in Offers(c, config)
        BY <2>4, <3>1, FirstIsFirst
      <4> QED
        BY <3>1, <4>1
    <3> QED
      BY <2>3, <2>4, <3>1, <3>3, <3>4 DEF ResolveImage
  <2>6. ASSUME NEW n \in {c.name : c \in ToSet(Requested)}
        PROVE  ResolveImage(LastOf(n), config') = ResolveImage(LastOf(n), config)
    <3>1. PICK k \in DOMAIN Requested : n = Requested[k].name
      BY <2>6 DEF ToSet
    <3>2. PICK i \in DOMAIN Requested : LastOf(n) = Requested[i]
      BY <1>1, <3>1, LastOfIsRequested
    <3>3. LastOf(n) \in ToSet(Requested)
      BY <3>2 DEF ToSet
    <3> QED
      BY <2>5, <3>3
  <2>7. ResolveImages = [n \in {c.name : c \in ToSet(Requested)} |-> ResolveImage(LastOf(n), config)]
    BY <2>4 DEF ResolveImages
  <2>8. \A n : LastOf(n)' = LastOf(n)
    BY <2>2 DEF LastOf
  <2>9. ResolveImages' = [n \in {c.name : c \in ToSet(Requested)} |-> ResolveImage(LastOf(n), config')]
    BY <2>2, <2>5, <2>8 DEF ResolveImages
  <2> QED
    BY <2>6, <2>7, <2>9
<1>2. TypeOK /\ TypeOK' /\ [Next]_vars
        => [config # config' /\ config = Front(config') /\ Accepted
              => ResolveImages' = ResolveImages]_vars
  BY <1>1
<1> QED
  BY <1>2, TypeCorrect, PTL DEF Spec, AppendingIsSafe

-----------------------------------------------------------------------------
(***************************************************************************)
(* ImageResolution: the pod of an accepted request.                        *)
(***************************************************************************)

\* The entries and images of a pod before the injection.
Before ==
  {Entry("plugins", <<"emptyDir">>), Entry("scratch", <<"emptyDir">>),
   Entry("plugins", <<"/plugins">>), Entry("scratch", <<"/scratch">>),
   Entry("VELERO_SCRATCH_DIR", <<"/scratch">>), Entry("VELERO_NAMESPACE", <<"velero">>),
   Entry("LD_LIBRARY_PATH", <<"/plugins">>), Entry("plugins", <<"/target">>)}

\* The pod of the server is one the injection is idempotent for.
LEMMA ServerPodIsPod ==
  ASSUME NEW I, NEW image \in I, NEW images \in Seq(I)
  PROVE  ServerPod(image, images) \in Pods(Before, I)
<1> DEFINE S  == Before
           sm == <<Entry("plugins", <<"/plugins">>), Entry("scratch", <<"/scratch">>)>>
           se == <<Entry("VELERO_SCRATCH_DIR", <<"/scratch">>),
                   Entry("VELERO_NAMESPACE", <<"velero">>),
                   Entry("LD_LIBRARY_PATH", <<"/plugins">>)>>
           im == <<Entry("plugins", <<"/target">>)>>
           sv == <<Entry("plugins", <<"emptyDir">>), Entry("scratch", <<"emptyDir">>)>>
           server == [image |-> image, mounts |-> sm, env |-> se]
           init(i) == [image |-> images[i], mounts |-> im, env |-> <<>>]
           inits == [i \in DOMAIN images |-> init(i)]
<1>1. sv \in Seq(S) /\ sm \in Seq(S) /\ se \in Seq(S) /\ im \in Seq(S) /\ <<>> \in Seq(S)
  BY DEF Before
<1>2. ServerPod(image, images)
        = [volumes |-> sv, containers |-> <<server>>, inits |-> inits]
  BY Zenon DEF ServerPod
<1> HIDE DEF S, sm, se, im, sv
<1>3. <<server>> \in Seq(Containers(S, I))
  <2>1. server \in Containers(S, I)
    BY <1>1 DEF Containers
  <2> HIDE DEF server
  <2> QED
    BY <2>1
<1>4. inits \in Seq(Containers(S, I))
  <2>1. ASSUME NEW i \in DOMAIN images PROVE init(i) \in Containers(S, I)
    BY <1>1 DEF Containers
  <2> HIDE DEF init
  <2> QED
    BY <2>1
<1> HIDE DEF server, inits
<1> QED
  BY <1>1, <1>2, <1>3, <1>4 DEF Pods, S

\* No name of the pod that is handed to the injection occurs twice, and what its
\* containers mount are its two volumes.
LEMMA ServerPodIsWellFormed ==
  ASSUME NEW I, NEW image \in I, NEW images \in Seq(I)
  PROVE  WellFormed(ServerPod(image, images))
<1> DEFINE ps == ServerPod(image, images)
           sm == <<Entry("plugins", <<"/plugins">>), Entry("scratch", <<"/scratch">>)>>
           se == <<Entry("VELERO_SCRATCH_DIR", <<"/scratch">>),
                   Entry("VELERO_NAMESPACE", <<"velero">>),
                   Entry("LD_LIBRARY_PATH", <<"/plugins">>)>>
           im == <<Entry("plugins", <<"/target">>)>>
           sv == <<Entry("plugins", <<"emptyDir">>), Entry("scratch", <<"emptyDir">>)>>
<1>1. /\ ps.volumes = sv
      /\ \A c \in AllContainers(ps) :
           (c.mounts = sm /\ c.env = se) \/ (c.mounts = im /\ c.env = <<>>)
  <2> DEFINE server  == [image |-> image, mounts |-> sm, env |-> se]
             init(i) == [image |-> images[i], mounts |-> im, env |-> <<>>]
  <2>1. ps = [volumes |-> sv, containers |-> <<server>>, inits |-> [i \in DOMAIN images |-> init(i)]]
    BY Zenon DEF ServerPod
  <2>2. /\ server.mounts = sm /\ server.env = se
        /\ \A i : init(i).mounts = im /\ init(i).env = <<>>
    BY Zenon
  <2> HIDE DEF sm, se, im, sv, server, init, ps
  <2>3. /\ ps.volumes = sv /\ DOMAIN ps.containers = {1} /\ ps.containers[1] = server
        /\ \A i \in DOMAIN ps.inits : ps.inits[i] = init(i)
    <3>1. /\ ps.volumes = sv /\ ps.containers = <<server>>
          /\ ps.inits = [i \in DOMAIN images |-> init(i)]
      BY <2>1
    <3>2. DOMAIN <<server>> = {1} /\ <<server>>[1] = server
      OBVIOUS
    <3> QED
      BY <3>1, <3>2, Zenon
  <2> QED
    BY <2>2, <2>3 DEF AllContainers
<1>2. Distinct(sv) /\ Distinct(sm) /\ Distinct(se) /\ Distinct(im) /\ Distinct(<<>>)
  BY DEF Distinct, Entry
<1>3. /\ \A i \in DOMAIN sm : sm[i].name \in {"plugins", "scratch"}
      /\ \A i \in DOMAIN im : im[i].name \in {"plugins", "scratch"}
  BY DEF Entry
<1>4. \A n \in {"plugins", "scratch"} : Named(sv, n) # {}
  <2>1. 1 \in DOMAIN sv /\ sv[1].name = "plugins" /\ 2 \in DOMAIN sv /\ sv[2].name = "scratch"
    BY DEF Entry
  <2> HIDE DEF sv
  <2> QED
    BY <2>1 DEF Named
<1> HIDE DEF ps, sm, se, im, sv
<1>5. WellFormed(ps)
  BY <1>1, <1>2, <1>3, <1>4 DEF WellFormed
<1> QED
  BY <1>5 DEF ps

\* InjectedOnce in every state: a pass that meets its own pod leaves it alone.
THEOREM PodStable == Spec => []InjectedOnce
<1>1. TypeOK => InjectedOnce
  <2> SUFFICES ASSUME TypeOK, NEW u \in Urls
               PROVE  TokenFunc(Pod(u.url), u.url) = Pod(u.url)
    BY DEF InjectedOnce
  <2> DEFINE I == {ServerContainer} \cup {InitContainers[i] : i \in DOMAIN plugins}
  <2>1. InitContainers \in Seq(I)
    BY DEF TypeOK, InitContainers
  <2>2. ServerPod(ServerContainer, InitContainers) \in Pods(Before, I)
    BY <2>1, ServerPodIsPod
  <2> QED
    BY <2>2, InjectionIsIdempotent DEF Pod
<1> QED
  BY <1>1, TypeCorrect, PTL

\* PodAuthenticates in every state: whatever the plugins and their images, the
\* deployment is one the API server takes, and each container finds the API
\* server of the MCP and has the token.
THEOREM Authenticated == Spec => []PodAuthenticates
<1>1. ASSUME NEW u \in Urls
      PROVE  GetHost(u.url) = u.host /\ GetPort(u.url) = u.port
  <2> DEFINE host == <<"api">>
             port == <<"6443">>
             W    == {"api", "6443"}
  <2>1. PICK prefix \in {<<>>, <<"https://">>}, suffix \in {<<>>, <<":", "6443">>} :
          u = [url  |-> prefix \o <<"api">> \o suffix, host |-> <<"api">>,
               port |-> IF suffix = <<>> THEN <<"443">> ELSE <<"6443">>]
    BY DEF Urls
  <2>2. /\ u.url = prefix \o host \o suffix /\ u.host = host
        /\ u.port = IF suffix = <<>> THEN <<"443">> ELSE port
    BY <2>1
  <2>3. prefix \in Schemes /\ host \in Seq(W) /\ port \in Seq(W) /\ IsHost(host)
    BY DEF Schemes, IsHost
  <2>4. prefix \o host \o <<>> = prefix \o host
    OBVIOUS
  <2>5. prefix \o host \o <<":", "6443">> = prefix \o host \o <<":">> \o port
    OBVIOUS
  <2> HIDE DEF host, port, W
  <2>6. /\ GetHost(prefix \o host) = host /\ GetPort(prefix \o host) = <<"443">>
        /\ GetHost(prefix \o host \o <<":">> \o port) = host
        /\ GetPort(prefix \o host \o <<":">> \o port) = port
    BY <2>1, <2>3, HostAndPort
  <2>7. CASE suffix = <<>>
    BY <2>2, <2>4, <2>6, <2>7
  <2>8. CASE suffix = <<":", "6443">>
    <3>1. suffix # <<>>
      BY <2>8
    <3> QED
      BY <2>2, <2>5, <2>6, <2>8, <3>1
  <2> QED
    BY <2>7, <2>8
<1>2. TypeOK => PodAuthenticates
  <2> SUFFICES ASSUME TypeOK, NEW u \in Urls
               PROVE  /\ WellFormed(Pod(u.url))
                      /\ \A c \in AllContainers(Pod(u.url)) : Authenticates(c, u.host, u.port)
    BY DEF PodAuthenticates
  <2> DEFINE I == {ServerContainer} \cup {InitContainers[i] : i \in DOMAIN plugins}
  <2>1. InitContainers \in Seq(I)
    BY DEF TypeOK, InitContainers
  <2>2. /\ ServerPod(ServerContainer, InitContainers) \in Pods(Before, I)
        /\ WellFormed(ServerPod(ServerContainer, InitContainers))
    BY <2>1, ServerPodIsPod, ServerPodIsWellFormed
  <2> QED
    BY <1>1, <2>2, InjectionIsComplete DEF Pod
<1> QED
  BY <1>2, TypeCorrect, PTL
=============================================================================
