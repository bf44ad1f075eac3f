------------------------------ MODULE PodSpec ------------------------------
(***************************************************************************)
(* The pod template of the server: what the ReconcileFunc of the           *)
(* deployment puts into it and what the TokenApplyFunc of the service      *)
(* account adds, so that every container finds the API server of the       *)
(* managed control plane and a token for it.                               *)
(*                                                                         *)
(* Volumes, mounts and environment variables are entries: a name and a     *)
(* value, which is a sequence of words.  So is the URL of an API server.   *)
(***************************************************************************)
EXTENDS Naturals, Sequences

Entry(name, value) == [name |-> name, value |-> value]

Named(entries, name) == {i \in DOMAIN entries : entries[i].name = name}
First(positions) == CHOOSE i \in positions : \A j \in positions : i <= j

\* Faulty variant of AddOrReplace: always append.
AppendAlways(entries, e) == Append(entries, e)

\* addOrReplaceVolume, addOrReplaceEnv and addOrReplaceVolumeMount: the first
\* entry of the name is replaced; without one, e is appended.
AddOrReplace(entries, e) ==
  IF Named(entries, e.name) = {}
    THEN Append(entries, e)
    ELSE [entries EXCEPT ![First(Named(entries, e.name))] = e]

\* GetHostAndPort: the host goes to the first colon, "https://" left out.
Input(url)  == IF url # <<>> /\ url[1] = "https://" THEN Tail(url) ELSE url
Colons(url) == {i \in DOMAIN Input(url) : Input(url)[i] = ":"}
GetHost(url) ==
  IF Colons(url) = {} THEN Input(url) ELSE SubSeq(Input(url), 1, First(Colons(url)) - 1)
GetPort(url) ==
  IF Colons(url) = {}
    THEN <<"443">>
    ELSE SubSeq(Input(url), First(Colons(url)) + 1, Len(Input(url)))

TokenVolume   == Entry("kube-api-access", <<"secret">>)
TokenMount    == Entry("kube-api-access", <<"serviceaccount">>)
HostEnv(url)  == Entry("KUBERNETES_SERVICE_HOST", GetHost(url))
PortEnv(url)  == Entry("KUBERNETES_SERVICE_PORT", GetPort(url))

ApplyToContainer(c, url) ==
  [c EXCEPT !.mounts = AddOrReplace(@, TokenMount),
            !.env    = AddOrReplace(AddOrReplace(@, HostEnv(url)), PortEnv(url))]

\* Faulty variant of TokenFunc: the init containers are forgotten.
ServerOnly(ps, url) ==
  [ps EXCEPT !.volumes    = AddOrReplace(@, TokenVolume),
             !.containers = [i \in DOMAIN @ |-> ApplyToContainer(@[i], url)]]

\* The TokenApplyFunc that Configure of the service account returns.
TokenFunc(ps, url) ==
  [volumes    |-> AddOrReplace(ps.volumes, TokenVolume),
   containers |-> [i \in DOMAIN ps.containers |-> ApplyToContainer(ps.containers[i], url)],
   inits      |-> [i \in DOMAIN ps.inits |-> ApplyToContainer(ps.inits[i], url)]]

\* The pod of the server before the token: the plugins are copied by their init
\* containers into the volume the server loads them from.
ServerPod(serverImage, pluginImages) ==
  [volumes    |-> <<Entry("plugins", <<"emptyDir">>), Entry("scratch", <<"emptyDir">>)>>,
   containers |->
     <<[image  |-> serverImage,
        mounts |-> <<Entry("plugins", <<"/plugins">>), Entry("scratch", <<"/scratch">>)>>,
        env    |-> <<Entry("VELERO_SCRATCH_DIR", <<"/scratch">>),
                     Entry("VELERO_NAMESPACE", <<"velero">>),
                     Entry("LD_LIBRARY_PATH", <<"/plugins">>)>>]>>,
   inits      |->
     [i \in DOMAIN pluginImages |->
        [image  |-> pluginImages[i],
         mounts |-> <<Entry("plugins", <<"/target">>)>>,
         env    |-> <<>>]]]

\* The containers of a pod, in whatever role.
AllContainers(ps) ==
  {ps.containers[i] : i \in DOMAIN ps.containers} \cup {ps.inits[i] : i \in DOMAIN ps.inits}

\* All names are different.
Distinct(entries) == \A i, j \in DOMAIN entries : entries[i].name = entries[j].name => i = j

\* What the API server asks of a pod: names are unique, and what a container
\* mounts is a volume of the pod.
WellFormed(ps) ==
  /\ Distinct(ps.volumes)
  /\ \A c \in AllContainers(ps) :
       /\ Distinct(c.mounts) /\ Distinct(c.env)
       /\ \A i \in DOMAIN c.mounts : Named(ps.volumes, c.mounts[i].name) # {}

\* What a client in the container needs to talk to the server at host and port.
Authenticates(c, host, port) ==
  /\ \E i \in DOMAIN c.mounts : c.mounts[i] = TokenMount
  /\ \E i \in DOMAIN c.env : c.env[i] = Entry("KUBERNETES_SERVICE_HOST", host)
  /\ \E i \in DOMAIN c.env : c.env[i] = Entry("KUBERNETES_SERVICE_PORT", port)
=============================================================================
