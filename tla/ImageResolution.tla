--------------------------- MODULE ImageResolution ---------------------------
(***************************************************************************)
(* Which images a Velero gets: the check of the requested version against  *)
(* the window of the controller, the look-up of every requested component  *)
(* in availableImages of the ProviderConfig, and the containers of the     *)
(* server deployment.  Users edit the request, the operator edits the      *)
(* ProviderConfig.                                                         *)
(***************************************************************************)
EXTENDS PodSpec, Naturals, Sequences, SequencesExt

CONSTANTS
  Plugins,      \* names of plugins
  Locations,    \* image locations, without the tag
  Versions,     \* [minor, pre]: 1.minor.0, a pre-release of it if pre
  MaxPlugins,   \* bound on the plugins of a request
  MaxEntries,   \* bound on the entries of availableImages
  NoImages      \* the nil map

Names      == {"velero"} \cup Plugins
Components == [name : Names, version : Versions]
Entries    == [name : Names, versions : SUBSET Versions, image : Locations]
Images     == [image : Locations, tag : Versions]

ASSUME VersionShape ==
  \A v \in Versions : v.minor \in Nat /\ v.pre \in BOOLEAN
ASSUME NotAPlugin == "velero" \notin Plugins
ASSUME NilIsNoMap == \A S \in SUBSET Names : NoImages \notin [S -> Images]

VARIABLES
  version,    \* spec.version
  plugins,    \* spec.plugins, in order
  config      \* spec.availableImages of the ProviderConfig, in order

vars == <<version, plugins, config>>

-----------------------------------------------------------------------------
\* Semantic versioning orders a pre-release before its release.
Precedence(v) == 2 * v.minor + (IF v.pre THEN 0 ELSE 1)

\* Faulty variant of InWindow: the upper bound is included.
InWindowInclusive(v) ==
  /\ Precedence(v) >= Precedence([minor |-> 16, pre |-> FALSE])
  /\ Precedence(v) <= Precedence([minor |-> 19, pre |-> FALSE])

\* validateRequestedVersion: ">=1.16.0 <1.19.0".
InWindow(v) ==
  /\ Precedence(v) >= Precedence([minor |-> 16, pre |-> FALSE])
  /\ Precedence(v) < Precedence([minor |-> 19, pre |-> FALSE])

\* Faulty variant of Offers: the first entry of the name decides.
OffersOfFirst(c, cfg) ==
  {i \in Named(cfg, c.name) : i = First(Named(cfg, c.name)) /\ c.version \in cfg[i].versions}

\* The positions of the entries of cfg that offer a component.
Offers(c, cfg) == {i \in Named(cfg, c.name) : c.version \in cfg[i].versions}

\* Faulty variant of ResolveImage: the last offer.
ResolveLast(c, cfg) == [image |-> cfg[Max(Offers(c, cfg))].image, tag |-> c.version]

\* resolveImage: the first entry that offers the component, tagged with the
\* version.
ResolveImage(c, cfg) == [image |-> cfg[First(Offers(c, cfg))].image, tag |-> c.version]

Server == [name |-> "velero", version |-> version]

\* resolveImages fills a map by name, the server first, then the plugins in
\* order; the last component of a name stays.  One that is not offered makes
\* the result nil.
Requested == <<Server>> \o plugins
LastOf(name) ==
  Requested[CHOOSE i \in DOMAIN Requested :
              /\ Requested[i].name = name
              /\ \A j \in DOMAIN Requested : Requested[j].name = name => j <= i]
ResolveImages ==
  IF \E c \in ToSet(Requested) : Offers(c, config) = {}
    THEN NoImages
    ELSE [n \in {c.name : c \in ToSet(Requested)} |-> ResolveImage(LastOf(n), config)]

\* createObjectManager gets past the version and the images.
Accepted == InWindow(version) /\ ResolveImages # NoImages

\* The containers of the server deployment: images[veleroName], and for every
\* plugin an init container with images[plugin.Name].
ServerContainer == ResolveImages["velero"]
InitContainers  == [i \in DOMAIN plugins |-> ResolveImages[plugins[i].name]]

\* The pod template of the deployment for an MCP with the API server at url.
Pod(url) == TokenFunc(ServerPod(ServerContainer, InitContainers), url)

-----------------------------------------------------------------------------
Init == version \in Versions /\ plugins = <<>> /\ config = <<>>

RequestVersion ==
  /\ version' \in Versions \ {version}
  /\ UNCHANGED <<plugins, config>>

RequestPlugins ==
  /\ \/ Len(plugins) < MaxPlugins /\ \E c \in Components : plugins' = Append(plugins, c)
     \/ plugins # <<>> /\ plugins' = Front(plugins)
  /\ UNCHANGED <<version, config>>

OfferMore ==
  /\ Len(config) < MaxEntries
  /\ \E e \in Entries : config' = Append(config, e)
  /\ UNCHANGED <<version, plugins>>

OfferLess ==
  /\ config # <<>>
  /\ \E i \in DOMAIN config : config' = RemoveAt(config, i)
  /\ UNCHANGED <<version, plugins>>

Next == RequestVersion \/ RequestPlugins \/ OfferMore \/ OfferLess

Spec == Init /\ [][Next]_vars

-----------------------------------------------------------------------------
TypeOK ==
  /\ version \in Versions
  /\ plugins \in Seq(Components)
  /\ config \in Seq(Entries)

\* What the window means: releases 1.16 to 1.18, and because a pre-release comes
\* before its release, pre-releases of 1.17 to 1.19.
Window(v) == v.minor \in (IF v.pre THEN 17..19 ELSE 16..18)

\* The container of the i-th component requested: the server, then the plugins.
Container(i) == IF i = 1 THEN ServerContainer ELSE InitContainers[i - 1]

Listed(c, img) ==
  /\ img.tag = c.version
  /\ \E e \in ToSet(config) :
       e.name = c.name /\ c.version \in e.versions /\ e.image = img.image

LastOfItsName(i) ==
  \A j \in DOMAIN Requested : Requested[j].name = Requested[i].name => j <= i

\* An accepted request is in the window and runs as requested: each container has
\* the image of its component in the requested version from a location the
\* ProviderConfig lists for it.  Of several components with one name the last
\* decides for the containers of all of them.
RunsAsRequested ==
  Accepted =>
    /\ Window(version)
    /\ \A last, i \in DOMAIN Requested :
         LastOfItsName(last) /\ Requested[i].name = Requested[last].name
           => Listed(Requested[last], Container(i))

\* A request is refused only for a version outside of the window or a component
\* the ProviderConfig does not list in the requested version.
RefusedForAReason ==
  \/ Accepted
  \/ ~Window(version)
  \/ \E c \in ToSet(Requested) :
       \A e \in ToSet(config) : e.name = c.name => c.version \notin e.versions

\* Appending to availableImages disturbs no Velero that runs: it stays accepted
\* and its images stay the same.
AppendingIsSafe ==
  [][config # config' /\ config = Front(config') /\ Accepted
       => ResolveImages' = ResolveImages]_vars

\* URLs of API servers, and the host and port they stand for.
Urls == {[url  |-> prefix \o <<"api">> \o suffix,
          host |-> <<"api">>,
          port |-> IF suffix = <<>> THEN <<"443">> ELSE <<"6443">>] :
           prefix \in {<<>>, <<"https://">>}, suffix \in {<<>>, <<":", "6443">>}}

\* Every pod the API server is handed is one it takes, and every container in
\* it, for each of the plugins as well, has the token and knows where the API
\* server of the MCP is.
PodAuthenticates ==
  Accepted =>
    \A u \in Urls :
      /\ WellFormed(Pod(u.url))
      /\ \A c \in AllContainers(Pod(u.url)) : Authenticates(c, u.host, u.port)

\* Injecting the token into a pod that has it changes nothing: addOrReplace finds
\* what an earlier injection has put there.
InjectedOnce ==
  Accepted => \A u \in Urls : TokenFunc(Pod(u.url), u.url) = Pod(u.url)

\* README.md:50, "the controller-enforced range is a hard gate and cannot be
\* widened via ProviderConfig": the server container runs a version the gate
\* lets pass.
ServerInWindow == Accepted => InWindow(ServerContainer.tag)
=============================================================================
