------------------------------- MODULE Records -------------------------------
(***************************************************************************)
(* From a cached object to its record: the cache transforms (transform.go), *)
(* the Emit functions and their kind names, the owner of a pod (pod.go),    *)
(* the Services an object refers to (refs.go) and Traefik's hosts.          *)
(* An object is [uid, resource, group, ns, name, rev, default, rules,       *)
(* owners]:                                                                 *)
(*   rev      stands for the value of every field without structure here    *)
(*            and tells the states of an object apart;                      *)
(*   default  the default backend of an Ingress, a sequence of at most one; *)
(*   rules    of an Ingress or a route, [match, backends] each: a backend   *)
(*            is [kind, ns, name], Absent where left out, and a match a     *)
(*            sequence of calls [fn, args] with args [text, paren, ticked]: *)
(*            paren tells that the text contains a ")", ticked that it is   *)
(*            written between backticks and not between quotes;             *)
(*   owners   ownerReferences: [kind, name, controller].                    *)
(***************************************************************************)
EXTENDS Integers, SequencesExt

Routes == {"httproutes", "grpcroutes", "tlsroutes", "tcproutes"}        \* IsRouteGVR
Traefik == {"ingressroutes", "ingressroutetcps", "ingressrouteudps"}
Gateway == Routes \cup {"gateways", "gatewayclasses"}
Typed == {"pods", "replicasets", "services", "endpointslices", "ingresses", "ingressclasses"}
Silent == {"replicasets"}       \* watched for PodOwner only
Absent == ""                    \* a name, kind or namespace that is left out

\* The parts of an object with structure.
BackendRef == [kind : STRING, ns : STRING, name : STRING]
MatchCall == [fn : STRING, args : Seq([text : STRING, paren : BOOLEAN, ticked : BOOLEAN])]
RouteRule == [match : Seq(MatchCall), backends : Seq(BackendRef)]
OwnerRef == [kind : STRING, name : STRING, controller : BOOLEAN]

-----------------------------------------------------------------------------
(* Fields *)

Meta == {"annotations", "managedFields", "finalizers"}
DynamicTrims == Meta \cup {"status.conditions", "status.listeners", "status.parents"}
ContainerTrims ==       \* stripContainer, stripEphemeral
    {"command", "args", "env", "envFrom", "volumeMounts", "volumeDevices", "resources",
     "livenessProbe", "readinessProbe", "startupProbe", "lifecycle", "securityContext", "ports"}

PodTrims == Meta \cup ContainerTrims \cup
    {"volumes", "nodeSelector", "tolerations", "affinity", "topologySpreadConstraints",
     "schedulingGates", "readinessGates", "imagePullSecrets", "hostAliases",
     "status.conditions", "status.podIPs", "lastTerminationState"}
ReplicaSetTrims == Meta \cup {"labels", "spec", "status"}

\* The fields removed before an object enters the cache of its informer.
Trims(r) ==
    CASE r = "pods" -> PodTrims
      [] r = "replicasets" -> ReplicaSetTrims
      [] r = "services" -> Meta \cup {"status.conditions"}
      [] r \in Gateway \cup Traefik -> DynamicTrims
      [] OTHER -> Meta

\* The fields the Emit functions, refs.go and PodOwner read, next to uid, namespace and
\* name; "rules" stands for Traefik's routes too.
PodReads == {"labels", "owners", "phase", "image", "imageID"}
ServiceReads == {"labels", "type", "clusterIPs", "externalIPs", "externalName", "selector",
                 "servicePorts", "status.loadBalancer"}
EndpointSliceReads == {"labels", "addressType", "endpoints", "endpointPorts"}
IngressReads == {"labels", "ingressClassName", "default", "rules", "tls", "status.loadBalancer"}
ClassReads == {"labels", "controller"}
GatewayReads == {"labels", "gatewayClassName", "listeners", "spec.addresses", "status.addresses"}
RouteReads == {"labels", "parentRefs", "hostnames", "rules"}
TraefikReads == {"labels", "entryPoints", "rules", "tls"}

Reads(r) ==
    CASE r = "pods" -> PodReads
      [] r = "replicasets" -> {"owners"}
      [] r = "services" -> ServiceReads
      [] r = "endpointslices" -> EndpointSliceReads
      [] r = "ingresses" -> IngressReads
      [] r \in {"ingressclasses", "gatewayclasses"} -> ClassReads
      [] r = "gateways" -> GatewayReads
      [] r \in Routes -> RouteReads
      [] r \in Traefik -> TraefikReads

Kept(r) == Reads(r) \ Trims(r)

\* The object as it enters the cache.
Trim(o) ==
    LET kept(field, value) == IF field \in Kept(o.resource) THEN value ELSE <<>>
    IN  [o EXCEPT !.default = kept("default", @), !.rules = kept("rules", @),
                  !.owners = kept("owners", @)]

-----------------------------------------------------------------------------
(* Kinds *)

\* The kinds EmitGatewayAPI hands to its emit functions.
GatewayKind == [gateways |-> "Gateway", gatewayclasses |-> "GatewayClass",
                httproutes |-> "HTTPRoute", grpcroutes |-> "GRPCRoute",
                tlsroutes |-> "TLSRoute", tcproutes |-> "TCPRoute"]

\* traefikKindFromResource, in records and DELETE and SNAPSHOT lines.
TraefikKind == [ingressroutes |-> "IngressRoute", ingressroutetcps |-> "IngressRouteTCP",
                ingressrouteudps |-> "IngressRouteUDP"]

TypedKind == [pods |-> "Container", services |-> "Service", endpointslices |-> "EndpointSlice",
              ingresses |-> "Ingress", ingressclasses |-> "IngressClass"]

EmitKind(r) == IF r \in Gateway THEN GatewayKind[r]
               ELSE IF r \in Traefik THEN TraefikKind[r] ELSE TypedKind[r]

\* The kind of DELETE and SNAPSHOT lines: kindFromResource has a switch of its own.
KindFromResource(r) ==
    LET gateway == [gateways |-> "Gateway", gatewayclasses |-> "GatewayClass",
                    httproutes |-> "HTTPRoute", grpcroutes |-> "GRPCRoute",
                    tlsroutes |-> "TLSRoute", tcproutes |-> "TCPRoute"]
    IN  IF r \in Gateway THEN gateway[r] ELSE EmitKind(r)

-----------------------------------------------------------------------------
(* Owners *)

NoOwner == [kind |-> "-", name |-> "-"]

\* The first controlling reference, if any.
Controllers(refs) == SelectSeq(refs, LAMBDA x : x.controller)
Named(ref) == [kind |-> ref.kind, name |-> ref.name]

\* PodOwner, given the cached ReplicaSets: the controller or else the first owner, and of a
\* ReplicaSet that is cached its own controller.
PodOwner(pod, replicaSets) ==
    LET refs   == pod.owners
        direct == IF Controllers(refs) # <<>> THEN Named(Controllers(refs)[1])
                  ELSE IF refs # <<>> THEN Named(refs[1]) ELSE NoOwner
        above  == {rs \in replicaSets : /\ direct.kind = "ReplicaSet" /\ rs.name = direct.name
                                         /\ rs.ns = pod.ns /\ Controllers(rs.owners) # <<>>}
    IN  IF above = {} THEN direct
        ELSE Named(Controllers((CHOOSE rs \in above : TRUE).owners)[1])

-----------------------------------------------------------------------------
(* Backends *)

\* A set: nothing depends on their order, or on how often one is named.
AllBackends(o) == UNION {ToSet(o.rules[i].backends) : i \in DOMAIN o.rules}
IsService(b) == b.kind \in {Absent, "Service"} /\ b.name # Absent

\* Variant for the mutation runs: the namespace of a reference is not defaulted.
TargetBare(o, b) == [ns |-> b.ns, name |-> b.name]

Target(o, b) == [ns |-> IF b.ns = Absent THEN o.ns ELSE b.ns, name |-> b.name]

\* IngressBackends, RouteBackends, TraefikBackends: the Services an object refers to, which
\* RefreshBackendServices emits again and BackendTargetsToKeys indexes the object by, each
\* once.  (An Ingress backend has no namespace of its own.)
Targets(o) ==
    {Target(o, b) : b \in {x \in ToSet(o.default) \cup AllBackends(o) : IsService(x)}}

\* TraefikBackends, as the record shows it.
TraefikBackends(o) ==
    {[kind |-> "Service", ns |-> Target(o, b).ns, name |-> b.name] :
        b \in {x \in AllBackends(o) : IsService(x)}}

\* The backends of a record: EmitIngress leaves the default backend out,
\* collectRouteBackends takes every reference as it is.
RecordBackends(o) == IF o.resource \in Traefik THEN TraefikBackends(o) ELSE AllBackends(o)

-----------------------------------------------------------------------------
(* Hosts *)

HostMatchers == {"Host", "HostSNI", "HostHeader", "HostRegexp"}
Calls(o) == FlattenSeq([i \in DOMAIN o.rules |-> o.rules[i].match])

\* Variant for the mutation runs: hosts of several routes are listed once for each.
EachHost(hosts) == hosts

\* seen, of ExtractTraefikHosts: what has been kept of the first n hosts.
Once(hosts) ==
    LET kept[n \in 0..Len(hosts)] ==
            IF n = 0 THEN <<>>
            ELSE IF hosts[n] \in ToSet(kept[n - 1]) THEN kept[n - 1]
            ELSE Append(kept[n - 1], hosts[n])
    IN  kept[Len(hosts)]

\* hostMatcherRe ends a call at its first ")": an argument that contains one is cut, its
\* closing backtick is gone, and it and what follows it are not found.  Nor are arguments
\* without backticks (backtickedRe).
Found(call) ==
    LET cut == SelectInSeq(call.args, LAMBDA a : a.paren)
        args == IF cut = 0 THEN call.args ELSE SubSeq(call.args, 1, cut - 1)
        host(a) == IF a.ticked THEN <<a.text>> ELSE <<>>
    IN  IF call.fn \in HostMatchers THEN FlattenSeq([i \in DOMAIN args |-> host(args[i])])
        ELSE <<>>

ExtractTraefikHosts(o) ==
    LET calls == Calls(o) IN Once(FlattenSeq([i \in DOMAIN calls |-> Found(calls[i])]))

-----------------------------------------------------------------------------
(* Records *)

\* The record of o, watched under version gv, that shows the given fields; replicaSets are
\* those PodOwner finds in their cache.
Record(gv, o, fields, replicaSets) ==
    [kind |-> EmitKind(o.resource), uid |-> o.uid, version |-> gv, rev |-> o.rev,
     fields |-> fields, backends |-> RecordBackends(o),
     owner |-> IF o.resource = "pods" THEN PodOwner(o, replicaSets) ELSE NoOwner,
     hosts |-> IF o.resource \in Traefik THEN ExtractTraefikHosts(o) ELSE <<>>]
=============================================================================
