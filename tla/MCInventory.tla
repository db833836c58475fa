----------------------------- MODULE MCInventory -----------------------------
(* Instances of Inventory: an HTTPRoute served in two versions and IngressRoutes *)
(* of Traefik's two groups that come and go with their CRDs, and residents of    *)
(* every resource with every content of a few backends, matches and owners.      *)
EXTENDS Inventory

Gw == "gateway.networking.k8s.io"
V1 == <<Gw, "v1">>
V1beta1 == <<Gw, "v1beta1">>
Io == <<"traefik.io", "v1">>
IoAlpha == <<"traefik.io", "v1alpha1">>
Containo == <<"traefik.containo.us", "v1alpha1">>

MCGatewayGVs == {V1, V1beta1}
MCTraefikGVs == <<Io, IoAlpha, Containo>>
MCRank == [v \in {V1, V1beta1, Io, IoAlpha, Containo} |->
              IF v = V1 THEN 3 ELSE IF v = Containo THEN 1 ELSE 2]
MCOffered == {<<V1, "httproutes">>, <<V1beta1, "httproutes">>,
              <<Io, "ingressroutes">>, <<IoAlpha, "ingressroutes">>, <<Containo, "ingressroutes">>}

Object(uid, resource, group, name, rev) ==
    [uid |-> uid, resource |-> resource, group |-> group, ns |-> "ns", name |-> name, rev |-> rev,
     default |-> <<>>, rules |-> <<>>, owners |-> <<>>]
Rule(match, backends) == [match |-> match, backends |-> backends]

\* A route to the Service "web", which may be created again under another uid.
Route(rev) ==
    [Object("route", "httproutes", Gw, "route", rev) EXCEPT
        !.rules = <<Rule(<<>>, <<[kind |-> "", ns |-> "", name |-> "web"]>>)>>]
Web(uid, rev) == Object(uid, "services", "", "web", rev)
Legacy == Object("legacy", "ingressroutes", "traefik.containo.us", "route", 1)

MCObjects == {Route(1), Route(2), Web("web", 1), Web("web", 2), Web("again", 1), Legacy}
MCInitial == {{Route(1), Web("web", 1)}}

MCBatches == <<Typed \ Silent, GatewayResources, TraefikResources>>

-----------------------------------------------------------------------------
GroupFor(r) == IF r \in Gateway THEN Gw ELSE IF r \in Traefik THEN "traefik.io" ELSE ""

UpTo2(S) == {<<>>} \cup {<<x>> : x \in S} \cup (S \X S)
Backends == [kind : {"", "Service", "TraefikService"}, ns : {"", "far"}, name : {"", "web"}]
IngressBackend == [kind : {"Service", "StorageBucket"}, ns : {""}, name : {"web", "api"}]
Arg(text) == [text |-> text, paren |-> text = "(a|b)", ticked |-> text # "c.io"]
OneArg == {Arg("a.io"), Arg("b.io"), Arg("c.io"), Arg("(a|b)")}
HostCalls == [fn : {"Host", "HostSNI", "PathPrefix"}, args : UpTo2(OneArg) \ {<<>>}]
OtherCalls == [fn : {"Host", "PathPrefix"}, args : {<<a>> : a \in OneArg}]

Owner(kind, controller) == [kind |-> kind, name |-> kind, controller |-> controller]
PodOwners == UpTo2({Owner(k, c) : k \in {"ReplicaSet", "Node"}, c \in BOOLEAN})
ReplicaSetOwners == UpTo2({Owner("Deployment", TRUE), Owner("Rollout", FALSE)})

Plain == {{Object("o", r, GroupFor(r), "o", 1)} : r \in All}
WithRoutes ==
    {{[Object("o", r, GroupFor(r), "o", 1) EXCEPT !.rules = <<Rule(<<>>, bs)>>]} :
        r \in {"httproutes", "ingressroutetcps"}, bs \in UpTo2(Backends)}
WithIngress ==
    {{[Object("o", "ingresses", "", "o", 1) EXCEPT !.default = d,
                                              !.rules = <<Rule(<<>>, bs), Rule(<<>>, <<b>>)>>]} :
        d \in {<<>>} \cup {<<b>> : b \in IngressBackend}, bs \in UpTo2(IngressBackend),
        b \in IngressBackend}
WithHosts ==
    {{[Object("o", "ingressroutes", GroupFor("ingressroutes"), "o", 1)
          EXCEPT !.rules = <<Rule(<<c>>, <<>>), Rule(<<d>>, <<>>)>>]} :
        c \in HostCalls, d \in OtherCalls}
WithOwners ==
    {{[Object("pod", "pods", "", "pod", 1) EXCEPT !.owners = po],
      [Object("rs", "replicasets", "", "ReplicaSet", 1) EXCEPT !.owners = ro]} :
        po \in PodOwners, ro \in ReplicaSetOwners}

MCResident == Plain \cup WithRoutes \cup WithIngress \cup WithHosts \cup WithOwners
=============================================================================
