---------------------------- MODULE MCCollector ----------------------------
(* Instances of Collector for TLC, in EmitFullSnapshot's order: one Service and *)
(* one Ingress that points at it (twice, as two paths of one rule may), or a    *)
(* pod and the one that takes its name.                                         *)
EXTENDS Collector

CONSTANTS svc, ing, pod, again

MCObjects == {svc, ing, pod, again}
MCKinds == <<"Container", "Service", "Ingress">>
MCKindOf == [o \in MCObjects |->
                CASE o = svc -> "Service" [] o = ing -> "Ingress" [] OTHER -> "Container"]
MCNameOf == [o \in MCObjects |-> IF o = again THEN pod ELSE o]
MCBackends == [o \in MCObjects |-> IF o = ing THEN <<svc, svc>> ELSE <<>>]
Both == {{svc, ing}, {pod, again}}
First == {{svc, ing}}
=============================================================================
