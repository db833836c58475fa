---------------------------- MODULE MCRorIdentity ----------------------------
(* Instances of RorIdentity: the cluster's records before and after ROR's      *)
(* slug -> UUID migration, and one that carries no clusterId and no name yet.  *)
EXTENDS RorIdentity

BySlug == [UID |-> "slug", Slug |-> "slug", Name |-> "web", Environment |-> "prod"]
ByUUID == [UID |-> "uuid", Slug |-> "slug", Name |-> "web", Environment |-> "prod"]
Bare   == [UID |-> "uuid", Slug |-> Unset, Name |-> Unset, Environment |-> Unset]

AllBindings == {BySlug, ByUUID, Bare}
FullBindings == {BySlug, ByUUID}
=============================================================================
