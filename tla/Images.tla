------------------------------- MODULE Images -------------------------------
(***************************************************************************)
(* Image references (image.go): what a container record says of the image,  *)
(* from the PodSpec's string and the resolved id of the container status.   *)
(* A string is a sequence of tokens: the separators "/", ":", "@", "." and  *)
(* "docker-pullable://", and words that contain none of them; an absent     *)
(* part is the empty sequence.                                              *)
(***************************************************************************)
EXTENDS Integers, SequencesExt

CONSTANTS
    Tokens,         \* what strings are made of
    \* the references the description is checked on, part by part
    Registries, Paths, Tags, ContentDigests

\* strings.IndexByte and strings.LastIndex: a position, 0 if there is none.
IndexByte(s, t) == SelectInSeq(s, LAMBDA x : x = t)
LastIndex(s, t) == SelectLastInSeq(s, LAMBDA x : x = t)
Before(s, i) == SubSeq(s, 1, i - 1)
After(s, i) == SubSeq(s, i + 1, Len(s))

TrimPrefix(s, p) == IF IsPrefix(p, s) THEN After(s, Len(p)) ELSE s

\* Variant for the mutation runs: the first colon of the string, a port's included.
ColonAnywhere(s, from) == IndexByte(s, ":")

\* colonAfter.
ColonAfter(s, from) ==
    LET c == IndexByte(After(s, from), ":") IN IF c = 0 THEN 0 ELSE from + c

\* SplitImage: the spec's own tag and digest; without a digest in the spec the id's digest,
\* and its repository unless the spec's has both a slash and a dot.
SplitImage(spec, imageID) ==
    LET at    == LastIndex(spec, "@")
        ref   == IF at = 0 THEN spec ELSE Before(spec, at)
        c     == ColonAfter(ref, LastIndex(ref, "/"))
        own   == [repo |-> IF c = 0 THEN ref ELSE Before(ref, c),
                  tag |-> IF c = 0 THEN <<>> ELSE After(ref, c),
                  digest |-> IF at = 0 THEN <<>> ELSE After(spec, at)]
        id    == TrimPrefix(imageID, <<"docker-pullable://">>)
        idAt  == LastIndex(id, "@")
        takes == ~Contains(own.repo, "/") \/ ~Contains(own.repo, ".")
    IN  IF own.digest # <<>> \/ idAt = 0 THEN own
        ELSE [own EXCEPT !.digest = After(id, idAt),
                         !.repo = IF takes /\ idAt > 1 THEN Before(id, idAt) ELSE @]

LooksLikeHost(s) == Contains(s, ".") \/ Contains(s, ":") \/ s = <<"localhost">>

\* SplitImageName.
SplitImageName(full) ==
    LET i     == IndexByte(full, "/")
        first == Before(full, i)
        host  == IF i > 1 /\ LooksLikeHost(first) THEN first ELSE <<>>
        path  == IF host = <<>> THEN full ELSE After(full, i)
    IN  [registry |-> host,
         image |-> IF host = <<"docker", ".", "io">>
                   THEN TrimPrefix(path, <<"library", "/">>) ELSE path]

\* The two calls of EmitPod.
Describe(spec, imageID) ==
    LET s == SplitImage(spec, imageID)
        n == SplitImageName(s.repo)
    IN  [registry |-> n.registry, image |-> n.image, tag |-> s.tag, digest |-> s.digest]

-----------------------------------------------------------------------------
(* The reference definition: what an image reference says, and how it is written *)

Without(s, ts) == \A t \in ts : ~Contains(s, t)
Hub == <<"docker", ".", "io">>

\* The grammar of image references: a component, tag or digest has none of the separators
\* that set it off, a registry is a host, and docker.io is one.
ASSUME ImagesAssumption ==
    /\ {"/", ":", "@", ".", "docker-pullable://", "library"} \subseteq Tokens
    /\ Registries \cup Paths \cup Tags \cup ContentDigests \subseteq Seq(Tokens) \ {<<>>}
    /\ Hub \in Registries
    /\ \A s \in Registries : /\ LooksLikeHost(s) /\ Without(s, {"/", "@"})
                              /\ s[1] # "docker-pullable://"
    /\ \A s \in Paths : Without(s, {":", "@"})
    /\ \A s \in Tags : Without(s, {"/", "@"})
    /\ \A s \in ContentDigests : Without(s, {"@"})

NoImage == [registry |-> <<>>, path |-> <<>>, tag |-> <<>>, digest |-> <<>>]

\* [registry, path, tag, digest] as a string.
Written(r) ==
    (IF r.registry = <<>> THEN <<>> ELSE r.registry \o <<"/">>) \o r.path
    \o (IF r.tag = <<>> THEN <<>> ELSE <<":">> \o r.tag)
    \o (IF r.digest = <<>> THEN <<>> ELSE <<"@">> \o r.digest)

\* The references built from the parts.  A path whose first component would be read as a
\* host is written with its registry.
References ==
    {r \in [registry : Registries \cup {<<>>}, path : Paths, tag : Tags \cup {<<>>},
            digest : ContentDigests \cup {<<>>}] :
        r.registry = <<>> /\ Contains(r.path, "/")
            => ~LooksLikeHost(Before(r.path, IndexByte(r.path, "/")))}

\* Where a runtime pulls r from, as the kubelet reports it.
Pulled(r, digest) ==
    LET official == r.registry \in {<<>>, Hub} /\ ~Contains(r.path, "/")
    IN  [registry |-> IF r.registry = <<>> THEN Hub ELSE r.registry,
         path |-> IF official THEN <<"library", "/">> \o r.path ELSE r.path,
         tag |-> <<>>, digest |-> digest]

\* registry and image: docker.io's official images go without "library/".
Named(r) ==
    [registry |-> r.registry,
     image |-> IF r.registry = Hub THEN TrimPrefix(r.path, <<"library", "/">>) ELSE r.path]

\* What a record should say of image r whose resolved reference is id (NoImage: not yet):
\* r's own parts, and for what r leaves out the resolved ones -- the digest, and the
\* registry if r names neither a registry nor a digest.  (image.go:22 takes a path with a
\* slash and a dot for one with a registry.)
Says(r, id) ==
    LET resolved == id # NoImage /\ r.digest = <<>> /\ r.registry = <<>>
                    /\ ~(Contains(r.path, "/") /\ Contains(r.path, "."))
        n == Named(IF resolved THEN id ELSE r)
    IN  [registry |-> n.registry, image |-> n.image, tag |-> r.tag,
         digest |-> IF r.digest = <<>> THEN id.digest ELSE r.digest]
=============================================================================
