------------------------------- MODULE Config -------------------------------
(***************************************************************************)
(* What Load of internal/mcpsrv/config.go makes of a configuration file:    *)
(* inheritance over the three levels of the file (cluster.go), the check    *)
(* that secrets are references, the expansion of environment variables      *)
(* (expand.go), defaults, and Validate of the postgres source.              *)
(*                                                                         *)
(* A document is what is left of a file that parsed and matched the schema: *)
(* a global level, and environments with a level of their own and clusters. *)
(* A level maps top-level keys to values and group keys (connection,        *)
(* databases, pool, timeouts) to objects, which map keys to values.  Every  *)
(* key may be missing.  A setting is named <<group, key>>, or <<Top, key>>  *)
(* when it stands in no group.                                             *)
(*                                                                         *)
(* A value is written as a literal, [lit |-> t], as ${v}, [ref |-> v], or   *)
(* as ${v:-t}, [ref |-> v, or |-> t].                                       *)
(***************************************************************************)
EXTENDS Naturals

CONSTANTS
    Top,           \* stands for "in no group"
    Groups,        \* keys whose values are objects
    Fields,        \* every setting a cluster may inherit
    SecretFields,  \* those tagged mcpsrv:"secret"
    Required,      \* those Validate wants a value for
    Texts,         \* values, expanded
    Empty,         \* the zero value: "" or 0
    Unfit,         \* field -> values that match the schema and not the type: they overflow it
    Invalid,       \* field -> values Validate refuses: out of range, a broken glob
    Defaults       \* field -> its default

ASSUME ConfigAssumption ==
    /\ Top \notin Groups
    /\ \A f \in Fields : f = <<f[1], f[2]>>
    /\ \A f \in Fields : f[1] \in Groups \/ (f[1] = Top /\ f[2] \notin Groups)
    /\ SecretFields \subseteq Fields /\ Required \subseteq Fields
    /\ Defaults \in [Fields -> Texts]
    /\ \A f \in Fields : Defaults[f] \notin Unfit[f]

------------------------------------------------------------------------------
(* Levels *)

\* A level says something about a setting.
Has(level, f) ==
    IF f[1] = Top THEN f[2] \in DOMAIN level
                  ELSE f[1] \in DOMAIN level /\ f[2] \in DOMAIN level[f[1]]

At(level, f) == IF f[1] = Top THEN level[f[2]] ELSE level[f[1]][f[2]]

\* src on top of dst, value by value.
Overlay(dst, src) ==
    [k \in DOMAIN dst \cup DOMAIN src |-> IF k \in DOMAIN src THEN src[k] ELSE dst[k]]

\* Mistake: an object replaces the object it inherits, as a list does.
InheritShallow(dst, src) == Overlay(dst, src)

\* Objects merge, anything else is replaced whole.  There are no objects inside groups.
Inherit(dst, src) ==
    [k \in DOMAIN dst \cup DOMAIN src |->
        IF k \in Groups \cap DOMAIN dst \cap DOMAIN src
        THEN Overlay(dst[k], src[k])
        ELSE Overlay(dst, src)[k]]

------------------------------------------------------------------------------
(* Values *)

BareRef(w) == DOMAIN w = {"ref"}

CheckSecrets(level) == \A f \in SecretFields : Has(level, f) => BareRef(At(level, f))

Missing(w, environ) == BareRef(w) /\ w.ref \notin DOMAIN environ

\* Mistake: a reference stays what it is.
ExpandNothing(w, environ) == IF "ref" \in DOMAIN w THEN w.ref ELSE w.lit

Expand(w, environ) ==
    IF "ref" \notin DOMAIN w THEN w.lit
    ELSE IF w.ref \in DOMAIN environ THEN environ[w.ref] ELSE w.or

\* A level has a value for what it says, and one its type can take.
Fits(w, f, environ) == ~Missing(w, environ) /\ Expand(w, environ) \notin Unfit[f]

\* decode fails on a literal secret, a variable that is not set, a value that overflows ...
Decodes(level, environ) ==
    /\ CheckSecrets(level)
    /\ \A f \in Fields : Has(level, f) => Fits(At(level, f), f, environ)

\* ... or gives the settings of the level on top of the defaults.
Decode(level, environ) ==
    [f \in Fields |-> IF Has(level, f) THEN Expand(At(level, f), environ) ELSE Defaults[f]]

Validate(cfg) ==
    /\ \A f \in Required : cfg[f] # Empty
    /\ \A f \in Fields : cfg[f] \notin Invalid[f]

------------------------------------------------------------------------------
(* Documents *)

IsWritten(w) ==
    \/ w \in [lit : Texts]
    \/ DOMAIN w = {"ref"}
    \/ DOMAIN w = {"ref", "or"} /\ w.or \in Texts

IsLevel(level) == \A f \in Fields : Has(level, f) => IsWritten(At(level, f))

IsDocument(doc) ==
    /\ IsLevel(doc.global)
    /\ \A e \in DOMAIN doc.environments :
         /\ IsLevel(doc.environments[e].own)
         /\ \A c \in DOMAIN doc.environments[e].clusters :
              IsLevel(doc.environments[e].clusters[c])

Addresses(doc) ==
    UNION {{e} \X DOMAIN doc.environments[e].clusters : e \in DOMAIN doc.environments}

EnvironmentLevel(doc, e) == Inherit(doc.global, doc.environments[e].own)

ClusterLevel(doc, a) ==
    Inherit(EnvironmentLevel(doc, a[1]), doc.environments[a[1]].clusters[a[2]])

ClustersLoad(doc, environ) ==
    \A a \in Addresses(doc) :
        /\ Decodes(ClusterLevel(doc, a), environ)
        /\ Validate(Decode(ClusterLevel(doc, a), environ))

\* Mistake: secrets are checked where they end up only.
LoadsMerged(doc, environ) ==
    /\ DOMAIN doc.environments # {}
    /\ Decodes(doc.global, environ)
    /\ \A e \in DOMAIN doc.environments : DOMAIN doc.environments[e].clusters # {}
    /\ ClustersLoad(doc, environ)

\* Mistake: an environment's level is decoded, as the global one is.
LoadsEveryLevel(doc, environ) ==
    /\ LoadsMerged(doc, environ)
    /\ \A e \in DOMAIN doc.environments : Decodes(EnvironmentLevel(doc, e), environ)

\* Load finds nothing wrong; which of several faults it reports is not modelled.
Loads(doc, environ) ==
    /\ DOMAIN doc.environments # {}
    /\ Decodes(doc.global, environ)
    /\ \A e \in DOMAIN doc.environments :
         /\ DOMAIN doc.environments[e].clusters # {}
         /\ CheckSecrets(EnvironmentLevel(doc, e))
    /\ ClustersLoad(doc, environ)

Inventory(doc, environ) ==
    [a \in Addresses(doc) |-> Decode(ClusterLevel(doc, a), environ)]

------------------------------------------------------------------------------
(* What an operator means by a document, without merging anything *)

\* The lowest level that says something about f has the word; if none does, the default.
Word(doc, a, f) ==
    LET env     == doc.environments[a[1]]
        cluster == env.clusters[a[2]]
    IN  IF Has(cluster, f) THEN At(cluster, f)
        ELSE IF Has(env.own, f) THEN At(env.own, f)
        ELSE IF Has(doc.global, f) THEN At(doc.global, f)
        ELSE [lit |-> Defaults[f]]

InForce(doc, a, f, environ) == Expand(Word(doc, a, f), environ)

\* Every level is free of literal secrets.
NoLiterals(doc) ==
    /\ CheckSecrets(doc.global)
    /\ \A e \in DOMAIN doc.environments : CheckSecrets(doc.environments[e].own)
    /\ \A a \in Addresses(doc) : CheckSecrets(doc.environments[a[1]].clusters[a[2]])

\* A file a server can work with: something to reach in every environment, no
\* literal secrets, and a proper value for everything in force at an address.  The
\* global level is in force by itself: it configures the server, so it has to fit its types
\* even where every cluster overrides it, but not to be complete or in range.
Usable(doc, environ) ==
    /\ DOMAIN doc.environments # {}
    /\ \A e \in DOMAIN doc.environments : DOMAIN doc.environments[e].clusters # {}
    /\ NoLiterals(doc)
    /\ \A f \in Fields : Has(doc.global, f) => Fits(At(doc.global, f), f, environ)
    /\ \A a \in Addresses(doc), f \in Fields :
         /\ Fits(Word(doc, a, f), f, environ)
         /\ InForce(doc, a, f, environ) \notin Invalid[f]
         /\ f \in Required => InForce(doc, a, f, environ) # Empty
=============================================================================
