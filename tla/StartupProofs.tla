--------------------------- MODULE StartupProofs ---------------------------
(***************************************************************************)
(* Proofs about Config and Startup.  The first part needs no behaviours:    *)
(* merging level by level (Inherit) puts the word of the lowest level that  *)
(* speaks at every address, so what Load accepts and serves is what the     *)
(* reference definitions of Config ask for.  The second part follows one    *)
(* start through the file system.                                          *)
(***************************************************************************)
EXTENDS Startup, TLAPS

------------------------------------------------------------------------------
(* Inheritance *)

\* A level inherits what it does not say, and says itself what it says.
LEMMA InheritLaw ==
    ASSUME NEW dst, NEW src, NEW f \in Fields
    PROVE  /\ Has(Inherit(dst, src), f) <=> Has(dst, f) \/ Has(src, f)
           /\ Has(src, f) => At(Inherit(dst, src), f) = At(src, f)
           /\ ~Has(src, f) /\ Has(dst, f) => At(Inherit(dst, src), f) = At(dst, f)
<1> DEFINE out == Inherit(dst, src)
<1>0. /\ DOMAIN out = DOMAIN dst \cup DOMAIN src
      /\ \A k \in DOMAIN out :
           out[k] = IF k \in Groups \cap DOMAIN dst \cap DOMAIN src
                    THEN Overlay(dst[k], src[k])
                    ELSE IF k \in DOMAIN src THEN src[k] ELSE dst[k]
  BY DEF Inherit, Overlay
<1> HIDE DEF out
<1>1. CASE f[1] = Top
  <2>1. f[2] \notin Groups
    BY <1>1, ConfigAssumption
  <2> QED BY <1>0, <1>1, <2>1 DEF Has, At, out
<1>2. CASE f[1] # Top
  <2>1. f[1] \in Groups
    BY <1>2, ConfigAssumption
  <2>2. CASE f[1] \in DOMAIN dst \cap DOMAIN src
    <3> DEFINE o == Overlay(dst[f[1]], src[f[1]])
    <3>1. /\ DOMAIN o = DOMAIN dst[f[1]] \cup DOMAIN src[f[1]]
          /\ \A k \in DOMAIN o : o[k] = IF k \in DOMAIN src[f[1]] THEN src[f[1]][k] ELSE dst[f[1]][k]
      BY DEF Overlay
    <3> HIDE DEF o
    <3>2. f[1] \in DOMAIN out /\ out[f[1]] = o
      BY <1>0, <2>1, <2>2 DEF o
    <3> QED BY <1>2, <2>2, <3>1, <3>2 DEF Has, At, out
  <2>3. CASE f[1] \notin DOMAIN dst \cap DOMAIN src
    <3>1. f[1] \in DOMAIN out => out[f[1]] = IF f[1] \in DOMAIN src THEN src[f[1]] ELSE dst[f[1]]
      BY <1>0, <2>3
    <3> QED BY <1>0, <1>2, <2>3, <3>1 DEF Has, At, out
  <2> QED BY <2>2, <2>3
<1> QED BY <1>1, <1>2

\* The level merged for an address has the lowest word on every setting.
LEMMA ClusterLevelHasTheWord ==
    ASSUME NEW doc, NEW a, NEW f \in Fields
    PROVE  /\ Has(ClusterLevel(doc, a), f) => At(ClusterLevel(doc, a), f) = Word(doc, a, f)
           /\ ~Has(ClusterLevel(doc, a), f) => Word(doc, a, f) = [lit |-> Defaults[f]]
           /\ Has(ClusterLevel(doc, a), f) <=>
                \/ Has(doc.global, f) \/ Has(doc.environments[a[1]].own, f)
                \/ Has(doc.environments[a[1]].clusters[a[2]], f)
<1> DEFINE own == doc.environments[a[1]].own
           cluster == doc.environments[a[1]].clusters[a[2]]
           level == EnvironmentLevel(doc, a[1])
<1>1. level = Inherit(doc.global, own) /\ ClusterLevel(doc, a) = Inherit(level, cluster)
  BY DEF EnvironmentLevel, ClusterLevel
<1>2. Word(doc, a, f) = IF Has(cluster, f) THEN At(cluster, f)
                        ELSE IF Has(own, f) THEN At(own, f)
                        ELSE IF Has(doc.global, f) THEN At(doc.global, f)
                        ELSE [lit |-> Defaults[f]]
  BY DEF Word
<1> HIDE DEF own, cluster, level
<1>3. /\ Has(level, f) <=> Has(doc.global, f) \/ Has(own, f)
      /\ Has(own, f) => At(level, f) = At(own, f)
      /\ ~Has(own, f) /\ Has(doc.global, f) => At(level, f) = At(doc.global, f)
  BY <1>1, InheritLaw
<1>4. /\ Has(ClusterLevel(doc, a), f) <=> Has(level, f) \/ Has(cluster, f)
      /\ Has(cluster, f) => At(ClusterLevel(doc, a), f) = At(cluster, f)
      /\ ~Has(cluster, f) /\ Has(level, f) => At(ClusterLevel(doc, a), f) = At(level, f)
  BY <1>1, InheritLaw
<1> QED BY <1>2, <1>3, <1>4 DEF own, cluster

\* ... and decoding it gives every setting the value in force.
LEMMA DecodeInForce ==
    ASSUME NEW doc, NEW a, NEW f \in Fields, NEW e
    PROVE  Decode(ClusterLevel(doc, a), e)[f] = InForce(doc, a, f, e)
<1>1. Decode(ClusterLevel(doc, a), e)[f] =
        IF Has(ClusterLevel(doc, a), f) THEN Expand(At(ClusterLevel(doc, a), f), e) ELSE Defaults[f]
  BY DEF Decode
<1>2. Expand([lit |-> Defaults[f]], e) = Defaults[f]
  BY DEF Expand
<1> QED BY <1>1, <1>2, ClusterLevelHasTheWord DEF InForce

\* Merging hides a literal secret of the global level and of an environment, which is why
\* Load looks at each: the merged levels are clean, checked like this, iff all three are.
LEMMA SecretsOnEveryLevel ==
    ASSUME NEW doc
    PROVE  NoLiterals(doc) <=>
             /\ CheckSecrets(doc.global)
             /\ \A e \in DOMAIN doc.environments : CheckSecrets(EnvironmentLevel(doc, e))
             /\ \A a \in Addresses(doc) : CheckSecrets(ClusterLevel(doc, a))
<1>1. ASSUME NEW dst, NEW src, CheckSecrets(dst)
      PROVE  CheckSecrets(Inherit(dst, src)) <=> CheckSecrets(src)
  <2>1. ASSUME NEW f \in SecretFields
        PROVE  (Has(Inherit(dst, src), f) => BareRef(At(Inherit(dst, src), f)))
                 <=> (Has(src, f) => BareRef(At(src, f)))
    <3>1. f \in Fields
      BY ConfigAssumption
    <3>2. Has(dst, f) => BareRef(At(dst, f))
      BY <1>1 DEF CheckSecrets
    <3> QED BY <3>1, <3>2, InheritLaw
  <2> QED BY <2>1 DEF CheckSecrets
<1>2. \A a \in Addresses(doc) : a[1] \in DOMAIN doc.environments
  BY DEF Addresses
<1>3. ASSUME CheckSecrets(doc.global), NEW e \in DOMAIN doc.environments
      PROVE  CheckSecrets(EnvironmentLevel(doc, e)) <=> CheckSecrets(doc.environments[e].own)
  BY <1>1, <1>3 DEF EnvironmentLevel
<1>4. ASSUME NEW a \in Addresses(doc), CheckSecrets(EnvironmentLevel(doc, a[1]))
      PROVE  CheckSecrets(ClusterLevel(doc, a)) <=>
               CheckSecrets(doc.environments[a[1]].clusters[a[2]])
  BY <1>1, <1>4 DEF ClusterLevel
<1> QED BY <1>2, <1>3, <1>4 DEF NoLiterals

------------------------------------------------------------------------------
(* Load *)

\* Load accepts exactly the documents that are usable, for every document and environment.
THEOREM LoadsTheUsable ==
    ASSUME NEW doc, NEW e
    PROVE  Loads(doc, e) <=> Usable(doc, e)
<1> DEFINE Shape == /\ DOMAIN doc.environments # {}
                    /\ \A n \in DOMAIN doc.environments : DOMAIN doc.environments[n].clusters # {}
           Global == \A f \in Fields : Has(doc.global, f) => Fits(At(doc.global, f), f, e)
           Known == \A a \in Addresses(doc), f \in Fields : Fits(Word(doc, a, f), f, e)
           Valid == \A a \in Addresses(doc), f \in Fields :
                      /\ InForce(doc, a, f, e) \notin Invalid[f]
                      /\ f \in Required => InForce(doc, a, f, e) # Empty
<1>1. Known <=> \A a \in Addresses(doc), f \in Fields :
                  Has(ClusterLevel(doc, a), f) => Fits(At(ClusterLevel(doc, a), f), f, e)
  <2>1. \A f \in Fields : Fits([lit |-> Defaults[f]], f, e)
    BY ConfigAssumption DEF Fits, Missing, BareRef, Expand
  <2> QED BY <2>1, ClusterLevelHasTheWord
<1>2. Valid <=> \A a \in Addresses(doc) : Validate(Decode(ClusterLevel(doc, a), e))
  <2>1. ASSUME NEW a \in Addresses(doc)
        PROVE  Validate(Decode(ClusterLevel(doc, a), e)) <=>
                 \A f \in Fields : /\ InForce(doc, a, f, e) \notin Invalid[f]
                                   /\ f \in Required => InForce(doc, a, f, e) # Empty
    <3>1. \A f \in Fields : Decode(ClusterLevel(doc, a), e)[f] = InForce(doc, a, f, e)
      BY DecodeInForce
    <3>2. Required \subseteq Fields
      BY ConfigAssumption
    <3> QED BY <3>1, <3>2 DEF Validate
  <2> QED BY <2>1
<1>3. Loads(doc, e) <=>
        /\ Shape
        /\ CheckSecrets(doc.global) /\ Global
        /\ \A n \in DOMAIN doc.environments : CheckSecrets(EnvironmentLevel(doc, n))
        /\ \A a \in Addresses(doc) : CheckSecrets(ClusterLevel(doc, a))
        /\ Known /\ Valid
  <2>1. ClustersLoad(doc, e) <=>
          (\A a \in Addresses(doc) : CheckSecrets(ClusterLevel(doc, a))) /\ Known /\ Valid
    <3> HIDE DEF Known, Valid
    <3> QED BY <1>1, <1>2 DEF ClustersLoad, Decodes
  <2> HIDE DEF Known, Valid
  <2> QED BY <2>1 DEF Loads, Decodes
<1>4. Usable(doc, e) <=> Shape /\ NoLiterals(doc) /\ Global /\ Known /\ Valid
  BY DEF Usable
<1> HIDE DEF Shape, Global, Known, Valid
<1> QED BY <1>3, <1>4, SecretsOnEveryLevel

\* What Load serves is in force, and has a value.
LEMMA InventoryInForce ==
    ASSUME NEW doc \in Documents, NEW e \in Environs, Loads(doc, e)
    PROVE  /\ DOMAIN Inventory(doc, e) = Addresses(doc)
           /\ \A a \in Addresses(doc), f \in Fields : Inventory(doc, e)[a][f] = InForce(doc, a, f, e)
           /\ \A a \in Addresses(doc) : Inventory(doc, e)[a] \in [Fields -> Texts]
<1>1. /\ DOMAIN Inventory(doc, e) = Addresses(doc)
      /\ \A a \in Addresses(doc) : Inventory(doc, e)[a] = Decode(ClusterLevel(doc, a), e)
  BY DEF Inventory
<1>2. ASSUME NEW a \in Addresses(doc), NEW f \in Fields
      PROVE  InForce(doc, a, f, e) \in Texts
  <2>1. IsWritten(Word(doc, a, f))
    <3>1. a[1] \in DOMAIN doc.environments /\ a[2] \in DOMAIN doc.environments[a[1]].clusters
      BY DEF Addresses
    <3>2. /\ IsLevel(doc.global) /\ IsLevel(doc.environments[a[1]].own)
          /\ IsLevel(doc.environments[a[1]].clusters[a[2]])
      BY <3>1, StartupAssumption DEF IsDocument
    <3>3. Defaults[f] \in Texts
      BY ConfigAssumption
    <3> QED BY <3>2, <3>3 DEF IsLevel, IsWritten, Word
  <2>2. ~Missing(Word(doc, a, f), e)
    BY LoadsTheUsable DEF Usable, Fits
  <2>3. \A v \in DOMAIN e : e[v] \in Texts
    BY StartupAssumption
  <2>4. ASSUME NEW w, IsWritten(w), ~Missing(w, e)
        PROVE  Expand(w, e) \in Texts
    <3>1. CASE w \in [lit : Texts]
      <4>1. DOMAIN w = {"lit"} /\ w.lit \in Texts
        BY <3>1
      <4> QED BY <4>1 DEF Expand
    <3>2. CASE DOMAIN w = {"ref"}
      BY <2>3, <2>4, <3>2 DEF Missing, BareRef, Expand
    <3>3. CASE DOMAIN w = {"ref", "or"} /\ w.or \in Texts
      BY <2>3, <3>3 DEF Expand
    <3> QED BY <2>4, <3>1, <3>2, <3>3 DEF IsWritten
  <2> QED BY <2>1, <2>2, <2>4 DEF InForce
<1>3. ASSUME NEW a \in Addresses(doc)
      PROVE  /\ Inventory(doc, e)[a] \in [Fields -> Texts]
             /\ \A f \in Fields : Inventory(doc, e)[a][f] = InForce(doc, a, f, e)
  <2>1. \A f \in Fields : Inventory(doc, e)[a][f] = InForce(doc, a, f, e)
    BY <1>1, DecodeInForce
  <2>2. Inventory(doc, e)[a] = [f \in Fields |-> Inventory(doc, e)[a][f]]
    BY <1>1 DEF Decode
  <2> QED BY <1>2, <2>1, <2>2
<1> QED BY <1>1, <1>3

------------------------------------------------------------------------------
(* One start *)

Settled(s) == phase[s] \in {"loaded", "serving"}

\* How far Load has come.
PhaseInv(s) ==
    /\ phase[s] = "off" => path[s] = NoPath /\ ~haveFile[s] /\ ~touched[s]
    /\ phase[s] = "resolved" => ~haveFile[s]
    /\ phase[s] \in {"resolved", "checked"} => path[s] = InitPath(location[s])
    /\ ~Settled(s) => document[s] = NoDocument /\ diagnosis[s] = "none" /\ inventory[s] = <<>>

\* What was read decides what is served.
LoadInv(s) ==
    /\ document[s] # NoDocument => diagnosis[s] = Diagnosis(document[s], environ[s])
    /\ document[s] = NoDocument => inventory[s] = <<>>
    /\ diagnosis[s] # "none" => inventory[s] = <<>>
    /\ Serves(s) => document[s] # NoDocument /\ inventory[s] = Inventory(document[s], environ[s])

\* While nobody touches its file, a start and the file system agree.
PathInv(s) ==
    ~touched[s] =>
        /\ phase[s] # "off" => path[s] = Resolve(location[s])
        /\ phase[s] = "checked" => (haveFile[s] <=> FileExists(InitPath(location[s])))
        /\ Settled(s) =>
             /\ haveFile[s] <=> FileExists(InitPath(location[s]))
             /\ document[s] = IF files[InitPath(location[s])] \in Documents
                              THEN files[InitPath(location[s])] ELSE NoDocument
        /\ phase[s] = "serving" => shown[s] = path[s]

AnswerInv(s) ==
    answer[s].result # "none" =>
        /\ phase[s] = "serving" /\ answer[s].access \in {"read", "write"}
        /\ answer[s].result = Result(s, answer[s].address, answer[s].access)

ServerInv(s) == PhaseInv(s) /\ LoadInv(s) /\ PathInv(s) /\ AnswerInv(s)

\* inventory and answer are functions of the servers.
ShapeInv ==
    /\ inventory = [s \in Servers |-> inventory[s]]
    /\ answer = [s \in Servers |-> answer[s]]

StartupInv == TypeOK /\ ShapeInv /\ \A s \in Servers : ServerInv(s)

LEMMA Located ==
    ASSUME TypeOK, NEW s \in Processes
    PROVE  /\ InitPath(location[s]) \in Paths /\ XdgPath \in Paths
           /\ NamedPath(location[s]) \in Paths \cup {NoPath}
           /\ Resolve(location[s]) \in {InitPath(location[s]), NoPath}
           /\ Resolve(location[s]) = NoPath =>
                InitPath(location[s]) = XdgPath /\ ~FileExists(XdgPath)
<1>1. location[s] \in [flag : Paths \cup {NoPath}, variable : Paths \cup {NoPath}]
  BY StartupAssumption DEF TypeOK
<1>2. XdgPath \in Paths /\ NoPath \notin Paths
  BY StartupAssumption
<1> QED BY <1>1, <1>2 DEF NamedPath, InitPath, Resolve

\* A step that leaves a server and the files alone.
LEMMA Frame ==
    ASSUME NEW t \in Servers, ServerInv(t),
           files' = files, location' = location, environ' = environ,
           touched'[t] = touched[t], phase'[t] = phase[t], path'[t] = path[t],
           haveFile'[t] = haveFile[t], document'[t] = document[t], diagnosis'[t] = diagnosis[t],
           inventory'[t] = inventory[t], shown'[t] = shown[t], answer'[t] = answer[t]
    PROVE  ServerInv(t)'
<1>1. PhaseInv(t)'
  BY DEF ServerInv, PhaseInv, Settled
<1>2. LoadInv(t)'
  BY DEF ServerInv, LoadInv, Serves
<1>3. PathInv(t)'
  BY DEF ServerInv, PathInv, Settled, FileExists, Resolve
<1>4. AnswerInv(t)'
  BY DEF ServerInv, AnswerInv, Result
<1> QED BY <1>1, <1>2, <1>3, <1>4 DEF ServerInv

\* A step that changes what is at one path touches the servers it belongs to.
LEMMA FileStep ==
    ASSUME TypeOK, NEW t \in Servers, ServerInv(t), NEW p \in Paths, NEW c,
           files' = [files EXCEPT ![p] = c], Touches(p),
           UNCHANGED <<location, environ, phase, path, haveFile, loads, shown, answer>>
    PROVE  ServerInv(t)'
<1> USE DEF loads
<1>1. touched'[t] = (touched[t] \/ (phase[t] # "off" /\ InitPath(location[t]) = p))
  BY DEF Touches
<1>2. touched[t] \in BOOLEAN /\ touched'[t] \in BOOLEAN
  BY <1>1 DEF TypeOK
<1>3. PhaseInv(t)'
  BY <1>1, <1>2 DEF ServerInv, PhaseInv, Settled
<1>4. LoadInv(t)'
  BY DEF ServerInv, LoadInv, Serves
<1>5. PathInv(t)'
  <2>1. CASE phase[t] = "off"
    BY <2>1 DEF PathInv, Settled
  <2>2. CASE phase[t] # "off" /\ InitPath(location[t]) = p
    BY <1>1, <2>2 DEF PathInv
  <2>3. CASE phase[t] # "off" /\ InitPath(location[t]) # p
    <3>1. touched'[t] = touched[t]
      BY <1>1, <1>2, <2>3
    <3>2. files'[InitPath(location[t])] = files[InitPath(location[t])]
      BY <2>3, Located DEF TypeOK, Processes
    <3>3. InitPath(location'[t]) = InitPath(location[t]) /\ NamedPath(location'[t]) = NamedPath(location[t])
      OBVIOUS
    <3>4. Resolve(location[t])' = Resolve(location[t])
      BY <3>2 DEF Resolve, FileExists, InitPath
    <3> QED BY <3>1, <3>2, <3>3, <3>4 DEF ServerInv, PathInv, Settled, FileExists
  <2> QED BY <2>1, <2>2, <2>3
<1>6. AnswerInv(t)'
  BY DEF ServerInv, AnswerInv, Result
<1> QED BY <1>3, <1>4, <1>5, <1>6 DEF ServerInv

------------------------------------------------------------------------------
(* The steps of a server *)

LEMMA ResolvesInv ==
    ASSUME StartupInv, NEW s \in Servers, LoadResolves(s)
    PROVE  \A t \in Servers : ServerInv(t)'
<1> USE DEF loads
<1>1. /\ phase[s] = "off" /\ ServerInv(s)
      /\ path' = [path EXCEPT ![s] = Resolve(location[s])]
      /\ path \in [Servers -> Paths \cup {NoPath}]
      /\ phase \in [Servers -> {"off", "resolved", "checked", "loaded", "serving"}]
      /\ diagnosis \in [Servers -> {"none", "none found", "cannot be read", "malformed",
                                    "no environments", "unusable"}]
  BY DEF LoadResolves, StartupInv, TypeOK
<1>2. ASSUME NEW t \in Servers, t # s
      PROVE  ServerInv(t)'
  BY <1>1, <1>2, Frame DEF LoadResolves, StartupInv
<1>3. path'[s] = Resolve(location[s]) /\ ~haveFile'[s] /\ ~touched'[s]
  BY <1>1 DEF LoadResolves, ServerInv, PhaseInv
<1>4. document'[s] = NoDocument /\ inventory'[s] = <<>> /\ answer'[s].result = "none"
  BY <1>1 DEF LoadResolves, ServerInv, PhaseInv, AnswerInv, Settled
<1>5. CASE Resolve(location[s]) = NoPath
  <2>1. phase'[s] = "loaded" /\ diagnosis'[s] = "none found"
    BY <1>1, <1>5 DEF LoadResolves
  <2>2. InitPath(location[s]) = XdgPath /\ ~FileExists(XdgPath)
    BY <1>5, Located DEF StartupInv, Processes
  <2>3. files[XdgPath] \notin Documents
    BY <2>2, StartupAssumption DEF FileExists
  <2>4. PhaseInv(s)' /\ LoadInv(s)' /\ AnswerInv(s)'
    BY <1>4, <2>1 DEF PhaseInv, LoadInv, AnswerInv, Settled, Serves
  <2>5. PathInv(s)'
    <3>1. /\ Resolve(location[s])' = Resolve(location[s]) /\ InitPath(location[s])' = XdgPath
          /\ ~FileExists(XdgPath)' /\ files'[XdgPath] \notin Documents
      BY <2>2, <2>3 DEF LoadResolves, Resolve, InitPath, NamedPath, FileExists
    <3>2. FileExists(InitPath(location[s]))' <=> FileExists(XdgPath)'
      BY <3>1 DEF FileExists
    <3> QED BY <1>3, <1>4, <2>1, <3>1, <3>2 DEF PathInv, Settled
  <2> QED BY <1>2, <2>4, <2>5 DEF ServerInv
<1>6. CASE Resolve(location[s]) # NoPath
  <2>1. phase'[s] = "resolved" /\ diagnosis'[s] = "none"
    BY <1>1, <1>6 DEF LoadResolves, ServerInv, PhaseInv, Settled
  <2>2. path'[s] = InitPath(location[s])'
    BY <1>3, <1>6, Located DEF LoadResolves, StartupInv, Processes, InitPath, NamedPath
  <2>3. Resolve(location[s])' = Resolve(location[s])
    BY DEF LoadResolves, Resolve, NamedPath, FileExists
  <2> QED BY <1>2, <1>3, <1>4, <2>1, <2>2, <2>3
          DEF ServerInv, PhaseInv, LoadInv, PathInv, AnswerInv, Settled, Serves
<1> QED BY <1>5, <1>6

LEMMA ChecksInv ==
    ASSUME StartupInv, NEW s \in Servers, LoadChecks(s)
    PROVE  \A t \in Servers : ServerInv(t)'
<1> USE DEF loads
<1>1. /\ phase[s] = "resolved" /\ ServerInv(s)
      /\ haveFile \in [Servers -> BOOLEAN]
      /\ phase \in [Servers -> {"off", "resolved", "checked", "loaded", "serving"}]
  BY DEF LoadChecks, StartupInv, TypeOK
<1>2. ASSUME NEW t \in Servers, t # s
      PROVE  ServerInv(t)'
  BY <1>1, <1>2, Frame DEF LoadChecks, StartupInv
<1>3. phase'[s] = "checked" /\ (haveFile'[s] <=> FileExists(path[s]))
  BY <1>1 DEF LoadChecks
<1>4. path'[s] = InitPath(location[s])' /\ path[s] = InitPath(location[s])
  BY <1>1 DEF LoadChecks, ServerInv, PhaseInv, InitPath, NamedPath
<1>5. FileExists(path[s]) <=> FileExists(InitPath(location[s]))'
  BY <1>4 DEF LoadChecks, FileExists
<1>6. /\ document'[s] = NoDocument /\ diagnosis'[s] = "none" /\ inventory'[s] = <<>>
      /\ answer'[s].result = "none"
  BY <1>1 DEF LoadChecks, ServerInv, PhaseInv, AnswerInv, Settled
<1>7. PhaseInv(s)' /\ LoadInv(s)' /\ AnswerInv(s)'
  BY <1>3, <1>4, <1>6 DEF PhaseInv, LoadInv, AnswerInv, Settled, Serves
<1>8. PathInv(s)'
  <2>1. ~touched[s] => path[s] = Resolve(location[s])
    BY <1>1 DEF ServerInv, PathInv
  <2>2. /\ Resolve(location[s])' = Resolve(location[s])
        /\ path'[s] = path[s] /\ touched'[s] = touched[s]
    BY DEF LoadChecks, Resolve, NamedPath, FileExists
  <2> QED BY <1>3, <1>5, <2>1, <2>2 DEF PathInv, Settled
<1> QED BY <1>2, <1>7, <1>8 DEF ServerInv

LEMMA ReadsInv ==
    ASSUME StartupInv, NEW s \in Servers, LoadReads(s)
    PROVE  \A t \in Servers : ServerInv(t)'
<1> DEFINE found == files[path[s]]
<1> USE DEF loads
<1>1. /\ phase[s] = "checked" /\ ServerInv(s)
      /\ phase \in [Servers -> {"off", "resolved", "checked", "loaded", "serving"}]
      /\ document \in [Servers -> Read]
      /\ diagnosis \in [Servers -> {"none", "none found", "cannot be read", "malformed",
                                    "no environments", "unusable"}]
      /\ inventory = [t \in Servers |-> inventory[t]]
  BY DEF LoadReads, StartupInv, TypeOK, ShapeInv
<1>2. ASSUME NEW t \in Servers, t # s
      PROVE  ServerInv(t)'
  <2>1. /\ phase'[t] = phase[t] /\ document'[t] = document[t]
        /\ diagnosis'[t] = diagnosis[t] /\ inventory'[t] = inventory[t]
    BY <1>1, <1>2 DEF LoadReads
  <2>2. /\ files' = files /\ location' = location /\ environ' = environ
        /\ path' = path /\ haveFile' = haveFile /\ shown' = shown /\ answer' = answer
        /\ touched' = touched
    BY DEF LoadReads
  <2>3. ServerInv(t)
    BY DEF StartupInv
  <2> QED BY <2>1, <2>2, <2>3, Frame
<1>3. /\ phase'[s] = "loaded" /\ path[s] = InitPath(location[s])
      /\ document[s] = NoDocument /\ diagnosis[s] = "none" /\ inventory[s] = <<>>
      /\ answer[s].result = "none"
  BY <1>1 DEF LoadReads, ServerInv, PhaseInv, AnswerInv, Settled
<1>4. /\ NoDocument \notin Documents
      /\ {Absent, Directory, Unreadable, Malformed, Torn} \cap Documents = {}
      /\ NoPath \notin Paths
  BY StartupAssumption
<1>5. \/ /\ found \notin Documents /\ document'[s] = NoDocument
         /\ diagnosis'[s] # "none" /\ inventory'[s] = <<>>
      \/ /\ found \in Documents /\ document'[s] = found
         /\ diagnosis'[s] = Diagnosis(found, environ[s])
         /\ inventory'[s] = IF Diagnosis(found, environ[s]) = "none"
                            THEN Inventory(found, environ[s]) ELSE <<>>
  <2>1. CASE found \in {Absent, Directory, Unreadable, Malformed, Torn}
    BY <1>1, <1>3, <1>4, <2>1 DEF LoadReads
  <2>2. CASE found \in Documents
    BY <1>1, <1>3, <1>4, <2>2 DEF LoadReads
  <2> QED BY <2>1, <2>2 DEF LoadReads
<1>6. PhaseInv(s)' /\ AnswerInv(s)'
  BY <1>3 DEF LoadReads, PhaseInv, AnswerInv, Settled
<1>7. LoadInv(s)'
  <2>1. environ' = environ
    BY DEF LoadReads
  <2> HIDE DEF found
  <2> QED BY <1>4, <1>5, <2>1 DEF LoadInv, Serves, Diagnosis, Settled
<1>8. PathInv(s)'
  <2>1. /\ files' = files /\ InitPath(location[s])' = path[s] /\ InitPath(location[s]) = path[s]
        /\ path'[s] = path[s] /\ haveFile'[s] = haveFile[s] /\ touched'[s] = touched[s]
    BY <1>3 DEF LoadReads, InitPath, NamedPath
  <2>2. document'[s] = IF files'[path[s]] \in Documents THEN files'[path[s]] ELSE NoDocument
    BY <1>5, <2>1
  <2>3. ~touched[s] => (haveFile[s] <=> FileExists(path[s]))
    BY <1>1, <2>1 DEF ServerInv, PathInv
  <2>4. FileExists(path[s]) <=> FileExists(InitPath(location[s]))'
    BY <2>1 DEF FileExists
  <2>5. ~touched[s] => path[s] = Resolve(location[s])'
    BY <1>1, <2>1 DEF LoadReads, ServerInv, PathInv, Resolve, InitPath, FileExists, NamedPath
  <2> QED BY <1>3, <2>1, <2>2, <2>3, <2>4, <2>5 DEF PathInv, Settled
<1> QED BY <1>2, <1>6, <1>7, <1>8 DEF ServerInv

LEMMA ResolvesAgainInv ==
    ASSUME StartupInv, NEW s \in Servers, ResolvesAgain(s)
    PROVE  \A t \in Servers : ServerInv(t)'
<1> USE DEF loads
<1>1. /\ phase[s] = "loaded" /\ ServerInv(s)
      /\ shown' = [shown EXCEPT ![s] = Resolve(location[s])]
      /\ shown \in [Servers -> Paths \cup {NoPath}]
      /\ phase' = [phase EXCEPT ![s] = "serving"]
      /\ phase \in [Servers -> {"off", "resolved", "checked", "loaded", "serving"}]
  BY DEF ResolvesAgain, StartupInv, TypeOK
<1>2. ASSUME NEW t \in Servers, t # s
      PROVE  ServerInv(t)'
  BY <1>1, <1>2, Frame DEF ResolvesAgain, StartupInv
<1>3. phase'[s] = "serving" /\ shown'[s] = Resolve(location[s]) /\ answer'[s].result = "none"
  BY <1>1 DEF ResolvesAgain, ServerInv, AnswerInv
<1>4. PhaseInv(s)' /\ LoadInv(s)' /\ AnswerInv(s)'
  BY <1>1, <1>3 DEF ResolvesAgain, ServerInv, PhaseInv, LoadInv, AnswerInv, Settled, Serves
<1>5. PathInv(s)'
  <2>1. Resolve(location[s])' = Resolve(location[s]) /\ InitPath(location[s])' = InitPath(location[s])
    BY DEF ResolvesAgain, Resolve, InitPath, NamedPath, FileExists
  <2>2. files' = files /\ path' = path /\ touched' = touched /\ haveFile' = haveFile /\ document' = document
    BY DEF ResolvesAgain
  <2> QED BY <1>1, <1>3, <2>1, <2>2 DEF ServerInv, PathInv, Settled, FileExists
<1> QED BY <1>2, <1>4, <1>5 DEF ServerInv

LEMMA CallInv ==
    ASSUME StartupInv, NEW s \in Servers, NEW a \in Requests, NEW access \in {"read", "write"},
           Call(s, a, access)
    PROVE  \A t \in Servers : ServerInv(t)'
<1> USE DEF loads
<1>1. /\ phase[s] = "serving" /\ ServerInv(s)
      /\ answer' = [answer EXCEPT ![s] =
                      [address |-> a, access |-> access, result |-> Result(s, a, access)]]
      /\ answer = [t \in Servers |-> answer[t]]
  BY DEF Call, StartupInv, ShapeInv
<1>2. ASSUME NEW t \in Servers, t # s
      PROVE  ServerInv(t)'
  BY <1>1, <1>2, Frame DEF Call, StartupInv
<1>3. answer'[s] = [address |-> a, access |-> access, result |-> Result(s, a, access)]
  BY <1>1
<1>4. Result(s, a, access)' = Result(s, a, access)
  BY DEF Call, Result
<1>5. AnswerInv(s)'
  <2>1. /\ answer'[s].address = a /\ answer'[s].access = access
        /\ answer'[s].result = Result(s, a, access)
    BY <1>3
  <2>2. Result(s, answer[s].address, answer[s].access)' = Result(s, a, access)
    BY <2>1 DEF Call, Result
  <2> QED BY <1>1, <2>1, <2>2 DEF Call, AnswerInv
<1>6. PhaseInv(s)' /\ LoadInv(s)' /\ PathInv(s)'
  <2>1. Resolve(location[s])' = Resolve(location[s]) /\ InitPath(location[s])' = InitPath(location[s])
    BY DEF Call, Resolve, InitPath, NamedPath, FileExists
  <2>2. PhaseInv(s)' /\ LoadInv(s)'
    BY <1>1 DEF Call, ServerInv, PhaseInv, LoadInv, Settled, Serves
  <2> QED BY <1>1, <2>1, <2>2 DEF Call, ServerInv, PathInv, Settled, FileExists
<1> QED BY <1>2, <1>5, <1>6 DEF ServerInv

------------------------------------------------------------------------------
(* --init, the operator, and every step together *)

LEMMA FilesInv ==
    ASSUME StartupInv,
           Edit \/ \E i \in Inits : InitChecks(i) \/ InitOpens(i) \/ InitWrites(i) \/ InitDies(i)
    PROVE  \A t \in Servers : ServerInv(t)'
<1> SUFFICES ASSUME NEW t \in Servers
             PROVE  ServerInv(t)'
  OBVIOUS
<1> USE DEF loads
<1>1. TypeOK /\ ServerInv(t) /\ files = [p \in Paths |-> files[p]]
  BY DEF StartupInv, TypeOK
<1>2. CASE Edit
  <2>1. PICK p \in Paths, c \in Contents : files' = [files EXCEPT ![p] = c] /\ Touches(p)
    BY <1>2 DEF Edit
  <2> QED BY <1>1, <1>2, <2>1, FileStep DEF Edit
<1>3. ASSUME NEW i \in Inits, InitChecks(i) \/ InitDies(i)
      PROVE  ServerInv(t)'
  BY <1>1, <1>3, Frame DEF InitChecks, InitDies
<1>4. ASSUME NEW i \in Inits, InitOpens(i)
      PROVE  ServerInv(t)'
  <2> DEFINE p == InitPath(location[i])
  <2>1. p \in Paths
    BY <1>1, Located DEF Processes
  <2>2. CASE files[p] \in {Directory, Unreadable}
    BY <1>1, <1>4, <2>2, Frame DEF InitOpens
  <2>3. CASE files[p] \notin {Directory, Unreadable}
    <3>1. files' = [files EXCEPT ![p] = Torn] /\ Touches(p)
      BY <1>4, <2>3 DEF InitOpens
    <3> HIDE DEF p
    <3> QED BY <1>1, <1>4, <2>1, <3>1, FileStep DEF InitOpens
  <2> QED BY <2>2, <2>3
<1>5. ASSUME NEW i \in Inits, InitWrites(i)
      PROVE  ServerInv(t)'
  <2> DEFINE p == InitPath(location[i])
  <2>1. p \in Paths
    BY <1>1, Located DEF Processes
  <2>2. \E c : files' = [files EXCEPT ![p] = c]
    <3>1. files = [files EXCEPT ![p] = files[p]]
      BY <1>1
    <3> QED BY <1>5, <3>1 DEF InitWrites
  <2>3. Touches(p)
    BY <1>5 DEF InitWrites
  <2> HIDE DEF p
  <2> QED BY <1>1, <1>5, <2>1, <2>2, <2>3, FileStep DEF InitWrites
<1> QED BY <1>2, <1>3, <1>4, <1>5

LEMMA TypeInv ==
    ASSUME StartupInv, [Next]_vars
    PROVE  TypeOK' /\ ShapeInv'
<1> USE DEF loads
<1>1. TypeOK /\ ShapeInv /\ XdgPath \in Paths
  BY StartupAssumption DEF StartupInv
<1>2. \A c \in {Torn, Minimal, Malformed} : c \in Contents
  BY StartupAssumption DEF Contents
<1>3. ASSUME NEW s \in Servers, LoadResolves(s)
      PROVE  TypeOK' /\ ShapeInv'
  <2>1. Resolve(location[s]) \in Paths \cup {NoPath}
    BY <1>1, Located DEF Processes
  <2> QED BY <1>1, <1>3, <2>1 DEF LoadResolves, TypeOK, ShapeInv
<1>4. ASSUME NEW s \in Servers, LoadChecks(s)
      PROVE  TypeOK' /\ ShapeInv'
  <2>1. FileExists(path[s]) \in BOOLEAN
    BY DEF FileExists
  <2> QED BY <1>1, <1>4, <2>1 DEF LoadChecks, TypeOK, ShapeInv
<1>5. ASSUME NEW s \in Servers, LoadReads(s)
      PROVE  TypeOK' /\ ShapeInv'
  <2> DEFINE found == files[path[s]]
  <2>1. Diagnosis(found, environ[s]) \in {"none", "no environments", "unusable"}
    BY DEF Diagnosis
  <2>2. /\ document' \in [Servers -> Read]
        /\ diagnosis' \in [Servers -> {"none", "none found", "cannot be read", "malformed",
                                       "no environments", "unusable"}]
        /\ phase' \in [Servers -> {"off", "resolved", "checked", "loaded", "serving"}]
    BY <1>1, <1>5, <2>1 DEF LoadReads, TypeOK, Read
  <2>3. /\ inventory' = [t \in Servers |-> inventory'[t]]
        /\ \A t \in Servers : \A a \in DOMAIN inventory'[t] : inventory'[t][a] \in [Fields -> Texts]
    <3>1. CASE inventory' = inventory
      BY <1>1, <3>1 DEF TypeOK, ShapeInv
    <3>2. CASE inventory' # inventory
      <4>1. /\ found \in Documents /\ Diagnosis(found, environ[s]) = "none"
            /\ inventory' = [inventory EXCEPT ![s] = Inventory(found, environ[s])]
        BY <1>5, <3>2 DEF LoadReads
      <4>2. Loads(found, environ[s]) /\ environ[s] \in Environs
        BY <1>1, <4>1 DEF Diagnosis, TypeOK
      <4> HIDE DEF found
      <4>3. \A a \in DOMAIN Inventory(found, environ[s]) :
               Inventory(found, environ[s])[a] \in [Fields -> Texts]
        BY <4>1, <4>2, InventoryInForce
      <4> QED BY <1>1, <4>1, <4>3 DEF TypeOK, ShapeInv
    <3> QED BY <3>1, <3>2
  <2> QED BY <1>1, <1>5, <2>2, <2>3 DEF LoadReads, TypeOK, ShapeInv
<1>6. ASSUME NEW s \in Servers, ResolvesAgain(s)
      PROVE  TypeOK' /\ ShapeInv'
  <2>1. Resolve(location[s]) \in Paths \cup {NoPath}
    BY <1>1, Located DEF Processes
  <2> QED BY <1>1, <1>6, <2>1 DEF ResolvesAgain, TypeOK, ShapeInv
<1>7. ASSUME NEW s \in Servers, NEW a, NEW access, Call(s, a, access)
      PROVE  TypeOK' /\ ShapeInv'
  BY <1>1, <1>7 DEF Call, TypeOK, ShapeInv
<1>8. ASSUME NEW p \in Paths, Touches(p)
      PROVE  touched' \in [Servers -> BOOLEAN]
  BY <1>1, <1>8 DEF Touches, TypeOK
<1>9. ASSUME NEW i \in Inits, InitChecks(i) \/ InitDies(i)
      PROVE  TypeOK' /\ ShapeInv'
  BY <1>1, <1>9 DEF InitChecks, InitDies, TypeOK, ShapeInv
<1>10. ASSUME NEW i \in Inits, InitOpens(i)
       PROVE  TypeOK' /\ ShapeInv'
  <2>1. InitPath(location[i]) \in Paths
    BY <1>1, Located DEF Processes
  <2>2. files' \in [Paths -> Contents] /\ touched' \in [Servers -> BOOLEAN]
    BY <1>1, <1>2, <1>8, <1>10, <2>1 DEF InitOpens, TypeOK
  <2> QED BY <1>1, <1>10, <2>2 DEF InitOpens, TypeOK, ShapeInv
<1>11. ASSUME NEW i \in Inits, InitWrites(i)
       PROVE  TypeOK' /\ ShapeInv'
  <2>1. InitPath(location[i]) \in Paths
    BY <1>1, Located DEF Processes
  <2>2. files[InitPath(location[i])] \in Contents
    BY <1>1, <2>1 DEF TypeOK
  <2>3. files' \in [Paths -> Contents] /\ touched' \in [Servers -> BOOLEAN]
    <3>1. Touches(InitPath(location[i]))
      BY <1>11 DEF InitWrites
    <3>2. files \in [Paths -> Contents]
      BY <1>1 DEF TypeOK
    <3>3. files' = files \/ \E c \in Contents : files' = [files EXCEPT ![InitPath(location[i])] = c]
      BY <1>2, <1>11, <2>2 DEF InitWrites
    <3>4. files' \in [Paths -> Contents]
      BY <3>2, <3>3
    <3> QED BY <1>8, <2>1, <3>1, <3>4
  <2> QED BY <1>1, <1>11, <2>3 DEF InitWrites, TypeOK, ShapeInv
<1>12. CASE Edit
  <2>1. files' \in [Paths -> Contents] /\ touched' \in [Servers -> BOOLEAN]
    BY <1>1, <1>8, <1>12 DEF Edit, TypeOK
  <2>2. edits' \in 0..MaxEdits
    <3>1. edits \in 0..MaxEdits /\ edits < MaxEdits /\ edits' = edits + 1
      BY <1>1, <1>12 DEF Edit, TypeOK
    <3>2. MaxEdits \in Nat
      BY StartupAssumption
    <3> QED BY <3>1, <3>2
  <2> QED BY <1>1, <1>12, <2>1, <2>2 DEF Edit, TypeOK, ShapeInv
<1>13. CASE UNCHANGED vars
  BY <1>1, <1>13 DEF vars, TypeOK, ShapeInv
<1> QED BY <1>3, <1>4, <1>5, <1>6, <1>7, <1>9, <1>10, <1>11, <1>12, <1>13 DEF Next, Start

\* The inductive invariant of a start, for any number of servers, paths, documents and
\* edits: what each phase has found out, and that it is still so while nobody touches the
\* server's file.
THEOREM SpecInv == Spec => []StartupInv
<1>1. Init => StartupInv
  <2> SUFFICES ASSUME Init
               PROVE  StartupInv
    OBVIOUS
  <2> USE DEF Init
  <2>1. TypeOK
    <3>1. /\ Absent \in Contents /\ NoDocument \in Read /\ 0 \in 0..MaxEdits
      BY StartupAssumption DEF Contents, Read
    <3> QED BY <3>1 DEF TypeOK
  <2>2. ShapeInv
    BY DEF ShapeInv
  <2>3. ASSUME NEW s \in Servers
        PROVE  ServerInv(s)
    <3>1. phase[s] = "off" /\ document[s] = NoDocument /\ diagnosis[s] = "none" /\ inventory[s] = <<>>
      OBVIOUS
    <3>2. path[s] = NoPath /\ ~haveFile[s] /\ ~touched[s] /\ answer[s].result = "none"
      BY DEF NoAnswer
    <3> QED BY <3>1, <3>2 DEF ServerInv, PhaseInv, LoadInv, PathInv, AnswerInv, Settled, Serves
  <2> QED BY <2>1, <2>2, <2>3 DEF StartupInv
<1>2. StartupInv /\ [Next]_vars => StartupInv'
  <2> SUFFICES ASSUME StartupInv, [Next]_vars
               PROVE  \A t \in Servers : ServerInv(t)'
    BY TypeInv DEF StartupInv
  <2>1. ASSUME NEW s \in Servers, Start(s)
        PROVE  \A t \in Servers : ServerInv(t)'
    BY <2>1, ResolvesInv, ChecksInv, ReadsInv, ResolvesAgainInv DEF Start
  <2>2. ASSUME UNCHANGED vars, NEW t \in Servers
        PROVE  ServerInv(t)'
    BY <2>2, Frame DEF vars, loads, StartupInv
  <2> QED BY <2>1, <2>2, CallInv, FilesInv DEF Next
<1> QED BY <1>1, <1>2, PTL DEF Spec

\* Every setting that is served has a value of its own or its default.
THEOREM TypeCorrect == Spec => []TypeOK
<1>1. StartupInv => TypeOK
  BY DEF StartupInv
<1> QED BY <1>1, SpecInv, PTL

\* A document that is served was read, and accepted.
LEMMA ServedDocument ==
    ASSUME StartupInv, NEW s \in Servers
    PROVE  /\ environ[s] \in Environs /\ document[s] \in Documents \cup {NoDocument}
           /\ document[s] # NoDocument => (Serves(s) <=> Usable(document[s], environ[s]))
           /\ document[s] # NoDocument => (diagnosis[s] = "none" <=> Usable(document[s], environ[s]))
           /\ Serves(s) => /\ document[s] # NoDocument
                           /\ inventory[s] = Inventory(document[s], environ[s])
<1>1. PhaseInv(s) /\ LoadInv(s)
  BY DEF StartupInv, ServerInv
<1>2. environ[s] \in Environs /\ document[s] \in Documents \cup {NoDocument}
  BY DEF StartupInv, TypeOK, Read
<1>3. ASSUME document[s] # NoDocument
      PROVE  diagnosis[s] = "none" <=> Usable(document[s], environ[s])
  <2>1. Usable(document[s], environ[s]) => DOMAIN document[s].environments # {}
    BY DEF Usable
  <2> QED BY <1>1, <1>3, <2>1, LoadsTheUsable DEF LoadInv, Diagnosis
<1>4. document[s] # NoDocument => phase[s] \in {"loaded", "serving"}
  BY <1>1 DEF PhaseInv, Settled
<1> QED BY <1>1, <1>2, <1>3, <1>4 DEF LoadInv, Serves

\* No server serves from a file with a literal secret, on whatever level.
THEOREM NoLiteralIsServed == Spec => []SecretsAreReferences
<1>1. StartupInv => SecretsAreReferences
  BY ServedDocument DEF SecretsAreReferences, Usable
<1> QED BY <1>1, SpecInv, PTL

\* A start is degraded exactly if the document it read is unusable.
THEOREM DegradedRightly == Spec => []DegradedWhenUnusable
<1>1. StartupInv => DegradedWhenUnusable
  BY ServedDocument DEF DegradedWhenUnusable
<1> QED BY <1>1, SpecInv, PTL

\* The config in force at an address is the one the lowest levels ask for.
THEOREM LowestLevelInForce == Spec => []LowestLevelWins
<1>1. StartupInv => LowestLevelWins
  <2> SUFFICES ASSUME StartupInv, NEW s \in Servers, Serves(s)
               PROVE  /\ DOMAIN inventory[s] = Addresses(document[s])
                      /\ \A a \in Addresses(document[s]), f \in Fields :
                           inventory[s][a][f] = InForce(document[s], a, f, environ[s])
    BY DEF LowestLevelWins
  <2>1. Loads(document[s], environ[s]) /\ document[s] \in Documents /\ environ[s] \in Environs
    BY ServedDocument, LoadsTheUsable
  <2>2. inventory[s] = Inventory(document[s], environ[s])
    BY ServedDocument
  <2> QED BY <2>1, <2>2, InventoryInForce
<1> QED BY <1>1, SpecInv, PTL

\* Calls are answered as the file says: whole refusal, unknown address, or readOnly.
THEOREM CallsFollowTheFile == Spec => []AnswersFollowTheFile
<1>1. StartupInv => AnswersFollowTheFile
  <2> SUFFICES ASSUME StartupInv, NEW s \in Servers, answer[s].result # "none"
               PROVE  LET ans == answer[s]
                          doc == document[s]
                          usable == doc # NoDocument /\ Usable(doc, environ[s])
                      IN  /\ ans.result = "not configured" => ~usable
                          /\ ans.result = "bad argument" => usable /\ ans.address \notin Addresses(doc)
                          /\ ans.result \in {"handled", "denied"} =>
                               /\ usable /\ ans.address \in Addresses(doc)
                               /\ (ans.result = "denied") <=>
                                    /\ ans.access = "write"
                                    /\ InForce(doc, ans.address, ReadOnly, environ[s]) = "true"
    BY DEF AnswersFollowTheFile
  <2> DEFINE a == answer[s].address
             access == answer[s].access
  <2>1. /\ phase[s] = "serving" /\ access \in {"read", "write"}
        /\ answer[s].result = Result(s, a, access)
    BY DEF StartupInv, ServerInv, AnswerInv
  <2>2. CASE diagnosis[s] # "none"
    <3>1. answer[s].result = "not configured"
      BY <2>1, <2>2 DEF Result
    <3>2. ~(document[s] # NoDocument /\ Usable(document[s], environ[s]))
      BY <2>2, ServedDocument
    <3> QED BY <3>1, <3>2
  <2>3. CASE diagnosis[s] = "none"
    <3>1. Serves(s)
      BY <2>1, <2>3 DEF Serves
    <3>2. document[s] # NoDocument /\ Usable(document[s], environ[s])
      BY <3>1, ServedDocument
    <3>3. DOMAIN inventory[s] = Addresses(document[s])
      BY <3>1, <3>2, ServedDocument, LoadsTheUsable, InventoryInForce
    <3>4. a \in Addresses(document[s]) =>
            inventory[s][a][ReadOnly] = InForce(document[s], a, ReadOnly, environ[s])
      BY <3>1, <3>2, ServedDocument, LoadsTheUsable, InventoryInForce, StartupAssumption
    <3>5. answer[s].result =
            IF a \notin Addresses(document[s]) THEN "bad argument"
            ELSE IF access = "write" /\ InForce(document[s], a, ReadOnly, environ[s]) = "true"
                 THEN "denied" ELSE "handled"
      BY <2>1, <2>3, <3>3, <3>4 DEF Result
    <3> QED BY <3>2, <3>5
  <2> QED BY <2>2, <2>3
<1> QED BY <1>1, SpecInv, PTL

\* Whatever happens to files, a start looks where --init would write and nowhere else, and
\* shows a named path that it read.
NamedInv ==
    \A s \in Servers :
        /\ phase[s] # "off" => path[s] \in {InitPath(location[s]), NoPath}
        /\ phase[s] # "off" /\ NamedPath(location[s]) # NoPath => path[s] = NamedPath(location[s])
        /\ phase[s] = "serving" /\ NamedPath(location[s]) # NoPath => shown[s] = NamedPath(location[s])

LEMMA NamedNext == TypeOK /\ NamedInv /\ [Next]_vars => NamedInv'
<1> SUFFICES ASSUME TypeOK, NamedInv, [Next]_vars PROVE NamedInv'
  OBVIOUS
<1> USE DEF NamedInv
<1>1. /\ path \in [Servers -> Paths \cup {NoPath}] /\ shown \in [Servers -> Paths \cup {NoPath}]
      /\ phase \in [Servers -> {"off", "resolved", "checked", "loaded", "serving"}]
  BY DEF TypeOK
<1>2. \A s \in Servers : /\ Resolve(location[s]) \in {InitPath(location[s]), NoPath}
                         /\ NamedPath(location[s]) # NoPath => Resolve(location[s]) = NamedPath(location[s])
  BY DEF Resolve, InitPath
<1>3. ASSUME NEW s \in Servers, LoadResolves(s) PROVE NamedInv'
  BY <1>1, <1>2, <1>3 DEF LoadResolves
<1>4. ASSUME NEW s \in Servers, LoadChecks(s) PROVE NamedInv'
  BY <1>1, <1>4 DEF LoadChecks
<1>5. ASSUME NEW s \in Servers, LoadReads(s) PROVE NamedInv'
  <2>1. UNCHANGED <<path, shown, location>> /\ phase[s] = "checked" /\ phase' = [phase EXCEPT ![s] = "loaded"]
    BY <1>5 DEF LoadReads
  <2> QED BY <1>1, <2>1
<1>6. ASSUME NEW s \in Servers, ResolvesAgain(s) PROVE NamedInv'
  BY <1>1, <1>2, <1>6 DEF ResolvesAgain
<1>7. ASSUME UNCHANGED <<path, shown, location, phase>> PROVE NamedInv'
  BY <1>7
<1>8. ASSUME NEW s \in Servers, NEW a \in Requests, NEW access \in {"read", "write"}, Call(s, a, access)
      PROVE  NamedInv'
  BY <1>7, <1>8 DEF Call
<1>9. ASSUME NEW i \in Inits, InitChecks(i) \/ InitOpens(i) \/ InitWrites(i) \/ InitDies(i)
      PROVE  NamedInv'
  BY <1>7, <1>9 DEF InitChecks, InitOpens, InitWrites, InitDies
<1>10. CASE Edit
  BY <1>7, <1>10 DEF Edit
<1>11. CASE UNCHANGED vars
  BY <1>7, <1>11 DEF vars
<1> QED BY <1>3, <1>4, <1>5, <1>6, <1>8, <1>9, <1>10, <1>11 DEF Next, Start

LEMMA NamedAlways == Spec => []NamedInv
<1>1. Init => NamedInv
  BY DEF Init, NamedInv
<1> QED BY <1>1, NamedNext, TypeCorrect, PTL DEF Spec

\* A start reads the file --init would write, and no other.
THEOREM ReadsTheNamedFile == Spec => []ReadsWhereInitWrites
<1>1. StartupInv /\ NamedInv => ReadsWhereInitWrites
  BY DEF StartupInv, ServerInv, PathInv, Settled, NamedInv, ReadsWhereInitWrites
<1> QED BY <1>1, SpecInv, NamedAlways, PTL

\* The advice of a degraded start fits what --init does.
THEOREM AdviceIsRight == Spec => []AdviceHelps
<1>1. StartupInv => AdviceHelps
  BY DEF StartupInv, ServerInv, PathInv, Settled, AdviceHelps, FileExists
<1> QED BY <1>1, SpecInv, PTL

\* The path shown is the path read.
THEOREM ShownIsRead == Spec => []ShowsWhatItRead
<1>1. StartupInv /\ NamedInv => ShowsWhatItRead
  BY DEF StartupInv, ServerInv, PathInv, TypeOK, NamedInv, ShowsWhatItRead
<1> QED BY <1>1, SpecInv, NamedAlways, PTL
=============================================================================
